----------------------------- MODULE WalletProofs -----------------------------
(***************************************************************************)
(* Proofs about Wallet, for any players, transactions, ids and amounts.    *)
(***************************************************************************)
EXTENDS Wallet, FiniteSetTheorems, WellFoundedInduction, TLAPS

-----------------------------------------------------------------------------
(* Amounts *)

\* The whole part of an exact amount is an integer, and of a natural amount a
\* natural number.
LEMMA FloorType ==
  /\ \A x \in Int : Floor(x) \in Int
  /\ \A x \in Nat : Floor(x) \in Nat
  BY ScaleAssumption DEF Floor

\* A transfer fee is a natural number.
LEMMA FeeType == \A x \in Nat : Fee(x) \in Nat
  BY ScaleAssumption, FeeAssumption DEF Fee, Floor

-----------------------------------------------------------------------------
(* Sums *)

\* SumFunctionOnSet is a sum over the subsets of a set, each the term of a chosen
\* member and the sum of the others.  It is defined by CHOOSE as a function that
\* solves this recursion, and the lemmas need that a solution exists and that two
\* solutions agree.
SumOf(F, S) == SumFunctionOnSet(F, S)

Chosen(s) == CHOOSE x \in s : TRUE

SumStep(F, D, g) == [s \in D |-> IF s = {} THEN 0 ELSE F[Chosen(s)] + g[s \ {Chosen(s)}]]

Solves(F, S, g) == g = SumStep(F, SUBSET S, g)

\* What SumFunctionOnSet is, by its definition.
LEMMA SumIs ==
  ASSUME NEW F, NEW S
  PROVE  SumFunctionOnSet(F, S) = (CHOOSE g : g = SumStep(F, SUBSET S, g))[S]
  BY DEF SumFunctionOnSet, FoldFunctionOnSet, MapThenFoldSet, SumStep, Chosen

\* Among subsets of a finite set there is a smallest one.
LEMMA Smallest ==
  ASSUME NEW S, IsFiniteSet(S), NEW B, B \subseteq SUBSET S, B # {}
  PROVE  \E T \in B : \A U \in B : U \subseteq T => U = T
<1> DEFINE R == StrictSubsetOrdering(S)
<1>1. B \subseteq FiniteSubsetsOf(S)
  BY FS_Subset DEF FiniteSubsetsOf
<1>2. PICK T \in B : \A U \in B : <<U, T>> \notin R
  BY <1>1, FS_StrictSubsetOrderingWellFounded, WFMin
<1>3. ASSUME NEW U \in B, U \subseteq T PROVE U = T
  BY <1>2, <1>3 DEF StrictSubsetOrdering
<1> QED
  BY <1>3

\* The chosen member is a member.
LEMMA ChosenIn == ASSUME NEW s, s # {} PROVE Chosen(s) \in s
  BY DEF Chosen

\* The recursion of a sum has a solution.
LEMMA Summable ==
  ASSUME NEW F, NEW S, IsFiniteSet(S)
  PROVE  \E g : g = SumStep(F, SUBSET S, g)
<1> DEFINE Level(n) == {s \in SUBSET S : Cardinality(s) <= n}
           Bad == {n \in Nat : ~ \E g : g = SumStep(F, Level(n), g)}
<1>0. \A s \in SUBSET S : IsFiniteSet(s) /\ Cardinality(s) \in Nat /\ Cardinality(s) <= Cardinality(S)
  BY FS_Subset, FS_CardinalityType
<1>1. SUFFICES ASSUME Bad # {} PROVE FALSE
  <2>1. Cardinality(S) \in Nat
    BY FS_CardinalityType
  <2>2. \E g : g = SumStep(F, Level(Cardinality(S)), g)
    BY <1>1, <2>1
  <2>3. Level(Cardinality(S)) = SUBSET S
    BY <1>0
  <2> QED
    BY <2>2, <2>3
<1>2. PICK n \in Bad : \A k \in Bad : ~(k < n)
  <2>1. PICK n \in Bad : \A k \in Bad : <<k, n>> \notin OpToRel(<, Nat)
    BY <1>1, NatLessThanWellFounded, WFMin
  <2> QED
    BY <2>1 DEF OpToRel
<1>3. CASE n = 0
  <2>1. \A s \in Level(0) : s = {}
    BY <1>0, FS_EmptySet
  <2>2. [s \in Level(0) |-> 0] = SumStep(F, Level(0), [s \in Level(0) |-> 0])
    BY <2>1 DEF SumStep
  <2> QED
    BY <1>2, <1>3, <2>2
<1>4. CASE n # 0
  <2>1. n \in Nat /\ n - 1 \in Nat /\ n - 1 < n
    BY <1>2, <1>4
  <2>2. n - 1 \notin Bad
    BY <1>2, <2>1
  <2>3. PICK g : g = SumStep(F, Level(n - 1), g)
    BY <2>1, <2>2
  <2> DEFINE h == SumStep(F, Level(n), g)
  <2>4. ASSUME NEW s \in Level(n), s # {}
        PROVE  s \ {Chosen(s)} \in Level(n - 1) /\ s \ {Chosen(s)} \in Level(n)
    <3>1. Cardinality(s \ {Chosen(s)}) = Cardinality(s) - 1
      BY <1>0, <2>4, ChosenIn, FS_RemoveElement
    <3> QED
      BY <1>0, <2>1, <3>1
  <2>5. ASSUME NEW s \in Level(n - 1) PROVE h[s] = g[s]
    <3>1. s \in Level(n)
      BY <1>0, <2>1
    <3> HIDE DEF Level
    <3> QED
      BY <2>3, <3>1 DEF SumStep
  <2> HIDE DEF Level
  <2>6. h = SumStep(F, Level(n), h)
    <3>1. ASSUME NEW s \in Level(n), s # {} PROVE g[s \ {Chosen(s)}] = h[s \ {Chosen(s)}]
      BY <2>4, <2>5, <3>1
    <3> HIDE DEF h
    <3>2. h = SumStep(F, Level(n), g)
      BY DEF h
    <3> QED
      BY <3>1, <3>2 DEF SumStep
  <2>7. \E f : f = SumStep(F, Level(n), f)
    BY <2>6
  <2> QED
    BY <1>2, <2>7
<1> QED
  BY <1>3, <1>4

\* A sum is the value of a solution.
LEMMA SumSolves ==
  ASSUME NEW F, NEW S, IsFiniteSet(S)
  PROVE  \E g : Solves(F, S, g) /\ SumOf(F, S) = g[S]
<1> DEFINE g == CHOOSE g : g = SumStep(F, SUBSET S, g)
<1>1. g = SumStep(F, SUBSET S, g)
  BY Summable
<1>2. SumOf(F, S) = g[S]
  BY SumIs DEF SumOf
<1> QED
  BY <1>1, <1>2 DEF Solves

SameOn(F, G, T) == \A x \in T : F[x] = G[x]

\* Two solutions agree on a set whose terms are the same in both.
LEMMA Agree ==
  ASSUME NEW F, NEW G, NEW S, NEW U, NEW T, IsFiniteSet(T), T \subseteq S, T \subseteq U,
         SameOn(F, G, T),
         NEW g, Solves(F, S, g), NEW h, Solves(G, U, h)
  PROVE  g[T] = h[T]
<1> DEFINE Bad == {s \in SUBSET T : g[s] # h[s]}
<1>1. SUFFICES ASSUME Bad # {} PROVE FALSE
  OBVIOUS
<1>2. PICK s \in Bad : \A t \in Bad : t \subseteq s => t = s
  <2>1. Bad \subseteq SUBSET T
    OBVIOUS
  <2> HIDE DEF Bad
  <2> QED
    BY <1>1, <2>1, Smallest
<1>3. /\ s \in SUBSET S /\ s \in SUBSET U /\ s \in SUBSET T /\ g[s] # h[s]
  BY <1>2
<1>4. /\ g[s] = IF s = {} THEN 0 ELSE F[Chosen(s)] + g[s \ {Chosen(s)}]
      /\ h[s] = IF s = {} THEN 0 ELSE G[Chosen(s)] + h[s \ {Chosen(s)}]
  BY <1>3 DEF SumStep, Solves
<1>5. s # {}
  BY <1>3, <1>4
<1>6. Chosen(s) \in s
  BY <1>5, ChosenIn
<1>7. s \ {Chosen(s)} \notin Bad
  BY <1>2, <1>6
<1>8. g[s \ {Chosen(s)}] = h[s \ {Chosen(s)}] /\ F[Chosen(s)] = G[Chosen(s)]
  BY <1>3, <1>6, <1>7 DEF SameOn
<1> QED
  BY <1>3, <1>4, <1>5, <1>8

\* Only the terms of the set matter.
LEMMA SumSame ==
  ASSUME NEW F, NEW G, NEW S, IsFiniteSet(S), \A x \in S : F[x] = G[x]
  PROVE  SumOf(F, S) = SumOf(G, S)
<1>1. PICK g : Solves(F, S, g) /\ SumOf(F, S) = g[S]
  BY SumSolves
<1>2. PICK h : Solves(G, S, h) /\ SumOf(G, S) = h[S]
  BY SumSolves
<1>3. S \subseteq S /\ SameOn(F, G, S)
  BY DEF SameOn
<1>4. g[S] = h[S]
  BY <1>1, <1>2, <1>3, Agree
<1> QED
  BY <1>1, <1>2, <1>4

\* Nothing sums to zero.
LEMMA SumEmpty ==
  ASSUME NEW F PROVE SumOf(F, {}) = 0
<1>1. PICK g : Solves(F, {}, g) /\ SumOf(F, {}) = g[{}]
  BY FS_EmptySet, SumSolves
<1> QED
  BY <1>1 DEF Solves, SumStep

\* A sum is the picked term and the sum of the others.
LEMMA SumUnfold ==
  ASSUME NEW F, NEW S, IsFiniteSet(S), S # {}
  PROVE  SumOf(F, S) = F[Chosen(S)] + SumOf(F, S \ {Chosen(S)})
<1> DEFINE R == S \ {Chosen(S)}
<1>1. PICK g : Solves(F, S, g) /\ SumOf(F, S) = g[S]
  BY SumSolves
<1>2. IsFiniteSet(R)
  BY FS_Subset
<1>3. PICK h : Solves(F, R, h) /\ SumOf(F, R) = h[R]
  BY <1>2, SumSolves
<1>4. R \subseteq S /\ R \subseteq R /\ SameOn(F, F, R)
  BY DEF SameOn
<1> HIDE DEF R
<1>5. g[R] = h[R]
  BY <1>1, <1>2, <1>3, <1>4, Agree
<1>6. g[S] = F[Chosen(S)] + g[R]
  BY <1>1 DEF SumStep, Solves, R
<1> QED
  BY <1>1, <1>3, <1>5, <1>6 DEF R

\* Zeros sum to zero.
LEMMA SumZero ==
  ASSUME NEW F, NEW S, IsFiniteSet(S), \A x \in S : F[x] = 0
  PROVE  SumOf(F, S) = 0
<1> DEFINE Bad == {s \in SUBSET S : SumOf(F, s) # 0}
<1>1. SUFFICES ASSUME Bad # {} PROVE FALSE
  OBVIOUS
<1>2. PICK s \in Bad : \A t \in Bad : t \subseteq s => t = s
  <2>1. Bad \subseteq SUBSET S
    OBVIOUS
  <2> HIDE DEF Bad
  <2> QED
    BY <1>1, <2>1, Smallest
<1>3. IsFiniteSet(s) /\ s \subseteq S /\ SumOf(F, s) # 0
  BY <1>2, FS_Subset
<1>4. s # {}
  BY <1>3, SumEmpty
<1>5. Chosen(s) \in s
  BY <1>4, ChosenIn
<1>6. SumOf(F, s \ {Chosen(s)}) = 0
  BY <1>2, <1>3, <1>5
<1> QED
  BY <1>3, <1>4, <1>5, <1>6, SumUnfold

\* Integers sum to an integer.
LEMMA SumType ==
  ASSUME NEW F, NEW S, IsFiniteSet(S), \A x \in S : F[x] \in Int
  PROVE  SumOf(F, S) \in Int
<1> DEFINE Bad == {s \in SUBSET S : SumOf(F, s) \notin Int}
<1>1. SUFFICES ASSUME Bad # {} PROVE FALSE
  OBVIOUS
<1>2. PICK s \in Bad : \A t \in Bad : t \subseteq s => t = s
  <2>1. Bad \subseteq SUBSET S
    OBVIOUS
  <2> HIDE DEF Bad
  <2> QED
    BY <1>1, <2>1, Smallest
<1>3. IsFiniteSet(s) /\ s \subseteq S /\ SumOf(F, s) \notin Int
  BY <1>2, FS_Subset
<1>4. s # {}
  BY <1>3, SumEmpty
<1>5. Chosen(s) \in s
  BY <1>4, ChosenIn
<1>6. SumOf(F, s \ {Chosen(s)}) \in Int
  BY <1>2, <1>3, <1>5
<1> QED
  BY <1>3, <1>4, <1>5, <1>6, SumUnfold

\* Any term can be taken out of a sum.
LEMMA SumRemove ==
  ASSUME NEW F, NEW S, IsFiniteSet(S), \A y \in S : F[y] \in Int, NEW x \in S
  PROVE  SumOf(F, S) = F[x] + SumOf(F, S \ {x})
<1> DEFINE Bad == {s \in SUBSET S : \E z \in s : SumOf(F, s) # F[z] + SumOf(F, s \ {z})}
<1>1. SUFFICES ASSUME Bad # {} PROVE FALSE
  OBVIOUS
<1>2. PICK s \in Bad : \A t \in Bad : t \subseteq s => t = s
  <2>1. Bad \subseteq SUBSET S
    OBVIOUS
  <2> HIDE DEF Bad
  <2> QED
    BY <1>1, <2>1, Smallest
<1>3. PICK z \in s : SumOf(F, s) # F[z] + SumOf(F, s \ {z})
  BY <1>2
<1> DEFINE y == Chosen(s)
           r == (s \ {y}) \ {z}
<1>4. s \subseteq S /\ y \in s /\ z \in s /\ s # {}
  BY <1>2, <1>3, ChosenIn
<1>5. \A t \in SUBSET S : IsFiniteSet(t) /\ SumOf(F, t) \in Int
  BY FS_Subset, SumType
<1>6. SumOf(F, s) = F[y] + SumOf(F, s \ {y})
  BY <1>4, <1>5, SumUnfold
<1>7. y # z
  BY <1>3, <1>6
<1> HIDE DEF y
<1>8. ASSUME NEW t \in SUBSET S, t \subseteq s, t # s, NEW w \in t
      PROVE  SumOf(F, t) = F[w] + SumOf(F, t \ {w})
  BY <1>2, <1>8
<1>9. SumOf(F, s \ {y}) = F[z] + SumOf(F, r)
  BY <1>4, <1>7, <1>8
<1>10. SumOf(F, s \ {z}) = F[y] + SumOf(F, r)
  <2>1. r = (s \ {z}) \ {y}
    OBVIOUS
  <2> HIDE DEF r
  <2> QED
    BY <1>4, <1>7, <1>8, <2>1
<1>11. SumOf(F, r) \in Int /\ F[y] \in Int /\ F[z] \in Int
  BY <1>4, <1>5
<1> HIDE DEF r
<1> QED
  BY <1>3, <1>6, <1>9, <1>10, <1>11

\* A term that is added.
Adds(S, x, T) == x \notin S /\ T = S \cup {x}

LEMMA SumAdd ==
  ASSUME NEW F, NEW G, NEW S, IsFiniteSet(S), NEW x, NEW T, Adds(S, x, T),
         SameOn(F, G, S), \A y \in S : F[y] \in Int, G[x] \in Int
  PROVE  SumOf(G, T) = SumOf(F, S) + G[x]
<1>1. /\ IsFiniteSet(T) /\ x \in T /\ T \ {x} = S /\ \A y \in T : G[y] \in Int
      /\ \A y \in S : F[y] = G[y]
  BY FS_AddElement DEF SameOn, Adds
<1>2. SumOf(G, T) = G[x] + SumOf(G, S)
  BY <1>1, SumRemove
<1>3. SumOf(G, S) = SumOf(F, S) /\ SumOf(F, S) \in Int
  BY <1>1, SumSame, SumType
<1> QED
  BY <1>2, <1>3

\* A term that changes.
LEMMA SumChange ==
  ASSUME NEW F, NEW G, NEW S, IsFiniteSet(S), NEW x \in S,
         \A y \in S : F[y] \in Int, G[x] \in Int, \A y \in S : y # x => G[y] = F[y]
  PROVE  SumOf(G, S) = SumOf(F, S) + (G[x] - F[x])
<1> DEFINE R == S \ {x}
<1>1. IsFiniteSet(R) /\ R \subseteq S /\ x \notin R
  BY FS_Subset
<1>2. \A y \in S : G[y] \in Int
  OBVIOUS
<1>3. SumOf(G, S) = G[x] + SumOf(G, R)
  BY <1>2, SumRemove
<1>4. SumOf(F, S) = F[x] + SumOf(F, R)
  BY SumRemove
<1> HIDE DEF R
<1>5. SumOf(G, R) = SumOf(F, R)
  <2>1. \A y \in R : G[y] = F[y]
    BY <1>1
  <2> QED
    BY <1>1, <2>1, SumSame
<1>6. SumOf(F, R) \in Int
  <2>1. \A y \in R : F[y] \in Int
    BY <1>1
  <2> QED
    BY <1>1, <2>1, SumType
<1> QED
  BY <1>3, <1>4, <1>5, <1>6

-----------------------------------------------------------------------------
(* Types *)

\* Every request a caller can make is a Request.
LEMMA RequestsType ==
  ASSUME ledger \in Seq(Entry), NEW r \in Requests
  PROVE  r \in Request
  <1>1. PICK op \in Ops : r \in RequestsOf(op)
    BY DEF Requests
  <1>2. SourceIds[op] \subseteq Ids
    BY IdsAssumption
  <1>. Amounts[op] \subseteq Nat
    BY <1>1, AmountsAssumption
  <1>3. AmountsOf(op) \subseteq Nat
    BY <1>1 DEF AmountsOf, WholeAmounts, Ops
  <1>4. DOMAIN ledger \subseteq Nat
    OBVIOUS
  <1>. QED  BY <1>1, <1>2, <1>3, <1>4 DEF RequestsOf, Request

\* The ledger key of a request is a key.
LEMMA GrantKeyType ==
  ASSUME NEW r \in Request, NEW u \in Users
  PROVE  GrantKey(r, u) \in GrantKeys
  <1>. r.op \in Ops /\ r.user \in Users /\ r.sid \in Ids /\ r.orig \in Nat
    BY DEF Request
  <1>1. CASE r.op \in {"credit", "debit"}
    <2>1. <<"wallet", r.sid, u, 0>> \in {"wallet", "grant"} \X Ids \X Users \X {0}
      OBVIOUS
    <2>. QED  BY <1>1, <2>1 DEF GrantKey, GrantKeys
  <1>2. CASE r.op = "reverse"
    <2>1. <<"reversal", r.sid, u, r.orig>> \in {"reversal"} \X Ids \X Users \X Nat
      OBVIOUS
    <2>. QED  BY <1>2, <2>1 DEF GrantKey, GrantKeys
  <1>3. CASE r.op = "grant"
    <2>1. <<"grant", r.sid, u, 0>> \in {"wallet", "grant"} \X Ids \X Users \X {0}
      OBVIOUS
    <2>. QED  BY <1>3, <2>1 DEF GrantKey, GrantKeys
  <1>4. CASE r.op = "transfer"
    <2>1. <<"transfer", r.sid, u, r.user>> \in {"transfer"} \X Ids \X Users \X Users
      OBVIOUS
    <2>. QED  BY <1>4, <2>1 DEF GrantKey, GrantKeys
  <1>. QED  BY <1>1, <1>2, <1>3, <1>4 DEF Ops

\* The locks of a request are a sequence of locks.
LEMMA LocksType ==
  ASSUME NEW r \in Request
  PROVE  LocksOf(r) \in Seq(Locks)
  <1>1. {r.user, r.to} \in Locks /\ {r.user} \in Locks /\ {r.to} \in Locks
    BY DEF Locks, Request
  <1>2. <<{r.user, r.to}, {r.user}, {r.to}>> \in Seq(Locks) /\ <<{r.user}>> \in Seq(Locks)
    BY <1>1
  <1>. QED  BY <1>2 DEF LocksOf

\* Moving an integer amount leaves a balance.
LEMMA MovedType ==
  ASSUME NEW b \in Balance, NEW d \in Int
  PROVE  Moved(b, d) \in Balance
  BY FloorType DEF Moved, Balance

\* The ledger rows that the commits append are entries.
LEMMA ExactEntryType ==
  ASSUME NEW u \in Users, NEW dir \in {"CREDIT", "DEBIT"}, NEW key \in GrantKeys,
         NEW e \in Nat, NEW old \in Balance, NEW new \in Balance
  PROVE  ExactEntry(u, dir, key, e, old, new) \in Entry
  BY FloorType DEF ExactEntry, Entry, Balance

LEMMA LegacyEntryType ==
  ASSUME NEW u \in Users, NEW dir \in {"CREDIT", "REVERSAL"}, NEW key \in GrantKeys,
         NEW a \in Int, NEW old \in Balance, NEW new \in Balance, NEW i \in Nat
  PROVE  LegacyEntry(u, dir, key, a, old, new, i) \in Entry
  BY DEF LegacyEntry, Entry, Balance

\* Closing a transaction keeps the types of the sessions.
LEMMA CloseType ==
  ASSUME SessionType, NEW t \in Txns, Close(t)
  PROVE  SessionType'
  <1>1. NoRows \in [Users -> Balance]
    BY DEF NoRows, Balance
  <1>2. <<>> \in Seq(Locks) /\ {} \in SUBSET Locks
    OBVIOUS
  <1>. QED  BY <1>1, <1>2 DEF SessionType, Close, Kept

\* An open transaction executes a request, and has re-read balances.
LEMMA OpenType ==
  ASSUME TypeOK, NEW t \in Txns, Open(t)
  PROVE  /\ tx[t] \in Request
         /\ tx[t].user \in Users /\ tx[t].to \in Users
         /\ tx[t].exact \in Nat /\ tx[t].orig \in Nat
         /\ GrantKey(tx[t], tx[t].user) \in GrantKeys
         /\ GrantKey(tx[t], tx[t].to) \in GrantKeys
         /\ seen[t][tx[t].user] \in Balance
         /\ seen[t][tx[t].to] \in Balance
  <1>1. tx[t] \in Request
    BY DEF TypeOK, SessionType, Open
  <1>2. /\ tx[t].user \in Users /\ tx[t].to \in Users
        /\ tx[t].exact \in Nat /\ tx[t].orig \in Nat
    BY <1>1 DEF Request
  <1>3. seen[t][tx[t].user] \in Balance /\ seen[t][tx[t].to] \in Balance
    BY <1>2 DEF TypeOK, SessionType
  <1>. QED  BY <1>1, <1>2, <1>3, GrantKeyType

\* A step that appends one entry and writes one balance keeps the store typed.
LEMMA AppendType ==
  ASSUME StoreType, NEW u \in Users, NEW b \in Balance, NEW e \in Entry,
         balance' = [balance EXCEPT ![u] = b],
         ledger' = Append(ledger, e),
         idem' \subseteq Request, grants' \subseteq GrantKeys, burned' \in Nat
  PROVE  StoreType'
  BY DEF StoreType

-----------------------------------------------------------------------------
(* The ledger chain *)

\* Appending a row that starts where the chain of its player ended continues
\* that chain, and leaves the chains of the others as they are.
LEMMA ChainAppend ==
  ASSUME NEW L \in Seq(Entry), NEW e \in Entry, NEW u, NEW b,
         Chain(L, u, b), e.user = u => e.before = b
  PROVE  Chain(Append(L, e), u, IF e.user = u THEN e.after ELSE b)
  <1>. DEFINE n == Len(L)
              M == Append(L, e)
  <1>1. /\ n \in Nat /\ DOMAIN L = 1..n /\ DOMAIN M = 1..(n + 1)
        /\ M[n + 1] = e /\ \A i \in 1..n : M[i] = L[i]
    OBVIOUS
  <1>. HIDE DEF n, M
  <1>2. CASE e.user # u
    <2>1. RowsOf(M, u) = RowsOf(L, u)
      BY <1>1, <1>2 DEF RowsOf
    <2>2. \A i \in RowsOf(L, u) : M[i] = L[i]
      BY <1>1 DEF RowsOf
    <2>. QED  BY ZenonT(30), <1>2, <2>1, <2>2 DEF Chain, M
  <1>3. CASE e.user = u
    <2>1. RowsOf(M, u) = RowsOf(L, u) \cup {n + 1}
      BY <1>1, <1>3 DEF RowsOf
    <2>2. \A i \in RowsOf(L, u) : M[i] = L[i] /\ i \in Nat /\ i < n + 1
      BY <1>1 DEF RowsOf
    <2>3. Chain(M, u, e.after)
      <3>1. RowsOf(M, u) # {}
        BY <2>1
      <3>2. ASSUME NEW j \in RowsOf(M, u), \A i \in RowsOf(M, u) : i >= j
            PROVE  M[j].before = 0
        <4>1. CASE j = n + 1
          <5>1. ASSUME NEW i \in RowsOf(L, u) PROVE FALSE
            <6>1. i \in RowsOf(M, u)
              BY <2>1
            <6>2. i >= n + 1 /\ i \in Nat /\ i < n + 1
              BY <2>2, <3>2, <4>1, <6>1
            <6>. QED  BY <1>1, <6>2
          <5>. QED  BY <1>1, <1>3, <4>1, <5>1 DEF Chain
        <4>2. CASE j # n + 1
          BY <2>1, <2>2, <3>2, <4>2 DEF Chain
        <4>. QED  BY <4>1, <4>2
      <3>3. ASSUME NEW j \in RowsOf(M, u), \A i \in RowsOf(M, u) : i <= j
            PROVE  M[j].after = e.after
        BY <1>1, <2>1, <2>2, <3>3
      <3>4. ASSUME NEW j \in RowsOf(M, u), NEW i \in RowsOf(M, u), i < j,
                   \A k \in RowsOf(M, u) : k <= i \/ j <= k
            PROVE  M[j].before = M[i].after
        <4>1. i \in RowsOf(L, u)
          BY <1>1, <2>1, <2>2, <3>4
        <4>2. CASE j = n + 1
          <5>1. \A k \in RowsOf(L, u) : k <= i
            BY <1>1, <2>1, <2>2, <3>4, <4>2
          <5>2. L[i].after = b
            BY <4>1, <5>1 DEF Chain
          <5>. QED  BY <1>1, <1>3, <2>2, <4>1, <4>2, <5>2
        <4>3. CASE j # n + 1
          BY <2>1, <2>2, <3>4, <4>1, <4>3 DEF Chain
        <4>. QED  BY <4>2, <4>3
      <3>. QED  BY <3>1, <3>2, <3>3, <3>4 DEF Chain
    <2>. QED  BY <1>3, <2>3 DEF M
  <1>. QED  BY <1>2, <1>3

-----------------------------------------------------------------------------
(* Locks *)

\* A transaction with no lock left to take holds its player's balance row, and
\* a transfer its recipient's too.
LEMMA Holding ==
  ASSUME Complete, NEW t \in Txns, Open(t), want[t] = <<>>
  PROVE  /\ {tx[t].user} \in holds[t]
         /\ tx[t].op = "transfer" => {tx[t].to} \in holds[t]
  <1>1. ASSUME NEW i \in DOMAIN LocksOf(tx[t])
        PROVE  LocksOf(tx[t])[i] \in holds[t]
    <2>1. DOMAIN want[t] = {}
      OBVIOUS
    <2>. QED  BY <2>1 DEF Complete
  <1>2. CASE tx[t].op = "transfer"
    <2>1. /\ LocksOf(tx[t]) = <<{tx[t].user, tx[t].to}, {tx[t].user}, {tx[t].to}>>
          /\ 2 \in DOMAIN LocksOf(tx[t]) /\ 3 \in DOMAIN LocksOf(tx[t])
      BY <1>2 DEF LocksOf
    <2>2. LocksOf(tx[t])[2] = {tx[t].user} /\ LocksOf(tx[t])[3] = {tx[t].to}
      BY <2>1
    <2>. QED  BY <1>1, <2>1, <2>2
  <1>3. CASE tx[t].op # "transfer"
    <2>1. LocksOf(tx[t])[1] = {tx[t].user} /\ 1 \in DOMAIN LocksOf(tx[t])
      BY <1>3 DEF LocksOf
    <2>. QED  BY <1>1, <1>3, <2>1
  <1>. QED  BY <1>2, <1>3

\* Closing a transaction keeps the invariants of the sessions alone.
LEMMA CloseLocks ==
  ASSUME SessionType, Exclusive, IdleIsFree, Complete, NEW t \in Txns, Close(t)
  PROVE  Exclusive' /\ IdleIsFree' /\ Complete'
  <1>1. /\ tx'[t] = NoRequest /\ want'[t] = <<>> /\ holds'[t] = {}
        /\ \A s \in Txns \ {t} : tx'[s] = tx[s] /\ want'[s] = want[s] /\ holds'[s] = holds[s]
    BY DEF Close, Kept, SessionType
  <1>2. Exclusive'
    BY <1>1 DEF Exclusive
  <1>3. IdleIsFree'
    BY <1>1 DEF IdleIsFree, Open
  <1>4. Complete'
    BY <1>1 DEF Complete, Open
  <1>. QED  BY <1>2, <1>3, <1>4

\* A transaction that closes may have written the rows it holds the locks of:
\* what the others re-read is still what is stored.
LEMMA CloseFresh ==
  ASSUME SessionType, Exclusive, Fresh, NEW t \in Txns, Close(t),
         \A u \in Users : {u} \in holds[t] \/ balance'[u] = balance[u]
  PROVE  Fresh'
  <1>1. /\ holds'[t] = {}
        /\ \A s \in Txns \ {t} : holds'[s] = holds[s] /\ seen'[s] = seen[s]
    BY DEF Close, Kept, SessionType
  <1>2. SUFFICES ASSUME NEW s \in Txns, NEW u \in Users, {u} \in holds'[s]
                 PROVE  seen'[s][u] = balance'[u]
    BY DEF Fresh
  <1>3. s # t /\ {u} \in holds[s] /\ seen'[s] = seen[s]
    BY <1>1, <1>2
  <1>4. {u} \notin holds[t]
    BY <1>3 DEF Exclusive
  <1>. QED  BY <1>3, <1>4 DEF Fresh

\* The ledger only grows.
Extends(new, old) == \A i \in DOMAIN old : i \in DOMAIN new /\ new[i] = old[i]

LEMMA CloseWellFormed ==
  ASSUME SessionType, StaysWellFormed, NEW t \in Txns, Close(t), Extends(ledger', ledger)
  PROVE  StaysWellFormed'
  <1>1. /\ tx'[t] = NoRequest
        /\ \A s \in Txns \ {t} : tx'[s] = tx[s]
    BY DEF Close, Kept, SessionType
  <1>2. SUFFICES ASSUME NEW s \in Txns, Open(s)'
                 PROVE  WellFormed(tx[s])'
    BY DEF StaysWellFormed
  <1>3. s # t /\ tx'[s] = tx[s] /\ Open(s)
    BY <1>1, <1>2 DEF Open
  <1>4. WellFormed(tx[s])
    BY <1>3 DEF StaysWellFormed
  <1>. QED  BY <1>3, <1>4 DEF WellFormed, Extends

\* The rows that t appends reverse nothing, or the row that t was asked to
\* reverse, which belongs to the player whose balance t holds.
LEMMA ClosePrior ==
  ASSUME SessionType, Exclusive, StaysWellFormed, FreshPrior, NEW t \in Txns,
         Open(t), Close(t), Extends(ledger', ledger),
         \A j \in DOMAIN ledger' \ DOMAIN ledger :
            ledger'[j].reverses \in DOMAIN ledger =>
              /\ tx[t].op = "reverse" /\ {tx[t].user} \in holds[t]
              /\ ledger'[j].reverses = tx[t].orig
  PROVE  FreshPrior'
  <1>1. /\ tx'[t] = NoRequest
        /\ \A s \in Txns \ {t} : /\ tx'[s] = tx[s] /\ holds'[s] = holds[s]
                                 /\ prior'[s] = prior[s]
    BY DEF Close, Kept, SessionType
  <1>2. SUFFICES ASSUME NEW s \in Txns, Open(s)', tx'[s].op = "reverse",
                        {tx'[s].user} \in holds'[s]
                 PROVE  prior'[s] = AlreadyReversed(tx[s].orig)'
    BY DEF FreshPrior
  <1>3. /\ s # t /\ tx'[s] = tx[s] /\ Open(s) /\ tx[s].op = "reverse"
        /\ {tx[s].user} \in holds[s] /\ prior'[s] = prior[s]
    BY <1>1, <1>2 DEF Open
  <1>4. prior[s] = AlreadyReversed(tx[s].orig)
    BY <1>3 DEF FreshPrior
  <1>5. WellFormed(tx[s]) /\ WellFormed(tx[t])
    BY <1>3 DEF StaysWellFormed
  <1>6. tx[s].orig \in DOMAIN ledger /\ ledger[tx[s].orig].user = tx[s].user
    BY <1>3, <1>5 DEF WellFormed
  <1>7. ASSUME NEW j \in DOMAIN ledger', ledger'[j].reverses = tx[s].orig
        PROVE  j \in DOMAIN ledger
    <2>1. SUFFICES ASSUME j \notin DOMAIN ledger PROVE FALSE
      OBVIOUS
    <2>2. tx[t].op = "reverse" /\ {tx[t].user} \in holds[t] /\ tx[t].orig = tx[s].orig
      BY <1>6, <1>7, <2>1
    <2>3. tx[t].user = tx[s].user
      BY <1>5, <1>6, <2>2 DEF WellFormed
    <2>. QED  BY <1>3, <2>2, <2>3 DEF Exclusive
  <1>8. AlreadyReversed(tx[s].orig)' = AlreadyReversed(tx[s].orig)
    BY <1>3, <1>7 DEF AlreadyReversed, Extends
  <1>. QED  BY <1>3, <1>4, <1>8

-----------------------------------------------------------------------------
(* Commits *)

\* What a transaction may rely on when it has all its locks.
LEMMA UnderLock ==
  ASSUME WalletInv, NEW t \in Txns, Open(t), want[t] = <<>>
  PROVE  /\ {tx[t].user} \in holds[t]
         /\ seen[t][tx[t].user] = balance[tx[t].user]
         /\ balance[tx[t].user] \in Balance
         /\ balance[tx[t].user].amount >= 0 /\ balance[tx[t].user].exact >= 0
         /\ tx[t].op = "transfer" =>
              /\ {tx[t].to} \in holds[t] /\ tx[t].to # tx[t].user
              /\ seen[t][tx[t].to] = balance[tx[t].to]
         /\ tx[t].op = "reverse" =>
              /\ prior[t] = AlreadyReversed(tx[t].orig)
              /\ tx[t].orig \in DOMAIN ledger
  <1>1. tx[t].user \in Users /\ tx[t].to \in Users
    BY OpenType DEF WalletInv
  <1>2. {tx[t].user} \in holds[t] /\ (tx[t].op = "transfer" => {tx[t].to} \in holds[t])
    BY Holding DEF WalletInv
  <1>3. WellFormed(tx[t])
    BY DEF WalletInv, StaysWellFormed
  <1>4. /\ balance[tx[t].user] \in Balance
        /\ balance[tx[t].user].amount >= 0 /\ balance[tx[t].user].exact >= 0
    BY <1>1 DEF WalletInv, TypeOK, StoreType, NeverOverdrawn
  <1>5. tx[t].op = "transfer" => tx[t].to # tx[t].user
    BY <1>1, <1>3, PayeesAssumption DEF WellFormed
  <1>6. tx[t].op = "reverse" => tx[t].orig \in DOMAIN ledger
    BY <1>3 DEF WellFormed
  <1>7. tx[t].op = "reverse" => prior[t] = AlreadyReversed(tx[t].orig)
    BY <1>2 DEF WalletInv, FreshPrior
  <1>8. /\ seen[t][tx[t].user] = balance[tx[t].user]
        /\ tx[t].op = "transfer" => seen[t][tx[t].to] = balance[tx[t].to]
    BY <1>1, <1>2 DEF WalletInv, Fresh
  <1>. QED  BY <1>2, <1>4, <1>5, <1>6, <1>7, <1>8

\* The step by which t ends with one new entry e and the balance b.
OneEntry(t, b, e) ==
  /\ Open(t) /\ want[t] = <<>> /\ Close(t)
  /\ b \in Balance /\ e \in Entry
  /\ balance' = [balance EXCEPT ![tx[t].user] = b]
  /\ ledger' = Append(ledger, e)
  /\ idem' \subseteq Request /\ grants' \subseteq GrantKeys /\ burned' \in Nat
  /\ e.user = tx[t].user /\ e.after = b.amount
  /\ e.before = seen[t][tx[t].user].amount
  /\ b.amount >= 0 /\ b.exact >= 0
  /\ e.reverses # 0 => tx[t].op = "reverse" /\ e.reverses = tx[t].orig /\ ~prior[t]

LEMMA CreditOne ==
  ASSUME WalletInv, NEW t \in Txns, Credit(t)
  PROVE  \E b, e : OneEntry(t, b, e)
  <1>. DEFINE new == Moved(seen[t][tx[t].user], tx[t].exact)
              e == ExactEntry(tx[t].user, "CREDIT", GrantKey(tx[t], tx[t].user),
                              tx[t].exact, seen[t][tx[t].user], new)
  <1>1. Open(t) /\ want[t] = <<>> /\ Close(t) /\ TypeOK
    BY DEF Credit, Ready, WalletInv, Post
  <1>2. new \in Balance /\ e \in Entry
    BY SMTT(30), <1>1, OpenType, MovedType, ExactEntryType
  <1>3. /\ balance' = [balance EXCEPT ![tx[t].user] = new]
        /\ ledger' = Append(ledger, e)
        /\ idem' = idem \cup {tx[t]}
        /\ grants' = grants \cup {GrantKey(tx[t], tx[t].user)}
        /\ burned' = burned
    BY DEF Credit, Post
  <1>4. idem' \subseteq Request /\ grants' \subseteq GrantKeys /\ burned' \in Nat
    BY <1>1, <1>3, OpenType DEF TypeOK, StoreType
  <1>5. new.amount >= 0 /\ new.exact >= 0
    <2>1. seen[t][tx[t].user] \in Balance /\ seen[t][tx[t].user].exact >= 0
      BY <1>1, UnderLock
    <2>2. seen[t][tx[t].user].exact + tx[t].exact \in Nat
      BY SMTT(30), <1>1, <2>1, OpenType DEF Balance
    <2>. QED  BY <2>2, FloorType DEF Moved
  <1>6. /\ e.user = tx[t].user /\ e.after = new.amount
        /\ e.before = seen[t][tx[t].user].amount /\ e.reverses = 0
    BY DEF ExactEntry
  <1>. HIDE DEF new, e
  <1>. QED  BY <1>1, <1>2, <1>3, <1>4, <1>5, <1>6 DEF OneEntry

LEMMA DebitOne ==
  ASSUME WalletInv, NEW t \in Txns, Debit(t)
  PROVE  \E b, e : OneEntry(t, b, e)
  <1>. DEFINE new == Moved(seen[t][tx[t].user], -tx[t].exact)
              e == ExactEntry(tx[t].user, "DEBIT", GrantKey(tx[t], tx[t].user),
                              tx[t].exact, seen[t][tx[t].user], new)
  <1>1. Open(t) /\ want[t] = <<>> /\ Close(t) /\ TypeOK
    BY DEF Debit, Ready, WalletInv, Post
  <1>2. -tx[t].exact \in Int
    BY <1>1, OpenType
  <1>3. new \in Balance /\ e \in Entry
    BY <1>1, <1>2, OpenType, MovedType, ExactEntryType
  <1>4. /\ balance' = [balance EXCEPT ![tx[t].user] = new]
        /\ ledger' = Append(ledger, e)
        /\ idem' = idem \cup {tx[t]} /\ grants' = grants /\ burned' = burned
        /\ seen[t][tx[t].user].exact >= tx[t].exact
    BY DEF Debit, Post, Covers
  <1>5. idem' \subseteq Request /\ grants' \subseteq GrantKeys /\ burned' \in Nat
    BY <1>1, <1>4, OpenType DEF TypeOK, StoreType
  <1>6. seen[t][tx[t].user].exact + (-tx[t].exact) \in Nat
    BY <1>1, <1>4, OpenType DEF Balance
  <1>7. new.amount >= 0 /\ new.exact >= 0
    BY <1>6, FloorType DEF Moved
  <1>8. /\ e.user = tx[t].user /\ e.after = new.amount
        /\ e.before = seen[t][tx[t].user].amount /\ e.reverses = 0
    BY DEF ExactEntry
  <1>. HIDE DEF new, e
  <1>. QED  BY <1>1, <1>3, <1>4, <1>5, <1>7, <1>8 DEF OneEntry

LEMMA ReversalOne ==
  ASSUME WalletInv, NEW t \in Txns, Reversal(t)
  PROVE  \E b, e : OneEntry(t, b, e)
  <1>. DEFINE row == ledger[tx[t].orig]
              old == seen[t][tx[t].user]
              new == Reversed(old, row)
              e == LegacyEntry(tx[t].user, "REVERSAL", GrantKey(tx[t], tx[t].user),
                               row.amount, old, new, tx[t].orig)
  <1>1. Open(t) /\ want[t] = <<>> /\ Close(t) /\ TypeOK /\ tx[t].op = "reverse"
    BY DEF Reversal, Ready, WalletInv, Post
  <1>2. old = balance[tx[t].user] /\ old \in Balance /\ old.exact >= 0
    BY <1>1, UnderLock
  <1>3. row \in Entry /\ row.amount \in Int
    <2>1. ledger \in Seq(Entry) /\ tx[t].orig \in DOMAIN ledger
      BY <1>1, UnderLock DEF TypeOK, StoreType
    <2>2. row \in Entry
      BY <2>1
    <2>. QED  BY <2>2 DEF Entry
  <1>4. new \in Balance /\ new = [balance[tx[t].user] EXCEPT !.amount = new.amount]
    <2>1. new.amount \in Int /\ new.exact = old.exact
          /\ new = [amount |-> new.amount, exact |-> new.exact]
      BY <1>2, <1>3 DEF Reversed, Balance
    <2>. HIDE DEF new
    <2>. QED  BY <1>2, <2>1 DEF Balance
  <1>5. e \in Entry
    BY <1>1, <1>2, <1>3, <1>4, OpenType, LegacyEntryType
  <1>6. /\ balance' = [balance EXCEPT ![tx[t].user].amount = new.amount]
        /\ ledger' = Append(ledger, e)
        /\ idem' = idem \cup {tx[t]} /\ grants' = grants /\ burned' = burned
        /\ new.amount >= 0 /\ ~prior[t]
    BY DEF Reversal, Post
  <1>7. balance' = [balance EXCEPT ![tx[t].user] = new]
    BY <1>4, <1>6
  <1>8. idem' \subseteq Request /\ grants' \subseteq GrantKeys /\ burned' \in Nat
    BY <1>1, <1>6, OpenType DEF TypeOK, StoreType
  <1>9. new.exact >= 0
    BY <1>2, <1>3 DEF Reversed, Balance
  <1>10. /\ e.user = tx[t].user /\ e.after = new.amount
         /\ e.before = old.amount /\ e.reverses = tx[t].orig
    BY DEF LegacyEntry
  <1>. HIDE DEF new, e
  <1>. QED  BY <1>1, <1>4, <1>5, <1>6, <1>7, <1>8, <1>9, <1>10 DEF OneEntry

LEMMA GrantOne ==
  ASSUME WalletInv, NEW t \in Txns, Grant(t)
  PROVE  \E b, e : OneEntry(t, b, e)
  <1>. DEFINE amount == Floor(tx[t].exact)
              old == seen[t][tx[t].user]
              new == Granted(old, amount)
              e == LegacyEntry(tx[t].user, "CREDIT", GrantKey(tx[t], tx[t].user),
                               amount, old, new, 0)
  <1>1. Open(t) /\ want[t] = <<>> /\ Close(t) /\ TypeOK
    BY DEF Grant, Ready, WalletInv, Post
  <1>2. old = balance[tx[t].user] /\ old \in Balance /\ old.amount >= 0 /\ old.exact >= 0
    BY <1>1, UnderLock
  <1>3. amount \in Nat
    BY <1>1, OpenType, FloorType
  <1>. HIDE DEF amount
  <1>4. /\ new \in Balance /\ new.amount >= 0 /\ new.exact >= 0
        /\ new = [balance[tx[t].user] EXCEPT !.amount = new.amount]
    BY <1>2, <1>3 DEF Granted, Balance
  <1>5. e \in Entry
    BY <1>1, <1>2, <1>3, <1>4, OpenType, LegacyEntryType
  <1>6. /\ balance' = [balance EXCEPT ![tx[t].user].amount = new.amount]
        /\ ledger' = Append(ledger, e)
        /\ grants' = grants \cup {GrantKey(tx[t], tx[t].user)}
        /\ idem' = idem /\ burned' = burned
    BY DEF Grant, Post, amount
  <1>7. balance' = [balance EXCEPT ![tx[t].user] = new]
    BY <1>4, <1>6
  <1>8. idem' \subseteq Request /\ grants' \subseteq GrantKeys /\ burned' \in Nat
    BY <1>1, <1>6, OpenType DEF TypeOK, StoreType
  <1>9. /\ e.user = tx[t].user /\ e.after = new.amount
        /\ e.before = old.amount /\ e.reverses = 0
    BY DEF LegacyEntry
  <1>. HIDE DEF new, e
  <1>. QED  BY <1>1, <1>4, <1>5, <1>6, <1>7, <1>8, <1>9 DEF OneEntry

-----------------------------------------------------------------------------
(* The commits keep the invariant *)

LEMMA ReversedAppend ==
  ASSUME NEW L \in Seq(Entry), NEW e \in Entry,
         \A i, j \in DOMAIN L : L[i].reverses # 0 /\ L[i].reverses = L[j].reverses => i = j,
         e.reverses # 0 => \A j \in DOMAIN L : L[j].reverses # e.reverses,
         NEW M, M = Append(L, e)
  PROVE  \A i, j \in DOMAIN M : M[i].reverses # 0 /\ M[i].reverses = M[j].reverses => i = j
  <1>1. /\ DOMAIN M = DOMAIN L \cup {Len(L) + 1} /\ M[Len(L) + 1] = e
        /\ \A i \in DOMAIN L : M[i] = L[i]
    OBVIOUS
  <1>. QED  BY <1>1

LEMMA OneEntryInv ==
  ASSUME WalletInv, NEW t \in Txns, NEW b, NEW e, OneEntry(t, b, e)
  PROVE  WalletInv'
  <1>. DEFINE u == tx[t].user
  <1>1. Open(t) /\ want[t] = <<>> /\ Close(t) /\ b \in Balance /\ e \in Entry
    BY DEF OneEntry
  <1>2. /\ balance' = [balance EXCEPT ![u] = b]
        /\ ledger' = Append(ledger, e)
    BY DEF OneEntry
  <1>3. TypeOK /\ StoreType /\ SessionType /\ u \in Users
    BY <1>1, OpenType DEF WalletInv, TypeOK
  <1>4. ledger \in Seq(Entry) /\ balance \in [Users -> Balance]
    BY <1>3 DEF StoreType
  <1>5. TypeOK'
    <2>1. StoreType'
      BY <1>1, <1>2, <1>3, AppendType DEF OneEntry
    <2>. QED  BY <1>1, <1>3, <2>1, CloseType DEF TypeOK
  <1>6. Exclusive' /\ IdleIsFree' /\ Complete'
    BY <1>1, <1>3, CloseLocks DEF WalletInv
  <1>7. {u} \in holds[t]
    BY <1>1, UnderLock
  <1>8. Fresh'
    <2>1. \A v \in Users : {v} \in holds[t] \/ balance'[v] = balance[v]
      BY <1>2, <1>4, <1>7
    <2>. QED  BY <1>1, <1>3, <2>1, CloseFresh DEF WalletInv
  <1>9. /\ Extends(ledger', ledger)
        /\ DOMAIN ledger' = DOMAIN ledger \cup {Len(ledger) + 1}
        /\ ledger'[Len(ledger) + 1] = e
    BY <1>1, <1>2, <1>4 DEF Extends
  <1>10. StaysWellFormed'
    BY <1>1, <1>3, <1>9, CloseWellFormed DEF WalletInv
  <1>11. FreshPrior'
    <2>1. ASSUME NEW j \in DOMAIN ledger' \ DOMAIN ledger,
                 ledger'[j].reverses \in DOMAIN ledger
          PROVE  /\ tx[t].op = "reverse" /\ {tx[t].user} \in holds[t]
                 /\ ledger'[j].reverses = tx[t].orig
      <3>1. ledger'[j] = e
        BY <1>9
      <3>2. e.reverses # 0
        BY <1>4, <2>1, <3>1
      <3>. QED  BY <1>7, <3>1, <3>2 DEF OneEntry
    <2>. QED  BY <1>1, <1>3, <1>9, <2>1, ClosePrior DEF WalletInv
  <1>12. LedgerChain'
    <2>1. SUFFICES ASSUME NEW v \in Users PROVE Chain(ledger', v, balance'[v].amount)
      BY DEF LedgerChain
    <2>2. Chain(ledger, v, balance[v].amount)
      BY DEF WalletInv, LedgerChain
    <2>3. e.user = u /\ e.after = b.amount /\ e.before = balance[u].amount
      BY <1>1, UnderLock DEF OneEntry
    <2>4. Chain(Append(ledger, e), v, IF e.user = v THEN e.after ELSE balance[v].amount)
      BY <1>1, <1>4, <2>2, <2>3, ChainAppend
    <2>5. balance'[v].amount = IF e.user = v THEN e.after ELSE balance[v].amount
      BY <1>2, <1>3, <1>4, <2>3
    <2>. QED  BY <1>2, <2>4, <2>5
  <1>13. NeverOverdrawn'
    BY <1>2, <1>3, <1>4 DEF OneEntry, WalletInv, NeverOverdrawn
  <1>14. ReversedOnce'
    <2>1. e.reverses # 0 => \A j \in DOMAIN ledger : ledger[j].reverses # e.reverses
      BY <1>1, UnderLock DEF OneEntry, AlreadyReversed
    <2>. QED  BY <1>1, <1>2, <1>4, <2>1, ReversedAppend DEF WalletInv, ReversedOnce
  <1>. QED  BY <1>5, <1>6, <1>8, <1>10, <1>11, <1>12, <1>13, <1>14 DEF WalletInv

LEMMA TransferInv ==
  ASSUME WalletInv, NEW t \in Txns, Transfer(t)
  PROVE  WalletInv'
  <1>. DEFINE u == tx[t].user
              v == tx[t].to
              a == tx[t].exact
              fee == Fee(a)
              paid == Moved(seen[t][u], -(a + fee))
              got == Moved(seen[t][v], a)
              e == ExactEntry(u, "DEBIT", GrantKey(tx[t], u), a + fee, seen[t][u], paid)
              f == ExactEntry(v, "CREDIT", GrantKey(tx[t], v), a, seen[t][v], got)
  <1>1. /\ Open(t) /\ want[t] = <<>> /\ Close(t) /\ tx[t].op = "transfer"
        /\ TypeOK /\ StoreType /\ SessionType
    BY DEF Transfer, Ready, WalletInv, TypeOK
  <1>2. /\ u \in Users /\ v \in Users /\ u # v /\ a \in Nat /\ tx[t] \in Request
        /\ GrantKey(tx[t], u) \in GrantKeys /\ GrantKey(tx[t], v) \in GrantKeys
    BY <1>1, OpenType, UnderLock
  <1>3. fee \in Nat
    BY <1>2, FeeType
  <1>. HIDE DEF fee
  <1>4. /\ balance' = [balance EXCEPT ![u] = paid, ![v] = got]
        /\ ledger' = Append(Append(ledger, e), f)
        /\ idem' = idem \cup {tx[t]} /\ grants' = grants \cup {GrantKey(tx[t], v)}
        /\ burned' = burned + fee
        /\ seen[t][u].exact >= a + fee
    BY DEF Transfer, Charge, Covers, fee
  <1>5. /\ {u} \in holds[t] /\ {v} \in holds[t]
        /\ seen[t][u] = balance[u] /\ seen[t][v] = balance[v]
    BY <1>1, UnderLock
  <1>6. /\ balance[u] \in Balance /\ balance[v] \in Balance
        /\ balance[u].exact >= 0 /\ balance[v].exact >= 0
    BY <1>1, <1>2 DEF WalletInv, NeverOverdrawn, StoreType
  <1>7. paid \in Balance /\ got \in Balance /\ e \in Entry /\ f \in Entry
    <2>1. a + fee \in Nat /\ -(a + fee) \in Int
      BY <1>2, <1>3
    <2>2. paid \in Balance /\ got \in Balance
      BY <1>2, <1>5, <1>6, <2>1, MovedType
    <2>. QED  BY <1>2, <1>5, <1>6, <2>1, <2>2, ExactEntryType
  <1>8. paid.amount >= 0 /\ paid.exact >= 0 /\ got.amount >= 0 /\ got.exact >= 0
    <2>1. balance[u].exact + (-(a + fee)) \in Nat /\ balance[v].exact + a \in Nat
      <3>1. balance[u].exact \in Int /\ balance[v].exact \in Int
        BY <1>6 DEF Balance
      <3>2. balance[u].exact >= a + fee
        BY <1>4, <1>5
      <3>. QED  BY <1>2, <1>3, <1>6, <3>1, <3>2
    <2>. QED  BY <1>5, <2>1, FloorType DEF Moved
  <1>9. /\ e.user = u /\ e.before = balance[u].amount /\ e.after = paid.amount
        /\ f.user = v /\ f.before = balance[v].amount /\ f.after = got.amount
        /\ e.reverses = 0 /\ f.reverses = 0
    BY <1>5 DEF ExactEntry
  <1>. HIDE DEF paid, got, e, f
  <1>10. ledger \in Seq(Entry) /\ balance \in [Users -> Balance]
    BY <1>1 DEF StoreType
  <1>11. /\ Append(ledger, e) \in Seq(Entry) /\ ledger' \in Seq(Entry)
         /\ DOMAIN ledger' = DOMAIN ledger \cup {Len(ledger) + 1, Len(ledger) + 2}
         /\ ledger'[Len(ledger) + 1] = e /\ ledger'[Len(ledger) + 2] = f
         /\ Extends(ledger', ledger)
    BY <1>4, <1>7, <1>10 DEF Extends
  <1>12. TypeOK'
    <2>1. balance' \in [Users -> Balance]
      BY <1>2, <1>4, <1>7, <1>10
    <2>2. idem' \subseteq Request /\ grants' \subseteq GrantKeys /\ burned' \in Nat
      BY <1>1, <1>2, <1>3, <1>4 DEF StoreType
    <2>. QED  BY <1>1, <1>11, <2>1, <2>2, CloseType DEF TypeOK, StoreType
  <1>13. Exclusive' /\ IdleIsFree' /\ Complete'
    BY <1>1, CloseLocks DEF WalletInv
  <1>14. Fresh'
    <2>1. \A w \in Users : {w} \in holds[t] \/ balance'[w] = balance[w]
      BY <1>4, <1>5, <1>10
    <2>. QED  BY <1>1, <2>1, CloseFresh DEF WalletInv
  <1>15. StaysWellFormed'
    BY <1>1, <1>11, CloseWellFormed DEF WalletInv
  <1>16. FreshPrior'
    <2>1. \A j \in DOMAIN ledger' \ DOMAIN ledger : ledger'[j].reverses = 0
      BY <1>9, <1>11
    <2>2. 0 \notin DOMAIN ledger
      BY <1>10
    <2>. QED  BY <1>1, <1>11, <2>1, <2>2, ClosePrior DEF WalletInv
  <1>17. LedgerChain'
    <2>1. SUFFICES ASSUME NEW w \in Users PROVE Chain(ledger', w, balance'[w].amount)
      BY DEF LedgerChain
    <2>2. Chain(ledger, w, balance[w].amount)
      BY DEF WalletInv, LedgerChain
    <2>. DEFINE mid == IF e.user = w THEN e.after ELSE balance[w].amount
                last == IF f.user = w THEN f.after ELSE mid
    <2>3. Chain(Append(ledger, e), w, mid)
      BY <1>7, <1>9, <1>10, <2>2, ChainAppend
    <2>4. f.user = w => f.before = mid
      BY <1>2, <1>9
    <2>5. last = balance'[w].amount
      BY <1>2, <1>4, <1>9, <1>10
    <2>. HIDE DEF mid
    <2>6. Chain(Append(Append(ledger, e), f), w, last)
      BY <1>7, <1>11, <2>3, <2>4, ChainAppend
    <2>. QED  BY <1>4, <2>5, <2>6
  <1>18. NeverOverdrawn'
    BY <1>2, <1>4, <1>8, <1>10 DEF WalletInv, NeverOverdrawn
  <1>19. ReversedOnce'
    BY <1>9, <1>11 DEF WalletInv, ReversedOnce, Extends
  <1>. QED  BY <1>12, <1>13, <1>14, <1>15, <1>16, <1>17, <1>18, <1>19 DEF WalletInv

-----------------------------------------------------------------------------
(* The other steps keep the invariant *)

LEMMA RollbackInv ==
  ASSUME WalletInv, NEW t \in Txns, Rollback(t)
  PROVE  WalletInv'
  <1>1. /\ Open(t) /\ Close(t) /\ SessionType /\ StoreType
        /\ balance' = balance /\ ledger' = ledger /\ idem' = idem
        /\ grants' = grants /\ burned' = burned
    BY DEF Rollback, store, WalletInv, TypeOK
  <1>2. StoreType' /\ Extends(ledger', ledger)
    BY <1>1 DEF StoreType, Extends
  <1>3. TypeOK'
    BY <1>1, <1>2, CloseType DEF TypeOK
  <1>4. Exclusive' /\ IdleIsFree' /\ Complete'
    BY <1>1, CloseLocks DEF WalletInv
  <1>5. Fresh'
    BY <1>1, CloseFresh DEF WalletInv
  <1>6. StaysWellFormed'
    BY <1>1, <1>2, CloseWellFormed DEF WalletInv
  <1>7. FreshPrior'
    BY <1>1, <1>2, ClosePrior DEF WalletInv
  <1>8. LedgerChain' /\ NeverOverdrawn' /\ ReversedOnce'
    BY <1>1 DEF WalletInv, LedgerChain, NeverOverdrawn, ReversedOnce
  <1>. QED  BY <1>3, <1>4, <1>5, <1>6, <1>7, <1>8 DEF WalletInv

LEMMA BeginInv ==
  ASSUME WalletInv, NEW t \in Txns, NEW r \in Requests, Begin(t, r)
  PROVE  WalletInv'
  <1>1. /\ ~Open(t) /\ WellFormed(r) /\ SessionType /\ StoreType
        /\ tx' = [tx EXCEPT ![t] = r] /\ want' = [want EXCEPT ![t] = LocksOf(r)]
        /\ holds' = holds /\ seen' = seen /\ prior' = prior
        /\ balance' = balance /\ ledger' = ledger /\ idem' = idem
        /\ grants' = grants /\ burned' = burned
    BY DEF Begin, store, WalletInv, TypeOK
  <1>2. r \in Request /\ LocksOf(r) \in Seq(Locks)
    BY <1>1, RequestsType, LocksType DEF StoreType
  <1>3. holds[t] = {}
    BY <1>1 DEF WalletInv, IdleIsFree
  <1>4. TypeOK'
    <2>1. StoreType'
      BY <1>1 DEF StoreType
    <2>2. SessionType'
      BY <1>1, <1>2 DEF SessionType
    <2>. QED  BY <2>1, <2>2 DEF TypeOK
  <1>5. /\ tx'[t] = r /\ want'[t] = LocksOf(r)
        /\ \A s \in Txns \ {t} : tx'[s] = tx[s] /\ want'[s] = want[s]
    BY <1>1 DEF SessionType
  <1>6. Exclusive' /\ Fresh'
    BY <1>1 DEF WalletInv, Exclusive, Fresh
  <1>7. IdleIsFree'
    BY <1>1, <1>2, <1>5, NoRequestAssumption DEF WalletInv, IdleIsFree, Open
  <1>8. Complete'
    BY <1>1, <1>5 DEF WalletInv, Complete, Open
  <1>9. StaysWellFormed'
    BY <1>1, <1>5 DEF WalletInv, StaysWellFormed, Open, WellFormed
  <1>10. FreshPrior'
    BY ZenonT(30), <1>1, <1>3, <1>5 DEF WalletInv, FreshPrior, Open, AlreadyReversed
  <1>11. LedgerChain' /\ NeverOverdrawn' /\ ReversedOnce'
    BY <1>1 DEF WalletInv, LedgerChain, NeverOverdrawn, ReversedOnce
  <1>. QED  BY <1>4, <1>6, <1>7, <1>8, <1>9, <1>10, <1>11 DEF WalletInv

LEMMA ReplayInv ==
  ASSUME WalletInv, NEW t \in Txns, NEW r \in Requests, Replay(t, r)
  PROVE  WalletInv'
  <1>1. /\ StoreType /\ SessionType
        /\ balance' = balance /\ ledger' = ledger /\ burned' = burned
        /\ tx' = tx /\ want' = want /\ holds' = holds /\ seen' = seen /\ prior' = prior
    BY DEF Replay, session, WalletInv, TypeOK
  <1>2. r \in Request /\ r.user \in Users
    BY <1>1, RequestsType DEF StoreType, Request
  <1>3. idem' \subseteq Request /\ grants' \subseteq GrantKeys
    BY <1>1, <1>2, GrantKeyType DEF Replay, StoreType
  <1>4. TypeOK'
    BY <1>1, <1>3 DEF TypeOK, StoreType, SessionType
  <1>5. Exclusive' /\ Fresh' /\ IdleIsFree' /\ Complete'
    BY <1>1 DEF WalletInv, Exclusive, Fresh, IdleIsFree, Complete, Open
  <1>6. StaysWellFormed' /\ FreshPrior'
    BY <1>1 DEF WalletInv, StaysWellFormed, FreshPrior, Open, WellFormed, AlreadyReversed
  <1>7. LedgerChain' /\ NeverOverdrawn' /\ ReversedOnce'
    BY <1>1 DEF WalletInv, LedgerChain, NeverOverdrawn, ReversedOnce
  <1>. QED  BY <1>4, <1>5, <1>6, <1>7 DEF WalletInv

\* A member of a sequence is its head or is in its tail.
LEMMA HeadOrTail ==
  ASSUME NEW T, NEW q \in Seq(T), q # <<>>, NEW i \in DOMAIN q
  PROVE  \/ i = 1 /\ q[i] = Head(q)
         \/ i - 1 \in DOMAIN Tail(q) /\ Tail(q)[i - 1] = q[i]
  <1>1. Len(q) \in Nat /\ i \in 1..Len(q) /\ Head(q) = q[1]
    OBVIOUS
  <1>2. CASE i # 1
    <2>1. i - 1 \in 1..(Len(q) - 1)
      BY <1>1, <1>2
    <2>2. Len(Tail(q)) = Len(q) - 1 /\ DOMAIN Tail(q) = 1..(Len(q) - 1)
      OBVIOUS
    <2>3. Tail(q)[i - 1] = q[(i - 1) + 1]
      BY <2>1, <2>2
    <2>. QED  BY <1>1, <2>1, <2>2, <2>3
  <1>. QED  BY <1>1, <1>2

LEMMA AcquireInv ==
  ASSUME WalletInv, NEW t \in Txns, Acquire(t)
  PROVE  WalletInv'
  <1>. DEFINE l == Head(want[t])
              reread == [u \in Users |-> IF {u} = l THEN balance[u] ELSE seen[t][u]]
              found == tx[t].op = "reverse" /\ AlreadyReversed(tx[t].orig)
  <1>1. /\ SessionType /\ StoreType
        /\ want[t] # <<>> /\ \A s \in Txns \ {t} : l \notin holds[s]
        /\ want' = [want EXCEPT ![t] = Tail(want[t])]
        /\ holds' = [holds EXCEPT ![t] = holds[t] \cup {l}]
        /\ seen' = [seen EXCEPT ![t] = reread]
        /\ prior' = [prior EXCEPT ![t] = found]
        /\ tx' = tx /\ balance' = balance /\ ledger' = ledger /\ idem' = idem
        /\ grants' = grants /\ burned' = burned
    BY DEF Acquire, LockFree, store, WalletInv, TypeOK
  <1>2. /\ want[t] \in Seq(Locks) /\ l \in Locks /\ Tail(want[t]) \in Seq(Locks)
        /\ found \in BOOLEAN
    BY <1>1 DEF SessionType, AlreadyReversed
  <1>3. reread \in [Users -> Balance]
    BY <1>1 DEF SessionType, StoreType
  <1>4. Open(t)
    BY <1>1 DEF WalletInv, IdleIsFree
  <1>5. /\ want'[t] = Tail(want[t]) /\ holds'[t] = holds[t] \cup {l}
        /\ seen'[t] = reread /\ prior'[t] = found
        /\ \A s \in Txns \ {t} : /\ want'[s] = want[s] /\ holds'[s] = holds[s]
                                 /\ seen'[s] = seen[s] /\ prior'[s] = prior[s]
    BY <1>1 DEF SessionType
  <1>6. TypeOK'
    <2>1. StoreType'
      BY <1>1 DEF StoreType
    <2>2. SessionType'
      <3>. HIDE DEF reread, l, found
      <3>. QED  BY <1>1, <1>2, <1>3 DEF SessionType
    <2>. QED  BY <2>1, <2>2 DEF TypeOK
  <1>7. \A i \in DOMAIN want[t] :
          \/ i = 1 /\ want[t][i] = l
          \/ i - 1 \in DOMAIN Tail(want[t]) /\ Tail(want[t])[i - 1] = want[t][i]
    <2>1. \A q \in Seq(Locks) : q # <<>> => \A i \in DOMAIN q :
            \/ i = 1 /\ q[i] = Head(q)
            \/ i - 1 \in DOMAIN Tail(q) /\ Tail(q)[i - 1] = q[i]
      BY HeadOrTail
    <2>. QED  BY <1>1, <1>2, <2>1
  <1>. HIDE DEF l, found
  <1>8. Exclusive'
    BY <1>1, <1>5 DEF WalletInv, Exclusive
  <1>9. Fresh'
    BY SMTT(30), <1>1, <1>5 DEF WalletInv, Fresh
  <1>10. IdleIsFree'
    BY <1>1, <1>4, <1>5 DEF WalletInv, IdleIsFree, Open
  <1>11. Complete'
    <2>1. SUFFICES ASSUME NEW s \in Txns, Open(s)', NEW i \in DOMAIN LocksOf(tx'[s])
                   PROVE  \/ LocksOf(tx'[s])[i] \in holds'[s]
                          \/ \E j \in DOMAIN want'[s] : want'[s][j] = LocksOf(tx'[s])[i]
      BY DEF Complete
    <2>2. Open(s) /\ tx'[s] = tx[s]
      BY <1>1, <2>1 DEF Open
    <2>. DEFINE k == LocksOf(tx[s])[i]
    <2>3. k \in holds[s] \/ \E j \in DOMAIN want[s] : want[s][j] = k
      BY <2>1, <2>2 DEF WalletInv, Complete
    <2>. HIDE DEF k
    <2>4. k \in holds'[s] \/ \E j \in DOMAIN want'[s] : want'[s][j] = k
      <3>1. CASE s # t \/ k \in holds[s]
        BY <1>5, <2>3, <3>1
      <3>2. CASE s = t /\ \E j \in DOMAIN want[t] : want[t][j] = k
        <4>1. PICK j \in DOMAIN want[t] : want[t][j] = k
          BY <3>2
        <4>2. CASE want[t][j] = l
          BY <1>5, <3>2, <4>1, <4>2
        <4>3. CASE j - 1 \in DOMAIN Tail(want[t]) /\ Tail(want[t])[j - 1] = want[t][j]
          BY <1>5, <3>2, <4>1, <4>3
        <4>. QED  BY <1>7, <4>2, <4>3
      <3>. QED  BY <2>3, <3>1, <3>2
    <2>. QED  BY <2>2, <2>4 DEF k
  <1>12. StaysWellFormed'
    BY <1>1 DEF WalletInv, StaysWellFormed, Open, WellFormed
  <1>13. FreshPrior'
    <2>1. SUFFICES ASSUME NEW s \in Txns, Open(s)', tx'[s].op = "reverse",
                          {tx'[s].user} \in holds'[s]
                   PROVE  prior'[s] = AlreadyReversed(tx[s].orig)'
      BY DEF FreshPrior
    <2>2. /\ AlreadyReversed(tx[s].orig)' = AlreadyReversed(tx[s].orig)
          /\ tx'[s] = tx[s] /\ Open(s)
      BY <1>1, <2>1 DEF AlreadyReversed, Open
    <2>3. CASE s = t
      <3>1. found = AlreadyReversed(tx[t].orig)
        BY <2>1, <2>2, <2>3 DEF found, AlreadyReversed
      <3>. QED  BY <1>5, <2>2, <2>3, <3>1
    <2>4. CASE s # t
      BY <1>5, <2>1, <2>2, <2>4 DEF WalletInv, FreshPrior
    <2>. QED  BY <2>3, <2>4
  <1>14. LedgerChain' /\ NeverOverdrawn' /\ ReversedOnce'
    BY <1>1 DEF WalletInv, LedgerChain, NeverOverdrawn, ReversedOnce
  <1>. QED  BY <1>6, <1>8, <1>9, <1>10, <1>11, <1>12, <1>13, <1>14 DEF WalletInv

-----------------------------------------------------------------------------
(* The theorems *)

LEMMA InitInv == Init => WalletInv
  <1>. SUFFICES ASSUME Init PROVE WalletInv
    OBVIOUS
  <1>1. NoRows \in [Users -> Balance]
    BY DEF NoRows, Balance
  <1>2. StoreType
    BY <1>1 DEF Init, StoreType
  <1>3. SessionType
    BY <1>1 DEF Init, SessionType
  <1>4. \A t \in Txns : tx[t] = NoRequest /\ want[t] = <<>> /\ holds[t] = {}
    BY DEF Init
  <1>5. Exclusive /\ Fresh /\ IdleIsFree /\ Complete /\ StaysWellFormed /\ FreshPrior
    BY <1>4 DEF Exclusive, Fresh, IdleIsFree, Complete, StaysWellFormed, FreshPrior, Open
  <1>6. ledger = <<>> /\ \A u \in Users : balance[u].amount = 0 /\ balance[u].exact = 0
    BY DEF Init, NoRows
  <1>7. DOMAIN ledger = {}
    BY <1>6
  <1>8. LedgerChain /\ NeverOverdrawn /\ ReversedOnce
    BY <1>6, <1>7 DEF LedgerChain, Chain, RowsOf, NeverOverdrawn, ReversedOnce
  <1>. QED  BY <1>2, <1>3, <1>5, <1>8 DEF WalletInv, TypeOK

LEMMA NextInv == WalletInv /\ [Next]_vars => WalletInv'
  <1>. SUFFICES ASSUME WalletInv, [Next]_vars PROVE WalletInv'
    OBVIOUS
  <1>1. ASSUME NEW t \in Txns, NEW r \in Requests, Begin(t, r) PROVE WalletInv'
    BY <1>1, BeginInv
  <1>2. ASSUME NEW t \in Txns, NEW r \in Requests, Replay(t, r) PROVE WalletInv'
    BY <1>2, ReplayInv
  <1>3. ASSUME NEW t \in Txns, Acquire(t) PROVE WalletInv'
    BY <1>3, AcquireInv
  <1>4. ASSUME NEW t \in Txns, Credit(t) PROVE WalletInv'
    BY <1>4, CreditOne, OneEntryInv
  <1>5. ASSUME NEW t \in Txns, Debit(t) PROVE WalletInv'
    BY <1>5, DebitOne, OneEntryInv
  <1>6. ASSUME NEW t \in Txns, Reversal(t) PROVE WalletInv'
    BY <1>6, ReversalOne, OneEntryInv
  <1>7. ASSUME NEW t \in Txns, Grant(t) PROVE WalletInv'
    BY <1>7, GrantOne, OneEntryInv
  <1>8. ASSUME NEW t \in Txns, Transfer(t) PROVE WalletInv'
    BY <1>8, TransferInv
  <1>9. ASSUME NEW t \in Txns, Refuse(t) \/ DeadlockVictim(t) \/ Abort(t) PROVE WalletInv'
    BY <1>9, RollbackInv DEF Refuse, DeadlockVictim, Abort
  <1>10. CASE UNCHANGED vars
    <2>1. /\ balance' = balance /\ ledger' = ledger /\ idem' = idem
          /\ grants' = grants /\ burned' = burned
          /\ tx' = tx /\ want' = want /\ holds' = holds /\ seen' = seen /\ prior' = prior
      BY <1>10 DEF vars, store, session
    <2>2. TypeOK'
      BY <2>1 DEF WalletInv, TypeOK, StoreType, SessionType
    <2>3. Exclusive' /\ Fresh' /\ IdleIsFree' /\ Complete'
      BY <2>1 DEF WalletInv, Exclusive, Fresh, IdleIsFree, Complete, Open
    <2>4. StaysWellFormed' /\ FreshPrior'
      BY <2>1 DEF WalletInv, StaysWellFormed, FreshPrior, Open, WellFormed, AlreadyReversed
    <2>5. LedgerChain' /\ NeverOverdrawn' /\ ReversedOnce'
      BY <2>1 DEF WalletInv, LedgerChain, NeverOverdrawn, ReversedOnce
    <2>. QED  BY <2>2, <2>3, <2>4, <2>5 DEF WalletInv
  <1>. QED  BY <1>1, <1>2, <1>3, <1>4, <1>5, <1>6, <1>7, <1>8, <1>9, <1>10 DEF Next

\* The inductive invariant holds in every behaviour.
THEOREM Invariant == Spec => []WalletInv
  BY InitInv, NextInv, PTL DEF Spec

\* The tables and sessions keep their types.
THEOREM TypeCorrect == Spec => []TypeOK
  <1>1. WalletInv => TypeOK
    BY DEF WalletInv
  <1>. QED  BY <1>1, Invariant, PTL

\* Whatever transactions run at once, and wherever they are aborted, the ledger of
\* every player is one chain that ends in the stored balance: the row locks and
\* the re-read under them lose no write.
THEOREM LedgerIsChain == Spec => []LedgerChain
  <1>1. WalletInv => LedgerChain
    BY DEF WalletInv
  <1>. QED  BY <1>1, Invariant, PTL

\* No interleaving of debits, transfers and reversals overdraws a balance.
THEOREM NoOverdraft == Spec => []NeverOverdrawn
  <1>1. WalletInv => NeverOverdrawn
    BY DEF WalletInv
  <1>. QED  BY <1>1, Invariant, PTL

\* No interleaving reverses a ledger row twice.
THEOREM SingleReversal == Spec => []ReversedOnce
  <1>1. WalletInv => ReversedOnce
    BY DEF WalletInv
  <1>. QED  BY <1>1, Invariant, PTL

-----------------------------------------------------------------------------
(* What players hold and what the ledger posts *)

\* Writing one balance changes what the players hold by the difference.
LEMMA HeldChange ==
  ASSUME NEW rows \in [Users -> Balance], NEW u \in Users, NEW b \in Balance,
         NEW new, new = [rows EXCEPT ![u] = b]
  PROVE  /\ Held(rows) \in Int /\ rows[u].exact \in Int
         /\ Held(new) = Held(rows) + (b.exact - rows[u].exact)
  <1>. DEFINE F == [w \in Users |-> rows[w].exact]
              G == [w \in Users |-> new[w].exact]
  <1>1. \A w \in Users : F[w] \in Int
    BY DEF Balance
  <1>2. G[u] \in Int /\ G[u] = b.exact /\ \A w \in Users : w # u => G[w] = F[w]
    BY DEF Balance
  <1>3. F[u] = rows[u].exact
    OBVIOUS
  <1>4. Held(rows) = SumOf(F, Users) /\ Held(new) = SumOf(G, Users)
    BY DEF Held, SumOf
  <1>. HIDE DEF F, G
  <1>5. SumOf(G, Users) = SumOf(F, Users) + (G[u] - F[u])
    BY <1>1, <1>2, UsersAssumption, SumChange
  <1>6. SumOf(F, Users) \in Int
    BY <1>1, UsersAssumption, SumType
  <1>. QED  BY <1>1, <1>2, <1>3, <1>4, <1>5, <1>6

LEMMA SignedType ==
  ASSUME NEW e \in Entry PROVE Signed(e) \in Int
  BY DEF Signed, Entry

\* A row posts its signed amount, unless it is a transfer's.
Posting(e) == IF e.key[1] = "transfer" THEN 0 ELSE Signed(e)

\* Appending a row posts its amount.
LEMMA PostedAppend ==
  ASSUME NEW L \in Seq(Entry), NEW e \in Entry
  PROVE  /\ Posted(L) \in Int
         /\ Posted(Append(L, e)) = Posted(L) + Posting(e)
  <1>. DEFINE n == Len(L)
              M == Append(L, e)
              F == [i \in DOMAIN L |-> Signed(L[i])]
              G == [i \in DOMAIN M |-> Signed(M[i])]
              S == OwnRows(L)
  <1>1. /\ n \in Nat /\ DOMAIN L = 1..n /\ DOMAIN M = 1..(n + 1)
        /\ M[n + 1] = e /\ \A i \in 1..n : M[i] = L[i] /\ L[i] \in Entry
        /\ n + 1 \notin 1..n /\ n + 1 \in 1..(n + 1) /\ 1..n \subseteq 1..(n + 1)
        /\ 1..(n + 1) = 1..n \cup {n + 1}
    OBVIOUS
  <1>2. IsFiniteSet(1..n)
    BY <1>1, FS_Interval
  <1>. HIDE DEF n, M
  <1>3. S \subseteq 1..n /\ IsFiniteSet(S)
    BY <1>1, <1>2, FS_Subset DEF OwnRows
  <1>4. \A i \in 1..n : F[i] \in Int /\ G[i] = F[i]
    BY <1>1, SignedType
  <1>5. G[n + 1] = Signed(e) /\ G[n + 1] \in Int
    BY <1>1, SignedType
  <1>6. Posted(L) = SumOf(F, S) /\ Posted(M) = SumOf(G, OwnRows(M))
    BY DEF Posted, SumOf
  <1>7. \A i \in S : F[i] \in Int /\ G[i] = F[i]
    BY <1>3, <1>4
  <1>8. OwnRows(M) = IF e.key[1] = "transfer" THEN S ELSE S \cup {n + 1}
    BY <1>1 DEF OwnRows
  <1>. HIDE DEF F, G, S
  <1>9. SumOf(F, S) \in Int
    BY <1>3, <1>7, SumType
  <1>10. CASE e.key[1] = "transfer"
    <2>1. SumOf(G, S) = SumOf(F, S)
      BY <1>3, <1>7, SumSame
    <2>. QED  BY <1>6, <1>8, <1>9, <1>10, <2>1 DEF Posting, M
  <1>11. CASE e.key[1] # "transfer"
    <2>. DEFINE x == n + 1
    <2>1. G[x] \in Int /\ Adds(S, x, OwnRows(M))
      BY <1>1, <1>3, <1>5, <1>8, <1>11 DEF Adds
    <2>. HIDE DEF x
    <2>2. SameOn(F, G, S) /\ \A i \in S : F[i] \in Int
      BY <1>7 DEF SameOn
    <2>. DEFINE T == OwnRows(M)
    <2>3. IsFiniteSet(S) /\ Adds(S, x, T) /\ G[x] \in Int
      BY <1>3, <2>1
    <2>. HIDE DEF T
    <2>4. SumOf(G, T) = SumOf(F, S) + G[x]
      BY <2>2, <2>3, SumAdd
    <2>. QED  BY <1>5, <1>6, <1>9, <1>11, <2>4 DEF Posting, M, x, T
  <1>. QED  BY <1>10, <1>11

-----------------------------------------------------------------------------
(* The books of the commits *)

\* The step by which t ends with the row e of its own, in new exact money b.
OneBooking(t, b, e) ==
  /\ Open(t) /\ Close(t)
  /\ b \in Balance /\ e \in Entry
  /\ balance' = [balance EXCEPT ![tx[t].user] = b]
  /\ ledger' = Append(ledger, e) /\ e.user = tx[t].user
  /\ b.exact = balance[tx[t].user].exact + Signed(e)
  /\ e.key \notin LedgerKeys /\ e.key[1] # "transfer"
  /\ e.key[1] = "grant" => e.key \in grants'
  /\ e.key[1] = "reversal" => e.reverses = e.key[4] /\ e.reverses # 0
  /\ (idem' = idem \/ idem' = idem \cup {tx[t]})
  /\ grants \subseteq grants'
  /\ burned' = burned

\* Each commit of one row books it so: its key is new, and the exact column moves
\* by the row's signed amount.
LEMMA CreditBooks ==
  ASSUME WalletInv, NEW t \in Txns, Credit(t)
  PROVE  \E b, e : OneBooking(t, b, e)
  <1>. DEFINE old == seen[t][tx[t].user]
              new == Moved(old, tx[t].exact)
              key == GrantKey(tx[t], tx[t].user)
              e == ExactEntry(tx[t].user, "CREDIT", key, tx[t].exact, old, new)
  <1>1. Open(t) /\ want[t] = <<>> /\ Close(t) /\ TypeOK /\ tx[t].op = "credit"
    BY DEF Credit, Ready, WalletInv, Post
  <1>2. new \in Balance /\ e \in Entry /\ old = balance[tx[t].user]
    <2>1. new \in Balance /\ e \in Entry
      BY SMTT(30), <1>1, OpenType, MovedType, ExactEntryType
    <2>2. old = balance[tx[t].user]
      BY <1>1, UnderLock
    <2>. QED  BY <2>1, <2>2
  <1>3. /\ balance' = [balance EXCEPT ![tx[t].user] = new]
        /\ ledger' = Append(ledger, e)
        /\ idem' = idem \cup {tx[t]}
        /\ grants' = grants \cup {key}
        /\ burned' = burned
        /\ key \notin LedgerKeys
    BY DEF Credit, Post, KeyFree
  <1>4. /\ e.key = key /\ e.user = tx[t].user
        /\ Signed(e) = tx[t].exact /\ new.exact = old.exact + tx[t].exact
    BY DEF ExactEntry, Signed, Moved
  <1>5. key[1] = "wallet"
    BY <1>1 DEF GrantKey
  <1>. HIDE DEF new, e, key, old
  <1>. QED  BY <1>1, <1>2, <1>3, <1>4, <1>5 DEF OneBooking

LEMMA DebitBooks ==
  ASSUME WalletInv, NEW t \in Txns, Debit(t)
  PROVE  \E b, e : OneBooking(t, b, e)
  <1>. DEFINE old == seen[t][tx[t].user]
              new == Moved(old, -tx[t].exact)
              key == GrantKey(tx[t], tx[t].user)
              e == ExactEntry(tx[t].user, "DEBIT", key, tx[t].exact, old, new)
  <1>1. Open(t) /\ want[t] = <<>> /\ Close(t) /\ TypeOK /\ tx[t].op = "debit"
    BY DEF Debit, Ready, WalletInv, Post
  <1>2. -tx[t].exact \in Int
    BY <1>1, OpenType
  <1>3. new \in Balance /\ e \in Entry /\ old = balance[tx[t].user]
    BY <1>1, <1>2, OpenType, MovedType, ExactEntryType, UnderLock
  <1>4. /\ balance' = [balance EXCEPT ![tx[t].user] = new]
        /\ ledger' = Append(ledger, e)
        /\ idem' = idem \cup {tx[t]} /\ grants' = grants /\ burned' = burned
        /\ key \notin LedgerKeys
    BY DEF Debit, Post, KeyFree
  <1>5. /\ e.key = key /\ e.user = tx[t].user
        /\ Signed(e) = -tx[t].exact /\ new.exact = old.exact + (-tx[t].exact)
    BY DEF ExactEntry, Signed, Moved
  <1>6. key[1] = "wallet"
    BY <1>1 DEF GrantKey
  <1>. HIDE DEF new, e, key, old
  <1>. QED  BY <1>1, <1>3, <1>4, <1>5, <1>6 DEF OneBooking

LEMMA ReversalBooks ==
  ASSUME WalletInv, RowsHaveSources, NEW t \in Txns, Reversal(t)
  PROVE  \E b, e : OneBooking(t, b, e)
  <1>. DEFINE row == ledger[tx[t].orig]
              old == seen[t][tx[t].user]
              new == Reversed(old, row)
              key == GrantKey(tx[t], tx[t].user)
              e == LegacyEntry(tx[t].user, "REVERSAL", key, row.amount, old, new, tx[t].orig)
  <1>1. Open(t) /\ want[t] = <<>> /\ Close(t) /\ TypeOK /\ tx[t].op = "reverse"
    BY DEF Reversal, Ready, WalletInv, Post
  <1>2. /\ old = balance[tx[t].user] /\ old \in Balance
        /\ tx[t].orig \in DOMAIN ledger /\ prior[t] = AlreadyReversed(tx[t].orig)
        /\ ledger \in Seq(Entry)
    BY <1>1, UnderLock DEF TypeOK, StoreType
  <1>3. row \in Entry /\ row.amount \in Int /\ tx[t].orig # 0
    <2>1. row \in Entry
      BY <1>2
    <2>2. row.amount \in Int
      BY <2>1 DEF Entry
    <2>3. 0 \notin DOMAIN ledger
      BY <1>2
    <2>. QED  BY <1>2, <2>1, <2>2, <2>3
  <1>4. /\ new \in Balance /\ new.exact = old.exact
        /\ new = [balance[tx[t].user] EXCEPT !.amount = new.amount]
    <2>1. new.amount \in Int /\ new.exact = old.exact
          /\ new = [amount |-> new.amount, exact |-> new.exact]
      BY <1>2, <1>3 DEF Reversed, Balance
    <2>. HIDE DEF new
    <2>. QED  BY <1>2, <2>1 DEF Balance
  <1>5. e \in Entry
    BY <1>1, <1>2, <1>3, <1>4, OpenType, LegacyEntryType
  <1>6. /\ balance' = [balance EXCEPT ![tx[t].user].amount = new.amount]
        /\ ledger' = Append(ledger, e)
        /\ idem' = idem \cup {tx[t]} /\ grants' = grants /\ burned' = burned
        /\ ~prior[t]
    BY DEF Reversal, Post
  <1>7. balance' = [balance EXCEPT ![tx[t].user] = new]
    BY <1>4, <1>6
  <1>8. /\ e.key = key /\ e.user = tx[t].user /\ Signed(e) = 0 /\ e.reverses = tx[t].orig
        /\ key[1] = "reversal" /\ key[4] = tx[t].orig
    BY <1>1 DEF LegacyEntry, Signed, GrantKey
  <1>. HIDE DEF new, e, key, old, row
  <1>9. key \notin LedgerKeys
    <2>1. SUFFICES ASSUME NEW i \in DOMAIN ledger, ledger[i].key = key PROVE FALSE
      BY DEF LedgerKeys
    <2>2. ledger[i].reverses = tx[t].orig
      BY <1>8, <2>1 DEF RowsHaveSources, RowSource
    <2>. QED  BY <1>2, <1>6, <2>1, <2>2 DEF AlreadyReversed
  <1>10. old.exact \in Int
    BY <1>2 DEF Balance
  <1>11. new.exact = balance[tx[t].user].exact + Signed(e)
    BY <1>2, <1>4, <1>8, <1>10
  <1>. QED  BY ZenonT(30), <1>1, <1>3, <1>4, <1>5, <1>6, <1>7, <1>8, <1>9, <1>11 DEF OneBooking

LEMMA GrantBooks ==
  ASSUME WalletInv, RowsHaveSources, NEW t \in Txns, Grant(t)
  PROVE  \E b, e : OneBooking(t, b, e)
  <1>. DEFINE amount == Floor(tx[t].exact)
              old == seen[t][tx[t].user]
              new == Granted(old, amount)
              key == GrantKey(tx[t], tx[t].user)
              e == LegacyEntry(tx[t].user, "CREDIT", key, amount, old, new, 0)
  <1>1. Open(t) /\ want[t] = <<>> /\ Close(t) /\ TypeOK /\ tx[t].op = "grant"
    BY DEF Grant, Ready, WalletInv, Post
  <1>2. old = balance[tx[t].user] /\ old \in Balance
    BY <1>1, UnderLock
  <1>3. amount \in Nat
    BY <1>1, OpenType, FloorType
  <1>. HIDE DEF amount
  <1>4. /\ new \in Balance /\ new.exact = old.exact /\ old.exact \in Int
        /\ new = [balance[tx[t].user] EXCEPT !.amount = new.amount]
    BY <1>2, <1>3 DEF Granted, Balance
  <1>5. e \in Entry
    BY <1>1, <1>2, <1>3, <1>4, OpenType, LegacyEntryType
  <1>6. /\ balance' = [balance EXCEPT ![tx[t].user].amount = new.amount]
        /\ ledger' = Append(ledger, e)
        /\ grants' = grants \cup {key}
        /\ idem' = idem /\ burned' = burned /\ key \notin grants
    BY DEF Grant, Post, amount
  <1>7. balance' = [balance EXCEPT ![tx[t].user] = new]
    BY <1>4, <1>6
  <1>8. e.key = key /\ e.user = tx[t].user /\ Signed(e) = 0 /\ key[1] = "grant"
    BY <1>1 DEF LegacyEntry, Signed, GrantKey
  <1>. HIDE DEF new, e, key, old
  <1>9. key \notin LedgerKeys
    BY <1>6, <1>8 DEF LedgerKeys, RowsHaveSources, RowSource
  <1>10. new.exact = balance[tx[t].user].exact + Signed(e)
    BY <1>2, <1>4, <1>8
  <1>11. e.key \notin LedgerKeys /\ e.key[1] = "grant" /\ e.key \in grants'
    BY <1>6, <1>8, <1>9
  <1>. QED  BY <1>1, <1>4, <1>5, <1>6, <1>7, <1>8, <1>10, <1>11 DEF OneBooking

-----------------------------------------------------------------------------
(* The steps keep the books *)

\* Closing a transaction keeps the keys of the open ones apart, and an open
\* transfer's key new, when no key but its own is added.
LEMMA CloseKeys ==
  ASSUME SessionType, KeysApart, TransferIsNew, NEW t \in Txns, Open(t), Close(t),
         idem' = idem \/ idem' = idem \cup {tx[t]}
  PROVE  KeysApart' /\ TransferIsNew'
  <1>1. /\ tx'[t] = NoRequest
        /\ \A s \in Txns \ {t} : tx'[s] = tx[s]
    BY DEF Close, SessionType
  <1>2. KeysApart'
    BY <1>1 DEF KeysApart, Open
  <1>3. TransferIsNew'
    <2>1. SUFFICES ASSUME NEW s \in Txns, Open(s)', tx'[s].op = "transfer", NEW q \in idem'
                   PROVE  IdemKey(q) # IdemKey(tx'[s])
      BY DEF TransferIsNew
    <2>2. s # t /\ tx'[s] = tx[s] /\ Open(s)
      BY <1>1, <2>1 DEF Open
    <2>3. CASE q \in idem
      BY <2>1, <2>2, <2>3 DEF TransferIsNew
    <2>4. CASE q = tx[t]
      BY <2>2, <2>4 DEF KeysApart
    <2>. QED  BY <2>1, <2>3, <2>4
  <1>. QED  BY <1>2, <1>3

\* A row keeps its source while grants and idempotency rows are only added.
LEMMA SourceStays ==
  ASSUME NEW row, NEW g, NEW q, RowSource(row, g, q), NEW h, g \subseteq h,
         NEW r, q \subseteq r
  PROVE  RowSource(row, h, r)
  BY DEF RowSource

LEMMA OneBookingInv ==
  ASSUME WalletInv, BookInv, NEW t \in Txns, NEW b, NEW e, OneBooking(t, b, e)
  PROVE  BookInv'
  <1>1. /\ Open(t) /\ Close(t) /\ b \in Balance /\ e \in Entry
        /\ balance' = [balance EXCEPT ![tx[t].user] = b]
        /\ ledger' = Append(ledger, e)
        /\ burned' = burned /\ grants \subseteq grants' /\ idem \subseteq idem'
        /\ idem' = idem \/ idem' = idem \cup {tx[t]}
    BY DEF OneBooking
  <1>2. /\ TypeOK /\ SessionType /\ ledger \in Seq(Entry) /\ balance \in [Users -> Balance]
        /\ burned \in Nat
    BY DEF WalletInv, TypeOK, StoreType
  <1>3. tx[t].user \in Users
    BY <1>1, <1>2, OpenType
  <1>4. KeysApart' /\ TransferIsNew'
    BY <1>1, <1>2, CloseKeys DEF BookInv
  <1>5. /\ DOMAIN ledger' = DOMAIN ledger \cup {Len(ledger) + 1}
        /\ ledger'[Len(ledger) + 1] = e
        /\ \A i \in DOMAIN ledger : ledger'[i] = ledger[i]
    BY <1>1, <1>2
  <1>6. RowsHaveSources'
    <2>1. SUFFICES ASSUME NEW i \in DOMAIN ledger' PROVE RowSource(ledger'[i], grants', idem')
      BY DEF RowsHaveSources
    <2>2. CASE i \in DOMAIN ledger
      <3>1. RowSource(ledger[i], grants, idem)
        BY <2>2 DEF BookInv, RowsHaveSources
      <3>2. RowSource(ledger[i], grants', idem')
        BY <1>1, <3>1, SourceStays
      <3>. QED  BY <1>5, <2>2, <3>2
    <2>3. CASE ledger'[i] = e
      BY <2>3 DEF RowSource, OneBooking
    <2>. QED  BY <1>5, <2>1, <2>2, <2>3
  <1>7. PaidOnce'
    <2>1. \A i \in DOMAIN ledger : ledger[i].key # e.key
      BY DEF OneBooking, LedgerKeys
    <2>. QED  BY <1>5, <2>1 DEF BookInv, PaidOnce
  <1>8. MoneyConserved'
    <2>1. /\ Held(balance) \in Int /\ balance[tx[t].user].exact \in Int
          /\ Held(balance') = Held(balance) + (b.exact - balance[tx[t].user].exact)
      BY <1>1, <1>2, <1>3, HeldChange
    <2>2. Posted(ledger) \in Int /\ Posted(ledger') = Posted(ledger) + Signed(e)
      BY <1>1, <1>2, PostedAppend DEF Posting, OneBooking
    <2>3. b.exact = balance[tx[t].user].exact + Signed(e) /\ Signed(e) \in Int
      BY <1>1, SignedType DEF OneBooking
    <2>. QED  BY SMTT(30), <1>1, <1>2, <2>1, <2>2, <2>3 DEF BookInv, MoneyConserved
  <1>. QED  BY <1>4, <1>6, <1>7, <1>8 DEF BookInv

LEMMA TransferBooks ==
  ASSUME WalletInv, BookInv, NEW t \in Txns, Transfer(t)
  PROVE  BookInv'
  <1>. DEFINE r == tx[t]
              u == tx[t].user
              v == tx[t].to
              a == tx[t].exact
              fee == Fee(a)
              paid == Moved(seen[t][u], -(a + fee))
              got == Moved(seen[t][v], a)
              e == ExactEntry(u, "DEBIT", GrantKey(r, u), a + fee, seen[t][u], paid)
              f == ExactEntry(v, "CREDIT", GrantKey(r, v), a, seen[t][v], got)
              mid == [balance EXCEPT ![u] = paid]
              one == Append(ledger, e)
  <1>1. /\ Open(t) /\ want[t] = <<>> /\ Close(t) /\ tx[t].op = "transfer"
        /\ TypeOK /\ StoreType /\ SessionType
    BY DEF Transfer, Ready, WalletInv, TypeOK
  <1>2. /\ u \in Users /\ v \in Users /\ u # v /\ a \in Nat
        /\ GrantKey(r, u) \in GrantKeys /\ GrantKey(r, v) \in GrantKeys
    BY <1>1, OpenType, UnderLock
  <1>3. fee \in Nat
    BY <1>2, FeeType
  <1>. HIDE DEF fee
  <1>4. /\ balance' = [mid EXCEPT ![v] = got]
        /\ ledger' = Append(one, f)
        /\ idem' = idem \cup {r} /\ grants' = grants \cup {GrantKey(r, v)}
        /\ burned' = burned + fee
    BY DEF Transfer, Charge, fee
  <1>5. seen[t][u] = balance[u] /\ seen[t][v] = balance[v]
    BY <1>1, UnderLock
  <1>6. /\ balance[u] \in Balance /\ balance[v] \in Balance
        /\ balance \in [Users -> Balance] /\ ledger \in Seq(Entry) /\ burned \in Nat
    BY <1>1, <1>2 DEF StoreType
  <1>7. paid \in Balance /\ got \in Balance /\ e \in Entry /\ f \in Entry
    <2>1. a + fee \in Nat /\ -(a + fee) \in Int
      BY <1>2, <1>3
    <2>2. paid \in Balance /\ got \in Balance
      BY <1>2, <1>5, <1>6, <2>1, MovedType
    <2>. QED  BY <1>2, <1>5, <1>6, <2>1, <2>2, ExactEntryType
  <1>8. /\ e.key = <<"transfer", r.sid, u, u>> /\ f.key = <<"transfer", r.sid, v, u>>
        /\ paid.exact = balance[u].exact + (-(a + fee))
        /\ got.exact = balance[v].exact + a
    BY <1>1, <1>5 DEF ExactEntry, GrantKey, Moved
  <1>. HIDE DEF paid, got, e, f
  <1>9. mid \in [Users -> Balance] /\ mid[v] = balance[v] /\ one \in Seq(Entry)
    BY <1>2, <1>6, <1>7
  <1>10. /\ DOMAIN ledger' = DOMAIN ledger \cup {Len(ledger) + 1, Len(ledger) + 2}
         /\ ledger'[Len(ledger) + 1] = e /\ ledger'[Len(ledger) + 2] = f
         /\ \A i \in DOMAIN ledger : ledger'[i] = ledger[i]
    BY <1>4, <1>6, <1>7
  <1>11. KeysApart' /\ TransferIsNew'
    BY <1>1, <1>4, CloseKeys DEF BookInv
  <1>12. IdemKey(r) = <<"transfer", u, r.sid>> /\ r \in idem'
    BY <1>1, <1>4 DEF IdemKey
  <1>13. RowsHaveSources'
    <2>1. SUFFICES ASSUME NEW i \in DOMAIN ledger' PROVE RowSource(ledger'[i], grants', idem')
      BY DEF RowsHaveSources
    <2>2. CASE i \in DOMAIN ledger
      <3>1. RowSource(ledger[i], grants, idem)
        BY <2>2 DEF BookInv, RowsHaveSources
      <3>2. RowSource(ledger[i], grants', idem')
        BY <1>4, <3>1, SourceStays
      <3>. QED  BY <1>10, <2>2, <3>2
    <2>3. CASE ledger'[i] = e \/ ledger'[i] = f
      BY <1>8, <1>12, <2>3 DEF RowSource
    <2>. QED  BY <1>10, <2>1, <2>2, <2>3
  <1>14. PaidOnce'
    <2>1. ASSUME NEW i \in DOMAIN ledger, ledger[i].key = e.key \/ ledger[i].key = f.key
          PROVE  FALSE
      <3>1. PICK q \in idem : IdemKey(q) = <<"transfer", u, r.sid>>
        BY <1>8, <2>1 DEF BookInv, RowsHaveSources, RowSource
      <3>. QED  BY <1>1, <1>12, <3>1 DEF BookInv, TransferIsNew
    <2>2. e.key # f.key
      BY <1>2, <1>8
    <2>. QED  BY <1>10, <2>1, <2>2 DEF BookInv, PaidOnce
  <1>15. MoneyConserved'
    <2>1. /\ Held(balance) \in Int /\ balance[u].exact \in Int
          /\ Held(mid) = Held(balance) + (paid.exact - balance[u].exact)
      BY <1>2, <1>6, <1>7, HeldChange
    <2>2. /\ Held(mid) \in Int /\ mid[v].exact \in Int
          /\ Held(balance') = Held(mid) + (got.exact - mid[v].exact)
      BY <1>2, <1>4, <1>7, <1>9, HeldChange
    <2>3. Posted(ledger) \in Int /\ Posted(one) = Posted(ledger) + Posting(e)
      BY <1>6, <1>7, PostedAppend
    <2>4. Posted(one) \in Int /\ Posted(ledger') = Posted(one) + Posting(f)
      BY <1>4, <1>7, <1>9, PostedAppend
    <2>5. Posting(e) = 0 /\ Posting(f) = 0
      BY <1>8 DEF Posting
    <2>6. Held(balance') = Held(balance) - fee
      <3>1. paid.exact - balance[u].exact = -(a + fee) /\ got.exact - mid[v].exact = a
        <4>. DEFINE x == balance[u].exact
                    y == balance[v].exact
        <4>1. x \in Int /\ y \in Int /\ a + fee \in Int /\ a \in Int
          BY <1>2, <1>3, <1>6 DEF Balance
        <4>2. paid.exact = x + (-(a + fee)) /\ got.exact = y + a /\ mid[v].exact = y
          BY <1>8, <1>9
        <4>. HIDE DEF mid, x, y
        <4>. QED  BY <4>1, <4>2 DEF x
      <3>2. Held(mid) = Held(balance) + (-(a + fee)) /\ Held(balance') = Held(mid) + a
        BY <2>1, <2>2, <3>1
      <3>. HIDE DEF mid
      <3>. QED  BY <1>2, <1>3, <2>1, <2>2, <3>2
    <2>7. Posted(ledger') = Posted(ledger)
      <3>. HIDE DEF one
      <3>. QED  BY <2>3, <2>4, <2>5
    <2>. QED  BY <1>3, <1>4, <1>6, <2>1, <2>6, <2>7 DEF BookInv, MoneyConserved
  <1>. QED  BY <1>11, <1>13, <1>14, <1>15 DEF BookInv

\* A step that leaves the rows and balances alone keeps them booked.
LEMMA StoreBooks ==
  ASSUME BookInv, balance' = balance, ledger' = ledger, burned' = burned,
         grants \subseteq grants', idem \subseteq idem'
  PROVE  RowsHaveSources' /\ PaidOnce' /\ MoneyConserved'
  <1>1. RowsHaveSources'
    <2>1. SUFFICES ASSUME NEW i \in DOMAIN ledger PROVE RowSource(ledger[i], grants', idem')
      BY DEF RowsHaveSources
    <2>2. RowSource(ledger[i], grants, idem)
      BY DEF BookInv, RowsHaveSources
    <2>. QED  BY <2>2, SourceStays
  <1>2. PaidOnce' /\ MoneyConserved'
    BY DEF BookInv, PaidOnce, MoneyConserved
  <1>. QED  BY <1>1, <1>2

LEMMA RollbackBooks ==
  ASSUME WalletInv, BookInv, NEW t \in Txns, Rollback(t)
  PROVE  BookInv'
  <1>1. /\ Open(t) /\ Close(t) /\ SessionType
        /\ balance' = balance /\ ledger' = ledger /\ idem' = idem
        /\ grants' = grants /\ burned' = burned
    BY DEF Rollback, store, WalletInv, TypeOK
  <1>2. KeysApart' /\ TransferIsNew'
    BY <1>1, CloseKeys DEF BookInv
  <1>. QED  BY <1>1, <1>2, StoreBooks DEF BookInv

LEMMA BeginBooks ==
  ASSUME WalletInv, BookInv, NEW t \in Txns, NEW r \in Requests, Begin(t, r)
  PROVE  BookInv'
  <1>1. /\ SessionType /\ tx' = [tx EXCEPT ![t] = r]
        /\ balance' = balance /\ ledger' = ledger /\ idem' = idem
        /\ grants' = grants /\ burned' = burned
    BY DEF Begin, store, WalletInv, TypeOK
  <1>2. /\ tx'[t] = r /\ \A s \in Txns \ {t} : tx'[s] = tx[s]
    BY <1>1 DEF SessionType
  <1>3. \A s \in Txns : Open(s) => IdemKey(tx[s]) # IdemKey(r)
    BY DEF Begin, KeyBusy
  <1>4. KeysApart'
    BY <1>2, <1>3 DEF BookInv, KeysApart, Open
  <1>5. r.op = "transfer" => \A q \in idem : IdemKey(q) # IdemKey(r)
    BY DEF Begin, HashConflict, AlreadyDone
  <1>6. TransferIsNew'
    BY <1>1, <1>2, <1>5 DEF BookInv, TransferIsNew, Open
  <1>. QED  BY <1>1, <1>4, <1>6, StoreBooks DEF BookInv

LEMMA ReplayBooks ==
  ASSUME WalletInv, BookInv, NEW t \in Txns, NEW r \in Requests, Replay(t, r)
  PROVE  BookInv'
  <1>1. /\ balance' = balance /\ ledger' = ledger /\ burned' = burned /\ tx' = tx
        /\ grants \subseteq grants' /\ idem \subseteq idem' /\ idem' \subseteq idem \cup {r}
    BY DEF Replay, session
  <1>2. \A s \in Txns : Open(s) => IdemKey(tx[s]) # IdemKey(r)
    BY DEF Replay, KeyBusy
  <1>3. KeysApart'
    BY <1>1 DEF BookInv, KeysApart, Open
  <1>4. TransferIsNew'
    BY <1>1, <1>2 DEF BookInv, TransferIsNew, Open
  <1>. QED  BY <1>1, <1>3, <1>4, StoreBooks DEF BookInv

\* A step that leaves the store and the open requests alone.
LEMMA QuietBooks ==
  ASSUME BookInv, tx' = tx, UNCHANGED store
  PROVE  BookInv'
  <1>1. /\ balance' = balance /\ ledger' = ledger /\ idem' = idem
        /\ grants' = grants /\ burned' = burned
    BY DEF store
  <1>2. KeysApart' /\ TransferIsNew'
    BY <1>1 DEF BookInv, KeysApart, TransferIsNew, Open
  <1>. QED  BY <1>1, <1>2, StoreBooks DEF BookInv

LEMMA InitBooks == Init => BookInv
  <1>. SUFFICES ASSUME Init PROVE BookInv
    OBVIOUS
  <1>1. \A t \in Txns : ~Open(t)
    BY DEF Init, Open
  <1>2. ledger = <<>> /\ DOMAIN ledger = {} /\ balance = NoRows /\ burned = 0
    BY DEF Init
  <1>3. KeysApart /\ TransferIsNew /\ RowsHaveSources /\ PaidOnce
    BY <1>1, <1>2 DEF KeysApart, TransferIsNew, RowsHaveSources, PaidOnce
  <1>4. Held(NoRows) = 0
    <2>. DEFINE F == [u \in Users |-> NoRows[u].exact]
    <2>1. \A u \in Users : F[u] = 0
      BY DEF NoRows
    <2>2. Held(NoRows) = SumOf(F, Users)
      BY DEF Held, SumOf
    <2>. HIDE DEF F
    <2>. QED  BY <2>1, <2>2, UsersAssumption, SumZero
  <1>5. Posted(<<>>) = 0
    <2>1. OwnRows(<<>>) = {}
      BY DEF OwnRows
    <2>. QED  BY <2>1, SumEmpty DEF Posted, SumOf
  <1>6. MoneyConserved
    BY <1>2, <1>4, <1>5 DEF MoneyConserved
  <1>. QED  BY <1>3, <1>6 DEF BookInv

LEMMA NextBooks == WalletInv /\ BookInv /\ [Next]_vars => BookInv'
  <1>. SUFFICES ASSUME WalletInv, BookInv, [Next]_vars PROVE BookInv'
    OBVIOUS
  <1>1. ASSUME NEW t \in Txns, NEW r \in Requests, Begin(t, r) PROVE BookInv'
    BY <1>1, BeginBooks
  <1>2. ASSUME NEW t \in Txns, NEW r \in Requests, Replay(t, r) PROVE BookInv'
    BY <1>2, ReplayBooks
  <1>3. ASSUME NEW t \in Txns, Acquire(t) PROVE BookInv'
    BY <1>3, QuietBooks DEF Acquire
  <1>4. ASSUME NEW t \in Txns, Credit(t) PROVE BookInv'
    BY <1>4, CreditBooks, OneBookingInv
  <1>5. ASSUME NEW t \in Txns, Debit(t) PROVE BookInv'
    BY <1>5, DebitBooks, OneBookingInv
  <1>6. ASSUME NEW t \in Txns, Reversal(t) PROVE BookInv'
    BY <1>6, ReversalBooks, OneBookingInv DEF BookInv
  <1>7. ASSUME NEW t \in Txns, Grant(t) PROVE BookInv'
    BY <1>7, GrantBooks, OneBookingInv DEF BookInv
  <1>8. ASSUME NEW t \in Txns, Transfer(t) PROVE BookInv'
    BY <1>8, TransferBooks
  <1>9. ASSUME NEW t \in Txns, Refuse(t) \/ DeadlockVictim(t) \/ Abort(t) PROVE BookInv'
    BY <1>9, RollbackBooks DEF Refuse, DeadlockVictim, Abort
  <1>10. CASE UNCHANGED vars
    BY <1>10, QuietBooks DEF vars, session
  <1>. QED  BY <1>1, <1>2, <1>3, <1>4, <1>5, <1>6, <1>7, <1>8, <1>9, <1>10 DEF Next

\* The inductive invariant of the books holds in every behaviour.
THEOREM BooksInvariant == Spec => []BookInv
  BY InitBooks, NextBooks, Invariant, PTL DEF Spec

-----------------------------------------------------------------------------
(* The reconciliation *)

\* A row adds its signed amount to the total of its player.
LEMMA TotalAppend ==
  ASSUME NEW L \in Seq(Entry), NEW e \in Entry, NEW u
  PROVE  /\ Total(L, u) \in Int
         /\ Total(Append(L, e), u) = Total(L, u) + (IF e.user = u THEN Signed(e) ELSE 0)
  <1>. DEFINE n == Len(L)
              x == n + 1
              M == Append(L, e)
              F == [i \in DOMAIN L |-> Signed(L[i])]
              G == [i \in DOMAIN M |-> Signed(M[i])]
              S == RowsOf(L, u)
              T == RowsOf(M, u)
  <1>1. /\ n \in Nat /\ DOMAIN L = 1..n /\ DOMAIN M = 1..(n + 1)
        /\ M[n + 1] = e /\ \A i \in 1..n : M[i] = L[i] /\ L[i] \in Entry
        /\ n + 1 \notin 1..n /\ n + 1 \in 1..(n + 1) /\ 1..n \subseteq 1..(n + 1)
        /\ 1..(n + 1) = 1..n \cup {n + 1}
    OBVIOUS
  <1>2. IsFiniteSet(1..n)
    BY <1>1, FS_Interval
  <1>. HIDE DEF n, M
  <1>3. S \subseteq 1..n /\ IsFiniteSet(S)
    BY <1>1, <1>2, FS_Subset DEF RowsOf
  <1>5. \A i \in 1..n : F[i] = Signed(L[i]) /\ G[i] = Signed(L[i]) /\ Signed(L[i]) \in Int
    BY <1>1, SignedType
  <1>6. G[n + 1] = Signed(e) /\ G[n + 1] \in Int
    BY <1>1, SignedType
  <1>7. Total(L, u) = SumOf(F, S) /\ Total(M, u) = SumOf(G, T)
    BY DEF Total, SumOf
  <1>8. \A i \in S : F[i] \in Int /\ F[i] = G[i]
    BY <1>3, <1>5
  <1>9. T = IF e.user = u THEN S \cup {x} ELSE S
    BY <1>1 DEF RowsOf
  <1>10. x \notin S
    BY <1>1, <1>3
  <1>11. G[x] = Signed(e) /\ G[x] \in Int
    BY <1>6
  <1>. HIDE DEF F, G, S, T, x
  <1>12. SumOf(F, S) \in Int
    BY <1>3, <1>8, SumType
  <1>13. CASE e.user # u
    <2>1. SumOf(G, S) = SumOf(F, S)
      BY <1>3, <1>8, SumSame
    <2>2. T = S
      BY <1>9, <1>13
    <2>. QED  BY <1>7, <1>12, <1>13, <2>1, <2>2 DEF M
  <1>14. CASE e.user = u
    <2>1. IsFiniteSet(S) /\ Adds(S, x, T) /\ SameOn(F, G, S) /\ \A i \in S : F[i] \in Int
      BY <1>3, <1>8, <1>9, <1>10, <1>14 DEF Adds, SameOn
    <2>2. SumOf(G, T) = SumOf(F, S) + G[x]
      BY <1>11, <2>1, SumAdd
    <2>. QED  BY <1>7, <1>11, <1>12, <1>14, <2>2 DEF M
  <1>. QED  BY <1>13, <1>14

\* The balances b and the rows L agree.
Agrees(b, L) == \A u \in Users : b[u].exact = Total(L, u)

\* A row and the balance it moves are written together.
LEMMA AgreeAppend ==
  ASSUME NEW b \in [Users -> Balance], NEW L \in Seq(Entry), Agrees(b, L),
         NEW u \in Users, NEW new \in Balance, NEW e \in Entry,
         e.user = u, new.exact = b[u].exact + Signed(e),
         NEW c, c = [b EXCEPT ![u] = new], NEW M, M = Append(L, e)
  PROVE  Agrees(c, M)
  <1>1. ASSUME NEW w \in Users PROVE c[w].exact = Total(M, w)
    <2>1. /\ Total(L, w) \in Int
          /\ Total(M, w) = Total(L, w) + (IF e.user = w THEN Signed(e) ELSE 0)
      BY TotalAppend
    <2>2. b[w].exact = Total(L, w)
      BY DEF Agrees
    <2>3. CASE w = u
      BY <2>1, <2>2, <2>3
    <2>4. CASE w # u
      BY <2>1, <2>2, <2>4
    <2>. QED  BY <2>3, <2>4
  <1>. QED  BY <1>1 DEF Agrees

LEMMA ReconcilesIsAgrees == Reconciles <=> Agrees(balance, ledger)
  BY DEF Reconciles, Agrees

\* A commit of one row keeps every player's account reconciled.
LEMMA OneBookingReconciles ==
  ASSUME WalletInv, Reconciles, NEW t \in Txns, NEW b, NEW e, OneBooking(t, b, e)
  PROVE  Reconciles'
  <1>1. /\ Open(t) /\ b \in Balance /\ e \in Entry /\ e.user = tx[t].user
        /\ balance' = [balance EXCEPT ![tx[t].user] = b]
        /\ ledger' = Append(ledger, e)
        /\ b.exact = balance[tx[t].user].exact + Signed(e)
    BY DEF OneBooking
  <1>2. /\ TypeOK /\ ledger \in Seq(Entry) /\ balance \in [Users -> Balance]
    BY DEF WalletInv, TypeOK, StoreType
  <1>3. tx[t].user \in Users
    BY <1>1, <1>2, OpenType
  <1>4. Agrees(balance', ledger')
    BY <1>1, <1>2, <1>3, ReconcilesIsAgrees, AgreeAppend
  <1>. QED  BY <1>4 DEF Reconciles, Agrees

\* A transfer writes two accounts, each with its own row.
LEMMA TransferReconciles ==
  ASSUME WalletInv, Reconciles, NEW t \in Txns, Transfer(t)
  PROVE  Reconciles'
  <1>. DEFINE u == tx[t].user
              v == tx[t].to
              a == tx[t].exact
              charge == Charge(a)
              paid == Moved(seen[t][u], -charge)
              got == Moved(seen[t][v], a)
              e == ExactEntry(u, "DEBIT", GrantKey(tx[t], u), charge, seen[t][u], paid)
              f == ExactEntry(v, "CREDIT", GrantKey(tx[t], v), a, seen[t][v], got)
              mid == [balance EXCEPT ![u] = paid]
              one == Append(ledger, e)
  <1>1. /\ Open(t) /\ want[t] = <<>> /\ tx[t].op = "transfer" /\ TypeOK /\ StoreType
    BY DEF Transfer, Ready, WalletInv, TypeOK
  <1>2. /\ u \in Users /\ v \in Users /\ u # v /\ a \in Nat
        /\ GrantKey(tx[t], u) \in GrantKeys /\ GrantKey(tx[t], v) \in GrantKeys
        /\ seen[t][u] = balance[u] /\ seen[t][v] = balance[v]
    BY <1>1, OpenType, UnderLock
  <1>3. charge \in Nat /\ -charge \in Int
    <2>1. Fee(a) \in Nat
      BY <1>2, FeeType
    <2>2. charge = a + Fee(a)
      BY DEF Charge
    <2>. HIDE DEF charge
    <2>. QED  BY <1>2, <2>1, <2>2
  <1>4. /\ balance' = [mid EXCEPT ![v] = got] /\ ledger' = Append(one, f)
    BY DEF Transfer
  <1>. HIDE DEF charge
  <1>5. /\ balance[u] \in Balance /\ balance[v] \in Balance
        /\ balance \in [Users -> Balance] /\ ledger \in Seq(Entry)
    BY <1>1, <1>2 DEF StoreType
  <1>6. paid \in Balance /\ got \in Balance /\ e \in Entry /\ f \in Entry
    <2>1. paid \in Balance /\ got \in Balance
      BY <1>2, <1>3, <1>5, MovedType
    <2>. QED  BY <1>2, <1>3, <1>5, <2>1, ExactEntryType
  <1>7. /\ e.user = u /\ Signed(e) = -charge /\ f.user = v /\ Signed(f) = a
        /\ paid.exact = balance[u].exact + (-charge) /\ got.exact = balance[v].exact + a
    BY <1>2 DEF ExactEntry, Signed, Moved
  <1>. HIDE DEF paid, got, e, f
  <1>8. mid \in [Users -> Balance] /\ mid[v] = balance[v] /\ one \in Seq(Entry)
    BY <1>2, <1>5, <1>6
  <1>9. Agrees(mid, one)
    BY <1>2, <1>5, <1>6, <1>7, ReconcilesIsAgrees, AgreeAppend
  <1>. HIDE DEF mid, one
  <1>10. Agrees(balance', ledger')
    BY <1>2, <1>4, <1>6, <1>7, <1>8, <1>9, AgreeAppend
  <1>. QED  BY <1>10 DEF Reconciles, Agrees

LEMMA InitReconciles == Init => Reconciles
  <1>. SUFFICES ASSUME Init PROVE Reconciles
    OBVIOUS
  <1>1. ledger = <<>> /\ DOMAIN ledger = {} /\ \A u \in Users : balance[u].exact = 0
    BY DEF Init, NoRows
  <1>2. ASSUME NEW u \in Users PROVE Total(ledger, u) = 0
    <2>1. RowsOf(ledger, u) = {}
      BY <1>1 DEF RowsOf
    <2>. QED  BY <2>1, SumEmpty DEF Total, SumOf
  <1>. QED  BY <1>1, <1>2 DEF Reconciles

LEMMA NextReconciles ==
  ASSUME WalletInv, BookInv, Reconciles, [Next]_vars
  PROVE  Reconciles'
  <1>0. ASSUME balance' = balance, ledger' = ledger PROVE Reconciles'
    BY <1>0 DEF Reconciles
  <1>1. ASSUME NEW t \in Txns, NEW r \in Requests, Begin(t, r) \/ Replay(t, r) PROVE Reconciles'
    BY <1>0, <1>1 DEF Begin, Replay, store
  <1>2. ASSUME NEW t \in Txns, Acquire(t) PROVE Reconciles'
    BY <1>0, <1>2 DEF Acquire, store
  <1>3. ASSUME NEW t \in Txns, Credit(t) PROVE Reconciles'
    BY <1>3, CreditBooks, OneBookingReconciles
  <1>4. ASSUME NEW t \in Txns, Debit(t) PROVE Reconciles'
    BY <1>4, DebitBooks, OneBookingReconciles
  <1>5. ASSUME NEW t \in Txns, Reversal(t) PROVE Reconciles'
    BY <1>5, ReversalBooks, OneBookingReconciles DEF BookInv
  <1>6. ASSUME NEW t \in Txns, Grant(t) PROVE Reconciles'
    BY <1>6, GrantBooks, OneBookingReconciles DEF BookInv
  <1>7. ASSUME NEW t \in Txns, Transfer(t) PROVE Reconciles'
    BY <1>7, TransferReconciles
  <1>8. ASSUME NEW t \in Txns, Refuse(t) \/ DeadlockVictim(t) \/ Abort(t) PROVE Reconciles'
    BY <1>0, <1>8 DEF Refuse, DeadlockVictim, Abort, Rollback, store
  <1>9. CASE UNCHANGED vars
    BY <1>0, <1>9 DEF vars, store
  <1>. QED  BY <1>1, <1>2, <1>3, <1>4, <1>5, <1>6, <1>7, <1>8, <1>9 DEF Next

\* Every player's exact balance is the signed sum of that player's ledger rows.
THEOREM Reconciled == Spec => []Reconciles
  BY InitReconciles, NextReconciles, Invariant, BooksInvariant, PTL DEF Spec

\* No source is booked twice or reversed twice, and each moves the player's exact
\* money by what its row says, whatever retries, reversals, transfers and
\* rollbacks interleave.
THEOREM BookedHolds == Spec => []Booked
  <1>1. WalletInv /\ BookInv /\ Reconciles => Booked
    BY DEF WalletInv, BookInv, Booked
  <1>. QED  BY <1>1, Invariant, BooksInvariant, Reconciled, PTL

\* Exact money is conserved and every player's exact balance is the signed sum of
\* that player's ledger rows, with any mix of credits, debits, rewards,
\* reversals and transfers, in fractions too, and whatever is rolled back.
THEOREM BooksBalanceHolds == Spec => []BooksBalance
  <1>1. BookInv /\ Reconciles => BooksBalance
    BY DEF BookInv, BooksBalance
  <1>. QED  BY <1>1, Reconciled, BooksInvariant, PTL
=============================================================================
