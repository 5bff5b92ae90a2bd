---------------------------- MODULE DominoProofs ----------------------------
(***************************************************************************)
(* Proofs about Domino, for any number of seats and bots, any deck, hands   *)
(* of two tiles or more, any target and number of rounds, and any deals.    *)
(***************************************************************************)
EXTENDS Domino, FiniteSetTheorems, WellFoundedInduction, TLAPS

-----------------------------------------------------------------------------
(* Numbers *)

\* The seat after a number of others is found by going back to the first.
LEMMA Modulo ==
  ASSUME NEW n \in Nat \ {0}, NEW x \in 0 .. (2 * n - 1)
  PROVE  /\ x % n \in 0 .. (n - 1)
         /\ x % n = IF x < n THEN x ELSE x - n
<1>1. CASE x < n
  BY <1>1
<1>2. CASE ~(x < n)
  BY <1>2
<1> QED
  BY <1>1, <1>2

\* A set of natural numbers has a least member.
LEMMA Least ==
  ASSUME NEW S, S \subseteq Nat, S # {}
  PROVE  Min(S) \in S /\ \A y \in S : Min(S) =< y
<1>1. PICK x \in S : \A y \in S : <<y, x>> \notin OpToRel(<, Nat)
  BY NatLessThanWellFounded, WFMin
<1>2. ASSUME NEW y \in S PROVE x =< y
  <2>1. ~(y < x) /\ x \in Nat /\ y \in Nat
    BY <1>1 DEF OpToRel
  <2> QED
    BY <2>1
<1> QED
  BY <1>2 DEF Min

\* A term that is a natural number on a set has a least and, when it is bounded,
\* a greatest value there.
LEMMA LeastOf ==
  ASSUME NEW S, S # {}, NEW F, \A x \in S : F[x] \in Nat
  PROVE  \E x \in S : \A y \in S : F[x] =< F[y]
<1> DEFINE V == {F[x] : x \in S}
<1>1. V \subseteq Nat /\ V # {}
  OBVIOUS
<1>2. Min(V) \in V /\ \A v \in V : Min(V) =< v
  <2> HIDE DEF V
  <2> QED
    BY <1>1, Least
<1>3. PICK x \in S : F[x] = Min(V)
  BY <1>2
<1> QED
  BY <1>2, <1>3

LEMMA GreatestOf ==
  ASSUME NEW S, S # {}, NEW n \in Nat, NEW F, \A x \in S : F[x] \in 0 .. n
  PROVE  \E x \in S : \A y \in S : F[y] =< F[x]
<1> DEFINE G == [x \in S |-> n - F[x]]
<1>1. \A x \in S : G[x] \in Nat /\ F[x] \in Nat /\ G[x] = n - F[x]
  OBVIOUS
<1> HIDE DEF G
<1>2. PICK x \in S : \A y \in S : G[x] =< G[y]
  BY <1>1, LeastOf
<1>3. ASSUME NEW y \in S PROVE F[y] =< F[x]
  BY <1>1, <1>2
<1> QED
  BY <1>3

-----------------------------------------------------------------------------
(* Sums *)

\* SumFunctionOnSet is defined by CHOOSE as a function on the subsets of a set
\* that solves a recursion: each sum is the term of a chosen member and the sum
\* of the others.  The lemmas need that a solution exists.
Chosen(s) == CHOOSE x \in s : TRUE

SumStep(F, D, g) == [s \in D |-> IF s = {} THEN 0 ELSE F[Chosen(s)] + g[s \ {Chosen(s)}]]

\* What SumFunctionOnSet is, by its definition.
LEMMA SumIs ==
  ASSUME NEW F, NEW S
  PROVE  SumFunctionOnSet(F, S) = (CHOOSE g : g = SumStep(F, SUBSET S, g))[S]
  BY DEF SumFunctionOnSet, FoldFunctionOnSet, MapThenFoldSet, SumStep, Chosen

\* Among subsets of a finite set there is a smallest one.
LEMMA Smallest ==
  ASSUME NEW S, IsFiniteSet(S), NEW B, B \subseteq SUBSET S, B # {}
  PROVE  \E T \in B : \A U \in B : U \subseteq T => U = T
<1> DEFINE R == StrictSubsetOrdering(S)
<1>1. B \subseteq FiniteSubsetsOf(S)
  BY FS_Subset DEF FiniteSubsetsOf
<1>2. PICK T \in B : \A U \in B : <<U, T>> \notin R
  BY <1>1, FS_StrictSubsetOrderingWellFounded, WFMin
<1>3. ASSUME NEW U \in B, U \subseteq T PROVE U = T
  BY <1>2, <1>3 DEF StrictSubsetOrdering
<1> QED
  BY <1>3

\* The chosen member is a member.
LEMMA ChosenIn == ASSUME NEW s, s # {} PROVE Chosen(s) \in s
  BY DEF Chosen

\* The recursion of a sum has a solution.
LEMMA Summable ==
  ASSUME NEW F, NEW S, IsFiniteSet(S)
  PROVE  \E g : g = SumStep(F, SUBSET S, g)
<1> DEFINE Level(n) == {s \in SUBSET S : Cardinality(s) <= n}
           Bad == {n \in Nat : ~ \E g : g = SumStep(F, Level(n), g)}
<1>0. \A s \in SUBSET S : IsFiniteSet(s) /\ Cardinality(s) \in Nat /\ Cardinality(s) <= Cardinality(S)
  BY FS_Subset, FS_CardinalityType
<1>1. SUFFICES ASSUME Bad # {} PROVE FALSE
  <2>1. Cardinality(S) \in Nat
    BY FS_CardinalityType
  <2>2. \E g : g = SumStep(F, Level(Cardinality(S)), g)
    BY <1>1, <2>1
  <2>3. Level(Cardinality(S)) = SUBSET S
    BY <1>0
  <2> QED
    BY <2>2, <2>3
<1>2. PICK n \in Bad : \A k \in Bad : ~(k < n)
  <2>1. PICK n \in Bad : \A k \in Bad : <<k, n>> \notin OpToRel(<, Nat)
    BY <1>1, NatLessThanWellFounded, WFMin
  <2> QED
    BY <2>1 DEF OpToRel
<1>3. CASE n = 0
  <2>1. \A s \in Level(0) : s = {}
    BY <1>0, FS_EmptySet
  <2>2. [s \in Level(0) |-> 0] = SumStep(F, Level(0), [s \in Level(0) |-> 0])
    BY <2>1 DEF SumStep
  <2> QED
    BY <1>2, <1>3, <2>2
<1>4. CASE n # 0
  <2>1. n \in Nat /\ n - 1 \in Nat /\ n - 1 < n
    BY <1>2, <1>4
  <2>2. n - 1 \notin Bad
    BY <1>2, <2>1
  <2>3. PICK g : g = SumStep(F, Level(n - 1), g)
    BY <2>1, <2>2
  <2> DEFINE h == SumStep(F, Level(n), g)
  <2>4. ASSUME NEW s \in Level(n), s # {}
        PROVE  s \ {Chosen(s)} \in Level(n - 1) /\ s \ {Chosen(s)} \in Level(n)
    <3>1. Cardinality(s \ {Chosen(s)}) = Cardinality(s) - 1
      BY <1>0, <2>4, ChosenIn, FS_RemoveElement
    <3> QED
      BY <1>0, <2>1, <3>1
  <2>5. ASSUME NEW s \in Level(n - 1) PROVE h[s] = g[s]
    <3>1. s \in Level(n)
      BY <1>0, <2>1
    <3> HIDE DEF Level
    <3> QED
      BY <2>3, <3>1 DEF SumStep
  <2> HIDE DEF Level
  <2>6. h = SumStep(F, Level(n), h)
    <3>1. ASSUME NEW s \in Level(n), s # {} PROVE g[s \ {Chosen(s)}] = h[s \ {Chosen(s)}]
      BY <2>4, <2>5, <3>1
    <3> HIDE DEF h
    <3>2. h = SumStep(F, Level(n), g)
      BY DEF h
    <3> QED
      BY <3>1, <3>2 DEF SumStep
  <2>7. \E f : f = SumStep(F, Level(n), f)
    BY <2>6
  <2> QED
    BY <1>2, <2>7
<1> QED
  BY <1>3, <1>4

\* Natural numbers sum to a natural number.
LEMMA SumType ==
  ASSUME NEW F, NEW S, IsFiniteSet(S), \A x \in S : F[x] \in Nat
  PROVE  SumFunctionOnSet(F, S) \in Nat
<1> DEFINE g == CHOOSE g : g = SumStep(F, SUBSET S, g)
           Bad == {s \in SUBSET S : g[s] \notin Nat}
<1>1. g = SumStep(F, SUBSET S, g)
  BY Summable
<1>2. SumFunctionOnSet(F, S) = g[S]
  BY SumIs
<1> HIDE DEF g
<1>3. SUFFICES ASSUME Bad # {} PROVE FALSE
  BY <1>2
<1>4. PICK s \in Bad : \A t \in Bad : t \subseteq s => t = s
  <2>1. Bad \subseteq SUBSET S
    OBVIOUS
  <2> HIDE DEF Bad
  <2> QED
    BY <1>3, <2>1, Smallest
<1>5. s \in SUBSET S /\ g[s] \notin Nat
  BY <1>4
<1>6. g[s] = IF s = {} THEN 0 ELSE F[Chosen(s)] + g[s \ {Chosen(s)}]
  BY <1>1, <1>5 DEF SumStep
<1>7. s # {} /\ Chosen(s) \in s
  BY <1>5, <1>6, ChosenIn
<1>8. s \ {Chosen(s)} \notin Bad
  BY <1>4, <1>7
<1>9. g[s \ {Chosen(s)}] \in Nat /\ F[Chosen(s)] \in Nat
  BY <1>5, <1>7, <1>8
<1> QED
  BY <1>5, <1>6, <1>7, <1>9

-----------------------------------------------------------------------------
(* Seats, tiles and deals *)

LEMMA SeatFacts ==
  /\ SeatCount \in Nat /\ SeatCount >= 2 /\ IsFiniteSet(Seats) /\ 0 \in Seats
  /\ Cardinality(Seats) = SeatCount /\ Seats \subseteq Nat
  BY DominoAssumption, FS_Interval DEF Seats

\* A tile is told by its face, and its pips are bounded.
LEMMA TileFacts ==
  /\ IsFiniteSet(Tiles)
  /\ \A t \in Tiles : /\ t \in Halves \X Halves /\ Flipped(t) \in Halves \X Halves
                      /\ Face(Flipped(t)) = Face(t)
                      /\ Pips(t) \in 0 .. (2 * MaxPip) /\ Rank(t) \in 0 .. (4 * MaxPip + 1)
  /\ \A t, u \in Tiles : Face(t) = Face(u) => t = u
<1>1. MaxPip \in Nat
  BY DominoAssumption
<1>2. IsFiniteSet(Tiles)
  <2>1. IsFiniteSet(Halves \X Halves)
    <3>1. IsFiniteSet(Halves)
      BY <1>1, FS_Interval DEF Halves
    <3> QED
      BY <3>1, FS_Product
  <2>2. Tiles \in SUBSET (Halves \X Halves)
    BY DEF Tiles, Halves
  <2> QED
    BY <2>1, <2>2, FS_Subset
<1>3. \A t \in Tiles : /\ t = <<t[1], t[2]>> /\ t[1] \in Halves /\ t[2] \in Halves
                       /\ t[1] \in Nat /\ t[2] \in Nat /\ t[1] =< MaxPip /\ t[2] =< MaxPip
                       /\ t[1] =< t[2]
  BY <1>1 DEF Tiles, Halves
<1>4. ASSUME NEW t \in Tiles
      PROVE  /\ t \in Halves \X Halves /\ Flipped(t) \in Halves \X Halves
             /\ Face(Flipped(t)) = Face(t)
             /\ Pips(t) \in 0 .. (2 * MaxPip) /\ Rank(t) \in 0 .. (4 * MaxPip + 1)
  BY <1>1, <1>3 DEF Flipped, Face, Pips, Rank
<1>5. ASSUME NEW t \in Tiles, NEW u \in Tiles, Face(t) = Face(u) PROVE t = u
  <2>1. t[1] = u[1] /\ t[2] = u[2]
    BY <1>3, <1>5 DEF Face
  <2> QED
    BY <1>3, <2>1
<1> QED
  BY <1>2, <1>4, <1>5

\* The pips of a hand are a natural number.
LEMMA HandPipsType ==
  ASSUME NEW hand, hand \subseteq Tiles
  PROVE  IsFiniteSet(hand) /\ HandPips(hand) \in Nat
<1> DEFINE F == [t \in hand |-> Pips(t)]
<1>1. IsFiniteSet(hand)
  BY TileFacts, FS_Subset
<1>2. \A t \in hand : F[t] \in Nat
  BY TileFacts, DominoAssumption
<1>3. HandPips(hand) = SumFunctionOnSet(F, hand)
  BY DEF HandPips
<1> HIDE DEF F
<1> QED
  BY <1>1, <1>2, <1>3, SumType

\* A dealt hand has HandSize tiles, at least two, and hands share no tile.
LEMMA DealFacts ==
  ASSUME NEW h \in Deals
  PROVE  /\ h \in [Seats -> SUBSET Tiles]
         /\ \A p, q \in Seats : p # q => h[p] \cap h[q] = {}
         /\ \A p \in Seats : IsFiniteSet(h[p]) /\ Cardinality(h[p]) = HandSize
         /\ \A p \in Seats : h[p] # {} /\ \A t : h[p] \ {t} # {}
<1>1. h \in AllDeals
  BY DominoAssumption
<1>2. /\ h \in [Seats -> SUBSET Tiles]
      /\ \A p, q \in Seats : p # q => h[p] \cap h[q] = {}
      /\ \A p \in Seats : Cardinality(h[p]) = HandSize
  BY <1>1 DEF AllDeals, kSubset
<1>3. ASSUME NEW p \in Seats PROVE IsFiniteSet(h[p])
  BY <1>2, TileFacts, FS_Subset
<1>4. ASSUME NEW p \in Seats PROVE h[p] # {} /\ \A t : h[p] \ {t} # {}
  <2>1. Cardinality(h[p]) # 0 /\ Cardinality(h[p]) # 1
    BY <1>2, DominoAssumption
  <2>2. h[p] # {}
    BY <2>1, FS_EmptySet
  <2>3. ASSUME NEW t, h[p] \ {t} = {} PROVE FALSE
    <3>1. h[p] = {t}
      BY <2>2, <2>3
    <3> QED
      BY <2>1, <3>1, FS_Singleton
  <2> QED
    BY <2>2, <2>3
<1> QED
  BY <1>2, <1>3, <1>4

\* The tiles dealt are those of all hands.
LEMMA DealCount ==
  ASSUME NEW h \in Deals
  PROVE  LET all == UNION {h[p] : p \in Seats} IN
         IsFiniteSet(all) /\ Cardinality(all) = SeatCount * HandSize
<1> DEFINE In(T) == UNION {h[p] : p \in T}
           Right(T) == IsFiniteSet(In(T)) /\ Cardinality(In(T)) = Cardinality(T) * HandSize
           Bad == {T \in SUBSET Seats : ~Right(T)}
<1>1. SUFFICES ASSUME Bad # {} PROVE FALSE
  BY SeatFacts
<1>2. PICK T \in Bad : \A U \in Bad : U \subseteq T => U = T
  <2>1. Bad \subseteq SUBSET Seats /\ IsFiniteSet(Seats)
    BY SeatFacts
  <2> HIDE DEF Bad
  <2> QED
    BY <1>1, <2>1, Smallest
<1>3. T \subseteq Seats /\ IsFiniteSet(T) /\ ~Right(T)
  BY <1>2, SeatFacts, FS_Subset
<1>4. T # {}
  <2>1. In({}) = {}
    OBVIOUS
  <2>2. IsFiniteSet({}) /\ Cardinality({}) = 0 /\ HandSize \in Nat
    BY FS_EmptySet, DominoAssumption
  <2> HIDE DEF In
  <2>3. Right({})
    BY <2>1, <2>2
  <2> QED
    BY <1>3, <2>3
<1>5. PICK p \in T : TRUE
  BY <1>4
<1> DEFINE U == T \ {p}
<1>6. U \in SUBSET Seats /\ U # T /\ U \subseteq T
  BY <1>3, <1>5
<1>7. Right(U)
  BY <1>2, <1>6
<1>8. In(T) = In(U) \cup h[p] /\ In(U) \cap h[p] = {}
  BY <1>3, <1>5, DealFacts
<1>9. /\ Cardinality(U) = Cardinality(T) - 1 /\ Cardinality(T) \in Nat
      /\ Cardinality(h[p]) = HandSize /\ IsFiniteSet(h[p]) /\ HandSize \in Nat
  BY <1>3, <1>5, DealFacts, FS_RemoveElement, FS_CardinalityType, DominoAssumption
<1> DEFINE a == In(U)
           b == h[p]
<1>10. /\ IsFiniteSet(a) /\ Cardinality(a) = Cardinality(U) * HandSize
       /\ IsFiniteSet(b) /\ Cardinality(b) = HandSize
       /\ In(T) = a \cup b /\ a \cap b = {}
  BY <1>7, <1>8, <1>9
<1> HIDE DEF U, In, a, b
<1>11. /\ IsFiniteSet(a \cup b)
       /\ Cardinality(a \cup b) = Cardinality(a) + Cardinality(b) - Cardinality(a \cap b)
  BY <1>10, FS_Union
<1>12. Cardinality(In(T)) = (Cardinality(T) - 1) * HandSize + HandSize - 0
  BY <1>9, <1>10, <1>11, FS_EmptySet
<1>13. Cardinality(In(T)) = Cardinality(T) * HandSize
  BY <1>9, <1>12
<1> QED
  BY <1>3, <1>10, <1>11, <1>13

\* The opening seat is the one that holds a highest tile.
LEMMA OpeningSeatType ==
  ASSUME NEW h \in Deals PROVE OpeningSeat(h) \in Seats
<1> DEFINE all == UNION {h[p] : p \in Seats}
           F == [t \in all |-> Rank(t)]
           best == {p \in Seats : \E t \in h[p] : \A q \in Seats : \A u \in h[q] : Rank(u) =< Rank(t)}
<1>1. all \subseteq Tiles /\ all # {}
  BY DealFacts, SeatFacts
<1>2. \A t \in all : F[t] = Rank(t) /\ F[t] \in 0 .. (4 * MaxPip + 1)
  BY <1>1, TileFacts
<1>3. 4 * MaxPip + 1 \in Nat
  BY DominoAssumption
<1>4. PICK t \in all : \A u \in all : F[u] =< F[t]
  <2> HIDE DEF F, all
  <2> QED
    BY <1>1, <1>2, <1>3, GreatestOf
<1>5. \A u \in all : Rank(u) =< Rank(t)
  BY <1>4
<1>6. best # {} /\ best \subseteq Nat
  <2>1. PICK p \in Seats : t \in h[p]
    BY <1>4
  <2>2. \A q \in Seats : \A u \in h[q] : u \in all
    OBVIOUS
  <2> HIDE DEF all
  <2> QED
    BY <1>5, <2>1, <2>2, SeatFacts
<1>7. OpeningSeat(h) = Min(best)
  BY DEF OpeningSeat
<1>8. best \subseteq Seats
  OBVIOUS
<1> HIDE DEF best
<1> QED
  BY <1>6, <1>7, <1>8, Least

\* The seat with the fewest pips is one with the fewest pips.
LEMMA FewestPipsIs ==
  ASSUME NEW g, g.hands \in [Seats -> SUBSET Tiles]
  PROVE  /\ FewestPips(g) \in Seats
         /\ \A q \in Seats : HandPips(g.hands[FewestPips(g)]) =< HandPips(g.hands[q])
<1> DEFINE F == [p \in Seats |-> HandPips(g.hands[p])]
           best == {p \in Seats : \A q \in Seats : HandPips(g.hands[p]) =< HandPips(g.hands[q])}
<1>1. \A p \in Seats : F[p] \in Nat
  BY HandPipsType
<1>2. \E p \in Seats : \A q \in Seats : F[p] =< F[q]
  <2> HIDE DEF F
  <2> QED
    BY <1>1, SeatFacts, LeastOf
<1>3. best # {} /\ best \subseteq Seats /\ best \subseteq Nat
  BY <1>2, SeatFacts
<1>4. FewestPips(g) = Min(best)
  BY DEF FewestPips
<1>5. Min(best) \in best
  <2> HIDE DEF best
  <2> QED
    BY <1>3, Least
<1> QED
  BY <1>4, <1>5

-----------------------------------------------------------------------------
(* Scoring a round *)

\* What a tile can do depends on the hands and the chain alone.
LEMMA SameTable ==
  ASSUME NEW g, NEW x, x.hands = g.hands, x.chain = g.chain
  PROVE  /\ InOneZone(g) => InOneZone(x)
         /\ \A p : Moves(x, p) = Moves(g, p)
<1>1. \A t, side : Fits(x, t, side) <=> Fits(g, t, side)
  BY DEF Fits
<1>2. \A p : Moves(x, p) = Moves(g, p)
  BY <1>1 DEF Moves
<1> QED
  BY <1>2 DEF InOneZone, InHands

LEMMA AtLeastOne ==
  ASSUME NEW y \in Int PROVE Max({1, y}) \in Nat /\ Max({1, y}) > 0
<1>1. \E x \in {1, y} : \A z \in {1, y} : x >= z
  OBVIOUS
<1>2. Max({1, y}) \in {1, y} /\ \A z \in {1, y} : Max({1, y}) >= z
  BY <1>1 DEF Max
<1> QED
  BY <1>2

\* x is g with its round scored: the points of the result are the winner's.
Scored(g, x) ==
  /\ x.status = "ROUND_COMPLETE" /\ x.round = g.round
  /\ x.last.winner \in Seats /\ x.last.points > 0
  /\ x.scores = [g.scores EXCEPT ![x.last.winner] = @ + x.last.points]

\* A round with an empty hand, or where nobody can move, is scored for a seat
\* that emptied its hand or has the fewest pips.
LEMMA ScoreSound ==
  ASSUME NEW g \in GameRow, InOneZone(g), NEW e, NEW blocked \in BOOLEAN,
         blocked => \A p \in Seats : Moves(g, p) = {} /\ g.hands[p] # {},
         ~blocked => e \in Seats /\ g.hands[e] = {}
  PROVE  /\ Sound(ScoreRound(g, e, blocked)) /\ Scored(g, ScoreRound(g, e, blocked))
         /\ ScoreRound(g, e, blocked).next = g.next /\ ScoreRound(g, e, blocked).timer = g.timer
<1> DEFINE w == IF blocked THEN FewestPips(g) ELSE e
           F == [p \in Seats |-> HandPips(g.hands[p])]
           others == SumFunctionOnSet(F, Seats \ {w})
           points == Max({1, others - HandPips(g.hands[w])})
           x == ScoreRound(g, e, blocked)
<1>1. g.hands \in [Seats -> SUBSET Tiles] /\ g.scores \in [Seats -> Nat]
  BY DEF GameRow
<1>2. w \in Seats /\ (blocked => \A q \in Seats : HandPips(g.hands[w]) =< HandPips(g.hands[q]))
  BY <1>1, FewestPipsIs
<1>3. points \in Nat /\ points > 0
  <2>1. \A p \in Seats : F[p] \in Nat
    BY <1>1, HandPipsType
  <2>2. IsFiniteSet(Seats \ {w})
    BY SeatFacts, FS_Subset
  <2>3. others \in Nat
    <3> HIDE DEF F, w
    <3> QED
      BY <2>1, <2>2, SumType
  <2>4. HandPips(g.hands[w]) \in Nat
    BY <1>1, <1>2, HandPipsType
  <2> HIDE DEF others, w
  <2>5. others - HandPips(g.hands[w]) \in Int
    BY <2>3, <2>4
  <2> QED
    BY <2>5, AtLeastOne
<1>4. x = [g EXCEPT !.status = "ROUND_COMPLETE", !.scores[w] = @ + points,
                    !.last = [winner |-> w, points |-> points, blocked |-> blocked]]
  BY DEF ScoreRound
<1> HIDE DEF w, points, x
<1>5. [winner |-> w, points |-> points, blocked |-> blocked] \in Results
  BY <1>2, <1>3 DEF Results
<1>6. [g.scores EXCEPT ![w] = @ + points] \in [Seats -> Nat]
  BY <1>1, <1>2, <1>3
<1>7. /\ x \in GameRow /\ x.status = "ROUND_COMPLETE" /\ x.round = g.round
      /\ x.hands = g.hands /\ x.chain = g.chain /\ x.next = g.next /\ x.timer = g.timer
      /\ x.scores = [g.scores EXCEPT ![w] = @ + points]
      /\ x.last = [winner |-> w, points |-> points, blocked |-> blocked]
  BY <1>4, <1>5, <1>6 DEF GameRow
<1>8. Scored(g, x)
  BY <1>2, <1>3, <1>7 DEF Scored
<1>9. EndedRight(x)
  <2>1. x.last.winner = w /\ x.last.blocked = blocked
    BY <1>7
  <2>2. CASE blocked
    BY <1>2, <1>7, <2>1, <2>2, SameTable DEF EndedRight
  <2>3. CASE ~blocked
    BY <1>7, <2>1, <2>3 DEF EndedRight, w
  <2> QED
    BY <2>2, <2>3
<1>10. InOneZone(x)
  BY <1>7, SameTable
<1> QED
  BY <1>7, <1>8, <1>9, <1>10 DEF Sound, ForcedPasses, x

-----------------------------------------------------------------------------
(* Playing a tile *)

Meets(c) == \A i \in 1 .. (Len(c) - 1) : c[i][2] = c[i + 1][1]
FacesApart(c) == \A i, j \in DOMAIN c : i # j => Face(c[i]) # Face(c[j])

\* c is a chain with one more tile, at an end that it meets.
Grown(chain, x, c) ==
  \/ c = <<x>> \o chain /\ (chain # <<>> => x[2] = chain[1][1])
  \/ c = Append(chain, x) /\ (chain # <<>> => chain[Len(chain)][2] = x[1])

\* Where a tile fits it is placed so that it meets the end.
LEMMA PlacedMeets ==
  ASSUME NEW g, NEW t \in Tiles, NEW side \in {"LEFT", "RIGHT"}, Fits(g, t, side),
         g.chain \in Seq(Halves \X Halves)
  PROVE  \E x \in {t, Flipped(t)} : Grown(g.chain, x, Placed(g, t, side))
<1>1. Flipped(t)[1] = t[2] /\ Flipped(t)[2] = t[1]
  BY DEF Flipped
<1>2. CASE g.chain = <<>>
  BY <1>2 DEF Placed, Grown
<1>3. CASE g.chain # <<>> /\ side = "LEFT"
  <2>1. g.chain[1][1] \in {t[1], t[2]}
    BY <1>3 DEF Fits
  <2> QED
    BY <1>1, <1>3, <2>1 DEF Placed, Grown
<1>4. CASE g.chain # <<>> /\ side = "RIGHT"
  <2>1. g.chain[Len(g.chain)][2] \in {t[1], t[2]}
    BY <1>4 DEF Fits
  <2> QED
    BY <1>1, <1>4, <2>1 DEF Placed, Grown
<1> QED
  BY <1>2, <1>3, <1>4

\* A chain that grew by a tile whose face is new is still a chain.
LEMMA ChainGrows ==
  ASSUME NEW H, NEW chain \in Seq(H), NEW x \in H, NEW c, Grown(chain, x, c),
         Meets(chain), FacesApart(chain), \A i \in DOMAIN chain : Face(chain[i]) # Face(x)
  PROVE  /\ c \in Seq(H) /\ Len(c) = Len(chain) + 1
         /\ Meets(c) /\ FacesApart(c)
         /\ \A i \in DOMAIN c : c[i] = x \/ \E j \in DOMAIN chain : c[i] = chain[j]
<1> DEFINE n == Len(chain)
<1>1. n \in Nat /\ DOMAIN chain = 1 .. n /\ (chain = <<>> <=> n = 0)
      /\ \A i \in 1 .. n : chain[i] \in H
  OBVIOUS
<1>2. CASE c = <<x>> \o chain /\ (chain # <<>> => x[2] = chain[1][1])
  <2>1. /\ c \in Seq(H) /\ Len(c) = n + 1 /\ DOMAIN c = 1 .. (n + 1)
        /\ c[1] = x /\ \A i \in 2 .. (n + 1) : c[i] = chain[i - 1]
    BY <1>1, <1>2
  <2> HIDE DEF n
  <2>2. ASSUME NEW i \in 1 .. (n + 1), i # 1
        PROVE  i - 1 \in 1 .. n /\ c[i] = chain[i - 1]
    BY <1>1, <2>1, <2>2
  <2>3. ASSUME NEW i \in 1 .. n PROVE c[i][2] = c[i + 1][1]
    <3>1. i + 1 \in 1 .. (n + 1) /\ i + 1 # 1 /\ c[i + 1] = chain[i]
      BY <1>1, <2>2
    <3>2. CASE i = 1
      BY <1>1, <1>2, <2>1, <3>1, <3>2
    <3>3. CASE i # 1
      <4>1. c[i] = chain[i - 1] /\ i - 1 \in 1 .. (n - 1) /\ (i - 1) + 1 = i
        BY <1>1, <2>2, <3>3
      <4>2. chain[i - 1][2] = chain[(i - 1) + 1][1]
        BY <4>1 DEF Meets, n
      <4> QED
        BY <3>1, <4>1, <4>2
    <3> QED
      BY <3>2, <3>3
  <2>4. Meets(c)
    BY <1>1, <2>1, <2>3 DEF Meets
  <2>5. ASSUME NEW i \in 1 .. (n + 1), NEW j \in 1 .. (n + 1), i # j
        PROVE  Face(c[i]) # Face(c[j])
    <3>1. CASE i = 1 \/ j = 1
      BY <1>1, <2>1, <2>2, <2>5, <3>1
    <3>2. CASE i # 1 /\ j # 1
      <4>1. i - 1 # j - 1 /\ i - 1 \in 1 .. n /\ j - 1 \in 1 .. n
        BY <2>2, <2>5, <3>2
      <4> QED
        BY <1>1, <2>2, <3>2, <4>1 DEF FacesApart
    <3> QED
      BY <3>1, <3>2
  <2>6. FacesApart(c)
    BY <2>1, <2>5 DEF FacesApart
  <2> QED
    BY <1>1, <2>1, <2>2, <2>4, <2>6 DEF n
<1>3. CASE c = Append(chain, x) /\ (chain # <<>> => chain[Len(chain)][2] = x[1])
  <2>1. /\ c \in Seq(H) /\ Len(c) = n + 1 /\ DOMAIN c = 1 .. (n + 1)
        /\ c[n + 1] = x /\ \A i \in 1 .. n : c[i] = chain[i]
    BY <1>1, <1>3
  <2>2. chain # <<>> => chain[n][2] = x[1]
    BY <1>3
  <2> HIDE DEF n
  <2>3. ASSUME NEW i \in 1 .. n PROVE c[i][2] = c[i + 1][1]
    <3>1. CASE i = n
      BY <1>1, <2>1, <2>2, <3>1
    <3>2. CASE i # n
      <4>1. i \in 1 .. (n - 1) /\ i + 1 \in 1 .. n
        BY <1>1, <3>2
      <4>2. chain[i][2] = chain[i + 1][1]
        BY <4>1 DEF Meets, n
      <4> QED
        BY <2>1, <4>1, <4>2
    <3> QED
      BY <3>1, <3>2
  <2>4. Meets(c)
    BY <1>1, <2>1, <2>3 DEF Meets
  <2>5. ASSUME NEW i \in 1 .. (n + 1), NEW j \in 1 .. (n + 1), i # j
        PROVE  Face(c[i]) # Face(c[j])
    <3>1. \A k \in 1 .. (n + 1) : k # n + 1 => k \in 1 .. n
      BY <1>1
    <3>2. CASE i = n + 1 \/ j = n + 1
      BY <1>1, <2>1, <2>5, <3>1, <3>2
    <3>3. CASE i # n + 1 /\ j # n + 1
      BY <1>1, <2>1, <2>5, <3>1, <3>3 DEF FacesApart
    <3> QED
      BY <3>2, <3>3
  <2>6. FacesApart(c)
    BY <2>1, <2>5 DEF FacesApart
  <2>7. ASSUME NEW i \in DOMAIN c PROVE c[i] = x \/ \E j \in DOMAIN chain : c[i] = chain[j]
    <3>1. i = n + 1 \/ i \in 1 .. n
      BY <1>1, <2>1
    <3> QED
      BY <1>1, <2>1, <3>1
  <2> QED
    BY <2>1, <2>4, <2>6, <2>7 DEF n
<1> QED
  BY <1>2, <1>3 DEF Grown

LEMMA MoveType ==
  ASSUME NEW g \in GameRow, NEW p \in Seats, NEW mv \in Moves(g, p)
  PROVE  /\ mv[1] \in g.hands[p] /\ mv[1] \in Tiles /\ mv[2] \in {"LEFT", "RIGHT"}
         /\ Fits(g, mv[1], mv[2])
  BY DEF GameRow, Moves

\* The tile that is played goes from one hand to the chain.
LEMMA PlayedZones ==
  ASSUME NEW g \in GameRow, InOneZone(g), NEW p \in Seats, NEW mv \in Moves(g, p),
         NEW y, y.chain = Placed(g, mv[1], mv[2]),
         y.hands = [g.hands EXCEPT ![p] = @ \ {mv[1]}]
  PROVE  /\ InOneZone(y) /\ y.chain \in Seq(Halves \X Halves)
         /\ y.hands \in [Seats -> SUBSET Tiles]
<1> DEFINE t == mv[1]
           H == Halves \X Halves
<1>1. /\ t \in g.hands[p] /\ t \in Tiles /\ mv[2] \in {"LEFT", "RIGHT"} /\ Fits(g, t, mv[2])
      /\ g.hands \in [Seats -> SUBSET Tiles] /\ g.chain \in Seq(H)
      /\ \A i \in DOMAIN g.chain : \A u \in InHands(g) : Face(g.chain[i]) # Face(u)
      /\ Meets(g.chain) /\ FacesApart(g.chain)
      /\ \A q, r \in Seats : q # r => g.hands[q] \cap g.hands[r] = {}
  BY MoveType DEF GameRow, InOneZone, Meets, FacesApart
<1> HIDE DEF t, H
<1>2. PICK x \in {t, Flipped(t)} : Grown(g.chain, x, y.chain)
  BY <1>1, PlacedMeets DEF t, H
<1>3. x \in H /\ Face(x) = Face(t)
  BY <1>1, <1>2, TileFacts DEF H
<1>4. t \in InHands(g)
  BY <1>1 DEF InHands
<1>5. \A i \in DOMAIN g.chain : Face(g.chain[i]) # Face(x)
  BY <1>1, <1>3, <1>4
<1>6. /\ y.chain \in Seq(H) /\ Len(y.chain) = Len(g.chain) + 1
      /\ Meets(y.chain) /\ FacesApart(y.chain)
      /\ \A i \in DOMAIN y.chain : y.chain[i] = x \/ \E j \in DOMAIN g.chain : y.chain[i] = g.chain[j]
  BY <1>1, <1>2, <1>3, <1>5, ChainGrows
<1>7. /\ y.hands \in [Seats -> SUBSET Tiles] /\ y.hands[p] = g.hands[p] \ {t}
      /\ \A q \in Seats : q # p => y.hands[q] = g.hands[q]
  BY <1>1 DEF t
<1>8. InHands(y) = InHands(g) \ {t}
  <2>1. \A q \in Seats : y.hands[q] = g.hands[q] \ {t}
    BY <1>1, <1>7
  <2> QED
    BY <2>1 DEF InHands
<1>9. \A q, r \in Seats : q # r => y.hands[q] \cap y.hands[r] = {}
  BY <1>1, <1>7
<1>10. ASSUME NEW i \in DOMAIN y.chain, NEW u \in InHands(y) PROVE Face(y.chain[i]) # Face(u)
  <2>1. u \in InHands(g) /\ u # t /\ u \in Tiles
    BY <1>1, <1>8 DEF InHands
  <2>2. Face(u) # Face(t)
    BY <1>1, <2>1, TileFacts
  <2> QED
    BY <1>1, <1>3, <1>6, <2>1, <2>2
<1>11. Len(y.chain) + Cardinality(InHands(y)) = SeatCount * HandSize
  <2>1. IsFiniteSet(InHands(g))
    <3>1. InHands(g) \in SUBSET Tiles
      BY <1>1 DEF InHands
    <3> QED
      BY <3>1, TileFacts, FS_Subset
  <2>2. Cardinality(InHands(y)) = Cardinality(InHands(g)) - 1 /\ Cardinality(InHands(g)) \in Nat
    BY <1>4, <1>8, <2>1, FS_RemoveElement, FS_CardinalityType
  <2>3. Len(g.chain) + Cardinality(InHands(g)) = SeatCount * HandSize /\ Len(g.chain) \in Nat
    BY <1>1 DEF InOneZone
  <2> QED
    BY <1>6, <2>2, <2>3
<1> QED
  BY <1>6, <1>7, <1>9, <1>10, <1>11 DEF InOneZone, Meets, FacesApart, H

\* x is g advanced: not scored, or scored once.
Advanced(g, x) ==
  \/ x.status = g.status /\ x.scores = g.scores /\ x.round = g.round /\ x.last = g.last
  \/ g.status = "ACTIVE" /\ Scored(g, x)

LEMMA AfterType == \A p \in Seats : After(p) \in Seats
<1> SUFFICES ASSUME NEW p \in Seats PROVE After(p) \in Seats
  OBVIOUS
<1>1. SeatCount \in Nat \ {0} /\ p + 1 \in 0 .. (2 * SeatCount - 1)
  BY SeatFacts DEF Seats
<1> QED
  BY <1>1, Modulo DEF After, Seats

\* A tile that is played leaves a sound state, scored when it was the last.
LEMMA PlaySound ==
  ASSUME NEW g, Sound(g), g.status = "ACTIVE", NEW p \in Seats, NEW mv \in Moves(g, p)
  PROVE  LET x == PlayTile(g, p, mv[1], mv[2]) IN
         /\ Sound(x) /\ Advanced(g, x) /\ x.next = g.next /\ x.timer = g.timer
         /\ x.status # "ACTIVE" => g.hands[p] \ {mv[1]} = {}
<1> DEFINE x == PlayTile(g, p, mv[1], mv[2])
           y == [g EXCEPT !.chain = Placed(g, mv[1], mv[2]), !.hands[p] = @ \ {mv[1]},
                          !.passes = 0, !.seat = After(p)]
<1>1. g \in GameRow /\ InOneZone(g) /\ g.last = NoResult /\ \A q \in Seats : g.hands[q] # {}
  BY DEF Sound
<1>2. x = IF y.hands[p] = {} THEN ScoreRound(y, p, FALSE) ELSE y
  BY DEF PlayTile
<1>3. /\ y.chain = Placed(g, mv[1], mv[2]) /\ y.hands = [g.hands EXCEPT ![p] = @ \ {mv[1]}]
      /\ y.passes = 0 /\ y.seat = After(p) /\ y.status = g.status /\ y.round = g.round
      /\ y.scores = g.scores /\ y.next = g.next /\ y.last = g.last /\ y.timer = g.timer
  BY <1>1 DEF GameRow
<1>4. /\ InOneZone(y) /\ y.chain \in Seq(Halves \X Halves)
      /\ y.hands \in [Seats -> SUBSET Tiles]
  <2> HIDE DEF y
  <2> QED
    BY ZenonT(30), <1>1, <1>3, PlayedZones
<1>5. y \in GameRow
  <2>1. After(p) \in Seats /\ 0 \in 0 .. SeatCount
    BY AfterType, SeatFacts
  <2>2. y = [g EXCEPT !.chain = y.chain, !.hands = y.hands, !.passes = 0, !.seat = After(p)]
    BY <1>1 DEF GameRow
  <2> DEFINE c == y.chain
             h == y.hands
  <2>3. y = [g EXCEPT !.chain = c, !.hands = h, !.passes = 0, !.seat = After(p)]
    BY <2>2
  <2>4. c \in Seq(Halves \X Halves) /\ h \in [Seats -> SUBSET Tiles]
    BY <1>4
  <2> HIDE DEF c, h, y
  <2> QED
    BY <1>1, <2>1, <2>3, <2>4 DEF GameRow
<1>6. /\ y.hands[p] = g.hands[p] \ {mv[1]}
      /\ \A q \in Seats : q # p => y.hands[q] # {}
  BY <1>1, <1>3 DEF GameRow
<1> HIDE DEF x, y
<1>7. CASE y.hands[p] = {}
  <2>1. /\ Sound(ScoreRound(y, p, FALSE)) /\ Scored(y, ScoreRound(y, p, FALSE))
        /\ ScoreRound(y, p, FALSE).next = y.next /\ ScoreRound(y, p, FALSE).timer = y.timer
    BY <1>4, <1>5, <1>7, ScoreSound
  <2>2. x = ScoreRound(y, p, FALSE)
    BY <1>2, <1>7
  <2> QED
    BY <1>3, <1>6, <1>7, <2>1, <2>2 DEF Advanced, Scored, x
<1>8. CASE y.hands[p] # {}
  <2>1. x = y
    BY <1>2, <1>8
  <2>2. EndedRight(y)
    BY <1>1, <1>3 DEF EndedRight
  <2>3. ForcedPasses(y)
    BY <1>3, SeatFacts DEF ForcedPasses
  <2>4. Sound(y)
    BY <1>1, <1>3, <1>4, <1>5, <1>6, <1>8, <2>2, <2>3 DEF Sound
  <2> QED
    BY <1>3, <2>1, <2>4 DEF Advanced, x
<1> QED
  BY <1>7, <1>8

-----------------------------------------------------------------------------
(* Passing the turn *)

\* Going round the seats: what is before the seat k places on, and that the seats
\* before a seat and those from it on are all of them.
LEMMA Turns ==
  ASSUME NEW p \in Seats
  PROVE  /\ \A k \in 0 .. SeatCount : (p + k) % SeatCount \in Seats
         /\ (p + 0) % SeatCount = p
         /\ \A k \in 0 .. SeatCount : \A j \in 1 .. SeatCount :
               (((p + k) % SeatCount) + SeatCount - j) % SeatCount
                 = IF j =< k THEN (p + (k - j)) % SeatCount
                   ELSE (p + SeatCount - (j - k)) % SeatCount
         /\ \A n \in 0 .. (SeatCount - 1) : \A q \in Seats :
               \/ \E k \in 0 .. (SeatCount - n - 1) : q = (p + k) % SeatCount
               \/ \E k \in 1 .. n : q = (p + SeatCount - k) % SeatCount
<1> DEFINE N == SeatCount
<1>1. N \in Nat \ {0} /\ Seats = 0 .. (N - 1)
  BY SeatFacts DEF Seats
<1> HIDE DEF N
<1>2. ASSUME NEW x, x \in 0 .. (2 * N - 1) PROVE x % N = IF x < N THEN x ELSE x - N
  BY <1>1, <1>2, Modulo
<1>3. ASSUME NEW k \in 0 .. N
      PROVE  /\ (p + k) % N = IF p + k < N THEN p + k ELSE p + k - N
             /\ (p + k) % N \in Seats
  <2>1. p + k \in 0 .. (2 * N - 1)
    BY <1>1
  <2>2. (p + k) % N = IF p + k < N THEN p + k ELSE p + k - N
    BY <1>1, <1>2, <2>1
  <2> QED
    BY <1>1, <2>1, <2>2
<1>4. (p + 0) % N = p
  BY <1>1, <1>3
<1>5. ASSUME NEW k \in 0 .. N, NEW j \in 1 .. N
      PROVE  (((p + k) % N) + N - j) % N
               = IF j =< k THEN (p + (k - j)) % N ELSE (p + N - (j - k)) % N
  <2> DEFINE a == (p + k) % N
  <2>1. a \in 0 .. (N - 1) /\ a = IF p + k < N THEN p + k ELSE p + k - N
    BY <1>1, <1>3
  <2> HIDE DEF a
  <2>2. a + N - j \in 0 .. (2 * N - 1)
    BY <1>1, <2>1
  <2>3. (a + N - j) % N = IF a + N - j < N THEN a + N - j ELSE a + N - j - N
    BY <1>1, <1>2, <2>1, <2>2
  <2>4. ASSUME j =< k PROVE (a + N - j) % N = (p + (k - j)) % N
    <3>1. p + (k - j) \in 0 .. (2 * N - 1)
      BY <1>1, <2>4
    <3>2. (p + (k - j)) % N = IF p + (k - j) < N THEN p + (k - j) ELSE p + (k - j) - N
      BY <1>1, <1>2, <3>1
    <3> DEFINE b == (p + (k - j)) % N
               c == (a + N - j) % N
    <3>3. /\ b = IF p + (k - j) < N THEN p + (k - j) ELSE p + (k - j) - N
          /\ c = IF a + N - j < N THEN a + N - j ELSE a + N - j - N
      BY <2>3, <3>2
    <3> HIDE DEF b, c
    <3>4. c = b
      BY <1>1, <2>1, <2>4, <3>3
    <3> QED
      BY <3>4 DEF b, c
  <2>5. ASSUME ~(j =< k) PROVE (a + N - j) % N = (p + N - (j - k)) % N
    <3>1. p + N - (j - k) \in 0 .. (2 * N - 1)
      BY <1>1, <2>5
    <3>2. (p + N - (j - k)) % N
            = IF p + N - (j - k) < N THEN p + N - (j - k) ELSE p + N - (j - k) - N
      BY <1>1, <1>2, <3>1
    <3> DEFINE b == (p + N - (j - k)) % N
               c == (a + N - j) % N
    <3>3. /\ b = IF p + N - (j - k) < N THEN p + N - (j - k) ELSE p + N - (j - k) - N
          /\ c = IF a + N - j < N THEN a + N - j ELSE a + N - j - N
      BY <2>3, <3>2
    <3> HIDE DEF b, c
    <3>4. c = b
      BY <1>1, <2>1, <2>5, <3>3
    <3> QED
      BY <3>4 DEF b, c
  <2> DEFINE b == (p + (k - j)) % N
             c == (a + N - j) % N
             d == (p + N - (j - k)) % N
  <2>6. (j =< k => c = b) /\ (~(j =< k) => c = d)
    BY <2>4, <2>5
  <2> HIDE DEF b, c, d
  <2>7. c = IF j =< k THEN b ELSE d
    BY <2>6
  <2> QED
    BY <2>7 DEF a, b, c, d
<1>6. ASSUME NEW n \in 0 .. (N - 1), NEW q \in Seats
      PROVE  \/ \E k \in 0 .. (N - n - 1) : q = (p + k) % N
             \/ \E k \in 1 .. n : q = (p + N - k) % N
  <2> DEFINE d == IF q >= p THEN q - p ELSE q - p + N
  <2>1. d \in 0 .. (N - 1) /\ q = IF p + d < N THEN p + d ELSE p + d - N
    BY <1>1
  <2> HIDE DEF d
  <2>2. q = (p + d) % N
    BY <1>1, <1>3, <2>1
  <2>3. CASE d =< N - n - 1
    <3>1. d \in 0 .. (N - n - 1)
      BY <1>1, <2>1, <2>3
    <3> QED
      BY <2>2, <3>1
  <2>4. CASE ~(d =< N - n - 1)
    <3>1. N - d \in 1 .. n /\ p + N - (N - d) = p + d
      BY <1>1, <2>1, <2>4
    <3> QED
      BY <2>2, <3>1
  <2> QED
    BY <2>3, <2>4
<1> QED
  BY <1>3, <1>4, <1>5, <1>6 DEF N

\* A forced pass leaves a sound state, and when it was the last seat's the round
\* is scored as blocked.
LEMMA PassSound ==
  ASSUME NEW g, Sound(g), g.status = "ACTIVE", Moves(g, g.seat) = {}
  PROVE  LET x == Pass(g, g.seat) IN
         Sound(x) /\ Advanced(g, x) /\ x.next = g.next /\ x.timer = g.timer
<1> DEFINE p == g.seat
           x == Pass(g, p)
           y == [g EXCEPT !.passes = @ + 1, !.seat = After(p)]
<1>1. /\ g \in GameRow /\ InOneZone(g) /\ g.last = NoResult /\ \A q \in Seats : g.hands[q] # {}
      /\ g.passes < SeatCount
      /\ \A k \in 1 .. g.passes : Moves(g, (p + SeatCount - k) % SeatCount) = {}
  BY DEF Sound, ForcedPasses
<1>2. p \in Seats /\ g.passes \in 0 .. (SeatCount - 1) /\ SeatCount \in Nat /\ SeatCount >= 2
  BY <1>1, SeatFacts DEF GameRow
<1>3. x = IF y.passes >= SeatCount THEN ScoreRound(y, -1, TRUE) ELSE y
  BY DEF Pass
<1>4. /\ y.chain = g.chain /\ y.hands = g.hands /\ y.status = g.status /\ y.round = g.round
      /\ y.scores = g.scores /\ y.next = g.next /\ y.last = g.last /\ y.timer = g.timer
      /\ y.passes = g.passes + 1 /\ y.seat = After(p)
  BY <1>1 DEF GameRow
<1>5. y \in GameRow
  <2>1. After(p) \in Seats /\ g.passes + 1 \in 0 .. SeatCount
    BY <1>2, AfterType
  <2> QED
    BY <1>1, <2>1 DEF GameRow
<1> HIDE DEF p, x, y
<1>6. InOneZone(y) /\ \A q : Moves(y, q) = Moves(g, q)
  BY <1>1, <1>4, SameTable
<1>7. CASE y.passes >= SeatCount
  <2>1. g.passes = SeatCount - 1
    BY <1>2, <1>4, <1>7
  <2>2. ASSUME NEW q \in Seats PROVE Moves(g, q) = {}
    <3>1. \/ \E k \in 0 .. (SeatCount - g.passes - 1) : q = (p + k) % SeatCount
          \/ \E k \in 1 .. g.passes : q = (p + SeatCount - k) % SeatCount
      BY ZenonT(30), <1>2, Turns
    <3>2. CASE \E k \in 1 .. g.passes : q = (p + SeatCount - k) % SeatCount
      BY <1>1, <3>2
    <3>3. CASE \E k \in 0 .. (SeatCount - g.passes - 1) : q = (p + k) % SeatCount
      <4>1. q = (p + 0) % SeatCount
        BY <1>2, <2>1, <3>3
      <4>2. q = p
        BY <1>2, <4>1, Turns
      <4> QED
        BY <4>2 DEF p
    <3> QED
      BY <3>1, <3>2, <3>3
  <2>3. /\ Sound(ScoreRound(y, -1, TRUE)) /\ Scored(y, ScoreRound(y, -1, TRUE))
        /\ ScoreRound(y, -1, TRUE).next = y.next /\ ScoreRound(y, -1, TRUE).timer = y.timer
    <3>1. \A q \in Seats : Moves(y, q) = {} /\ y.hands[q] # {}
      BY <1>1, <1>4, <1>6, <2>2
    <3> QED
      BY <1>5, <1>6, <3>1, ScoreSound
  <2>4. x = ScoreRound(y, -1, TRUE)
    BY <1>3, <1>7
  <2> QED
    BY <1>4, <2>3, <2>4 DEF Advanced, Scored, x, p
<1>8. CASE ~(y.passes >= SeatCount)
  <2>1. x = y
    BY <1>3, <1>8
  <2>2. EndedRight(y)
    BY <1>1, <1>4 DEF EndedRight
  <2>3. y.passes < SeatCount
    BY <1>2, <1>4, <1>8
  <2>4. ASSUME NEW k \in 1 .. y.passes
        PROVE  Moves(g, (y.seat + SeatCount - k) % SeatCount) = {}
    <3>1. k \in 1 .. SeatCount /\ 1 \in 0 .. SeatCount
      BY <1>2, <1>4, <2>3
    <3>2. (y.seat + SeatCount - k) % SeatCount
            = IF k =< 1 THEN (p + (1 - k)) % SeatCount ELSE (p + SeatCount - (k - 1)) % SeatCount
      BY <1>2, <1>4, <3>1, Turns DEF After
    <3>3. CASE k = 1
      <4>1. (y.seat + SeatCount - k) % SeatCount = (p + 0) % SeatCount
        BY <3>2, <3>3
      <4>2. (p + 0) % SeatCount = p
        BY <1>2, Turns
      <4> QED
        BY <4>1, <4>2 DEF p
    <3>4. CASE k # 1
      <4>1. k - 1 \in 1 .. g.passes /\ ~(k =< 1)
        BY <1>2, <1>4, <3>4
      <4> QED
        BY <1>1, <3>2, <4>1
    <3> QED
      BY <3>3, <3>4
  <2>5. ForcedPasses(y)
    BY <1>6, <2>3, <2>4 DEF ForcedPasses
  <2>6. Sound(y)
    BY <1>1, <1>4, <1>5, <1>6, <2>2, <2>5 DEF Sound
  <2> QED
    BY <1>4, <2>1, <2>6 DEF Advanced, x, p
<1> QED
  BY <1>7, <1>8

\* Skipping goes to the first seat that can move, over seats that cannot; when
\* there is none the round is scored as blocked.
LEMMA SkipSound ==
  ASSUME NEW g, Sound(g)
  PROVE  LET x == SkipBlockedTurns(g) IN
         /\ Sound(x) /\ Advanced(g, x) /\ x.next = g.next /\ x.timer = g.timer
         /\ g.status = "ACTIVE" /\ Moves(g, g.seat) # {} => x.status = "ACTIVE"
         /\ x.status = "ACTIVE" => x.hands = g.hands
<1> DEFINE p == g.seat
           able == {k \in 0 .. (SeatCount - g.passes - 1) : Moves(g, (p + k) % SeatCount) # {}}
           Skipped(k) == [g EXCEPT !.seat = (@ + k) % SeatCount, !.passes = @ + k]
           x == SkipBlockedTurns(g)
<1>1. x = IF g.status # "ACTIVE" THEN g
          ELSE IF able = {} THEN ScoreRound(Skipped(SeatCount - g.passes), -1, TRUE)
          ELSE Skipped(Min(able))
  BY DEF SkipBlockedTurns
<1>2. CASE g.status # "ACTIVE"
  <2>1. x = g
    BY <1>1, <1>2
  <2> HIDE DEF x
  <2>2. Sound(x) /\ Advanced(g, x) /\ x.next = g.next /\ x.timer = g.timer /\ x.hands = g.hands
    BY <2>1 DEF Advanced
  <2> QED
    BY <1>2, <2>2 DEF x
<1>3. CASE g.status = "ACTIVE"
  <2>1. /\ g \in GameRow /\ InOneZone(g) /\ g.last = NoResult /\ \A q \in Seats : g.hands[q] # {}
        /\ g.passes < SeatCount
        /\ \A k \in 1 .. g.passes : Moves(g, (p + SeatCount - k) % SeatCount) = {}
    BY <1>3 DEF Sound, ForcedPasses
  <2>2. p \in Seats /\ g.passes \in 0 .. (SeatCount - 1) /\ SeatCount \in Nat /\ SeatCount >= 2
    BY <2>1, SeatFacts DEF GameRow
  <2>3. ASSUME NEW k \in 0 .. (SeatCount - g.passes)
        PROVE  LET y == Skipped(k) IN
               /\ y \in GameRow /\ InOneZone(y) /\ \A q : Moves(y, q) = Moves(g, q)
               /\ y.hands = g.hands /\ y.status = g.status /\ y.round = g.round
               /\ y.scores = g.scores /\ y.next = g.next /\ y.last = g.last /\ y.timer = g.timer
               /\ y.passes = g.passes + k /\ y.seat = (p + k) % SeatCount
    <3> DEFINE y == Skipped(k)
               s == (p + k) % SeatCount
               n == g.passes + k
    <3>1. s \in Seats /\ n \in 0 .. SeatCount
      BY <2>2, Turns
    <3>2. y = [g EXCEPT !.seat = s, !.passes = n]
      BY <2>1 DEF GameRow
    <3> HIDE DEF y, s, n
    <3>3. /\ y \in GameRow /\ y.chain = g.chain
          /\ y.hands = g.hands /\ y.status = g.status /\ y.round = g.round
          /\ y.scores = g.scores /\ y.next = g.next /\ y.last = g.last /\ y.timer = g.timer
          /\ y.passes = n /\ y.seat = s
      BY <2>1, <3>1, <3>2 DEF GameRow
    <3>4. InOneZone(y) /\ \A q : Moves(y, q) = Moves(g, q)
      BY <2>1, <3>3, SameTable
    <3> QED
      BY <3>3, <3>4 DEF y, s, n
  <2>4. CASE able = {}
    <3> DEFINE y == Skipped(SeatCount - g.passes)
    <3>1. /\ y \in GameRow /\ InOneZone(y) /\ \A q : Moves(y, q) = Moves(g, q)
          /\ y.hands = g.hands /\ y.round = g.round
          /\ y.scores = g.scores /\ y.next = g.next /\ y.timer = g.timer
      <4>1. SeatCount - g.passes \in 0 .. (SeatCount - g.passes)
        BY <2>2
      <4> HIDE DEF Skipped
      <4> QED
        BY <2>3, <4>1
    <3>2. x = ScoreRound(y, -1, TRUE)
      BY <1>1, <1>3, <2>4
    <3> HIDE DEF y, x
    <3>3. ASSUME NEW q \in Seats PROVE Moves(y, q) = {} /\ y.hands[q] # {}
      <4>1. \/ \E k \in 0 .. (SeatCount - g.passes - 1) : q = (p + k) % SeatCount
            \/ \E k \in 1 .. g.passes : q = (p + SeatCount - k) % SeatCount
        BY ZenonT(30), <2>2, Turns
      <4>2. Moves(g, q) = {}
        BY <2>1, <2>4, <4>1
      <4> QED
        BY <2>1, <3>1, <4>2
    <3>4. Sound(x) /\ Scored(y, x) /\ x.next = y.next /\ x.timer = y.timer
      BY <3>1, <3>2, <3>3, ScoreSound
    <3>5. x.status # "ACTIVE" /\ Advanced(g, x)
      BY <1>3, <3>1, <3>4 DEF Advanced, Scored
    <3>6. Moves(g, p) = {}
      <4>1. 0 \in 0 .. (SeatCount - g.passes - 1) /\ (p + 0) % SeatCount = p
        BY <2>2, Turns
      <4>2. 0 \notin able
        BY <2>4
      <4> HIDE DEF p
      <4> QED
        BY <4>1, <4>2
    <3> QED
      BY <3>1, <3>4, <3>5, <3>6 DEF x, p
  <2>5. CASE able # {}
    <3> DEFINE k == Min(able)
               y == Skipped(k)
    <3>1. k \in able /\ \A j \in able : k =< j
      <4>1. able \subseteq Nat
        BY <2>2
      <4> HIDE DEF able
      <4> QED
        BY <2>5, <4>1, Least
    <3>2. k \in 0 .. (SeatCount - g.passes - 1) /\ k \in 0 .. (SeatCount - g.passes)
      BY <2>2, <3>1
    <3>3. ASSUME NEW j \in 0 .. (SeatCount - g.passes - 1), j < k
          PROVE  Moves(g, (p + j) % SeatCount) = {}
      <4>1. j \notin able
        <5> HIDE DEF able, k
        <5>1. ~(k =< j)
          BY <2>2, <3>2, <3>3
        <5> QED
          BY <3>1, <5>1
      <4> HIDE DEF p
      <4> QED
        BY <4>1
    <3> HIDE DEF able, k
    <3>4. /\ y \in GameRow /\ InOneZone(y) /\ \A q : Moves(y, q) = Moves(g, q)
          /\ y.hands = g.hands /\ y.status = g.status /\ y.round = g.round
          /\ y.scores = g.scores /\ y.next = g.next /\ y.last = g.last /\ y.timer = g.timer
          /\ y.passes = g.passes + k /\ y.seat = (p + k) % SeatCount
      <4> HIDE DEF Skipped
      <4> QED
        BY <2>3, <3>2
    <3>5. x = y
      BY <1>1, <1>3, <2>5 DEF k
    <3> HIDE DEF y, x
    <3>6. y.passes < SeatCount
      BY <2>2, <3>2, <3>4
    <3>7. ASSUME NEW j \in 1 .. y.passes
          PROVE  Moves(g, (y.seat + SeatCount - j) % SeatCount) = {}
      <4>1. j \in 1 .. SeatCount /\ k \in 0 .. SeatCount
        BY <2>2, <3>2, <3>4
      <4>2. (((p + k) % SeatCount) + SeatCount - j) % SeatCount
              = IF j =< k THEN (p + (k - j)) % SeatCount
                ELSE (p + SeatCount - (j - k)) % SeatCount
        BY <2>2, <4>1, Turns
      <4>3. CASE j =< k
        <5>1. k - j \in 0 .. (SeatCount - g.passes - 1) /\ k - j < k
          BY <2>2, <3>2, <4>1, <4>3
        <5>2. Moves(g, (p + (k - j)) % SeatCount) = {}
          BY <3>3, <5>1
        <5> QED
          BY <3>4, <4>2, <4>3, <5>2
      <4>4. CASE ~(j =< k)
        <5>1. j - k \in 1 .. g.passes
          BY <2>2, <3>2, <3>4, <4>1, <4>4
        <5> QED
          BY <2>1, <3>4, <4>2, <4>4, <5>1
      <4> QED
        BY <4>3, <4>4
    <3>8. ForcedPasses(y)
      BY <3>4, <3>6, <3>7 DEF ForcedPasses
    <3>9. EndedRight(y)
      BY <2>1, <3>4 DEF EndedRight
    <3>10. Sound(y)
      BY <2>1, <3>4, <3>8, <3>9 DEF Sound
    <3> QED
      BY <1>3, <3>4, <3>5, <3>10 DEF Advanced, x
  <2> QED
    BY <2>4, <2>5
<1> QED
  BY <1>2, <1>3

-----------------------------------------------------------------------------
(* Dealing *)

\* g was just dealt: every seat can move and has more than one tile, and no bot
\* has its timer.
Fresh(g) ==
  /\ g.status = "ACTIVE" /\ \A p \in Seats : Moves(g, p) # {}
  /\ \A p \in Seats : \A t : g.hands[p] \ {t} # {}
  /\ \A b \in Bots : g.timer[b] = "UNSET"

LEMMA FreshSound ==
  ASSUME NEW x \in GameRow, NEW h \in Deals, x.status = "ACTIVE", x.hands = h, x.chain = <<>>,
         x.passes = 0, x.last = NoResult, x.timer = [b \in Bots |-> "UNSET"]
  PROVE  Sound(x) /\ Fresh(x)
<1>1. InOneZone(x)
  <2>1. Len(x.chain) = 0 /\ DOMAIN x.chain = {} /\ 1 .. (0 - 1) = {}
    OBVIOUS
  <2>2. Cardinality(InHands(x)) = SeatCount * HandSize /\ SeatCount * HandSize \in Nat
    <3>1. InHands(x) = UNION {h[p] : p \in Seats}
      BY DEF InHands
    <3>2. IsFiniteSet(InHands(x)) /\ Cardinality(InHands(x)) = SeatCount * HandSize
      BY <3>1, DealCount
    <3> QED
      BY <3>2, FS_CardinalityType
  <2> QED
    BY <2>1, <2>2, DealFacts DEF InOneZone
<1>2. EndedRight(x)
  BY DEF EndedRight
<1>3. ForcedPasses(x)
  <2>1. 0 < SeatCount /\ 1 .. 0 = {}
    BY SeatFacts
  <2> QED
    BY <2>1 DEF ForcedPasses
<1>4. \A p \in Seats : x.hands[p] # {} /\ \A t : x.hands[p] \ {t} # {}
  BY DealFacts
<1>5. ASSUME NEW p \in Seats PROVE Moves(x, p) # {}
  <2>1. PICK t \in x.hands[p] : TRUE
    BY <1>4
  <2>2. <<t, "LEFT">> \in Moves(x, p)
    BY <2>1 DEF Moves, Fits
  <2> QED
    BY <2>2
<1> QED
  BY <1>1, <1>2, <1>3, <1>4, <1>5 DEF Sound, Fresh

\* The first round.
LEMMA InitialSound ==
  ASSUME NEW h \in Deals
  PROVE  /\ Sound(InitialState(h)) /\ Fresh(InitialState(h))
         /\ InitialState(h) \in GameRow /\ InitialState(h).status = "ACTIVE"
<1> DEFINE x == InitialState(h)
           s == OpeningSeat(h)
<1>1. s \in Seats /\ h \in [Seats -> SUBSET Tiles] /\ <<>> \in Seq(Halves \X Halves)
  BY OpeningSeatType, DealFacts
<1>2. x = [status |-> "ACTIVE", round |-> 1, seat |-> s, hands |-> h, chain |-> <<>>,
           scores |-> [p \in Seats |-> 0], next |-> [p \in Seats |-> 1], passes |-> 0,
           last |-> NoResult, clock |-> "RUNNING", timer |-> [b \in Bots |-> "UNSET"]]
  BY DEF InitialState
<1>3. 1 \in 1 .. MaxRounds /\ 0 \in 0 .. SeatCount /\ NoResult \in Results
  BY DominoAssumption, SeatFacts DEF NoResult, Results
<1> HIDE DEF s, x
<1>4. /\ x \in GameRow /\ x.status = "ACTIVE" /\ x.hands = h /\ x.chain = <<>> /\ x.passes = 0
      /\ x.last = NoResult /\ x.timer = [b \in Bots |-> "UNSET"]
  BY <1>1, <1>2, <1>3 DEF GameRow
<1> QED
  BY <1>4, FreshSound DEF x

\* The next round keeps the scores.
LEMMA NextRoundSound ==
  ASSUME NEW g \in GameRow, g.round < MaxRounds, NEW h \in Deals
  PROVE  /\ Sound(NextRoundState(g, h)) /\ Fresh(NextRoundState(g, h))
         /\ NextRoundState(g, h).scores = g.scores
<1> DEFINE i == InitialState(h)
           x == NextRoundState(g, h)
           s == IF g.last.winner \in Seats THEN g.last.winner ELSE i.seat
           r == g.round + 1
<1>1. i \in GameRow /\ i.seat \in Seats
  BY InitialSound DEF GameRow
<1>2. /\ i.status = "ACTIVE" /\ i.hands = h /\ i.chain = <<>> /\ i.passes = 0
      /\ i.last = NoResult /\ i.timer = [b \in Bots |-> "UNSET"]
  BY DEF InitialState
<1>3. s \in Seats /\ r \in 1 .. MaxRounds /\ g.scores \in [Seats -> Nat]
  <2>1. g.round \in 1 .. MaxRounds /\ MaxRounds \in Nat /\ g.scores \in [Seats -> Nat]
    BY DominoAssumption DEF GameRow
  <2>2. r \in 1 .. MaxRounds
    BY <2>1
  <2>3. s \in Seats
    <3> HIDE DEF i
    <3> QED
      BY <1>1
  <2> QED
    BY <2>1, <2>2, <2>3
<1>4. x = [i EXCEPT !.round = r, !.scores = g.scores, !.seat = s]
  <2>1. x = [i EXCEPT !.round = r, !.scores = g.scores,
                      !.seat = IF g.last.winner \in Seats THEN g.last.winner ELSE @]
    BY DEF NextRoundState
  <2> HIDE DEF i, x
  <2> QED
    BY <1>1, <2>1 DEF GameRow
<1> HIDE DEF i, x, s, r
<1>5. /\ x \in GameRow /\ x.status = "ACTIVE" /\ x.hands = h /\ x.chain = <<>> /\ x.passes = 0
      /\ x.last = NoResult /\ x.timer = [b \in Bots |-> "UNSET"] /\ x.scores = g.scores
  BY <1>1, <1>2, <1>3, <1>4 DEF GameRow
<1> QED
  BY <1>5, FreshSound DEF x

-----------------------------------------------------------------------------
(* What the service does to a state *)

\* x differs from g in its sequences and timers.
Retouched(g, x) ==
  /\ x \in GameRow /\ x.status = g.status /\ x.round = g.round /\ x.seat = g.seat
  /\ x.hands = g.hands /\ x.chain = g.chain /\ x.scores = g.scores
  /\ x.passes = g.passes /\ x.last = g.last

LEMMA RetouchedSound ==
  ASSUME NEW g, Sound(g), NEW x, Retouched(g, x)
  PROVE  Sound(x) /\ Advanced(g, x)
<1>1. \A p : Moves(x, p) = Moves(g, p)
  BY SameTable DEF Retouched
<1>2. InOneZone(x)
  BY SameTable DEF Retouched, Sound
<1>3. EndedRight(x)
  BY <1>1 DEF Retouched, Sound, EndedRight
<1>4. ForcedPasses(x)
  BY <1>1 DEF Retouched, Sound, ForcedPasses
<1> QED
  BY <1>2, <1>3, <1>4 DEF Retouched, Sound, Advanced

LEMMA CountedIs ==
  ASSUME NEW g \in GameRow, NEW p \in Seats PROVE Retouched(g, Counted(g, p))
<1> DEFINE n == [g.next EXCEPT ![p] = @ + 1]
<1>1. n \in [Seats -> Nat]
  BY DEF GameRow
<1>2. Counted(g, p) = [g EXCEPT !.next = n]
  BY DEF Counted, GameRow
<1> HIDE DEF n
<1> QED
  BY <1>1, <1>2 DEF Retouched, GameRow

LEMMA TimerIs ==
  ASSUME NEW g \in GameRow, NEW b \in Bots, NEW v \in {"UNSET", "SET", "DUE"}
  PROVE  Retouched(g, [g EXCEPT !.timer[b] = v])
<1> DEFINE t == [g.timer EXCEPT ![b] = v]
           x == [g EXCEPT !.timer[b] = v]
<1>1. t \in [Bots -> {"UNSET", "SET", "DUE"}]
  BY DEF GameRow
<1>2. x = [g EXCEPT !.timer = t]
  BY DEF GameRow
<1> HIDE DEF t, x
<1>3. Retouched(g, x)
  BY <1>1, <1>2 DEF Retouched, GameRow
<1> QED
  BY <1>3 DEF x

LEMMA ScheduledSound ==
  ASSUME NEW g, Sound(g)
  PROVE  /\ Sound(Scheduled(g)) /\ Retouched(g, Scheduled(g))
<1>1. g \in GameRow
  BY DEF Sound
<1>2. Retouched(g, Scheduled(g))
  <2>1. CASE g.status = "ACTIVE" /\ g.seat \in Bots
    <3> DEFINE v == IF g.timer[g.seat] = "UNSET" THEN "SET" ELSE g.timer[g.seat]
    <3>1. v \in {"UNSET", "SET", "DUE"}
      BY <1>1, <2>1 DEF GameRow
    <3>2. Scheduled(g) = [g EXCEPT !.timer[g.seat] = v]
      BY <1>1, <2>1 DEF Scheduled, GameRow
    <3> HIDE DEF v
    <3> QED
      BY ZenonT(30), <1>1, <2>1, <3>1, <3>2, TimerIs
  <2>2. CASE ~(g.status = "ACTIVE" /\ g.seat \in Bots)
    <3>1. Scheduled(g) = g
      BY <2>2 DEF Scheduled
    <3> QED
      BY <1>1, <3>1 DEF Retouched
  <2> QED
    BY <2>1, <2>2
<1> QED
  BY <1>2, RetouchedSound

LEMMA AdvancedTwice ==
  ASSUME NEW g, NEW x, NEW y, Advanced(g, x), Advanced(x, y)
  PROVE  Advanced(g, y)
<1>1. CASE g.status = "ACTIVE" /\ Scored(g, x)
  <2>1. y.status = x.status /\ y.scores = x.scores /\ y.round = x.round /\ y.last = x.last
    BY <1>1 DEF Advanced, Scored
  <2> QED
    BY <1>1, <2>1 DEF Advanced, Scored
<1>2. CASE x.status = g.status /\ x.scores = g.scores /\ x.round = g.round /\ x.last = g.last
  BY <1>2 DEF Advanced, Scored
<1> QED
  BY <1>1, <1>2 DEF Advanced

\* A bot that cannot move passes, and one that can plays.
LEMMA BotSound ==
  ASSUME NEW g, Sound(g), BotActs(g), NEW x \in BotMoves(g)
  PROVE  Sound(x) /\ Advanced(g, x)
<1> DEFINE p == g.seat
           M == Moves(g, p)
           best == {mv \in M : \A other \in M : Pips(other[1]) =< Pips(mv[1])}
           played == IF best = {} THEN {Pass(g, p)} ELSE {PlayTile(g, p, mv[1], mv[2]) : mv \in best}
<1>1. g \in GameRow /\ g.status = "ACTIVE" /\ p \in Bots /\ p \in Seats
  BY DominoAssumption DEF Sound, BotActs
<1>2. PICK y \in played : x = [Counted(y, p) EXCEPT !.timer[p] = "SET"]
  BY DEF BotMoves
<1>3. best = {} => M = {}
  <2> DEFINE F == [mv \in M |-> Pips(mv[1])]
  <2>1. \A mv \in M : F[mv] \in 0 .. (2 * MaxPip)
    BY <1>1, MoveType, TileFacts
  <2>2. 2 * MaxPip \in Nat
    BY DominoAssumption
  <2>3. M # {} => \E mv \in M : \A other \in M : F[other] =< F[mv]
    <3> HIDE DEF F, M
    <3> QED
      BY <2>1, <2>2, GreatestOf
  <2> QED
    BY <2>3
<1>4. Sound(y) /\ Advanced(g, y)
  <2>1. CASE best = {}
    BY <1>1, <1>2, <1>3, <2>1, PassSound
  <2>2. CASE best # {}
    <3>1. PICK mv \in M : y = PlayTile(g, p, mv[1], mv[2])
      BY <1>2, <2>2
    <3> QED
      BY <1>1, <3>1, PlaySound
  <2> QED
    BY <2>1, <2>2
<1> HIDE DEF p, M, best, played
<1>5. y \in GameRow /\ Retouched(y, Counted(y, p)) /\ Counted(y, p) \in GameRow
  BY <1>1, <1>4, CountedIs DEF Sound, Retouched
<1>6. Sound(Counted(y, p)) /\ Advanced(y, Counted(y, p))
  BY <1>4, <1>5, RetouchedSound
<1>7. Retouched(Counted(y, p), x)
  BY <1>1, <1>2, <1>5, TimerIs
<1>8. Sound(x) /\ Advanced(Counted(y, p), x)
  BY <1>6, <1>7, RetouchedSound
<1> QED
  BY <1>4, <1>6, <1>8, AdvancedTwice

\* x is g, or g brought to its end.
Closed(g, x) ==
  /\ x.status \in {g.status, "FINISHED"}
  /\ x.scores = g.scores /\ x.round = g.round /\ x.last = g.last

LEMMA FinishedSound ==
  ASSUME NEW g, Sound(g)
  PROVE  LET x == [g EXCEPT !.status = "FINISHED"] IN
         Sound(x) /\ Closed(g, x) /\ x.status = "FINISHED"
<1> DEFINE x == [g EXCEPT !.status = "FINISHED"]
<1>1. g \in GameRow
  BY DEF Sound
<1>2. /\ x \in GameRow /\ x.status = "FINISHED" /\ x.hands = g.hands /\ x.chain = g.chain
      /\ x.last = g.last /\ x.scores = g.scores /\ x.round = g.round
  BY <1>1 DEF GameRow
<1> HIDE DEF x
<1>3. InOneZone(x) /\ \A p : Moves(x, p) = Moves(g, p)
  BY <1>2, SameTable DEF Sound
<1>4. EndedRight(x)
  BY <1>2, <1>3 DEF Sound, EndedRight
<1>5. Sound(x)
  BY <1>2, <1>3, <1>4 DEF Sound, ForcedPasses
<1> QED
  BY <1>2, <1>5 DEF Closed, x

\* A state that may be saved: a complete round is not the last.
Saved(x) == Sound(x) /\ (x.status = "ROUND_COMPLETE" => x.round < MaxRounds)

LEMMA CompleteSound ==
  ASSUME NEW g, Sound(g)
  PROVE  Saved(Complete(g)) /\ Closed(g, Complete(g))
<1>1. CASE Complete(g) = g
  <2>1. g.round \in Nat /\ MaxRounds \in Nat
    BY DominoAssumption DEF Sound, GameRow
  <2>2. ASSUME g.status = "ROUND_COMPLETE", ~(g.round < MaxRounds) PROVE FALSE
    <3>1. g.round >= MaxRounds
      BY <2>1, <2>2
    <3>2. g.status # "FINISHED" /\ Complete(g) = [g EXCEPT !.status = "FINISHED"]
      BY <2>2, <3>1 DEF Complete
    <3>3. Complete(g).status = "FINISHED"
      BY <3>2, FinishedSound
    <3> QED
      BY <1>1, <3>2, <3>3
  <2> QED
    BY <1>1, <2>2 DEF Saved, Closed
<1>2. CASE Complete(g) = [g EXCEPT !.status = "FINISHED"]
  BY <1>2, FinishedSound DEF Saved
<1> QED
  BY <1>1, <1>2 DEF Complete

LEMMA ExpiredSound ==
  ASSUME NEW g, Saved(g)
  PROVE  Saved(Expired(g)) /\ Closed(g, Expired(g))
<1>1. CASE Expired(g) = g
  BY <1>1 DEF Closed
<1>2. CASE Expired(g) = [g EXCEPT !.status = "FINISHED"]
  BY <1>2, FinishedSound DEF Saved
<1> QED
  BY <1>1, <1>2 DEF Expired

-----------------------------------------------------------------------------
(* The steps of a match *)

\* Scores change at most by one scored round.
ScoreStep ==
  game.status # "NONE" /\ game'.scores # game.scores =>
    /\ game.status = "ACTIVE" /\ game'.status \in {"ROUND_COMPLETE", "FINISHED"}
    /\ game'.round = game.round /\ game'.last.points > 0
    /\ game'.scores = [game.scores EXCEPT ![game'.last.winner] = @ + game'.last.points]

LEMMA ClosedScores ==
  ASSUME NEW y, NEW x, game.status # "NONE" => Advanced(game, y), Closed(y, x), game' = x
  PROVE  ScoreStep
  BY DEF Advanced, Scored, Closed, ScoreStep

LEMMA SameScores ==
  ASSUME game.status # "NONE" => game'.scores = game.scores PROVE ScoreStep
  BY DEF ScoreStep

\* The rows a handler changes besides the state keep their types.
Kept == ready' \subseteq Humans /\ rewards' \in Rewards /\ evidence' \in BOOLEAN

\* What is saved keeps the invariant.
LEMMA SaveInv ==
  ASSUME DominoInv, NEW x, Saved(x), NEW f, Save(x, f),
         Kept, recorded' \in [Seats -> SUBSET Nat]
  PROVE  DominoInv' /\ game' = x
<1>1. game' = x /\ x \in GameRow
  BY DEF Save, Saved, Sound
<1>2. Outcome(x, f) \in [Seats -> {"PENDING", "WIN", "LOSS", "DRAW", "FORFEIT"}]
  BY DEF Outcome
<1>3. /\ match' \in Statuses
      /\ outcome' \in [Seats -> {"PENDING", "WIN", "LOSS", "DRAW", "FORFEIT"}]
  BY <1>2 DEF Save, DominoInv, TypeOK, Statuses
<1>4. TypeOK'
  BY <1>1, <1>3 DEF TypeOK, Kept
<1>5. Sound(game') /\ (game'.status = "ROUND_COMPLETE" => game'.round < MaxRounds)
  BY <1>1 DEF Saved
<1> QED
  BY <1>1, <1>4, <1>5 DEF DominoInv

\* A handler starts from the stored state or from one that was just dealt.
LEMMA CurrentSound ==
  ASSUME DominoInv, NEW due \in BOOLEAN, NEW h \in Dealt(due)
  PROVE  /\ Sound(Current(due, h))
         /\ game.status # "NONE" =>
              \/ Current(due, h) = game
              \/ Fresh(Current(due, h)) /\ Current(due, h).scores = game.scores
<1>1. CASE game.status = "NONE"
  <2>1. h \in Deals /\ Current(due, h) = InitialState(h)
    BY <1>1 DEF Dealt, Current
  <2> QED
    BY <1>1, <2>1, InitialSound
<1>2. CASE game.status = "ROUND_COMPLETE" /\ due
  <2>1. h \in Deals /\ Current(due, h) = NextRoundState(game, h)
    BY <1>2 DEF Dealt, Current
  <2>2. game \in GameRow /\ game.round < MaxRounds
    BY <1>2 DEF DominoInv, TypeOK
  <2> QED
    BY <2>1, <2>2, NextRoundSound
<1>3. CASE game.status # "NONE" /\ ~(game.status = "ROUND_COMPLETE" /\ due)
  BY <1>3 DEF Current, DominoInv
<1> QED
  BY <1>1, <1>2, <1>3

LEMMA RecordedType ==
  ASSUME DominoInv, NEW g \in GameRow, NEW p \in Seats
  PROVE  Recorded(g, p) \in [Seats -> SUBSET Nat]
<1>1. g.next[p] \in Nat /\ recorded \in [Seats -> SUBSET Nat]
  BY DEF GameRow, DominoInv, TypeOK
<1> QED
  BY <1>1 DEF Recorded

\* Skipping after a deal skips nobody.
LEMMA SkipFresh ==
  ASSUME NEW g, Sound(g), Fresh(g)
  PROVE  LET x == SkipBlockedTurns(g) IN
         x.status = "ACTIVE" /\ x.scores = g.scores /\ x.hands = g.hands
<1>1. g.seat \in Seats
  BY DEF Sound, GameRow
<1>2. Moves(g, g.seat) # {} /\ g.status = "ACTIVE"
  BY <1>1 DEF Fresh
<1>3. /\ Advanced(g, SkipBlockedTurns(g)) /\ SkipBlockedTurns(g).status = "ACTIVE"
      /\ SkipBlockedTurns(g).hands = g.hands
  BY <1>2, SkipSound
<1> QED
  BY <1>3 DEF Advanced, Scored

\* A poll scores at most one round, and none of a round it dealt.
LEMMA SnapshotStep ==
  ASSUME DominoInv, NEW due \in BOOLEAN, NEW h \in Dealt(due), Snapshot(due, h)
  PROVE  DominoInv' /\ ScoreStep
<1> DEFINE g == Current(due, h)
<1>1. PICK moved \in IF BotActs(g) THEN BotMoves(g) ELSE {Scheduled(g)} :
        Save(Expired(Complete(SkipBlockedTurns(moved))), -1)
  BY DEF Snapshot
<1>2. /\ recorded' = IF BotActs(g) THEN Recorded(g, g.seat) ELSE recorded
      /\ ready' = ready /\ rewards' = rewards /\ evidence' \in BOOLEAN
  BY DEF Snapshot, DominoInv, TypeOK
<1> HIDE DEF g
<1>3. /\ Sound(g) /\ g \in GameRow /\ g.seat \in Seats
      /\ game.status # "NONE" => g = game \/ (Fresh(g) /\ g.scores = game.scores)
  BY CurrentSound DEF g, Sound, GameRow
<1>4. Sound(moved) /\ Advanced(g, moved)
  <2>1. CASE BotActs(g)
    BY <1>1, <1>3, <2>1, BotSound
  <2>2. CASE ~BotActs(g)
    BY <1>1, <1>3, <2>2, ScheduledSound, RetouchedSound
  <2> QED
    BY <2>1, <2>2
<1> DEFINE s == SkipBlockedTurns(moved)
           c == Complete(s)
           x == Expired(c)
<1>5. Sound(s) /\ Advanced(moved, s)
  BY <1>4, SkipSound
<1>6. Saved(c) /\ Closed(s, c)
  BY <1>5, CompleteSound
<1>7. Saved(x) /\ Closed(c, x)
  BY <1>6, ExpiredSound
<1>8. Save(x, -1)
  BY <1>1
<1>9. DominoInv' /\ game' = x
  <2>1. Kept /\ recorded' \in [Seats -> SUBSET Nat]
    BY <1>2, <1>3, RecordedType DEF DominoInv, TypeOK, Kept
  <2> HIDE DEF x
  <2> QED
    BY <1>7, <1>8, <2>1, SaveInv
<1>10. Closed(s, x)
  <2> HIDE DEF s, c, x
  <2> QED
    BY <1>6, <1>7 DEF Closed
<1>11. ASSUME game.status # "NONE", g # game PROVE s.scores = game.scores
  <2>1. Fresh(g) /\ g.scores = game.scores
    BY <1>3, <1>11
  <2>2. ~BotActs(g)
    BY <1>3, <2>1 DEF BotActs, Fresh
  <2>3. Retouched(g, moved) /\ moved.scores = g.scores
    BY <1>1, <1>3, <2>2, ScheduledSound DEF Retouched
  <2>4. moved.status = "ACTIVE" /\ moved.seat = g.seat /\ Moves(moved, g.seat) = Moves(g, g.seat)
    BY <2>1, <2>3, SameTable DEF Retouched, Fresh
  <2>5. s.status = "ACTIVE"
    BY <1>3, <1>4, <2>1, <2>4, SkipSound DEF Fresh
  <2> QED
    BY <1>5, <2>1, <2>3, <2>5 DEF Advanced, Scored
<1> HIDE DEF s, c, x
<1>12. CASE game.status # "NONE" /\ g # game
  BY <1>9, <1>10, <1>11, <1>12, SameScores DEF Closed
<1>13. CASE game.status = "NONE" \/ g = game
  <2>1. game.status # "NONE" => Advanced(game, s)
    BY <1>4, <1>5, <1>13, AdvancedTwice
  <2> QED
    BY <1>9, <1>10, <2>1, ClosedScores
<1> QED
  BY <1>9, <1>12, <1>13

LEMMA ReplayedStep ==
  ASSUME DominoInv, NEW due \in BOOLEAN, NEW h \in Dealt(due), ActionReplayed(due, h)
  PROVE  DominoInv' /\ ScoreStep
<1> DEFINE g == Current(due, h)
           s == SkipBlockedTurns(g)
           x == Complete(s)
<1>1. Save(x, -1) /\ UNCHANGED <<ready, recorded, rewards, evidence>>
  BY DEF ActionReplayed
<1>2. /\ Sound(g)
      /\ game.status # "NONE" => g = game \/ (Fresh(g) /\ g.scores = game.scores)
  BY CurrentSound
<1> HIDE DEF g
<1>3. Sound(s) /\ Advanced(g, s)
  BY <1>2, SkipSound
<1>4. Fresh(g) => s.scores = g.scores
  BY <1>2, SkipFresh
<1> HIDE DEF s
<1>5. Saved(x) /\ Closed(s, x)
  BY <1>3, CompleteSound
<1>6. DominoInv' /\ game' = x
  <2>1. Kept /\ recorded' \in [Seats -> SUBSET Nat]
    BY <1>1 DEF DominoInv, TypeOK, Kept
  <2> HIDE DEF x
  <2> QED
    BY <1>1, <1>5, <2>1, SaveInv
<1> HIDE DEF x
<1>7. CASE game.status # "NONE" /\ g # game
  BY <1>2, <1>4, <1>5, <1>6, <1>7, SameScores DEF Closed
<1>8. CASE game.status = "NONE" \/ g = game
  BY <1>3, <1>5, <1>6, <1>8, ClosedScores
<1> QED
  BY <1>6, <1>7, <1>8

\* A tile that is accepted scores its round at most once; an action that is
\* refused only moves a sequence.
LEMMA ActionStep ==
  ASSUME DominoInv, NEW u \in Humans, NEW due \in BOOLEAN, NEW h \in Dealt(due), Action(u, due, h)
  PROVE  DominoInv' /\ ScoreStep
<1> DEFINE d == Current(due, h)
           g == SkipBlockedTurns(d)
<1>1. /\ g.status = "ACTIVE" /\ ready' = ready /\ recorded' = Recorded(g, u)
      /\ rewards' = rewards /\ evidence' \in BOOLEAN
      /\ \/ /\ g.seat = u
            /\ \E mv \in Moves(g, u) : Save(Complete(Counted(PlayTile(g, u, mv[1], mv[2]), u)), -1)
         \/ Save(Counted(g, u), -1)
  BY DEF Action, DominoInv, TypeOK
<1>2. /\ Sound(d) /\ u \in Seats
      /\ game.status # "NONE" => d = game \/ (Fresh(d) /\ d.scores = game.scores)
  BY CurrentSound DEF Humans
<1> HIDE DEF d
<1>3. Sound(g) /\ Advanced(d, g) /\ g \in GameRow
  BY <1>2, SkipSound DEF Sound
<1>4. Fresh(d) => g.scores = d.scores /\ g.hands = d.hands
  BY <1>2, SkipFresh
<1> HIDE DEF g
<1>5. Kept /\ recorded' \in [Seats -> SUBSET Nat]
  BY <1>1, <1>2, <1>3, RecordedType DEF DominoInv, TypeOK, Kept
<1>6. CASE \E mv \in Moves(g, u) : Save(Complete(Counted(PlayTile(g, u, mv[1], mv[2]), u)), -1)
  <2>1. PICK mv \in Moves(g, u) : Save(Complete(Counted(PlayTile(g, u, mv[1], mv[2]), u)), -1)
    BY <1>6
  <2> DEFINE y == PlayTile(g, u, mv[1], mv[2])
             c == Counted(y, u)
             x == Complete(c)
  <2>2. Sound(y) /\ Advanced(g, y) /\ (y.status # "ACTIVE" => g.hands[u] \ {mv[1]} = {})
    BY <1>1, <1>2, <1>3, PlaySound
  <2> HIDE DEF y
  <2>3. Retouched(y, c)
    BY <1>2, <2>2, CountedIs DEF Sound
  <2> HIDE DEF c
  <2>4. Sound(c) /\ Advanced(y, c)
    BY <2>2, <2>3, RetouchedSound
  <2>5. Saved(x) /\ Closed(c, x)
    BY <2>4, CompleteSound
  <2>6. Save(x, -1)
    BY <2>1 DEF c, y
  <2> HIDE DEF x
  <2>7. DominoInv' /\ game' = x
    BY <1>5, <2>5, <2>6, SaveInv
  <2>8. CASE game.status # "NONE" /\ d # game
    <3>1. Fresh(d) /\ d.scores = game.scores
      BY <1>2, <2>8
    <3>2. g.hands[u] \ {mv[1]} # {}
      BY <1>2, <1>4, <3>1 DEF Fresh
    <3>3. y.scores = g.scores
      BY <2>2, <3>2 DEF Advanced, Scored
    <3>4. x.scores = game.scores
      BY <1>4, <2>3, <2>5, <3>1, <3>3 DEF Retouched, Closed
    <3> QED
      BY <2>7, <3>4, SameScores
  <2>9. CASE game.status = "NONE" \/ d = game
    <3>1. game.status # "NONE" => Advanced(game, c)
      BY <1>3, <2>2, <2>4, <2>9, AdvancedTwice
    <3> QED
      BY <2>5, <2>7, <3>1, ClosedScores
  <2> QED
    BY <2>7, <2>8, <2>9
<1>7. CASE Save(Counted(g, u), -1)
  <2> DEFINE c == Counted(g, u)
  <2>1. Retouched(g, c) /\ Save(c, -1)
    BY <1>2, <1>3, <1>7, CountedIs
  <2> HIDE DEF c
  <2>2. Sound(c) /\ Advanced(g, c) /\ c.status = "ACTIVE" /\ c.scores = g.scores
    BY <1>1, <1>3, <2>1, RetouchedSound DEF Retouched
  <2>3. Saved(c)
    BY <2>2 DEF Saved
  <2>4. DominoInv' /\ game' = c
    BY <1>5, <2>1, <2>3, SaveInv
  <2>5. g.scores = d.scores
    BY <1>1, <1>3 DEF Advanced, Scored
  <2> QED
    BY <1>2, <2>2, <2>4, <2>5, SameScores
<1> QED
  BY <1>1, <1>6, <1>7

LEMMA ForfeitStep ==
  ASSUME DominoInv, NEW u, NEW h \in Dealt(FALSE), Forfeit(u, h)
  PROVE  DominoInv' /\ ScoreStep
<1> DEFINE g == Current(FALSE, h)
           x == [g EXCEPT !.status = "FINISHED"]
<1>1. Save(x, u) /\ UNCHANGED <<ready, recorded, rewards, evidence>>
  BY DEF Forfeit
<1>2. /\ Sound(g)
      /\ game.status # "NONE" => g.scores = game.scores
  BY CurrentSound
<1> HIDE DEF g
<1>3. Sound(x) /\ Closed(g, x) /\ x.status = "FINISHED"
  BY <1>2, FinishedSound
<1> HIDE DEF x
<1>4. Saved(x)
  BY <1>3 DEF Saved
<1>5. Kept /\ recorded' \in [Seats -> SUBSET Nat]
  BY <1>1 DEF DominoInv, TypeOK, Kept
<1>6. DominoInv' /\ game' = x
  BY <1>1, <1>4, <1>5, SaveInv
<1> QED
  BY <1>2, <1>3, <1>6, SameScores DEF Closed

\* A state that is stored as it is keeps the invariant with the rest typed.
LEMMA StoredInv ==
  ASSUME DominoInv, NEW x, Saved(x), game' = x,
         match' \in Statuses, Kept,
         recorded' = recorded, outcome' = outcome
  PROVE  DominoInv'
<1>1. x \in GameRow /\ Sound(x) /\ (x.status = "ROUND_COMPLETE" => x.round < MaxRounds)
  BY DEF Saved, Sound
<1>2. TypeOK'
  BY <1>1 DEF DominoInv, TypeOK, Kept
<1>3. Sound(game') /\ (game'.status = "ROUND_COMPLETE" => game'.round < MaxRounds)
  BY <1>1
<1> QED
  BY <1>2, <1>3 DEF DominoInv

\* Starting a match, and steps that leave its state alone.
LEMMA UntouchedStep ==
  ASSUME DominoInv, match' \in Statuses,
         Kept, UNCHANGED <<game, recorded, outcome>>
  PROVE  DominoInv' /\ ScoreStep
<1>1. TypeOK'
  BY DEF DominoInv, TypeOK, Kept
<1>2. CASE game.status = "NONE"
  BY <1>1, <1>2, SameScores DEF DominoInv
<1>3. CASE game.status # "NONE"
  <2>1. game \in GameRow /\ Saved(game)
    BY <1>3 DEF DominoInv, TypeOK, Saved
  <2> QED
    BY <2>1, StoredInv, SameScores DEF DominoInv, TypeOK, Kept
<1> QED
  BY <1>2, <1>3

LEMMA StartStep ==
  ASSUME DominoInv, NEW u \in Humans, NEW h \in Dealt(FALSE), Start(u, h)
  PROVE  DominoInv' /\ ScoreStep
<1>1. Kept /\ match \in Statuses
  BY DEF Start, DominoInv, TypeOK, Kept
<1>2. CASE game.status = "NONE" /\ game' = InitialState(h) /\ match' = "STARTED"
  <2>1. h \in Deals
    BY <1>2 DEF Dealt
  <2>2. /\ InitialState(h) \in GameRow /\ Saved(InitialState(h))
    BY <2>1, InitialSound DEF Saved
  <2>3. recorded' = recorded /\ outcome' = outcome
    BY DEF Start
  <2>4. DominoInv'
    BY <1>1, <1>2, <2>2, <2>3, StoredInv DEF Statuses
  <2> QED
    BY <1>2, <2>4, SameScores
<1>3. CASE UNCHANGED <<game, match, recorded, outcome>>
  BY <1>1, <1>3, UntouchedStep
<1> QED
  BY <1>2, <1>3 DEF Start

\* Time changes the clock or a timer of the state.
LEMMA TimeStep ==
  ASSUME DominoInv, NEW x, game.status # "NONE", Retouched(game, x), game' = x,
         UNCHANGED <<rewards, match, ready, recorded, evidence, outcome>>
  PROVE  DominoInv' /\ ScoreStep
<1>1. Sound(x) /\ x \in GameRow
  BY RetouchedSound DEF DominoInv, Retouched
<1>2. Saved(x)
  BY <1>1 DEF DominoInv, Saved, Retouched
<1>3. DominoInv'
  BY <1>1, <1>2, StoredInv DEF DominoInv, TypeOK, Kept
<1> QED
  BY <1>3, SameScores DEF Retouched

LEMMA InitInv == Init => DominoInv
<1> SUFFICES ASSUME Init PROVE DominoInv
  OBVIOUS
<1>1. game.status = "NONE"
  BY DEF Init
<1> QED
  BY <1>1 DEF Init, DominoInv, TypeOK, Statuses

LEMMA NextStep == DominoInv /\ [Next]_vars => DominoInv' /\ [ScoreStep]_vars
<1> SUFFICES ASSUME DominoInv, [Next]_vars PROVE DominoInv' /\ ScoreStep
  OBVIOUS
<1>1. ASSUME NEW u \in Humans, StartMatch(u) PROVE DominoInv' /\ ScoreStep
  BY <1>1, UntouchedStep DEF StartMatch, DominoInv, TypeOK, Kept, Statuses
<1>2. ASSUME NEW u \in Humans, NEW h \in Dealt(FALSE), Start(u, h) \/ Forfeit(u, h)
      PROVE  DominoInv' /\ ScoreStep
  BY <1>2, StartStep, ForfeitStep
<1>3. ASSUME NEW due \in BOOLEAN, NEW h \in Dealt(due), Snapshot(due, h) \/ ActionReplayed(due, h)
      PROVE  DominoInv' /\ ScoreStep
  BY <1>3, SnapshotStep, ReplayedStep
<1>4. ASSUME NEW due \in BOOLEAN, NEW h \in Dealt(due), NEW u \in Humans, Action(u, due, h)
      PROVE  DominoInv' /\ ScoreStep
  BY <1>4, ActionStep
<1>5. CASE Settle
  BY <1>5, UntouchedStep DEF Settle, DominoInv, TypeOK, Kept, Statuses
<1>6. CASE ClockPasses
  <2> DEFINE v == IF game.clock = "RUNNING" THEN "ROUND_OVER" ELSE "MATCH_OVER"
             x == [game EXCEPT !.clock = v]
  <2>1. game.status # "NONE" /\ game' = x /\ UNCHANGED <<rewards, match, ready, recorded, evidence, outcome>>
    BY <1>6 DEF ClockPasses
  <2>2. game \in GameRow
    BY <2>1 DEF DominoInv, TypeOK
  <2>3. v \in {"RUNNING", "ROUND_OVER", "MATCH_OVER"}
    OBVIOUS
  <2> HIDE DEF v
  <2>4. Retouched(game, x)
    BY <2>2, <2>3 DEF Retouched, GameRow
  <2> HIDE DEF x
  <2> QED
    BY <2>1, <2>4, TimeStep
<1>7. ASSUME NEW b \in Bots, DelayPasses(b) PROVE DominoInv' /\ ScoreStep
  <2> DEFINE x == [game EXCEPT !.timer[b] = "DUE"]
  <2>1. game.status # "NONE" /\ game' = x /\ UNCHANGED <<rewards, match, ready, recorded, evidence, outcome>>
    BY <1>7 DEF DelayPasses
  <2>2. game \in GameRow
    BY <2>1 DEF DominoInv, TypeOK
  <2>3. Retouched(game, x)
    BY <2>2, TimerIs
  <2> HIDE DEF x
  <2> QED
    BY <2>1, <2>3, TimeStep
<1>8. CASE UNCHANGED vars
  BY <1>8, UntouchedStep DEF vars, DominoInv, TypeOK, Kept
<1> QED
  BY <1>1, <1>2, <1>3, <1>4, <1>5, <1>6, <1>7, <1>8 DEF Next

-----------------------------------------------------------------------------
(* Theorems *)

\* The inductive invariant: every state of a match is sound, and a complete round
\* is followed by another.
THEOREM Invariant == Spec => []DominoInv
  BY InitInv, NextStep, PTL DEF Spec

\* The state of a match has the shape the service stores.
THEOREM TypeCorrect == Spec => []TypeOK
<1>1. DominoInv => TypeOK
  BY DEF DominoInv
<1> QED
  BY <1>1, Invariant, PTL

\* No tile is lost or doubled, and the chain always connects.
THEOREM OneZoneHolds == Spec => []OneZone
<1>1. DominoInv => OneZone
  BY DEF DominoInv, Sound, OneZone
<1> QED
  BY <1>1, Invariant, PTL

\* A scored round was won by an empty hand, or nobody could move and the winner
\* held the fewest pips.
THEOREM RoundEndsRightHolds == Spec => []RoundEndsRight
<1>1. DominoInv => RoundEndsRight
  BY DEF DominoInv, Sound, RoundEndsRight
<1> QED
  BY <1>1, Invariant, PTL

\* Nobody is passed over who can move.
THEOREM PassesForcedHolds == Spec => []PassesForced
<1>1. DominoInv => PassesForced
  BY DEF DominoInv, Sound, PassesForced
<1> QED
  BY <1>1, Invariant, PTL

\* A round is scored once, for its winner and by the points of its result.
THEOREM ScoredOnceHolds == Spec => ScoredOnce
<1>1. DominoInv /\ [Next]_vars => [ScoreStep]_vars
  BY NextStep
<1> QED
  BY <1>1, Invariant, PTL DEF Spec, ScoredOnce, ScoreStep
=============================================================================
