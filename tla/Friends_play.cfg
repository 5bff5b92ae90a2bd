CONSTANTS
    ann = ann
    bob = bob
    eve = eve
    Users <- MCUsers
    Claimants = {ann}
    Txns = {t1, t2}
    Target = 1
    Tiers <- MCTiers
    Pairs <- MCPairs
    Blockers <- MCBlockers
    MaxSends = 2
SPECIFICATION Spec
INVARIANTS TypeOK FriendsMutual RewardEarned
CHECK_DEADLOCK FALSE
