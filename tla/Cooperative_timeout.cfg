CONSTANTS
    u1 = u1
    u2 = u2
    Users = {u1, u2}
    Parties = {1}
    Matches = {1}
    MaxMembers = 2
    MaxInvites = 1
    MaxAsking = 2
    MaxLobby = 1
    Reviewable = {1}
SPECIFICATION Spec
INVARIANT TimeoutsAreFree
