------------------------------ MODULE MCFriends ------------------------------
EXTENDS Friends, TLC

CONSTANTS ann, bob, eve

MCUsers == {ann, bob, eve}
\* Ann and Bob ask each other, Eve asks Ann; Bob can block Ann.
MCPairs == {<<ann, bob>>, <<bob, ann>>, <<eve, ann>>}
MCBlockers == {<<bob, ann>>}
MCTiers == <<1, 2>>

=============================================================================
