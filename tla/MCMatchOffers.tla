---------------------------- MODULE MCMatchOffers ----------------------------
EXTENDS MatchOffers, TLC

CONSTANTS ann, bob

MCUsers == {ann, bob}
MCFriends == {{ann, bob}}

=============================================================================
