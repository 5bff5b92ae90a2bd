--------------------------- MODULE MCCooperative ---------------------------
(* Two players, who meet in one party or in two, and one match of either    *)
(* mode.                                                                    *)
EXTENDS Cooperative
CONSTANTS u1, u2
=============================================================================
