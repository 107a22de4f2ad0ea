---------------------------- MODULE MCBatchChain ----------------------------
(* Three projects, one of which each call may validate. *)
EXTENDS BatchCheck, TLC

CONSTANTS r1, proj1, proj2, proj3, b1, b2

MCOrder == <<proj1, proj2, proj3>>
MCUnder == r1 :> {proj1, proj2, proj3}
MCFlags == {{}}

=============================================================================
