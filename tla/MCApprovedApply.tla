--------------------------- MODULE MCApprovedApply ---------------------------
(***************************************************************************)
(* A plan of two copies and a new configuration; in secure mode one copy,  *)
(* at most three approvals, and a clock that passes the end of their       *)
(* validity.                                                               *)
(***************************************************************************)
EXTENDS ApprovedApply

CONSTANTS copy1, copy2

MCCopies  == <<copy1, copy2>>
MCSecure  == <<copy1>>
MCWindows == {<<0, 1>>}

=============================================================================
