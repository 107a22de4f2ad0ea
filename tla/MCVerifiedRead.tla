--------------------------- MODULE MCVerifiedRead ---------------------------
(***************************************************************************)
(* Two promotions of one figure whose renders agree on every byte, so that *)
(* no hash tells one's file from the other's, and a reader beside them.    *)
(***************************************************************************)
EXTENDS VerifiedRead, TLC

CONSTANTS p1, p2, png

SameBytes == (p1 :> png) @@ (p2 :> png)
Symmetric == Permutations({p1, p2})

=============================================================================
