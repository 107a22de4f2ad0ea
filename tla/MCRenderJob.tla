----------------------------- MODULE MCRenderJob -----------------------------
(***************************************************************************)
(* Two servers on one runtime root.                                        *)
(***************************************************************************)
EXTENDS RenderJob

=============================================================================
