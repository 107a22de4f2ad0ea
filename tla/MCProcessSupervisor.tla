------------------------- MODULE MCProcessSupervisor -------------------------
(***************************************************************************)
(* ProcessSupervisor with a script and two processes it starts, directly   *)
(* or one through the other, a pipe that one piece of output fills, and    *)
(* two pieces.                                                             *)
(***************************************************************************)
EXTENDS ProcessSupervisor
=============================================================================
