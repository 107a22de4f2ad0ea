--------------------------- MODULE NoClobberStore ---------------------------
(***************************************************************************)
(* What figops promises of every durable name it writes: the names form a  *)
(* store that figops only ever extends.  A transaction may publish a file  *)
(* at a name that is free and may retract what it wrote itself; it never   *)
(* replaces a file and never removes another one's bytes.  Everything else *)
(* that happens to the store is done by somebody outside figops.           *)
(*                                                                         *)
(* Durable promotion (DurablePromotion.tla) is shown to implement this     *)
(* specification.                                                          *)
(***************************************************************************)
EXTENDS Naturals

CONSTANTS
  Names,          \* the durable names
  Owners,         \* the transactions that write them
  Data,           \* file contents, told apart by their digest
  Written,        \* Written[o][n]: what transaction o writes at name n
  IdentityBound,  \* names retracted only as the very file o published
  Empty           \* the value of a name at which there is no file

VARIABLES
  store,          \* store[n]: the file at n, or Empty
  meddling        \* number of steps taken so far by others

vars == <<store, meddling>>

\* A file object: id is its inode (owners create one per name, others are
\* numbered), data its content.
File == [id : Owners \cup Nat, data : Data]

Init ==
  /\ store = [n \in Names |-> Empty]
  /\ meddling = 0

Publish(o, n) ==
  /\ store[n] = Empty
  /\ store' = [store EXCEPT ![n] = [id |-> o, data |-> Written[o][n]]]
  /\ UNCHANGED meddling

Retract(o, n) ==
  /\ store[n] # Empty
  /\ store[n].data = Written[o][n]
  /\ n \in IdentityBound => store[n].id = o
  /\ store' = [store EXCEPT ![n] = Empty]
  /\ UNCHANGED meddling

\* Somebody else creates, replaces, rewrites or deletes the file at n.
Meddle(n) ==
  /\ meddling' = meddling + 1
  /\ store' \in [Names -> File \cup {Empty}]
  /\ \A m \in Names \ {n} : store'[m] = store[m]

Next ==
  \/ \E o \in Owners, n \in Names : Publish(o, n) \/ Retract(o, n)
  \/ \E n \in Names : Meddle(n)

Spec == Init /\ [][Next]_vars

=============================================================================
