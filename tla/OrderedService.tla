---------------------------- MODULE OrderedService ----------------------------
(***************************************************************************)
(* What the stdio server of figops promises its client: it handles the     *)
(* messages one after the other as they were sent, gives each that demands *)
(* one its one answer, in the message's own framing, and never takes       *)
(* anything for a message that was not sent as one.  It may end.           *)
(***************************************************************************)
EXTENDS Sequences

CONSTANTS
  Messages,   \* what a client may send
  Demand(_),  \* Demand(m): the answer to m, None for none
  None

VARIABLES
  asked,   \* the messages sent to this server, and not yet handled
  answers  \* what it has answered, in order

Init == asked = <<>> /\ answers = <<>>

Ask == \E m \in Messages : asked' = Append(asked, m) /\ UNCHANGED answers

Serve ==
  /\ asked # <<>>
  /\ asked' = Tail(asked)
  /\ LET a == Demand(Head(asked)) IN
       answers' = IF a = None THEN answers ELSE Append(answers, a)

\* The server has ended; another one knows nothing of its messages.
Renew == asked' = <<>> /\ answers' = <<>>

Next == Ask \/ Serve \/ Renew

Spec == Init /\ [][Next]_<<asked, answers>>

=============================================================================
