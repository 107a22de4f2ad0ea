----------------------------- MODULE StdioServer -----------------------------
(***************************************************************************)
(* run_stdio_server (hub_core/mcp/transport.py): one thread reads JSON-RPC *)
(* messages, on a line each or after a Content-Length header, handles      *)
(* their entries in order and writes the answers.  An entry may be the     *)
(* call of a tool that renders from a table (CsvRender.tla).               *)
(*                                                                         *)
(* The client may send a message whose size cannot be believed or that is  *)
(* no JSON, may stop in the middle of one and may close its end; a handler *)
(* may raise; the server may be killed and started again.                  *)
(***************************************************************************)
EXTENDS CsvRender

CONSTANTS
  Messages,  \* bound: the messages a client may send
  CallKinds, \* bound: the calls of the tool that occur
  MaxSent,   \* bound: number of messages
  MaxKills   \* bound: number of times the server is killed

Framings == {"line", "framed"}
AnySize  == {"good", "bad", "cut"}   \* in range; not; in range, but input ends
Entries  == {"note", "ping", "call", "bad", "raise", "garbled"}

\* A text is a sequence of entries, or json.loads raises JSONDecodeError on it,
\* or something else (a number of too many digits, too deep a nesting).
NoJson  == <<"no json">>
OddJson == <<"odd json">>

ASSUME MessagesAssumption ==
  \A m \in Messages :
    /\ m.framing \in Framings /\ m.size \in AnySize
    /\ m.body \in {NoJson, OddJson} \cup Seq(Entries)
    /\ m.size = "cut" => m.framing = "framed"
\* Nothing is neither a message nor an answer.
ASSUME NothingAssumption ==
  Absent \notin Messages /\ Absent \notin [framing : Framings, ids : Seq(Nat)]
ASSUME ServerBounds == CallKinds \subseteq Orders /\ MaxSent \in Nat /\ MaxKills \in Nat

VARIABLES
  wire,     \* the messages that the server has yet to read
  begun,    \* of the first of them, only the text is left
  closed,   \* the client has closed its end
  sent,     \* number of messages sent
  srv,      \* where the server is
  cur,      \* the message it handles
  todo,     \* the entries it has yet to handle, with their positions
  got,      \* the answers it has collected, by position; 0 answers nobody
  framing,  \* the framing of its answer
  fatal,    \* it will end after the answer
  answers,  \* what it has written
  kills

stdioVars == <<wire, begun, closed, sent, srv, cur, todo, got, framing, fatal, answers, kills>>
serverVars == <<stdioVars, csvVars>>

client  == <<wire, begun, closed, sent, kills>>
message == <<cur, todo, got, framing, fatal>>

ServerInit ==
  /\ CsvInit
  /\ wire = <<>> /\ begun = FALSE /\ closed = FALSE /\ sent = 0
  /\ srv = "read" /\ cur = Absent /\ todo = <<>> /\ got = <<>>
  /\ framing = "framed" /\ fatal = FALSE
  /\ answers = <<>> /\ kills = 0

-----------------------------------------------------------------------------
(* The client. *)

Send(m) ==
  /\ ~closed /\ sent < MaxSent /\ srv # "dead"
  /\ wire' = Append(wire, m)
  /\ sent' = sent + 1
  /\ closed' = (m.size = "cut")
  /\ UNCHANGED <<begun, srv, message, answers, kills, csvVars>>

CloseInput ==
  /\ ~closed /\ closed' = TRUE
  /\ UNCHANGED <<wire, begun, sent, srv, message, answers, kills, csvVars>>

-----------------------------------------------------------------------------
(* The server. *)

\* run_stdio_server answers an exception of its own with an id of null.
Refuse(m, f, last) ==
  /\ cur' = m /\ todo' = <<>> /\ got' = <<0>> /\ framing' = f /\ fatal' = last
  /\ srv' = "handle"

\* json.loads.  What it raises beside JSONDecodeError reaches the loop without
\* the framing that was found.
Decode(m, f) ==
  CASE m.body \in {NoJson, <<>>} -> Refuse(m, f, FALSE)
    [] m.body = OddJson         -> Refuse(m, "framed", FALSE)
    [] OTHER -> /\ cur' = m /\ todo' = [i \in DOMAIN m.body |-> <<i, m.body[i]>>]
                /\ got' = <<>> /\ framing' = f /\ fatal' = FALSE
                /\ srv' = "handle"

\* Mutant: after a size out of range the server reads on.
SizeErrorEnds == FALSE

\* A size out of range is not skipped over: nobody knows where the next message
\* begins, the server answers and ends.
SizeErrorIsFatal == TRUE

Consume == wire' = Tail(wire) /\ begun' = FALSE

\* _read_stdio_message.  A text follows a size wherever that is not the end.
ReadMessage ==
  /\ srv = "read" /\ wire # <<>>
  /\ LET m == Head(wire) IN
       \/ /\ ~begun /\ m.size = "bad"
          /\ begun' = TRUE /\ UNCHANGED wire
          /\ Refuse(m, m.framing, SizeErrorIsFatal)
       \/ /\ ~begun /\ m.size = "good"     \* a line, or header and text
          /\ Consume /\ Decode(m, m.framing)
       \/ /\ ~begun /\ m.size = "cut" /\ closed
          /\ Consume /\ Refuse(m, "framed", FALSE)
       \/ begun /\ Consume /\ Decode(m, "line")
  /\ UNCHANGED <<closed, sent, kills, answers, csvVars>>

ReadEnd ==
  /\ srv = "read" /\ wire = <<>> /\ closed
  /\ srv' = "ended"
  /\ UNCHANGED <<client, message, answers, csvVars>>

Entry(kind) == srv = "handle" /\ todo # <<>> /\ Head(todo)[2] = kind

Proceed(more) == todo' = Tail(todo) /\ got' = got \o more

\* _handle_json_rpc of an entry that is answered at once: a notification not
\* at all, one that is no request without its id, any other with it.  An
\* exception puts an end to the whole message.
HandleEntry ==
  /\ \/ Entry("note") /\ Proceed(<<>>)
     \/ Entry("bad") /\ Proceed(<<0>>)
     \/ (Entry("ping") \/ Entry("garbled")) /\ Proceed(<<Head(todo)[1]>>)
     \/ Entry("raise") /\ todo' = <<>> /\ got' = <<0>>
  /\ UNCHANGED <<client, srv, cur, framing, fatal, answers, csvVars>>

\* server.call_tool.
CallTool ==
  /\ Entry("call")
  /\ \E o \in CallKinds : Begin(o)
  /\ srv' = "tool"
  /\ UNCHANGED <<client, message, answers>>

ToolReturns ==
  /\ srv = "tool" /\ Return
  /\ Proceed(<<Head(todo)[1]>>)
  /\ srv' = "handle"
  /\ UNCHANGED <<client, cur, framing, fatal, answers>>

Has(m, kind) == \E i \in DOMAIN m.body : m.body[i] = kind

NoMessage ==
  cur' = Absent /\ todo' = <<>> /\ got' = <<>> /\ framing' = "framed" /\ fatal' = FALSE

Unwritable == Has(cur, "garbled") /\ got # <<0>>

\* _write_stdio_message stands outside the loop's try: an answer that cannot be
\* encoded ends the server.
WriteAnswer ==
  /\ srv = "handle" /\ todo = <<>>
  /\ \/ /\ got = <<>>
        /\ srv' = "read" /\ NoMessage /\ UNCHANGED answers
     \/ /\ got # <<>> /\ ~Unwritable
        /\ answers' = Append(answers, [framing |-> framing, ids |-> got])
        /\ srv' = (IF fatal THEN "ended" ELSE "read") /\ NoMessage
     \/ Unwritable /\ srv' = "dead" /\ UNCHANGED <<message, answers>>
  /\ UNCHANGED <<client, csvVars>>

-----------------------------------------------------------------------------
(* The server is killed; the client starts another. *)

Kill ==
  /\ srv \in {"read", "handle", "tool"} /\ kills < MaxKills
  /\ kills' = kills + 1 /\ srv' = "dead"
  /\ Abandon
  /\ UNCHANGED <<wire, begun, closed, sent, message, answers>>

Restart ==
  /\ srv \in {"dead", "ended"}
  /\ srv' = "read" /\ wire' = <<>> /\ begun' = FALSE /\ closed' = FALSE /\ answers' = <<>>
  /\ NoMessage
  /\ UNCHANGED <<sent, kills, csvVars>>

ServerStep ==
  \/ ReadMessage \/ ReadEnd \/ HandleEntry \/ CallTool \/ ToolReturns \/ WriteAnswer
  \/ Handle /\ UNCHANGED stdioVars

ServerNext ==
  \/ ServerStep
  \/ \E m \in Messages : Send(m)
  \/ CloseInput \/ Kill \/ Restart
  \/ (EditTable \/ \E c \in Calls : WorkerStep(c)) /\ UNCHANGED stdioVars

ServerSpec == ServerInit /\ [][ServerNext]_serverVars /\ WF_serverVars(ServerStep)

-----------------------------------------------------------------------------
\* What a message is to be answered, and how.
Reply(i, kind) ==
  CASE kind = "note" -> <<>>
    [] kind = "bad"  -> <<0>>
    [] OTHER         -> <<i>>

\* The answers to the first so many of its entries, one after the other.
Replies(body) ==
  LET upto[n \in 0..Len(body)] ==
        IF n = 0 THEN <<>> ELSE upto[n - 1] \o Reply(n, body[n])
  IN upto

Positions(m) == Replies(m.body)[Len(m.body)]

Error(f) == [framing |-> f, ids |-> <<0>>]

Demand(m) ==
  IF m.size = "good" /\ m.body = OddJson
    THEN Error("framed")
  ELSE IF m.size # "good" \/ m.body \in {NoJson, <<>>} \/ Has(m, "raise")
    THEN Error(m.framing)
  ELSE IF Positions(m) = <<>>
    THEN Absent
  ELSE [framing |-> m.framing, ids |-> Positions(m)]

Unread == IF begun THEN Tail(wire) ELSE wire
Asked  == (IF cur = Absent THEN <<>> ELSE <<cur>>) \o Unread

Service == INSTANCE OrderedService WITH None <- Absent, asked <- Asked

\* The server is an ordered service: every message that demands an answer gets
\* it once, in the order sent and in its framing, whatever the others were, and
\* no text is taken for a message that was sent as part of another
\* (run_stdio_server, _read_stdio_message).
ImplementsService == Service!Spec

\* Every message is handled, unless the server ends: a tool whose worker hangs
\* holds it no longer than the deadline.
EveryMessageHandled == Asked # <<>> ~> Asked = <<>> \/ srv \in {"dead", "ended"}

ServerTypeOK ==
  /\ CsvTypeOK
  /\ wire \in Seq(Messages) /\ begun \in BOOLEAN /\ cur \in Messages \cup {Absent}
  /\ framing \in Framings /\ fatal \in BOOLEAN /\ got \in Seq(Nat)
  /\ srv \in {"read", "handle", "tool", "ended", "dead"}
  /\ srv = "tool" <=> tool # "idle"

=============================================================================
