---------------------------- MODULE MCStdioServer ----------------------------
EXTENDS StdioServer, TLC

Message(f, s, bodies) == {[framing |-> f, size |-> s, body |-> b] : b \in bodies}

\* The text after a size that cannot be believed looks like a message.
MCMessages ==
  Message("line", "good", {NoJson, <<"note">>, <<"bad", "call">>,
                           <<"ping", "raise">>, <<"garbled">>})
  \cup Message("framed", "good", {OddJson, <<>>, <<"call", "ping">>})
  \cup Message("framed", "bad", {<<"ping">>})
  \cup Message("line", "bad", {<<"ping">>})
  \cup Message("framed", "cut", {<<"ping">>})

MCCallKinds == [multi : BOOLEAN, overwrite : {TRUE}, dry : {FALSE}]
               \cup {[multi |-> FALSE, overwrite |-> FALSE, dry |-> d] : d \in BOOLEAN}

=============================================================================
