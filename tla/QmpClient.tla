----------------------------- MODULE QmpClient -----------------------------
(***************************************************************************)
(* One command over QMP: drtmtest/qmp_client.py's QmpClient._open,         *)
(* _send_cmd and execute, against a QEMU that answers, sends events of its *)
(* own, stops answering, or goes away.                                     *)
(*                                                                         *)
(* A QMP message is a line of JSON.  It is two pieces here, the first of   *)
(* which has its key (`"return"`, `"error"` or `"event"`) and the second   *)
(* ends with the newline, so any read, the greeting's too, can end inside  *)
(* a message and can hold several.  A piece is more than white space: a    *)
(* tail that is only the newline is skipped, and no cut for this module.   *)
(***************************************************************************)
EXTENDS Naturals, Sequences, SequencesExt

CONSTANT MaxEvents     \* bound: events QEMU sends on one connection

ASSUME EventsAssumption == MaxEvents \in Nat

VARIABLES
  pc,        \* the client: "open", "greet", "negotiate", "ask" (reading), "done"
  data,      \* _send's `data`: what it has read since it sent
  result,    \* how execute ended: its value or an exception
  qemu,      \* "up", "wedged" (silent for good) or "gone"
  todo,      \* what QEMU has received and not answered: a connection, a command
  events,    \* events QEMU has sent
  pipe       \* sent by QEMU and not yet read by the client

clientVars == <<pc, data, result>>
vars == <<pc, data, result, qemu, todo, events, pipe>>

\* The pieces of a message of one kind.
Kinds == {"greeting", "capabilities", "reply", "error", "event"}
Line(kind) == <<[of |-> kind, ends |-> FALSE], [of |-> kind, ends |-> TRUE]>>
Pieces == [of : Kinds, ends : BOOLEAN]

Init ==
  /\ pc = "open" /\ data = << >> /\ result = "none"
  /\ qemu \in {"up", "wedged", "gone"} /\ todo = "none" /\ events = 0 /\ pipe = << >>

-----------------------------------------------------------------------------
(* QEMU.                                                                   *)

\* It greets who connects and carries out what it is sent: qmp_capabilities
\* succeeds, the command returns a value or an error.
Answers == [connected |-> {"greeting"}, qmp_capabilities |-> {"capabilities"},
            command |-> {"reply", "error"}]
Reply ==
  /\ qemu = "up" /\ todo # "none" /\ todo' = "none"
  /\ \E kind \in Answers[todo] : pipe' = pipe \o Line(kind)
  /\ UNCHANGED <<clientVars, qemu, events>>

\* It reports an event at any moment once capabilities are negotiated.
Event ==
  /\ qemu = "up" /\ events < MaxEvents
  /\ pc = "ask" \/ (pc = "negotiate" /\ todo = "none")
  /\ events' = events + 1 /\ pipe' = pipe \o Line("event")
  /\ UNCHANGED <<clientVars, qemu, todo>>

\* It stops answering, or it exits, in the middle of a message perhaps.
Wedges == qemu = "up" /\ qemu' = "wedged" /\ UNCHANGED <<clientVars, todo, events, pipe>>
Exits ==
  /\ qemu # "gone" /\ qemu' = "gone"
  /\ \E n \in 0 .. Len(pipe) : pipe' = SubSeq(pipe, 1, n)
  /\ UNCHANGED <<clientVars, todo, events>>

Qemu == Reply \/ Event \/ Wedges \/ Exits

-----------------------------------------------------------------------------
(* The client.                                                             *)

Ends(outcome) == pc' = "done" /\ result' = outcome

\* A QEMU that is there takes the connection; a wedged one may leave it
\* waiting, and connect raises OSError as it does when there is none.
Connect ==
  /\ pc = "open"
  /\ \/ qemu # "gone" /\ pc' = "greet" /\ todo' = "connected" /\ UNCHANGED result
     \/ qemu # "up" /\ Ends("OSError") /\ UNCHANGED todo
  /\ UNCHANGED <<data, qemu, events, pipe>>

\* The first command is sent, which raises when QEMU is gone.
Sends(command) ==
  IF qemu = "gone" THEN Ends("OSError") /\ UNCHANGED todo
  ELSE pc' = "negotiate" /\ todo' = command /\ UNCHANGED result

\* The greeting is what one recv returns, nothing at the end of the stream:
\* what it leaves of the line is the start of what is read next.
TakesGreeting ==
  \/ \E n \in 1 .. Len(pipe) : pipe' = SubSeq(pipe, n + 1, Len(pipe))
  \/ qemu = "gone" /\ pipe = << >> /\ UNCHANGED pipe
\* Mutant: the command is sent before capabilities are negotiated.
ReadGreetingAsksAtOnce ==
  pc = "greet" /\ TakesGreeting /\ Sends("command") /\ UNCHANGED <<data, qemu, events>>
ReadGreeting ==
  /\ pc = "greet" /\ TakesGreeting /\ Sends("qmp_capabilities")
  /\ UNCHANGED <<data, qemu, events>>

Reading == pc \in {"negotiate", "ask"}

\* _send reads until the data ends with a newline and holds an answer.
HasAnswer(d) == \E i \in DOMAIN d : d[i].of \in {"capabilities", "reply", "error"}
\* Mutants: any whole line will do; part of the answer will do.
AnyLine(d)   == d # << >> /\ Last(d).ends
PartOf(d)    == d # << >> /\ HasAnswer(d)
Complete(d)  == d # << >> /\ Last(d).ends /\ HasAnswer(d)

Recv ==
  /\ Reading /\ ~Complete(data)
  /\ \E n \in 1 .. Len(pipe) :
       data' = data \o SubSeq(pipe, 1, n) /\ pipe' = SubSeq(pipe, n + 1, Len(pipe))
  /\ UNCHANGED <<pc, result, qemu, todo, events>>

\* Ten seconds without a byte, of the greeting or of an answer.  Mutant: a socket without a timeout.
NoTimeout == FALSE
Times == qemu = "wedged" /\ pipe = << >>
RecvTimeout ==
  /\ pc = "greet" \/ (Reading /\ ~Complete(data))
  /\ Times /\ Ends("OSError")
  /\ UNCHANGED <<data, qemu, todo, events, pipe>>

\* What json.loads makes of the lines read: an exception, or the objects (here
\* the places where they end).  Half a line is no JSON, whichever half it is.
Lines(d)  == {i \in DOMAIN d : d[i].ends}
Broken(d) == d # << >> /\ (d[1].ends \/ ~Last(d).ends)

\* A single object is the answer; two are returned as {"ack", "event"}.
Answer(d) == IF \E i \in DOMAIN d : Lines(d) = {i}
             THEN d[CHOOSE i \in DOMAIN d : Lines(d) = {i}].of ELSE "ack and event"

\* The answer to qmp_capabilities is dropped and the command sent.  Sending
\* to a QEMU that is gone raises.
Negotiated ==
  /\ IF qemu = "gone" THEN Ends("OSError") /\ UNCHANGED todo
     ELSE pc' = "ask" /\ todo' = "command" /\ UNCHANGED result

\* _send_cmd raises on an error reply, execute indexes the answer.
Answered ==
  /\ Ends(CASE Answer(data) = "reply" -> "value"
            [] Answer(data) = "error" -> "RuntimeError"
            [] OTHER                  -> "KeyError")
  /\ UNCHANGED todo

\* The read loop is over: the data is complete, or recv returned b"".
AtEof == qemu = "gone" /\ pipe = << >>
Parse ==
  /\ Reading /\ (Complete(data) \/ AtEof)
  /\ IF Broken(data) THEN Ends("ValueError") /\ UNCHANGED todo
     ELSE IF data = << >> THEN Ends("IndexError") /\ UNCHANGED todo
     ELSE IF pc = "negotiate" THEN Negotiated ELSE Answered
  /\ data' = IF pc' = "ask" THEN << >> ELSE data
  /\ UNCHANGED <<qemu, events, pipe>>

Client == Connect \/ ReadGreeting \/ Recv \/ RecvTimeout \/ Parse

\* The command is over and QEMU has nothing more to do.
Finished == pc = "done" /\ qemu = "gone" /\ UNCHANGED vars

Next == Qemu \/ Client \/ Finished

\* The client runs, and a QEMU that is neither wedged nor gone answers.
Spec == Init /\ [][Next]_vars /\ WF_vars(Client) /\ WF_vars(Reply)

-----------------------------------------------------------------------------
TypeOK ==
  /\ pc \in {"open", "greet", "negotiate", "ask", "done"}
  /\ data \in Seq(Pieces) /\ pipe \in Seq(Pieces)
  /\ result \in {"none", "value", "RuntimeError", "OSError", "KeyError", "IndexError", "ValueError"}
  /\ qemu \in {"up", "wedged", "gone"} /\ todo \in {"none"} \cup DOMAIN Answers
  /\ events \in 0 .. MaxEvents
  /\ pc = "negotiate" => todo # "command"   \* QMP takes no command before that

\* While QEMU is up a command ends only with its own answer read to the end,
\* however the answer is cut into reads and whatever events come around it.
HasWhole(d) == \E i \in DOMAIN d : d[i].of \in {"reply", "error"} /\ d[i].ends
AnswerIsAwaited ==
  [][(pc = "ask" /\ pc' = "done" /\ qemu = "up") => HasWhole(data)]_vars

\* What _open left of the greeting is read with the answer to qmp_capabilities.
LeftOver(d) == d # << >> /\ d[1].of = "greeting"

\* A QEMU that is up and sends no events of its own is always understood, unless
\* _open's one read ended inside the greeting.
QuietQemuIsUnderstood ==
  [][(pc' = "done" /\ pc # "done" /\ qemu = "up" /\ events = 0 /\ ~LeftOver(data)) =>
        result' \in {"value", "RuntimeError"}]_vars

\* A command ends, whether QEMU answers, floods, wedges or goes away in
\* mid-message: nothing here may hang the session (qmp_client.py:22-24).
CommandEnds == pc = "open" ~> pc = "done"

\* execute's docstring: "Runs one command and returns its `return` value".  A
\* command QEMU answered with a value returns, also when an event came along.
ReturnsItsValue ==
  (\E i \in DOMAIN data : data[i].of = "reply" /\ data[i].ends) /\ pc = "done"
     => result = "value"
=============================================================================
