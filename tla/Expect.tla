------------------------------- MODULE Expect -------------------------------
(***************************************************************************)
(* QemuVm.expect and what it calls: one boot's thread polls the buffer the *)
(* reader fills, from a cursor that advances with every match, and judges  *)
(* silence, a spinning guest, failures, prompts to answer, a QEMU that is  *)
(* gone or stopped as panicked, and the deadline.                          *)
(*                                                                         *)
(* Text is a sequence of symbols.  The reader appends what the guest       *)
(* prints to the buffer (buf), whole and in order (QemuVm!ConsoleUnbroken),*)
(* and a poll looks at the prefix it copied under the lock (snap): guest   *)
(* and reader run between any two steps.  Time is counted in polls: it     *)
(* passes while expect sleeps and while it waits for QMP; the steps        *)
(* between take none.                                                      *)
(***************************************************************************)
EXTENDS Integers, Sequences

CONSTANTS
  Symbols, Calls,                     \* records: needle, failures, answers, timeout
  Idle, StuckAfter, StuckFor, Sample, \* idle, STUCK_AFTER, STUCK_FOR, _STUCK_SAMPLE
  StatusEvery,                        \* _check_alive's one second
  QmpTime,                            \* bound: polls a QMP command takes
  Addresses,                          \* where the CPUs of a guest can be
  MaxText, MaxCalls                   \* bounds: symbols printed, calls made

Needles == {c.needle : c \in Calls}

ASSUME CallsAssumption ==
  \A c \in Calls :
    /\ c.needle \in Seq(Symbols) /\ c.needle # << >> /\ c.timeout \in Nat
    /\ \A p \in c.failures \cup c.answers : p \in Seq(Symbols) /\ p # << >>
ASSUME TimesAssumption ==
  /\ Idle \in Nat /\ StuckAfter \in Nat /\ StuckFor \in Nat /\ Sample \in Nat
  /\ StatusEvery \in Nat /\ QmpTime \in Nat /\ MaxText \in Nat /\ MaxCalls \in Nat
  /\ "none" \notin Addresses

VARIABLES
  buf,               \* _serial_buf
  vm,                \* "running", "panicked" (paused) or "exited"
  now,               \* time.monotonic()
  pc, call, calls,   \* where the wait is, its arguments, waits begun
  cursor,            \* _cursor
  snap,              \* the poll's copy of the buffer ends here
  seen, lastSeen, deadline, sampled, stuck, stuckSince,   \* expect's locals
  answered,          \* prompt -> the position answers are looked for from
  lastStatus,        \* _last_status_check
  result,            \* how the last wait ended
  sends,             \* history: <<prompt, position>> of every answer sent
  heardAt,           \* history: when the buffer last grew
  goneAtPoll         \* history: QEMU had exited when the poll began

guestVars  == <<buf, vm, heardAt>>
localVars  == <<seen, lastSeen, deadline, sampled, stuck, stuckSince>>
vars == <<buf, vm, now, pc, call, calls, cursor, snap, seen, lastSeen, deadline,
          sampled, stuck, stuckSince, answered, lastStatus, result, sends, heardAt, goneAtPoll>>

\* No CPU address: every CPU is halted, or QMP gave no usable answer.
NoAddress == "none"

CS == INSTANCE ConsoleStream WITH text <- buf
Starts(pat, from, to)      == CS!Starts(buf, pat, from, to)
FoundAt(pat, from, to, p)  == CS!FoundAt(buf, pat, from, to, p)

Init ==
  /\ buf = << >> /\ vm = "running" /\ now = StatusEvery
  /\ pc = "idle" /\ call \in Calls /\ calls = 0 /\ cursor = 0
  /\ snap = 0 /\ seen = 0 /\ lastSeen = 0 /\ deadline = 0
  /\ sampled = 0 /\ stuck = NoAddress /\ stuckSince = 0
  /\ answered = << >> /\ lastStatus = 0 /\ result = "none"
  /\ sends = {} /\ heardAt = 0 /\ goneAtPoll = FALSE

-----------------------------------------------------------------------------
(* The guest, and the reader that delivers what it prints.                 *)

GuestFrame == UNCHANGED <<now, pc, call, calls, cursor, snap, localVars, answered,
                          lastStatus, result, sends, goneAtPoll>>

\* The reader appends what it received; some may arrive after QEMU stopped.
ReaderExtends ==
  /\ Len(buf) < MaxText /\ \E s \in Symbols : buf' = Append(buf, s)
  /\ heardAt' = now
  /\ UNCHANGED vm /\ GuestFrame

\* A panic pauses the VM: the console goes silent, the process stays.
GuestStops ==
  /\ \/ vm = "running" /\ vm' = "panicked"
     \/ vm # "exited" /\ vm' = "exited"
  /\ UNCHANGED <<buf, heardAt>> /\ GuestFrame

Guest == ReaderExtends \/ GuestStops

-----------------------------------------------------------------------------
(* The wait.                                                               *)

WaitFrame == UNCHANGED <<guestVars, call, calls>>

\* The driver calls expect again after a match, or after a timeout it caught: of
\* a wait without answers, in Console._move_down.  Other exceptions end the boot.
Begin ==
  /\ pc = "idle" /\ calls < MaxCalls
  /\ \/ result \in {"none", "matched"}
     \/ result = "TimeoutError" /\ call.answers = {}
  /\ \E c \in Calls :
       /\ call' = c /\ deadline' = now + c.timeout
       /\ answered' = [p \in c.answers |-> cursor]
  /\ calls' = calls + 1 /\ pc' = "poll" /\ result' = "none"
  /\ seen' = 0 /\ lastSeen' = now /\ sampled' = now
  /\ stuck' = NoAddress /\ stuckSince' = now
  /\ UNCHANGED <<guestVars, now, cursor, snap, lastStatus, sends, goneAtPoll>>

Raise(error) == pc' = "idle" /\ result' = error
Goes(to)     == pc' = to /\ UNCHANGED result

\* The buffer is copied under the lock and its silence judged.
Grown   == Len(buf) - cursor # seen
\* Mutant: silence is counted from the start of the wait.
SilenceOfWait == now - (deadline - call.timeout)
Silence == now - lastSeen
\* Mutant: new output does not restart the watch of the CPUs.
StillStuck == stuck
Restarted  == NoAddress
Poll ==
  /\ pc = "poll" /\ snap' = Len(buf) /\ goneAtPoll' = (vm = "exited")
  /\ IF Grown
     THEN /\ seen' = Len(buf) - cursor /\ lastSeen' = now /\ stuck' = Restarted
          /\ Goes("search")
     ELSE /\ UNCHANGED <<seen, lastSeen, stuck>>
          /\ IF Silence >= Idle THEN Raise("GuestHung")
             ELSE Goes(IF Silence >= StuckAfter /\ now - sampled >= Sample
                       THEN "sample" ELSE "search")
  /\ sampled' = IF pc' = "sample" THEN now ELSE sampled
  /\ UNCHANGED <<now, cursor, deadline, stuckSince, answered, lastStatus, sends>> /\ WaitFrame

\* A QMP command takes its time, at most the client's timeout.
TimePasses == now' \in now .. now + QmpTime

\* _running_addresses.  A QEMU that goes away in mid-reply leaves the client
\* with nothing to parse, an IndexError no caller expects.
SampleCpus ==
  /\ pc = "sample" /\ TimePasses
  /\ \/ /\ vm = "exited" /\ Raise("IndexError") /\ UNCHANGED <<stuck, stuckSince>>
     \/ \E a \in {NoAddress} \cup (IF vm = "exited" THEN {} ELSE Addresses) :
          IF a = NoAddress \/ a # stuck
          THEN stuck' = a /\ stuckSince' = now /\ Goes("search")
          ELSE /\ UNCHANGED <<stuck, stuckSince>>
               /\ IF now - stuckSince >= StuckFor THEN Raise("GuestHung") ELSE Goes("search")
  /\ UNCHANGED <<cursor, snap, seen, lastSeen, deadline, sampled, answered, lastStatus,
                 sends, goneAtPoll>> /\ WaitFrame

\* Mutant: the match drops the rest of what was read.
MatchesAll ==
  /\ pc = "search" /\ Starts(call.needle, cursor, snap) # {} /\ cursor' = snap
  /\ Raise("matched")
  /\ UNCHANGED <<now, snap, localVars, answered, lastStatus, sends, goneAtPoll>> /\ WaitFrame

\* The end of a match of `pat` found at p.  Mutant: added to the cursor twice.
EndTwice(p, pat) == cursor + p + Len(pat)
End(p, pat) == p + Len(pat)

\* The needle is looked for first and the cursor passes it.
Matches ==
  /\ pc = "search"
  /\ \E p \in cursor .. snap :
       FoundAt(call.needle, cursor, snap, p) /\ cursor' = End(p, call.needle)
  /\ Raise("matched")
  /\ UNCHANGED <<now, snap, localVars, answered, lastStatus, sends, goneAtPoll>> /\ WaitFrame

\* Then the failures.
Seen(pat) == Starts(pat, cursor, snap) # {}
Fails ==
  /\ pc = "search" /\ ~Seen(call.needle) /\ \E f \in call.failures : Seen(f)
  /\ Raise("GuestPanicked")
  /\ UNCHANGED <<now, cursor, snap, localVars, answered, lastStatus, sends, goneAtPoll>>
  /\ WaitFrame

\* Then every prompt is answered at its next appearance.  A write raises if QEMU is
\* gone, and if it does not read for the socket's timeout (0.2 s, not counted).
NextAnswer(p) == {q \in answered[p] .. snap : FoundAt(p, answered[p], snap, q)}
Pending       == {p \in call.answers : NextAnswer(p) # {}}
\* Where the next answer is looked for, after one at q.  Mutants: at the same
\* place; after everything that was read.
SamePlace(p, q)  == q
AfterRead(p, q)  == snap
PastAnswer(p, q) == q + Len(p)
Answers ==
  /\ pc = "search" /\ ~Seen(call.needle) /\ ~\E f \in call.failures : Seen(f)
  /\ \/ /\ answered' = [p \in call.answers |->
                         IF p \in Pending THEN PastAnswer(p, CHOOSE q \in NextAnswer(p) : TRUE)
                         ELSE answered[p]]
        /\ sends' = sends \cup UNION {{<<p, q>> : q \in NextAnswer(p)} : p \in Pending}
        /\ Goes("alive")
     \/ /\ Pending # {}
        /\ Raise("TimeoutError") \/ (vm = "exited" /\ Raise("OSError"))
        /\ UNCHANGED <<answered, sends>>
  /\ UNCHANGED <<now, cursor, snap, localVars, lastStatus, goneAtPoll>> /\ WaitFrame

\* _check_alive: the process at every poll, the run state now and then.
AsksStatus == now - lastStatus >= StatusEvery
\* Mutant: the process is looked at no more often than the run state.
ChecksSeldom ==
  /\ pc = "alive"
  /\ \/ vm = "exited" /\ AsksStatus /\ Raise("QemuExited") /\ UNCHANGED <<now, lastStatus>>
     \/ ~AsksStatus /\ Goes("deadline") /\ UNCHANGED <<now, lastStatus>>
     \/ /\ vm # "exited" /\ AsksStatus /\ lastStatus' = now
        /\ UNCHANGED <<result, now>> /\ pc' = "status"
  /\ UNCHANGED <<cursor, snap, localVars, answered, sends, goneAtPoll>> /\ WaitFrame
CheckAlive ==
  /\ pc = "alive"
  /\ \/ vm = "exited" /\ Raise("QemuExited") /\ UNCHANGED <<now, lastStatus>>
     \/ vm # "exited" /\ ~AsksStatus /\ Goes("deadline") /\ UNCHANGED <<now, lastStatus>>
     \/ /\ vm # "exited" /\ AsksStatus /\ lastStatus' = now
        /\ UNCHANGED <<result, now>> /\ pc' = "status"
  /\ UNCHANGED <<cursor, snap, localVars, answered, sends, goneAtPoll>> /\ WaitFrame

\* Mutant: the reply is awaited without a timeout.
StatusAwaited ==
  /\ pc = "status" /\ TimePasses
  /\ \/ vm = "panicked" /\ Raise("GuestPanicked")
     \/ vm = "running" /\ Goes("deadline")
  /\ UNCHANGED <<cursor, snap, localVars, answered, lastStatus, sends, goneAtPoll>>
  /\ WaitFrame

\* The reply, of a QEMU that may have exited since, or an OSError, which is caught:
\* QEMU is wedged or has vanished.  Other exceptions of the client are not: an event
\* shared the reply's read, QEMU refused, the greeting or the reply came in pieces,
\* or nothing came (QmpClient).
Status ==
  /\ pc = "status" /\ TimePasses
  /\ \/ vm # "running" /\ Raise("GuestPanicked")
     \/ Goes("deadline")
     \/ \E e \in {"KeyError", "RuntimeError", "ValueError"} : Raise(e)
     \/ vm = "exited" /\ Raise("IndexError")
  /\ UNCHANGED <<cursor, snap, localVars, answered, lastStatus, sends, goneAtPoll>>
  /\ WaitFrame

\* Mutant: the deadline counts only while the console is silent.
OverdueInSilence == now >= deadline /\ ~Grown
Overdue == now >= deadline

\* The deadline, or the sleep that ends the poll.
Deadline ==
  /\ pc = "deadline"
  /\ IF Overdue THEN Raise("TimeoutError") /\ UNCHANGED now
                        ELSE Goes("poll") /\ now' = now + 1
  /\ UNCHANGED <<cursor, snap, localVars, answered, lastStatus, sends, goneAtPoll>>
  /\ WaitFrame

Wait == Begin \/ Poll \/ SampleCpus \/ Matches \/ Fails \/ Answers \/ CheckAlive
        \/ Status \/ Deadline

\* The driver may stop calling.
Finished == pc = "idle" /\ UNCHANGED vars

Next == Guest \/ Wait \/ Finished

\* The boot's thread is scheduled.
Spec == Init /\ [][Next]_vars /\ WF_vars(Wait)

-----------------------------------------------------------------------------
Errors == {"QemuExited", "GuestPanicked", "GuestHung", "TimeoutError", "OSError",
           "KeyError", "IndexError", "RuntimeError", "ValueError"}

TypeOK ==
  /\ buf \in Seq(Symbols)
  /\ vm \in {"running", "panicked", "exited"} /\ now \in Nat
  /\ pc \in {"idle", "poll", "sample", "search", "alive", "status", "deadline"}
  /\ call \in Calls /\ calls \in Nat
  /\ cursor \in 0 .. Len(buf) /\ snap \in 0 .. Len(buf)
  /\ seen \in Nat /\ lastSeen \in Nat /\ deadline \in Nat /\ sampled \in Nat
  /\ stuck \in Addresses \cup {NoAddress} /\ stuckSince \in Nat
  /\ lastStatus \in Nat /\ result \in {"none", "matched"} \cup Errors
  /\ heardAt \in Nat /\ goneAtPoll \in BOOLEAN
  /\ pc # "idle" => DOMAIN answered = call.answers

\* Every wait that succeeds consumes the console up to the first appearance of
\* its needle and nothing else moves the cursor, whatever the guest and the
\* reader do during the wait: no prompt is skipped or matched twice.
ConsumesInOrder == CS!Spec

\* A guest is called hung for its silence only if nothing reached the buffer
\* for as long as that.
HungMeansSilent ==
  [][(pc = "poll" /\ result' = "GuestHung") => heardAt <= now - Idle]_vars

\* A guest is called hung for a CPU that spins only if the console stayed silent
\* from the first sample of that address to the poll that took the last, STUCK_FOR
\* later.  (What arrives while QMP answers that sample is not looked at.)
StuckMeansSilent ==
  [][(pc = "sample" /\ result' = "GuestHung") =>
        (Len(buf) = snap => heardAt <= stuckSince) /\ now - stuckSince >= StuckFor]_vars

\* No appearance of a prompt is answered twice, within one wait or in the next:
\* an answer is to text that no earlier answer to that prompt was to.
Apart(p, q, r) == q + Len(p) <= r \/ r + Len(p) <= q
AnsweredOnce ==
  [][(pc = "search" /\ pc' = "alive") =>
        \A p \in Pending : \A q \in NextAnswer(p), s \in sends : s[1] = p => Apart(p, q, s[2])]_vars

\* A guest that holds at a prompt is never called hung without the answer: when
\* silence ends the wait, every appearance of every prompt has been answered.
Unanswered(p) ==
  \E q \in Starts(p, cursor, snap) : \A s \in sends : s[1] = p => Apart(p, q, s[2])
HungWasAnswered ==
  [][(pc = "poll" /\ result' = "GuestHung") =>
        \A p \in call.answers : ~Unanswered(p)]_vars

\* A QEMU that had gone when a poll began ends the wait in that poll: never
\* slept on, never reported as a timeout.
GoneIsNoticed == pc \in {"status", "deadline"} => ~goneAtPoll

\* The timeout bounds the wait: it is never overrun by more than one poll and
\* the QMP commands that poll makes, however the guest keeps printing.
EndsByDeadline == pc # "idle" => now <= deadline + 2 * QmpTime

\* Every wait comes to an end, whatever the guest and QMP do.
WaitEnds == pc # "idle" ~> pc = "idle"

\* expect's docstring: "`failures` are patterns that end the wait at once with
\* an error".  A failure the guest printed before the needle is in what a
\* successful wait consumed.
FailuresEndTheWait ==
  [][(pc = "search" /\ result' = "matched") =>
        \A f \in call.failures : Starts(f, cursor, cursor') = {}]_vars
=============================================================================
