---------------------------- MODULE ExpectProofs ----------------------------
(***************************************************************************)
(* Theorems about Expect, for any calls, any text the guest may print and  *)
(* any values of the times.  IInv is the inductive invariant: it ties the  *)
(* locals of expect to the buffer and to the clock between any two steps,  *)
(* and the answers sent to what the cursor has passed.                     *)
(***************************************************************************)
EXTENDS Expect, SequenceTheorems, WellFoundedInduction, TLAPS

\* A wait in progress has not ended, and knows how much it has seen: the
\* console was silent since, also for the CPU that is suspected of spinning.
SilenceInv ==
  /\ heardAt <= now
  /\ pc # "idle" =>
       /\ result = "none" /\ cursor + seen <= Len(buf)
       /\ cursor + seen = Len(buf) => /\ heardAt <= lastSeen
                                      /\ stuck # NoAddress => heardAt <= stuckSince
  /\ pc = "sample" => snap = cursor + seen

\* A poll begins within the deadline and makes two QMP commands at most.
DeadlineInv ==
  /\ pc \in {"poll", "sample"} => now <= deadline
  /\ pc \in {"search", "alive", "status"} => now <= deadline + QmpTime
  /\ pc = "deadline" => now <= deadline + 2 * QmpTime

\* A QEMU that has gone stays gone until the poll looks at it.
GoneInv ==
  /\ pc \in {"sample", "search", "alive"} => (goneAtPoll => vm = "exited")
  /\ GoneIsNoticed

\* The driver may call again.
MayBegin == result \in {"none", "matched"} \/ (result = "TimeoutError" /\ call.answers = {})

\* Answers are looked for after the last one to the prompt, and the needle's
\* first appearance ends after every one: the cursor, when it moves, and so the
\* next wait, is past them all.
SendEnd(s) == s[2] + Len(s[1])
SendsInv ==
  /\ \A s \in sends : s \in Seq(Symbols) \X Nat /\ SendEnd(s) <= Len(buf)
  /\ pc # "idle" =>
       /\ \A p \in call.answers :
            /\ answered[p] \in cursor .. Len(buf)
            /\ \A s \in sends : s[1] = p => SendEnd(s) <= answered[p]
       /\ \A s \in sends : /\ Starts(call.needle, cursor, SendEnd(s)) = {}
                           /\ call.answers = {} => SendEnd(s) <= cursor
  /\ pc = "idle" /\ MayBegin => \A s \in sends : SendEnd(s) <= cursor

IInv == TypeOK /\ SilenceInv /\ DeadlineInv /\ GoneInv /\ SendsInv
-----------------------------------------------------------------------------
(* Calls and text.                                                         *)

\* What is waited for, and what is answered, is not empty.
LEMMA CallFacts ==
  ASSUME NEW c \in Calls
  PROVE  /\ c.timeout \in Nat
         /\ c.needle \in Seq(Symbols) /\ Len(c.needle) \in Nat /\ Len(c.needle) >= 1
         /\ \A p \in c.answers : p \in Seq(Symbols) /\ Len(p) \in Nat /\ Len(p) >= 1
<1>1. \A p \in Seq(Symbols) : p # << >> => Len(p) \in Nat /\ Len(p) >= 1
  <2> SUFFICES ASSUME NEW p \in Seq(Symbols), p # << >>
               PROVE  Len(p) \in Nat /\ Len(p) >= 1
    OBVIOUS
  <2>1. Len(p) \in Nat /\ Len(p) # 0
    BY LenProperties, EmptySeq
  <2> QED  BY <2>1
<1> QED  BY <1>1, CallsAssumption

\* The times are not negative.
LEMMA TimeFacts == QmpTime \in Nat /\ Idle \in Nat /\ StuckFor \in Nat /\ StatusEvery \in Nat
BY TimesAssumption

\* Where a pattern starts.
LEMMA StartsAt ==
  ASSUME NEW pat, NEW from, NEW to, NEW q
  PROVE  q \in Starts(pat, from, to) <=>
           /\ q \in from .. to /\ q + Len(pat) <= to
           /\ \A i \in 1 .. Len(pat) : buf[q + i] = pat[i]
BY DEF Starts, CS!Starts, CS!StandsAt

\* Where a pattern starts in the text read so far does not change as text comes.
LEMMA AppendKeeps ==
  ASSUME NEW b \in Seq(Symbols), NEW s \in Symbols, NEW pat \in Seq(Symbols),
         NEW from \in Nat, NEW to \in 0 .. Len(b)
  PROVE  CS!Starts(Append(b, s), pat, from, to) = CS!Starts(b, pat, from, to)
<1>1. Len(b) \in Nat /\ Len(pat) \in Nat
  BY LenProperties
<1>2. \A i \in 1 .. Len(b) : Append(b, s)[i] = b[i]
  BY AppendProperties
<1>3. ASSUME NEW q \in from .. to, q + Len(pat) <= to, NEW i \in 1 .. Len(pat)
      PROVE  Append(b, s)[q + i] = b[q + i]
  BY <1>1, <1>2, <1>3
<1> QED  BY <1>3 DEF CS!Starts, CS!StandsAt

-----------------------------------------------------------------------------
(* IInv is inductive.                                                      *)

\* Types: the cursor stays within the buffer.
LEMMA TypeStep ==
  ASSUME IInv, [Next]_vars  PROVE TypeOK'
<1> USE TimeFacts DEF IInv, TypeOK
<1>1. CASE ReaderExtends
  BY <1>1 DEF ReaderExtends, GuestFrame, localVars
<1>2. CASE GuestStops
  BY <1>2 DEF GuestStops, GuestFrame, localVars
<1>3. CASE Begin
  <2>1. PICK c \in Calls : /\ call' = c /\ deadline' = now + c.timeout
                           /\ answered' = [p \in c.answers |-> cursor]
    BY <1>3 DEF Begin
  <2>2. DOMAIN answered' = c.answers /\ deadline' \in Nat
    BY <2>1, CallFacts
  <2> QED  BY <1>3, <2>1, <2>2 DEF Begin, guestVars, NoAddress
<1>4. CASE Poll
  <2>1. Len(buf) \in Nat /\ Len(buf) - cursor \in Nat
    BY LenProperties
  <2> QED  BY <1>4, <2>1 DEF Poll, Raise, Goes, WaitFrame, guestVars, Errors, Restarted, NoAddress
<1>5. CASE SampleCpus
  BY <1>5 DEF SampleCpus, Raise, Goes, WaitFrame, guestVars, Errors, NoAddress, TimePasses
<1>6. CASE Matches
  <2>1. PICK p \in cursor .. snap : /\ FoundAt(call.needle, cursor, snap, p)
                                    /\ cursor' = p + Len(call.needle)
    BY <1>6 DEF Matches, End
  <2>2. p \in Starts(call.needle, cursor, snap)
    BY <2>1 DEF FoundAt, CS!FoundAt, Starts
  <2>3. p + Len(call.needle) <= snap /\ Len(call.needle) \in Nat /\ Len(buf) \in Nat
    BY <2>2, StartsAt, CallFacts, LenProperties
  <2>4. cursor' \in 0 .. Len(buf)
    BY <2>1, <2>3
  <2> QED  BY <1>6, <2>4 DEF Matches, Raise, WaitFrame, guestVars, localVars
<1>7. CASE Fails
  BY <1>7 DEF Fails, Raise, WaitFrame, guestVars, localVars, Errors
<1>8. CASE Answers
  BY <1>8 DEF Answers, Raise, Goes, WaitFrame, guestVars, localVars, Errors
<1>9. CASE CheckAlive
  BY <1>9 DEF CheckAlive, Raise, Goes, WaitFrame, guestVars, localVars, Errors
<1>10. CASE Status
  BY <1>10 DEF Status, Raise, Goes, WaitFrame, guestVars, localVars, Errors, TimePasses
<1>11. CASE Deadline
  BY <1>11 DEF Deadline, Raise, Goes, WaitFrame, guestVars, localVars, Errors
<1>12. CASE UNCHANGED vars
  BY <1>12 DEF vars
<1> QED
  BY <1>1, <1>2, <1>3, <1>4, <1>5, <1>6, <1>7, <1>8, <1>9, <1>10, <1>11, <1>12
  DEF Next, Guest, Wait, Finished

\* What expect knows of the console's silence.
LEMMA SilenceStep ==
  ASSUME IInv, [Next]_vars  PROVE SilenceInv'
<1>0. TypeOK /\ SilenceInv /\ Len(buf) \in Nat
  BY LenProperties DEF IInv, TypeOK
<1> USE <1>0, TimeFacts DEF TypeOK, SilenceInv
<1>1. CASE ReaderExtends
  <2>1. Len(buf') = Len(buf) + 1
    BY <1>1, AppendProperties DEF ReaderExtends
  <2>2. pc' = "sample" => snap' = cursor' + seen'
    BY <1>1 DEF ReaderExtends, GuestFrame, localVars
  <2> QED  BY <1>1, <2>1, <2>2 DEF ReaderExtends, GuestFrame, localVars
<1>2. CASE GuestStops
  BY <1>2 DEF GuestStops, GuestFrame, localVars
<1>3. CASE Begin
  BY <1>3 DEF Begin, guestVars
<1>4. CASE Poll
  BY <1>4 DEF Poll, Grown, Raise, Goes, WaitFrame, guestVars, Restarted
<1>5. CASE SampleCpus
  BY <1>5 DEF SampleCpus, Raise, Goes, WaitFrame, guestVars, TimePasses
<1>6. CASE Matches
  BY <1>6 DEF Matches, Raise, WaitFrame, guestVars, localVars
<1>7. CASE Fails
  BY <1>7 DEF Fails, Raise, WaitFrame, guestVars, localVars
<1>8. CASE Answers
  BY <1>8 DEF Answers, Raise, Goes, WaitFrame, guestVars, localVars
<1>9. CASE CheckAlive
  BY <1>9 DEF CheckAlive, Raise, Goes, WaitFrame, guestVars, localVars
<1>10. CASE Status
  BY <1>10 DEF Status, Raise, Goes, WaitFrame, guestVars, localVars, TimePasses
<1>11. CASE Deadline
  BY <1>11 DEF Deadline, Raise, Goes, WaitFrame, guestVars, localVars
<1>12. CASE UNCHANGED vars
  BY <1>12 DEF vars
<1> QED
  BY <1>1, <1>2, <1>3, <1>4, <1>5, <1>6, <1>7, <1>8, <1>9, <1>10, <1>11, <1>12
  DEF Next, Guest, Wait, Finished

\* The clock and the deadline; a QEMU that has gone.
LEMMA DeadlineStep ==
  ASSUME IInv, [Next]_vars  PROVE DeadlineInv' /\ GoneInv'
<1>0. TypeOK /\ DeadlineInv /\ GoneInv
  BY DEF IInv
<1> USE <1>0, TimeFacts DEF TypeOK, DeadlineInv, GoneInv, GoneIsNoticed
<1>1. CASE ReaderExtends \/ GuestStops
  BY SMTT(30), <1>1 DEF ReaderExtends, GuestStops, GuestFrame, localVars
<1>3. CASE Begin
  <2>1. PICK c \in Calls : deadline' = now + c.timeout
    BY <1>3 DEF Begin
  <2> QED  BY <1>3, <2>1, CallFacts DEF Begin
<1>4. CASE Poll
  <2>1. pc = "poll" /\ pc' \in {"idle", "sample", "search"} /\ UNCHANGED <<now, deadline, vm>>
    BY <1>4 DEF Poll, Raise, Goes, WaitFrame, guestVars, localVars
  <2>2. goneAtPoll' => vm = "exited"
    BY <1>4 DEF Poll
  <2>3. DeadlineInv'
    BY <2>1
  <2>4. GoneInv'
    BY <2>1, <2>2
  <2> QED  BY <2>3, <2>4
<1>5. CASE SampleCpus
  BY <1>5 DEF SampleCpus, Raise, Goes, WaitFrame, guestVars, TimePasses
<1>6. CASE Matches
  BY <1>6 DEF Matches, Raise, WaitFrame, guestVars, localVars
<1>7. CASE Fails
  BY <1>7 DEF Fails, Raise, WaitFrame, guestVars, localVars
<1>8. CASE Answers
  BY <1>8 DEF Answers, Raise, Goes, WaitFrame, guestVars, localVars
<1>9. CASE CheckAlive
  BY <1>9 DEF CheckAlive, Raise, Goes, WaitFrame, guestVars, localVars
<1>10. CASE Status
  BY <1>10 DEF Status, Raise, Goes, WaitFrame, guestVars, localVars, TimePasses
<1>11. CASE Deadline
  BY <1>11 DEF Deadline, Overdue, Raise, Goes, WaitFrame, guestVars, localVars
<1>12. CASE UNCHANGED vars
  BY <1>12 DEF vars
<1> QED
  BY <1>1, <1>3, <1>4, <1>5, <1>6, <1>7, <1>8, <1>9, <1>10, <1>11, <1>12
  DEF Next, Guest, Wait, Finished

\* The first appearance, where there is one, is one.
LEMMA NextIsFirst ==
  ASSUME TypeOK, NEW p, NEW q \in NextAnswer(p)
  PROVE  /\ q \in Starts(p, answered[p], snap)
         /\ \A b \in Starts(p, answered[p], snap) : q <= b
BY DEF NextAnswer, FoundAt, CS!FoundAt, Starts

\* An answer leaves where it looked before the prompt's end, and every other
\* answer in place.
LEMMA Answering ==
  ASSUME IInv, Answers, pc' = "alive", NEW p \in call.answers
  PROVE  /\ answered'[p] \in answered[p] .. Len(buf)
         /\ \A s \in sends' : s[1] = p =>
              \/ s \in sends /\ answered'[p] >= answered[p]
              \/ s[2] \in answered[p] .. snap /\ SendEnd(s) = answered'[p] /\ SendEnd(s) <= snap
<1> USE DEF IInv, TypeOK
<1>1. /\ pc = "search" /\ call \in Calls /\ Len(buf) \in Nat
      /\ answered[p] \in 0 .. Len(buf)
      /\ p \in Seq(Symbols) /\ Len(p) \in Nat
  BY CallFacts, LenProperties DEF Answers, SendsInv
<1>2. /\ answered' = [r \in call.answers |->
                        IF r \in Pending THEN PastAnswer(r, CHOOSE q \in NextAnswer(r) : TRUE)
                        ELSE answered[r]]
      /\ sends' = sends \cup UNION {{<<r, q>> : q \in NextAnswer(r)} : r \in Pending}
  BY <1>1 DEF Answers, Raise, Goes
<1>3. CASE p \in Pending
  <2>1. PICK q \in NextAnswer(p) : q = CHOOSE x \in NextAnswer(p) : TRUE
    BY <1>3 DEF Pending
  <2>2. answered'[p] = q + Len(p)
    BY <1>2, <1>3, <2>1 DEF PastAnswer
  <2>3. q \in Starts(p, answered[p], snap)
    BY NextIsFirst
  <2>4. q \in answered[p] .. snap /\ q + Len(p) <= snap
    BY <2>3, StartsAt
  <2>5. \A x \in NextAnswer(p) : x = q
    <3> SUFFICES ASSUME NEW x \in NextAnswer(p)  PROVE x = q
      OBVIOUS
    <3>1. x \in Starts(p, answered[p], snap) /\ x <= q /\ q <= x
      BY <2>3, NextIsFirst
    <3>2. x \in Int
      BY <1>1, <3>1, StartsAt
    <3> QED  BY <1>1, <2>4, <3>1, <3>2
  <2>6. \A s \in sends' : s[1] = p => s \in sends \/ s = <<p, q>>
    BY <1>2, <2>5
  <2>7. answered'[p] \in answered[p] .. Len(buf)
    BY <1>1, <2>2, <2>4
  <2>8. ASSUME NEW s, s = <<p, q>>
        PROVE  s[2] = q /\ SendEnd(s) = q + Len(p)
    BY <2>8 DEF SendEnd
  <2> QED  BY <1>1, <2>2, <2>4, <2>6, <2>7, <2>8
<1>4. CASE p \notin Pending
  <2>1. answered'[p] = answered[p]
    BY <1>2, <1>4
  <2>2. \A s \in sends' : s[1] = p => s \in sends
    BY <1>2, <1>4
  <2> QED  BY <1>1, <2>1, <2>2
<1> QED  BY <1>3, <1>4

\* Every answer is to a prompt of the call.
LEMMA AnswersOnlyPrompts ==
  ASSUME IInv, Answers, pc' = "alive", NEW s \in sends', s \notin sends
  PROVE  s[1] \in call.answers /\ s = <<s[1], s[2]>>
<1>1. PICK p \in Pending : s \in {<<p, q>> : q \in NextAnswer(p)}
  BY DEF Answers, Raise, Goes
<1> QED  BY <1>1 DEF Pending

\* Answers leave the needle's first appearance, and so the cursor, past all.
LEMMA AnswersStep ==
  ASSUME IInv, Answers, pc' = "alive"  PROVE SendsInv'
<1> USE DEF IInv, TypeOK
<1>1. /\ pc = "search" /\ call \in Calls /\ Len(buf) \in Nat /\ ~Seen(call.needle)
      /\ UNCHANGED <<buf, call, cursor, snap>>
      /\ Starts(call.needle, cursor, snap) = {}
  BY LenProperties DEF Answers, WaitFrame, guestVars, Seen
<1>2. ASSUME NEW p \in call.answers
      PROVE  /\ answered'[p] \in cursor .. Len(buf)
             /\ \A s \in sends' : s[1] = p => SendEnd(s) <= answered'[p]
  <2>1. answered[p] \in cursor .. Len(buf) /\ answered'[p] \in answered[p] .. Len(buf)
    BY <1>1, Answering DEF SendsInv
  <2>2. ASSUME NEW s \in sends', s[1] = p  PROVE SendEnd(s) <= answered'[p]
    <3>1. CASE s \in sends
      <4>1. SendEnd(s) <= answered[p]
        BY <1>1, <2>2, <3>1 DEF SendsInv
      <4>2. SendEnd(s) \in Int
        BY <3>1, LenProperties DEF SendsInv, SendEnd
      <4> QED  BY <1>1, <2>1, <4>1, <4>2
    <3>2. CASE s \notin sends
      BY <1>1, <2>1, <2>2, <3>2, Answering
    <3> QED  BY <3>1, <3>2
  <2> QED  BY <1>1, <2>1, <2>2
<1>3. ASSUME NEW s \in sends', s \notin sends
      PROVE  /\ s \in Seq(Symbols) \X Nat /\ SendEnd(s) <= snap
             /\ call.answers # {}
  <2>1. s[1] \in call.answers /\ s = <<s[1], s[2]>>
    BY <1>3, AnswersOnlyPrompts
  <2>2. s[2] \in answered[s[1]] .. snap /\ SendEnd(s) <= snap
    BY <1>3, <2>1, Answering
  <2>3. s[1] \in Seq(Symbols) /\ answered[s[1]] \in Nat
    BY <1>1, <2>1, CallFacts DEF SendsInv
  <2> QED  BY SMTT(30), <2>1, <2>2, <2>3
<1>4. ASSUME NEW s \in sends'
      PROVE  /\ s \in Seq(Symbols) \X Nat /\ SendEnd(s) <= Len(buf)
             /\ Starts(call.needle, cursor, SendEnd(s)) = {}
             /\ call.answers = {} => SendEnd(s) <= cursor
  <2>1. CASE s \in sends
    BY <1>1, <2>1 DEF SendsInv
  <2>2. CASE s \notin sends
    <3>1. s \in Seq(Symbols) \X Nat /\ SendEnd(s) <= snap /\ call.answers # {}
      BY <1>3, <2>2
    <3>2. SendEnd(s) \in Nat
      BY <3>1, LenProperties DEF SendEnd
    <3>3. SendEnd(s) <= Len(buf)
      BY <1>1, <3>1, <3>2
    <3>4. ASSUME NEW q \in Starts(call.needle, cursor, SendEnd(s))  PROVE FALSE
      <4>1. q \in Starts(call.needle, cursor, snap)
        <5>1. Len(call.needle) \in Nat
          BY <1>1, CallFacts
        <5>2. /\ q \in cursor .. SendEnd(s) /\ q + Len(call.needle) <= SendEnd(s)
              /\ \A i \in 1 .. Len(call.needle) : buf[q + i] = call.needle[i]
          BY <3>4, StartsAt
        <5>3. q \in cursor .. snap /\ q + Len(call.needle) <= snap
          BY <1>1, <3>1, <3>2, <5>1, <5>2
        <5> QED  BY <5>2, <5>3, StartsAt
      <4> QED  BY <1>1, <4>1
    <3> QED  BY <3>1, <3>3, <3>4
  <2> QED  BY <2>1, <2>2
<1> QED  BY <1>1, <1>2, <1>4 DEF SendsInv, Starts, CS!Starts, CS!StandsAt, SendEnd

\* The answers sent, the cursor and the answers to come.
LEMMA SendsStep ==
  ASSUME IInv, [Next]_vars  PROVE SendsInv'
<1>0. /\ TypeOK /\ SendsInv /\ Len(buf) \in Nat
      /\ \A s \in sends : s \in Seq(Symbols) \X Nat /\ SendEnd(s) \in Nat /\ SendEnd(s) <= Len(buf)
  <2>1. /\ TypeOK /\ SendsInv /\ Len(buf) \in Nat
        /\ \A s \in sends : s \in Seq(Symbols) \X Nat /\ SendEnd(s) <= Len(buf)
    BY LenProperties DEF IInv, TypeOK, SendsInv
  <2>2. ASSUME NEW s \in Seq(Symbols) \X Nat  PROVE SendEnd(s) \in Nat
    BY LenProperties DEF SendEnd
  <2> QED  BY <2>1, <2>2
<1>1. CASE ReaderExtends
  <2>1. PICK c \in Symbols : buf' = Append(buf, c)
    BY <1>1 DEF ReaderExtends
  <2>2. UNCHANGED <<sends, pc, call, answered, cursor, result>> /\ buf \in Seq(Symbols)
    BY <1>0, <1>1 DEF ReaderExtends, GuestFrame, TypeOK
  <2>3. Len(buf') = Len(buf) + 1
    BY <2>1, <2>2, AppendProperties
  <2>4. \A s \in sends : Starts(call.needle, cursor, SendEnd(s))'
                           = Starts(call.needle, cursor, SendEnd(s))
    <3> SUFFICES ASSUME NEW s \in sends
                 PROVE  CS!Starts(buf', call.needle, cursor, SendEnd(s))
                          = CS!Starts(buf, call.needle, cursor, SendEnd(s))
      BY <2>2 DEF Starts
    <3>1. call.needle \in Seq(Symbols) /\ cursor \in Nat /\ SendEnd(s) \in 0 .. Len(buf)
      BY <1>0, CallFacts DEF TypeOK
    <3> QED  BY <2>1, <2>2, <3>1, AppendKeeps
  <2>5. \A p \in call.answers : pc # "idle" => answered[p] \in cursor .. Len(buf')
    BY <1>0, <2>3 DEF SendsInv, TypeOK
  <2>6. \A s \in sends : SendEnd(s) <= Len(buf')
    BY <1>0, <2>3
  <2> QED  BY <1>0, <2>2, <2>4, <2>5, <2>6 DEF SendsInv, MayBegin, SendEnd
<1>2. CASE /\ UNCHANGED <<buf, sends, call, cursor>>
           /\ pc # "idle" /\ (pc' # "idle" => answered' = answered)
           /\ pc' = "idle" => result' \in Errors
  <2>1. \A s \in sends : Starts(call.needle, cursor, SendEnd(s))'
                           = Starts(call.needle, cursor, SendEnd(s))
    BY <1>2 DEF Starts, CS!Starts, CS!StandsAt, SendEnd
  <2>2. pc' = "idle" => (MayBegin' => call.answers = {})
    BY <1>2 DEF MayBegin, Errors
  <2> QED  BY <1>0, <1>2, <2>1, <2>2 DEF SendsInv, SendEnd
<1>3. CASE GuestStops \/ Finished \/ UNCHANGED vars
  BY ZenonT(30), <1>0, <1>3 DEF GuestStops, GuestFrame, Finished, vars, SendsInv, MayBegin, SendEnd,
                    Starts, CS!Starts, CS!StandsAt
<1>4. CASE Begin
  <2>1. PICK c \in Calls : call' = c /\ answered' = [p \in c.answers |-> cursor]
    BY <1>4 DEF Begin
  <2>2. /\ pc = "idle" /\ MayBegin /\ pc' = "poll" /\ UNCHANGED <<buf, sends, cursor>>
    BY <1>4 DEF Begin, MayBegin, guestVars
  <2>3. \A s \in sends : SendEnd(s) <= cursor
    BY <1>0, <2>2 DEF SendsInv
  <2>4. Len(c.needle) \in Nat /\ Len(c.needle) >= 1 /\ cursor \in 0 .. Len(buf)
    BY <1>0, CallFacts DEF TypeOK
  <2>5. ASSUME NEW s \in sends  PROVE Starts(call.needle, cursor, SendEnd(s))' = {}
    <3> SUFFICES ASSUME NEW q, q \in CS!Starts(buf, c.needle, cursor, SendEnd(s))
                 PROVE  FALSE
      BY <2>1, <2>2 DEF Starts, SendEnd
    <3>1. q \in cursor .. SendEnd(s) /\ q + Len(c.needle) <= SendEnd(s)
      BY DEF CS!Starts, CS!StandsAt
    <3> QED  BY <1>0, <2>3, <2>4, <3>1
  <2>6. \A p \in c.answers : answered'[p] = cursor
    BY <2>1
  <2>7. ASSUME NEW p \in c.answers
        PROVE  /\ answered'[p] \in cursor .. Len(buf)
               /\ \A s \in sends : s[1] = p => SendEnd(s) <= answered'[p]
    BY <1>0, <2>3, <2>4, <2>6
  <2>8. \A s \in sends : s \in Seq(Symbols) \X Nat /\ SendEnd(s) <= Len(buf)
    BY <1>0
  <2>9. call' = c /\ pc' # "idle" /\ UNCHANGED <<buf, sends, cursor>>
    BY <2>1, <2>2
  <2> QED  BY <2>3, <2>5, <2>7, <2>8, <2>9 DEF SendsInv, SendEnd
<1>5. CASE Matches
  <2>1. PICK p \in cursor .. snap : /\ FoundAt(call.needle, cursor, snap, p)
                                    /\ cursor' = p + Len(call.needle)
    BY <1>5 DEF Matches, End
  <2>2. /\ pc = "search" /\ pc' = "idle" /\ UNCHANGED <<buf, sends, call>>
        /\ Len(call.needle) \in Nat /\ cursor \in Nat
    BY <1>0, <1>5, CallFacts DEF Matches, Raise, WaitFrame, guestVars, TypeOK
  <2>3. p \in Starts(call.needle, cursor, snap)
    BY <2>1 DEF FoundAt, CS!FoundAt, Starts
  <2>4. p \in Nat /\ \A i \in 1 .. Len(call.needle) : buf[p + i] = call.needle[i]
    BY <2>2, <2>3, StartsAt
  <2>5. ASSUME NEW s \in sends  PROVE SendEnd(s) <= cursor'
    <3>1. ~(p + Len(call.needle) <= SendEnd(s))
      <4> SUFFICES ASSUME p + Len(call.needle) <= SendEnd(s)  PROVE FALSE
        OBVIOUS
      <4>1. p \in cursor .. SendEnd(s)
        BY <1>0, <2>2, <2>4
      <4>2. p \in Starts(call.needle, cursor, SendEnd(s))
        BY <2>4, <4>1, StartsAt
      <4> QED  BY <1>0, <2>2, <4>2 DEF SendsInv
    <3> QED  BY <1>0, <2>1, <2>2, <2>4, <3>1
  <2> QED  BY <1>0, <2>2, <2>5 DEF SendsInv, SendEnd
<1>6. CASE Answers
  <2>1. CASE pc' = "alive"
    BY <1>6, <2>1, AnswersStep
  <2>2. CASE pc' # "alive"
    BY <1>2, <1>6, <2>2 DEF Answers, Raise, Goes, WaitFrame, guestVars, Errors
  <2> QED  BY <2>1, <2>2
<1>7. CASE Deadline
  BY <1>2, <1>7 DEF Deadline, Raise, Goes, WaitFrame, guestVars, Errors
<1>8. CASE Poll
  BY <1>2, <1>8 DEF Poll, Raise, Goes, WaitFrame, guestVars, Errors
<1>9. CASE SampleCpus
  BY <1>2, <1>9 DEF SampleCpus, Raise, Goes, WaitFrame, guestVars, Errors
<1>10. CASE Fails
  BY <1>2, <1>10 DEF Fails, Raise, WaitFrame, guestVars, Errors
<1>11. CASE CheckAlive
  BY <1>2, <1>11 DEF CheckAlive, Raise, Goes, WaitFrame, guestVars, Errors
<1>12. CASE Status
  BY <1>2, <1>12 DEF Status, Raise, Goes, WaitFrame, guestVars, Errors
<1> QED
  BY <1>1, <1>3, <1>4, <1>5, <1>6, <1>7, <1>8, <1>9, <1>10, <1>11, <1>12
  DEF Next, Guest, Wait

\* The inductive invariant holds at first and is preserved.
THEOREM Inductive == Spec => []IInv
<1>1. Init => IInv
  <2> SUFFICES ASSUME Init  PROVE IInv
    OBVIOUS
  <2>1. << >> \in Seq(Symbols) /\ Len(<< >>) = 0
    OBVIOUS
  <2>2. TypeOK
    <3>1. buf \in Seq(Symbols) /\ 0 \in 0 .. Len(buf)
      BY <2>1 DEF Init
    <3>2. cursor \in 0 .. Len(buf) /\ snap \in 0 .. Len(buf)
      BY <3>1 DEF Init
    <3> QED  BY <3>1, <3>2, TimeFacts DEF Init, TypeOK, NoAddress
  <2>3. SilenceInv /\ DeadlineInv /\ GoneInv /\ SendsInv
    BY <2>1, TimeFacts DEF Init, SilenceInv, DeadlineInv, GoneInv, GoneIsNoticed, SendsInv
  <2> QED  BY <2>2, <2>3 DEF IInv
<1>2. IInv /\ [Next]_vars => IInv'
  BY TypeStep, SilenceStep, DeadlineStep, SendsStep DEF IInv
<1> QED  BY <1>1, <1>2, PTL DEF Spec

-----------------------------------------------------------------------------
(* What expect promises.                                                   *)

\* Types: the cursor and the copy of a poll lie within the buffer.
THEOREM TypeCorrect == Spec => []TypeOK
<1>1. IInv => TypeOK
  BY DEF IInv
<1> QED  BY <1>1, Inductive, PTL

\* _check_alive looks at the process at every poll: one that had gone when the
\* poll began ends the wait in that poll.
THEOREM GoneNoticed == Spec => []GoneIsNoticed
<1>1. IInv => GoneIsNoticed
  BY DEF IInv, GoneInv
<1> QED  BY <1>1, Inductive, PTL

\* A wait overruns its timeout by two QMP commands at most, whatever the guest
\* prints.
THEOREM TimeoutBounds == Spec => []EndsByDeadline
<1>1. IInv => EndsByDeadline
  <2> SUFFICES ASSUME IInv, pc # "idle"  PROVE now <= deadline + 2 * QmpTime
    BY DEF EndsByDeadline
  <2> QED  BY TimeFacts DEF IInv, TypeOK, DeadlineInv
<1> QED  BY <1>1, Inductive, PTL

\* Expect implements ConsoleStream: expect's matches consume the console in
\* order and up to the first appearance of each needle, and nothing else moves
\* the cursor, although a poll only sees the buffer as it was when it began.
THEOREM Refinement == Spec => ConsumesInOrder
<1>1. Init => CS!Init
  BY DEF Init, CS!Init
<1>2. IInv /\ [Next]_vars => [CS!Next]_(CS!vars)
  <2> SUFFICES ASSUME IInv, [Next]_vars  PROVE CS!Next \/ UNCHANGED <<buf, cursor>>
    BY DEF CS!vars
  <2>1. CASE ReaderExtends
    BY <2>1 DEF ReaderExtends, GuestFrame, CS!Next, CS!Prints
  <2>2. CASE Matches
    <3>1. PICK p \in cursor .. snap : /\ FoundAt(call.needle, cursor, snap, p)
                                      /\ cursor' = p + Len(call.needle)
      BY <2>2 DEF Matches, End
    <3>2. /\ buf' = buf /\ call.needle \in Needles /\ Len(call.needle) \in Nat
          /\ cursor \in Nat /\ snap \in Nat /\ Len(buf) \in Nat /\ snap <= Len(buf)
      BY <2>2, CallFacts, LenProperties DEF Matches, WaitFrame, guestVars, Needles, IInv, TypeOK
    <3>3. /\ p \in Starts(call.needle, cursor, snap)
          /\ \A b \in Starts(call.needle, cursor, snap) : p <= b
      BY <3>1 DEF FoundAt, CS!FoundAt, Starts
    <3>4. /\ p \in cursor .. snap /\ p + Len(call.needle) <= snap
          /\ \A i \in 1 .. Len(call.needle) : buf[p + i] = call.needle[i]
      BY SMTT(30), <3>3, StartsAt
    <3>5. p \in 0 .. Len(buf) /\ p \in cursor .. Len(buf) /\ p + Len(call.needle) <= Len(buf)
      BY <3>2, <3>4
    <3>6. p \in Starts(call.needle, cursor, Len(buf))
      BY <3>4, <3>5, StartsAt
    <3>7. ASSUME NEW b \in Starts(call.needle, cursor, Len(buf)), b < p  PROVE FALSE
      <4>1. /\ b \in cursor .. Len(buf)
            /\ \A i \in 1 .. Len(call.needle) : buf[b + i] = call.needle[i]
        BY <3>7, StartsAt
      <4>2. b \in cursor .. snap /\ b + Len(call.needle) <= snap
        BY <3>2, <3>4, <3>7, <4>1
      <4>3. b \in Starts(call.needle, cursor, snap)
        BY <4>1, <4>2, StartsAt
      <4> QED  BY <3>2, <3>3, <3>4, <3>7, <4>2, <4>3
    <3>8. \A b \in Starts(call.needle, cursor, Len(buf)) : p <= b
      <4> SUFFICES ASSUME NEW b \in Starts(call.needle, cursor, Len(buf))  PROVE p <= b
        OBVIOUS
      <4>1. b \in Int /\ p \in Int
        BY <3>2, <3>5, StartsAt
      <4> QED  BY <3>7, <4>1
    <3>9. CS!FoundAt(buf, call.needle, cursor, Len(buf), p)
      BY <3>6, <3>8 DEF CS!FoundAt, Starts
    <3> QED  BY <3>1, <3>2, <3>5, <3>9 DEF CS!Next, CS!Match
  <2>3. CASE UNCHANGED vars \/ Finished
    BY <2>3 DEF vars, Finished
  <2>4. CASE Begin \/ GuestStops
    BY <2>4 DEF Begin, GuestStops, GuestFrame, guestVars
  <2>5. CASE Poll \/ SampleCpus \/ Fails \/ Answers \/ CheckAlive \/ Status \/ Deadline
    BY <2>5 DEF Poll, SampleCpus, Fails, Answers, CheckAlive, Status, Deadline, WaitFrame, guestVars
  <2> QED  BY <2>1, <2>2, <2>3, <2>4, <2>5 DEF Next, Guest, Wait
<1> QED  BY <1>1, <1>2, Inductive, PTL DEF Spec, ConsumesInOrder, CS!Spec

\* Idle silence alone makes expect call a guest hung: nothing reached the buffer
\* for that long.
THEOREM HungIsSilent == Spec => HungMeansSilent
<1>1. IInv /\ [Next]_vars =>
        [(pc = "poll" /\ result' = "GuestHung") => heardAt <= now - Idle]_vars
  <2> SUFFICES ASSUME IInv, [Next]_vars, pc = "poll", result' = "GuestHung"
               PROVE  heardAt <= now - Idle
    OBVIOUS
  <2>1. result = "none"
    BY DEF IInv, SilenceInv
  <2>2. Poll
    BY <2>1 DEF Next, Guest, Wait, Finished, ReaderExtends, GuestStops, GuestFrame, Begin, SampleCpus,
           Matches, Fails, Answers, CheckAlive, Status, Deadline, vars
  <2>3. ~Grown /\ now - lastSeen >= Idle
    BY <2>1, <2>2, SMTT(30) DEF Poll, Goes, Raise, Silence
  <2>4. Len(buf) \in Nat
    BY LenProperties DEF IInv, TypeOK
  <2>5. heardAt <= lastSeen
    BY <2>3, <2>4 DEF Grown, IInv, TypeOK, SilenceInv
  <2> QED  BY <2>3, <2>5, TimeFacts DEF IInv, TypeOK
<1> QED  BY <1>1, Inductive, PTL DEF Spec, HungMeansSilent

\* A spinning CPU makes expect call a guest hung only after STUCK_FOR, and the
\* console was silent since that address was first sampled.
THEOREM StuckIsSilent == Spec => StuckMeansSilent
<1>1. IInv /\ [Next]_vars =>
        [(pc = "sample" /\ result' = "GuestHung") =>
            (Len(buf) = snap => heardAt <= stuckSince) /\ now - stuckSince >= StuckFor]_vars
  <2> SUFFICES ASSUME IInv, [Next]_vars, pc = "sample", result' = "GuestHung"
               PROVE  (Len(buf) = snap => heardAt <= stuckSince) /\ now - stuckSince >= StuckFor
    OBVIOUS
  <2>1. result = "none"
    BY DEF IInv, SilenceInv
  <2>2. SampleCpus
    BY <2>1 DEF Next, Guest, Wait, Finished, ReaderExtends, GuestStops, GuestFrame, Begin, Poll,
           Matches, Fails, Answers, CheckAlive, Status, Deadline, vars
  <2>3. stuck # NoAddress /\ now - stuckSince >= StuckFor
    BY <2>1, <2>2 DEF SampleCpus, Goes, Raise
  <2> QED  BY <2>3 DEF IInv, SilenceInv
<1> QED  BY <1>1, Inductive, PTL DEF Spec, StuckMeansSilent

\* No appearance of a prompt is answered twice, in one wait or from one to the
\* next: each prompt's own cursor passes what was answered, and the console's
\* passes it before the next wait begins.
THEOREM NoSecondAnswer == Spec => AnsweredOnce
<1>1. IInv /\ [Next]_vars =>
        [(pc = "search" /\ pc' = "alive") =>
            \A p \in Pending : \A q \in NextAnswer(p), s \in sends :
              s[1] = p => Apart(p, q, s[2])]_vars
  <2> SUFFICES ASSUME IInv, pc = "search", NEW p \in Pending, NEW q \in NextAnswer(p),
                      NEW s \in sends, s[1] = p
               PROVE  Apart(p, q, s[2])
    OBVIOUS
  <2>1. p \in call.answers
    BY DEF Pending
  <2>2. answered[p] \in Int /\ SendEnd(s) <= answered[p]
    BY <2>1, LenProperties DEF IInv, SendsInv, TypeOK
  <2>3. q \in Int /\ answered[p] <= q
    BY <2>2, NextIsFirst, StartsAt DEF IInv
  <2>4. s[2] \in Nat /\ Len(p) \in Nat
    BY LenProperties DEF IInv, SendsInv
  <2>5. s[2] + Len(p) <= q
    BY <2>2, <2>3, <2>4 DEF SendEnd
  <2> QED  BY <2>5 DEF Apart
<1> QED  BY <1>1, Inductive, PTL DEF Spec, AnsweredOnce

-----------------------------------------------------------------------------
(* Prompts: none is skipped, and none is left when the silence has lasted.  *)

\* An answer to this appearance of the prompt, or to one it overlaps, was sent.
Covered(p, q) == \E s \in sends : s[1] = p /\ ~Apart(p, q, s[2])

\* Where answers are no longer looked for there was no prompt, or it was
\* answered.
SkipInv ==
  pc # "idle" =>
    \A p \in call.answers : \A q \in Nat :
      cursor <= q /\ q < answered[p] =>
        \/ Covered(p, q)
        \/ q + Len(p) <= Len(buf) /\ \E i \in 1 .. Len(p) : buf[q + i] # p[i]

\* A prompt is there that is to be answered in what the last poll read.
Left(p) == Starts(p, answered[p], cursor + seen) # {}

\* The time a poll takes, with its sleep, and how far the answers have got.
PollTime   == 1 + 2 * QmpTime
Reached(p) == PollTime * (answered[p] - cursor)

\* As long as a prompt is left, every poll answers one: the silence is no longer
\* than the polls that took.
CountInv ==
  /\ Len(buf) <= MaxText
  /\ pc \in {"sample", "search", "alive", "status", "deadline"} => snap = cursor + seen
  /\ pc = "poll" => snap = cursor + seen \/ now = lastSeen
  /\ pc # "idle" => \A p \in call.answers : Left(p) =>
       /\ pc \in {"poll", "sample"} => now - lastSeen <= Reached(p)
       /\ pc = "search" => now - lastSeen <= Reached(p) + QmpTime
       /\ pc \in {"alive", "status"} => now - lastSeen + PollTime <= Reached(p) + QmpTime
       /\ pc = "deadline" => now - lastSeen + 1 <= Reached(p)

PromptInv == SkipInv /\ CountInv
\* A set of positions has a first one.
LEMMA FirstOf ==
  ASSUME NEW S, S \subseteq Nat, S # {}
  PROVE  \E q \in S : \A b \in S : q <= b
<1> DEFINE R == OpToRel(<, Nat)
<1>1. IsWellFoundedOn(R, Nat)
  BY NatLessThanWellFounded
<1>2. \A x, y \in Nat : <<y, x>> \in R <=> y < x
  BY DEF OpToRel
<1> HIDE DEF R
<1>3. \E q \in S : \A b \in S : ~(<<b, q>> \in R)
  BY <1>1, WFMin
<1>4. PICK q \in S : \A b \in S : ~(<<b, q>> \in R)
  BY <1>3
<1>5. \A b \in S : ~(b < q) /\ b \in Nat /\ q \in Nat
  BY <1>2, <1>4
<1>6. \A b \in S : q <= b
  BY <1>5
<1> QED  BY <1>6

\* The time of one more poll.
LEMMA OneMorePoll ==
  ASSUME NEW a \in Int, NEW b \in Int
  PROVE  /\ PollTime \in Nat /\ PollTime >= 1 + 2 * QmpTime
         /\ PollTime * a \in Int
         /\ b >= a => PollTime * b >= PollTime * a
         /\ b >= a + 1 => PollTime * b >= PollTime * a + PollTime
<1>1. PollTime \in Nat /\ PollTime = 1 + 2 * QmpTime
  BY TimeFacts DEF PollTime
<1> DEFINE k == PollTime
<1> HIDE DEF k
<1>2. k \in Nat
  BY <1>1 DEF k
<1>3. \A d \in Nat : k * d \in Nat
  BY <1>2
<1>4. b - a \in Int /\ k * b = k * a + k * (b - a)
  BY <1>2
<1>5. b >= a => k * b >= k * a
  BY <1>2, <1>3, <1>4
<1>6. b >= a + 1 => k * b >= k * a + k
  <2> SUFFICES ASSUME b >= a + 1  PROVE k * b >= k * a + k
    OBVIOUS
  <2>1. b - a - 1 \in Nat /\ k * (b - a) = k * (b - a - 1) + k
    BY <1>2
  <2> QED  BY <1>2, <1>3, <1>4, <2>1
<1> QED  BY <1>1, <1>2, <1>5, <1>6 DEF k
\* A pending prompt is answered where it is first, and the next looked for behind.
LEMMA AnswerSent ==
  ASSUME IInv, Answers, pc' = "alive", NEW p \in call.answers
  PROVE  \/ p \in Pending /\ \E q \in Starts(p, answered[p], snap) :
              /\ \A b \in Starts(p, answered[p], snap) : q <= b
              /\ <<p, q>> \in sends' /\ answered'[p] = q + Len(p)
         \/ p \notin Pending /\ answered'[p] = answered[p]
<1> USE DEF IInv, TypeOK
<1>1. /\ answered' = [r \in call.answers |->
                        IF r \in Pending THEN PastAnswer(r, CHOOSE q \in NextAnswer(r) : TRUE)
                        ELSE answered[r]]
      /\ sends' = sends \cup UNION {{<<r, q>> : q \in NextAnswer(r)} : r \in Pending}
  BY DEF Answers, Raise, Goes
<1>2. CASE p \in Pending
  <2>1. PICK q \in NextAnswer(p) : q = CHOOSE x \in NextAnswer(p) : TRUE
    BY <1>2 DEF Pending
  <2>2. answered'[p] = q + Len(p)
    BY <1>1, <1>2, <2>1 DEF PastAnswer
  <2>3. <<p, q>> \in sends'
    BY <1>1, <1>2
  <2> QED  BY <1>2, <2>2, <2>3, NextIsFirst
<1>3. CASE p \notin Pending
  BY <1>1, <1>3
<1> QED  BY <1>2, <1>3

\* A prompt that is there is answered.
LEMMA PendingIfLeft ==
  ASSUME IInv, pc = "search", NEW p \in call.answers, Starts(p, answered[p], snap) # {}
  PROVE  p \in Pending
<1>1. answered[p] \in Nat
  BY LenProperties DEF IInv, TypeOK, SendsInv
<1>2. Starts(p, answered[p], snap) \subseteq Nat
  BY <1>1, StartsAt DEF IInv, TypeOK
<1>3. PICK q \in Starts(p, answered[p], snap) :
        \A b \in Starts(p, answered[p], snap) : q <= b
  BY <1>2, FirstOf
<1>4. q \in answered[p] .. snap
  BY <1>3, StartsAt
<1>5. q \in NextAnswer(p)
  BY <1>3, <1>4 DEF NextAnswer, FoundAt, CS!FoundAt, Starts
<1> QED  BY <1>5 DEF Pending

\* No prompt is skipped, in text that grows as the answers are sent.
LEMMA SkipStep ==
  ASSUME IInv, SkipInv, [Next]_vars  PROVE SkipInv'
<1>0. TypeOK /\ Len(buf) \in Nat /\ TypeOK'
  BY LenProperties, TypeStep DEF IInv, TypeOK
<1>1. CASE ReaderExtends
  <2>1. PICK c \in Symbols : buf' = Append(buf, c)
    BY <1>1 DEF ReaderExtends
  <2>2. UNCHANGED <<sends, pc, call, answered, cursor>> /\ buf \in Seq(Symbols)
    BY <1>0, <1>1 DEF ReaderExtends, GuestFrame, TypeOK
  <2>3. Len(buf') = Len(buf) + 1 /\ \A i \in 1 .. Len(buf) : buf'[i] = buf[i]
    BY <2>1, <2>2, AppendProperties
  <2> SUFFICES ASSUME pc # "idle", NEW p \in call.answers, NEW q \in Nat,
                      cursor <= q, q < answered[p], ~Covered(p, q)
               PROVE  q + Len(p) <= Len(buf') /\ \E i \in 1 .. Len(p) : buf'[q + i] # p[i]
    BY <2>2 DEF SkipInv, Covered
  <2>4. Len(p) \in Nat
    BY <1>0, CallFacts DEF TypeOK
  <2>5. PICK i \in 1 .. Len(p) : q + Len(p) <= Len(buf) /\ buf[q + i] # p[i]
    BY DEF SkipInv
  <2>6. q + i \in 1 .. Len(buf)
    BY <1>0, <2>4, <2>5
  <2> QED  BY <1>0, <2>3, <2>4, <2>5, <2>6
<1>2. CASE /\ UNCHANGED <<buf, sends>>
           /\ pc' # "idle" => pc # "idle" /\ UNCHANGED <<call, cursor, answered>>
  BY <1>2 DEF SkipInv, Covered
<1>3. CASE GuestStops \/ Finished \/ UNCHANGED vars
  BY <1>2, <1>3 DEF GuestStops, GuestFrame, Finished, vars
<1>4. CASE Begin
  <2>1. PICK c \in Calls : call' = c /\ answered' = [p \in c.answers |-> cursor]
    BY <1>4 DEF Begin
  <2>2. cursor' = cursor /\ cursor \in Nat
    BY <1>0, <1>4 DEF Begin, TypeOK
  <2> QED  BY <2>1, <2>2 DEF SkipInv
<1>5. CASE Answers /\ pc' = "alive"
  <2>1. pc = "search" /\ UNCHANGED <<buf, call, cursor>> /\ sends \subseteq sends'
    BY <1>5 DEF Answers, WaitFrame, guestVars
  <2> SUFFICES ASSUME NEW p \in call.answers, NEW q \in Nat, cursor <= q, q < answered'[p],
                      ~(\E s \in sends' : s[1] = p /\ ~Apart(p, q, s[2]))
               PROVE  q + Len(p) <= Len(buf) /\ \E i \in 1 .. Len(p) : buf[q + i] # p[i]
    BY <2>1 DEF SkipInv, Covered
  <2>2. Len(p) \in Nat /\ Len(p) >= 1 /\ answered[p] \in Nat /\ snap \in 0 .. Len(buf)
    <3>1. call \in Calls /\ snap \in 0 .. Len(buf) /\ cursor \in Nat
      BY <1>0 DEF TypeOK
    <3>2. answered[p] \in cursor .. Len(buf)
      BY <2>1 DEF IInv, SendsInv
    <3> QED  BY <1>0, <3>1, <3>2, CallFacts
  <2>3. CASE q < answered[p]
    BY <2>1, <2>3 DEF SkipInv, Covered
  <2>4. CASE q >= answered[p]
    <3>1. PICK r \in Starts(p, answered[p], snap) :
               /\ \A b \in Starts(p, answered[p], snap) : r <= b
               /\ <<p, r>> \in sends' /\ answered'[p] = r + Len(p)
      <4>1. p \in Pending
        BY <1>5, <2>2, <2>4, AnswerSent
      <4> QED  BY <1>5, <4>1, AnswerSent
    <3>2. r \in answered[p] .. snap /\ r + Len(p) <= snap
      BY <3>1, StartsAt
    <3>3. Apart(p, q, r)
      BY <3>1
    <3>4. q < r /\ q \in answered[p] .. snap /\ q + Len(p) <= snap
      BY <2>2, <2>4, <3>1, <3>2, <3>3 DEF Apart
    <3>5. q \notin Starts(p, answered[p], snap)
      BY <2>2, <3>1, <3>2, <3>4
    <3> QED  BY SMTT(30), <1>0, <2>2, <3>4, <3>5, StartsAt
  <2> QED  BY <2>2, <2>3, <2>4
<1>6. CASE Matches \/ Fails
  BY <1>2, <1>6 DEF Matches, Fails, Raise, WaitFrame, guestVars
<1>7. CASE Answers /\ pc' # "alive"
  BY <1>2, <1>7 DEF Answers, Raise, Goes, WaitFrame, guestVars
<1>8. CASE Poll \/ SampleCpus
  BY <1>2, <1>8 DEF Poll, SampleCpus, Raise, Goes, WaitFrame, guestVars
<1>9. CASE CheckAlive \/ Status \/ Deadline
  BY <1>2, <1>9 DEF CheckAlive, Status, Deadline, Raise, Goes, WaitFrame, guestVars
<1> QED
  BY <1>1, <1>3, <1>4, <1>5, <1>6, <1>7, <1>8, <1>9 DEF Next, Guest, Wait

\* The prompts left and the length of the silence.
LEMMA CountStep ==
  ASSUME IInv, CountInv, [Next]_vars  PROVE CountInv'
<1>0. /\ TypeOK /\ SilenceInv /\ Len(buf) \in Nat /\ QmpTime \in Nat /\ PollTime \in Nat
      /\ PollTime >= 1 + 2 * QmpTime
      /\ pc # "idle" => \A p \in call.answers :
           answered[p] \in cursor .. Len(buf) /\ Len(p) \in Nat /\ Len(p) >= 1 /\ p \in Seq(Symbols)
  BY LenProperties, TimeFacts, CallFacts DEF IInv, TypeOK, SendsInv, PollTime
<1>1. CASE ReaderExtends
  <2>1. PICK c \in Symbols : buf' = Append(buf, c)
    BY <1>1 DEF ReaderExtends
  <2>2. /\ UNCHANGED <<now, pc, call, answered, cursor, snap, seen, lastSeen>>
        /\ buf \in Seq(Symbols) /\ Len(buf) < MaxText /\ MaxText \in Nat
    BY <1>0, <1>1, TimesAssumption DEF ReaderExtends, GuestFrame, TypeOK, localVars
  <2>3. Len(buf') = Len(buf) + 1
    BY <2>1, <2>2, AppendProperties
  <2>4. ASSUME pc # "idle", NEW p \in call.answers  PROVE (Left(p))' = Left(p)
    <3>1. cursor + seen \in 0 .. Len(buf) /\ answered[p] \in Nat
      BY <1>0, <2>4 DEF TypeOK, SilenceInv
    <3>2. CS!Starts(buf', p, answered[p], cursor + seen)
            = CS!Starts(buf, p, answered[p], cursor + seen)
      BY <1>0, <2>1, <2>2, <2>4, <3>1, AppendKeeps
    <3> QED  BY <2>2, <3>2 DEF Left, Starts
  <2>5. Len(buf') <= MaxText
    BY <1>0, <2>2, <2>3
  <2> QED  BY <2>2, <2>4, <2>5 DEF CountInv, Reached
<1>2. ASSUME UNCHANGED <<buf, answered, cursor, seen>>, NEW p
      PROVE  (Left(p))' = Left(p) /\ (Reached(p))' = Reached(p)
  BY <1>2 DEF Left, Starts, CS!Starts, CS!StandsAt, Reached
<1>3. ASSUME pc # "idle", NEW p \in call.answers  PROVE Reached(p) \in Int
  BY <1>0, <1>3, OneMorePoll DEF Reached, TypeOK
<1>4. CASE GuestStops \/ Finished \/ UNCHANGED vars
  BY <1>4 DEF GuestStops, GuestFrame, localVars, Finished, vars, CountInv, Left, Starts, CS!Starts,
              CS!StandsAt, Reached
<1>5. CASE Begin
  <2>1. PICK c \in Calls : call' = c /\ answered' = [p \in c.answers |-> cursor]
    BY <1>5 DEF Begin
  <2>2. pc' = "poll" /\ seen' = 0 /\ lastSeen' = now /\ UNCHANGED <<buf, now, cursor>>
    BY <1>5 DEF Begin, guestVars
  <2>3. ASSUME NEW p \in c.answers  PROVE ~(Left(p))'
    <3> SUFFICES ASSUME NEW q, q \in CS!Starts(buf, p, cursor, cursor + 0)  PROVE FALSE
      BY <2>1, <2>2, <2>3 DEF Left, Starts
    <3>1. q \in cursor .. cursor + 0 /\ q + Len(p) <= cursor + 0
      BY DEF CS!Starts, CS!StandsAt
    <3> QED  BY <1>0, <2>3, <3>1, CallFacts DEF TypeOK
  <2> QED  BY <2>1, <2>2, <2>3 DEF CountInv
<1>6. CASE Poll
  <2>1. pc = "poll" /\ UNCHANGED <<buf, now, cursor, call, answered>> /\ snap' = Len(buf)
    BY <1>6 DEF Poll, WaitFrame, guestVars
  <2>2. CASE ~Grown
    <3>1. UNCHANGED <<seen, lastSeen>> /\ cursor + seen = Len(buf)
      BY <1>0, <1>6, <2>2, SMTT(30) DEF Poll, Grown, TypeOK
    <3>2. pc' \in {"idle", "sample", "search"}
      BY <1>6, SMTT(30) DEF Poll, Raise, Goes
    <3>3. ASSUME NEW p \in call.answers, Left(p)
          PROVE  now - lastSeen <= Reached(p) /\ Reached(p) \in Int
      BY <1>3, <2>1, <3>3 DEF CountInv
    <3>4. ASSUME NEW p \in call.answers, Left(p)
          PROVE  now - lastSeen <= Reached(p) + QmpTime
      BY <1>0, <3>3, <3>4 DEF TypeOK
    <3>5. \A p : (Left(p))' = Left(p) /\ (Reached(p))' = Reached(p)
      BY <1>2, <2>1, <3>1
    <3> QED  BY <2>1, <3>1, <3>2, <3>3, <3>4, <3>5 DEF CountInv
  <2>3. CASE Grown
    <3>1. seen' = Len(buf) - cursor /\ lastSeen' = now /\ pc' = "search"
      BY <1>6, <2>3, SMTT(30) DEF Poll, Goes
    <3>2. cursor' + seen' = Len(buf)
      BY <1>0, <2>1, <3>1 DEF TypeOK
    <3>3. ASSUME NEW p \in call.answers
          PROVE  now' - lastSeen' <= (Reached(p))' + QmpTime
      <4>1. (Reached(p))' = Reached(p)
        BY <2>1 DEF Reached
      <4>2. answered[p] - cursor \in Nat
        BY <1>0, <2>1 DEF TypeOK
      <4>3. Reached(p) >= PollTime * 0
        BY <4>2, OneMorePoll DEF Reached
      <4>4. PollTime * 0 = 0
        BY <1>0
      <4>5. now' - lastSeen' = 0
        BY <1>0, <2>1, <3>1 DEF TypeOK
      <4> QED  BY <1>0, <1>3, <2>1, <4>1, <4>3, <4>4, <4>5
    <3> QED  BY <2>1, <3>1, <3>2, <3>3 DEF CountInv
  <2> QED  BY <2>2, <2>3
<1>7. CASE SampleCpus
  <2>1. /\ pc = "sample" /\ pc' \in {"idle", "search"} /\ now' \in now .. now + QmpTime
        /\ UNCHANGED <<buf, call, cursor, snap, seen, lastSeen, answered>>
    BY <1>7 DEF SampleCpus, Raise, Goes, WaitFrame, guestVars, TimePasses
  <2>2. ASSUME NEW p \in call.answers, Left(p)
        PROVE  now' - lastSeen <= Reached(p) + QmpTime
    <3>1. now - lastSeen <= Reached(p) /\ Reached(p) \in Int
      BY <1>3, <2>1, <2>2 DEF CountInv
    <3> QED  BY <1>0, <2>1, <3>1 DEF TypeOK
  <2>3. \A p : (Left(p))' = Left(p) /\ (Reached(p))' = Reached(p)
    BY <1>2, <2>1
  <2> QED  BY <2>1, <2>2, <2>3 DEF CountInv
<1>8. CASE Matches \/ Fails
  BY <1>8 DEF Matches, Fails, Raise, WaitFrame, guestVars, CountInv
<1>9. CASE Answers
  <2>1. /\ pc = "search" /\ pc' \in {"idle", "alive"}
        /\ UNCHANGED <<buf, now, call, cursor, snap, seen, lastSeen>>
    BY <1>9 DEF Answers, Raise, Goes, WaitFrame, guestVars, localVars
  <2>2. snap = cursor + seen
    BY <2>1 DEF CountInv
  <2>3. ASSUME pc' = "alive", NEW p \in call.answers, (Left(p))'
        PROVE  now - lastSeen + PollTime <= (Reached(p))' + QmpTime
    <3>1. answered'[p] \in Int /\ answered'[p] >= answered[p] /\ answered[p] \in Nat
      BY <1>0, <1>9, <2>1, <2>3, Answering DEF TypeOK
    <3>2. PICK q \in CS!Starts(buf, p, answered'[p], cursor + seen) : TRUE
      BY <2>1, <2>3 DEF Left, Starts
    <3>3. q \in CS!Starts(buf, p, answered[p], cursor + seen)
      BY <1>0, <3>1, <3>2 DEF CS!Starts, TypeOK
    <3>4. Left(p) /\ Starts(p, answered[p], snap) # {}
      BY <2>2, <3>3 DEF Left, Starts
    <3>5. p \in Pending
      BY <2>1, <3>4, PendingIfLeft
    <3>6. PICK r \in Starts(p, answered[p], snap) : answered'[p] = r + Len(p)
      BY <1>9, <2>3, <3>5, AnswerSent
    <3>7. r \in answered[p] .. snap
      BY <3>6, StartsAt
    <3>8. answered'[p] >= answered[p] + 1
      BY <1>0, <2>1, <3>1, <3>6, <3>7 DEF TypeOK
    <3>9. (Reached(p))' >= Reached(p) + PollTime /\ (Reached(p))' \in Int
      <4>1. /\ answered'[p] - cursor \in Int /\ answered[p] - cursor \in Int
            /\ answered'[p] - cursor >= answered[p] - cursor + 1
        BY <1>0, <3>1, <3>8 DEF TypeOK
      <4>2. (Reached(p))' = PollTime * (answered'[p] - cursor)
        BY <2>1 DEF Reached, PollTime
      <4> QED  BY <4>1, <4>2, OneMorePoll DEF Reached
    <3>10. now - lastSeen <= Reached(p) + QmpTime /\ Reached(p) \in Int
      BY <1>3, <2>1, <3>4 DEF CountInv
    <3> QED  BY <1>0, <3>9, <3>10 DEF TypeOK
  <2> QED  BY <2>1, <2>2, <2>3 DEF CountInv, PollTime
<1>10. CASE CheckAlive
  <2>1. /\ pc = "alive" /\ pc' \in {"idle", "status", "deadline"}
        /\ UNCHANGED <<buf, now, call, cursor, snap, seen, lastSeen, answered>>
    BY <1>10 DEF CheckAlive, Raise, Goes, WaitFrame, guestVars, localVars
  <2>2. ASSUME NEW p \in call.answers, Left(p)
        PROVE  /\ now - lastSeen + PollTime <= Reached(p) + QmpTime
               /\ now - lastSeen + 1 <= Reached(p)
    <3>1. now - lastSeen + PollTime <= Reached(p) + QmpTime /\ Reached(p) \in Int
      BY <1>3, <2>1, <2>2 DEF CountInv
    <3> QED  BY <1>0, <3>1 DEF TypeOK
  <2>3. \A p : (Left(p))' = Left(p) /\ (Reached(p))' = Reached(p)
    BY <1>2, <2>1
  <2> QED  BY <2>1, <2>2, <2>3 DEF CountInv, PollTime
<1>11. CASE Status
  <2>1. /\ pc = "status" /\ pc' \in {"idle", "deadline"} /\ now' \in now .. now + QmpTime
        /\ UNCHANGED <<buf, call, cursor, snap, seen, lastSeen, answered>>
    BY <1>11 DEF Status, Raise, Goes, WaitFrame, guestVars, localVars, TimePasses
  <2>2. ASSUME NEW p \in call.answers, Left(p)
        PROVE  now' - lastSeen + 1 <= Reached(p)
    <3>1. now - lastSeen + PollTime <= Reached(p) + QmpTime /\ Reached(p) \in Int
      BY <1>3, <2>1, <2>2 DEF CountInv
    <3> QED  BY <1>0, <2>1, <3>1 DEF TypeOK
  <2>3. \A p : (Left(p))' = Left(p) /\ (Reached(p))' = Reached(p)
    BY <1>2, <2>1
  <2> QED  BY <2>1, <2>2, <2>3 DEF CountInv
<1>12. CASE Deadline
  <2>1. /\ pc = "deadline" /\ pc' \in {"idle", "poll"} /\ (pc' = "poll" => now' = now + 1)
        /\ UNCHANGED <<buf, call, cursor, snap, seen, lastSeen, answered>>
    BY <1>12 DEF Deadline, Raise, Goes, WaitFrame, guestVars, localVars
  <2>2. ASSUME pc' = "poll", NEW p \in call.answers, Left(p)
        PROVE  now' - lastSeen <= Reached(p)
    <3>1. now - lastSeen + 1 <= Reached(p) /\ Reached(p) \in Int
      BY <1>3, <2>1, <2>2 DEF CountInv
    <3> QED  BY <1>0, <2>1, <2>2, <3>1 DEF TypeOK
  <2>3. \A p : (Left(p))' = Left(p) /\ (Reached(p))' = Reached(p)
    BY <1>2, <2>1
  <2> QED  BY <2>1, <2>2, <2>3 DEF CountInv
<1> QED
  BY <1>1, <1>4, <1>5, <1>6, <1>7, <1>8, <1>9, <1>10, <1>11, <1>12 DEF Next, Guest, Wait

\* At a poll that finds the silence long enough, no prompt is left.
LEMMA NoneLeft ==
  ASSUME MaxText * PollTime < Idle, IInv, PromptInv, pc = "poll", NEW p \in call.answers,
         ~Grown, now - lastSeen >= Idle
  PROVE  ~Unanswered(p)
<1>1. /\ TypeOK /\ Len(buf) \in Nat /\ answered[p] \in cursor .. Len(buf) /\ Len(buf) <= MaxText
      /\ MaxText \in Nat /\ PollTime \in Nat /\ Idle \in Nat /\ cursor \in Nat
  BY LenProperties, TimesAssumption, TimeFacts
  DEF IInv, TypeOK, SendsInv, PromptInv, CountInv, PollTime
<1>2. ~Left(p)
  <2> SUFFICES ASSUME Left(p)  PROVE FALSE
    OBVIOUS
  <2>1. now - lastSeen <= Reached(p)
    BY DEF PromptInv, CountInv
  <2>2. Reached(p) <= PollTime * MaxText /\ Reached(p) \in Int /\ PollTime * MaxText \in Int
    BY <1>1, OneMorePoll DEF Reached
  <2>3. PollTime * MaxText = MaxText * PollTime
    BY <1>1
  <2> QED  BY <1>1, <2>1, <2>2, <2>3 DEF TypeOK
<1>3. snap = cursor + seen
  <2>1. MaxText * PollTime >= 0 /\ MaxText * PollTime \in Int
    BY <1>1
  <2>2. now # lastSeen
    BY <1>1, <2>1 DEF TypeOK
  <2> QED  BY <2>2 DEF PromptInv, CountInv
<1>4. SUFFICES ASSUME NEW q \in Starts(p, cursor, snap),
                      \A s \in sends : s[1] = p => Apart(p, q, s[2])
               PROVE  FALSE
  BY DEF Unanswered
<1>5. /\ q \in cursor .. snap /\ q + Len(p) <= snap
      /\ \A i \in 1 .. Len(p) : buf[q + i] = p[i]
  BY StartsAt
<1>6. ~(answered[p] <= q)
  <2> SUFFICES ASSUME answered[p] <= q  PROVE FALSE
    OBVIOUS
  <2>1. q \in answered[p] .. snap
    BY <1>1, <1>5 DEF TypeOK
  <2>2. q \in Starts(p, answered[p], snap)
    BY <1>5, <2>1, StartsAt
  <2> QED  BY <1>2, <1>3, <2>2 DEF Left
<1>7. q \in Nat /\ cursor <= q /\ q < answered[p]
  BY <1>1, <1>5, <1>6 DEF TypeOK
<1> QED  BY <1>4, <1>5, <1>7 DEF PromptInv, SkipInv, Covered

\* SkipInv and CountInv hold at first and are preserved.
THEOREM PromptsInductive == Spec => []PromptInv
<1>1. Init => PromptInv
  <2>1. Len(<< >>) = 0
    OBVIOUS
  <2> QED  BY <2>1, TimesAssumption DEF Init, PromptInv, SkipInv, CountInv
<1>2. IInv /\ PromptInv /\ [Next]_vars => PromptInv'
  BY SkipStep, CountStep DEF PromptInv
<1> QED  BY <1>1, <1>2, Inductive, PTL DEF Spec

\* A guest that holds at a prompt is not called hung without the answer, as long
\* as the silence that takes outlasts a poll, with its QMP commands, for every
\* symbol printed: expect sends one answer to each prompt in a poll.
THEOREM PromptsAreAnswered == MaxText * PollTime < Idle => (Spec => HungWasAnswered)
<1> SUFFICES ASSUME MaxText * PollTime < Idle  PROVE Spec => HungWasAnswered
  OBVIOUS
<1>1. IInv /\ PromptInv /\ [Next]_vars =>
        [(pc = "poll" /\ result' = "GuestHung") =>
            \A p \in call.answers : ~Unanswered(p)]_vars
  <2> SUFFICES ASSUME IInv, PromptInv, [Next]_vars, pc = "poll", result' = "GuestHung",
                      NEW p \in call.answers
               PROVE  ~Unanswered(p)
    OBVIOUS
  <2>1. result = "none"
    BY DEF IInv, SilenceInv
  <2>2. Poll
    BY <2>1 DEF Next, Guest, Wait, Finished, ReaderExtends, GuestStops, GuestFrame, Begin, SampleCpus,
           Matches, Fails, Answers, CheckAlive, Status, Deadline, vars
  <2>3. ~Grown /\ now - lastSeen >= Idle
    BY <2>1, <2>2, SMTT(30) DEF Poll, Goes, Raise, Silence
  <2> QED  BY <2>3, NoneLeft
<1> QED  BY <1>1, Inductive, PromptsInductive, PTL DEF Spec, HungWasAnswered

=============================================================================
