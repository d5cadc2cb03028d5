-------------------------- MODULE QmpClientProofs --------------------------
(***************************************************************************)
(* Theorems about QmpClient, for any number of events QEMU may send, at    *)
(* any moment, and any way the bytes are cut into reads.  IInv is the      *)
(* inductive invariant: it says what the connection has carried since the  *)
(* client last sent, the bytes it read and the bytes it has yet to read    *)
(* together, for as long as QEMU is there.                                 *)
(***************************************************************************)
EXTENDS QmpClient, SequenceTheorems, TLAPS

\* Sent by QEMU since the client last sent.
Stream == data \o pipe

\* A message is followed by a message, and QEMU puts nothing between its pieces.
Framed(s) ==
  \A i \in 1 .. Len(s) :
    /\ ~s[i].ends => i < Len(s) /\ s[i + 1].ends /\ s[i + 1].of = s[i].of
    /\ s[i].ends /\ i < Len(s) => ~s[i + 1].ends

Opening  == todo = "none" /\ Stream = << >> /\ events = 0

\* The greeting is alone on the connection, and none of it was kept.
Greeting ==
  /\ data = << >> /\ events = 0
  /\ \/ todo = "connected" /\ pipe = << >>
     \/ todo = "none" /\ pipe = Line("greeting")

\* The answer to qmp_capabilities comes first, QEMU has no events before it,
\* unless the end of the greeting is still there.
Negotiating ==
  \/ todo = "qmp_capabilities" /\ Stream = << >> /\ events = 0
  \/ LeftOver(Stream) /\ Stream[1].ends
  \/ /\ todo = "none" /\ Len(Stream) >= 2 /\ ~Stream[1].ends
     /\ \A i \in 1 .. Len(Stream) : i > 2 => Stream[i].of = "event"
     /\ events = 0 => Len(Stream) = 2

\* The answer to the command is the only one, and without events it is alone.
Asking ==
  /\ todo \notin {"connected", "qmp_capabilities"}
  /\ \A i \in 1 .. Len(Stream) : Stream[i].of \notin {"greeting", "capabilities"}
  /\ Stream # << >> => ~Stream[1].ends
  /\ events = 0 => \/ todo = "command" /\ Stream = << >>
                   \/ todo = "none" /\ \E kind \in {"reply", "error"} : Stream = Line(kind)

StreamInv ==
  qemu # "gone" =>
    /\ Framed(Stream)
    /\ pc = "open" => Opening
    /\ pc = "greet" => Greeting
    /\ pc = "negotiate" => Negotiating
    /\ pc = "ask" => Asking

IInv == TypeOK /\ StreamInv

-----------------------------------------------------------------------------
(* What the connection carries.                                            *)

\* A message is two pieces.
LEMMA LineFacts ==
  ASSUME NEW kind \in Kinds
  PROVE  /\ Line(kind) \in Seq(Pieces) /\ Len(Line(kind)) = 2
         /\ Line(kind)[1] = [of |-> kind, ends |-> FALSE]
         /\ Line(kind)[2] = [of |-> kind, ends |-> TRUE]
BY DEF Line, Pieces

\* What is left on the connection of what was sent, once some was read.
LEMMA Shape ==
  ASSUME NEW d \in Seq(Pieces), NEW p \in Seq(Pieces)
  PROVE  /\ d \o p \in Seq(Pieces) /\ Len(d \o p) = Len(d) + Len(p)
         /\ Len(d) \in Nat /\ Len(p) \in Nat
         /\ \A i \in 1 .. Len(d) : (d \o p)[i] = d[i]
         /\ \A i \in 1 .. Len(p) : (d \o p)[Len(d) + i] = p[i]
         /\ d = << >> => d \o p = p
         /\ Framed(d \o p) => Framed(p)
<1> DEFINE s == d \o p
<1>1. Len(d) \in Nat /\ Len(p) \in Nat
  BY LenProperties
<1>2. /\ s \in Seq(Pieces) /\ Len(s) = Len(d) + Len(p)
      /\ \A i \in 1 .. Len(d) + Len(p) : s[i] = IF i <= Len(d) THEN d[i] ELSE p[i - Len(d)]
  BY ConcatProperties
<1>3. \A i \in 1 .. Len(d) : s[i] = d[i]
  BY <1>1, <1>2
<1>4. \A i \in 1 .. Len(p) : s[Len(d) + i] = p[i]
  BY <1>1, <1>2
<1>5. d = << >> => s = p
  BY ConcatEmptySeq
<1>6. ASSUME Framed(s)  PROVE Framed(p)
  <2> HIDE DEF s
  <2> SUFFICES ASSUME NEW i \in 1 .. Len(p)
               PROVE  /\ ~p[i].ends => i < Len(p) /\ p[i + 1].ends /\ p[i + 1].of = p[i].of
                      /\ p[i].ends /\ i < Len(p) => ~p[i + 1].ends
    BY DEF Framed
  <2>1. Len(d) + i \in 1 .. Len(s) /\ s[Len(d) + i] = p[i]
    BY <1>1, <1>2, <1>4
  <2>2. /\ ~p[i].ends => /\ Len(d) + i < Len(s) /\ s[Len(d) + i + 1].ends
                         /\ s[Len(d) + i + 1].of = p[i].of
        /\ p[i].ends /\ Len(d) + i < Len(s) => ~s[Len(d) + i + 1].ends
    BY <1>1, <1>6, <2>1 DEF Framed
  <2>3. Len(d) + i < Len(s) <=> i < Len(p)
    BY <1>1, <1>2
  <2>4. i < Len(p) => p[i + 1] = s[Len(d) + i + 1]
    <3> SUFFICES ASSUME i < Len(p)  PROVE p[i + 1] = s[Len(d) + i + 1]
      OBVIOUS
    <3>1. i + 1 \in 1 .. Len(p) /\ Len(d) + (i + 1) = Len(d) + i + 1
      BY <1>1
    <3> QED  BY <1>4, <3>1
  <2> QED  BY <2>2, <2>3, <2>4
<1> QED  BY <1>1, <1>2, <1>3, <1>4, <1>5, <1>6

\* One more message at the end of what was sent.
LEMMA Longer ==
  ASSUME NEW s \in Seq(Pieces), NEW kind \in Kinds
  PROVE  LET t == s \o Line(kind)
         IN /\ t \in Seq(Pieces) /\ Len(t) = Len(s) + 2
            /\ \A i \in 1 .. Len(s) : t[i] = s[i]
            /\ t[Len(s) + 1] = [of |-> kind, ends |-> FALSE]
            /\ t[Len(s) + 2] = [of |-> kind, ends |-> TRUE]
            /\ Framed(s) => Framed(t)
<1> DEFINE t == s \o Line(kind)
<1>1. /\ t \in Seq(Pieces) /\ Len(t) = Len(s) + 2
      /\ \A i \in 1 .. Len(s) : t[i] = s[i]
      /\ \A i \in 1 .. 2 : t[Len(s) + i] = Line(kind)[i]
  <2> DEFINE l == Line(kind)
  <2>1. l \in Seq(Pieces) /\ Len(l) = 2
    BY LineFacts
  <2> HIDE DEF l
  <2>2. /\ s \o l \in Seq(Pieces) /\ Len(s \o l) = Len(s) + 2
        /\ \A i \in 1 .. Len(s) : (s \o l)[i] = s[i]
        /\ \A i \in 1 .. 2 : (s \o l)[Len(s) + i] = l[i]
    BY <2>1, Shape
  <2> QED  BY <2>2 DEF l
<1>2. Len(s) \in Nat
  BY LenProperties
<1>3. /\ \A i \in 1 .. Len(s) : t[i] = s[i]
      /\ t[Len(s) + 1] = [of |-> kind, ends |-> FALSE]
      /\ t[Len(s) + 2] = [of |-> kind, ends |-> TRUE]
  BY <1>1, LineFacts
<1>4. ASSUME Framed(s)  PROVE Framed(t)
  <2> HIDE DEF t
  <2> SUFFICES ASSUME NEW i \in 1 .. Len(t)
               PROVE  /\ ~t[i].ends => i < Len(t) /\ t[i + 1].ends /\ t[i + 1].of = t[i].of
                      /\ t[i].ends /\ i < Len(t) => ~t[i + 1].ends
    BY DEF Framed
  <2>1. CASE i <= Len(s)
    <3>1. i \in 1 .. Len(s) /\ t[i] = s[i]
      BY <1>1, <1>2, <1>3, <2>1
    <3>2. /\ ~s[i].ends => i < Len(s) /\ s[i + 1].ends /\ s[i + 1].of = s[i].of
          /\ s[i].ends /\ i < Len(s) => ~s[i + 1].ends
      BY <1>4, <3>1 DEF Framed
    <3>3. CASE i < Len(s)
      <4>1. i + 1 \in 1 .. Len(s) /\ i < Len(t)
        BY <1>1, <1>2, <3>1, <3>3
      <4> QED  BY <1>3, <3>1, <3>2, <4>1
    <3>4. CASE i = Len(s)
      BY <1>3, <3>1, <3>2, <3>4
    <3> QED  BY <1>2, <2>1, <3>3, <3>4
  <2>2. CASE i > Len(s)
    <3>1. i = Len(s) + 1 \/ i = Len(s) + 2
      BY <1>1, <1>2, <2>2
    <3> QED  BY <1>1, <1>2, <1>3, <3>1
  <2> QED  BY <1>2, <2>1, <2>2
<1> QED  BY <1>1, <1>3, <1>4

\* Concatenation, of pieces.
LEMMA Assoc ==
  ASSUME NEW s \in Seq(Pieces), NEW t \in Seq(Pieces), NEW u \in Seq(Pieces)
  PROVE  (s \o t) \o u = s \o (t \o u)
<1> DEFINE S == Pieces
<1>1. s \in Seq(S) /\ t \in Seq(S) /\ u \in Seq(S)
  OBVIOUS
<1> HIDE DEF S
<1> QED  BY <1>1, ConcatAssociative

\* A read takes pieces from one end and gives them to the other.
LEMMA Cut ==
  ASSUME NEW d \in Seq(Pieces), NEW p \in Seq(Pieces), NEW n \in 1 .. Len(p)
  PROVE  /\ SubSeq(p, n + 1, Len(p)) \in Seq(Pieces)
         /\ d \o SubSeq(p, 1, n) \in Seq(Pieces)
         /\ (d \o SubSeq(p, 1, n)) \o SubSeq(p, n + 1, Len(p)) = d \o p
<1> DEFINE S == Pieces
<1>1. d \in Seq(S) /\ p \in Seq(S)
  OBVIOUS
<1> HIDE DEF S
<1>2. Len(p) \in Nat /\ \A i \in 1 .. Len(p) : p[i] \in S
  BY <1>1, LenProperties, ElementOfSeq
<1>3. SubSeq(p, 1, n) \in Seq(S) /\ SubSeq(p, n + 1, Len(p)) \in Seq(S)
  BY <1>1, <1>2, SubSeqProperties
<1>4. SubSeq(p, 1, n) \o SubSeq(p, n + 1, Len(p)) = p
  BY <1>1, <1>2, ConcatAdjacentSubSeq, SubSeqFull
<1>5. d \o SubSeq(p, 1, n) \in Seq(S)
  BY <1>1, <1>3, ConcatProperties
<1>6. (d \o SubSeq(p, 1, n)) \o SubSeq(p, n + 1, Len(p))
        = d \o (SubSeq(p, 1, n) \o SubSeq(p, n + 1, Len(p)))
  BY <1>1, <1>3, Assoc DEF S
<1> QED  BY <1>3, <1>4, <1>5, <1>6 DEF S

-----------------------------------------------------------------------------
(* IInv is inductive.                                                      *)

\* What each request is answered with.
LEMMA Answering ==
  /\ Answers["connected"] = {"greeting"} /\ Answers["qmp_capabilities"] = {"capabilities"}
  /\ Answers["command"] = {"reply", "error"}
  /\ DOMAIN Answers = {"connected", "qmp_capabilities", "command"}
BY DEF Answers

\* Types, and that no command is sent before capabilities are negotiated.
LEMMA TypeStep ==
  ASSUME IInv, [Next]_vars  PROVE TypeOK'
<1> USE Answering DEF IInv, TypeOK
<1>1. CASE Reply
  <2>1. \A kind \in Kinds : pipe \o Line(kind) \in Seq(Pieces)
    BY Longer
  <2> QED  BY <1>1, <2>1 DEF Reply, clientVars, Kinds
<1>2. CASE Event
  <2>1. pipe \o Line("event") \in Seq(Pieces)
    BY Longer DEF Kinds
  <2>2. events + 1 \in 0 .. MaxEvents
    BY <1>2, EventsAssumption DEF Event
  <2> QED  BY <1>2, <2>1, <2>2 DEF Event, clientVars
<1>3. CASE Wedges
  BY <1>3 DEF Wedges, clientVars
<1>4. CASE Exits
  <2>1. \A n \in 0 .. Len(pipe) : SubSeq(pipe, 1, n) \in Seq(Pieces)
    <3>1. Len(pipe) \in Nat /\ \A i \in 1 .. Len(pipe) : pipe[i] \in Pieces
      BY LenProperties, ElementOfSeq
    <3> QED  BY <3>1, SubSeqProperties
  <2> QED  BY <1>4, <2>1 DEF Exits, clientVars
<1>5. CASE Connect
  BY <1>5 DEF Connect, Ends
<1>6. CASE Recv
  BY <1>6, Cut DEF Recv
<1>10. CASE ReadGreeting
  <2>1. pipe' \in Seq(Pieces)
    <3>1. \A n \in 1 .. Len(pipe) : SubSeq(pipe, n + 1, Len(pipe)) \in Seq(Pieces)
      BY Cut
    <3> QED  BY <1>10, <3>1 DEF ReadGreeting, TakesGreeting
  <2> QED  BY <1>10, <2>1 DEF ReadGreeting, Sends, Ends
<1>7. CASE RecvTimeout
  BY <1>7 DEF RecvTimeout, Ends
<1>8. CASE Parse
  <2>1. << >> \in Seq(Pieces)
    OBVIOUS
  <2>2. UNCHANGED <<qemu, events, pipe>> /\ data' \in {<< >>, data}
    BY <1>8 DEF Parse
  <2>3. /\ pc' \in {"ask", "done"} /\ todo' \in {todo, "command"}
        /\ result' \in {result, "value", "RuntimeError", "OSError", "KeyError", "IndexError",
                        "ValueError"}
    BY <1>8 DEF Parse, Ends, Negotiated, Answered
  <2> QED  BY <2>1, <2>2, <2>3
<1>9. CASE UNCHANGED vars
  BY <1>9 DEF vars
<1> QED
  BY <1>1, <1>2, <1>3, <1>4, <1>5, <1>6, <1>7, <1>8, <1>9, <1>10
  DEF Next, Qemu, Client, Finished

\* QEMU's messages keep the stream in shape, wherever the reads have got to.
LEMMA SendsStep ==
  ASSUME IInv, Reply \/ Event  PROVE StreamInv'
<1>1. qemu = "up" /\ UNCHANGED <<pc, data, qemu>>
  BY DEF Reply, Event, clientVars
<1>2. PICK kind \in Kinds : /\ pipe' = pipe \o Line(kind)
                            /\ \/ /\ Event /\ kind = "event" /\ events' = events + 1
                                  /\ todo' = todo
                               \/ /\ Reply /\ todo # "none" /\ todo' = "none"
                                  /\ events' = events
                                  /\ kind \in Answers[todo]
  BY Answering DEF Reply, Event, Kinds, IInv, TypeOK
<1>3. data \in Seq(Pieces) /\ pipe \in Seq(Pieces) /\ Stream \in Seq(Pieces) /\ events \in Nat
  BY Shape DEF IInv, TypeOK, Stream
<1>4. Stream' = Stream \o Line(kind)
  BY <1>1, <1>2, <1>3, LineFacts, Assoc DEF Stream
<1>5. /\ Len(Stream') = Len(Stream) + 2 /\ Len(Stream) \in Nat
      /\ \A i \in 1 .. Len(Stream) : Stream'[i] = Stream[i]
      /\ Stream'[Len(Stream) + 1] = [of |-> kind, ends |-> FALSE]
      /\ Stream'[Len(Stream) + 2] = [of |-> kind, ends |-> TRUE]
      /\ Framed(Stream)'
  BY <1>1, <1>3, <1>4, Longer, LenProperties DEF IInv, StreamInv
<1>6. \A i \in 1 .. Len(Stream') : \/ i \in 1 .. Len(Stream) /\ Stream'[i] = Stream[i]
                                   \/ i > Len(Stream) /\ Stream'[i].of = kind
  BY <1>5
<1>7. pc # "open"
  BY <1>1, <1>2 DEF Event, IInv, StreamInv, Opening
<1>10. pc = "greet" => Greeting'
  <2> SUFFICES ASSUME pc = "greet"  PROVE Greeting'
    OBVIOUS
  <2>1. Greeting /\ Reply
    BY <1>1, <1>2 DEF IInv, StreamInv, Event
  <2>2. kind = "greeting" /\ pipe = << >>
    BY <1>2, <2>1, Answering DEF Greeting, Reply, Event
  <2>3. pipe' = Line("greeting")
    BY <1>2, <2>2, LineFacts, ConcatEmptySeq DEF Kinds
  <2> QED  BY <1>1, <1>2, <2>1, <2>3 DEF Greeting, Reply, clientVars
<1>8. pc = "negotiate" => Negotiating'
  <2> SUFFICES ASSUME pc = "negotiate"  PROVE Negotiating'
    OBVIOUS
  <2>1. Negotiating
    BY <1>1 DEF IInv, StreamInv
  <2>4. CASE LeftOver(Stream) /\ Stream[1].ends
    <3>1. Len(Stream) # 0
      BY <1>3, <2>4, EmptySeq DEF LeftOver
    <3>2. Stream' # << >> /\ Stream'[1] = Stream[1]
      BY <1>5, <3>1
    <3> QED  BY <2>4, <3>2 DEF Negotiating, LeftOver
  <2> SUFFICES ASSUME ~(LeftOver(Stream) /\ Stream[1].ends)  PROVE Negotiating'
    BY <2>4
  <2>2. CASE Reply /\ todo' = "none" /\ todo # "none"
    <3>1. Stream = << >> /\ events = 0 /\ kind = "capabilities" /\ events' = events
      BY <1>2, <2>1, <2>2, Answering DEF Negotiating, Event
    <3> QED  BY <1>5, <2>2, <3>1 DEF Negotiating
  <2>3. CASE Event /\ kind = "event" /\ events' = events + 1 /\ todo' = todo
    <3>1. todo = "none"
      BY <2>3 DEF Event
    <3> QED  BY SMTT(30), <1>3, <1>5, <1>6, <2>1, <2>3, <3>1 DEF Negotiating
  <2> QED  BY <1>2, <2>2, <2>3
<1>9. pc = "ask" => Asking'
  <2> SUFFICES ASSUME pc = "ask"  PROVE Asking'
    OBVIOUS
  <2>1. Asking
    BY <1>1 DEF IInv, StreamInv
  <2>2. /\ kind \notin {"greeting", "capabilities"}
        /\ todo' \notin {"connected", "qmp_capabilities"}
    BY <1>2, <2>1, Answering DEF Asking, IInv, TypeOK
  <2>3. \A i \in 1 .. Len(Stream') : Stream'[i].of \notin {"greeting", "capabilities"}
    BY <1>6, <2>1, <2>2 DEF Asking
  <2>4. events' = 0 => todo' = "none" /\ kind \in {"reply", "error"} /\ Stream = << >>
    BY <1>2, <1>3, <2>1, Answering DEF Asking, IInv, TypeOK
  <2>5. Stream = << >> => Stream' = Line(kind)
    BY <1>4, LineFacts, ConcatEmptySeq
  <2>6. ~Stream'[1].ends
    <3>1. CASE Stream = << >>
      <4>1. Line(kind)[1] = [of |-> kind, ends |-> FALSE]
        BY LineFacts
      <4>2. ~Line(kind)[1].ends
        BY <4>1
      <4> QED  BY <2>5, <3>1, <4>2
    <3>2. CASE Stream # << >>
      <4>1. 1 \in 1 .. Len(Stream)
        BY <1>3, <1>5, <3>2, EmptySeq
      <4> QED  BY <1>5, <2>1, <3>2, <4>1 DEF Asking
    <3> QED  BY <3>1, <3>2
  <2> QED  BY <2>2, <2>3, <2>4, <2>5, <2>6 DEF Asking
<1> QED  BY <1>1, <1>5, <1>7, <1>8, <1>9, <1>10 DEF StreamInv

\* Once the answer to qmp_capabilities was read to the end of a line, what is
\* left on the connection is events.
LEMMA Negotiates ==
  ASSUME IInv, pc = "negotiate", qemu # "gone", Complete(data), ~Broken(data)
  PROVE  /\ Framed(pipe) /\ \A i \in 1 .. Len(pipe) : pipe[i].of = "event"
         /\ pipe # << >> => ~pipe[1].ends
         /\ events = 0 => pipe = << >>
<1>1. data \in Seq(Pieces) /\ pipe \in Seq(Pieces)
  BY DEF IInv, TypeOK
<1>2. Negotiating /\ Framed(Stream)
  BY DEF IInv, StreamInv
<1>3. PICK i \in DOMAIN data : data[i].of \in {"capabilities", "reply", "error"}
  BY DEF Complete, HasAnswer
<1>4. /\ Len(data) \in Nat /\ Len(pipe) \in Nat /\ Len(Stream) = Len(data) + Len(pipe)
      /\ \A j \in 1 .. Len(data) : Stream[j] = data[j]
      /\ \A j \in 1 .. Len(pipe) : Stream[Len(data) + j] = pipe[j]
      /\ Framed(pipe)
  BY <1>1, <1>2, Shape DEF Stream
<1>5. i \in 1 .. Len(data) /\ data[Len(data)].ends
  BY <1>1, <1>3 DEF Complete, Last
<1>6. /\ todo = "none" /\ Len(data) # 1
      /\ \A j \in 1 .. Len(Stream) : j > 2 => Stream[j].of = "event"
      /\ events = 0 => Len(Stream) = 2
  <2>1. Len(Stream) # 0 /\ data # << >>
    BY <1>4, <1>5
  <2>2. Stream # << >> /\ Stream[1] = data[1]
    BY <1>4, <1>5, <2>1
  <2>3. ~data[1].ends
    BY <2>1 DEF Broken
  <2> QED  BY <1>2, <1>4, <1>5, <2>2, <2>3 DEF Negotiating
<1>7. \A j \in 1 .. Len(pipe) : Len(data) + j \in 1 .. Len(Stream) /\ Len(data) + j > 2
  <2>1. Len(data) \in Nat /\ Len(pipe) \in Nat /\ Len(Stream) = Len(data) + Len(pipe)
    BY <1>4
  <2>2. Len(data) >= 2
    <3>1. \A n \in Nat : n >= 1 /\ n # 1 => n >= 2
      OBVIOUS
    <3>2. Len(data) >= 1 /\ Len(data) # 1 /\ Len(data) \in Nat
      BY <1>5, <1>6, <2>1
    <3> QED  BY <3>1, <3>2
  <2> QED  BY <2>1, <2>2
<1>8. \A j \in 1 .. Len(pipe) : pipe[j].of = "event"
  BY <1>4, <1>6, <1>7
<1>9. events = 0 => Len(pipe) = 0
  <2> SUFFICES ASSUME events = 0  PROVE Len(pipe) = 0
    OBVIOUS
  <2>1. \A n, m \in Nat : n + m = 2 /\ n >= 1 /\ n # 1 => m = 0
    OBVIOUS
  <2>2. Len(data) \in Nat /\ Len(pipe) \in Nat /\ Len(data) + Len(pipe) = 2
    BY <1>4, <1>6
  <2>3. Len(data) >= 1 /\ Len(data) # 1
    BY <1>5, <1>6, <2>2
  <2> QED  BY <2>1, <2>2, <2>3
<1>10. pipe # << >> => ~pipe[1].ends
  <2> SUFFICES ASSUME pipe # << >>  PROVE ~pipe[1].ends
    OBVIOUS
  <2>1. 1 \in 1 .. Len(pipe)
    BY <1>1, <1>4, EmptySeq
  <2>2. Len(data) \in 1 .. Len(Stream) /\ Len(data) < Len(Stream)
    BY <1>4, <1>5, <2>1
  <2>3. Stream[Len(data)].ends /\ Stream[Len(data) + 1] = pipe[1]
    BY <1>4, <1>5, <2>1
  <2> QED  BY <1>2, <2>2, <2>3 DEF Framed
<1> QED  BY <1>1, <1>4, <1>8, <1>9, <1>10, EmptySeq

\* The answer to the command, once it is complete: a whole reply or error, and
\* without events nothing else.
LEMMA Understood ==
  ASSUME IInv, pc = "ask", qemu # "gone", Complete(data)
  PROVE  /\ HasWhole(data) /\ ~Broken(data)
         /\ events = 0 => Answer(data) \in {"reply", "error"}
<1>1. data \in Seq(Pieces) /\ pipe \in Seq(Pieces)
  BY DEF IInv, TypeOK
<1>2. Asking /\ Framed(Stream)
  BY DEF IInv, StreamInv
<1>3. PICK i \in DOMAIN data : data[i].of \in {"capabilities", "reply", "error"}
  BY DEF Complete, HasAnswer
<1>4. /\ Len(data) \in Nat /\ Len(pipe) \in Nat /\ Len(Stream) = Len(data) + Len(pipe)
      /\ \A j \in 1 .. Len(data) : Stream[j] = data[j]
  BY <1>1, <1>2, Shape DEF Stream
<1>5. /\ i \in 1 .. Len(data) /\ DOMAIN data = 1 .. Len(data) /\ data[Len(data)].ends
      /\ data[i] \in Pieces
  BY <1>1, <1>3, ElementOfSeq DEF Complete, Last
<1>6. data[i].of \in {"reply", "error"}
  BY <1>2, <1>3, <1>4, <1>5 DEF Asking
<1>7. HasWhole(data)
  <2>1. CASE data[i].ends
    BY <1>3, <1>6, <2>1 DEF HasWhole
  <2>2. CASE ~data[i].ends
    <3>1. i \in 1 .. Len(Stream) /\ Stream[i] = data[i]
      BY <1>4, <1>5
    <3>2. Stream[i + 1].ends /\ Stream[i + 1].of = data[i].of
      BY <1>2, <2>2, <3>1 DEF Framed
    <3>3. i # Len(data)
      BY <1>5, <2>2
    <3>4. i + 1 \in 1 .. Len(data)
      BY <1>4, <1>5, <3>3
    <3>5. data[i + 1].ends /\ data[i + 1].of \in {"reply", "error"}
      BY <1>4, <1>6, <3>2, <3>4
    <3> QED  BY <1>5, <3>4, <3>5 DEF HasWhole
  <2> QED  BY <2>1, <2>2
<1>8. ASSUME events = 0  PROVE Answer(data) \in {"reply", "error"}
  <2>1. Len(Stream) # 0
    BY <1>4, <1>5
  <2>2. Stream # << >>
    BY <2>1
  <2>3. PICK kind \in {"reply", "error"} : Stream = Line(kind)
    BY <1>2, <1>8, <2>2 DEF Asking
  <2>4. /\ Len(Stream) = 2 /\ Stream[1] = [of |-> kind, ends |-> FALSE]
        /\ Stream[2] = [of |-> kind, ends |-> TRUE]
    BY <2>3, LineFacts DEF Kinds
  <2>5. Len(data) # 1
    BY <1>4, <1>5, <2>4
  <2>6. Len(data) = 2
    <3>1. \A n, m \in Nat : n >= 1 /\ n + m = 2 /\ n # 1 => n = 2
      OBVIOUS
    <3>2. Len(data) \in Nat /\ Len(pipe) \in Nat /\ Len(data) + Len(pipe) = 2
      BY <1>4, <2>4
    <3>3. Len(data) >= 1
      BY <1>5, <3>2
    <3> QED  BY <2>5, <3>1, <3>2, <3>3
  <2>7. data[1] = Stream[1] /\ data[2] = Stream[2] /\ DOMAIN data = {1, 2}
    BY <1>4, <1>5, <2>6
  <2>8. Lines(data) = {2}
    BY <2>4, <2>7 DEF Lines
  <2>9. \A j \in DOMAIN data : Lines(data) = {j} <=> j = 2
    BY <2>8
  <2>10. Answer(data) = data[2].of
    BY <2>7, <2>9 DEF Answer
  <2> QED  BY <2>3, <2>4, <2>7, <2>10
<1>9. ~Broken(data)
  <2>1. 1 \in 1 .. Len(data) /\ Len(Stream) # 0
    BY <1>4, <1>5
  <2>2. Stream # << >> /\ Stream[1] = data[1]
    BY <1>4, <2>1
  <2> QED  BY <1>2, <1>5, <2>2 DEF Asking, Broken, Last
<1> QED  BY <1>7, <1>8, <1>9

\* The client's steps: a read moves the boundary, sending starts a new stream.
LEMMA StreamStep ==
  ASSUME IInv, [Next]_vars  PROVE StreamInv'
<1> SUFFICES ASSUME qemu' # "gone"  PROVE StreamInv'
  BY DEF StreamInv
<1>1. CASE Reply \/ Event
  BY <1>1, SendsStep
<1>2. CASE /\ UNCHANGED <<pc, todo, events>> /\ qemu # "gone" /\ Stream' = Stream
           /\ pc # "greet" \/ UNCHANGED <<data, pipe>>
  BY <1>2 DEF IInv, StreamInv, Framed, Opening, Greeting, Negotiating, LeftOver, Asking
<1>3. CASE Wedges
  BY <1>2, <1>3 DEF Wedges, clientVars, Stream
<1>4. CASE Exits
  BY <1>4 DEF Exits
<1>5. CASE Connect
  <2>1. data \in Seq(Pieces) /\ pipe \in Seq(Pieces) /\ UNCHANGED <<data, pipe, qemu, events>>
    BY <1>5 DEF Connect, IInv, TypeOK
  <2>2. CASE pc' = "done"
    BY <1>5, <2>1, <2>2 DEF IInv, StreamInv, Framed, Stream
  <2>3. CASE pc' # "done"
    <3>1. pc = "open" /\ pc' = "greet" /\ todo' = "connected"
      BY <1>5, <2>3 DEF Connect, Ends
    <3>2. Framed(Stream) /\ Opening
      BY <2>1, <3>1 DEF IInv, StreamInv
    <3>3. Len(data) = 0 /\ Len(pipe) = 0
      <4>1. Len(Stream) = 0
        BY <3>2 DEF Opening
      <4> QED  BY <2>1, <4>1, Shape DEF Stream
    <3>4. data = << >> /\ pipe = << >>
      BY <2>1, <3>3, EmptySeq
    <3> QED  BY <2>1, <3>1, <3>2, <3>4 DEF StreamInv, Framed, Opening, Greeting, Stream
  <2> QED  BY <2>2, <2>3
<1>10. CASE ReadGreeting
  <2>1. /\ pc = "greet" /\ qemu # "gone" /\ UNCHANGED <<data, qemu, events>>
        /\ pc' = "negotiate" /\ todo' = "qmp_capabilities"
    BY <1>10 DEF ReadGreeting, Sends, Ends
  <2>2. data = << >> /\ events = 0 /\ (pipe = << >> \/ pipe = Line("greeting"))
    BY <2>1 DEF IInv, StreamInv, Greeting
  <2>3. PICK n \in 1 .. Len(pipe) : pipe' = SubSeq(pipe, n + 1, Len(pipe))
    BY <1>10, <2>1 DEF ReadGreeting, TakesGreeting
  <2>4. pipe \in Seq(Pieces) /\ Line("greeting") \in Seq(Pieces)
    BY LineFacts DEF IInv, TypeOK, Kinds
  <2>5. Len(pipe) \in Nat /\ pipe # << >>
    BY <2>3, <2>4, LenProperties, EmptySeq
  <2>6. Len(pipe) = 2 /\ pipe[2].ends /\ pipe[2].of = "greeting"
    <3>1. pipe = Line("greeting")
      BY <2>2, <2>5
    <3>2. Len(pipe) = 2 /\ pipe[2] = [of |-> "greeting", ends |-> TRUE]
      BY <3>1, LineFacts DEF Kinds
    <3> QED  BY <3>2
  <2>7. /\ pipe' \in Seq(Pieces) /\ Len(pipe') = 2 - n
        /\ n = 1 => pipe'[1] = pipe[2]
    <3>1. \A i \in 1 .. 2 : pipe[i] \in Pieces
      BY <2>4, <2>6, ElementOfSeq
    <3>2. n + 1 \in 1 .. 3 /\ n \in 1 .. 2
      BY <2>3, <2>6
    <3>3. \A i \in (n + 1) .. 2 : pipe[i] \in Pieces
      BY <3>1, <3>2
    <3> DEFINE S == Pieces
    <3>4. pipe \in Seq(S) /\ \A i \in (n + 1) .. 2 : pipe[i] \in S
      BY <2>4, <3>3
    <3> HIDE DEF S
    <3>5. /\ SubSeq(pipe, n + 1, 2) \in Seq(S)
          /\ Len(SubSeq(pipe, n + 1, 2)) = IF n + 1 <= 2 THEN 2 - (n + 1) + 1 ELSE 0
          /\ \A i \in 1 .. 2 - (n + 1) + 1 : SubSeq(pipe, n + 1, 2)[i] = pipe[(n + 1) + i - 1]
      BY <3>2, <3>4, SubSeqProperties
    <3> QED  BY <2>3, <2>6, <3>2, <3>5 DEF S
  <2>8. Stream' = pipe'
    BY <2>1, <2>2, <2>7, ConcatEmptySeq DEF Stream
  <2>9. n \in 1 .. 2
    BY <2>3, <2>6
  <2>10. CASE n = 1
    <3>1. Len(Stream') = 1 /\ Stream'[1].ends /\ Stream'[1].of = "greeting"
      BY <2>6, <2>7, <2>8, <2>10
    <3>2. Stream' # << >>
      BY <3>1
    <3> QED  BY <2>1, <3>1, <3>2 DEF StreamInv, Framed, LeftOver, Negotiating
  <2>11. CASE n = 2
    <3>1. Len(Stream') = 0 /\ Stream' = << >>
      BY <2>7, <2>8, <2>11, EmptySeq
    <3> QED  BY <2>1, <2>2, <3>1 DEF StreamInv, Framed, Negotiating
  <2> QED  BY <2>9, <2>10, <2>11
<1>6. CASE Recv
  <2>1. data \in Seq(Pieces) /\ pipe \in Seq(Pieces)
    BY DEF IInv, TypeOK
  <2>2. Stream' = Stream
    BY ZenonT(30), <1>6, <2>1, Cut DEF Recv, Stream
  <2> QED  BY <1>2, <1>6, <2>2 DEF Recv, Reading
<1>7. CASE RecvTimeout
  BY <1>7 DEF RecvTimeout, Ends, IInv, StreamInv, Framed, Stream
<1>8. CASE Parse
  <2>1. qemu # "gone" /\ Complete(data) /\ UNCHANGED <<qemu, events, pipe>>
    BY <1>8 DEF Parse, AtEof
  <2>2. CASE pc' = "done"
    BY <1>8, <2>1, <2>2 DEF Parse, IInv, StreamInv, Framed, Stream
  <2>3. CASE pc' # "done"
    <3>1. /\ pc = "negotiate" /\ pc' = "ask" /\ todo' = "command" /\ data' = << >>
          /\ ~Broken(data)
      BY <1>8, <2>3 DEF Parse, Ends, Negotiated, Answered
    <3>2. /\ pipe # << >> => ~pipe[1].ends
          /\ Framed(pipe) /\ \A i \in 1 .. Len(pipe) : pipe[i].of = "event"
          /\ events = 0 => pipe = << >>
      BY <2>1, <3>1, Negotiates
    <3>3. Stream' = pipe
      BY <2>1, <3>1, ConcatEmptySeq DEF Stream, IInv, TypeOK
    <3> QED  BY <2>1, <3>1, <3>2, <3>3 DEF StreamInv, Framed, Asking
  <2> QED  BY <2>2, <2>3
<1>9. CASE UNCHANGED vars
  BY <1>2, <1>9 DEF vars, Stream
<1> QED
  BY <1>1, <1>3, <1>4, <1>5, <1>6, <1>7, <1>8, <1>9, <1>10
  DEF Next, Qemu, Client, Finished

\* The inductive invariant holds at first and is preserved.
THEOREM Inductive == Spec => []IInv
<1>1. Init => IInv
  <2> SUFFICES ASSUME Init  PROVE IInv
    OBVIOUS
  <2>1. << >> \in Seq(Pieces) /\ 0 \in 0 .. MaxEvents
    BY EventsAssumption
  <2>2. TypeOK
    BY <2>1 DEF Init, TypeOK
  <2>3. Stream = << >>
    BY DEF Init, Stream
  <2> QED  BY <2>2, <2>3 DEF Init, IInv, StreamInv, Framed, Opening
<1>2. IInv /\ [Next]_vars => IInv'
  BY TypeStep, StreamStep DEF IInv
<1> QED  BY <1>1, <1>2, PTL DEF Spec

\* Types, and QMP's rule that no command comes before capabilities (_send_cmd).
THEOREM TypeCorrect == Spec => []TypeOK
<1>1. IInv => TypeOK
  BY DEF IInv
<1> QED  BY <1>1, Inductive, PTL

\* What ends a command while QEMU is up.
LEMMA EndsUnderstood ==
  ASSUME IInv, [Next]_vars, pc' = "done", pc # "done", qemu = "up"
  PROVE  /\ pc = "ask" => HasWhole(data)
         /\ events = 0 /\ ~LeftOver(data) => result' \in {"value", "RuntimeError"}
<1>1. Parse /\ Complete(data)
  BY DEF Next, Qemu, Client, Finished, Reply, Event, Wedges, Exits, Connect, ReadGreeting, Sends,
         Recv, RecvTimeout, Times, Parse, AtEof, clientVars, vars
<1>2. data # << >> /\ Last(data).ends
  BY <1>1 DEF Complete
<1>3. CASE pc = "ask"
  <2>1. Answered
    BY <1>1, <1>2, <1>3, Understood DEF Parse
  <2> QED  BY <1>1, <1>3, <2>1, Understood DEF Answered, Ends
<1>4. CASE pc = "negotiate"
  <2>1. data[1].ends
    BY <1>1, <1>2, <1>4 DEF Parse, Negotiated, Broken
  <2>2. data \in Seq(Pieces) /\ pipe \in Seq(Pieces) /\ Negotiating
    BY <1>4 DEF IInv, TypeOK, StreamInv
  <2>3. Len(data) # 0
    BY <1>2, <2>2, EmptySeq
  <2>4. Stream # << >> /\ Stream[1] = data[1]
    <3>1. 1 \in 1 .. Len(data) /\ Len(Stream) # 0
      BY <2>2, <2>3, Shape DEF Stream
    <3> QED  BY <2>2, <3>1, Shape DEF Stream
  <2>5. LeftOver(data)
    BY <1>2, <2>1, <2>2, <2>4 DEF Negotiating, LeftOver
  <2> QED  BY <1>4, <2>5
<1> QED  BY <1>1, <1>3, <1>4 DEF Parse, Reading

\* _send reads on until it has the answer to the end of its line, for any
\* number of events and any cut of the bytes into reads.
THEOREM AnswersAreAwaited == Spec => AnswerIsAwaited
<1>1. IInv /\ [Next]_vars => [(pc = "ask" /\ pc' = "done" /\ qemu = "up") => HasWhole(data)]_vars
  BY EndsUnderstood
<1> QED  BY <1>1, Inductive, PTL DEF Spec, AnswerIsAwaited

\* Without events every command answered by a QEMU that is up returns its value
\* or raises _send_cmd's RuntimeError, for any cut of the stream behind the
\* greeting into reads: what else it raises comes of a greeting cut by _open.
THEOREM QuietQemu == Spec => QuietQemuIsUnderstood
<1>1. IInv /\ [Next]_vars =>
        [(pc' = "done" /\ pc # "done" /\ qemu = "up" /\ events = 0 /\ ~LeftOver(data)) =>
            result' \in {"value", "RuntimeError"}]_vars
  BY EndsUnderstood
<1> QED  BY <1>1, Inductive, PTL DEF Spec, QuietQemuIsUnderstood
=============================================================================
