------------------------------ MODULE EventLog ------------------------------
(***************************************************************************)
(* The DRTM event log: what the launched software extends into the TPM and *)
(* logs, the dump of the log's region as hex over the serial console, and  *)
(* drtmtest/eventlog.py, which parses the dump and replays it.             *)
(*                                                                         *)
(* The TPM, the log's writer and the console are external.  They are what  *)
(* eventlog.py and conftest's _event_log take them for: a PCR is extended  *)
(* in some of the banks, each extend is logged, tags are logged alone, the *)
(* region is zero past the events, and a Xen line may land anywhere in the *)
(* hex.                                                                    *)
(*                                                                         *)
(* Bytes are numbers, little endian; a hash is taken to be injective, so a *)
(* PCR is the sequence of what it was extended with.                       *)
(***************************************************************************)
EXTENDS Naturals, Sequences, SequencesExt

CONSTANTS
  Declared,   \* sequences of banks a TPM may have
  DigestSize, \* bytes of a digest, by bank
  Pcrs,       \* the PCRs measured into
  Measured,   \* what is measured: a record of data, the event's, and digest, by bank
  Tails,      \* zero bytes the region may have past the events
  MaxEvents,  \* bound: events logged
  Cuts,       \* bound: where in the hex a Xen line lands
  MaxLines    \* bound: Xen lines in one dump

Padding == 16    \* zero bytes parse adds
AlgNames == [id \in {4, 11, 12, 13} |-> IF id = 4 THEN "sha1" ELSE IF id = 11 THEN "sha256"
                                        ELSE IF id = 12 THEN "sha384" ELSE "sha512"]
Banks == Range(AlgNames)
EV_NO_ACTION == 3
EV_SLAUNCH == 1282

Byte    == 0 .. 255
MaxWord == 2147483647    \* bound: a 32-bit field, without its top bit

ASSUME DeclaredAssumption ==
  \A banks \in Declared :
    /\ banks \in Seq(Banks) /\ IsInjective(banks) /\ Len(banks) \in 1 .. 4
    /\ ToSet(banks) \subseteq DOMAIN DigestSize
ASSUME MeasuredAssumption ==
  \A m \in Measured :
    /\ m.data \in Seq(Byte) /\ Len(m.data) <= MaxWord
    /\ \A bank \in DOMAIN DigestSize :
         m.digest[bank] \in Seq(Byte) /\ Len(m.digest[bank]) = DigestSize[bank]
ASSUME BoundsAssumption ==
  /\ \A pcr \in Pcrs : pcr \in Nat /\ pcr <= MaxWord
  /\ \A bank \in DOMAIN DigestSize : DigestSize[bank] \in Nat /\ DigestSize[bank] <= 65535
  /\ Tails \subseteq Nat /\ Cuts \subseteq Nat /\ MaxEvents \in Nat /\ MaxLines \in Nat

VARIABLES
  banks,   \* the TPM's banks
  tpm,     \* its PCRs, by bank
  log,     \* the events logged, each with the order of its digests
  at,      \* where the boot is: "launched", "dumping", "read"
  wire,    \* the dump on the console: hex digits, and what lands among them
  lines,   \* Xen lines in it
  dump     \* what hex_dump made of it

vars == <<banks, tpm, log, at, wire, lines, dump>>

Event(pcr, type, digests, data) == [pcr |-> pcr, type |-> type, digests |-> digests, data |-> data]
Logged(event, in) == [event |-> event, in |-> in]

\* A stretch of the dump: hex digits, or a hypervisor line, or a newline.
Digits(of) == [what |-> "digits", of |-> of]
XenLine == [what |-> "(XEN)", of |-> << >>]
Newline == [what |-> "newline", of |-> << >>]

-----------------------------------------------------------------------------
(* hex_dump.                                                               *)

Gone(out, whats) == [i \in DOMAIN out |-> IF out[i].what \in whats THEN Digits(<< >>) ELSE out[i]]

\* Mutant: the newline a Xen line leaves behind stays.
XenLinesOnly(out) == Gone(out, {"(XEN)"})

\* A line of Xen's goes, up to its end, and so does all whitespace.
Cleaned(out) == Gone(out, {"(XEN)", "newline"})

\* bytes.fromhex takes pairs of digits, and refuses a stretch that splits one.
Refused == [refused |-> TRUE, bytes |-> << >>]
HexDump(out) ==
  LET hex == Cleaned(out)
      digits == FlattenSeq([i \in DOMAIN hex |-> hex[i].of])
      JoinsBytes(i) == hex[i].what = "newline" => Len(FlattenSeq([j \in 1 .. i |-> hex[j].of])) % 2 = 0
  IN IF Len(digits) % 2 = 1 \/ \E i \in DOMAIN hex : ~JoinsBytes(i) THEN Refused
     ELSE [refused |-> FALSE,
           bytes |-> [i \in 1 .. Len(digits) \div 2 |-> 16 * digits[2 * i - 1] + digits[2 * i]]]

-----------------------------------------------------------------------------
(* parse and replay.  Offsets are the code's, from 0.                      *)

Half(raw, o) == raw[o + 1] + 256 * raw[o + 2]
Word(raw, o) == Half(raw, o) + 65536 * Half(raw, o + 2)
Slice(raw, from, to) == SubSeq(raw, from + 1, IF to < Len(raw) THEN to ELSE Len(raw))
Zeros(n)     == [i \in 1 .. n |-> 0]

Signature == [i \in 1 .. 16 |-> IF i = 16 THEN 0 ELSE 83]    \* "Spec ID Event03\0"

\* _algorithms, whose two ValueErrors are what this refuses.
IsLog(raw) ==
  Len(raw) >= 32 /\ Word(raw, 4) = EV_NO_ACTION /\ Slice(raw, 32, 48) = Signature
Algorithms(raw) ==
  LET spec == Slice(raw, 32, 32 + Word(raw, 28)) IN
  [i \in 1 .. Word(spec, 24) |->
     [alg |-> Half(spec, 28 + 4 * (i - 1)), size |-> Half(spec, 30 + 4 * (i - 1))]]
BanksOf(raw) ==
  LET algorithms == Algorithms(raw \o Zeros(Padding)) IN
  [i \in DOMAIN algorithms |-> AlgNames[algorithms[i].alg]]

\* One digest of an event, and the event at an offset with where it ends.
Put(digests, bank, digest) ==
  [b \in DOMAIN digests \cup {bank} |-> IF b = bank THEN digest ELSE digests[b]]
DigestAt(raw, algorithms, st) ==
  LET alg  == Half(raw, st.o)
      size == (CHOOSE a \in Range(algorithms) : a.alg = alg).size
  IN [o |-> st.o + 2 + size,
      digests |-> Put(st.digests, AlgNames[alg], Slice(raw, st.o + 2, st.o + 2 + size))]
DigestsAt(raw, algorithms, o, count) ==
  LET Upto[i \in 0 .. count] ==
        IF i = 0 THEN [o |-> o, digests |-> << >>] ELSE DigestAt(raw, algorithms, Upto[i - 1])
  IN Upto[count]
EventAt(raw, algorithms, o) ==
  LET read == DigestsAt(raw, algorithms, o + 12, Word(raw, o + 8))
      size == Word(raw, read.o)
  IN [next  |-> read.o + 4 + size,
      event |-> Event(Word(raw, o), Word(raw, o + 4), read.digests,
                      Slice(raw, read.o + 4, read.o + 4 + size))]

\* The events up to the zeros that end them.  No event is shorter than 12 bytes.
NextEvent(raw, algorithms, st) ==
  IF st.o + 12 > Len(raw) \/ Word(raw, st.o + 8) = 0 THEN st
  ELSE LET e == EventAt(raw, algorithms, st.o) IN [o |-> e.next, events |-> Append(st.events, e.event)]
EventsOf(raw, algorithms, o) ==
  LET Upto[i \in 0 .. Len(raw) \div 12] ==
        IF i = 0 THEN [o |-> o, events |-> << >>] ELSE NextEvent(raw, algorithms, Upto[i - 1])
  IN Upto[Len(raw) \div 12].events
Parse(dumped) ==
  LET raw == dumped \o Zeros(Padding) IN EventsOf(raw, Algorithms(raw), 32 + Word(raw, 28))

\* Mutant: a tag is extended like an event.
TagsToo(event, pcr, alg) == event.pcr = pcr /\ alg \in DOMAIN event.digests

\* The events replay extends with.
Extends(event, pcr, alg) ==
  event.pcr = pcr /\ event.type # EV_NO_ACTION /\ alg \in DOMAIN event.digests
Replay(events, pcr, alg) ==
  LET Value[i \in 0 .. Len(events)] ==
        IF i = 0 THEN << >>
        ELSE IF Extends(events[i], pcr, alg) THEN Append(Value[i - 1], events[i].digests[alg])
        ELSE Value[i - 1]
  IN Value[Len(events)]

-----------------------------------------------------------------------------
(* The writer of the log.                                                  *)

U16(n) == <<n % 256, n \div 256>>
U32(n) == U16(n % 65536) \o U16(n \div 65536)
AlgId(bank) == CHOOSE id \in DOMAIN AlgNames : AlgNames[id] = bank

\* The Spec ID event: a platform class and version, and the banks.
Spec03 == Signature \o Zeros(4) \o <<0, 2, 0, 2>> \o U32(Len(banks))
          \o FlattenSeq([i \in DOMAIN banks |-> U16(AlgId(banks[i])) \o U16(DigestSize[banks[i]])])
          \o <<0>>
Header == U32(0) \o U32(EV_NO_ACTION) \o Zeros(20) \o U32(Len(Spec03)) \o Spec03
Encoded(x) ==
  U32(x.event.pcr) \o U32(x.event.type) \o U32(Len(x.in))
  \o FlattenSeq([i \in DOMAIN x.in |-> U16(AlgId(x.in[i])) \o x.event.digests[x.in[i]]])
  \o U32(Len(x.event.data)) \o x.event.data
Written == Header \o FlattenSeq([i \in DOMAIN log |-> Encoded(log[i])])
Hex(bytes) ==
  [i \in 1 .. 2 * Len(bytes) |->
     LET b == bytes[(i + 1) \div 2] IN IF i % 2 = 1 THEN b \div 16 ELSE b % 16]

\* What is dumped: the region, or what is left of it when its trailing zeros are
\* dropped.  eventlog.py takes at most Padding of the last event's own to be.
Stripped(bytes) == SubSeq(bytes, 1, SelectLastInSeq(bytes, LAMBDA b : b # 0))
Dumps == {bytes \in {Written \o Zeros(n) : n \in Tails} \cup {Stripped(Written)} :
            Len(Written) <= Len(bytes) + Padding}

Init ==
  /\ banks \in Declared
  /\ tpm = [bank \in ToSet(banks) |-> [pcr \in Pcrs |-> << >>]]
  /\ log = << >> /\ at = "launched" /\ wire = << >> /\ lines = 0 /\ dump = Refused

\* The digests an event has, in any order.
Orders == {in \in UNION {[1 .. n -> ToSet(banks)] : n \in 1 .. Len(banks)} : IsInjective(in)}
Digests(m, in) == [bank \in ToSet(in) |-> m.digest[bank]]

\* An extend in some of the banks, and its event.
Measure ==
  /\ at = "launched" /\ Len(log) < MaxEvents
  /\ \E pcr \in Pcrs, m \in Measured, in \in Orders :
       /\ tpm' = [bank \in DOMAIN tpm |->
                    [p \in Pcrs |-> IF p = pcr /\ bank \in ToSet(in) THEN Append(tpm[bank][p], m.digest[bank])
                                                                     ELSE tpm[bank][p]]]
       /\ log' = Append(log, Logged(Event(pcr, EV_SLAUNCH, Digests(m, in), m.data), in))
  /\ UNCHANGED <<banks, at, wire, lines, dump>>

\* A tag of the kernel's: logged in every bank, not extended, without data.
Tag ==
  /\ at = "launched" /\ Len(log) < MaxEvents
  /\ \E pcr \in Pcrs, m \in Measured :
       log' = Append(log, Logged(Event(pcr, EV_NO_ACTION, Digests(m, banks), << >>), banks))
  /\ UNCHANGED <<banks, tpm, at, wire, lines, dump>>

\* _event_log: the region as hex on one line.
Dump ==
  /\ at = "launched" /\ at' = "dumping"
  /\ \E bytes \in Dumps : wire' = <<Digits(Hex(bytes)), Newline>>
  /\ UNCHANGED <<banks, tpm, log, lines, dump>>

\* Xen reports its console's own traffic into the middle of it.
XenWrites ==
  /\ at = "dumping" /\ lines < MaxLines /\ lines' = lines + 1
  /\ \E i \in Cuts, s \in DOMAIN wire : LET of == wire[s].of IN
       /\ wire[s].what = "digits" /\ i <= Len(of)
       /\ wire' = SubSeq(wire, 1, s - 1)
                   \o <<Digits(SubSeq(of, 1, i)), XenLine, Newline, Digits(SubSeq(of, i + 1, Len(of)))>>
                   \o SubSeq(wire, s + 1, Len(wire))
  /\ UNCHANGED <<banks, tpm, log, at, dump>>

Read ==
  /\ at = "dumping" /\ at' = "read" /\ dump' = HexDump(wire)
  /\ UNCHANGED <<banks, tpm, log, wire, lines>>

Finished == at = "read" /\ UNCHANGED vars

Next == Measure \/ Tag \/ Dump \/ XenWrites \/ Read \/ Finished

Spec == Init /\ [][Next]_vars

-----------------------------------------------------------------------------
(* Properties.                                                             *)

\* The dump reads as what was logged, the banks and the events in order: Xen's
\* lines may land between a byte's two digits, trailing zeros may be dropped that
\* were the last event's, and an event may be in fewer banks than the header
\* declares (eventlog.py:54-56, console.py:71-78).
Events == [i \in DOMAIN log |-> log[i].event]
ReadsBack ==
  at = "read" =>
    /\ ~dump.refused /\ IsLog(dump.bytes)
    /\ BanksOf(dump.bytes) = banks /\ Parse(dump.bytes) = Events

\* What the log replays to is what the PCRs read, in every bank, although tags
\* are logged and not extended and some events extend one bank alone
\* (eventlog.py:81-85).
ReplayIsPcr ==
  at = "read" =>
    \A bank \in ToSet(banks), pcr \in Pcrs :
      Replay(Parse(dump.bytes), pcr, bank) = tpm[bank][pcr]
=============================================================================
