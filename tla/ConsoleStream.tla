--------------------------- MODULE ConsoleStream ---------------------------
(***************************************************************************)
(* What a boot's console promises its driver (QemuVm's docstring): the     *)
(* guest's text only grows, and a wait that succeeds consumes it up to the *)
(* end of the first appearance of the needle, so one prompt seen twice is  *)
(* two matches.                                                            *)
(***************************************************************************)
EXTENDS Naturals, Sequences

CONSTANTS
  Symbols,   \* what text is made of
  Needles    \* what may be waited for: non-empty sequences of symbols

VARIABLES
  text,      \* everything the guest has printed
  cursor     \* how much of it the driver's matches have consumed

vars == <<text, cursor>>

\* `pat` stands in `t` after the first `at` symbols and ends within `to`.
StandsAt(t, pat, at, to) ==
  at + Len(pat) <= to /\ \A i \in 1 .. Len(pat) : t[at + i] = pat[i]

\* Where `pat` starts in `t`, between `from` and `to`.
Starts(t, pat, from, to) == {at \in from .. to : StandsAt(t, pat, at, to)}

\* `at` is where bytes.find finds `pat`.
FoundAt(t, pat, from, to, at) ==
  at \in Starts(t, pat, from, to) /\ \A b \in Starts(t, pat, from, to) : at <= b

Init == text = << >> /\ cursor = 0

Prints == \E s \in Symbols : text' = Append(text, s) /\ UNCHANGED cursor

Match(needle) ==
  /\ \E at \in 0 .. Len(text) :
       FoundAt(text, needle, cursor, Len(text), at) /\ cursor' = at + Len(needle)
  /\ UNCHANGED text

Next == Prints \/ \E n \in Needles : Match(n)

Spec == Init /\ [][Next]_vars
=============================================================================
