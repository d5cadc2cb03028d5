------------------------------ MODULE GrubCfg ------------------------------
(***************************************************************************)
(* GRUB's configuration as drtmtest/grubcfg.py reads it: the commands of   *)
(* its menu entries, a kernel parameter added if asked.                    *)
(*                                                                         *)
(* A file is a sequence of lines, each without the white space around it.  *)
(* A command is its first word and the rest.  Reading the file off the     *)
(* image, and the quoting of a title, are left out.                        *)
(***************************************************************************)
EXTENDS Naturals, Sequences, SequencesExt

FileLine(what, word, args) == [what |-> what, word |-> word, args |-> args]
Command(word, args) == FileLine("command", word, args)
Noise == {"comment", "blank"}

\* found[title] = commands
Put(found, title, commands) ==
  [t \in DOMAIN found \cup {title} |-> IF t = title THEN commands ELSE found[t]]

\* entries, line by line: outside an entry until a menuentry begins one, then in
\* it until a closing brace.
Reading(inside, title, found) == [inside |-> inside, title |-> title, found |-> found]
ReadLine(st, line) ==
  IF ~st.inside
  THEN IF line.what = "menuentry"
       THEN Reading(TRUE, line.word, Put(st.found, line.word, << >>)) ELSE st
  ELSE IF line.what = "close" THEN Reading(FALSE, st.title, st.found)
  ELSE IF line.what \in Noise THEN st
  ELSE Reading(TRUE, st.title, Put(st.found, st.title, Append(st.found[st.title], line)))
EntriesOf(file) ==
  LET After[i \in 0 .. Len(file)] ==
        IF i = 0 THEN Reading(FALSE, "none", << >>) ELSE ReadLine(After[i - 1], file[i])
  IN After[Len(file)].found

\* Mutant: every command has the parameter.
EveryCommand(commands, parameter) ==
  [i \in DOMAIN commands |-> [commands[i] EXCEPT !.args = Append(@, parameter)]]

\* with_parameter, on commands that have a kernel's line.
HasKernel(commands) == \E i \in DOMAIN commands : commands[i].word = "linux"
WithParameter(commands, parameter) ==
  [i \in DOMAIN commands |->
     IF commands[i].word = "linux" THEN [commands[i] EXCEPT !.args = Append(@, parameter)]
                                   ELSE commands[i]]

\* commands: where it raises LookupError, and what it returns otherwise.  A
\* parameter is a sequence, empty for none.
Refuses(file, title, parameter) ==
  \/ title \notin DOMAIN EntriesOf(file)
  \/ parameter # << >> /\ ~HasKernel(EntriesOf(file)[title])
CommandsOf(file, title, parameter) ==
  LET found == EntriesOf(file)[title] IN
  IF parameter = << >> THEN found ELSE WithParameter(found, parameter[1])

-----------------------------------------------------------------------------
(* External: an image's file, in blocks.  An entry begins with a line the  *)
(* reader knows, a title in quotes and a brace (grubcfg.py:23), and runs   *)
(* to the brace that closes it; a group of commands in it may close on a   *)
(* line of its own.  Settings are any other lines: functions, and, for     *)
(* their first lines are not known, submenus and entries with options.     *)

Block(what, name, body) == [what |-> what, name |-> name, body |-> body]
BodyLine == [what : {"command", "close"} \cup Noise, word : STRING, args : Seq(STRING)]
IsConfig(blocks) ==
  blocks \in Seq([what : {"settings", "menuentry"}, name : STRING, body : Seq(BodyLine)])
LinesOf(block) ==
  IF block.what = "settings"
  THEN block.body
  ELSE <<FileLine("menuentry", block.name, << >>)>> \o block.body \o <<FileLine("close", "end", << >>)>>
FileOf(blocks) == FlattenSeq([i \in DOMAIN blocks |-> LinesOf(blocks[i])])
=============================================================================
