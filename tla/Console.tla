------------------------------ MODULE Console ------------------------------
(***************************************************************************)
(* The boot sequence of drtmtest/console.py, driven by conftest's _boot:   *)
(* the firmware's prompt, GRUB's menu or its shell, the banner, the login  *)
(* and commands at the shell.  What is typed at GRUB's shell is read off   *)
(* the image (GrubCfg).                                                    *)
(*                                                                         *)
(* Console sends keys and calls expect, and nothing else tells it where    *)
(* the guest is.  The console is what the guest drew, one mark per thing a *)
(* wait looks for; a wait consumes it up to the first mark that matches    *)
(* (ConsoleStream).  Keys wait in the serial port, in order, until the     *)
(* guest reads them.  The guest, here an actor of its own, is external: it *)
(* does what Console's comments say of the firmware, GRUB and the OS.      *)
(*                                                                         *)
(* A poll is far shorter than the firmware's and GRUB's own timeouts, so   *)
(* those are left out.                                                     *)
(***************************************************************************)
EXTENDS Naturals, Sequences, SequencesExt, GrubCfg

CONSTANTS
  Menu,      \* the titles of GRUB's entries, in order
  Longer,    \* pairs <<t, u>> of titles, t begins u: "*" + t is found in "*" + u
  Typed,     \* what is booted by typing it, in place of a title
  Images,    \* GRUB configurations of images, as blocks
  Entries,   \* typed boots: a title, a prelude, a parameter if any
  Commands,  \* commands run at the OS's shell
  Starved    \* a guest may take longer than KEY_TIMEOUT to read a key

Titled == ToSet(Menu)

\* A typed boot, line by line.
Read       == [what : {"command"}, word : STRING, args : Seq(STRING)]
Full(i, e) == e.prelude \o CommandsOf(FileOf(i), e.title, e.parameter)

ASSUME MenuAssumption ==
  /\ Menu \in Seq(Titled) /\ Menu # << >> /\ \A i, j \in DOMAIN Menu : Menu[i] = Menu[j] => i = j
  /\ Typed \notin Titled \cup {"none"} /\ Longer \subseteq Titled \X Titled
ASSUME ImagesAssumption ==
  /\ \A i \in Images : IsConfig(i)
  /\ \A e \in Entries : e.prelude \in Seq(Read) /\ e.parameter \in Seq(STRING) /\ Len(e.parameter) <= 1
ASSUME CountsAssumption == Commands \in Nat /\ Starved \in BOOLEAN

VARIABLES
  goal,      \* the title to select, or Typed
  image,     \* the image's configuration
  entry,     \* the boot to type
  lines,     \* what is typed of it
  pc,        \* where the boot's thread is
  step,      \* select_entry: the entry highlighted last
  tries,     \* _move_down: keys sent for this move
  count,     \* commands sent at GRUB's shell, then at the OS's
  outputs,   \* what `run` returned, in order
  console,   \* marks the guest has drawn
  answered,  \* wait_for_login has answered the loader's pause
  cursor,    \* how many of them the waits have consumed
  keys,      \* sent and not yet read
  guest,     \* who reads the keys
  highlight, \* the menu's highlighted entry
  paused,    \* the loader's pause is on the console
  booted,    \* the title booted, Typed, or "none"
  ran        \* history: the lines GRUB's shell has run

driverVars == <<pc, lines, step, tries, count, outputs, answered, cursor>>
guestVars  == <<console, guest, highlight, paused, booted, ran>>
boot       == <<goal, image, entry>>
vars == <<goal, image, entry, pc, lines, step, tries, count, outputs, answered, console, cursor, keys, guest,
          highlight, paused, booted, ran>>

\* A mark on the console, and a key or a line that ends with one.
Mark(what)    == [what |-> what, n |-> 0]
Output(n)     == [what |-> "output", n |-> n]
Star(i)       == [what |-> "star", n |-> i]
Key(k)        == [key |-> k, n |-> 0]
Line(n)       == [key |-> "line", n |-> n]

Init ==
  /\ goal \in Titled \cup {Typed}
  /\ IF goal = Typed THEN image \in Images /\ entry \in Entries
                     ELSE image = << >> /\ entry = << >>
  /\ guest \in {"firmware", "grub"}               \* boot_prompt
  /\ pc = IF goal = Typed THEN "commands" ELSE IF guest = "grub" THEN "menu" ELSE "firmware"
  /\ lines = << >>
  /\ step = 1 /\ tries = 0 /\ count = 0 /\ outputs = << >> /\ answered = FALSE
  /\ console = << >> /\ cursor = 0 /\ keys = << >>
  /\ highlight = 1 /\ paused = FALSE /\ booted = "none" /\ ran = << >>

-----------------------------------------------------------------------------
(* The guest.                                                              *)

GuestFrame == UNCHANGED <<boot, driverVars>>
Draws(marks) == console' = console \o marks
Drawn(what)  == \E i \in DOMAIN console : console[i].what = what

\* The firmware's prompt, then GRUB's menu with MENU_READY under it.
FirmwarePrompts ==
  /\ guest = "firmware" /\ ~Drawn("enter") /\ Draws(<<Mark("enter")>>)
  /\ UNCHANGED <<keys, guest, highlight, paused, booted, ran>> /\ GuestFrame
GrubDrawsMenu ==
  /\ guest = "grub" /\ guest' = "menu" /\ Draws(<<Star(1), Mark("ready")>>)
  /\ UNCHANGED <<keys, highlight, paused, booted, ran>> /\ GuestFrame

\* The guest reads the next key.
Reads(k) == keys # << >> /\ Head(keys).key = k /\ keys' = Tail(keys)

FirmwareReads ==
  /\ guest = "firmware" /\ Drawn("enter") /\ Reads("enter") /\ guest' = "grub"
  /\ UNCHANGED <<console, highlight, paused, booted, ran>> /\ GuestFrame

\* The highlight moves and is drawn; on the last entry it stays.
MenuMoves ==
  /\ guest = "menu" /\ Reads("down")
  /\ highlight' = IF highlight < Len(Menu) THEN highlight + 1 ELSE highlight
  /\ Draws(IF highlight < Len(Menu) THEN <<Star(highlight + 1)>> ELSE << >>)
  /\ UNCHANGED <<guest, paused, booted, ran>> /\ GuestFrame

\* A starved guest reads the escape sequence as three plain keys.
MenuMisreads ==
  /\ guest = "menu" /\ Reads("down")
  /\ UNCHANGED guestVars /\ GuestFrame

MenuBoots ==
  /\ guest = "menu" /\ Reads("enter") /\ guest' = "loading" /\ booted' = Menu[highlight]
  /\ UNCHANGED <<console, highlight, paused, ran>> /\ GuestFrame

\* `c` enters GRUB's shell, which draws its prompt after a command.  It may not, for
\* it asks for the rest of a group with another: the wait for it times out.
GrubShell ==
  /\ guest = "menu" /\ Reads("c") /\ guest' = "shell of grub" /\ Draws(<<Mark("grub")>>)
  /\ UNCHANGED <<highlight, paused, booted, ran>> /\ GuestFrame
GrubReadsLine ==
  /\ guest = "shell of grub" /\ Reads("line")
  /\ LET n == Head(keys).n IN
       IF n = 0 THEN guest' = "loading" /\ booted' = Typed /\ UNCHANGED ran       \* boot
                ELSE guest' = "grub runs" /\ ran' = Append(ran, lines[n]) /\ UNCHANGED booted
  /\ UNCHANGED <<console, highlight, paused>> /\ GuestFrame
GrubRanLine ==
  /\ guest = "grub runs" /\ guest' = "shell of grub" /\ Draws(<<Mark("grub")>>)
  /\ UNCHANGED <<keys, highlight, paused, booted, ran>> /\ GuestFrame

\* The loader's pause, which a key ends or its own timeout.
LoaderPauses ==
  /\ guest = "loading" /\ ~paused /\ paused' = TRUE /\ Draws(<<Mark("any key")>>)
  /\ UNCHANGED <<keys, guest, highlight, booted, ran>> /\ GuestFrame
LoaderEnds ==
  /\ guest = "loading" /\ guest' = "kernel" /\ Draws(<<Mark("banner")>>)
  /\ keys' = IF paused /\ keys # << >> THEN Tail(keys) ELSE keys
  /\ UNCHANGED <<highlight, paused, booted, ran>> /\ GuestFrame
LoaderTimesOut ==
  /\ guest = "loading" /\ paused /\ guest' = "kernel" /\ Draws(<<Mark("banner")>>)
  /\ UNCHANGED <<keys, highlight, paused, booted, ran>> /\ GuestFrame

\* getty, then the shell.  An empty line at either draws its prompt again.
KernelDone ==
  /\ guest = "kernel" /\ guest' = "getty" /\ Draws(<<Mark("login")>>)
  /\ UNCHANGED <<keys, highlight, paused, booted, ran>> /\ GuestFrame
GettyReads ==
  /\ guest = "getty"
  /\ \/ Reads("enter") /\ Draws(<<Mark("login")>>) /\ UNCHANGED guest
     \/ Reads("root") /\ Draws(<<Mark("shell")>>) /\ guest' = "shell"
  /\ UNCHANGED <<highlight, paused, booted, ran>> /\ GuestFrame
ShellReads ==
  /\ guest = "shell"
  /\ \/ Reads("enter") /\ Draws(<<Mark("shell")>>)
     \/ Reads("line") /\ Draws(<<Output(Head(keys).n), Mark("shell")>>)
  /\ UNCHANGED <<guest, highlight, paused, booted, ran>> /\ GuestFrame

\* A panic, on the console.
Panics ==
  /\ guest \in {"loading", "kernel"} /\ guest' = "dead" /\ Draws(<<Mark("failure")>>)
  /\ UNCHANGED <<keys, highlight, paused, booted, ran>> /\ GuestFrame

Guest ==
  \/ FirmwarePrompts \/ GrubDrawsMenu \/ FirmwareReads \/ MenuMoves \/ MenuMisreads \/ MenuBoots
  \/ GrubShell \/ GrubReadsLine \/ GrubRanLine \/ LoaderPauses \/ LoaderEnds \/ LoaderTimesOut
  \/ KernelDone \/ GettyReads \/ ShellReads \/ Panics

-----------------------------------------------------------------------------
(* The driver.                                                             *)

DriverFrame == UNCHANGED <<boot, guestVars>>
Sends(k) == keys' = Append(keys, k)

\* A wait's needle, and the step that finds it: the first one past the cursor.
Needle(marks, p) == p \in cursor + 1 .. Len(console) /\ console[p] \in marks
Finds(marks, p)  == Needle(marks, p) /\ \A q \in cursor + 1 .. p - 1 : console[q] \notin marks
Absent(marks)    == \A p \in cursor + 1 .. Len(console) : console[p] \notin marks
Consumes(marks)  == \E p \in DOMAIN console : Finds(marks, p) /\ cursor' = p

\* _boot: what is to be typed is read off the image first.  An image without the
\* entry, or without the kernel's line in it, ends the boot.
ReadImage ==
  /\ pc = "commands"
  /\ IF Refuses(FileOf(image), entry.title, entry.parameter)
     THEN pc' = "failed" /\ UNCHANGED lines
     ELSE /\ pc' = IF guest = "firmware" THEN "firmware" ELSE "menu"
          /\ lines' = Full(image, entry)
  /\ UNCHANGED <<keys, step, tries, count, outputs, answered, cursor>> /\ DriverFrame

\* _menu: ENTER at the firmware's prompt.
AnswerFirmware ==
  /\ pc = "firmware" /\ Consumes({Mark("enter")}) /\ Sends(Key("enter")) /\ pc' = "menu"
  /\ UNCHANGED <<lines, step, tries, count, outputs, answered>> /\ DriverFrame

\* _menu: the titles are read; type_entry goes on with `c`.
SeeMenu ==
  /\ pc = "menu" /\ Consumes({Mark("ready")})
  /\ IF goal = Typed THEN Sends(Key("c")) /\ pc' = "grub" ELSE pc' = "press" /\ UNCHANGED keys
  /\ UNCHANGED <<lines, step, tries, count, outputs, answered>> /\ DriverFrame

\* titles.index(title).  menu_titles reads each entry of the menu once.
Wanted == CHOOSE i \in DOMAIN Menu : Menu[i] = goal

\* _move_down: one Down, ...
Press ==
  /\ pc = "press" /\ step < Wanted /\ pc' = "move"
  /\ Sends(Key("down")) /\ tries' = tries + 1
  /\ UNCHANGED <<lines, step, count, outputs, answered, cursor>> /\ DriverFrame

\* Mutant: two keys for the whole way.
MovedStill == tries

\* ... until GRUB draws the highlight on the next title, or on one it begins.
Expected == {Star(i) : i \in {j \in DOMAIN Menu :
               Menu[j] = Menu[step + 1] \/ <<Menu[step + 1], Menu[j]>> \in Longer}}
AfterMove == 0
Moved ==
  /\ pc = "move" /\ Consumes(Expected) /\ pc' = "press" /\ step' = step + 1 /\ tries' = AfterMove
  /\ UNCHANGED <<keys, lines, count, outputs, answered>> /\ DriverFrame

\* Mutant: a move that drew nothing is taken for one.
TakenForMove == pc' = "press" /\ step' = step + 1 /\ tries' = 0

\* KEY_TIMEOUT: the key is sent once more, then select_entry raises.
TryAgain ==
  /\ pc' = IF tries < 2 THEN "press" ELSE "failed"
  /\ UNCHANGED <<step, tries>>
MoveTimesOut ==
  /\ pc = "move" /\ Absent(Expected) /\ (Starved \/ keys = << >>) /\ TryAgain
  /\ UNCHANGED <<keys, lines, count, outputs, answered, cursor>> /\ DriverFrame

\* The highlight is on the title.
Choose ==
  /\ pc = "press" /\ step = Wanted /\ Sends(Key("enter")) /\ pc' = "banner"
  /\ UNCHANGED <<lines, step, tries, count, outputs, answered, cursor>> /\ DriverFrame

\* Mutant: the prompt may be one that was seen before.
PromptSeen == Drawn("grub") /\ UNCHANGED cursor

\* type_entry: a command at every prompt, the last of them `boot`.
GrubPrompt == Consumes({Mark("grub")})
TypeLine ==
  /\ pc = "grub" /\ GrubPrompt
  /\ IF count < Len(lines)
     THEN Sends(Line(count + 1)) /\ count' = count + 1 /\ UNCHANGED pc
     ELSE Sends(Line(0)) /\ count' = 0 /\ pc' = "banner"
  /\ UNCHANGED <<lines, step, tries, outputs, answered>> /\ DriverFrame

\* wait_for_login: the pause is answered while the banner is waited for.
AnswerPause ==
  /\ pc = "banner" /\ ~Absent({Mark("any key")}) /\ ~answered
  /\ answered' = TRUE /\ Sends(Key("enter"))
  /\ UNCHANGED <<pc, lines, step, tries, count, outputs, cursor>> /\ DriverFrame
SeeBanner ==
  /\ pc = "banner" /\ Consumes({Mark("banner")}) /\ pc' = "login"
  /\ UNCHANGED <<keys, lines, step, tries, count, outputs, answered>> /\ DriverFrame

\* Mutant: the shell's first prompt is not waited for.
LoginUnseen ==
  /\ pc = "login" /\ Consumes({Mark("login")}) /\ Sends(Key("root")) /\ pc' = "run"
  /\ UNCHANGED <<lines, step, tries, count, outputs, answered>> /\ DriverFrame

\* login
Login ==
  /\ pc = "login" /\ Consumes({Mark("login")}) /\ Sends(Key("root")) /\ pc' = "shell"
  /\ UNCHANGED <<lines, step, tries, count, outputs, answered>> /\ DriverFrame
SeeShell ==
  /\ pc = "shell" /\ Consumes({Mark("shell")}) /\ pc' = "run"
  /\ UNCHANGED <<keys, lines, step, tries, count, outputs, answered>> /\ DriverFrame

\* run: the command, then what came before the next prompt.
Run ==
  /\ pc = "run"
  /\ IF count < Commands
     THEN Sends(Line(count + 1)) /\ count' = count + 1 /\ pc' = "reply"
     ELSE pc' = "done" /\ UNCHANGED <<keys, count>>
  /\ UNCHANGED <<lines, step, tries, outputs, answered, cursor>> /\ DriverFrame
Reply ==
  /\ pc = "reply" /\ Consumes({Mark("shell")}) /\ pc' = "run"
  /\ outputs' = Append(outputs, SubSeq(console, cursor + 1, cursor' - 1))
  /\ UNCHANGED <<keys, lines, step, tries, count, answered>> /\ DriverFrame

\* A panic ends the waits for the banner and the login, a timeout any wait
\* but a move's, and an image that cannot be read the boot before its keys.
Gives(mark) == \E p \in DOMAIN console :
                 Finds({Mark("failure"), mark}, p) /\ console[p] = Mark("failure")
EndBoot ==
  /\ \/ pc = "banner" /\ Gives(Mark("banner"))
     \/ pc = "login" /\ Gives(Mark("login"))
     \/ pc \in {"commands", "firmware", "menu", "grub", "banner", "login", "shell", "reply"}
  /\ pc' = "failed"
  /\ UNCHANGED <<keys, lines, step, tries, count, outputs, answered, cursor>> /\ DriverFrame

Driver ==
  \/ ReadImage \/ AnswerFirmware \/ SeeMenu \/ Press \/ Moved \/ MoveTimesOut \/ Choose \/ TypeLine
  \/ AnswerPause \/ SeeBanner \/ Login \/ SeeShell \/ Run \/ Reply \/ EndBoot

Finished == pc \in {"done", "failed"} /\ UNCHANGED vars

Next == Driver \/ Guest \/ Finished

Spec == Init /\ [][Next]_vars

-----------------------------------------------------------------------------
Marks == [what : {"enter", "ready", "star", "grub", "any key", "banner", "login", "shell",
                  "output", "failure"}, n : Nat]

TypeOK ==
  /\ goal \in Titled \cup {Typed}
  /\ pc \in {"commands", "firmware", "menu", "press", "move", "grub", "banner", "login", "shell", "run",
             "reply", "done", "failed"}
  /\ step \in 1 .. Len(Menu) /\ tries \in 0 .. 2     \* two keys a move
  /\ count \in 0 .. Len(lines) \cup 0 .. Commands /\ Len(ran) <= Len(lines)
  /\ outputs \in Seq(Seq(Marks)) /\ answered \in BOOLEAN
  /\ console \in Seq(Marks) /\ cursor \in 0 .. Len(console)
  /\ keys \in Seq([key : {"enter", "down", "c", "line", "root"}, n : Nat])
  /\ guest \in {"firmware", "grub", "menu", "shell of grub", "grub runs", "loading", "kernel",
                "getty", "shell", "dead"}
  /\ highlight \in 1 .. Len(Menu) /\ paused \in BOOLEAN
  /\ booted \in Titled \cup {Typed, "none"}

\* select_entry "picks `title` in GRUB's menu": what boots is what was asked
\* for, though keys are lost on the way and one title may begin another.
PicksTitle == booted # "none" => booted = goal

\* A line is typed at GRUB's shell only when the one before it has run and its
\* prompt is back: nothing is typed into a running command (console.py:144-145).
TypedInTurn ==
  [][(pc = "grub" /\ Len(keys') > Len(keys)) => (guest = "shell of grub" /\ keys = << >>)]_vars

\* The commands of a body, comments left out, up to a brace on a line of its own.
Braced(body, i)  == \E j \in 1 .. i : body[j].what = "close"
Counted(body, i) == body[i].what = "command" /\ ~Braced(body, i)
CommandsIn(body) ==
  LET Upto[i \in 0 .. Len(body)] ==
        IF i = 0 THEN << >>
        ELSE IF Counted(body, i) THEN Append(Upto[i - 1], body[i]) ELSE Upto[i - 1]
  IN Upto[Len(body)]

\* A typed boot runs, at GRUB's shell, its prelude and then the commands of an entry
\* of the image with that title, in their order, the parameter on the kernel's line
\* alone: all of them if no line of the entry is a closing brace, else those before
\* the first such line; whatever functions, submenus and entries with options stand
\* around it (grubcfg.py:57-72, 77, console.py:137-140).
TypesTheEntry ==
  booted = Typed =>
    \E b \in DOMAIN image :
      /\ image[b].what = "menuentry" /\ image[b].name = entry.title
      /\ LET picked == CommandsIn(image[b].body)
             Asked(line) == IF line.word = "linux" THEN [line EXCEPT !.args = @ \o entry.parameter] ELSE line
         IN ran = entry.prelude \o [i \in DOMAIN picked |-> Asked(picked[i])]

\* What `run` returns for a command is that command's output and no other's,
\* although the answer to the loader's pause may arrive at the login.
OwnOutput == \A i \in DOMAIN outputs : outputs[i] = <<Output(i)>>
=============================================================================
