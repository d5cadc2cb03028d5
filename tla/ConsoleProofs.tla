--------------------------- MODULE ConsoleProofs ---------------------------
(***************************************************************************)
(* Theorems about Console, for any menu, images, typed boots and number of *)
(* commands.  The driver sees marks and nothing else, so the inductive     *)
(* invariants say what its place implies of the guest: how far it is, what *)
(* waits for it in the serial port and what it drew that no wait consumed. *)
(***************************************************************************)
EXTENDS Console, Induction, SequenceTheorems, TLAPS

\* What is on the console past the cursor.
Quiet     == cursor = Len(console)
One(m)    == Len(console) = cursor + 1 /\ console[cursor + 1] = m
Two(m, n) == Len(console) = cursor + 2 /\ console[cursor + 1] = m /\ console[cursor + 2] = n

\* What waits in the serial port.
Keys      == [key : {"enter", "down", "c", "line", "root"}, n : Nat]
Downs     == \A i \in DOMAIN keys : keys[i].key = "down"
Chosen    == /\ keys # << >> /\ keys[Len(keys)] = Key("enter")
             /\ \A i \in 1 .. Len(keys) - 1 : keys[i].key = "down"
AtMostEnter == keys = << >> \/ keys = <<Key("enter")>>

TablesInv ==
  /\ goal \in Titled \cup {Typed} /\ (goal = Typed => image \in Images /\ entry \in Entries)
  /\ step \in 1 .. Len(Menu) /\ tries \in 0 .. 2 /\ count \in Nat
  /\ outputs \in Seq(Seq(Marks)) /\ answered \in BOOLEAN
  /\ console \in Seq(Marks) /\ cursor \in 0 .. Len(console) /\ keys \in Seq(Keys)
  /\ highlight \in 1 .. Len(Menu) /\ paused \in BOOLEAN
  /\ booted \in Titled \cup {Typed, "none"}
  /\ lines \in Seq(Read) /\ ran \in Seq(Read)

\* What the guest has drawn tells how far it is.
Booting  == {"loading", "kernel", "getty", "shell", "dead"}
DrawnInv ==
  /\ guest \in {"firmware", "grub", "menu", "shell of grub", "grub runs"} \cup Booting
  /\ Drawn("shell") => guest = "shell"
  /\ Drawn("login") => guest \in {"getty", "shell"}
  /\ Drawn("banner") => guest \in Booting \ {"loading"}
  /\ Drawn("any key") => guest \in Booting

\* What the guest may read next, whatever the driver does meanwhile.
PortInv ==
  /\ guest = "firmware" => AtMostEnter
  /\ guest = "grub" => keys = << >>
  /\ guest = "menu" => IF goal = Typed THEN keys \in {<< >>, <<Key("c")>>} ELSE Downs \/ Chosen
  /\ guest \in {"shell of grub", "grub runs"} => goal = Typed
  /\ guest = "grub runs" => keys = << >>
  /\ guest = "shell of grub" =>
       \/ keys = << >>
       \/ keys = <<Line(Len(ran) + 1)>> /\ Len(ran) < Len(lines)
       \/ keys = <<Line(0)>> /\ Len(ran) = Len(lines)

\* What GRUB's shell has run is what was read off the image, up to some line.
RanInv ==
  /\ Len(ran) <= Len(lines) /\ \A i \in DOMAIN ran : ran[i] = lines[i]
  /\ guest \in {"firmware", "grub", "menu"} => ran = << >>
  /\ pc = "commands" => goal = Typed
  /\ goal = Typed /\ pc \notin {"commands", "failed"} => lines = Full(image, entry)
  /\ goal = Typed /\ guest = "menu" /\ keys # << >> => lines = Full(image, entry)
  /\ goal = Typed /\ guest \notin {"firmware", "grub", "menu"} => lines = Full(image, entry)
  /\ booted = Typed => ran = lines /\ goal = Typed /\ guest \in Booting

\* Where the guest is, as far as the driver's place tells.
PlaceInv ==
  /\ pc \in {"commands", "firmware", "menu"} =>
       /\ count = 0 /\ step = 1 /\ tries = 0 /\ ~answered /\ outputs = << >>
       /\ \/ guest = "firmware" /\ pc # "menu" /\ keys = << >> /\ cursor = 0 /\ (Quiet \/ One(Mark("enter")))
          \/ guest = "firmware" /\ pc = "menu" /\ keys = <<Key("enter")>> /\ Quiet /\ Drawn("enter")
          \/ guest = "grub" /\ pc # "firmware" /\ keys = << >> /\ Quiet
          \/ guest = "menu" /\ pc # "firmware" /\ keys = << >> /\ Two(Star(1), Mark("ready"))
  /\ pc \in {"press", "move"} =>
       /\ goal \in Titled /\ guest = "menu" /\ Downs /\ count = 0 /\ ~answered /\ outputs = << >>
       /\ step <= Wanted /\ (pc = "press" => tries < 2) /\ (pc = "move" => step < Wanted /\ tries > 0)
  /\ pc = "grub" =>
       /\ goal = Typed /\ ~answered /\ outputs = << >>
       /\ \/ guest = "menu" /\ keys = <<Key("c")>> /\ Quiet /\ count = 0
          \/ guest = "shell of grub" /\ keys = << >> /\ One(Mark("grub")) /\ count = Len(ran)
          \/ guest = "shell of grub" /\ keys = <<Line(count)>> /\ Quiet /\ count = Len(ran) + 1
          \/ guest = "grub runs" /\ keys = << >> /\ Quiet /\ count = Len(ran)
  /\ pc = "banner" =>
       /\ count = 0 /\ outputs = << >>
       /\ \/ guest = "menu" /\ goal \in Titled /\ ~answered /\ Chosen
          \/ guest = "shell of grub" /\ ~answered /\ keys = <<Line(0)>>
          \/ guest \in Booting \ {"shell"} /\ AtMostEnter /\ (keys # << >> => answered)
  /\ pc = "login" =>
       count = 0 /\ outputs = << >> /\ guest \in {"kernel", "getty", "dead"} /\ AtMostEnter
  /\ pc = "shell" =>
       /\ count = 0 /\ outputs = << >>
       /\ \/ guest = "getty" /\ keys \in {<<Key("root")>>, <<Key("enter"), Key("root")>>}
          \/ guest = "shell" /\ keys = << >> /\ cursor < Len(console)
             /\ \A p \in cursor + 1 .. Len(console) : console[p] = Mark("shell") <=> p = Len(console)
  /\ pc = "run" => guest = "shell" /\ keys = << >> /\ Quiet /\ count <= Commands /\ Len(outputs) = count
  /\ pc = "reply" =>
       /\ guest = "shell" /\ count \in 1 .. Commands /\ Len(outputs) + 1 = count
       /\ \/ keys = <<Line(count)>> /\ Quiet
          \/ keys = << >> /\ Two(Output(count), Mark("shell"))

IInv == /\ TablesInv /\ DrawnInv /\ PortInv /\ RanInv /\ PlaceInv
        /\ pc \in {"commands", "firmware", "menu", "press", "move", "grub", "banner", "login", "shell",
                   "run", "reply", "done", "failed"}
        /\ count \in 0 .. Len(lines) \cup 0 .. Commands
        /\ OwnOutput

\* No key was lost between the driver and the menu that the driver does not know of.
PickInv ==
  /\ guest = "menu" /\ Chosen => goal \in Titled /\ highlight = Wanted /\ Len(keys) = 1
  /\ guest \in {"firmware", "grub"} => highlight = 1
  /\ pc \in {"commands", "firmware", "menu"} => highlight = 1
  /\ pc = "press" => keys = << >> /\ Quiet /\ highlight = step
  /\ pc = "move" =>
       \/ Quiet /\ highlight = step /\ Len(keys) <= 1
       \/ One(Star(step + 1)) /\ highlight = step + 1 /\ keys = << >>
  /\ PicksTitle
-----------------------------------------------------------------------------
(* Menus, short sequences, marks and keys.                                 *)

\* The menu, and where in it the wanted title is.
LEMMA MenuFacts ==
  /\ Len(Menu) \in Nat /\ Len(Menu) >= 1 /\ DOMAIN Menu = 1 .. Len(Menu)
  /\ \A i \in 1 .. Len(Menu) : Menu[i] \in Titled
  /\ goal \in Titled => Wanted \in 1 .. Len(Menu) /\ Menu[Wanted] = goal
<1>1. Menu \in Seq(Titled) /\ Menu # << >>
  BY MenuAssumption
<1>2. Len(Menu) \in Nat /\ DOMAIN Menu = 1 .. Len(Menu) /\ Len(Menu) # 0
  BY <1>1, LenProperties, EmptySeq
<1>3. \A i \in 1 .. Len(Menu) : Menu[i] \in Titled
  BY <1>1, ElementOfSeq
<1>4. ASSUME goal \in Titled  PROVE Wanted \in 1 .. Len(Menu) /\ Menu[Wanted] = goal
  <2>1. PICK i \in DOMAIN Menu : Menu[i] = goal
    BY <1>4 DEF Titled, ToSet
  <2> QED  BY <1>2, <2>1 DEF Wanted
<1> QED  BY <1>2, <1>3, <1>4

\* Sequences of one and of two.
LEMMA Short ==
  ASSUME NEW a, NEW b
  PROVE  /\ Append(<< >>, a) = <<a>> /\ Append(<<a>>, b) = <<a, b>>
         /\ Head(<<a>>) = a /\ Tail(<<a>>) = << >> /\ Head(<<a, b>>) = a /\ Tail(<<a, b>>) = <<b>>
         /\ <<a>> # << >> /\ <<a, b>> # << >>
         /\ Len(<<a>>) = 1 /\ <<a>>[1] = a /\ Len(<<a, b>>) = 2 /\ <<a, b>>[1] = a /\ <<a, b>>[2] = b
<1>1. Append(<< >>, a) = <<a>>
  OBVIOUS
<1>2. Append(<<a>>, b) = <<a, b>>
  <2> DEFINE S == {a, b}
  <2>1. <<a>> \in Seq(S)
    OBVIOUS
  <2>2. <<a, b>> \in Seq(S)
    OBVIOUS
  <2>3. Len(<<a>>) = 1 /\ <<a>>[1] = a /\ Len(<<a, b>>) = 2 /\ <<a, b>>[1] = a /\ <<a, b>>[2] = b
    OBVIOUS
  <2>4. /\ Append(<<a>>, b) \in Seq(S) /\ Len(Append(<<a>>, b)) = 2
        /\ Append(<<a>>, b)[1] = a /\ Append(<<a>>, b)[2] = b
    BY <2>1, <2>3, AppendProperties
  <2>5. \A i \in 1 .. 2 : Append(<<a>>, b)[i] = <<a, b>>[i]
    BY <2>3, <2>4
  <2> QED  BY <2>2, <2>3, <2>4, <2>5, SeqEqual
<1>3. Head(<<a>>) = a /\ Head(<<a, b>>) = a
  OBVIOUS
<1>4. Tail(<<a>>) = << >>
  OBVIOUS
<1>5. Tail(<<a, b>>) = <<b>>
  OBVIOUS
<1>6. <<a>> # << >> /\ <<a, b>> # << >>
  OBVIOUS
<1>7. Len(<<a>>) = 1 /\ <<a>>[1] = a /\ Len(<<a, b>>) = 2 /\ <<a, b>>[1] = a /\ <<a, b>>[2] = b
  OBVIOUS
<1> QED  BY <1>1, <1>2, <1>3, <1>4, <1>5, <1>6, <1>7

\* What a guest draws comes after what it drew.
LEMMA DrawOne ==
  ASSUME NEW m \in Marks, console \in Seq(Marks), Draws(<<m>>)
  PROVE  /\ console' \in Seq(Marks) /\ Len(console) \in Nat /\ Len(console') = Len(console) + 1
         /\ \A i \in 1 .. Len(console) : console'[i] = console[i]
         /\ console'[Len(console) + 1] = m
         /\ \A w : Drawn(w)' <=> Drawn(w) \/ m.what = w
<1>1. <<m>> \in Seq(Marks) /\ Len(<<m>>) = 1 /\ <<m>>[1] = m
  OBVIOUS
<1>2. /\ console' \in Seq(Marks) /\ Len(console') = Len(console) + 1
      /\ \A i \in 1 .. Len(console') : console'[i] = IF i <= Len(console) THEN console[i]
                                                     ELSE <<m>>[i - Len(console)]
  BY <1>1, ConcatProperties DEF Draws
<1>3. Len(console) \in Nat /\ DOMAIN console = 1 .. Len(console) /\ DOMAIN console' = 1 .. Len(console')
  BY <1>2, LenProperties
<1>4. /\ \A i \in 1 .. Len(console) : console'[i] = console[i]
      /\ console'[Len(console) + 1] = m
  BY <1>1, <1>2, <1>3
<1>5. ASSUME NEW w  PROVE Drawn(w)' <=> Drawn(w) \/ m.what = w
  <2>1. Drawn(w)' => Drawn(w) \/ m.what = w
    BY <1>2, <1>3, <1>4 DEF Drawn
  <2>2. Drawn(w) => Drawn(w)'
    BY <1>2, <1>3, <1>4 DEF Drawn
  <2>3. m.what = w => Drawn(w)'
    <3>1. Len(console) + 1 \in DOMAIN console'
      BY <1>2, <1>3
    <3> QED  BY <1>4, <3>1 DEF Drawn
  <2> QED  BY <2>1, <2>2, <2>3
<1> QED  BY <1>2, <1>3, <1>4, <1>5

\* The same of two marks.
LEMMA DrawTwo ==
  ASSUME NEW m \in Marks, NEW n \in Marks, console \in Seq(Marks), Draws(<<m, n>>)
  PROVE  /\ console' \in Seq(Marks) /\ Len(console) \in Nat /\ Len(console') = Len(console) + 2
         /\ \A i \in 1 .. Len(console) : console'[i] = console[i]
         /\ console'[Len(console) + 1] = m /\ console'[Len(console) + 2] = n
         /\ \A w : Drawn(w)' <=> Drawn(w) \/ m.what = w \/ n.what = w
<1>1. <<m, n>> \in Seq(Marks) /\ Len(<<m, n>>) = 2 /\ <<m, n>>[1] = m /\ <<m, n>>[2] = n
  <2>1. <<m>> \in Seq(Marks)
    OBVIOUS
  <2>2. Append(<<m>>, n) = <<m, n>>
    BY Short
  <2>3. <<m, n>> \in Seq(Marks)
    BY <2>1, <2>2, AppendProperties
  <2> QED  BY <2>3, Short
<1>2. /\ console' \in Seq(Marks) /\ Len(console') = Len(console) + 2
      /\ \A i \in 1 .. Len(console') : console'[i] = IF i <= Len(console) THEN console[i]
                                                     ELSE <<m, n>>[i - Len(console)]
  BY <1>1, ConcatProperties DEF Draws
<1>3. Len(console) \in Nat /\ DOMAIN console = 1 .. Len(console) /\ DOMAIN console' = 1 .. Len(console')
  BY <1>2, LenProperties
<1>4. /\ \A i \in 1 .. Len(console) : console'[i] = console[i]
      /\ console'[Len(console) + 1] = m /\ console'[Len(console) + 2] = n
  BY <1>1, <1>2, <1>3
<1>5. ASSUME NEW w  PROVE Drawn(w)' <=> Drawn(w) \/ m.what = w \/ n.what = w
  <2>1. Drawn(w)' => Drawn(w) \/ m.what = w \/ n.what = w
    <3> SUFFICES ASSUME NEW i \in 1 .. Len(console) + 2, console'[i].what = w
                 PROVE  Drawn(w) \/ m.what = w \/ n.what = w
      BY <1>2, <1>3 DEF Drawn
    <3>1. i \in 1 .. Len(console) \/ i = Len(console) + 1 \/ i = Len(console) + 2
      BY <1>3
    <3> QED  BY <1>3, <1>4, <3>1 DEF Drawn
  <2>2. Drawn(w) => Drawn(w)'
    BY <1>2, <1>3, <1>4 DEF Drawn
  <2>3. m.what = w \/ n.what = w => Drawn(w)'
    <3>1. Len(console) + 1 \in DOMAIN console' /\ Len(console) + 2 \in DOMAIN console'
      BY <1>2, <1>3
    <3> QED  BY <1>4, <3>1 DEF Drawn
  <2> QED  BY <2>1, <2>2, <2>3
<1> QED  BY <1>2, <1>3, <1>4, <1>5

\* Marks and keys are what their names say.
LEMMA MarkFacts ==
  /\ \A w \in {"enter", "ready", "grub", "any key", "banner", "login", "shell", "failure"} :
       Mark(w) \in Marks /\ Mark(w).what = w
  /\ \A n \in Nat : /\ Star(n) \in Marks /\ Star(n).what = "star"
                    /\ Output(n) \in Marks /\ Output(n).what = "output"
BY DEF Mark, Star, Output, Marks

\* The same of keys.
LEMMA KeyFacts ==
  /\ \A k \in {"enter", "down", "c", "root"} : Key(k) \in Keys /\ Key(k).key = k
  /\ \A n \in Nat : Line(n) \in Keys /\ Line(n).key = "line" /\ Line(n).n = n
BY DEF Key, Line, Keys

\* A wait that succeeds has found its needle past the cursor.
LEMMA ConsumesFacts ==
  ASSUME TablesInv, NEW marks, Consumes(marks)
  PROVE  /\ cursor' \in cursor + 1 .. Len(console) /\ console[cursor'] \in marks
         /\ \A q \in cursor + 1 .. cursor' - 1 : console[q] \notin marks
         /\ cursor' \in DOMAIN console /\ cursor' \in Nat /\ Len(console) \in Nat /\ cursor \in Nat
<1>1. Len(console) \in Nat /\ DOMAIN console = 1 .. Len(console) /\ cursor \in 0 .. Len(console)
  BY LenProperties DEF TablesInv
<1> QED  BY <1>1 DEF Consumes, Finds, Needle

\* What no wait has consumed has been drawn.
LEMMA LeftDrawn ==
  ASSUME TablesInv, NEW m
  PROVE  /\ One(m) => Drawn(m.what)
         /\ \A n : Two(m, n) => Drawn(m.what) /\ Drawn(n.what)
<1>1. Len(console) \in Nat /\ DOMAIN console = 1 .. Len(console) /\ cursor \in 0 .. Len(console)
  BY LenProperties DEF TablesInv
<1>2. One(m) => cursor + 1 \in DOMAIN console
  BY <1>1 DEF One
<1>3. \A n : Two(m, n) => cursor + 1 \in DOMAIN console /\ cursor + 2 \in DOMAIN console
  BY <1>1 DEF Two
<1> QED  BY <1>2, <1>3 DEF One, Two, Drawn

\* What is consumed stays within what is drawn.
LEMMA CursorStays ==
  ASSUME TablesInv, console' \in Seq(Marks), Len(console) <= Len(console'), cursor' = cursor
  PROVE  cursor' \in 0 .. Len(console')
<1>1. Len(console) \in Nat /\ Len(console') \in Nat /\ cursor \in 0 .. Len(console)
  BY LenProperties DEF TablesInv
<1> QED  BY <1>1

\* The keys left when the first is read.
LEMMA ReadsFacts ==
  ASSUME TablesInv, NEW k, Reads(k)
  PROVE  /\ keys' \in Seq(Keys) /\ Head(keys) \in Keys /\ Head(keys) = keys[1] /\ keys[1].key = k
         /\ Len(keys) \in Nat \ {0} /\ Len(keys') = Len(keys) - 1
         /\ DOMAIN keys = 1 .. Len(keys) /\ DOMAIN keys' = 1 .. Len(keys')
         /\ \A i \in 1 .. Len(keys') : keys'[i] = keys[i + 1]
         /\ \A a : keys = <<a>> => keys' = << >> /\ keys[1] = a
         /\ \A a, b : keys = <<a, b>> => keys' = <<b>> /\ keys[1] = a
<1>1. keys \in Seq(Keys) /\ keys # << >> /\ Head(keys).key = k /\ keys' = Tail(keys)
  BY DEF TablesInv, Reads
<1>2. /\ keys' \in Seq(Keys) /\ Head(keys) \in Keys /\ Head(keys) = keys[1] /\ keys[1].key = k
      /\ Len(keys) \in Nat \ {0} /\ Len(keys') = Len(keys) - 1
      /\ \A i \in 1 .. Len(keys') : keys'[i] = keys[i + 1]
  BY <1>1, HeadTailProperties, EmptySeq, LenProperties
<1>3. DOMAIN keys = 1 .. Len(keys) /\ DOMAIN keys' = 1 .. Len(keys')
  BY <1>1, <1>2, LenProperties
<1>4. \A a : keys = <<a>> => keys' = << >> /\ keys[1] = a
  BY <1>1, <1>2, Short
<1>5. ASSUME NEW a, NEW b, keys = <<a, b>>  PROVE keys' = <<b>> /\ keys[1] = a
  <2>1. Tail(<<a, b>>) = <<b>> /\ <<a, b>>[1] = a
    BY Short
  <2> QED  BY <1>1, <1>5, <2>1
<1> QED  BY <1>2, <1>3, <1>4, <1>5
-----------------------------------------------------------------------------
(* The guest's steps.                                                      *)

\* The firmware's prompt.
LEMMA FirmwarePromptsStep ==
  ASSUME IInv, FirmwarePrompts
  PROVE  IInv'
<1> USE DEF GuestFrame, boot, driverVars
<1>1. console \in Seq(Marks) /\ Mark("enter") \in Marks /\ Draws(<<Mark("enter")>>)
  BY MarkFacts DEF IInv, TablesInv, FirmwarePrompts
<1>2. /\ console' \in Seq(Marks) /\ Len(console) \in Nat /\ Len(console') = Len(console) + 1
      /\ \A i \in 1 .. Len(console) : console'[i] = console[i]
      /\ console'[Len(console) + 1] = Mark("enter")
      /\ \A w : Drawn(w)' <=> Drawn(w) \/ w = "enter"
  BY <1>1, DrawOne, MarkFacts
<1>3. One(Mark("enter")) => Drawn("enter")
  BY LeftDrawn, MarkFacts DEF IInv
<1>4. TablesInv'
  BY <1>2 DEF IInv, TablesInv, FirmwarePrompts
<1>5. DrawnInv'
  BY <1>2 DEF IInv, DrawnInv, FirmwarePrompts, Booting
<1>6. PortInv'
  BY DEF IInv, PortInv, FirmwarePrompts, AtMostEnter, Downs, Chosen
<1>7. RanInv'
  BY DEF IInv, RanInv, FirmwarePrompts, Booting
<1>8. PlaceInv'
  BY <1>2, <1>3 DEF IInv, PlaceInv, FirmwarePrompts, Booting, Quiet, One, Two, TablesInv
<1>9. OwnOutput'
  BY DEF IInv, OwnOutput, FirmwarePrompts
<1> QED  BY <1>4, <1>5, <1>6, <1>7, <1>8, <1>9 DEF IInv, FirmwarePrompts

\* GRUB's menu.
LEMMA GrubDrawsMenuStep ==
  ASSUME IInv, GrubDrawsMenu
  PROVE  IInv'
<1> USE DEF GuestFrame, boot, driverVars
<1>1. /\ console' \in Seq(Marks) /\ Len(console) \in Nat /\ Len(console') = Len(console) + 2
      /\ \A i \in 1 .. Len(console) : console'[i] = console[i]
      /\ console'[Len(console) + 1] = Star(1) /\ console'[Len(console) + 2] = Mark("ready")
      /\ \A w : Drawn(w)' <=> Drawn(w) \/ w = "star" \/ w = "ready"
  <2>1. console \in Seq(Marks) /\ Draws(<<Star(1), Mark("ready")>>)
    BY DEF IInv, TablesInv, GrubDrawsMenu
  <2>2. Star(1) \in Marks /\ Mark("ready") \in Marks /\ Star(1).what = "star" /\ Mark("ready").what = "ready"
    BY MarkFacts
  <2> QED  BY <2>1, <2>2, DrawTwo
<1>2. keys = << >> /\ DOMAIN keys = {}
  BY DEF IInv, PortInv, GrubDrawsMenu
<1>3. TablesInv'
  BY <1>1 DEF IInv, TablesInv, GrubDrawsMenu
<1>4. DrawnInv'
  BY <1>1 DEF IInv, DrawnInv, GrubDrawsMenu, Booting
<1>5. PortInv'
  BY <1>2 DEF IInv, PortInv, GrubDrawsMenu, AtMostEnter, Downs
<1>6. RanInv'
  BY <1>2 DEF IInv, RanInv, GrubDrawsMenu, Booting
<1>7. PlaceInv'
  BY <1>1 DEF IInv, PlaceInv, GrubDrawsMenu, Booting, Quiet, One, Two, TablesInv
<1>8. OwnOutput'
  BY DEF IInv, OwnOutput, GrubDrawsMenu
<1> QED  BY <1>3, <1>4, <1>5, <1>6, <1>7, <1>8 DEF IInv, GrubDrawsMenu

\* The firmware's ENTER.
LEMMA FirmwareReadsStep ==
  ASSUME IInv, FirmwareReads
  PROVE  IInv'
<1> USE DEF GuestFrame, boot, driverVars
<1>1. Reads("enter") /\ TablesInv
  BY DEF IInv, FirmwareReads
<1>2. keys = <<Key("enter")>> /\ keys' = << >> /\ keys' \in Seq(Keys) /\ keys # << >>
  BY <1>1, ReadsFacts DEF IInv, PortInv, AtMostEnter, FirmwareReads, Reads
<1>3. TablesInv'
  BY <1>2 DEF IInv, TablesInv, FirmwareReads
<1>4. DrawnInv'
  BY DEF IInv, DrawnInv, FirmwareReads, Booting, Drawn
<1>5. PortInv'
  BY <1>2 DEF IInv, PortInv, FirmwareReads
<1>6. RanInv'
  BY <1>2 DEF IInv, RanInv, FirmwareReads, Booting
<1>7. PlaceInv'
  BY <1>2 DEF IInv, PlaceInv, FirmwareReads, Booting, Quiet
<1>8. OwnOutput'
  BY DEF IInv, OwnOutput, FirmwareReads
<1> QED  BY <1>3, <1>4, <1>5, <1>6, <1>7, <1>8 DEF IInv, FirmwareReads

\* A key the menu takes for Down, whether or not it moves.
LEMMA MenuKeyGone ==
  ASSUME IInv, guest = "menu", Reads("down")
  PROVE  /\ keys' \in Seq(Keys) /\ keys # << >> /\ goal # Typed
         /\ pc \notin {"commands", "firmware", "menu", "grub"}
         /\ Downs => Downs'
         /\ Chosen => Chosen' /\ Len(keys) # 1
<1>1. TablesInv
  BY DEF IInv
<1>2. /\ keys' \in Seq(Keys) /\ keys[1].key = "down" /\ keys # << >>
      /\ Len(keys) \in Nat \ {0} /\ Len(keys') = Len(keys) - 1
      /\ DOMAIN keys = 1 .. Len(keys) /\ DOMAIN keys' = 1 .. Len(keys')
      /\ \A i \in 1 .. Len(keys') : keys'[i] = keys[i + 1]
  BY <1>1, ReadsFacts DEF Reads
<1>3. \A k \in {"c", "enter"} : keys # <<Key(k)>>
  BY <1>2, KeyFacts
<1>4. goal # Typed
  BY <1>2, <1>3 DEF IInv, PortInv
<1>5. pc \notin {"commands", "firmware", "menu", "grub"}
  BY <1>2, <1>3 DEF IInv, PlaceInv
<1>6. Downs => Downs'
  BY <1>2 DEF Downs
<1>7. Chosen => Len(keys) >= 2
  BY <1>2, KeyFacts DEF Chosen
<1>8. Chosen => Len(keys) # 1
  BY <1>2, <1>7
<1>9. Chosen => Chosen'
  <2> SUFFICES ASSUME Chosen  PROVE Chosen'
    OBVIOUS
  <2>1. Len(keys) >= 2
    BY <1>7
  <2>2. keys' # << >>
    BY <1>2, <2>1
  <2>3. keys'[Len(keys')] = Key("enter")
    BY <1>2, <2>1 DEF Chosen
  <2>4. \A i \in 1 .. Len(keys') - 1 : keys'[i].key = "down"
    BY <1>2, <2>1 DEF Chosen
  <2> QED  BY <2>2, <2>3, <2>4 DEF Chosen, Key
<1> QED  BY <1>2, <1>4, <1>5, <1>6, <1>8, <1>9

\* Down, one entry or none.
LEMMA MenuMovesStep ==
  ASSUME IInv, MenuMoves
  PROVE  IInv'
<1> USE DEF GuestFrame, boot, driverVars
<1>1. /\ keys' \in Seq(Keys) /\ keys # << >> /\ goal # Typed
      /\ pc \notin {"commands", "firmware", "menu", "grub"}
      /\ (Downs => Downs') /\ (Chosen => Chosen')
  BY MenuKeyGone DEF MenuMoves
<1>2. /\ console' \in Seq(Marks) /\ Len(console) <= Len(console')
      /\ \A w : w # "star" => (Drawn(w)' <=> Drawn(w))
      /\ highlight' \in 1 .. Len(Menu) /\ Len(console) \in Nat /\ Len(console') \in Nat
  <2>1. console \in Seq(Marks) /\ Len(console) \in Nat /\ highlight \in 1 .. Len(Menu) /\ Len(Menu) \in Nat
    BY MenuFacts, LenProperties DEF IInv, TablesInv
  <2>2. CASE highlight < Len(Menu)
    <3>1. Star(highlight + 1) \in Marks /\ Star(highlight + 1).what = "star"
      <4>1. highlight + 1 \in Nat
        BY <2>1
      <4> QED  BY <4>1, MarkFacts
    <3>2. Draws(<<Star(highlight + 1)>>) /\ highlight' = highlight + 1
      BY <2>2 DEF MenuMoves
    <3> QED  BY <2>1, <2>2, <3>1, <3>2, DrawOne
  <2>3. CASE ~(highlight < Len(Menu))
    <3>1. console' = console \o << >> /\ highlight' = highlight
      BY <2>3 DEF MenuMoves, Draws
    <3>2. console' = console
      BY <2>1, <3>1, ConcatEmptySeq
    <3> QED  BY <2>1, <2>3, <3>1, <3>2 DEF Drawn
  <2> QED  BY <2>2, <2>3
<1>3. TablesInv'
  BY <1>1, <1>2 DEF IInv, TablesInv, MenuMoves
<1>4. DrawnInv'
  BY <1>2 DEF IInv, DrawnInv, MenuMoves, Booting
<1>5. PortInv'
  BY <1>1 DEF IInv, PortInv, MenuMoves
<1>6. RanInv'
  BY <1>1 DEF IInv, RanInv, MenuMoves, Booting
<1>7. PlaceInv'
  BY <1>1 DEF IInv, PlaceInv, MenuMoves, Booting, Wanted
<1>8. OwnOutput'
  BY DEF IInv, OwnOutput, MenuMoves
<1> QED  BY <1>3, <1>4, <1>5, <1>6, <1>7, <1>8 DEF IInv, MenuMoves

\* Three plain keys.
LEMMA MenuMisreadsStep ==
  ASSUME IInv, MenuMisreads
  PROVE  IInv'
<1> USE DEF GuestFrame, boot, driverVars, guestVars
<1>1. /\ keys' \in Seq(Keys) /\ keys # << >> /\ goal # Typed
      /\ pc \notin {"commands", "firmware", "menu", "grub"}
      /\ (Downs => Downs') /\ (Chosen => Chosen')
  BY MenuKeyGone DEF MenuMisreads
<1>2. TablesInv'
  BY <1>1 DEF IInv, TablesInv, MenuMisreads
<1>3. DrawnInv'
  BY DEF IInv, DrawnInv, MenuMisreads, Booting, Drawn
<1>4. PortInv'
  BY <1>1 DEF IInv, PortInv, MenuMisreads
<1>5. RanInv'
  BY <1>1 DEF IInv, RanInv, MenuMisreads, Booting
<1>6. PlaceInv'
  BY <1>1 DEF IInv, PlaceInv, MenuMisreads, Booting, Wanted
<1>7. OwnOutput'
  BY DEF IInv, OwnOutput, MenuMisreads
<1> QED  BY <1>2, <1>3, <1>4, <1>5, <1>6, <1>7 DEF IInv, MenuMisreads

\* ENTER on the entry.
LEMMA MenuBootsStep ==
  ASSUME IInv, MenuBoots
  PROVE  IInv'
<1> USE DEF GuestFrame, boot, driverVars
<1>1. TablesInv /\ Reads("enter")
  BY DEF IInv, MenuBoots
<1>2. /\ keys' \in Seq(Keys) /\ keys[1].key = "enter" /\ keys # << >> /\ Len(keys) \in Nat \ {0}
      /\ Len(keys') = Len(keys) - 1 /\ DOMAIN keys = 1 .. Len(keys)
  BY <1>1, ReadsFacts DEF Reads
<1>3. keys # <<Key("c")>> /\ ~Downs
  BY <1>2, KeyFacts DEF Downs
<1>4. goal # Typed /\ Chosen
  BY <1>2, <1>3 DEF IInv, PortInv, MenuBoots
<1>5. keys' = << >>
  BY <1>2, <1>4, EmptySeq DEF Chosen
<1>6. pc \in {"banner", "login", "shell", "run", "reply", "done", "failed"}
  BY <1>2, <1>3, <1>4 DEF IInv, PlaceInv, MenuBoots, Booting
<1>7. booted' \in Titled /\ booted' # Typed
  BY MenuFacts, MenuAssumption DEF IInv, TablesInv, MenuBoots
<1>8. TablesInv'
  BY <1>2, <1>7 DEF IInv, TablesInv, MenuBoots
<1>9. DrawnInv'
  BY DEF IInv, DrawnInv, MenuBoots, Booting, Drawn
<1>10. PortInv'
  BY DEF PortInv, MenuBoots
<1>11. RanInv'
  BY <1>4, <1>7 DEF IInv, RanInv, MenuBoots
<1>12. PlaceInv'
  BY <1>5, <1>6 DEF IInv, PlaceInv, MenuBoots, Booting, AtMostEnter
<1>13. OwnOutput'
  BY DEF IInv, OwnOutput, MenuBoots
<1> QED  BY <1>8, <1>9, <1>10, <1>11, <1>12, <1>13 DEF IInv, MenuBoots

\* `c`, and GRUB's shell.
LEMMA GrubShellStep ==
  ASSUME IInv, GrubShell
  PROVE  IInv'
<1> USE DEF GuestFrame, boot, driverVars
<1>1. TablesInv /\ Reads("c")
  BY DEF IInv, GrubShell
<1>2. /\ keys' \in Seq(Keys) /\ keys[1].key = "c" /\ keys # << >> /\ Len(keys) \in Nat \ {0}
      /\ DOMAIN keys = 1 .. Len(keys) /\ \A a : keys = <<a>> => keys' = << >>
  BY <1>1, ReadsFacts DEF Reads
<1>3. ~Downs /\ ~Chosen
  BY <1>2, KeyFacts DEF Downs, Chosen
<1>4. goal = Typed /\ keys = <<Key("c")>> /\ keys' = << >>
  BY <1>2, <1>3 DEF IInv, PortInv, GrubShell
<1>5. /\ console' \in Seq(Marks) /\ Len(console) \in Nat /\ Len(console') = Len(console) + 1
      /\ console'[Len(console) + 1] = Mark("grub")
      /\ \A w : Drawn(w)' <=> Drawn(w) \/ w = "grub"
  BY <1>1, DrawOne, MarkFacts DEF TablesInv, GrubShell
<1>6. Typed \notin Titled
  BY MenuAssumption
<1>7. TablesInv'
  <2>1. cursor' \in 0 .. Len(console')
    <3>1. TablesInv /\ cursor' = cursor
      BY DEF IInv, GrubShell
    <3>2. Len(console) <= Len(console')
      BY <1>5
    <3> QED  BY <1>5, <3>1, <3>2, CursorStays
  <2> QED  BY <1>2, <1>5, <2>1 DEF IInv, TablesInv, GrubShell
<1>8. DrawnInv'
  BY <1>5 DEF IInv, DrawnInv, GrubShell, Booting
<1>9. PortInv'
  BY <1>4 DEF PortInv, GrubShell
<1>10. RanInv'
  BY <1>2, <1>4 DEF IInv, RanInv, GrubShell, Booting
<1>11. PlaceInv'
  <2>1. pc \notin {"commands", "firmware", "menu", "press", "move"}
    BY <1>2, <1>3, <1>4, <1>6 DEF IInv, PlaceInv, GrubShell
  <2>2. Len(ran) = 0
    BY EmptySeq DEF IInv, RanInv, GrubShell
  <2> QED  BY <1>1, <1>3, <1>4, <1>5, <2>1, <2>2 DEF IInv, PlaceInv, GrubShell, Booting, Quiet, One, TablesInv
<1>12. OwnOutput'
  BY DEF IInv, OwnOutput, GrubShell
<1> QED  BY <1>7, <1>8, <1>9, <1>10, <1>11, <1>12 DEF IInv, GrubShell

\* A line at GRUB's shell.
LEMMA GrubReadsLineStep ==
  ASSUME IInv, GrubReadsLine
  PROVE  IInv'
<1> USE DEF GuestFrame, boot, driverVars
<1>1. TablesInv /\ Reads("line")
  BY DEF IInv, GrubReadsLine
<1>2. /\ keys' \in Seq(Keys) /\ Head(keys) = keys[1] /\ keys # << >>
      /\ \A a : keys = <<a>> => keys' = << >> /\ keys[1] = a
  BY <1>1, ReadsFacts DEF Reads
<1>3. /\ Len(ran) \in Nat /\ Len(lines) \in Nat /\ ran \in Seq(Read) /\ lines \in Seq(Read)
      /\ DOMAIN ran = 1 .. Len(ran) /\ DOMAIN lines = 1 .. Len(lines)
  BY <1>1, LenProperties DEF TablesInv
<1>4. goal = Typed /\ keys' = << >>
  BY <1>2 DEF IInv, PortInv, GrubReadsLine
<1>5. pc \in {"grub", "banner", "failed", "done"}
  BY <1>2, <1>4 DEF IInv, PlaceInv, GrubReadsLine, Booting
<1>6. CASE keys = <<Line(0)>> /\ Len(ran) = Len(lines)
  <2>1. Head(keys).n = 0
    BY <1>2, <1>6, KeyFacts
  <2>2. guest' = "loading" /\ booted' = Typed /\ ran' = ran
    BY <2>1 DEF GrubReadsLine
  <2>3. ran = lines
    BY <1>3, <1>6, SeqEqual DEF IInv, RanInv
  <2>4. pc # "grub"
    <3> SUFFICES ASSUME pc = "grub"  PROVE FALSE
      OBVIOUS
    <3>1. keys = <<Line(count)>> /\ count = Len(ran) + 1
      BY <1>2 DEF IInv, PlaceInv, GrubReadsLine
    <3>2. Line(count) = Line(0) /\ count \in Nat
      BY <1>2, <1>3, <1>6, <3>1
    <3> QED  BY <1>3, <3>1, <3>2, KeyFacts
  <2>5. TablesInv'
    BY <1>2, <2>2 DEF IInv, TablesInv, GrubReadsLine
  <2>6. DrawnInv'
    BY <2>2 DEF IInv, DrawnInv, GrubReadsLine, Booting, Drawn
  <2>7. PortInv'
    BY <2>2 DEF PortInv
  <2>8. RanInv'
    BY <1>2, <1>4, <2>2, <2>3 DEF IInv, RanInv, GrubReadsLine, Booting
  <2>9. PlaceInv'
    BY <1>4, <1>5, <2>2, <2>4 DEF IInv, PlaceInv, GrubReadsLine, Booting, AtMostEnter
  <2>10. OwnOutput'
    BY DEF IInv, OwnOutput, GrubReadsLine
  <2> QED  BY <2>5, <2>6, <2>7, <2>8, <2>9, <2>10 DEF IInv, GrubReadsLine
<1>7. CASE keys = <<Line(Len(ran) + 1)>> /\ Len(ran) < Len(lines)
  <2>1. Head(keys).n = Len(ran) + 1 /\ Len(ran) + 1 # 0
    <3>1. Len(ran) + 1 \in Nat /\ Len(ran) + 1 # 0
      BY <1>3
    <3> QED  BY <1>2, <1>7, <3>1, KeyFacts
  <2>2. guest' = "grub runs" /\ booted' = booted /\ ran' = Append(ran, lines[Len(ran) + 1])
    BY <2>1 DEF GrubReadsLine
  <2>3. lines[Len(ran) + 1] \in Read /\ Len(ran) + 1 \in 1 .. Len(lines)
    <3>1. Len(ran) + 1 \in 1 .. Len(lines)
      BY <1>3, <1>7
    <3> QED  BY <1>3, <3>1, ElementOfSeq
  <2>4. /\ ran' \in Seq(Read) /\ Len(ran') = Len(ran) + 1 /\ ran'[Len(ran) + 1] = lines[Len(ran) + 1]
        /\ \A i \in 1 .. Len(ran) : ran'[i] = ran[i]
        /\ DOMAIN ran' = 1 .. Len(ran) + 1
    <3>1. /\ ran' \in Seq(Read) /\ Len(ran') = Len(ran) + 1 /\ ran'[Len(ran) + 1] = lines[Len(ran) + 1]
          /\ \A i \in 1 .. Len(ran) : ran'[i] = ran[i]
      <4> DEFINE e == lines[Len(ran) + 1]
      <4>1. e \in Read /\ ran' = Append(ran, e) /\ ran \in Seq(Read)
        BY <1>3, <2>2, <2>3
      <4> HIDE DEF e
      <4>2. /\ ran' \in Seq(Read) /\ Len(ran') = Len(ran) + 1 /\ ran'[Len(ran) + 1] = e
            /\ \A i \in 1 .. Len(ran) : ran'[i] = ran[i]
        BY <4>1, AppendProperties
      <4> QED  BY <4>2 DEF e
    <3>2. DOMAIN ran' = 1 .. Len(ran')
      BY <3>1, LenProperties
    <3> QED  BY <3>1, <3>2
  <2>5. pc # "banner"
    <3> SUFFICES ASSUME pc = "banner"  PROVE FALSE
      OBVIOUS
    <3>1. keys = <<Line(0)>>
      BY DEF IInv, PlaceInv, GrubReadsLine, Booting
    <3>2. Head(keys).n = 0
      BY <1>2, <3>1, KeyFacts
    <3> QED  BY <2>1, <3>2
  <2>6. TablesInv'
    BY <1>2, <2>2, <2>4 DEF IInv, TablesInv, GrubReadsLine
  <2>7. DrawnInv'
    BY <2>2 DEF IInv, DrawnInv, GrubReadsLine, Booting, Drawn
  <2>8. PortInv'
    BY <1>4, <2>2 DEF PortInv, GrubReadsLine
  <2>9. RanInv'
    <3>1. \A i \in DOMAIN ran' : ran'[i] = lines[i]
      BY <1>3, <2>4 DEF IInv, RanInv
    <3>2. Len(ran') <= Len(lines)
      BY <1>3, <1>7, <2>4
    <3> QED  BY <1>2, <1>4, <2>2, <3>1, <3>2 DEF IInv, RanInv, GrubReadsLine, Booting
  <2>10. PlaceInv'
    <3>1. pc = "grub" => Quiet /\ count = Len(ran) + 1 /\ ~answered /\ outputs = << >>
      BY <1>2 DEF IInv, PlaceInv, GrubReadsLine
    <3> QED  BY <1>4, <1>5, <2>2, <2>4, <2>5, <3>1 DEF IInv, PlaceInv, GrubReadsLine, Quiet
  <2>11. OwnOutput'
    BY DEF IInv, OwnOutput, GrubReadsLine
  <2> QED  BY <2>6, <2>7, <2>8, <2>9, <2>10, <2>11 DEF IInv, GrubReadsLine
<1> QED  BY <1>2, <1>6, <1>7 DEF IInv, PortInv, GrubReadsLine

\* The prompt after a command.
LEMMA GrubRanLineStep ==
  ASSUME IInv, GrubRanLine
  PROVE  IInv'
<1> USE DEF GuestFrame, boot, driverVars
<1>1. /\ console' \in Seq(Marks) /\ Len(console) \in Nat /\ Len(console') = Len(console) + 1
      /\ console'[Len(console) + 1] = Mark("grub")
      /\ \A w : Drawn(w)' <=> Drawn(w) \/ w = "grub"
  BY DrawOne, MarkFacts DEF IInv, TablesInv, GrubRanLine
<1>2. keys = << >> /\ goal = Typed
  BY DEF IInv, PortInv, GrubRanLine
<1>3. TablesInv'
  <2>1. cursor' \in 0 .. Len(console')
    <3>1. TablesInv /\ cursor' = cursor
      BY DEF IInv, GrubRanLine
    <3>2. Len(console) <= Len(console')
      BY <1>1
    <3> QED  BY <1>1, <3>1, <3>2, CursorStays
  <2> QED  BY <1>1, <2>1 DEF IInv, TablesInv, GrubRanLine
<1>4. DrawnInv'
  BY <1>1 DEF IInv, DrawnInv, GrubRanLine, Booting
<1>5. PortInv'
  BY <1>2 DEF PortInv, GrubRanLine
<1>6. RanInv'
  BY <1>2 DEF IInv, RanInv, GrubRanLine, Booting
<1>7. PlaceInv'
  BY <1>1, <1>2 DEF IInv, PlaceInv, GrubRanLine, Booting, Quiet, One, TablesInv
<1>8. OwnOutput'
  BY DEF IInv, OwnOutput, GrubRanLine
<1> QED  BY <1>3, <1>4, <1>5, <1>6, <1>7, <1>8 DEF IInv, GrubRanLine

\* The loader's pause.
LEMMA LoaderPausesStep ==
  ASSUME IInv, LoaderPauses
  PROVE  IInv'
<1> USE DEF GuestFrame, boot, driverVars
<1>1. /\ console' \in Seq(Marks) /\ Len(console) \in Nat /\ Len(console') = Len(console) + 1
      /\ \A w : w # "any key" => (Drawn(w)' <=> Drawn(w))
  BY DrawOne, MarkFacts DEF IInv, TablesInv, LoaderPauses
<1>2. TablesInv'
  <2>1. cursor' \in 0 .. Len(console')
    <3>1. TablesInv /\ cursor' = cursor
      BY DEF IInv, LoaderPauses
    <3>2. Len(console) <= Len(console')
      <4>1. Len(console) \in Nat /\ Len(console') = Len(console) + 1
        BY <1>1
      <4> QED  BY <4>1
    <3> QED  BY <1>1, <3>1, <3>2, CursorStays
  <2> QED  BY <1>1, <2>1 DEF IInv, TablesInv, LoaderPauses
<1>3. DrawnInv'
  BY <1>1 DEF IInv, DrawnInv, LoaderPauses, Booting
<1>4. PortInv'
  BY DEF PortInv, LoaderPauses
<1>5. RanInv'
  BY DEF IInv, RanInv, LoaderPauses, Booting
<1>6. PlaceInv'
  BY DEF IInv, PlaceInv, LoaderPauses, Booting, AtMostEnter
<1>7. OwnOutput'
  BY DEF IInv, OwnOutput, LoaderPauses
<1> QED  BY <1>2, <1>3, <1>4, <1>5, <1>6, <1>7 DEF IInv, LoaderPauses

\* The end of the loader, and the kernel's banner.
LEMMA LoaderDoneStep ==
  ASSUME IInv, LoaderEnds \/ LoaderTimesOut
  PROVE  IInv'
<1> USE DEF GuestFrame, boot, driverVars
<1>1. /\ guest = "loading" /\ guest' = "kernel" /\ Draws(<<Mark("banner")>>)
      /\ UNCHANGED <<goal, image, entry, pc, lines, step, tries, count, outputs, answered, cursor,
                     highlight, paused, booted, ran>>
      /\ keys' = keys \/ (keys # << >> /\ keys' = Tail(keys))
  BY DEF LoaderEnds, LoaderTimesOut
<1>2. /\ console' \in Seq(Marks) /\ Len(console) \in Nat /\ Len(console') = Len(console) + 1
      /\ \A w : Drawn(w)' <=> Drawn(w) \/ w = "banner"
  BY <1>1, DrawOne, MarkFacts DEF IInv, TablesInv
<1>3. keys \in Seq(Keys) /\ keys' \in Seq(Keys)
  BY <1>1, HeadTailProperties DEF IInv, TablesInv
<1>4. AtMostEnter => AtMostEnter' /\ (keys' # << >> => keys # << >>)
  BY <1>1, Short DEF AtMostEnter, Key
<1>5. TablesInv'
  <2>1. cursor' \in 0 .. Len(console')
    BY <1>1, <1>2, CursorStays DEF IInv
  <2> QED  BY <1>1, <1>2, <1>3, <2>1 DEF IInv, TablesInv
<1>6. DrawnInv'
  BY <1>1, <1>2 DEF IInv, DrawnInv, Booting
<1>7. PortInv'
  BY <1>1 DEF PortInv
<1>8. RanInv'
  BY <1>1 DEF IInv, RanInv, Booting
<1>9. PlaceInv'
  BY <1>1, <1>4 DEF IInv, PlaceInv, Booting
<1>10. OwnOutput'
  BY <1>1 DEF IInv, OwnOutput
<1> QED  BY <1>1, <1>5, <1>6, <1>7, <1>8, <1>9, <1>10 DEF IInv

\* getty's prompt.
LEMMA KernelDoneStep ==
  ASSUME IInv, KernelDone
  PROVE  IInv'
<1> USE DEF GuestFrame, boot, driverVars
<1>1. /\ console' \in Seq(Marks) /\ Len(console) \in Nat /\ Len(console') = Len(console) + 1
      /\ \A w : Drawn(w)' <=> Drawn(w) \/ w = "login"
  BY DrawOne, MarkFacts DEF IInv, TablesInv, KernelDone
<1>2. TablesInv'
  <2>1. cursor' \in 0 .. Len(console')
    BY <1>1, CursorStays DEF IInv, KernelDone
  <2> QED  BY <1>1, <2>1 DEF IInv, TablesInv, KernelDone
<1>3. DrawnInv'
  BY <1>1 DEF IInv, DrawnInv, KernelDone, Booting
<1>4. PortInv'
  BY DEF PortInv, KernelDone
<1>5. RanInv'
  BY DEF IInv, RanInv, KernelDone, Booting
<1>6. PlaceInv'
  BY DEF IInv, PlaceInv, KernelDone, Booting, AtMostEnter
<1>7. OwnOutput'
  BY DEF IInv, OwnOutput, KernelDone
<1> QED  BY <1>2, <1>3, <1>4, <1>5, <1>6, <1>7 DEF IInv, KernelDone

\* A panic.
LEMMA PanicsStep ==
  ASSUME IInv, Panics
  PROVE  IInv'
<1> USE DEF GuestFrame, boot, driverVars
<1>1. /\ console' \in Seq(Marks) /\ Len(console) \in Nat /\ Len(console') = Len(console) + 1
      /\ \A w : Drawn(w)' <=> Drawn(w) \/ w = "failure"
  BY DrawOne, MarkFacts DEF IInv, TablesInv, Panics
<1>2. TablesInv'
  <2>1. cursor' \in 0 .. Len(console')
    BY <1>1, CursorStays DEF IInv, Panics
  <2> QED  BY <1>1, <2>1 DEF IInv, TablesInv, Panics
<1>3. DrawnInv'
  BY <1>1 DEF IInv, DrawnInv, Panics, Booting
<1>4. PortInv'
  BY DEF PortInv, Panics
<1>5. RanInv'
  BY DEF IInv, RanInv, Panics, Booting
<1>6. PlaceInv'
  BY DEF IInv, PlaceInv, Panics, Booting, AtMostEnter
<1>7. OwnOutput'
  BY DEF IInv, OwnOutput, Panics
<1> QED  BY <1>2, <1>3, <1>4, <1>5, <1>6, <1>7 DEF IInv, Panics

\* A line at getty: empty, or the user's name.
LEMMA GettyReadsStep ==
  ASSUME IInv, GettyReads
  PROVE  IInv'
<1> USE DEF GuestFrame, boot, driverVars
<1>1. TablesInv /\ (Reads("enter") \/ Reads("root"))
  BY DEF IInv, GettyReads
<1>2. /\ keys' \in Seq(Keys) /\ keys # << >>
      /\ \A a : keys = <<a>> => keys' = << >> /\ keys[1] = a
      /\ \A a, b : keys = <<a, b>> => keys' = <<b>> /\ keys[1] = a
  BY <1>1, ReadsFacts DEF Reads
<1>3. (Reads("enter") => keys[1].key = "enter") /\ (Reads("root") => keys[1].key = "root")
  BY <1>1, ReadsFacts
<1>4. Key("root").key = "root" /\ Key("enter").key = "enter"
  BY KeyFacts
<1>5. pc \in {"banner", "login", "shell", "done", "failed"}
  BY DEF IInv, PlaceInv, GettyReads, Booting
<1>6. CASE Reads("enter") /\ Draws(<<Mark("login")>>) /\ UNCHANGED guest
  <2>1. /\ console' \in Seq(Marks) /\ Len(console) \in Nat /\ Len(console') = Len(console) + 1
        /\ \A w : Drawn(w)' <=> Drawn(w) \/ w = "login"
    BY <1>6, DrawOne, MarkFacts DEF IInv, TablesInv
  <2>2. TablesInv'
    <3>1. cursor' \in 0 .. Len(console')
      BY <2>1, CursorStays DEF IInv, GettyReads
    <3> QED  BY <1>2, <2>1, <3>1 DEF IInv, TablesInv, GettyReads
  <2>3. DrawnInv'
    BY <1>6, <2>1 DEF IInv, DrawnInv, GettyReads, Booting
  <2>4. PortInv'
    BY <1>6 DEF PortInv, GettyReads
  <2>5. RanInv'
    BY <1>6 DEF IInv, RanInv, GettyReads, Booting
  <2>6. PlaceInv'
    <3>1. AtMostEnter => keys' = << >>
      BY <1>2 DEF AtMostEnter
    <3>2. pc = "shell" => keys' = <<Key("root")>> /\ count = 0 /\ outputs = << >>
      BY <1>2, <1>3, <1>4, <1>6 DEF IInv, PlaceInv, GettyReads
    <3> QED  BY <1>5, <1>6, <3>1, <3>2 DEF IInv, PlaceInv, GettyReads, Booting, AtMostEnter, Key
  <2>7. OwnOutput'
    BY DEF IInv, OwnOutput, GettyReads
  <2> QED  BY <1>6, <2>2, <2>3, <2>4, <2>5, <2>6, <2>7 DEF IInv, GettyReads
<1>7. CASE Reads("root") /\ Draws(<<Mark("shell")>>) /\ guest' = "shell"
  <2>1. /\ console' \in Seq(Marks) /\ Len(console) \in Nat /\ Len(console') = Len(console) + 1
        /\ \A i \in 1 .. Len(console) : console'[i] = console[i]
        /\ console'[Len(console) + 1] = Mark("shell")
        /\ \A w : Drawn(w)' <=> Drawn(w) \/ w = "shell"
    BY <1>7, DrawOne, MarkFacts DEF IInv, TablesInv
  <2>2. TablesInv'
    <3>1. cursor' \in 0 .. Len(console')
      BY <2>1, CursorStays DEF IInv, GettyReads
    <3> QED  BY <1>2, <1>7, <2>1, <3>1 DEF IInv, TablesInv, GettyReads
  <2>3. DrawnInv'
    BY <1>7, <2>1 DEF IInv, DrawnInv, GettyReads, Booting
  <2>4. PortInv'
    BY <1>7 DEF PortInv
  <2>5. RanInv'
    BY <1>7 DEF IInv, RanInv, GettyReads, Booting
  <2>6. \A p \in 1 .. Len(console) : console[p] # Mark("shell")
    <3>1. ~Drawn("shell") /\ DOMAIN console = 1 .. Len(console)
      BY <1>1, LenProperties DEF IInv, DrawnInv, GettyReads, TablesInv
    <3> QED  BY <3>1, MarkFacts DEF Drawn
  <2>7. cursor' < Len(console') /\ \A p \in cursor' + 1 .. Len(console') :
          console'[p] = Mark("shell") <=> p = Len(console')
    <3>1. cursor' = cursor /\ cursor \in Nat /\ cursor <= Len(console)
      BY <1>1, <2>1 DEF TablesInv, GettyReads
    <3>2. ASSUME NEW p \in cursor + 1 .. Len(console) + 1
          PROVE  console'[p] = Mark("shell") <=> p = Len(console) + 1
      <4>1. p \in 1 .. Len(console) \/ p = Len(console) + 1
        BY <2>1, <3>1
      <4> QED  BY <2>1, <2>6, <4>1
    <3> QED  BY <2>1, <3>1, <3>2
  <2>8. PlaceInv'
    <3>1. ~AtMostEnter
      BY <1>2, <1>3, <1>4, <1>7 DEF AtMostEnter
    <3>2. pc \in {"shell", "done", "failed"}
      BY <1>5, <3>1 DEF IInv, PlaceInv, GettyReads, Booting
    <3>3. pc = "shell" => keys' = << >> /\ count = 0 /\ outputs = << >>
      BY <1>2, <1>3, <1>4, <1>7 DEF IInv, PlaceInv, GettyReads
    <3>4. Mark("shell")' = Mark("shell")
      BY DEF Mark
    <3> QED  BY <1>7, <2>7, <3>2, <3>3, <3>4 DEF PlaceInv, GettyReads
  <2>9. OwnOutput'
    BY DEF IInv, OwnOutput, GettyReads
  <2> QED  BY <1>7, <2>2, <2>3, <2>4, <2>5, <2>8, <2>9 DEF IInv, GettyReads
<1> QED  BY <1>6, <1>7 DEF GettyReads

\* A line at the shell: empty, or a command.
LEMMA ShellReadsStep ==
  ASSUME IInv, ShellReads
  PROVE  IInv'
<1> USE DEF GuestFrame, boot, driverVars
<1>1. TablesInv /\ (Reads("enter") \/ Reads("line"))
  BY DEF IInv, ShellReads
<1>2. /\ keys' \in Seq(Keys) /\ keys # << >> /\ Head(keys) = keys[1] /\ Head(keys) \in Keys
      /\ \A a : keys = <<a>> => keys' = << >> /\ keys[1] = a
  BY <1>1, ReadsFacts DEF Reads
<1>3. pc \in {"reply", "done", "failed"}
  BY <1>2 DEF IInv, PlaceInv, ShellReads, Booting
<1>4. CASE Reads("enter") /\ Draws(<<Mark("shell")>>)
  <2>1. /\ console' \in Seq(Marks) /\ Len(console) \in Nat /\ Len(console') = Len(console) + 1
        /\ \A w : Drawn(w)' <=> Drawn(w) \/ w = "shell"
    BY <1>4, DrawOne, MarkFacts DEF IInv, TablesInv
  <2>2. pc # "reply"
    <3> SUFFICES ASSUME pc = "reply"  PROVE FALSE
      OBVIOUS
    <3>1. keys = <<Line(count)>> /\ count \in Nat
      BY <1>2 DEF IInv, PlaceInv, TablesInv
    <3>2. keys[1] = Line(count) /\ keys[1].key = "enter"
      BY <1>1, <1>2, <1>4, <3>1, ReadsFacts
    <3> QED  BY <3>1, <3>2, KeyFacts
  <2>3. TablesInv'
    <3>1. cursor' \in 0 .. Len(console')
      BY <2>1, CursorStays DEF IInv, ShellReads
    <3> QED  BY <1>2, <2>1, <3>1 DEF IInv, TablesInv, ShellReads
  <2>4. DrawnInv'
    BY <2>1 DEF IInv, DrawnInv, ShellReads, Booting
  <2>5. PortInv'
    BY DEF PortInv, ShellReads
  <2>6. RanInv'
    BY DEF IInv, RanInv, ShellReads, Booting
  <2>7. PlaceInv'
    BY <1>3, <2>2 DEF PlaceInv, ShellReads
  <2>8. OwnOutput'
    BY DEF IInv, OwnOutput, ShellReads
  <2> QED  BY <2>3, <2>4, <2>5, <2>6, <2>7, <2>8 DEF IInv, ShellReads
<1>5. CASE Reads("line") /\ Draws(<<Output(Head(keys).n), Mark("shell")>>)
  <2>1. Head(keys).n \in Nat /\ console \in Seq(Marks)
    BY <1>2 DEF Keys, IInv, TablesInv
  <2>2. /\ console' \in Seq(Marks) /\ Len(console) \in Nat /\ Len(console') = Len(console) + 2
        /\ console'[Len(console) + 1] = Output(Head(keys).n) /\ console'[Len(console) + 2] = Mark("shell")
        /\ \A w : Drawn(w)' <=> Drawn(w) \/ w = "output" \/ w = "shell"
    <3>1. /\ Output(Head(keys).n) \in Marks /\ Output(Head(keys).n).what = "output"
          /\ Mark("shell") \in Marks /\ Mark("shell").what = "shell"
      BY <2>1, MarkFacts
    <3> QED  BY <1>5, <2>1, <3>1, DrawTwo
  <2>3. TablesInv'
    <3>1. cursor' \in 0 .. Len(console')
      BY <2>2, CursorStays DEF IInv, ShellReads
    <3> QED  BY <1>2, <2>2, <3>1 DEF IInv, TablesInv, ShellReads
  <2>4. DrawnInv'
    BY <2>2 DEF IInv, DrawnInv, ShellReads, Booting
  <2>5. PortInv'
    BY DEF PortInv, ShellReads
  <2>6. RanInv'
    BY DEF IInv, RanInv, ShellReads, Booting
  <2>7. PlaceInv'
    <3>1. pc = "reply" => /\ keys = <<Line(count)>> /\ Quiet /\ count \in 1 .. Commands
                          /\ Len(outputs) + 1 = count
      BY <1>2 DEF IInv, PlaceInv
    <3>2. pc = "reply" => Head(keys).n = count /\ keys' = << >>
      BY <1>1, <1>2, <3>1, KeyFacts DEF TablesInv
    <3>3. pc = "reply" => Two(Output(count), Mark("shell"))'
      BY <2>2, <3>1, <3>2 DEF Two, Quiet, ShellReads, Output, Mark
    <3> QED  BY <1>3, <3>1, <3>2, <3>3 DEF PlaceInv, ShellReads
  <2>8. OwnOutput'
    BY DEF IInv, OwnOutput, ShellReads
  <2> QED  BY <2>3, <2>4, <2>5, <2>6, <2>7, <2>8 DEF IInv, ShellReads
<1> QED  BY <1>4, <1>5 DEF ShellReads

\* Whatever the guest does.
LEMMA GuestStep ==
  ASSUME IInv, Guest
  PROVE  IInv'
BY FirmwarePromptsStep, GrubDrawsMenuStep, FirmwareReadsStep, MenuMovesStep, MenuMisreadsStep,
   MenuBootsStep, GrubShellStep, GrubReadsLineStep, GrubRanLineStep, LoaderPausesStep, LoaderDoneStep,
   KernelDoneStep, GettyReadsStep, ShellReadsStep, PanicsStep
   DEF Guest
-----------------------------------------------------------------------------
(* What grubcfg.py reads in a file.                                        *)

\* What the reader goes through: lines, entries found, and where it is.
Titles    == STRING \cup {"none", "end"}     \* the strings, these named for the provers
FileLines == [what : {"command", "menuentry", "close"} \cup Noise, word : Titles, args : Seq(STRING)]
Lists     == Seq(FileLines)
Founds    == UNION {[T -> Lists] : T \in SUBSET Titles}
States    == {st \in [inside : BOOLEAN, title : Titles, found : Founds] :
                st.inside => st.title \in DOMAIN st.found}

\* What was found has a title and a list of lines.
LEMMA FoundFacts ==
  ASSUME NEW found \in Founds
  PROVE  DOMAIN found \subseteq Titles /\ \A t \in DOMAIN found : found[t] \in Lists
<1>1. PICK T \in SUBSET Titles : found \in [T -> Lists]
  BY DEF Founds
<1> QED  BY <1>1

\* What is found stays of its kind.
LEMMA PutStays ==
  ASSUME NEW found \in Founds, NEW title \in Titles, NEW body \in Lists
  PROVE  Put(found, title, body) \in Founds
<1>1. PICK T \in SUBSET Titles : found \in [T -> Lists]
  BY DEF Founds
<1>2. Put(found, title, body) \in [T \cup {title} -> Lists]
  BY <1>1 DEF Put
<1>3. T \cup {title} \in SUBSET Titles
  BY <1>1
<1> QED  BY <1>2, <1>3 DEF Founds

\* What was put there is there, the rest is as it was.
LEMMA PutFacts ==
  ASSUME NEW found, NEW title, NEW body
  PROVE  /\ title \in DOMAIN Put(found, title, body)
         /\ DOMAIN Put(found, title, body) = DOMAIN found \cup {title}
         /\ Put(found, title, body)[title] = body
         /\ \A t \in DOMAIN found : t # title => Put(found, title, body)[t] = found[t]
BY DEF Put

\* Nothing is found at first.
LEMMA NothingFound == << >> \in Founds /\ DOMAIN << >> = {}
<1> DEFINE none == << >>
<1>1. none \in [{} -> Lists] /\ {} \in SUBSET Titles /\ DOMAIN none = {}
  OBVIOUS
<1> HIDE DEF none
<1>2. none \in Founds
  BY <1>1 DEF Founds
<1> QED  BY <1>1, <1>2 DEF none

\* A line leaves the reader somewhere.
LEMMA ReadLineFacts ==
  ASSUME NEW st \in States, NEW line \in FileLines
  PROVE  ReadLine(st, line) \in States
<1>1. \A inside, title, found : LET s == Reading(inside, title, found) IN
        s.inside = inside /\ s.title = title /\ s.found = found
  BY DEF Reading
<1>2. ASSUME NEW inside \in BOOLEAN, NEW title \in Titles, NEW found \in Founds, title \in DOMAIN found
      PROVE  Reading(inside, title, found) \in States
  BY <1>2 DEF States, Reading
<1>3. line.word \in Titles /\ st.found \in Founds /\ << >> \in Lists
  <2>1. line.word \in Titles
    BY DEF FileLines, Titles
  <2>2. st.found \in Founds
    BY DEF States
  <2>3. << >> \in Lists
    BY EmptySeq DEF Lists
  <2> QED  BY <2>1, <2>2, <2>3
<1>4. CASE ~st.inside
  <2>1. Put(st.found, line.word, << >>) \in Founds
    BY <1>3, PutStays, Zenon
  <2>2. line.word \in DOMAIN Put(st.found, line.word, << >>)
    BY PutFacts, Zenon
  <2> QED  BY <1>2, <1>3, <1>4, <2>1, <2>2 DEF ReadLine
<1>5. CASE st.inside
  <2>0. st.title \in DOMAIN st.found
    BY <1>5 DEF States
  <2>1. st.found[st.title] \in Lists /\ st.title \in Titles
    BY <1>3, <2>0, FoundFacts
  <2>2. Append(st.found[st.title], line) \in Lists
    BY <2>1, AppendProperties DEF Lists
  <2> DEFINE more == Put(st.found, st.title, Append(st.found[st.title], line))
  <2>3. more \in Founds
    BY <1>3, <2>1, <2>2, PutStays, Zenon
  <2>4. st.title \in DOMAIN more
    BY PutFacts, Zenon
  <2>5. Reading(TRUE, st.title, more) \in States
    <3> HIDE DEF more
    <3> QED  BY <1>2, <2>1, <2>3, <2>4
  <2>6. Reading(FALSE, st.title, st.found) \in States
    BY <1>2, <1>3, <2>0, <2>1
  <2> QED  BY <1>5, <2>5, <2>6 DEF ReadLine
<1> QED  BY <1>4, <1>5 DEF States

\* The reader after each line of a file.
LEMMA ReadSteps ==
  ASSUME NEW file \in Seq(FileLines)
  PROVE  \E g \in [0 .. Len(file) -> States] :
           /\ g[0] = Reading(FALSE, "none", << >>) /\ EntriesOf(file) = g[Len(file)].found
           /\ \A i \in 1 .. Len(file) : g[i] = ReadLine(g[i - 1], file[i])
<1> DEFINE n == Len(file)
           start == Reading(FALSE, "none", << >>)
           turn == [i \in 1 .. n |-> [v \in States |-> ReadLine(v, file[i])]]
           Is(h) == h = [i \in 0 .. n |-> IF i = 0 THEN start ELSE ReadLine(h[i - 1], file[i])]
<1>1. n \in Nat /\ \A i \in 1 .. n : file[i] \in FileLines
  BY LenProperties, ElementOfSeq
<1>2. start \in States
  <2>1. ASSUME NEW found \in Founds  PROVE Reading(FALSE, "none", found) \in States
    BY DEF States, Reading, Titles
  <2> QED  BY <2>1, NothingFound
<1>3. turn \in StepsOf(n, States)
  BY <1>1, ReadLineFacts DEF StepsOf
<1> HIDE DEF n, turn, start
<1>4. PICK f : f \in [0 .. n -> States] /\ Unfolds(f, n, start, turn)
  BY <1>1, <1>2, <1>3, Recursion
<1>5. \A i \in 1 .. n : i \in 0 .. n /\ i - 1 \in 0 .. n /\ i # 0
  BY <1>1
<1>6. \A i \in 1 .. n : turn[i][f[i - 1]] = ReadLine(f[i - 1], file[i])
  <2>1. \A i \in 1 .. n : f[i - 1] \in States
    BY <1>4, <1>5
  <2> QED  BY <2>1 DEF turn
<1>7. Is(f)
  <2>1. \A i \in 0 .. n : i # 0 => i \in 1 .. n
    BY <1>1
  <2>2. \A i \in 0 .. n : f[i] = IF i = 0 THEN start ELSE ReadLine(f[i - 1], file[i])
    BY <1>4, <1>6, <2>1 DEF Unfolds
  <2>3. f = [i \in 0 .. n |-> f[i]]
    BY <1>4
  <2> QED  BY <2>2, <2>3
<1> DEFINE After == CHOOSE h : Is(h)
<1>8. Is(After)
  BY <1>7, Zenon
<1>9. EntriesOf(file) = After[n].found
  BY Zenon DEF EntriesOf, n, start, After
<1> HIDE DEF After
<1>10. \A i \in 0 .. n : After[i] = f[i]
  <2> DEFINE P == {i \in 0 .. n : After[i] = f[i]}
  <2>1. 0 \in P
    BY <1>1, <1>7, <1>8
  <2>2. ASSUME NEW i \in 0 .. n, i < n, i \in P  PROVE i + 1 \in P
    <3>1. i + 1 \in 0 .. n /\ i + 1 # 0 /\ (i + 1) - 1 = i
      BY <1>1, <2>2
    <3> QED  BY <1>7, <1>8, <2>2, <3>1
  <2> HIDE DEF P
  <2>3. \A i \in 0 .. n : i \in P
    BY <1>1, <2>1, <2>2, UpTo
  <2> QED  BY <2>3 DEF P
<1>11. n \in 0 .. n /\ 0 \in 0 .. n
  BY <1>1
<1>12. \A i \in 1 .. n : f[i] = ReadLine(f[i - 1], file[i])
  BY <1>5, <1>7
<1>13. f[0] = start /\ EntriesOf(file) = f[n].found
  BY <1>7, <1>9, <1>10, <1>11
<1> QED  BY <1>4, <1>12, <1>13 DEF n, start

\* The commands among the first lines of an entry.
LEMMA CommandsSteps ==
  ASSUME NEW body \in Seq(FileLines)
  PROVE  \E u \in [0 .. Len(body) -> Seq(FileLines)] :
           /\ u[0] = << >> /\ CommandsIn(body) = u[Len(body)]
           /\ \A i \in 1 .. Len(body) :
                u[i] = IF Counted(body, i) THEN Append(u[i - 1], body[i]) ELSE u[i - 1]
<1> DEFINE n == Len(body)
           V == Seq(FileLines)
           More(i, v) == IF Counted(body, i) THEN Append(v, body[i]) ELSE v
           turn == [i \in 1 .. n |-> [v \in V |-> More(i, v)]]
           Is(h) == h = [i \in 0 .. n |-> IF i = 0 THEN << >>
                           ELSE IF Counted(body, i) THEN Append(h[i - 1], body[i]) ELSE h[i - 1]]
<1>1. n \in Nat /\ \A i \in 1 .. n : body[i] \in FileLines
  BY LenProperties, ElementOfSeq
<1>2. << >> \in V
  OBVIOUS
<1>3. turn \in StepsOf(n, V)
  <2>1. \A i \in 1 .. n : \A v \in V : More(i, v) \in V
    BY <1>1, AppendProperties
  <2> HIDE DEF V, More
  <2> QED  BY <2>1 DEF StepsOf
<1> HIDE DEF V, n, turn
<1>4. PICK f : f \in [0 .. n -> V] /\ Unfolds(f, n, << >>, turn)
  BY <1>1, <1>2, <1>3, Recursion
<1>5. \A i \in 1 .. n : i \in 0 .. n /\ i - 1 \in 0 .. n /\ i # 0
  BY <1>1
<1>6. \A i \in 1 .. n : turn[i][f[i - 1]] = More(i, f[i - 1])
  <2>1. \A i \in 1 .. n : f[i - 1] \in V
    BY <1>4, <1>5
  <2> HIDE DEF More
  <2> QED  BY <2>1 DEF turn
<1>7. Is(f)
  <2>1. \A i \in 0 .. n : i # 0 => i \in 1 .. n
    BY <1>1
  <2>2. \A i \in 0 .. n : f[i] = IF i = 0 THEN << >> ELSE More(i, f[i - 1])
    BY <1>4, <1>6, <2>1 DEF Unfolds
  <2>3. f = [i \in 0 .. n |-> f[i]]
    BY <1>4
  <2> QED  BY <2>2, <2>3
<1> DEFINE After == CHOOSE h : Is(h)
<1>8. Is(After)
  BY <1>7, Zenon
<1>9. CommandsIn(body) = After[n]
  BY Zenon DEF CommandsIn, n, After
<1> HIDE DEF After
<1>10. \A i \in 0 .. n : After[i] = f[i]
  <2> DEFINE P == {i \in 0 .. n : After[i] = f[i]}
  <2>1. 0 \in P
    BY <1>1, <1>7, <1>8
  <2>2. ASSUME NEW i \in 0 .. n, i < n, i \in P  PROVE i + 1 \in P
    <3>1. i + 1 \in 0 .. n /\ i + 1 # 0 /\ (i + 1) - 1 = i
      BY <1>1, <2>2
    <3>2. f[i + 1] = More(i + 1, f[i])
      BY <1>7, <3>1
    <3>3. After[i + 1] = More(i + 1, After[i])
      BY <1>8, <3>1
    <3>4. After[i] = f[i]
      BY <2>2
    <3> HIDE DEF More
    <3> QED  BY <3>1, <3>2, <3>3, <3>4
  <2> HIDE DEF P
  <2>3. \A i \in 0 .. n : i \in P
    BY <1>1, <2>1, <2>2, UpTo
  <2> QED  BY <2>3 DEF P
<1>11. n \in 0 .. n /\ 0 \in 0 .. n
  BY <1>1
<1>12. \A i \in 1 .. n : f[i] = More(i, f[i - 1])
  BY <1>5, <1>7
<1>13. f[0] = << >> /\ CommandsIn(body) = f[n]
  BY <1>7, <1>9, <1>10, <1>11
<1> QED  BY <1>4, <1>12, <1>13 DEF n, V

\* The blocks of a file.
Blocks == [what : {"settings", "menuentry"}, name : STRING, body : Seq(BodyLine)]

\* A line, more lines and a line.
Wraps(all, a, body, z) ==
  /\ all \in Lists /\ Len(body) \in Nat /\ Len(all) = Len(body) + 2
  /\ all[1] = a /\ all[Len(body) + 2] = z
  /\ \A p \in 1 .. Len(body) : all[p + 1] = body[p]

\* A body between its braces: where its lines come to be.
LEMMA Wrapped ==
  ASSUME NEW a \in FileLines, NEW body \in Lists, NEW z \in FileLines
  PROVE  Wraps(<<a>> \o body \o <<z>>, a, body, z)
<1> DEFINE S == FileLines
           first == <<a>> \o body
           all == first \o <<z>>
<1>0. a \in S /\ z \in S /\ body \in Seq(S) /\ Lists = Seq(S)
  BY DEF Lists
<1> HIDE DEF S
<1>1. <<a>> \in Seq(S) /\ <<z>> \in Seq(S) /\ Len(<<a>>) = 1 /\ Len(<<z>>) = 1 /\ <<a>>[1] = a /\ <<z>>[1] = z
  BY <1>0
<1>2. Len(body) \in Nat
  BY <1>0, LenProperties
<1>3. /\ first \in Seq(S) /\ Len(first) = 1 + Len(body)
      /\ \A p \in 1 .. 1 + Len(body) : first[p] = IF p <= 1 THEN <<a>>[p] ELSE body[p - 1]
  BY <1>0, <1>1, ConcatProperties
<1> HIDE DEF first
<1>4. /\ all \in Seq(S) /\ Len(all) = Len(first) + 1
      /\ \A p \in 1 .. Len(first) + 1 : all[p] = IF p <= Len(first) THEN first[p] ELSE <<z>>[p - Len(first)]
  BY <1>1, <1>3, ConcatProperties
<1> HIDE DEF all
<1>5. all[1] = a
  <2>1. 1 \in 1 .. Len(first) + 1 /\ 1 <= Len(first) /\ 1 \in 1 .. 1 + Len(body)
    BY <1>2, <1>3
  <2> QED  BY <1>1, <1>3, <1>4, <2>1
<1>6. all[Len(body) + 2] = z
  <2>1. /\ Len(body) + 2 \in 1 .. Len(first) + 1 /\ ~(Len(body) + 2 <= Len(first))
        /\ Len(body) + 2 - Len(first) = 1
    BY <1>2, <1>3
  <2> QED  BY <1>1, <1>4, <2>1
<1>7. ASSUME NEW p \in 1 .. Len(body)  PROVE all[p + 1] = body[p]
  <2>1. /\ p + 1 \in 1 .. Len(first) + 1 /\ p + 1 <= Len(first) /\ p + 1 \in 1 .. 1 + Len(body)
        /\ ~(p + 1 <= 1) /\ (p + 1) - 1 = p
    BY <1>2, <1>3
  <2> QED  BY <1>3, <1>4, <2>1
<1>8. Len(all) = Len(body) + 2
  BY <1>2, <1>3, <1>4
<1>9. Wraps(all, a, body, z)
  BY <1>0, <1>2, <1>4, <1>5, <1>6, <1>7, <1>8 DEF Wraps
<1> QED  BY <1>9 DEF all, first

\* The lines of a block.
LEMMA LinesFacts ==
  ASSUME NEW block \in Blocks
  PROVE  /\ LinesOf(block) \in Seq(FileLines) /\ Len(LinesOf(block)) \in Nat
         /\ block.body \in Seq(FileLines) /\ Len(block.body) \in Nat
         /\ \A p \in 1 .. Len(block.body) :
              block.body[p] \in FileLines /\ block.body[p].what \in {"command", "close"} \cup Noise
         /\ block.what # "menuentry" =>
              \A p \in 1 .. Len(LinesOf(block)) : LinesOf(block)[p].what # "menuentry"
         /\ block.what = "menuentry" =>
              /\ Len(LinesOf(block)) = Len(block.body) + 2
              /\ LinesOf(block)[1] = FileLine("menuentry", block.name, << >>)
              /\ LinesOf(block)[Len(block.body) + 2].what = "close"
              /\ \A p \in 1 .. Len(block.body) : LinesOf(block)[p + 1] = block.body[p]
<1>1. block.body \in Seq(BodyLine) /\ block.name \in STRING /\ block.what \in {"settings", "menuentry"}
  BY DEF Blocks
<1>2. BodyLine \subseteq FileLines /\ \A l \in BodyLine : l.what \in {"command", "close"} \cup Noise
  BY DEF BodyLine, FileLines, Titles
<1>3. /\ Len(block.body) \in Nat /\ \A p \in 1 .. Len(block.body) : block.body[p] \in BodyLine
      /\ block.body \in Seq(FileLines)
  <2>1. Len(block.body) \in Nat /\ \A p \in 1 .. Len(block.body) : block.body[p] \in BodyLine
    BY <1>1, LenProperties, ElementOfSeq
  <2> HIDE DEF BodyLine
  <2>2. block.body \in Seq(FileLines)
    BY <1>1, <1>2
  <2> QED  BY <2>1, <2>2
<1>4. << >> \in Seq(STRING)
  BY EmptySeq
<1> DEFINE begins == FileLine("menuentry", block.name, << >>)
           ends == FileLine("close", "end", << >>)
<1>5. ASSUME NEW what \in {"command", "menuentry", "close"}, NEW word \in Titles, NEW args \in Seq(STRING)
      PROVE  FileLine(what, word, args) \in FileLines /\ FileLine(what, word, args).what = what
  BY DEF FileLine, FileLines
<1>6. begins \in FileLines /\ ends \in FileLines /\ ends.what = "close"
  <2>1. "end" \in Titles /\ block.name \in Titles
    BY <1>1 DEF Titles
  <2> QED  BY <1>1, <1>4, <1>5, <2>1
<1>7. CASE block.what = "settings"
  <2>1. LinesOf(block) = block.body
    BY <1>7, Zenon DEF LinesOf
  <2>2. "menuentry" \notin {"command", "close"} \cup Noise
    BY DEF Noise
  <2> QED  BY <1>2, <1>3, <1>7, <2>1, <2>2
<1>8. CASE block.what = "menuentry"
  <2>1. LinesOf(block) = <<begins>> \o block.body \o <<ends>>
    BY <1>8, Zenon DEF LinesOf
  <2>0. begins \in FileLines /\ ends \in FileLines /\ block.body \in Seq(FileLines)
    BY <1>3, <1>6
  <2> HIDE DEF begins, ends
  <2> DEFINE all == LinesOf(block)
  <2>2. /\ all \in Seq(FileLines) /\ Len(all) = Len(block.body) + 2
        /\ all[1] = begins /\ all[Len(block.body) + 2] = ends
        /\ \A p \in 1 .. Len(block.body) : all[p + 1] = block.body[p]
    <3> DEFINE body == block.body
    <3>1. body \in Lists
      BY <2>0 DEF Lists
    <3> HIDE DEF body
    <3>2. Wraps(<<begins>> \o body \o <<ends>>, begins, body, ends)
      BY <2>0, <3>1, Wrapped
    <3>3. Wraps(all, begins, body, ends)
      BY <2>1, <3>2 DEF body
    <3> HIDE DEF all
    <3> QED  BY <3>3 DEF Wraps, Lists, body
  <2> HIDE DEF all
  <2>3. LinesOf(block) = all
    BY DEF all
  <2>4. Len(all) \in Nat /\ begins = FileLine("menuentry", block.name, << >>)
    BY <1>3, <2>2 DEF begins
  <2> QED  BY <1>2, <1>3, <1>6, <1>8, <2>2, <2>3, <2>4
<1> QED  BY <1>1, <1>7, <1>8

\* Outside an entry only the line that begins one does anything.
LEMMA LineOutside ==
  ASSUME NEW st, NEW line, ~st.inside, line.what # "menuentry"
  PROVE  ReadLine(st, line) = st
BY DEF ReadLine

\* Where the reader is after some lines of an entry: `old` was found before it.
In(st, name, old, commands) ==
  /\ st.inside = TRUE /\ st.title = name /\ DOMAIN st.found = DOMAIN old \cup {name}
  /\ st.found[name] = commands
  /\ \A t \in DOMAIN old : t # name => st.found[t] = old[t]

\* The line that begins an entry.
LEMMA LineBegins ==
  ASSUME NEW st, NEW name, NEW line, ~st.inside, line = FileLine("menuentry", name, << >>)
  PROVE  In(ReadLine(st, line), name, st.found, << >>)
<1>1. line.what = "menuentry" /\ line.word = name
  BY DEF FileLine
<1>2. ReadLine(st, line) = Reading(TRUE, name, Put(st.found, name, << >>))
  BY <1>1 DEF ReadLine
<1>3. \A found : LET s == Reading(TRUE, name, found) IN s.inside = TRUE /\ s.title = name /\ s.found = found
  BY DEF Reading
<1> DEFINE found == Put(st.found, name, << >>)
<1>4. /\ DOMAIN found = DOMAIN st.found \cup {name} /\ found[name] = << >>
      /\ \A t \in DOMAIN st.found : t # name => found[t] = st.found[t]
  BY DEF Put
<1> HIDE DEF found
<1>5. In(Reading(TRUE, name, found), name, st.found, << >>)
  BY <1>3, <1>4 DEF In
<1> QED  BY <1>2, <1>5 DEF found

\* A line of an entry.
LEMMA LineInside ==
  ASSUME NEW st, NEW name, NEW old, NEW commands, NEW line, In(st, name, old, commands),
         line.what \in {"command"} \cup Noise
  PROVE  In(ReadLine(st, line), name, old,
            IF line.what = "command" THEN Append(commands, line) ELSE commands)
<1>1. st.inside = TRUE /\ st.title = name /\ st.found[name] = commands
  BY DEF In
<1>2. CASE line.what # "command"
  <2>1. line.what \in Noise /\ line.what # "close"
    BY <1>2 DEF Noise
  <2>2. ReadLine(st, line) = st
    BY <1>1, <2>1 DEF ReadLine
  <2> QED  BY <1>2, <2>2
<1>3. CASE line.what = "command"
  <2>1. line.what \notin Noise /\ line.what # "close"
    BY <1>3 DEF Noise
  <2>2. ReadLine(st, line) = Reading(TRUE, name, Put(st.found, name, Append(commands, line)))
    BY <1>1, <2>1 DEF ReadLine
  <2>3. \A found : LET s == Reading(TRUE, name, found) IN s.inside = TRUE /\ s.title = name /\ s.found = found
    BY DEF Reading
  <2> DEFINE more == Append(commands, line)
             found == Put(st.found, name, more)
  <2> HIDE DEF more
  <2>4. /\ DOMAIN found = DOMAIN st.found \cup {name} /\ found[name] = more
        /\ \A t \in DOMAIN st.found : t # name => found[t] = st.found[t]
    BY DEF Put
  <2> HIDE DEF found
  <2>5. In(Reading(TRUE, name, found), name, old, more)
    BY <2>3, <2>4 DEF In
  <2> QED  BY <1>3, <2>2, <2>5 DEF found, more
<1> QED  BY <1>2, <1>3

\* The line that ends an entry, and where it leaves the reader.
Out(st, name, old, commands) ==
  /\ st.inside = FALSE /\ DOMAIN st.found = DOMAIN old \cup {name} /\ st.found[name] = commands
  /\ \A t \in DOMAIN old : t # name => st.found[t] = old[t]

\* The line that closes an entry puts what was read under its name, and nothing else.
LEMMA LineEnds ==
  ASSUME NEW st, NEW name, NEW old, NEW commands, NEW line, In(st, name, old, commands), line.what = "close"
  PROVE  Out(ReadLine(st, line), name, old, commands)
<1>1. ReadLine(st, line) = Reading(FALSE, st.title, st.found)
  BY DEF ReadLine, In
<1> QED  BY <1>1 DEF Reading, In, Out

\* A block without an entry, read from its first line to its last.
LEMMA BlockSkipped ==
  ASSUME NEW m \in Nat, NEW seq, NEW h,
         \A p \in 1 .. m : h[p] = ReadLine(h[p - 1], seq[p]),
         \A p \in 1 .. m : seq[p].what # "menuentry", ~h[0].inside
  PROVE  h[m] = h[0]
<1> DEFINE P == {p \in 0 .. m : h[p] = h[0]}
<1>1. 0 \in P
  OBVIOUS
<1>2. ASSUME NEW p \in 0 .. m, p < m, p \in P  PROVE p + 1 \in P
  <2>1. p + 1 \in 1 .. m /\ p + 1 \in 0 .. m /\ (p + 1) - 1 = p
    BY <1>2
  <2>2. h[p + 1] = ReadLine(h[p], seq[p + 1])
    BY <2>1
  <2>3. ReadLine(h[0], seq[p + 1]) = h[0]
    BY <2>1, LineOutside
  <2> QED  BY <1>2, <2>1, <2>2, <2>3
<1> HIDE DEF P
<1>3. m \in P
  <2>1. \A p \in 0 .. m : p \in P
    BY <1>1, <1>2, UpTo
  <2> QED  BY <2>1
<1> QED  BY <1>3 DEF P

\* A block that is an entry, likewise.
LEMMA BlockRead ==
  ASSUME NEW block \in Blocks, block.what = "menuentry", NEW h,
         \A p \in 1 .. Len(block.body) + 2 : h[p] = ReadLine(h[p - 1], LinesOf(block)[p]), ~h[0].inside
  PROVE  Out(h[Len(block.body) + 2], block.name, h[0].found, CommandsIn(block.body))
<1> DEFINE m == Len(block.body)
           body == block.body
           name == block.name
           old == h[0].found
           L == LinesOf(block)
<1>1. /\ body \in Seq(FileLines) /\ m \in Nat
      /\ L[1] = FileLine("menuentry", name, << >>) /\ L[m + 2].what = "close"
      /\ \A p \in 1 .. m : L[p + 1] = body[p] /\ body[p].what \in {"command", "close"} \cup Noise
  BY LinesFacts
<1>2. PICK u \in [0 .. m -> Seq(FileLines)] :
        /\ u[0] = << >> /\ CommandsIn(body) = u[m]
        /\ \A i \in 1 .. m : u[i] = IF Counted(body, i) THEN Append(u[i - 1], body[i]) ELSE u[i - 1]
  BY <1>1, CommandsSteps
<1>3. \A p \in 1 .. m + 2 : h[p] = ReadLine(h[p - 1], L[p])
  OBVIOUS
<1> HIDE DEF m, body, name, old, L
<1> DEFINE At(p) == IF Braced(body, p) THEN Out(h[p + 1], name, old, u[p]) ELSE In(h[p + 1], name, old, u[p])
           P == {p \in 0 .. m : At(p)}
<1>4. 0 \in P
  <2>1. 1 \in 1 .. m + 2 /\ 1 - 1 = 0 /\ 0 + 1 = 1 /\ 0 \in 0 .. m
    BY <1>1
  <2>2. h[1] = ReadLine(h[0], L[1])
    BY <1>3, <2>1
  <2>3. In(ReadLine(h[0], L[1]), name, old, << >>)
    BY <1>1, LineBegins DEF old
  <2>4. ~Braced(body, 0)
    BY DEF Braced
  <2> QED  BY <1>2, <2>1, <2>2, <2>3, <2>4
<1>5. ASSUME NEW p \in 0 .. m, p < m, p \in P  PROVE p + 1 \in P
  <2> DEFINE q == p + 1
             line == body[q]
  <2>1. /\ q \in 1 .. m /\ q \in 0 .. m /\ q - 1 = p /\ q + 1 \in 1 .. m + 2 /\ (q + 1) - 1 = q
        /\ 1 .. q = (1 .. p) \cup {q}
    BY SMTT(30), <1>1, <1>5
  <2>2. Braced(body, q) <=> Braced(body, p) \/ line.what = "close"
    BY <2>1 DEF Braced
  <2>3. Counted(body, q) <=> line.what = "command" /\ ~Braced(body, q)
    BY DEF Counted
  <2> HIDE DEF q, line
  <2>4. h[q + 1] = ReadLine(h[q], line)
    BY <1>1, <1>3, <2>1 DEF line
  <2>5. At(p) /\ h[p + 1] = h[q]
    BY <1>5 DEF q
  <2>6. line.what \in {"command", "close"} \cup Noise
    BY <1>1, <2>1 DEF line
  <2>7. u[q] = IF Counted(body, q) THEN Append(u[p], line) ELSE u[p]
    BY <1>2, <2>1 DEF line
  <2>8. CASE Braced(body, p)
    <3>1. Out(h[q], name, old, u[p]) /\ Braced(body, q) /\ u[q] = u[p]
      BY <2>2, <2>3, <2>5, <2>7, <2>8
    <3>2. line.what # "menuentry"
      BY <2>6 DEF Noise
    <3>3. ~h[q].inside
      BY <3>1 DEF Out
    <3>4. h[q + 1] = h[q]
      BY <2>4, <3>2, <3>3, LineOutside
    <3> QED  BY <2>1, <3>1, <3>4 DEF q
  <2>9. CASE ~Braced(body, p) /\ line.what = "close"
    <3>1. In(h[q], name, old, u[p]) /\ Braced(body, q) /\ u[q] = u[p]
      BY <2>2, <2>3, <2>5, <2>7, <2>9
    <3>2. Out(ReadLine(h[q], line), name, old, u[p])
      BY <2>9, <3>1, LineEnds
    <3> QED  BY <2>1, <2>4, <3>1, <3>2 DEF q
  <2>10. CASE ~Braced(body, p) /\ line.what # "close"
    <3>1. In(h[q], name, old, u[p]) /\ ~Braced(body, q)
      BY <2>2, <2>5, <2>10
    <3>2. line.what \in {"command"} \cup Noise
      BY <2>6, <2>10
    <3>3. In(ReadLine(h[q], line), name, old, IF line.what = "command" THEN Append(u[p], line) ELSE u[p])
      BY <3>1, <3>2, LineInside
    <3>4. u[q] = IF line.what = "command" THEN Append(u[p], line) ELSE u[p]
      BY <2>3, <2>7, <3>1
    <3> QED  BY <2>1, <2>4, <3>1, <3>3, <3>4 DEF q
  <2> QED  BY <2>8, <2>9, <2>10
<1> HIDE DEF P
<1>6. m \in P
  <2>1. \A p \in 0 .. m : p \in P
    BY <1>1, <1>4, <1>5, UpTo
  <2> QED  BY <1>1, <2>1
<1>7. IF Braced(body, m) THEN Out(h[m + 1], name, old, CommandsIn(body)) ELSE In(h[m + 1], name, old, CommandsIn(body))
  BY <1>2, <1>6 DEF P
<1>8. h[m + 2] = ReadLine(h[m + 1], L[m + 2])
  <2>1. m + 2 \in 1 .. m + 2 /\ (m + 2) - 1 = m + 1
    BY <1>1
  <2> QED  BY <1>3, <2>1
<1>9. Out(ReadLine(h[m + 1], L[m + 2]), name, old, CommandsIn(body))
  <2>1. CASE Braced(body, m)
    <3>1. ~h[m + 1].inside
      BY <1>7, <2>1 DEF Out
    <3> QED  BY <1>1, <1>7, <2>1, <3>1, LineOutside
  <2>2. CASE ~Braced(body, m)
    BY <1>1, <1>7, <2>2, LineEnds
  <2> QED  BY <2>1, <2>2
<1> QED  BY <1>8, <1>9 DEF m, body, name, old, L

\* What is found of some blocks: entries of theirs, each with its commands.
IsEntry(block) == block.what = "menuentry"
Known(found, blocks, k) ==
  \A t \in DOMAIN found :
    \E b \in 1 .. k : IsEntry(blocks[b]) /\ blocks[b].name = t /\ found[t] = CommandsIn(blocks[b].body)

\* An entry that is read leaves those of other titles alone.
LEMMA KnownMore ==
  ASSUME NEW blocks, NEW k \in Nat, NEW old, NEW st, Known(old, blocks, k),
         IsEntry(blocks[k + 1]), Out(st, blocks[k + 1].name, old, CommandsIn(blocks[k + 1].body))
  PROVE  Known(st.found, blocks, k + 1)
<1>1. k + 1 \in 1 .. k + 1 /\ \A b \in 1 .. k : b \in 1 .. k + 1
  OBVIOUS
<1> DEFINE name == blocks[k + 1].name
<1>2. ASSUME NEW t \in DOMAIN st.found
      PROVE  \E b \in 1 .. k + 1 : IsEntry(blocks[b]) /\ blocks[b].name = t
                                   /\ st.found[t] = CommandsIn(blocks[b].body)
  <2>1. CASE t = name
    BY <1>1, <2>1 DEF Out
  <2>2. CASE t # name
    <3>1. t \in DOMAIN old /\ st.found[t] = old[t]
      BY <2>2 DEF Out
    <3>2. PICK b \in 1 .. k : IsEntry(blocks[b]) /\ blocks[b].name = t /\ old[t] = CommandsIn(blocks[b].body)
      BY <3>1 DEF Known
    <3> QED  BY <1>1, <3>1, <3>2
  <2> QED  BY <2>1, <2>2
<1> QED  BY <1>2 DEF Known

\* What the reader makes of a file: the entries of its blocks.
LEMMA EntriesRead ==
  ASSUME NEW blocks, IsConfig(blocks)
  PROVE  Len(blocks) \in Nat /\ DOMAIN blocks = 1 .. Len(blocks) /\ Known(EntriesOf(FileOf(blocks)), blocks, Len(blocks))
<1> DEFINE n == Len(blocks)
           L == [b \in DOMAIN blocks |-> LinesOf(blocks[b])]
           S == FileLines
           file == FileOf(blocks)
<1>1. blocks \in Seq(Blocks)
  BY DEF IsConfig, Blocks
<1>2. n \in Nat /\ DOMAIN blocks = 1 .. n /\ \A b \in 1 .. n : blocks[b] \in Blocks
  BY <1>1, LenProperties, ElementOfSeq
<1>3. \A b \in 1 .. n : LinesOf(blocks[b]) \in Seq(S) /\ Len(LinesOf(blocks[b])) \in Nat
  BY <1>2, LinesFacts
<1>4. L \in Seq(Seq(S)) /\ Len(L) = n /\ \A b \in 1 .. n : L[b] = LinesOf(blocks[b])
  <2> DEFINE Q == Seq(S)
  <2>1. \A b \in 1 .. n : LinesOf(blocks[b]) \in Q
    BY <1>3
  <2> HIDE DEF n, Q
  <2>2. L = [b \in 1 .. n |-> LinesOf(blocks[b])]
    BY <1>2
  <2>3. L \in Seq(Q) /\ Len(L) = n
    BY <1>2, <2>1, <2>2
  <2> QED  BY <1>2, <2>2, <2>3 DEF Q
<1>5. file = FlattenSeq(L)
  BY DEF FileOf
<1> HIDE DEF n, L, S, file
<1>6. PICK f \in [0 .. n -> Seq(S)] : Joins(f, L)
  BY <1>4, FlattenSteps
<1>7. /\ file \in Seq(S)
      /\ \A k \in 0 .. n : Len(f[k]) \in 0 .. Len(file)
      /\ \A k \in 1 .. n : \A p \in 1 .. Len(L[k]) :
           Len(f[k - 1]) + p \in 1 .. Len(file) /\ file[Len(f[k - 1]) + p] = L[k][p]
  <2>0. f \in [0 .. Len(L) -> Seq(S)] /\ L \in Seq(Seq(S))
    BY <1>4
  <2>1. FlattenSeq(L) \in Seq(S) /\ Placed(f, L)
    BY <1>6, <2>0, FlattenAt
  <2> QED  BY <1>4, <1>5, <2>1 DEF Placed
<1>8. Len(file) \in Nat
  BY <1>7, LenProperties
<1>9. PICK g \in [0 .. Len(file) -> States] :
         /\ g[0] = Reading(FALSE, "none", << >>) /\ EntriesOf(file) = g[Len(file)].found
         /\ \A i \in 1 .. Len(file) : g[i] = ReadLine(g[i - 1], file[i])
  BY <1>7, ReadSteps DEF S
<1> DEFINE Good(k) == g[Len(f[k])].inside = FALSE /\ Known(g[Len(f[k])].found, blocks, k)
           P == {k \in 0 .. n : Good(k)}
<1>10. 0 \in P
  <2>1. Len(f[0]) = 0
    <3>1. f[0] = << >>
      BY <1>6 DEF Joins
    <3> QED  BY <3>1, EmptySeq
  <2>2. g[0].inside = FALSE /\ g[0].found = << >>
    <3> DEFINE start == Reading(FALSE, "none", << >>)
    <3>1. start.inside = FALSE /\ start.found = << >>
      BY DEF Reading
    <3>2. g[0] = start
      BY <1>9
    <3> HIDE DEF start
    <3> QED  BY <3>1, <3>2
  <2>3. Known(<< >>, blocks, 0)
    BY NothingFound DEF Known
  <2>4. Good(0)
    BY <2>1, <2>2, <2>3
  <2> QED  BY <1>2, <2>4
<1>11. ASSUME NEW k \in 0 .. n, k < n, k \in P  PROVE k + 1 \in P
  <2> DEFINE o == Len(f[k])
             m == Len(L[k + 1])
             h == [p \in 0 .. m |-> g[o + p]]
             block == blocks[k + 1]
  <2>1. k + 1 \in 1 .. n /\ k + 1 \in 0 .. n /\ (k + 1) - 1 = k
    BY <1>2, <1>11
  <2>2. m \in Nat /\ o \in Nat /\ o \in 0 .. Len(file) /\ block \in Blocks /\ L[k + 1] = LinesOf(block)
    BY <1>2, <1>3, <1>4, <1>7, <1>8, <2>1
  <2>3. Len(f[k + 1]) = o + m
    <3>1. Len(f[k + 1]) = Len(f[(k + 1) - 1]) + Len(L[k + 1])
      BY <1>4, <1>6, <2>1 DEF Joins
    <3> QED  BY <2>1, <3>1
  <2>4. \A p \in 1 .. m : o + p \in 1 .. Len(file) /\ file[o + p] = L[k + 1][p]
    <3>1. \A p \in 1 .. Len(L[k + 1]) : Len(f[(k + 1) - 1]) + p \in 1 .. Len(file)
                                        /\ file[Len(f[(k + 1) - 1]) + p] = L[k + 1][p]
      BY <1>7, <2>1
    <3> QED  BY <2>1, <3>1
  <2>5. Good(k)
    BY <1>11
  <2> HIDE DEF o, m, block
  <2>6. h[0] = g[o] /\ h[m] = g[o + m]
    <3>1. 0 \in 0 .. m /\ m \in 0 .. m /\ o + 0 = o
      BY <2>2
    <3> QED  BY <3>1
  <2>7. ASSUME NEW p \in 1 .. m  PROVE h[p] = ReadLine(h[p - 1], L[k + 1][p])
    <3>1. p \in 0 .. m /\ p - 1 \in 0 .. m /\ o + (p - 1) = (o + p) - 1
      BY <2>2
    <3>2. g[o + p] = ReadLine(g[(o + p) - 1], L[k + 1][p])
      BY <1>9, <2>4
    <3>3. h[p] = g[o + p] /\ h[p - 1] = g[o + (p - 1)]
      BY <3>1
    <3> QED  BY <3>1, <3>2, <3>3
  <2>8. ~h[0].inside /\ Known(h[0].found, blocks, k)
    BY <2>5, <2>6 DEF o
  <2> HIDE DEF h
  <2>9. h[m].inside = FALSE /\ Known(h[m].found, blocks, k + 1)
    <3>1. CASE ~IsEntry(block)
      <4>1. \A p \in 1 .. m : L[k + 1][p].what # "menuentry"
        BY <2>2, <3>1, LinesFacts DEF IsEntry, m
      <4>2. h[m] = h[0]
        <5> DEFINE its == L[k + 1]
        <5>1. /\ \A p \in 1 .. m : h[p] = ReadLine(h[p - 1], its[p])
              /\ \A p \in 1 .. m : its[p].what # "menuentry"
          BY <2>7, <4>1
        <5> HIDE DEF its
        <5> QED  BY ZenonT(30), <2>2, <2>8, <5>1, BlockSkipped
      <4>4. \A b \in 1 .. k : b \in 1 .. k + 1
        BY <2>1
      <4>5. h[0].inside = FALSE
        BY <2>5, <2>6 DEF o
      <4>6. Known(h[0].found, blocks, k + 1)
        BY <2>8, <4>4 DEF Known
      <4> QED  BY <4>2, <4>5, <4>6
    <3>2. CASE IsEntry(block)
      <4>1. m = Len(block.body) + 2
        BY <2>2, <3>2, LinesFacts DEF IsEntry, m
      <4>2. \A p \in 1 .. Len(block.body) + 2 : h[p] = ReadLine(h[p - 1], LinesOf(block)[p])
        BY <2>2, <2>7, <4>1
      <4>3. Out(h[Len(block.body) + 2], block.name, h[0].found, CommandsIn(block.body))
        BY <2>2, <2>8, <3>2, <4>2, BlockRead DEF IsEntry
      <4>4. Out(h[m], block.name, h[0].found, CommandsIn(block.body))
        BY <4>1, <4>3
      <4>5. k \in Nat
        BY <1>2
      <4>6. Known(h[m].found, blocks, k + 1)
        BY <2>8, <3>2, <4>4, <4>5, KnownMore DEF block
      <4> QED  BY <4>4, <4>6 DEF Out
    <3> QED  BY <3>1, <3>2
  <2>10. Good(k + 1)
    BY <2>3, <2>6, <2>9
  <2> QED  BY <2>1, <2>10
<1> HIDE DEF P
<1>12. \A k \in 0 .. n : k \in P
  BY <1>2, <1>10, <1>11, UpTo
<1>13. Good(n)
  <2>1. n \in 0 .. n
    BY <1>2
  <2> QED  BY <1>12, <2>1 DEF P
<1>14. Len(f[n]) = Len(file)
  BY <1>4, <1>5, <1>6 DEF Joins
<1> QED  BY <1>2, <1>9, <1>13, <1>14 DEF n, file

\* A parameter, or none, at the end of a line's arguments.
LEMMA OneMore ==
  ASSUME NEW S, NEW args \in Seq(S), NEW more \in Seq(S), Len(more) <= 1
  PROVE  /\ more = << >> => args \o more = args
         /\ more # << >> => args \o more = Append(args, more[1])
<1>1. CASE more = << >>
  BY <1>1, ConcatEmptySeq
<1>2. CASE more # << >>
  <2>1. Len(more) = 1 /\ Len(args) \in Nat
    <3>1. Len(more) \in Nat /\ Len(more) # 0
      BY <1>2, EmptySeq, LenProperties
    <3>2. Len(args) \in Nat
      BY LenProperties
    <3>3. \A n \in Nat : n # 0 /\ n <= 1 => n = 1
      OBVIOUS
    <3> QED  BY <3>1, <3>2, <3>3
  <2> DEFINE a == args \o more
             b == Append(args, more[1])
  <2>3. more[1] \in S
    <3>1. \A i \in 1 .. Len(more) : more[i] \in S
      BY ElementOfSeq
    <3>2. 1 \in 1 .. Len(more)
      BY <2>1
    <3> QED  BY <3>1, <3>2
  <2>4. /\ a \in Seq(S) /\ Len(a) = Len(args) + 1
        /\ \A i \in 1 .. Len(args) + 1 : a[i] = IF i <= Len(args) THEN args[i] ELSE more[i - Len(args)]
    BY SMTT(30), <2>1, ConcatProperties
  <2>5. /\ b \in Seq(S) /\ Len(b) = Len(args) + 1 /\ b[Len(args) + 1] = more[1]
        /\ \A i \in 1 .. Len(args) : b[i] = args[i]
    BY <2>3, AppendProperties
  <2> HIDE DEF a, b
  <2>6. ASSUME NEW i \in 1 .. Len(a)  PROVE a[i] = b[i]
    <3>1. i \in 1 .. Len(args) \/ (i = Len(args) + 1 /\ ~(i <= Len(args)) /\ i - Len(args) = 1)
      BY <2>1, <2>4
    <3>2. i \in 1 .. Len(args) => i <= Len(args)
      BY <2>1
    <3> QED  BY <2>1, <2>4, <2>5, <3>1, <3>2
  <2>7. a = b
    BY <2>4, <2>5, <2>6, SeqEqual
  <2> QED  BY <1>2, <2>7 DEF a, b
<1> QED  BY <1>1, <1>2

\* What is asked of GRUB's shell, line by line.
Asking(line, parameter) ==
  IF line.word = "linux" THEN [line EXCEPT !.args = @ \o parameter] ELSE line

\* With a parameter or without.
LEMMA AsksTheCommands ==
  ASSUME NEW picked \in Lists, NEW parameter \in Seq(STRING), Len(parameter) <= 1
  PROVE  (IF parameter = << >> THEN picked ELSE WithParameter(picked, parameter[1]))
           = [i \in DOMAIN picked |-> Asking(picked[i], parameter)]
<1>1. \A i \in DOMAIN picked : picked[i] \in FileLines
  <2>1. picked \in Seq(FileLines)
    BY DEF Lists
  <2> QED  BY <2>1, LenProperties, ElementOfSeq
<1>2. ASSUME NEW i \in DOMAIN picked  PROVE picked[i].args \in Seq(STRING)
  BY <1>1 DEF FileLines
<1>3. CASE parameter = << >>
  <2>1. ASSUME NEW i \in DOMAIN picked  PROVE Asking(picked[i], parameter) = picked[i]
    <3>1. picked[i].args \o parameter = picked[i].args
      BY <1>2, <1>3, OneMore
    <3>2. [picked[i] EXCEPT !.args = picked[i].args] = picked[i]
      BY <1>1 DEF FileLines
    <3> QED  BY <3>1, <3>2 DEF Asking
  <2>2. picked = [i \in DOMAIN picked |-> picked[i]]
    <3>1. picked \in [1 .. Len(picked) -> FileLines]
      BY DEF Lists
    <3> QED  BY <3>1
  <2> QED  BY <1>3, <2>1, <2>2
<1>4. CASE parameter # << >>
  <2>1. ASSUME NEW i \in DOMAIN picked
        PROVE  Asking(picked[i], parameter)
                 = IF picked[i].word = "linux" THEN [picked[i] EXCEPT !.args = Append(@, parameter[1])]
                                               ELSE picked[i]
    <3>1. picked[i].args \o parameter = Append(picked[i].args, parameter[1])
      BY <1>2, <1>4, OneMore
    <3> QED  BY <3>1 DEF Asking
  <2> QED  BY <1>4, <2>1 DEF WithParameter
<1> QED  BY <1>3, <1>4

\* An entry's commands are commands.
LEMMA CommandsRead ==
  ASSUME NEW body \in Seq(BodyLine)
  PROVE  CommandsIn(body) \in Seq(Read)
<1> DEFINE n == Len(body)
           V == Seq(Read)
<1>1. n \in Nat /\ \A i \in 1 .. n : body[i] \in BodyLine
  BY LenProperties, ElementOfSeq
<1>2. BodyLine \subseteq FileLines /\ \A l \in BodyLine : l.what = "command" => l \in Read
  BY DEF BodyLine, FileLines, Titles, Read
<1>3. body \in Seq(FileLines)
  <2> HIDE DEF n
  <2> QED  BY <1>2, SeqMonotonic
<1>4. PICK u \in [0 .. n -> Seq(FileLines)] :
        /\ u[0] = << >> /\ CommandsIn(body) = u[n]
        /\ \A i \in 1 .. n : u[i] = IF Counted(body, i) THEN Append(u[i - 1], body[i]) ELSE u[i - 1]
  BY <1>3, CommandsSteps
<1>5. << >> \in V /\ \A v \in V, l \in Read : Append(v, l) \in V
  BY EmptySeq, AppendProperties
<1> HIDE DEF n, V
<1> DEFINE P == {i \in 0 .. n : u[i] \in V}
<1>6. 0 \in P
  BY <1>1, <1>4, <1>5
<1>7. ASSUME NEW i \in 0 .. n, i < n, i \in P  PROVE i + 1 \in P
  <2>1. i + 1 \in 1 .. n /\ i + 1 \in 0 .. n /\ (i + 1) - 1 = i
    BY <1>1, <1>7
  <2>2. u[i + 1] = IF Counted(body, i + 1) THEN Append(u[i], body[i + 1]) ELSE u[i]
    BY <1>4, <2>1
  <2>3. u[i] \in V /\ (Counted(body, i + 1) => body[i + 1] \in Read)
    BY <1>1, <1>2, <1>7, <2>1 DEF Counted
  <2>4. u[i + 1] \in V
    BY <1>5, <2>2, <2>3
  <2> QED  BY <2>1, <2>4
<1> HIDE DEF P
<1>8. \A i \in 0 .. n : i \in P
  BY <1>1, <1>6, <1>7, UpTo
<1>9. n \in P
  BY <1>1, <1>8
<1> QED  BY <1>4, <1>9 DEF P, V

\* What is returned of an entry: its commands, each asked for with the parameter.
Returns(i, e, b) ==
  /\ IsEntry(i[b]) /\ i[b].name = e.title /\ CommandsIn(i[b].body) \in Seq(Read)
  /\ CommandsOf(FileOf(i), e.title, e.parameter)
       = [p \in DOMAIN CommandsIn(i[b].body) |-> Asking(CommandsIn(i[b].body)[p], e.parameter)]

\* An entry the reader does not refuse is one of the image, and what it returns are
\* that entry's commands, the parameter on the kernel's line (grubcfg.py:90-105).
LEMMA EntryFound ==
  ASSUME NEW i \in Images, NEW e \in Entries, ~Refuses(FileOf(i), e.title, e.parameter)
  PROVE  \E b \in DOMAIN i : Returns(i, e, b)
<1> DEFINE found == EntriesOf(FileOf(i))
<1>1. IsConfig(i) /\ e.parameter \in Seq(STRING) /\ Len(e.parameter) <= 1
  BY ImagesAssumption
<1>2. DOMAIN i = 1 .. Len(i) /\ Known(found, i, Len(i)) /\ i \in Seq(Blocks)
  BY <1>1, EntriesRead DEF IsConfig, Blocks
<1>3. e.title \in DOMAIN found
  BY DEF Refuses
<1> HIDE DEF found
<1>4. PICK b \in DOMAIN i : IsEntry(i[b]) /\ i[b].name = e.title /\ found[e.title] = CommandsIn(i[b].body)
  BY <1>2, <1>3 DEF Known
<1> DEFINE picked == CommandsIn(i[b].body)
<1>5. found[e.title] = picked
  BY <1>4
<1>6. picked \in Seq(Read)
  <2>1. i[b] \in Blocks
    BY <1>2, <1>4, ElementOfSeq
  <2>2. i[b].body \in Seq(BodyLine)
    BY <2>1 DEF Blocks
  <2> QED  BY <2>2, CommandsRead
<1> HIDE DEF picked
<1>7. picked \in Lists
  <2>1. Read \subseteq FileLines
    BY DEF Read, FileLines, Titles
  <2> QED  BY <1>6, <2>1, SeqMonotonic DEF Lists
<1>8. CommandsOf(FileOf(i), e.title, e.parameter)
        = IF e.parameter = << >> THEN picked ELSE WithParameter(picked, e.parameter[1])
  BY <1>5 DEF CommandsOf, found
<1>9. CommandsOf(FileOf(i), e.title, e.parameter) = [p \in DOMAIN picked |-> Asking(picked[p], e.parameter)]
  BY <1>1, <1>7, <1>8, AsksTheCommands
<1>10. Returns(i, e, b)
  BY <1>4, <1>6, <1>9, Zenon DEF Returns, picked
<1> QED  BY <1>10

\* So what is typed is a list of commands.
LEMMA ReaderReturns ==
  ASSUME NEW i \in Images, NEW e \in Entries, ~Refuses(FileOf(i), e.title, e.parameter)
  PROVE  Full(i, e) \in Seq(Read)
<1>1. PICK b \in DOMAIN i : Returns(i, e, b)
  BY EntryFound
<1> DEFINE picked == CommandsIn(i[b].body)
           asked == [p \in DOMAIN picked |-> Asking(picked[p], e.parameter)]
<1>2. picked \in Seq(Read) /\ CommandsOf(FileOf(i), e.title, e.parameter) = asked
  BY <1>1, Zenon DEF Returns
<1>3. e.prelude \in Seq(Read) /\ e.parameter \in Seq(STRING)
  BY ImagesAssumption
<1> HIDE DEF picked
<1>4. Len(picked) \in Nat /\ DOMAIN picked = 1 .. Len(picked) /\ \A p \in 1 .. Len(picked) : picked[p] \in Read
  BY <1>2, LenProperties, ElementOfSeq
<1>5. ASSUME NEW line \in Read  PROVE Asking(line, e.parameter) \in Read
  <2>1. line.args \o e.parameter \in Seq(STRING)
    <3>1. line.args \in Seq(STRING)
      BY DEF Read
    <3> QED  BY <1>3, <3>1, ConcatProperties
  <2> DEFINE args == line.args \o e.parameter
  <2> HIDE DEF args
  <2>2. [line EXCEPT !.args = args] \in Read
    BY <2>1 DEF Read, args
  <2> QED  BY <2>2 DEF Asking, args
<1>6. asked \in [1 .. Len(picked) -> Read]
  <2>1. \A p \in 1 .. Len(picked) : Asking(picked[p], e.parameter) \in Read
    BY <1>4, <1>5
  <2> QED  BY <1>4, <2>1
<1> HIDE DEF asked
<1>7. asked \in Seq(Read)
  BY <1>4, <1>6, Sequence
<1>8. e.prelude \o asked \in Seq(Read)
  BY <1>3, <1>7, ConcatProperties
<1> QED  BY <1>2, <1>8 DEF Full

-----------------------------------------------------------------------------
(* The driver's steps.                                                     *)

\* A wait for one mark: it was drawn, and it is found where it was left.
LEMMA OneMark ==
  ASSUME TablesInv, NEW m, Consumes({m})
  PROVE  /\ Drawn(m.what) /\ ~Quiet /\ cursor' \in 0 .. Len(console) /\ console[cursor'] = m
         /\ \A n : One(n) => cursor' = cursor + 1 /\ cursor' = Len(console)
         /\ \A n : n # m /\ Two(n, m) => cursor' = cursor + 2 /\ cursor' = Len(console)
<1>1. /\ cursor' \in cursor + 1 .. Len(console) /\ console[cursor'] = m /\ cursor' \in DOMAIN console
      /\ cursor' \in Nat /\ Len(console) \in Nat /\ cursor \in Nat
  BY ConsumesFacts
<1>2. Drawn(m.what) /\ ~Quiet /\ cursor' \in 0 .. Len(console)
  BY <1>1 DEF Drawn, Quiet
<1>3. \A n : One(n) => cursor' = cursor + 1 /\ cursor' = Len(console)
  BY <1>1 DEF One
<1>4. \A n : n # m /\ Two(n, m) => cursor' = cursor + 2 /\ cursor' = Len(console)
  BY <1>1 DEF Two
<1> QED  BY <1>1, <1>2, <1>3, <1>4

\* A key that is sent comes after those that wait.
LEMMA SendsFacts ==
  ASSUME TablesInv, NEW k \in Keys, Sends(k)
  PROVE  /\ keys' \in Seq(Keys) /\ Len(keys) \in Nat /\ Len(keys') = Len(keys) + 1 /\ keys' # << >>
         /\ DOMAIN keys = 1 .. Len(keys) /\ DOMAIN keys' = 1 .. Len(keys')
         /\ \A i \in 1 .. Len(keys) : keys'[i] = keys[i]
         /\ keys'[Len(keys) + 1] = k
         /\ (keys = << >> => keys' = <<k>>) /\ (\A a : keys = <<a>> => keys' = <<a, k>>)
<1>1. keys \in Seq(Keys) /\ keys' = Append(keys, k)
  BY DEF TablesInv, Sends
<1>2. /\ keys' \in Seq(Keys) /\ Len(keys) \in Nat /\ Len(keys') = Len(keys) + 1
      /\ \A i \in 1 .. Len(keys) : keys'[i] = keys[i]
      /\ keys'[Len(keys) + 1] = k
  BY <1>1, AppendProperties, LenProperties
<1>3. DOMAIN keys = 1 .. Len(keys) /\ DOMAIN keys' = 1 .. Len(keys')
  BY <1>1, <1>2, LenProperties
<1>4. keys' # << >>
  BY <1>2, EmptySeq
<1>5. keys = << >> => keys' = <<k>>
  BY <1>1, Short
<1>6. ASSUME NEW a, keys = <<a>>  PROVE keys' = <<a, k>>
  <2>1. Append(<<a>>, k) = <<a, k>>
    BY Short
  <2> QED  BY <1>1, <1>6, <2>1
<1> QED  BY <1>2, <1>3, <1>4, <1>5, <1>6

\* The driver changes nothing of the guest's.
LEMMA DriverFrameFacts ==
  ASSUME IInv, DriverFrame
  PROVE  /\ UNCHANGED <<goal, image, entry, console, guest, highlight, paused, booted, ran>>
         /\ DrawnInv' /\ Wanted' = Wanted
<1>1. UNCHANGED <<goal, image, entry, console, guest, highlight, paused, booted, ran>>
  BY DEF DriverFrame, boot, guestVars
<1> QED  BY <1>1 DEF IInv, DrawnInv, Drawn, Booting, Wanted

\* What is to be typed is read off the image.
LEMMA ReadImageStep ==
  ASSUME IInv, ReadImage
  PROVE  IInv'
<1>1. /\ UNCHANGED <<goal, image, entry, console, guest, highlight, paused, booted, ran,
                     keys, step, tries, count, outputs, answered, cursor>>
      /\ DrawnInv' /\ Wanted' = Wanted
  BY DriverFrameFacts DEF ReadImage
<1>2. CASE Refuses(FileOf(image), entry.title, entry.parameter)
  <2>1. pc' = "failed" /\ lines' = lines
    BY <1>2 DEF ReadImage
  <2>2. TablesInv'
    BY <1>1, <2>1 DEF IInv, TablesInv
  <2>3. PortInv'
    BY <1>1, <2>1 DEF IInv, PortInv, AtMostEnter, Downs, Chosen
  <2>4. RanInv'
    BY <1>1, <2>1 DEF IInv, RanInv, Booting
  <2>5. PlaceInv'
    BY <2>1 DEF PlaceInv
  <2> QED  BY <1>1, <2>1, <2>2, <2>3, <2>4, <2>5 DEF IInv, OwnOutput
<1>3. CASE ~Refuses(FileOf(image), entry.title, entry.parameter)
  <2>1. /\ pc = "commands" /\ pc' = (IF guest = "firmware" THEN "firmware" ELSE "menu")
        /\ lines' = Full(image, entry)
    BY <1>3 DEF ReadImage
  <2>2. goal = Typed /\ image \in Images /\ entry \in Entries
    BY <2>1 DEF IInv, RanInv, TablesInv
  <2>3. lines' \in Seq(Read)
    BY <1>3, <2>1, <2>2, ReaderReturns
  <2>4. guest \in {"firmware", "grub", "menu"} /\ count = 0 /\ keys = << >>
    BY <2>1 DEF IInv, PlaceInv
  <2>5. ran = << >> /\ Len(ran) = 0 /\ DOMAIN ran = {} /\ Len(lines') \in Nat
    BY <2>3, <2>4, LenProperties DEF IInv, RanInv
  <2>6. TablesInv'
    BY <1>1, <2>3 DEF IInv, TablesInv
  <2>7. PortInv'
    BY <1>1, <2>4 DEF IInv, PortInv, AtMostEnter, Downs, Chosen
  <2>8. RanInv'
    BY <1>1, <2>1, <2>2, <2>4, <2>5 DEF IInv, RanInv, Booting
  <2>9. PlaceInv'
    BY <1>1, <2>1 DEF IInv, PlaceInv, Quiet, One, Two, Drawn
  <2>10. count' \in 0 .. Len(lines') \cup 0 .. Commands
    BY <1>1, <2>4, <2>5
  <2> QED  BY <1>1, <2>1, <2>6, <2>7, <2>8, <2>9, <2>10 DEF IInv, OwnOutput
<1> QED  BY <1>2, <1>3

\* ENTER at the firmware's prompt.
LEMMA AnswerFirmwareStep ==
  ASSUME IInv, AnswerFirmware
  PROVE  IInv'
<1>1. /\ UNCHANGED <<goal, image, entry, console, guest, highlight, paused, booted, ran,
                     lines, step, tries, count, outputs, answered>>
      /\ DrawnInv' /\ Wanted' = Wanted /\ pc = "firmware" /\ pc' = "menu"
      /\ TablesInv /\ Consumes({Mark("enter")}) /\ Sends(Key("enter"))
  BY DriverFrameFacts DEF AnswerFirmware, IInv
<1>2. /\ Drawn("enter") /\ ~Quiet /\ cursor' \in 0 .. Len(console)
      /\ \A n : One(n) => cursor' = Len(console)
  BY <1>1, OneMark, MarkFacts
<1>3. guest = "firmware" /\ keys = << >> /\ One(Mark("enter"))
  BY <1>1, <1>2 DEF IInv, PlaceInv
<1>4. keys' = <<Key("enter")>> /\ keys' \in Seq(Keys)
  BY <1>1, <1>3, KeyFacts, SendsFacts
<1>5. TablesInv'
  BY <1>1, <1>2, <1>4 DEF TablesInv
<1>6. PortInv'
  BY <1>1, <1>3, <1>4 DEF PortInv, AtMostEnter, Key
<1>7. RanInv'
  BY <1>1, <1>3 DEF IInv, RanInv, Booting
<1>8. PlaceInv'
  <2>1. cursor' = Len(console) /\ Drawn("enter")'
    BY <1>1, <1>2, <1>3 DEF Drawn
  <2> QED  BY <1>1, <1>3, <1>4, <2>1 DEF IInv, PlaceInv, Quiet, Key
<1> QED  BY <1>1, <1>5, <1>6, <1>7, <1>8 DEF IInv, OwnOutput

\* The menu is read, and left alone or left for the shell.
LEMMA SeeMenuStep ==
  ASSUME IInv, SeeMenu
  PROVE  IInv'
<1>1. /\ UNCHANGED <<goal, image, entry, console, guest, highlight, paused, booted, ran,
                     lines, step, tries, count, outputs, answered>>
      /\ DrawnInv' /\ Wanted' = Wanted /\ pc = "menu"
      /\ TablesInv /\ Consumes({Mark("ready")})
  BY DriverFrameFacts DEF SeeMenu, IInv
<1>2. /\ ~Quiet /\ cursor' \in 0 .. Len(console)
      /\ \A n : n # Mark("ready") /\ Two(n, Mark("ready")) => cursor' = Len(console)
  BY <1>1, OneMark
<1>3. guest = "menu" /\ keys = << >> /\ Two(Star(1), Mark("ready"))
  BY <1>1, <1>2 DEF IInv, PlaceInv
<1>4. cursor' = Len(console)
  <2>1. Star(1) # Mark("ready")
    BY DEF Star, Mark
  <2> QED  BY <1>2, <1>3, <2>1
<1>5. count = 0 /\ step = 1 /\ tries = 0 /\ ~answered /\ outputs = << >>
  BY <1>1 DEF IInv, PlaceInv
<1>6. CASE goal = Typed
  <2>1. pc' = "grub" /\ Sends(Key("c"))
    BY <1>6 DEF SeeMenu
  <2>2. keys' = <<Key("c")>> /\ keys' \in Seq(Keys)
    BY <1>1, <1>3, <2>1, KeyFacts, SendsFacts
  <2>3. TablesInv'
    BY <1>1, <1>2, <2>2 DEF TablesInv
  <2>4. PortInv'
    BY <1>1, <1>3, <1>6, <2>2 DEF PortInv, Key
  <2>5. RanInv'
    BY <1>1, <1>3, <1>6, <2>1 DEF IInv, RanInv, Booting
  <2>6. PlaceInv'
    BY <1>1, <1>3, <1>4, <1>5, <1>6, <2>1, <2>2 DEF PlaceInv, Quiet, Key
  <2> QED  BY <1>1, <2>1, <2>3, <2>4, <2>5, <2>6 DEF IInv, OwnOutput
<1>7. CASE goal # Typed
  <2>1. pc' = "press" /\ keys' = keys
    BY <1>7 DEF SeeMenu
  <2>2. goal \in Titled /\ Wanted \in 1 .. Len(Menu) /\ Len(Menu) \in Nat
    BY <1>1, <1>7, MenuFacts DEF TablesInv
  <2>3. Downs'
    BY <1>3, <2>1 DEF Downs
  <2>4. TablesInv'
    BY <1>1, <1>2, <2>1 DEF TablesInv
  <2>5. PortInv'
    BY <1>1, <1>3, <1>7, <2>3 DEF PortInv
  <2>6. RanInv'
    BY <1>1, <1>7, <2>1 DEF IInv, RanInv, Booting
  <2>7. PlaceInv'
    BY <1>1, <1>3, <1>5, <2>1, <2>2, <2>3 DEF PlaceInv
  <2> QED  BY <1>1, <2>1, <2>4, <2>5, <2>6, <2>7 DEF IInv, OwnOutput
<1> QED  BY <1>6, <1>7

\* One Down.
LEMMA PressStep ==
  ASSUME IInv, Press
  PROVE  IInv'
<1>1. /\ UNCHANGED <<goal, image, entry, console, guest, highlight, paused, booted, ran,
                     lines, step, count, outputs, answered, cursor>>
      /\ DrawnInv' /\ Wanted' = Wanted /\ pc = "press" /\ pc' = "move" /\ step < Wanted
      /\ TablesInv /\ Sends(Key("down")) /\ tries' = tries + 1
  BY DriverFrameFacts DEF Press, IInv
<1>2. goal \in Titled /\ goal # Typed /\ guest = "menu" /\ Downs /\ tries < 2 /\ tries \in 0 .. 2
  BY <1>1, MenuAssumption DEF IInv, PlaceInv, TablesInv
<1>3. /\ keys' \in Seq(Keys) /\ Len(keys) \in Nat /\ Len(keys') = Len(keys) + 1
      /\ DOMAIN keys = 1 .. Len(keys) /\ DOMAIN keys' = 1 .. Len(keys')
      /\ \A i \in 1 .. Len(keys) : keys'[i] = keys[i]
      /\ keys'[Len(keys) + 1] = Key("down") /\ Key("down").key = "down"
  BY <1>1, KeyFacts, SendsFacts
<1>4. Downs'
  <2> SUFFICES ASSUME NEW i \in 1 .. Len(keys) + 1  PROVE keys'[i].key = "down"
    BY <1>3 DEF Downs
  <2>1. i \in 1 .. Len(keys) \/ i = Len(keys) + 1
    BY <1>3
  <2> QED  BY <1>2, <1>3, <2>1 DEF Downs
<1>5. tries' \in 0 .. 2 /\ tries' > 0
  BY <1>1, <1>2
<1>6. TablesInv'
  BY <1>1, <1>3, <1>5 DEF TablesInv
<1>7. PortInv'
  BY <1>1, <1>2, <1>4 DEF PortInv
<1>8. RanInv'
  BY <1>1, <1>2 DEF IInv, RanInv, Booting
<1>9. PlaceInv'
  BY <1>1, <1>2, <1>4, <1>5 DEF IInv, PlaceInv
<1> QED  BY <1>1, <1>6, <1>7, <1>8, <1>9 DEF IInv, OwnOutput

\* The highlight on the next title.
LEMMA MovedStep ==
  ASSUME IInv, Moved
  PROVE  IInv'
<1>1. /\ UNCHANGED <<goal, image, entry, console, guest, highlight, paused, booted, ran,
                     lines, keys, count, outputs, answered>>
      /\ DrawnInv' /\ Wanted' = Wanted /\ pc = "move" /\ pc' = "press" /\ step' = step + 1 /\ tries' = 0
      /\ TablesInv /\ Consumes(Expected)
  BY DriverFrameFacts DEF Moved, AfterMove, IInv
<1>2. /\ goal \in Titled /\ goal # Typed /\ guest = "menu" /\ step < Wanted
      /\ Wanted \in 1 .. Len(Menu) /\ Len(Menu) \in Nat /\ step \in 1 .. Len(Menu)
  BY <1>1, MenuFacts, MenuAssumption DEF IInv, PlaceInv, TablesInv
<1>3. cursor' \in 0 .. Len(console)
  BY <1>1, ConsumesFacts
<1>4. step' \in 1 .. Len(Menu) /\ step' <= Wanted
  BY <1>1, <1>2
<1>5. Downs /\ Downs'
  BY <1>1 DEF IInv, PlaceInv, Downs
<1>6. TablesInv'
  BY <1>1, <1>3, <1>4 DEF TablesInv
<1>7. PortInv'
  BY <1>1, <1>2, <1>5 DEF PortInv
<1>8. RanInv'
  BY <1>1, <1>2 DEF IInv, RanInv, Booting
<1>9. PlaceInv'
  BY <1>1, <1>2, <1>4, <1>5 DEF IInv, PlaceInv
<1> QED  BY <1>1, <1>6, <1>7, <1>8, <1>9 DEF IInv, OwnOutput

\* No move in time.
LEMMA MoveTimesOutStep ==
  ASSUME IInv, MoveTimesOut
  PROVE  IInv'
<1>1. /\ UNCHANGED <<goal, image, entry, console, guest, highlight, paused, booted, ran,
                     lines, keys, count, outputs, answered, cursor, step, tries>>
      /\ DrawnInv' /\ Wanted' = Wanted /\ pc = "move" /\ pc' = (IF tries < 2 THEN "press" ELSE "failed")
  BY DriverFrameFacts DEF MoveTimesOut, TryAgain
<1>2. goal \in Titled /\ goal # Typed /\ guest = "menu" /\ step < Wanted /\ Downs /\ Downs'
  BY <1>1, MenuAssumption DEF IInv, PlaceInv, Downs
<1>3. step <= Wanted /\ tries \in 0 .. 2
  BY <1>1 DEF IInv, PlaceInv, TablesInv
<1>4. TablesInv'
  BY <1>1 DEF IInv, TablesInv
<1>5. PortInv'
  BY <1>1, <1>2 DEF PortInv
<1>6. RanInv'
  BY <1>1, <1>2 DEF IInv, RanInv, Booting
<1>7. PlaceInv'
  BY <1>1, <1>2, <1>3 DEF IInv, PlaceInv
<1> QED  BY <1>1, <1>4, <1>5, <1>6, <1>7 DEF IInv, OwnOutput

\* ENTER on the title.
LEMMA ChooseStep ==
  ASSUME IInv, Choose
  PROVE  IInv'
<1>1. /\ UNCHANGED <<goal, image, entry, console, guest, highlight, paused, booted, ran,
                     lines, step, tries, count, outputs, answered, cursor>>
      /\ DrawnInv' /\ Wanted' = Wanted /\ pc = "press" /\ pc' = "banner"
      /\ TablesInv /\ Sends(Key("enter"))
  BY DriverFrameFacts DEF Choose, IInv
<1>2. goal \in Titled /\ goal # Typed /\ guest = "menu" /\ Downs
  BY <1>1, MenuAssumption DEF IInv, PlaceInv
<1>3. /\ keys' \in Seq(Keys) /\ Len(keys) \in Nat /\ Len(keys') = Len(keys) + 1 /\ keys' # << >>
      /\ DOMAIN keys = 1 .. Len(keys)
      /\ \A i \in 1 .. Len(keys) : keys'[i] = keys[i]
      /\ keys'[Len(keys) + 1] = Key("enter")
  BY <1>1, KeyFacts, SendsFacts
<1>4. Chosen'
  BY <1>2, <1>3 DEF Downs, Chosen, Key
<1>5. TablesInv'
  BY <1>1, <1>3 DEF TablesInv
<1>6. PortInv'
  BY <1>1, <1>2, <1>4 DEF PortInv
<1>7. RanInv'
  BY <1>1, <1>2 DEF IInv, RanInv, Booting
<1>8. PlaceInv'
  BY <1>1, <1>2, <1>4 DEF IInv, PlaceInv
<1> QED  BY <1>1, <1>5, <1>6, <1>7, <1>8 DEF IInv, OwnOutput

\* A line at GRUB's prompt, or `boot`.
LEMMA TypeLineStep ==
  ASSUME IInv, TypeLine
  PROVE  IInv'
<1>1. /\ UNCHANGED <<goal, image, entry, console, guest, highlight, paused, booted, ran,
                     lines, step, tries, outputs, answered>>
      /\ DrawnInv' /\ Wanted' = Wanted /\ pc = "grub"
      /\ TablesInv /\ Consumes({Mark("grub")})
  BY DriverFrameFacts DEF TypeLine, GrubPrompt, IInv
<1>2. ~Quiet /\ cursor' \in 0 .. Len(console) /\ \A n : One(n) => cursor' = Len(console)
  BY <1>1, OneMark
<1>3. /\ guest = "shell of grub" /\ keys = << >> /\ One(Mark("grub")) /\ count = Len(ran)
      /\ goal = Typed /\ ~answered /\ outputs = << >>
  BY <1>1, <1>2 DEF IInv, PlaceInv
<1>4. cursor' = Len(console)
  BY <1>2, <1>3
<1>5. Len(ran) \in Nat /\ Len(lines) \in Nat /\ Len(ran) <= Len(lines)
  BY <1>1, LenProperties DEF TablesInv, IInv, RanInv
<1>6. CASE count < Len(lines)
  <2>1. Sends(Line(count + 1)) /\ count' = count + 1 /\ pc' = pc
    BY <1>6 DEF TypeLine
  <2>2. count + 1 \in Nat /\ count + 1 \in 0 .. Len(lines)
    <3>1. count = Len(ran)
      BY <1>3
    <3> QED  BY <1>5, <1>6, <3>1
  <2>3. keys' = <<Line(count + 1)>> /\ keys' \in Seq(Keys)
    <3>1. Line(count + 1) \in Keys
      BY <2>2, KeyFacts
    <3> QED  BY <1>1, <1>3, <2>1, <3>1, SendsFacts
  <2>4. TablesInv'
    BY <1>1, <1>2, <2>1, <2>2, <2>3 DEF TablesInv
  <2>5. PortInv'
    BY <1>1, <1>3, <1>6, <2>3 DEF PortInv, Line
  <2>6. RanInv'
    BY <1>1, <2>1, <1>3 DEF IInv, RanInv, Booting
  <2>7. PlaceInv'
    BY <1>1, <1>3, <1>4, <2>1, <2>3 DEF PlaceInv, Quiet, Line
  <2> QED  BY <1>1, <2>1, <2>2, <2>4, <2>5, <2>6, <2>7 DEF IInv, OwnOutput
<1>7. CASE ~(count < Len(lines))
  <2>1. Sends(Line(0)) /\ count' = 0 /\ pc' = "banner"
    BY <1>7 DEF TypeLine
  <2>2. keys' = <<Line(0)>> /\ keys' \in Seq(Keys)
    BY <1>1, <1>3, <2>1, KeyFacts, SendsFacts
  <2>3. Len(ran) = Len(lines)
    <3>1. count = Len(ran)
      BY <1>3
    <3> QED  BY <1>5, <1>7, <3>1
  <2>4. TablesInv'
    BY <1>1, <1>2, <2>1, <2>2 DEF TablesInv
  <2>5. PortInv'
    BY <1>1, <1>3, <2>2, <2>3 DEF PortInv, Line
  <2>6. RanInv'
    BY <1>1, <2>1, <1>3 DEF IInv, RanInv, Booting
  <2>7. PlaceInv'
    BY <1>1, <1>3, <2>1, <2>2 DEF PlaceInv, Line
  <2>8. count' \in 0 .. Len(lines')
    BY <1>1, <1>5, <2>1
  <2> QED  BY <1>1, <2>1, <2>4, <2>5, <2>6, <2>7, <2>8 DEF IInv, OwnOutput
<1> QED  BY <1>6, <1>7

\* ENTER for the loader's pause.
LEMMA AnswerPauseStep ==
  ASSUME IInv, AnswerPause
  PROVE  IInv'
<1>1. /\ UNCHANGED <<goal, image, entry, console, guest, highlight, paused, booted, ran,
                     lines, pc, step, tries, count, outputs, cursor>>
      /\ DrawnInv' /\ Wanted' = Wanted /\ pc = "banner" /\ answered' = TRUE
      /\ TablesInv /\ ~answered /\ ~Absent({Mark("any key")}) /\ Sends(Key("enter"))
  BY DriverFrameFacts DEF AnswerPause, IInv
<1>2. Drawn("any key")
  <2>1. DOMAIN console = 1 .. Len(console) /\ cursor \in Nat
    <3>1. console \in Seq(Marks) /\ cursor \in 0 .. Len(console)
      BY <1>1 DEF TablesInv
    <3> QED  BY <3>1, LenProperties
  <2>2. PICK p \in cursor + 1 .. Len(console) : console[p] = Mark("any key")
    BY <1>1 DEF Absent
  <2>3. p \in DOMAIN console
    BY <2>1
  <2>4. console[p].what = "any key"
    BY <2>2, MarkFacts
  <2> QED  BY <2>3, <2>4 DEF Drawn
<1>3. guest \in Booting \ {"shell"} /\ keys = << >> /\ count = 0 /\ outputs = << >>
  BY <1>1, <1>2 DEF IInv, PlaceInv, DrawnInv, Booting, AtMostEnter
<1>4. keys' = <<Key("enter")>> /\ keys' \in Seq(Keys)
  BY <1>1, <1>3, KeyFacts, SendsFacts
<1>5. TablesInv'
  BY <1>1, <1>4 DEF TablesInv
<1>6. PortInv'
  BY <1>1, <1>3 DEF PortInv, Booting
<1>7. RanInv'
  BY <1>1, <1>3 DEF IInv, RanInv, Booting
<1>8. PlaceInv'
  BY <1>1, <1>3, <1>4 DEF PlaceInv, AtMostEnter, Key, Booting
<1> QED  BY <1>1, <1>5, <1>6, <1>7, <1>8 DEF IInv, OwnOutput

\* The banner, and the login's prompt: both seen after the menu.
LEMMA SeeBannerStep ==
  ASSUME IInv, SeeBanner
  PROVE  IInv'
<1>1. /\ UNCHANGED <<goal, image, entry, console, guest, highlight, paused, booted, ran,
                     keys, lines, step, tries, count, outputs, answered>>
      /\ DrawnInv' /\ pc = "banner" /\ pc' = "login"
      /\ TablesInv /\ Consumes({Mark("banner")})
  BY DriverFrameFacts DEF SeeBanner, IInv
<1>2. Drawn("banner") /\ cursor' \in 0 .. Len(console)
  BY <1>1, OneMark, MarkFacts
<1>3. guest \in {"kernel", "getty", "dead"} /\ AtMostEnter /\ count = 0 /\ outputs = << >>
  BY <1>1, <1>2 DEF IInv, PlaceInv, DrawnInv, Booting
<1>4. TablesInv'
  BY <1>1, <1>2 DEF TablesInv
<1>5. PortInv'
  BY <1>1, <1>3 DEF PortInv
<1>6. RanInv'
  BY <1>1, <1>3 DEF IInv, RanInv, Booting
<1>7. PlaceInv'
  BY <1>1, <1>3 DEF PlaceInv, AtMostEnter, Key
<1> QED  BY <1>1, <1>4, <1>5, <1>6, <1>7 DEF IInv, OwnOutput

\* The user's name.
LEMMA LoginStep ==
  ASSUME IInv, Login
  PROVE  IInv'
<1>1. /\ UNCHANGED <<goal, image, entry, console, guest, highlight, paused, booted, ran,
                     lines, step, tries, count, outputs, answered>>
      /\ DrawnInv' /\ pc = "login" /\ pc' = "shell"
      /\ TablesInv /\ Consumes({Mark("login")}) /\ Sends(Key("root"))
  BY DriverFrameFacts DEF Login, IInv
<1>2. Drawn("login") /\ cursor' \in 0 .. Len(console)
  BY <1>1, OneMark, MarkFacts
<1>3. guest = "getty" /\ AtMostEnter /\ count = 0 /\ outputs = << >>
  BY <1>1, <1>2 DEF IInv, PlaceInv, DrawnInv
<1>4. keys' \in {<<Key("root")>>, <<Key("enter"), Key("root")>>} /\ keys' \in Seq(Keys)
  BY <1>1, <1>3, KeyFacts, SendsFacts DEF AtMostEnter
<1>5. TablesInv'
  BY <1>1, <1>2, <1>4 DEF TablesInv
<1>6. PortInv'
  BY <1>1, <1>3 DEF PortInv
<1>7. RanInv'
  BY <1>1, <1>3 DEF IInv, RanInv, Booting
<1>8. PlaceInv'
  BY <1>1, <1>3, <1>4 DEF PlaceInv, Key
<1> QED  BY <1>1, <1>5, <1>6, <1>7, <1>8 DEF IInv, OwnOutput

\* The shell's first prompt.
LEMMA SeeShellStep ==
  ASSUME IInv, SeeShell
  PROVE  IInv'
<1>1. /\ UNCHANGED <<goal, image, entry, console, guest, highlight, paused, booted, ran,
                     keys, lines, step, tries, count, outputs, answered>>
      /\ DrawnInv' /\ pc = "shell" /\ pc' = "run"
      /\ TablesInv /\ Consumes({Mark("shell")})
  BY DriverFrameFacts DEF SeeShell, IInv
<1>2. /\ Drawn("shell") /\ cursor' \in 0 .. Len(console) /\ cursor' \in cursor + 1 .. Len(console)
      /\ console[cursor'] = Mark("shell")
  BY ZenonT(30), <1>1, OneMark, ConsumesFacts, MarkFacts
<1>3. guest = "shell" /\ count = 0 /\ outputs = << >> /\ Len(outputs) = 0
  BY <1>1, <1>2 DEF IInv, PlaceInv, DrawnInv
<1>4. keys = << >> /\ cursor' = Len(console)
  BY <1>1, <1>2, <1>3 DEF IInv, PlaceInv
<1>5. TablesInv'
  BY <1>1, <1>2 DEF TablesInv
<1>6. PortInv'
  BY <1>1, <1>3 DEF PortInv
<1>7. RanInv'
  BY <1>1, <1>3 DEF IInv, RanInv, Booting
<1>8. PlaceInv'
  BY <1>1, <1>3, <1>4, CountsAssumption DEF PlaceInv, Quiet
<1> QED  BY <1>1, <1>5, <1>6, <1>7, <1>8 DEF IInv, OwnOutput

\* A command, or the end of the boot.
LEMMA RunStep ==
  ASSUME IInv, Run
  PROVE  IInv'
<1>1. /\ UNCHANGED <<goal, image, entry, console, guest, highlight, paused, booted, ran,
                     lines, step, tries, outputs, answered, cursor>>
      /\ DrawnInv' /\ pc = "run" /\ TablesInv
  BY DriverFrameFacts DEF Run, IInv
<1>2. guest = "shell" /\ keys = << >> /\ Quiet /\ count <= Commands /\ Len(outputs) = count /\ count \in Nat
  BY <1>1 DEF IInv, PlaceInv, TablesInv
<1>3. CASE count < Commands
  <2>1. Sends(Line(count + 1)) /\ count' = count + 1 /\ pc' = "reply"
    BY <1>3 DEF Run
  <2>2. count + 1 \in 1 .. Commands /\ count + 1 \in 0 .. Commands /\ count + 1 \in Nat
    BY <1>2, <1>3, CountsAssumption
  <2>3. keys' = <<Line(count + 1)>> /\ keys' \in Seq(Keys)
    <3>1. Line(count + 1) \in Keys
      BY <2>2, KeyFacts
    <3> QED  BY <1>1, <1>2, <2>1, <3>1, SendsFacts
  <2>4. TablesInv'
    BY <1>1, <2>1, <2>2, <2>3 DEF TablesInv
  <2>5. PortInv'
    BY <1>1, <1>2 DEF PortInv
  <2>6. RanInv'
    BY <1>1, <1>2, <2>1 DEF IInv, RanInv, Booting
  <2>7. PlaceInv'
    BY <1>1, <1>2, <2>1, <2>2, <2>3 DEF PlaceInv, Quiet, Line
  <2> QED  BY <1>1, <2>1, <2>2, <2>4, <2>5, <2>6, <2>7 DEF IInv, OwnOutput
<1>4. CASE ~(count < Commands)
  <2>1. pc' = "done" /\ keys' = keys /\ count' = count
    BY <1>4 DEF Run
  <2>2. TablesInv'
    BY <1>1, <2>1 DEF TablesInv
  <2>3. PortInv'
    BY <1>1, <1>2 DEF PortInv
  <2>4. RanInv'
    BY <1>1, <1>2, <2>1 DEF IInv, RanInv, Booting
  <2>5. PlaceInv'
    BY <2>1 DEF PlaceInv
  <2> QED  BY <1>1, <2>1, <2>2, <2>3, <2>4, <2>5 DEF IInv, OwnOutput
<1> QED  BY <1>3, <1>4

\* What came before the next prompt: the command's output, alone.
LEMMA ReplyStep ==
  ASSUME IInv, Reply
  PROVE  IInv'
<1>1. /\ UNCHANGED <<goal, image, entry, console, guest, highlight, paused, booted, ran,
                     keys, lines, step, tries, count, answered>>
      /\ DrawnInv' /\ pc = "reply" /\ pc' = "run" /\ TablesInv /\ Consumes({Mark("shell")})
      /\ outputs' = Append(outputs, SubSeq(console, cursor + 1, cursor' - 1))
  BY DriverFrameFacts DEF Reply, IInv
<1>2. ~Quiet /\ cursor' \in 0 .. Len(console)
      /\ \A n : n # Mark("shell") /\ Two(n, Mark("shell")) => cursor' = cursor + 2 /\ cursor' = Len(console)
  BY <1>1, OneMark
<1>3. /\ guest = "shell" /\ keys = << >> /\ count \in 1 .. Commands /\ Len(outputs) + 1 = count
      /\ Two(Output(count), Mark("shell"))
  BY <1>1, <1>2 DEF IInv, PlaceInv
<1>4. cursor' = cursor + 2 /\ cursor' = Len(console)
  <2>1. Output(count) # Mark("shell")
    BY DEF Output, Mark
  <2> QED  BY <1>2, <1>3, <2>1
<1>5. SubSeq(console, cursor + 1, cursor' - 1) = <<Output(count)>> /\ Output(count) \in Marks
  <2>1. console \in Seq(Marks) /\ cursor \in Nat /\ Len(console) \in Nat /\ count \in Nat
    BY <1>1, LenProperties DEF TablesInv
  <2>2. cursor' - 1 = cursor + 1 /\ cursor + 1 \in 1 .. Len(console)
    BY <1>4, <2>1
  <2>3. Output(count) \in Marks
    BY <2>1, MarkFacts
  <2> DEFINE s == SubSeq(console, cursor + 1, cursor + 1)
  <2>4. s \in Seq(Marks) /\ Len(s) = 1 /\ s[1] = console[cursor + 1]
    BY <2>1, <2>2, SubSeqProperties
  <2>5. <<Output(count)>> \in Seq(Marks) /\ Len(<<Output(count)>>) = 1 /\ <<Output(count)>>[1] = Output(count)
    BY <2>3, Short
  <2>6. s[1] = Output(count)
    BY <1>3, <2>4 DEF Two
  <2>7. s = <<Output(count)>>
    <3> HIDE DEF s
    <3> QED  BY <2>4, <2>5, <2>6, SeqEqual
  <2> QED  BY <2>2, <2>3, <2>7
<1>6. /\ outputs' \in Seq(Seq(Marks)) /\ Len(outputs') = count /\ outputs'[count] = <<Output(count)>>
      /\ \A i \in 1 .. Len(outputs) : outputs'[i] = outputs[i]
      /\ DOMAIN outputs' = 1 .. count /\ Len(outputs) \in Nat /\ DOMAIN outputs = 1 .. Len(outputs)
  <2> DEFINE o == <<Output(count)>>
  <2>1. o \in Seq(Marks) /\ outputs' = Append(outputs, o) /\ outputs \in Seq(Seq(Marks))
    BY <1>1, <1>5 DEF TablesInv
  <2> HIDE DEF o
  <2>2. /\ outputs' \in Seq(Seq(Marks)) /\ Len(outputs') = Len(outputs) + 1
        /\ outputs'[Len(outputs) + 1] = o /\ \A i \in 1 .. Len(outputs) : outputs'[i] = outputs[i]
    BY <2>1, AppendProperties
  <2>3. Len(outputs) \in Nat /\ DOMAIN outputs = 1 .. Len(outputs) /\ DOMAIN outputs' = 1 .. Len(outputs')
    BY <2>1, <2>2, LenProperties
  <2> QED  BY <1>3, <2>2, <2>3 DEF o
<1>7. OwnOutput'
  <2> SUFFICES ASSUME NEW i \in 1 .. count  PROVE outputs'[i] = <<Output(i)>>
    BY <1>6 DEF OwnOutput, Output
  <2>1. i \in 1 .. Len(outputs) \/ i = count
    BY <1>3, <1>6
  <2> QED  BY <1>6, <2>1 DEF IInv, OwnOutput
<1>8. TablesInv'
  BY <1>1, <1>2, <1>6 DEF TablesInv
<1>9. PortInv'
  BY <1>1, <1>3 DEF PortInv
<1>10. RanInv'
  BY <1>1, <1>3 DEF IInv, RanInv, Booting
<1>11. PlaceInv'
  BY <1>1, <1>3, <1>4, <1>6, CountsAssumption DEF PlaceInv, Quiet
<1> QED  BY <1>1, <1>7, <1>8, <1>9, <1>10, <1>11 DEF IInv

\* A boot given up.
LEMMA EndBootStep ==
  ASSUME IInv, EndBoot
  PROVE  IInv'
<1>1. /\ UNCHANGED <<goal, image, entry, console, guest, highlight, paused, booted, ran,
                     keys, lines, step, tries, count, outputs, answered, cursor>>
      /\ DrawnInv' /\ pc' = "failed"
  BY DriverFrameFacts DEF EndBoot
<1>2. TablesInv'
  BY <1>1 DEF IInv, TablesInv
<1>3. PortInv'
  BY <1>1 DEF IInv, PortInv, AtMostEnter, Downs, Chosen
<1>4. RanInv'
  BY <1>1 DEF IInv, RanInv, Booting
<1>5. PlaceInv'
  BY <1>1 DEF PlaceInv
<1> QED  BY <1>1, <1>2, <1>3, <1>4, <1>5 DEF IInv, OwnOutput
-----------------------------------------------------------------------------
(* The theorems.                                                           *)

\* The boot's first state.
LEMMA InitIInv == Init => IInv
<1> SUFFICES ASSUME Init  PROVE IInv
  OBVIOUS
<1>1. /\ step = 1 /\ tries = 0 /\ count = 0 /\ outputs = << >> /\ answered = FALSE /\ lines = << >>
      /\ console = << >> /\ cursor = 0 /\ keys = << >> /\ guest \in {"firmware", "grub"}
      /\ highlight = 1 /\ paused = FALSE /\ booted = "none" /\ ran = << >>
      /\ goal \in Titled \cup {Typed} /\ (goal = Typed => image \in Images /\ entry \in Entries)
      /\ pc = (IF goal = Typed THEN "commands" ELSE IF guest = "grub" THEN "menu" ELSE "firmware")
  BY DEF Init
<1>2. Len(console) = 0 /\ DOMAIN console = {} /\ Len(ran) = 0 /\ DOMAIN ran = {} /\ DOMAIN outputs = {}
      /\ console \in Seq(Marks) /\ keys \in Seq(Keys) /\ ran \in Seq(Read) /\ lines \in Seq(Read)
      /\ outputs \in Seq(Seq(Marks)) /\ Len(lines) = 0
  BY <1>1
<1>3. Typed \notin Titled /\ Typed # "none"
  BY MenuAssumption
<1>4. TablesInv
  <2>1. 1 \in 1 .. Len(Menu) /\ cursor \in 0 .. Len(console) /\ 0 \in 0 .. 2
    BY <1>1, <1>2, MenuFacts
  <2> QED  BY <1>1, <1>2, <2>1 DEF TablesInv
<1>5. DrawnInv
  BY <1>1, <1>2 DEF DrawnInv, Drawn
<1>6. PortInv
  BY <1>1 DEF PortInv, AtMostEnter
<1>7. RanInv
  BY <1>1, <1>2, <1>3 DEF RanInv
<1>8. PlaceInv
  BY <1>1, <1>2 DEF PlaceInv, Quiet
<1>9. OwnOutput
  BY <1>2 DEF OwnOutput
<1> QED  BY <1>1, <1>2, <1>4, <1>5, <1>6, <1>7, <1>8, <1>9 DEF IInv

\* Whoever steps.
LEMMA NextIInv == IInv /\ [Next]_vars => IInv'
<1> SUFFICES ASSUME IInv, [Next]_vars  PROVE IInv'
  OBVIOUS
<1>1. CASE Guest
  BY <1>1, GuestStep
<1>2. CASE Driver
  BY <1>2, ReadImageStep, AnswerFirmwareStep, SeeMenuStep, PressStep, MovedStep, MoveTimesOutStep,
     ChooseStep, TypeLineStep, AnswerPauseStep, SeeBannerStep, LoginStep, SeeShellStep, RunStep,
     ReplyStep, EndBootStep
     DEF Driver
<1>3. CASE UNCHANGED vars
  <2>1. UNCHANGED <<goal, image, entry, pc, lines, step, tries, count, outputs, answered, console, cursor,
                    keys, guest, highlight, paused, booted, ran>>
    BY <1>3 DEF vars
  <2>2. TablesInv'
    BY <2>1 DEF IInv, TablesInv
  <2>3. DrawnInv'
    BY <2>1 DEF IInv, DrawnInv, Drawn, Booting
  <2>4. PortInv'
    BY <2>1 DEF IInv, PortInv, AtMostEnter, Downs, Chosen
  <2>5. RanInv'
    BY <2>1 DEF IInv, RanInv, Booting
  <2>6. PlaceInv'
    BY <2>1 DEF IInv, PlaceInv, Quiet, One, Two, Drawn, Downs, Chosen, AtMostEnter, Booting, Wanted
  <2> QED  BY <2>1, <2>2, <2>3, <2>4, <2>5, <2>6 DEF IInv, OwnOutput
<1> QED  BY <1>1, <1>2, <1>3 DEF Next, Finished

\* The driver's place tells where the guest is: the invariant the theorems rest on.
THEOREM Inductive == Spec => []IInv
BY InitIInv, NextIInv, PTL DEF Spec

\* Every variable stays what it is said to be: two keys a move, no more lines run
\* than read off the image (console.py).
THEOREM TypeCorrect == Spec => []TypeOK
<1>1. IInv => TypeOK
  <2> SUFFICES ASSUME IInv  PROVE TypeOK
    OBVIOUS
  <2>1. guest \in {"firmware", "grub", "menu", "shell of grub", "grub runs", "loading", "kernel",
                   "getty", "shell", "dead"}
    BY DEF IInv, DrawnInv, Booting
  <2> QED  BY <2>1 DEF IInv, TablesInv, RanInv, TypeOK, Keys
<1> QED  BY <1>1, Inductive, PTL

\* What `run` returns for a command is that command's output and no other's,
\* whenever the answer to the loader's pause arrives (console.py's login and run).
THEOREM OutputIsOwn == Spec => []OwnOutput
<1>1. IInv => OwnOutput
  BY DEF IInv
<1> QED  BY <1>1, Inductive, PTL

\* No guest's step sends a key.
LEMMA GuestSendsNothing ==
  ASSUME TablesInv, Guest
  PROVE  Len(keys') <= Len(keys)
<1>1. keys \in Seq(Keys) /\ Len(keys) \in Nat
  BY LenProperties DEF TablesInv
<1>2. keys' = keys \/ (keys # << >> /\ keys' = Tail(keys))
  BY DEF Guest, FirmwarePrompts, GrubDrawsMenu, FirmwareReads, MenuMoves, MenuMisreads, MenuBoots, GrubShell,
         GrubReadsLine, GrubRanLine, LoaderPauses, LoaderEnds, LoaderTimesOut, KernelDone, GettyReads,
         ShellReads, Panics, Reads
<1>3. keys # << >> => Len(Tail(keys)) = Len(keys) - 1
  BY <1>1, HeadTailProperties
<1> QED  BY <1>1, <1>2, <1>3

\* At GRUB's shell a wait that succeeds has seen the prompt of an idle shell.
LEMMA PromptIsIdle ==
  ASSUME IInv, pc = "grub", Consumes({Mark("grub")})
  PROVE  guest = "shell of grub" /\ keys = << >>
<1>1. ~Quiet
  BY OneMark DEF IInv
<1> QED  BY <1>1 DEF IInv, PlaceInv

\* A line is typed at GRUB's shell only when the one before it has run and its
\* prompt is back (console.py:144-145).
THEOREM TypingInTurn == Spec => TypedInTurn
<1> DEFINE A == (pc = "grub" /\ Len(keys') > Len(keys)) => (guest = "shell of grub" /\ keys = << >>)
<1>1. IInv /\ [Next]_vars => [A]_vars
  <2> SUFFICES ASSUME IInv, Next, pc = "grub", Len(keys') > Len(keys)
               PROVE  guest = "shell of grub" /\ keys = << >>
    BY DEF vars
  <2>1. TablesInv /\ Len(keys) \in Nat
    BY LenProperties DEF IInv, TablesInv
  <2>2. ~Guest
    <3>1. CASE Guest
      <4>1. Len(keys') <= Len(keys) /\ IInv'
        BY <2>1, <3>1, GuestSendsNothing, GuestStep
      <4>2. Len(keys') \in Nat
        BY <4>1, LenProperties DEF IInv, TablesInv
      <4> QED  BY <2>1, <4>1, <4>2
    <3> QED  BY <3>1
  <2>3. keys' # keys
    BY <2>1
  <2>4. TypeLine
    BY <2>2, <2>3 DEF Next, Driver, ReadImage, AnswerFirmware, SeeMenu, Press, Moved, MoveTimesOut, Choose,
                      AnswerPause, SeeBanner, Login, SeeShell, Run, Reply, EndBoot, Finished, vars
  <2> QED  BY <2>4, PromptIsIdle DEF TypeLine, GrubPrompt
<1> QED  BY <1>1, Inductive, PTL DEF Spec, TypedInTurn

\* Booted by typing: the whole of what was read off the image has run.
TypedWhole == booted = Typed => goal = Typed /\ ran = Full(image, entry)

\* A typed boot has run, in order, what was read off the image, and nothing less or
\* else: `boot` is typed at the prompt after the last of it (console.py:137-140).
THEOREM BootsWholeEntry == Spec => []TypedWhole
<1>1. IInv => TypedWhole
  BY DEF IInv, RanInv, TypedWhole, Booting
<1> QED  BY <1>1, Inductive, PTL
-----------------------------------------------------------------------------
(* A guest that reads its keys in time boots what was asked for.           *)

\* Past the menu only what was booted matters.
LEMMA PastMenu ==
  ASSUME IInv', guest' \notin {"firmware", "grub", "menu"}, PicksTitle'
  PROVE  PickInv'
BY DEF IInv, PlaceInv, PickInv

\* Keys that are all Down choose nothing.
LEMMA DownsChooseNothing ==
  ASSUME TablesInv
  PROVE  Downs => ~Chosen
<1>1. keys \in Seq(Keys) /\ Len(keys) \in Nat /\ DOMAIN keys = 1 .. Len(keys) /\ (keys # << >> => Len(keys) # 0)
  BY LenProperties, EmptySeq DEF TablesInv
<1> QED  BY <1>1, KeyFacts DEF Downs, Chosen

\* The guest's steps up to the menu.
LEMMA GuestUpToMenu ==
  ASSUME IInv, PickInv, FirmwarePrompts \/ GrubDrawsMenu \/ FirmwareReads
  PROVE  PickInv'
<1>1. /\ guest \in {"firmware", "grub"} /\ guest' \in {"firmware", "grub", "menu"}
      /\ UNCHANGED <<goal, pc, highlight, booted>> /\ (guest' = "menu" => keys' = keys /\ guest = "grub")
  BY DEF FirmwarePrompts, GrubDrawsMenu, FirmwareReads, GuestFrame, boot, driverVars
<1>2. highlight = 1 /\ pc \notin {"press", "move"} /\ PicksTitle
  BY <1>1 DEF IInv, PlaceInv, PickInv
<1>3. guest' = "menu" => ~Chosen'
  BY <1>1 DEF IInv, PortInv, Chosen
<1> QED  BY <1>1, <1>2, <1>3 DEF PickInv, PicksTitle

\* A key the menu takes for Down: the move that was waited for, or none.
LEMMA MenuKey ==
  ASSUME IInv, PickInv, MenuMoves \/ MenuMisreads
  PROVE  PickInv'
<1>1. /\ guest = "menu" /\ guest' = "menu" /\ Reads("down") /\ TablesInv /\ TablesInv'
      /\ UNCHANGED <<goal, image, entry, pc, lines, step, tries, count, outputs, answered, cursor, booted>>
  BY MenuMovesStep, MenuMisreadsStep DEF IInv, MenuMoves, MenuMisreads, GuestFrame, boot, driverVars, guestVars
<1>2. keys # << >> /\ pc \notin {"commands", "firmware", "menu"} /\ ~Chosen /\ Downs
  <2>1. keys # << >> /\ goal # Typed /\ pc \notin {"commands", "firmware", "menu"} /\ (Chosen => Len(keys) # 1)
    BY <1>1, MenuKeyGone
  <2>2. ~Chosen
    <3>1. Chosen => Len(keys) = 1
      BY <1>1 DEF PickInv
    <3> QED  BY <2>1, <3>1
  <2> QED  BY <1>1, <2>1, <2>2 DEF IInv, PortInv
<1>3. ~Chosen'
  <2>1. Downs'
    BY <1>1, <1>2, MenuKeyGone
  <2> QED  BY <1>1, <2>1, DownsChooseNothing DEF TablesInv, Chosen, Downs, Keys, Key
<1>4. pc # "press" /\ PicksTitle
  BY <1>2 DEF PickInv
<1>5. ASSUME pc = "move"  PROVE \/ Quiet' /\ highlight' = step
                                \/ One(Star(step + 1))' /\ highlight' = step + 1
  <2>1. Quiet /\ highlight = step
    BY <1>2, <1>5 DEF PickInv
  <2>2. step < Wanted /\ goal \in Titled
    BY <1>5 DEF IInv, PlaceInv
  <2>3. highlight < Len(Menu)
    BY <1>1, <2>1, <2>2, MenuFacts DEF TablesInv
  <2>4. CASE MenuMoves
    <3>1. Draws(<<Star(step + 1)>>) /\ highlight' = step + 1
      BY <2>1, <2>3, <2>4 DEF MenuMoves
    <3>2. Star(step + 1) \in Marks
      <4>1. step + 1 \in Nat
        BY <1>1, MenuFacts DEF TablesInv
      <4> QED  BY <4>1, MarkFacts
    <3>3. console \in Seq(Marks)
      BY <1>1 DEF TablesInv
    <3>4. Len(console') = Len(console) + 1 /\ console'[Len(console) + 1] = Star(step + 1)
      BY <3>1, <3>2, <3>3, DrawOne
    <3> QED  BY <1>1, <2>1, <3>1, <3>4 DEF Quiet, One, Star
  <2>5. CASE MenuMisreads
    BY <2>1, <2>5 DEF MenuMisreads, guestVars, GuestFrame, driverVars, Quiet
  <2> QED  BY <2>4, <2>5
<1>6. ASSUME pc = "move"  PROVE keys' = << >> /\ Len(keys') <= 1
  <2>1. Len(keys) <= 1
    BY <1>2, <1>6 DEF PickInv
  <2>2. /\ keys' \in Seq(Keys) /\ Len(keys) \in Nat \ {0} /\ Len(keys') = Len(keys) - 1
    BY <1>1, ReadsFacts
  <2> QED  BY <2>1, <2>2, EmptySeq
<1> QED  BY <1>1, <1>2, <1>3, <1>4, <1>5, <1>6 DEF PickInv, PicksTitle

\* ENTER boots the highlighted entry, which is the chosen one.
LEMMA MenuBootsChosen ==
  ASSUME IInv, PickInv, MenuBoots
  PROVE  PickInv'
<1>1. IInv' /\ guest' = "loading" /\ guest = "menu" /\ booted' = Menu[highlight] /\ goal' = goal
  BY MenuBootsStep DEF MenuBoots, GuestFrame, boot
<1>2. Reads("enter") /\ TablesInv
  BY DEF MenuBoots, IInv
<1>3. keys[1].key = "enter" /\ 1 \in DOMAIN keys /\ keys # << >>
  BY <1>2, ReadsFacts DEF Reads
<1>4. Chosen
  <2>1. keys # <<Key("c")>> /\ ~Downs
    BY <1>3, KeyFacts, Short DEF Downs
  <2> QED  BY <1>1, <1>3, <2>1 DEF IInv, PortInv
<1>5. booted' = goal
  BY <1>1, <1>4, MenuFacts DEF PickInv
<1> QED  BY <1>1, <1>5, PastMenu DEF PicksTitle

\* The guest's steps past the menu.
LEMMA GuestPastMenu ==
  ASSUME IInv, PickInv,
         \/ GrubShell \/ GrubReadsLine \/ GrubRanLine \/ LoaderPauses \/ LoaderEnds \/ LoaderTimesOut
         \/ KernelDone \/ GettyReads \/ ShellReads \/ Panics
  PROVE  PickInv'
<1>1. IInv'
  BY GuestStep DEF Guest
<1>2. /\ guest' \notin {"firmware", "grub", "menu"} /\ goal' = goal
      /\ booted' = booted \/ (booted' = Typed /\ guest = "shell of grub")
  BY DEF GrubShell, GrubReadsLine, GrubRanLine, LoaderPauses, LoaderEnds, LoaderTimesOut, KernelDone,
         GettyReads, ShellReads, Panics, GuestFrame, boot
<1>3. PicksTitle'
  BY <1>2 DEF PickInv, PicksTitle, IInv, PortInv
<1> QED  BY <1>1, <1>2, <1>3, PastMenu

\* The driver's steps up to the menu.
LEMMA DriverUpToMenu ==
  ASSUME IInv, PickInv, ReadImage \/ AnswerFirmware \/ SeeMenu
  PROVE  PickInv'
<1>1. /\ IInv' /\ UNCHANGED <<goal, console, guest, highlight, booted, step>> /\ Wanted' = Wanted
      /\ pc \in {"commands", "firmware", "menu"} /\ pc' \in {"firmware", "menu", "press", "grub", "failed"}
  <2>1. IInv'
    BY ReadImageStep, AnswerFirmwareStep, SeeMenuStep
  <2>2. DriverFrame
    BY DEF ReadImage, AnswerFirmware, SeeMenu
  <2>3. step' = step /\ pc \in {"commands", "firmware", "menu"} /\ pc' \in {"firmware", "menu", "press", "grub", "failed"}
    BY DEF ReadImage, AnswerFirmware, SeeMenu
  <2> QED  BY <2>1, <2>2, <2>3, DriverFrameFacts
<1>2. highlight = 1 /\ step = 1 /\ PicksTitle
  BY <1>1 DEF IInv, PlaceInv, PickInv
<1>3. ASSUME guest = "menu"  PROVE ~Chosen'
  <2>1. keys = << >> /\ ~AnswerFirmware
    BY <1>1, <1>3 DEF IInv, PlaceInv, AnswerFirmware
  <2>2. keys' = << >> \/ keys' = <<Key("c")>>
    BY <2>1, Short DEF ReadImage, SeeMenu, Sends
  <2> QED  BY <2>2, Short DEF Chosen, Key
<1>4. ASSUME pc' = "press"  PROVE keys' = << >> /\ Quiet'
  <2>1. SeeMenu /\ keys' = keys /\ TablesInv /\ pc = "menu"
    BY <1>4 DEF ReadImage, AnswerFirmware, SeeMenu, IInv
  <2>2. ~Quiet /\ \A n : n # Mark("ready") /\ Two(n, Mark("ready")) => cursor' = Len(console)
    BY <2>1, OneMark DEF SeeMenu
  <2>3. keys = << >> /\ Two(Star(1), Mark("ready"))
    BY <2>1, <2>2 DEF IInv, PlaceInv
  <2>4. Star(1) # Mark("ready")
    BY DEF Star, Mark
  <2> QED  BY <1>1, <2>1, <2>2, <2>3, <2>4 DEF Quiet
<1> QED  BY <1>1, <1>2, <1>3, <1>4 DEF PickInv, PicksTitle

\* One Down, for a highlight that is where it was drawn last.
LEMMA PressOne ==
  ASSUME IInv, PickInv, Press
  PROVE  PickInv'
<1>1. /\ IInv' /\ UNCHANGED <<goal, console, guest, highlight, booted, step, cursor>> /\ Wanted' = Wanted
      /\ pc = "press" /\ pc' = "move" /\ Sends(Key("down")) /\ TablesInv
  BY PressStep, DriverFrameFacts DEF Press, IInv
<1>2. keys = << >> /\ Quiet /\ highlight = step /\ PicksTitle /\ guest = "menu"
  BY <1>1 DEF PickInv, IInv, PlaceInv
<1>3. keys' = <<Key("down")>> /\ Len(keys') = 1
  BY <1>1, <1>2, SendsFacts, KeyFacts, Short
<1>4. ~Chosen'
  BY <1>3, Short DEF Chosen, Key
<1> QED  BY <1>1, <1>2, <1>3, <1>4 DEF PickInv, PicksTitle, Quiet

\* The highlight is drawn where the driver takes it to be, and only there.
LEMMA MovedOne ==
  ASSUME IInv, PickInv, Moved
  PROVE  PickInv'
<1>1. /\ IInv' /\ UNCHANGED <<goal, console, guest, highlight, booted, keys>> /\ Wanted' = Wanted
      /\ pc = "move" /\ pc' = "press" /\ step' = step + 1 /\ Consumes(Expected) /\ TablesInv
  BY MovedStep, DriverFrameFacts DEF Moved, IInv
<1>2. cursor' \in cursor + 1 .. Len(console) /\ cursor \in Nat /\ Len(console) \in Nat
  BY <1>1, ConsumesFacts
<1>3. One(Star(step + 1)) /\ highlight = step + 1 /\ keys = << >> /\ PicksTitle /\ guest = "menu"
  BY <1>1, <1>2 DEF PickInv, Quiet, IInv, PlaceInv
<1>4. cursor' = Len(console)
  BY <1>2, <1>3 DEF One
<1>5. ~Chosen'
  BY <1>1, <1>3 DEF Chosen
<1> QED  BY <1>1, <1>3, <1>4, <1>5 DEF PickInv, PicksTitle, Quiet

\* A key that was read, and moved nothing, may be sent again.
LEMMA MoveLost ==
  ASSUME ~Starved, IInv, PickInv, MoveTimesOut
  PROVE  PickInv'
<1>1. /\ IInv' /\ UNCHANGED <<goal, console, guest, highlight, booted, keys, step, cursor>> /\ Wanted' = Wanted
      /\ pc = "move" /\ pc' \in {"press", "failed"} /\ Absent(Expected) /\ keys = << >> /\ TablesInv
  BY MoveTimesOutStep, DriverFrameFacts DEF MoveTimesOut, TryAgain, IInv
<1>2. step < Wanted /\ goal \in Titled /\ PicksTitle
  BY <1>1 DEF IInv, PlaceInv, PickInv
<1>3. Star(step + 1) \in Expected
  <2>1. step + 1 \in DOMAIN Menu
    BY <1>1, <1>2, MenuFacts DEF TablesInv
  <2> QED  BY <2>1 DEF Expected
<1>4. ~One(Star(step + 1))
  <2>1. cursor \in Nat
    BY <1>1, LenProperties DEF TablesInv
  <2> QED  BY <1>1, <1>3, <2>1 DEF One, Absent
<1>5. Quiet /\ highlight = step
  BY <1>1, <1>4 DEF PickInv
<1>6. ~Chosen'
  BY <1>1 DEF Chosen
<1> QED  BY <1>1, <1>2, <1>5, <1>6 DEF PickInv, PicksTitle, Quiet

\* ENTER on the wanted title.
LEMMA ChooseWanted ==
  ASSUME IInv, PickInv, Choose
  PROVE  PickInv'
<1>1. /\ IInv' /\ UNCHANGED <<goal, console, guest, highlight, booted, step, cursor>> /\ Wanted' = Wanted
      /\ pc = "press" /\ pc' = "banner" /\ step = Wanted /\ Sends(Key("enter")) /\ TablesInv
  BY ChooseStep, DriverFrameFacts DEF Choose, IInv
<1>2. keys = << >> /\ highlight = step /\ PicksTitle /\ guest = "menu" /\ goal \in Titled
  BY <1>1 DEF PickInv, IInv, PlaceInv
<1>3. keys' = <<Key("enter")>> /\ Len(keys') = 1
  BY <1>1, <1>2, SendsFacts, KeyFacts, Short
<1> QED  BY <1>1, <1>2, <1>3 DEF PickInv, PicksTitle

\* The driver's steps past the menu.
LEMMA DriverPastMenu ==
  ASSUME IInv, PickInv,
         TypeLine \/ AnswerPause \/ SeeBanner \/ Login \/ SeeShell \/ Run \/ Reply
  PROVE  PickInv'
<1>1. IInv'
  BY TypeLineStep, AnswerPauseStep, SeeBannerStep, LoginStep, SeeShellStep, RunStep, ReplyStep
<1>2. UNCHANGED <<goal, guest, booted>>
  <2>1. DriverFrame
    BY DEF TypeLine, AnswerPause, SeeBanner, Login, SeeShell, Run, Reply
  <2> QED  BY <2>1, DriverFrameFacts
<1>3. guest' \notin {"firmware", "grub", "menu"}
  <2>1. CASE TypeLine
    BY <1>2, <2>1, PromptIsIdle DEF TypeLine, GrubPrompt
  <2>2. CASE AnswerPause
    <3>1. pc' = "banner" /\ answered' = TRUE
      BY <2>2 DEF AnswerPause
    <3> QED  BY <1>1, <3>1 DEF IInv, PlaceInv, Booting
  <2>3. CASE SeeBanner
    <3>1. pc' = "login"
      BY <2>3 DEF SeeBanner
    <3> QED  BY <1>1, <3>1 DEF IInv, PlaceInv
  <2>4. CASE Login \/ SeeShell \/ Run \/ Reply
    <3>1. pc \in {"login", "shell", "run", "reply"}
      BY <2>4 DEF Login, SeeShell, Run, Reply
    <3> QED  BY <1>2, <3>1 DEF IInv, PlaceInv
  <2> QED  BY <2>1, <2>2, <2>3, <2>4
<1>4. PicksTitle'
  BY <1>2 DEF PickInv, PicksTitle
<1> QED  BY <1>1, <1>3, <1>4, PastMenu

\* Nothing that matters to the menu changes.
LEMMA MenuLeftAlone ==
  ASSUME IInv, PickInv, EndBoot \/ UNCHANGED vars
  PROVE  PickInv'
<1>1. /\ UNCHANGED <<goal, console, guest, highlight, booted, keys, step, cursor>>
      /\ pc' = "failed" \/ pc' = pc
  BY DEF EndBoot, DriverFrame, boot, guestVars, vars
<1> QED  BY <1>1 DEF PickInv, PicksTitle, Chosen, Quiet, One, Wanted

\* Unless a guest takes longer than KEY_TIMEOUT to read a key, what boots is what
\* was asked for, though Downs are lost on the way and one title may begin another.
\* Without that hypothesis it does not: the run of a starved guest shows it.
THEOREM PicksWhatIsAsked == ~Starved => (Spec => []PicksTitle)
<1> SUFFICES ASSUME ~Starved  PROVE Spec => []PicksTitle
  OBVIOUS
<1>1. Init => PickInv
  BY DEF Init, PickInv, PicksTitle, Chosen
<1>2. IInv /\ PickInv /\ [Next]_vars => PickInv'
  <2> SUFFICES ASSUME IInv, PickInv, [Next]_vars  PROVE PickInv'
    OBVIOUS
  <2>1. CASE Guest
    BY <2>1, GuestUpToMenu, MenuKey, MenuBootsChosen, GuestPastMenu DEF Guest
  <2>2. CASE Driver
    BY <2>2, DriverUpToMenu, PressOne, MovedOne, MoveLost, ChooseWanted, DriverPastMenu, MenuLeftAlone DEF Driver
  <2>3. CASE UNCHANGED vars
    BY <2>3, MenuLeftAlone
  <2> QED  BY <2>1, <2>2, <2>3 DEF Next, Finished
<1>3. PickInv => PicksTitle
  BY DEF PickInv
<1>4. Spec => []PickInv
  BY <1>1, <1>2, Inductive, PTL DEF Spec
<1> QED  BY <1>3, <1>4, PTL

-----------------------------------------------------------------------------
(* What is typed is the entry of the image's menu.                         *)

\* Typing begins only with an image that has the entry and, for a parameter, its
\* kernel's line.
Begun   == pc \notin {"commands", "failed"} \/ keys # << >> \/ guest \notin {"firmware", "grub", "menu"}
ReadInv == goal = Typed /\ Begun => ~Refuses(FileOf(image), entry.title, entry.parameter)

\* It stays so, for the image is not read twice.
LEMMA ReadStep == IInv /\ ReadInv /\ [Next]_vars => ReadInv'
<1> SUFFICES ASSUME IInv, ReadInv, [Next]_vars  PROVE ReadInv'
  OBVIOUS
<1> DEFINE Refused == Refuses(FileOf(image), entry.title, entry.parameter)
<1>1. UNCHANGED <<goal, image, entry>>
  BY DEF Next, Driver, Guest, Finished, vars, ReadImage, AnswerFirmware, SeeMenu, Press, Moved, MoveTimesOut,
         Choose, TypeLine, AnswerPause, SeeBanner, Login, SeeShell, Run, Reply, EndBoot, DriverFrame, GuestFrame, boot,
         FirmwarePrompts, GrubDrawsMenu, FirmwareReads, MenuMoves, MenuMisreads, MenuBoots, GrubShell, GrubReadsLine,
         GrubRanLine, LoaderPauses, LoaderEnds, LoaderTimesOut, KernelDone, GettyReads, ShellReads, Panics
<1>2. ~Begun /\ Begun' => ~Refused
  <2> SUFFICES ASSUME ~Begun, Begun'  PROVE ~Refused
    OBVIOUS
  <2> HIDE DEF Refused
  <2>1. pc \in {"commands", "failed"} /\ keys = << >> /\ guest \in {"firmware", "grub", "menu"}
    BY DEF Begun
  <2>2. CASE Guest
    <3>1. FirmwarePrompts \/ GrubDrawsMenu
      BY <2>1, <2>2 DEF Guest, Reads, FirmwareReads, MenuMoves, MenuMisreads, MenuBoots, GrubShell, GrubReadsLine,
            GrubRanLine, LoaderPauses, LoaderEnds, LoaderTimesOut, KernelDone, GettyReads, ShellReads, Panics
    <3>2. pc' = pc /\ keys' = keys /\ guest' \in {"firmware", "grub", "menu"}
      BY <2>1, <3>1 DEF FirmwarePrompts, GrubDrawsMenu, GuestFrame, driverVars
    <3> QED  BY <2>1, <3>2 DEF Begun
  <2>3. CASE Driver
    <3>1. ReadImage \/ EndBoot
      BY <2>1, <2>3 DEF Driver, AnswerFirmware, SeeMenu, Press, Moved, MoveTimesOut, Choose, TypeLine,
            AnswerPause, SeeBanner, Login, SeeShell, Run, Reply
    <3>2. keys' = keys /\ guest' = guest
      BY <3>1 DEF ReadImage, EndBoot, DriverFrame, guestVars
    <3>3. pc' # "failed"
      BY <2>1, <3>2 DEF Begun
    <3> QED  BY <3>1, <3>3 DEF ReadImage, EndBoot, Refused
  <2>4. CASE UNCHANGED vars
    BY <2>4 DEF vars, Begun
  <2> QED  BY <2>2, <2>3, <2>4 DEF Next, Finished
<1>3. ReadInv' <=> (goal = Typed /\ Begun' => ~Refused)
  BY <1>1 DEF ReadInv
<1> QED  BY <1>2, <1>3 DEF ReadInv

\* A typed boot runs the commands of an entry of the image that has its title, in
\* order, after its prelude, the parameter on the kernel's line alone: all of them if
\* no line of the entry is a brace that closes a group, else those before the first
\* such line.  Functions, submenus, entries with options, comments and entries of
\* other titles around it add nothing (grubcfg.py:57-72).
THEOREM TypesWhatTheMenuRuns == Spec => []TypesTheEntry
<1>1. Init => ReadInv
  BY DEF Init, ReadInv, Begun
<1>2. IInv /\ ReadInv => TypesTheEntry
  <2> SUFFICES ASSUME IInv, ReadInv, booted = Typed
               PROVE  \E b \in DOMAIN image :
                        /\ image[b].what = "menuentry" /\ image[b].name = entry.title
                        /\ ran = entry.prelude \o [i \in DOMAIN CommandsIn(image[b].body) |->
                                   Asking(CommandsIn(image[b].body)[i], entry.parameter)]
    BY Zenon DEF TypesTheEntry, Asking
  <2>1. /\ goal = Typed /\ ran = Full(image, entry) /\ guest \in Booting
        /\ image \in Images /\ entry \in Entries
    BY DEF IInv, RanInv, TablesInv, Booting
  <2>2. ~Refuses(FileOf(image), entry.title, entry.parameter)
    BY <2>1 DEF ReadInv, Begun, Booting
  <2>3. PICK b \in DOMAIN image : Returns(image, entry, b)
    BY <2>1, <2>2, EntryFound
  <2> DEFINE picked == CommandsIn(image[b].body)
  <2>4. /\ IsEntry(image[b]) /\ image[b].name = entry.title
        /\ CommandsOf(FileOf(image), entry.title, entry.parameter)
             = [i \in DOMAIN picked |-> Asking(picked[i], entry.parameter)]
    BY <2>3, Zenon DEF Returns
  <2> HIDE DEF picked
  <2>5. ran = entry.prelude \o [i \in DOMAIN picked |-> Asking(picked[i], entry.parameter)]
    BY <2>1, <2>4 DEF Full
  <2> QED  BY <2>4, <2>5 DEF IsEntry, picked
<1>3. Spec => []ReadInv
  BY <1>1, ReadStep, Inductive, PTL DEF Spec
<1> QED  BY <1>2, <1>3, Inductive, PTL
=============================================================================
