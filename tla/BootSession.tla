---------------------------- MODULE BootSession ----------------------------
(***************************************************************************)
(* One pytest session: drtmtest/session.py's BootSession, with the boot    *)
(* fixtures of tests/conftest.py.  The main thread collects, prepares,     *)
(* submits every boot the collected tests take to a thread pool, runs the  *)
(* tests, which wait for their boots, and finishes.  The pool's threads    *)
(* boot, and the first thread to need it numbers and makes the run's log   *)
(* directory, in a directory other sessions number theirs in too.          *)
(*                                                                         *)
(* The session is one cell of the matrix.  Its results, if it writes any,  *)
(* are rendered with those of other cells.                                 *)
(***************************************************************************)
EXTENDS Naturals, Sequences, FiniteSets, SequencesExt, Matrix, Report

CONSTANTS
  Names,      \* the boots: fixture names
  Tests,      \* sequence of records: takes, the boots a test names; reaches,
              \* those it comes to in some other way; marked, it is expected to
              \* fail (strictly); patches, it patches the environment; skips, by
              \* a mark or in its call; untidy, its teardown may raise or skip
  Workers,    \* size of the pool
  Main,       \* the main thread
  MaxRun,     \* _MAX_RUN_NUMBER
  MaxOthers,  \* bound: directories other sessions make meanwhile
  Cells,      \* cells of the matrix this session may be: release, whether that
              \* is an upstream one, configuration
  Callers,    \* environments it may be started in
  Patch,      \* what a test that patches the environment sets
  Others,     \* sequences of results of other cells
  Nothing     \* no results, no page

ASSUME TestsAssumption ==
  /\ Tests # << >>
  /\ Tests \in Seq([takes : Seq(Names), reaches : Seq(Names), marked : BOOLEAN, patches : BOOLEAN,
                    skips : BOOLEAN, untidy : BOOLEAN])
ASSUME PoolAssumption == Workers \in Nat \ {0} /\ MaxRun \in Nat /\ MaxOthers \in Nat
ASSUME CellsAssumption == \A c \in Cells : c.configuration \in DOMAIN Configurations
\* The other results were written by this code too.
ASSUME OthersAssumption ==
  \A others \in Others : others \in Seq(ToSet(others)) /\ \A x \in ToSet(others) : Written(x)
ASSUME MainAssumption == Main \notin Names /\ "free" \notin Names \cup {Main}

VARIABLES
  main,      \* where the main thread is
  firstFail, \* -x was given
  test, nth, \* the test it runs, and which of its boots it is setting up
  phase,     \* that test's phase
  reports,   \* _reports: what pytest has reported
  fixture,   \* per boot: what pytest has cached of its session fixture
  queue,     \* boots submitted and not begun: the pool's queue is in Before's order
  boot,      \* per boot: its state
  inline,    \* boots the main thread runs itself
  starts,    \* history, per boot: how often it was begun
  used,      \* history, per boot: the settings it ran with
  at,        \* per thread: how far run_log_dir is for it
  holder,    \* who holds _run_log_dir_lock, Main for the main thread
  number,    \* the number the holder has read off the directory
  runDir,    \* _run_log_dir, 0 for None
  dirs,      \* numbers of the directories in logs_dir
  mine,      \* history: those this session made
  cell,      \* the cell of the matrix it was started as
  environ,   \* the environment it was started in
  settings,  \* what was read of it at import
  patched,   \* a test has patched the environment
  cut,       \* the tests were cut short, by pytest.exit or the keyboard
  results,   \* results.txt and results.json, or Nothing
  page       \* the rendered page with the results on it, or Nothing

testVars == <<main, firstFail, test, nth, phase, reports, fixture, patched, cut>>
bootVars == <<queue, boot, inline, starts, used>>
dirVars  == <<at, holder, number, runDir, dirs, mine>>
cellVars == <<cell, environ, settings>>
toldVars == <<results, page>>
vars == <<main, firstFail, test, nth, phase, reports, fixture, patched, cut, queue, boot, inline,
          starts, used, at, holder, number, runDir, dirs, mine, cell, environ, settings, results, page>>

\* os.environ
Live == IF patched THEN Updated(environ, Patch) ELSE environ

Threads == Names \cup {Main}
Asks(t) == Tests[t].takes \o Tests[t].reaches

\* The boots the collected tests take.
Wanted == UNION {ToSet(Tests[t].takes) : t \in DOMAIN Tests}

\* first_wanted's order: n is asked for before m is.
Before(n, m) ==
  \E t \in DOMAIN Tests : \E i \in DOMAIN Tests[t].takes :
    /\ Tests[t].takes[i] = n
    /\ m \notin ToSet(SubSeq(Tests[t].takes, 1, i)) \cup UNION {ToSet(Tests[u].takes) : u \in 1 .. t - 1}

\* _entries
Once(seen, n) == IF n \in ToSet(seen) THEN seen ELSE Append(seen, n)
Entries == [t \in 1 .. Len(Tests) |-> FoldLeft(Once, << >>, Tests[t].takes)]

Under == {"begun", "running"}    \* a boot under way
Over  == {"done", "failed", "exits"}   \* a boot that has ended; "exits" by pytest.exit

Init ==
  /\ main = "collect" /\ firstFail \in BOOLEAN /\ test = 1 /\ nth = 1 /\ phase = "setup"
  /\ reports = << >>
  /\ fixture = [n \in Names |-> "none"]
  /\ queue = {} /\ boot = [n \in Names |-> "none"] /\ inline = {}
  /\ starts = [n \in Names |-> 0] /\ used = [n \in Names |-> Nothing]
  /\ at = [x \in Threads |-> "none"] /\ holder = "free" /\ number = 0
  /\ runDir = 0 /\ dirs = {} /\ mine = {}
  /\ cell \in Cells
  /\ \E caller \in Callers :
       environ = Environment(caller, cell.release, cell.upstream, cell.configuration)
  /\ settings = Settings(environ) /\ patched = FALSE /\ cut = FALSE
  /\ results = Nothing /\ page = Nothing

-----------------------------------------------------------------------------
(* run_log_dir, in any thread that has asked for it.                       *)

DirFrame == UNCHANGED <<testVars, bootVars, cellVars, toldVars>>
NextNumber == IF dirs = {} THEN 1 ELSE (CHOOSE m \in dirs : \A d \in dirs : d <= m) + 1

\* As if: no lock, so that two threads number the run at once.
LockDirUnlocked(x) ==
  /\ at[x] = "wants"
  /\ IF runDir # 0
     THEN at' = [at EXCEPT ![x] = "has"] /\ UNCHANGED <<holder, number>>
     ELSE at' = [at EXCEPT ![x] = "makes"] /\ holder' = x /\ number' = NextNumber
  /\ UNCHANGED <<runDir, dirs, mine>> /\ DirFrame

\* The lock is taken; a directory that was made is returned at once, otherwise
\* the ones there are numbered.
LockDir(x) ==
  /\ at[x] = "wants" /\ holder = "free"
  /\ IF runDir # 0
     THEN at' = [at EXCEPT ![x] = "has"] /\ UNCHANGED <<holder, number>>
     ELSE at' = [at EXCEPT ![x] = "makes"] /\ holder' = x /\ number' = NextNumber
  /\ UNCHANGED <<runDir, dirs, mine>> /\ DirFrame

\* As if: the lock were let go only by the thread that made the directory.
MakeDirLocked(x) ==
  /\ at[x] = "makes"
  /\ at' = [at EXCEPT ![x] = IF number > MaxRun THEN "exits" ELSE IF number \in dirs THEN "error" ELSE "made"]
  /\ IF at'[x] = "made" THEN dirs' = dirs \cup {number} /\ mine' = mine \cup {number}
                        ELSE UNCHANGED <<dirs, mine>>
  /\ UNCHANGED <<holder, number, runDir>> /\ DirFrame

\* pytest.exit past the limit of four digits, else mkdir, which refuses a
\* directory another session has made since.  An exception leaves the block,
\* and so releases the lock.
MakeDir(x) ==
  /\ at[x] = "makes"
  /\ \/ /\ number > MaxRun /\ at' = [at EXCEPT ![x] = "exits"]
        /\ holder' = "free" /\ UNCHANGED <<dirs, mine>>
     \/ /\ number <= MaxRun /\ number \in dirs /\ at' = [at EXCEPT ![x] = "error"]
        /\ holder' = "free" /\ UNCHANGED <<dirs, mine>>
     \/ /\ number <= MaxRun /\ number \notin dirs /\ at' = [at EXCEPT ![x] = "made"]
        /\ dirs' = dirs \cup {number} /\ mine' = mine \cup {number} /\ UNCHANGED holder
  /\ UNCHANGED <<number, runDir>> /\ DirFrame

\* The timestamp is written, the directory kept, and the lock released.
KeepDir(x) ==
  /\ at[x] = "made" /\ at' = [at EXCEPT ![x] = "has"]
  /\ runDir' = number /\ holder' = "free"
  /\ UNCHANGED <<number, dirs, mine>> /\ DirFrame

\* Another session makes a directory.
OtherSession ==
  /\ Cardinality(dirs \ mine) < MaxOthers /\ dirs' = dirs \cup {NextNumber}
  /\ UNCHANGED <<at, holder, number, runDir, mine>> /\ DirFrame

-----------------------------------------------------------------------------
(* The pool.                                                               *)

PoolFrame == UNCHANGED <<testVars, holder, number, runDir, dirs, mine, cellVars, toldVars>>

\* A worker that is free takes the boot submitted first.
Busy == {n \in Names \ inline : boot[n] \in Under}
BeginBoot ==
  /\ Cardinality(Busy) < Workers
  /\ \E n \in queue :
       /\ \A m \in queue \ {n} : Before(n, m)
       /\ boot' = [boot EXCEPT ![n] = "begun"] /\ starts' = [starts EXCEPT ![n] = @ + 1]
       /\ at' = [at EXCEPT ![n] = "wants"] /\ queue' = queue \ {n}
  /\ UNCHANGED <<inline, used>> /\ PoolFrame

\* As if: a boot read the environment itself.
LiveSettings == Settings(Live)

\* What _boot takes of the environment was read at import.
BootSettings == settings

\* The boot runs once it has its log directory; failing to get one fails it.
RunBoot(n) ==
  /\ boot[n] = "begun"
  /\ \/ at[n] = "has" /\ boot' = [boot EXCEPT ![n] = "running"]
        /\ used' = [used EXCEPT ![n] = BootSettings]
     \/ at[n] = "error" /\ boot' = [boot EXCEPT ![n] = "failed"] /\ UNCHANGED used
     \/ at[n] = "exits" /\ boot' = [boot EXCEPT ![n] = "exits"] /\ UNCHANGED used
  /\ UNCHANGED <<at, queue, inline, starts>> /\ PoolFrame

\* It reaches the shell, or it raises, or it returns a Boot with an error.
EndBoot(n) ==
  /\ boot[n] = "running" /\ \E r \in {"done", "failed"} : boot' = [boot EXCEPT ![n] = r]
  /\ UNCHANGED <<at, queue, inline, starts, used>> /\ PoolFrame

-----------------------------------------------------------------------------
(* The main thread, up to the tests.                                       *)

MainFrame == UNCHANGED <<firstFail, test, nth, phase, reports, fixture, patched, cut,
                         holder, number, runDir, dirs, mine, cellVars>>

\* pytest_sessionstart: check() gives a reason, and the session exits.
Unsupported ==
  /\ main = "collect" /\ main' = "over" /\ UNCHANGED <<at, bootVars, toldVars>> /\ MainFrame

\* Collection: the warming boot, when one is needed, wants the log directory.
Collect ==
  /\ main = "collect"
  /\ IF Wanted = {} THEN main' = "tests" /\ UNCHANGED at
     ELSE main' = "prepare" /\ \E a \in {"none", "wants"} : at' = [at EXCEPT ![Main] = a]
  /\ UNCHANGED <<bootVars, toldVars>> /\ MainFrame

\* Preparing raises, which ends the session with no boot submitted.
PrepareFails ==
  /\ main = "prepare" /\ at[Main] \in {"none", "has", "error", "exits"} /\ main' = "over"
  /\ UNCHANGED <<at, bootVars, toldVars>> /\ MainFrame

\* As if: every boot, wanted by a test that was collected or not, were submitted.
SubmitAll ==
  /\ main = "prepare" /\ at[Main] # "wants" /\ main' = "tests"
  /\ queue' = Names /\ boot' = [n \in Names |-> "queued"]
  /\ UNCHANGED <<at, inline, starts, used, toldVars>> /\ MainFrame

\* Everything wanted is submitted, in first_wanted's order.
Submit ==
  /\ main = "prepare" /\ at[Main] \in {"none", "has"} /\ main' = "tests"
  /\ queue' = Wanted
  /\ boot' = [n \in Names |-> IF n \in Wanted THEN "queued" ELSE boot[n]]
  /\ UNCHANGED <<at, inline, starts, used, toldVars>> /\ MainFrame

-----------------------------------------------------------------------------
(* The tests.                                                              *)

TestFrame == UNCHANGED <<firstFail, cellVars, toldVars, dirVars>>
Setting == main = "tests" /\ phase = "setup" /\ nth <= Len(Asks(test))
Asked   == Asks(test)[nth]

\* pytest's report of a phase that raised, or did not.  A test that is expected
\* to fail is excused, and its call may not pass.
Raised(when) == LET marked == Tests[test].marked IN
  TestReport(test, when, IF marked THEN "skipped" ELSE "failed", marked, FALSE)
Passed(when) == IF Tests[test].marked /\ when = "call"
  THEN TestReport(test, when, "failed", FALSE, TRUE) ELSE TestReport(test, when, "passed", FALSE, FALSE)
Skipped(when) == TestReport(test, when, "skipped", FALSE, FALSE)
Reported(r, next) == reports' = Append(reports, r) /\ phase' = next

\* pytest has the session fixture's value, or raises what it raised before.
FixtureCached ==
  /\ Setting /\ fixture[Asked] # "none"
  /\ IF fixture[Asked] = "ok"
     THEN nth' = nth + 1 /\ UNCHANGED <<phase, reports>>
     ELSE Reported(Raised("setup"), "teardown") /\ UNCHANGED nth
  /\ UNCHANGED <<main, test, fixture, patched, cut, bootVars>> /\ TestFrame

\* As if: a boot that still waits for a worker were run here too.
BootInlineAtOnce ==
  /\ Setting /\ fixture[Asked] = "none" /\ boot[Asked] \in {"none", "queued"}
  /\ boot' = [boot EXCEPT ![Asked] = "begun"] /\ starts' = [starts EXCEPT ![Asked] = @ + 1]
  /\ inline' = inline \cup {Asked} /\ at' = [at EXCEPT ![Asked] = "wants"]
  /\ UNCHANGED <<queue, used>> /\ PoolFrame

\* booted(name) of a boot nobody submitted: it is run here.
BootInline ==
  /\ Setting /\ fixture[Asked] = "none" /\ boot[Asked] = "none"
  /\ boot' = [boot EXCEPT ![Asked] = "begun"] /\ starts' = [starts EXCEPT ![Asked] = @ + 1]
  /\ inline' = inline \cup {Asked} /\ at' = [at EXCEPT ![Asked] = "wants"]
  /\ UNCHANGED <<queue, used>> /\ PoolFrame

\* As if: a Boot with an error were handed to the tests.
FixtureOfAny(n) == "ok"

\* booted(name) returns, and the fixture fails on a boot that failed.
FixtureOf(n) == IF boot[n] = "done" THEN "ok" ELSE "failed"
Booted ==
  /\ Setting /\ fixture[Asked] = "none" /\ boot[Asked] \in {"done", "failed"}
  /\ fixture' = [fixture EXCEPT ![Asked] = FixtureOf(Asked)]
  /\ UNCHANGED <<main, test, nth, phase, reports, patched, cut, bootVars>> /\ TestFrame

\* booted(name) raises what pytest.exit raised, which ends the session with
\* no report of the phase.
CutShort == main' = "finish" /\ cut' = TRUE /\ UNCHANGED <<test, nth, phase, reports, patched>>
BootedExits ==
  /\ Setting /\ fixture[Asked] = "none" /\ boot[Asked] = "exits" /\ CutShort
  /\ UNCHANGED <<fixture, bootVars>> /\ TestFrame

\* So does the keyboard, or the job's own time limit, in any phase.
Interrupt ==
  /\ main = "tests" /\ CutShort /\ \A n \in inline : boot[n] \notin Under
  /\ UNCHANGED <<fixture, bootVars>> /\ TestFrame

\* pytest-timeout interrupts the wait.  The fixture's exception is cached; a
\* boot of the main thread's own ends with it, one of the pool's goes on.
Backstop ==
  /\ Setting /\ fixture[Asked] = "none" /\ boot[Asked] \in Under \cup {"queued"}
  /\ Asked \in inline => boot[Asked] = "running"
  /\ fixture' = [fixture EXCEPT ![Asked] = "failed"]
  /\ boot' = IF Asked \in inline THEN [boot EXCEPT ![Asked] = "failed"] ELSE boot
  /\ UNCHANGED <<main, test, nth, phase, reports, patched, cut, queue, inline, starts, used>>
  /\ TestFrame

Failed(rs) == \E r \in rs : r.outcome = "failed"

\* A mark skips the test before any of its boots is asked for, and so with none
\* that this thread runs and has not come back from.
SkipTest ==
  /\ main = "tests" /\ phase = "setup" /\ nth = 1 /\ \A n \in inline : fixture[n] # "none"
  /\ Tests[test].skips /\ Reported(Skipped("setup"), "teardown")
  /\ UNCHANGED <<main, test, nth, fixture, patched, cut, bootVars>> /\ TestFrame

\* All its boots are there.
SetupPasses ==
  /\ main = "tests" /\ phase = "setup" /\ nth > Len(Asks(test))
  /\ Reported(Passed("setup"), "call")
  /\ patched' = Tests[test].patches
  /\ UNCHANGED <<main, test, nth, cut, fixture, bootVars>> /\ TestFrame

\* The test itself passes or raises, or skips.
CallTest ==
  /\ main = "tests" /\ phase = "call"
  /\ \/ \E r \in {Passed("call"), Raised("call")} : Reported(r, "teardown")
     \/ Tests[test].skips /\ Reported(Skipped("call"), "teardown")
  /\ UNCHANGED <<main, test, nth, patched, cut, fixture, bootVars>> /\ TestFrame

\* Its teardown undoes its patches, and passes, or raises or skips like any phase.
\* -x ends the session at a failure.
Teardown ==
  /\ main = "tests" /\ phase = "teardown"
  /\ \/ Reported(Passed("teardown"), "setup")
     \/ Tests[test].untidy /\ \E r \in {Raised("teardown"), Skipped("teardown")} : Reported(r, "setup")
  /\ patched' = FALSE
  /\ nth' = 1 /\ test' = test + 1
  /\ main' = IF test = Len(Tests) \/ (firstFail /\ Failed(ToSet(reports'))) THEN "finish" ELSE main
  /\ UNCHANGED <<cut, fixture, bootVars>> /\ TestFrame

-----------------------------------------------------------------------------
(* The finish, and what is told of it.                                     *)

\* shutdown(cancel_futures=True): what is queued never begins.
Shutdown ==
  /\ main = "finish" /\ main' = "drain"
  /\ queue' = {}
  /\ boot' = [n \in Names |-> IF boot[n] = "queued" THEN "cancelled" ELSE boot[n]]
  /\ UNCHANGED <<at, inline, starts, used, toldVars>> /\ MainFrame

\* As if: shutdown did not wait.
DrainedQueue == queue = {}

\* shutdown(wait=True): the pool runs until nothing is left of it.  Then the
\* results need the run's directory, which a session without boots makes now;
\* a session without a report writes none.
Drained == Busy = {} /\ queue = {}
Drain ==
  /\ main = "drain" /\ Drained
  /\ IF reports # << >>
     THEN main' = "results" /\ at' = [at EXCEPT ![Main] = "wants"]
     ELSE main' = "over" /\ UNCHANGED at
  /\ UNCHANGED <<bootVars, toldVars>> /\ MainFrame

\* results.txt's outcomes, and results.json with _details and the records.
ExitStatus == IF cut THEN "cut" ELSE
              IF Failed(ToSet(reports)) THEN "failed" ELSE "ok"
Results ==
  [release |-> Get(Live, "DRTM_TB_RELEASE", "default"), configuration |-> Current(Live),
   vendor |-> settings.vendor, exitStatus |-> ExitStatus,
   lines |-> OutcomePerTest(reports), tests |-> Records(reports, Entries)]
WriteResults ==
  /\ main = "results" /\ at[Main] \in {"has", "error", "exits"} /\ main' = "over"
  /\ results' = IF at[Main] = "has" THEN Results ELSE Nothing
  /\ UNCHANGED <<at, bootVars, page>> /\ MainFrame

\* report.py over the results of the matrix, this session's before or after the
\* others in path order.  load() exits when there are none.
RenderPage ==
  /\ main = "over" /\ page = Nothing
  /\ \E others \in Others :
       LET own == IF results = Nothing THEN << >> ELSE <<results>> IN
       \E all \in {own \o others, others \o own} :
         all # << >> /\ page' = Render(all)
  /\ UNCHANGED <<main, results, at, bootVars>> /\ MainFrame

MainThread ==
  \/ Unsupported \/ Collect \/ PrepareFails \/ Submit \/ FixtureCached \/ BootInline \/ Booted
  \/ BootedExits \/ Backstop \/ SkipTest \/ SetupPasses \/ CallTest \/ Teardown \/ Shutdown \/ Drain
  \/ WriteResults

\* A thread, up to the boot's own run, and the boot.
Begins(x) == LockDir(x) \/ MakeDir(x) \/ KeepDir(x) \/ (x \in Names /\ RunBoot(x))
Thread(x) == Begins(x) \/ (x \in Names /\ EndBoot(x))

Finished == main = "over" /\ UNCHANGED vars

Next == MainThread \/ Interrupt \/ RenderPage \/ BeginBoot \/ (\E x \in Threads : Thread(x)) \/ OtherSession \/ Finished

\* Every thread is scheduled.  A boot may run for ever, and so may what is done
\* before the boots are submitted: swtpm_setup and mtype are run, and the image
\* downloaded, without a timeout.
Spec == /\ Init /\ [][Next]_vars
        /\ WF_vars(MainThread /\ main # "prepare") /\ WF_vars(BeginBoot)
        /\ \A x \in Threads : SF_vars(Begins(x))

-----------------------------------------------------------------------------
(* Properties.                                                             *)

\* Types, and what the tables say of each other: a boot that is queued has its
\* future and no thread, a boot under way has one, the thread that makes the
\* directory is the one that holds the lock.
TypeOK ==
  /\ main \in {"collect", "prepare", "tests", "finish", "drain", "results", "over"}
  /\ firstFail \in BOOLEAN
  /\ test \in 1 .. Len(Tests) + 1 /\ nth \in Nat \ {0}
  /\ phase \in {"setup", "call", "teardown"} /\ patched \in BOOLEAN /\ cut \in BOOLEAN
  /\ \A t \in DOMAIN Tests : t < test <=> \E r \in ToSet(reports) : r.test = t /\ r.when = "teardown"
  /\ patched => phase = "call" \/ phase = "teardown"
  /\ cell \in Cells /\ settings = Settings(environ)
  /\ \A n \in Names : used[n] # Nothing => boot[n] \in {"running"} \cup Over
  /\ (results # Nothing => main = "over" /\ reports # << >>)
  /\ \A n \in Names : fixture[n] \in {"none", "ok", "failed"}
  /\ \A n \in Names : boot[n] \in {"none", "queued", "cancelled"} \cup Under \cup Over
  /\ \A n \in Names : boot[n] = "queued" <=> n \in queue
  /\ \A n \in Names : boot[n] \in {"none", "queued", "cancelled"} => at[n] = "none"
  /\ inline \cap Wanted = {}
  /\ \A x \in Threads : at[x] \in {"none", "wants", "makes", "made", "has", "error", "exits"}
  /\ \A x \in Threads : at[x] \in {"makes", "made"} <=> holder = x
  /\ (runDir # 0 => runDir \in mine) /\ mine \subseteq dirs /\ number \in Nat

\* A boot takes minutes and its tests share it, so each runs once in a session:
\* whether a worker or the main thread comes to it, and although the tests that
\* ask for it may find it queued, under way, ended, or given up by the backstop.
BootedOnce == \A n \in Names : starts[n] <= 1

\* run_log_dir: however many threads come to it first, this run makes one
\* directory, one no other session had made, and keeps the one it made.
OwnRunDir ==
  [][/\ mine' # mine => mine = {} /\ mine' \cap dirs = {}
     /\ runDir' # runDir => runDir = 0 /\ {runDir'} = mine]_<<mine, dirs, runDir>>

\* A test's call runs only on boots that all reached the shell, also when the
\* backstop cut a wait short and the boot came to its end later, and each of
\* them ran with the session's machine, TPM banks and PSP, whatever a unit test
\* patched into the environment meanwhile (conftest.py:41-47).
AsConfigured(s) == LET c == Configurations[cell.configuration] IN
  /\ s.vendor = c.vendor /\ (s.psp # "none" <=> c.psp)
  /\ s.banks = PcrBanks(Env(c, cell.upstream))
CalledOnBoots ==
  \A r \in ToSet(reports) : r.when = "call" =>
    \A n \in ToSet(Asks(r.test)) : boot[n] = "done" /\ AsConfigured(used[n])

\* When the results are written, after -x too, no boot runs and none will:
\* the log directory is complete.
NothingAfterFinish ==
  main \in {"results", "over"} => \A n \in Names : boot[n] \notin Under \cup {"queued"}

\* What results.json and results.txt say of a test, against what pytest counted,
\* in whatever order its phases came to what they did: ok is pytest's count, and
\* neither file calls a test failed that pytest did not.  They call each failed
\* test so unless its teardown was skipped or excused, which both functions let
\* decide; a reason is given on the two x outcomes alone (session.py:200-202).
\* The results are those of the cell that was run, unless it was cut short.
LateSkip(t) == \E r \in Of(reports, t) : r.when = "teardown" /\ r.outcome = "skipped"
ResultsTellTheRun ==
  results # Nothing =>
    /\ ~cut => results.release = cell.release /\ results.configuration = cell.configuration
    /\ \A t \in Tested(reports) :
         LET record == results.tests[t]  line == results.lines[t]  counted == Failed(Of(reports, t)) IN
         /\ ~record.ok <=> counted
         /\ record.outcome \in {"failed", "xpassed"} \/ line = "failed" => counted
         /\ counted /\ ~LateSkip(t) => record.outcome \in {"failed", "xpassed"} /\ line = "failed"
         /\ record.outcome \in {"xfailed", "xpassed"} <=> record.reason

\* The page accounts for its marks and for the badges.  A release with a missing
\* configuration or an unexpected failure has a red badge; a red badge has a note
\* or a count that tells why, though a count of expected failures may be all
\* there is, for a record that disagrees with itself.  An entry's cross has a
\* note that says which.
Tells(shown, r, outcomes) ==
  \E c \in DOMAIN shown.sections : \E note \in shown.sections[c].notes :
    /\ note.release = r
    /\ \/ note.what = "no results"
       \/ note.what = "summary" /\ DOMAIN note.of \cap outcomes # {}
Agreed(shown, r) ==
  \A x \in ToSet(shown.of) : x.release = r => \A t \in DOMAIN x.tests : Agrees(x.tests[t])
Explains(shown) ==
  /\ \A r \in DOMAIN shown.badges : LET red == shown.badges[r].color = "red" IN
       /\ Tells(shown, r, {"failed"}) => red
       /\ red => Tells(shown, r, {"failed", "xpassed", "xfailed"})
       /\ Agreed(shown, r) => (red <=> Tells(shown, r, {"failed", "xpassed"}))
  /\ \A c \in DOMAIN shown.sections : LET section == shown.sections[c] IN
       \A place \in DOMAIN section.marks : section.marks[place] = "fail" =>
         \E note \in section.notes :
           /\ note.what \in {"expected", "failed"}
           /\ note.of[1] = place[1] /\ note.release = place[2]
PageExplains == page # Nothing => Explains(page)

\* report.py:257-258: a badge is "Green with the passes counted when every
\* configuration's tests were what the suite expected, red otherwise".  With this
\* session's results on the page, a green one says that each of its tests ran.
GreenMeansExpected ==
  page # Nothing /\ results # Nothing /\ page.badges[cell.release].color = "brightgreen" =>
    \A t \in DOMAIN Tests :
      ~Failed(Of(reports, t)) /\ \E r \in ToSet(reports) : r.test = t /\ r.when = "teardown"

\* The session ends: no thread is left waiting for the directory's lock, and
\* shutdown returns, unless a boot never does or the preparation never does.
SessionEnds ==
  \/ <>(main = "over")
  \/ <>[](main = "prepare") \/ \E n \in Names : <>[](boot[n] = "running")
=============================================================================
