------------------------- MODULE BootSessionProofs -------------------------
(***************************************************************************)
(* Theorems about BootSession, for any tests and boots, any size of the    *)
(* pool and any number of other sessions.  IInv is the inductive           *)
(* invariant: it says what the main thread knows of the boots at each      *)
(* point of pytest's protocol, which thread has a boot, and how far the    *)
(* run's directory is while the lock is held.                              *)
(***************************************************************************)
EXTENDS BootSession, SequenceTheorems, FiniteSetTheorems, Induction, TLAPS

\* What the tables are made of.
Phases    == {"setup", "call", "teardown"}
ReportSet == [test : DOMAIN Tests, when : Phases, outcome : {"passed", "failed", "skipped"},
              wasxfail : BOOLEAN, strict : BOOLEAN]
Waiting   == {"none", "queued", "cancelled"}   \* a boot that was not begun
MainInv ==
  /\ main \in {"collect", "prepare", "tests", "finish", "drain", "results", "over"}
  /\ firstFail \in BOOLEAN /\ patched \in BOOLEAN /\ cut \in BOOLEAN
  /\ test \in 1 .. Len(Tests) + 1 /\ nth \in Nat \ {0} /\ phase \in Phases
  /\ reports \in Seq(ReportSet)
PoolTables ==
  /\ fixture \in [Names -> {"none", "ok", "failed"}]
  /\ boot \in [Names -> Waiting \cup Under \cup Over]
  /\ queue \subseteq Names /\ inline \subseteq Names
  /\ starts \in [Names -> Nat] /\ DOMAIN used = Names
DirTables ==
  /\ at \in [Threads -> {"none", "wants", "makes", "made", "has", "error", "exits"}]
  /\ dirs \subseteq Nat \ {0} /\ number \in Nat

\* Where pytest is, what it has reported, and of what it is sure: every boot it
\* has set up for the test it runs reached the shell.
TestInv ==
  /\ main \in {"collect", "prepare"} => test = 1 /\ nth = 1 /\ phase = "setup"
  /\ main = "tests" => test \in DOMAIN Tests
  /\ main = "tests" /\ phase = "setup" =>
       \A i \in DOMAIN Asks(test) : i < nth => fixture[Asks(test)[i]] = "ok"
  /\ main = "tests" /\ phase = "call" => \A n \in ToSet(Asks(test)) : fixture[n] = "ok"
  /\ patched => phase # "setup"
  /\ \A r \in ToSet(reports) : r.test <= test /\ (r.when = "teardown" => r.test < test)
  /\ \A t \in DOMAIN Tests : t < test => \E r \in ToSet(reports) : r.test = t /\ r.when = "teardown"
  /\ main = "results" \/ results # Nothing => reports # << >>
  /\ main # "over" => results = Nothing

\* How far a boot is, and who has it.
PoolInv ==
  /\ \A n \in Names :
       /\ starts[n] = IF boot[n] \in Waiting THEN 0 ELSE 1
       /\ boot[n] = "queued" <=> n \in queue
       /\ fixture[n] = "ok" => boot[n] = "done"
       /\ boot[n] \in {"running", "done"} => used[n] = settings
       /\ used[n] # Nothing => boot[n] \in {"running"} \cup Over
       /\ boot[n] \in Waiting => at[n] = "none"
  /\ main \in {"collect", "prepare"} => \A n \in Names : boot[n] = "none"
  /\ main = "tests" => \A n \in Wanted : boot[n] # "none"
  /\ main \notin {"tests", "finish"} => queue = {}
  /\ inline \cap Wanted = {}
  /\ \A n \in inline : /\ boot[n] \notin Waiting
                       /\ boot[n] \in Under => Setting /\ Asked = n /\ fixture[n] = "none"

\* How far the run's directory is: made by the holder of the lock, and kept.
DirInv ==
  /\ main \notin {"prepare", "results"} => at[Main] \notin {"wants", "makes", "made"}
  /\ \E top \in Nat : \A d \in dirs : d <= top
  /\ holder \in Threads \cup {"free"}
  /\ \A x \in Threads : at[x] \in {"makes", "made"} <=> holder = x
  /\ holder # "free" => number # 0 /\ runDir = 0
  /\ mine = IF runDir # 0 THEN {runDir}
            ELSE IF holder # "free" /\ at[holder] = "made" THEN {number} ELSE {}
  /\ mine \subseteq dirs

CellInv == cell \in Cells /\ settings = Settings(environ) /\ AsConfigured(settings)

IInv == /\ MainInv /\ PoolTables /\ DirTables /\ TestInv /\ PoolInv /\ DirInv /\ CellInv
        /\ CalledOnBoots /\ NothingAfterFinish

\* Of the environment it was started in, the session reads its cell back.
EnvironInv ==
  Get(environ, "DRTM_TB_RELEASE", "default") = cell.release /\ Current(environ) = cell.configuration

\* The sequence of pytest's reports: an expectation excuses or fails a marked
\* test and no other, and after a phase that did not pass only the teardown is
\* left.
Expected(r) ==
  \/ r.outcome = "passed" /\ ~r.wasxfail
  \/ r.outcome = "failed" /\ ~r.wasxfail /\ r.strict = Tests[r.test].marked
  \/ r.outcome = "skipped" /\ (r.wasxfail => Tests[r.test].marked)
ReportsInv ==
  /\ \A i \in DOMAIN reports : Expected(reports[i])
  /\ \A i, j \in DOMAIN reports :
       i < j /\ reports[i].test = reports[j].test /\ reports[i].outcome # "passed" =>
         reports[j].when = "teardown"
  /\ phase # "teardown" =>
       \A i \in DOMAIN reports : reports[i].test = test => reports[i].outcome = "passed"

\* What is told of the session, when it is told: the reports are complete, and
\* no test's patch is left.
TellInv ==
  /\ EnvironInv /\ ReportsInv
  /\ patched /\ ~cut => main = "tests"
  /\ ResultsTellTheRun
-----------------------------------------------------------------------------
(* Tests, their boots, and reports.                                        *)

TestSet == [takes : Seq(Names), reaches : Seq(Names), marked : BOOLEAN, patches : BOOLEAN,
            skips : BOOLEAN, untidy : BOOLEAN]

\* What a collected test asks for.
LEMMA TestFacts ==
  ASSUME NEW t \in DOMAIN Tests
  PROVE  /\ t \in Nat /\ 1 <= t /\ t <= Len(Tests) /\ Len(Tests) \in Nat
         /\ DOMAIN Tests = 1 .. Len(Tests)
         /\ Asks(t) \in Seq(Names) /\ Len(Asks(t)) \in Nat
         /\ DOMAIN Asks(t) = 1 .. Len(Asks(t))
         /\ Tests[t].marked \in BOOLEAN /\ Tests[t].patches \in BOOLEAN
<1>1. Tests \in Seq(TestSet)
  BY TestsAssumption DEF TestSet
<1>2. Len(Tests) \in Nat /\ DOMAIN Tests = 1 .. Len(Tests)
  BY <1>1, LenProperties
<1>3. Tests[t] \in TestSet
  BY <1>1, <1>2, ElementOfSeq
<1>4. Asks(t) \in Seq(Names)
  BY <1>3, ConcatProperties DEF Asks, TestSet
<1>5. Len(Asks(t)) \in Nat /\ DOMAIN Asks(t) = 1 .. Len(Asks(t))
  BY <1>4, LenProperties
<1> QED  BY <1>2, <1>3, <1>4, <1>5 DEF TestSet

\* There is a first test.
LEMMA FirstTest == Len(Tests) \in Nat /\ 1 \in DOMAIN Tests /\ DOMAIN Tests = 1 .. Len(Tests)
<1>1. Tests \in Seq(TestSet)
  BY TestsAssumption DEF TestSet
<1>2. Len(Tests) \in Nat /\ DOMAIN Tests = 1 .. Len(Tests)
  BY <1>1, LenProperties
<1>3. Len(Tests) # 0
  BY <1>1, EmptySeq, TestsAssumption
<1> QED  BY <1>2, <1>3

\* What is submitted is a boot.
LEMMA WantedNames == Wanted \subseteq Names
<1> SUFFICES ASSUME NEW t \in DOMAIN Tests, NEW n \in ToSet(Tests[t].takes)  PROVE n \in Names
  BY DEF Wanted
<1>1. Tests \in Seq(TestSet)
  BY TestsAssumption DEF TestSet
<1>2. Tests[t] \in TestSet
  BY <1>1, ElementOfSeq, LenProperties
<1>3. Tests[t].takes \in Seq(Names)
  BY <1>2 DEF TestSet
<1> QED  BY <1>3, ElementOfSeq, LenProperties DEF ToSet

\* What a test asks for while it is set up is a boot of its own.
LEMMA AskedFacts ==
  ASSUME IInv, Setting
  PROVE  /\ test \in DOMAIN Tests /\ nth \in DOMAIN Asks(test)
         /\ Asked = Asks(test)[nth] /\ Asked \in Names
<1>1. test \in DOMAIN Tests
  BY DEF IInv, TestInv, Setting
<1>2. nth \in Nat \ {0}
  BY DEF IInv, MainInv
<1>3. nth \in DOMAIN Asks(test)
  BY <1>1, <1>2, TestFacts DEF Setting
<1>4. Asks(test)[nth] \in Names
  BY <1>1, <1>3, TestFacts, ElementOfSeq
<1> QED  BY <1>1, <1>3, <1>4 DEF Asked

\* One more report.
LEMMA ReportMore ==
  ASSUME NEW rs \in Seq(ReportSet), NEW r \in ReportSet
  PROVE  /\ Append(rs, r) \in Seq(ReportSet) /\ Append(rs, r) # << >>
         /\ ToSet(Append(rs, r)) = ToSet(rs) \cup {r}
<1>1. /\ Append(rs, r) \in Seq(ReportSet) /\ Len(Append(rs, r)) = Len(rs) + 1
      /\ \A i \in 1 .. Len(rs) : Append(rs, r)[i] = rs[i]
      /\ Append(rs, r)[Len(rs) + 1] = r
  BY AppendProperties
<1>2. /\ Len(rs) \in Nat /\ DOMAIN rs = 1 .. Len(rs)
      /\ DOMAIN Append(rs, r) = 1 .. Len(rs) + 1
  BY <1>1, LenProperties
<1>3. Append(rs, r) # << >>
  BY <1>1, <1>2, EmptySeq
<1> QED  BY <1>1, <1>2, <1>3 DEF ToSet

\* A report is of a test.
LEMMA ReportOf ==
  ASSUME NEW rs \in Seq(ReportSet), NEW r \in ToSet(rs)
  PROVE  r \in ReportSet /\ r.test \in DOMAIN Tests /\ r.test \in Nat
<1>1. r \in ReportSet
  BY ElementOfSeq, LenProperties DEF ToSet
<1>2. r.test \in DOMAIN Tests
  BY <1>1 DEF ReportSet
<1> QED  BY <1>1, <1>2, FirstTest

\* What pytest reports of a phase is a report.
LEMMA ReportFacts ==
  ASSUME NEW when \in Phases, test \in DOMAIN Tests
  PROVE  /\ Raised(when) \in ReportSet /\ Raised(when).test = test /\ Raised(when).when = when
         /\ Passed(when) \in ReportSet /\ Passed(when).test = test /\ Passed(when).when = when
         /\ Skipped(when) \in ReportSet /\ Skipped(when).test = test /\ Skipped(when).when = when
<1>1. Tests[test].marked \in BOOLEAN
  BY TestFacts
<1>2. \A o \in {"passed", "failed", "skipped"}, w \in BOOLEAN, s \in BOOLEAN :
        LET r == TestReport(test, when, o, w, s) IN
          r \in ReportSet /\ r.test = test /\ r.when = when
  BY DEF TestReport, ReportSet
<1> QED  BY <1>1, <1>2 DEF Raised, Passed, Skipped

-----------------------------------------------------------------------------
(* The environment of a cell.                                              *)

\* What a configuration sets.
LEMMA EnvFacts ==
  ASSUME NEW c, NEW upstream
  PROVE  LET env == Env(c, upstream) IN
         /\ "DRTM_VENDOR" \in DOMAIN env <=> c.vendor # "amd"
         /\ "DRTM_PSP" \in DOMAIN env <=> c.psp
         /\ c.vendor # "amd" => env["DRTM_VENDOR"] = c.vendor
         /\ c.psp => env["DRTM_PSP"] \in {"classic", "on"}
<1>1. DOMAIN Env(c, upstream) = Sets(c)
  BY DEF Env
<1>2. "DRTM_VENDOR" \in Sets(c) <=> c.vendor # "amd"
  BY DEF Sets
<1>3. "DRTM_PSP" \in Sets(c) <=> c.psp
  BY DEF Sets
<1>4. c.vendor # "amd" => Env(c, upstream)["DRTM_VENDOR"] = c.vendor
  BY <1>2 DEF Env
<1>5. c.psp => Env(c, upstream)["DRTM_PSP"] \in {"classic", "on"}
  BY <1>3 DEF Env
<1> QED  BY <1>1, <1>2, <1>3, <1>4, <1>5

\* A variable that is updated has its new value.
LEMMA UpdatedFacts ==
  ASSUME NEW env, NEW new, NEW v
  PROVE  /\ v \in DOMAIN Updated(env, new) <=> v \in DOMAIN env \/ v \in DOMAIN new
         /\ v \in DOMAIN new => Updated(env, new)[v] = new[v]
BY DEF Updated

\* A variable that configurations set has the value this one gives it, and the
\* caller's is gone.
LEMMA CellGet ==
  ASSUME NEW caller, NEW release, NEW upstream, NEW name,
         NEW v \in {"DRTM_VENDOR", "DRTM_PSP", "DRTM_PCR_BANKS"}, NEW default
  PROVE  Get(Environment(caller, release, upstream, name), v, default)
           = Get(Env(Configurations[name], upstream), v, default)
<1> DEFINE env  == Env(Configurations[name], upstream)
           kept == [x \in DOMAIN caller \ Cleared |-> caller[x]]
           mark == [x \in {"DRTM_TB_RELEASE"} |-> release]
<1>1. v \in Cleared /\ v # "DRTM_TB_RELEASE"
  BY DEF Cleared
<1>2. v \notin DOMAIN kept
  BY <1>1
<1>3. v \notin DOMAIN mark
  BY <1>1
<1>4. v \in DOMAIN Environment(caller, release, upstream, name) <=> v \in DOMAIN env
  BY <1>2, <1>3, UpdatedFacts DEF Environment, Own
<1>5. v \in DOMAIN env => Environment(caller, release, upstream, name)[v] = env[v]
  BY <1>2, <1>3, UpdatedFacts DEF Environment, Own
<1> QED  BY <1>4, <1>5 DEF Get

\* What is read of a cell's environment is its configuration.
LEMMA InitCell == Init => AsConfigured(settings)
<1> SUFFICES ASSUME Init, NEW caller \in Callers, settings = Settings(environ),
                    environ = Environment(caller, cell.release, cell.upstream, cell.configuration)
             PROVE  AsConfigured(settings)
  BY DEF Init
<1> DEFINE c   == Configurations[cell.configuration]
           env == Env(c, cell.upstream)
<1>1. \A default : \A v \in {"DRTM_VENDOR", "DRTM_PSP", "DRTM_PCR_BANKS"} :
        Get(environ, v, default) = Get(env, v, default)
  BY CellGet
<1>2. settings.vendor = Get(env, "DRTM_VENDOR", "amd")
  BY <1>1 DEF Settings, Vendor
<1>3. settings.vendor = c.vendor
  BY <1>2, EnvFacts DEF Get
<1>4. settings.psp # "none" <=> c.psp
  <2>1. c.psp => Get(env, "DRTM_PSP", "off") \in {"classic", "on"}
    BY EnvFacts DEF Get
  <2>2. ~c.psp => Get(env, "DRTM_PSP", "off") = "off"
    BY EnvFacts DEF Get
  <2> QED  BY <1>1, <2>1, <2>2 DEF Settings, PspMode
<1>5. settings.banks = PcrBanks(env)
  BY <1>1 DEF Settings, PcrBanks
<1> QED  BY <1>3, <1>4, <1>5 DEF AsConfigured

-----------------------------------------------------------------------------
(* The run's directory.                                                    *)

\* The next number is above every one there is.
LEMMA NextNumberFacts ==
  ASSUME DirInv, DirTables
  PROVE  NextNumber \in Nat \ {0} /\ \A d \in dirs : d < NextNumber
<1>1. CASE dirs = {}
  BY <1>1 DEF NextNumber
<1>2. CASE dirs # {}
  <2> DEFINE Above == {b \in Nat : \A d \in dirs : d <= b}
  <2>1. Above # {} /\ Above \subseteq Nat
    BY DEF DirInv
  <2>2. PICK least \in Above : \A b \in Above : least <= b
    BY <2>1, Least
  <2>3. least \in dirs
    <3> SUFFICES ASSUME least \notin dirs  PROVE FALSE
      OBVIOUS
    <3>1. \A d \in dirs : d \in Nat /\ d # 0 /\ d <= least /\ d # least
      BY DEF DirTables
    <3>2. least \in Nat /\ least # 0
      BY <1>2, <3>1
    <3>3. least - 1 \in Above
      BY <3>1, <3>2
    <3> QED  BY <2>2, <3>2, <3>3
  <2>4. \A d \in dirs : d <= least
    OBVIOUS
  <2> DEFINE top == CHOOSE m \in dirs : \A d \in dirs : d <= m
  <2>5. top \in dirs /\ \A d \in dirs : d <= top
    BY <2>3, <2>4
  <2>6. NextNumber = top + 1
    BY <1>2 DEF NextNumber
  <2> HIDE DEF top
  <2> QED  BY <2>5, <2>6 DEF DirTables
<1> QED  BY <1>1, <1>2

\* Under a lock that its holder alone lets go, one thread makes the directory.
LEMMA DirStep ==
  ASSUME IInv, [Next]_vars  PROVE DirInv' /\ DirTables'
<1> USE DEF Threads
<1>0. /\ DirInv /\ DirTables /\ \A n \in Names : n # Main /\ n # "free"
      /\ Main # "free" /\ Main \in Threads
  BY MainAssumption DEF IInv
<1>a. ASSUME UNCHANGED dirVars, main' \in {"prepare", "results"} \/ at[Main] \notin {"wants", "makes", "made"}
      PROVE  DirInv' /\ DirTables'
  BY <1>0, <1>a DEF DirInv, DirTables, dirVars
<1>b. ASSUME NEW x \in Threads, NEW a \in {"none", "wants"}, at[x] \notin {"makes", "made"},
             at' = [at EXCEPT ![x] = a], UNCHANGED <<holder, number, runDir, dirs, mine>>,
             \/ main' \in {"prepare", "results"}
             \/ x # Main /\ at[Main] \notin {"wants", "makes", "made"}
      PROVE  DirInv' /\ DirTables'
  <2>1. \A y \in Threads : at'[y] = IF y = x THEN a ELSE at[y]
    BY <1>0, <1>b DEF DirTables
  <2>2. \A y \in Threads : at'[y] \in {"makes", "made"} <=> holder' = y
    BY <1>0, <1>b, <2>1 DEF DirInv
  <2>3. holder # "free" => at'[holder] = at[holder]
    BY <1>0, <1>b, <2>1 DEF DirInv
  <2>4. DirTables'
    BY <1>0, <1>b DEF DirTables
  <2> QED  BY <1>0, <1>b, <2>1, <2>2, <2>3, <2>4 DEF DirInv
<1>1. CASE MainThread
  <2> USE DEF MainFrame, PoolFrame, TestFrame, dirVars, bootVars
  <2>1. CASE Unsupported
    BY <1>0, <1>a, <2>1 DEF Unsupported, DirInv
  <2>2. CASE Collect
    <3>1. CASE Wanted = {}
      BY <1>0, <1>a, <2>2, <3>1 DEF Collect, DirInv
    <3>2. CASE Wanted # {}
      BY <1>0, <1>b, <2>2, <3>2 DEF Collect, DirInv
    <3> QED  BY <3>1, <3>2
  <2>3. CASE PrepareFails
    BY <1>0, <1>a, <2>3 DEF PrepareFails
  <2>4. CASE Submit
    BY <1>0, <1>a, <2>4 DEF Submit
  <2>5. CASE FixtureCached
    BY <1>0, <1>a, <2>5 DEF FixtureCached, Setting, DirInv
  <2>6. CASE BootInline
    <3>1. Asked \in Names /\ at[Asked] = "none"
      BY <2>6, AskedFacts DEF BootInline, IInv, PoolInv, Waiting
    <3>2. at[Main] \notin {"wants", "makes", "made"}
      BY <1>0, <2>6 DEF BootInline, Setting, DirInv
    <3> QED  BY <1>0, <1>b, <2>6, <3>1, <3>2 DEF BootInline, testVars
  <2>7. CASE Booted
    BY <1>0, <1>a, <2>7 DEF Booted, Setting, DirInv
  <2>8. CASE BootedExits
    BY <1>0, <1>a, <2>8 DEF BootedExits, CutShort, Setting, DirInv
  <2>9. CASE Backstop
    BY <1>0, <1>a, <2>9 DEF Backstop, Setting, DirInv
  <2>10. CASE SetupPasses
    BY <1>0, <1>a, <2>10 DEF SetupPasses, DirInv
  <2>11. CASE CallTest
    BY <1>0, <1>a, <2>11 DEF CallTest, DirInv
  <2>12. CASE Teardown
    BY <1>0, <1>a, <2>12 DEF Teardown, DirInv
  <2>13. CASE SkipTest
    BY <1>0, <1>a, <2>13 DEF SkipTest, DirInv
  <2>14. CASE Shutdown
    BY <1>0, <1>a, <2>14 DEF Shutdown, DirInv
  <2>15. CASE Drain
    <3>1. at[Main] \notin {"wants", "makes", "made"}
      BY <1>0, <2>15 DEF Drain, DirInv
    <3> QED  BY <1>0, <1>a, <1>b, <2>15, <3>1 DEF Drain
  <2>16. CASE WriteResults
    BY <1>0, <1>a, <2>16 DEF WriteResults
  <2> QED  BY <1>1, <2>1, <2>2, <2>3, <2>4, <2>5, <2>6, <2>7, <2>8, <2>9, <2>10, <2>11, <2>12,
              <2>13, <2>14, <2>15, <2>16 DEF MainThread
<1>2. CASE Interrupt
  BY <1>0, <1>a, <1>2 DEF Interrupt, CutShort, TestFrame, DirInv
<1>3. CASE RenderPage
  BY <1>0, <1>a, <1>3 DEF RenderPage, MainFrame, dirVars, DirInv
<1>4. CASE BeginBoot
  <2>1. PICK n \in queue : at' = [at EXCEPT ![n] = "wants"]
    BY <1>4 DEF BeginBoot
  <2>2. n \in Names /\ at[n] = "none" /\ main \in {"tests", "finish"}
    BY DEF IInv, PoolInv, PoolTables, Waiting
  <2>3. UNCHANGED <<main, holder, number, runDir, dirs, mine>>
    BY <1>4 DEF BeginBoot, PoolFrame, testVars
  <2>4. at[Main] \notin {"wants", "makes", "made"}
    BY <1>0, <2>2 DEF DirInv
  <2> QED  BY <1>0, <1>b, <2>1, <2>2, <2>3, <2>4
<1>5. CASE \E x \in Threads : Thread(x)
  <2> SUFFICES ASSUME NEW x \in Threads, Thread(x)  PROVE DirInv' /\ DirTables'
    BY <1>5
  <2>1. CASE LockDir(x)
    <3>1. at[x] = "wants" /\ holder = "free" /\ UNCHANGED <<main, runDir, dirs, mine>>
      BY <2>1 DEF LockDir, DirFrame, testVars
    <3>2. CASE runDir # 0
      <4>1. at' = [at EXCEPT ![x] = "has"] /\ UNCHANGED <<holder, number>>
        BY <2>1, <3>2 DEF LockDir
      <4>2. \A y \in Threads : at'[y] = IF y = x THEN "has" ELSE at[y]
        BY <1>0, <4>1 DEF DirTables
      <4>3. DirTables'
        BY <1>0, <3>1, <4>1 DEF DirTables
      <4> QED  BY <1>0, <3>1, <3>2, <4>1, <4>2, <4>3 DEF DirInv
    <3>3. CASE runDir = 0
      <4>1. at' = [at EXCEPT ![x] = "makes"] /\ holder' = x /\ number' = NextNumber
        BY <2>1, <3>3 DEF LockDir
      <4>2. \A y \in Threads : at'[y] = IF y = x THEN "makes" ELSE at[y]
        BY <1>0, <4>1 DEF DirTables
      <4>3. number' \in Nat /\ number' # 0
        BY <1>0, <4>1, NextNumberFacts
      <4>4. DirTables'
        BY <1>0, <3>1, <4>1, <4>3 DEF DirTables
      <4>5. \A y \in Threads : at'[y] \in {"makes", "made"} <=> holder' = y
        BY <1>0, <3>1, <4>1, <4>2 DEF DirInv
      <4>6. main' \notin {"prepare", "results"} => at'[Main] \notin {"wants", "makes", "made"}
        BY <1>0, <3>1, <4>2 DEF DirInv
      <4>7. mine = {} /\ x # "free" /\ at'[x] = "makes"
        BY <1>0, <3>1, <3>3, <4>2 DEF DirInv
      <4> QED  BY <1>0, <3>1, <3>3, <4>1, <4>3, <4>4, <4>5, <4>6, <4>7 DEF DirInv
    <3> QED  BY <3>2, <3>3
  <2>2. CASE MakeDir(x)
    <3>1. at[x] = "makes" /\ holder = x /\ x # "free" /\ UNCHANGED <<main, number, runDir>>
      BY <1>0, <2>2 DEF MakeDir, DirFrame, testVars, DirInv
    <3>2. number \in Nat \ {0} /\ runDir = 0 /\ mine = {}
      BY <1>0, <3>1 DEF DirInv, DirTables
    <3>3. PICK a \in {"exits", "error", "made"} : at' = [at EXCEPT ![x] = a]
      BY <2>2 DEF MakeDir
    <3>4. \A y \in Threads : at'[y] = IF y = x THEN a ELSE at[y]
      BY <1>0, <3>3 DEF DirTables
    <3>5. at' \in [Threads -> {"none", "wants", "makes", "made", "has", "error", "exits"}]
      BY <1>0, <3>3 DEF DirTables
    <3>6. main' \notin {"prepare", "results"} => at'[Main] \notin {"wants", "makes", "made"}
      BY <1>0, <3>1, <3>4 DEF DirInv
    <3>7. CASE a # "made"
      <4>1. holder' = "free" /\ UNCHANGED <<dirs, mine>>
        BY <1>0, <2>2, <3>4, <3>7 DEF MakeDir, DirTables
      <4>2. \A y \in Threads : at'[y] \in {"makes", "made"} <=> holder' = y
        BY <1>0, <3>1, <3>4, <3>7, <4>1 DEF DirInv
      <4> QED  BY <1>0, <3>1, <3>2, <3>5, <3>6, <4>1, <4>2 DEF DirInv, DirTables
    <3>8. CASE a = "made"
      <4>1. dirs' = dirs \cup {number} /\ mine' = mine \cup {number} /\ holder' = holder
        BY <1>0, <2>2, <3>4, <3>8 DEF MakeDir, DirTables
      <4>2. \A y \in Threads : at'[y] \in {"makes", "made"} <=> holder' = y
        BY <1>0, <3>1, <3>4, <3>8, <4>1 DEF DirInv
      <4>3. mine' = {number} /\ at'[x] = "made" /\ mine' \subseteq dirs'
        BY <3>2, <3>4, <3>8, <4>1
      <4>4. PICK top \in Nat : \A d \in dirs : d <= top
        BY <1>0 DEF DirInv
      <4>5. \E t \in Nat : \A d \in dirs' : d <= t
        <5> DEFINE t == IF top >= number THEN top ELSE number
        <5>1. t \in Nat /\ \A d \in dirs' : d <= t
          BY <1>0, <3>2, <4>1, <4>4 DEF DirTables
        <5> QED  BY <5>1
      <4>6. DirTables'
        BY <1>0, <3>1, <3>2, <3>5, <4>1 DEF DirTables
      <4> QED  BY <1>0, <3>1, <3>2, <3>6, <4>1, <4>2, <4>3, <4>5, <4>6 DEF DirInv
    <3> QED  BY <3>7, <3>8
  <2>3. CASE KeepDir(x)
    <3>1. /\ at[x] = "made" /\ holder = x /\ x # "free"
          /\ UNCHANGED <<main, number, dirs, mine>> /\ runDir' = number /\ holder' = "free"
      BY <1>0, <2>3 DEF KeepDir, DirFrame, testVars, DirInv
    <3>2. number \in Nat \ {0} /\ runDir = 0 /\ mine = {number}
      BY <1>0, <3>1 DEF DirInv, DirTables
    <3>3. at' = [at EXCEPT ![x] = "has"]
      BY <2>3 DEF KeepDir
    <3>4. \A y \in Threads : at'[y] = IF y = x THEN "has" ELSE at[y]
      BY <1>0, <3>3 DEF DirTables
    <3>5. DirTables'
      BY <1>0, <3>1, <3>3 DEF DirTables
    <3>6. \A y \in Threads : at'[y] \in {"makes", "made"} <=> holder' = y
      BY <1>0, <3>1, <3>4 DEF DirInv
    <3> QED  BY <1>0, <3>1, <3>2, <3>4, <3>5, <3>6 DEF DirInv
  <2>4. CASE x \in Names /\ (RunBoot(x) \/ EndBoot(x))
    BY <1>0, <1>a, <2>4 DEF RunBoot, EndBoot, PoolFrame, testVars, dirVars, DirInv
  <2> QED  BY <2>1, <2>2, <2>3, <2>4 DEF Thread, Begins
<1>6. CASE OtherSession
  <2>1. dirs' = dirs \cup {NextNumber} /\ UNCHANGED <<main, at, holder, number, runDir, mine>>
    BY <1>6 DEF OtherSession, DirFrame, testVars
  <2>2. NextNumber \in Nat \ {0} /\ \A d \in dirs : d < NextNumber /\ d \in Nat
    BY <1>0, NextNumberFacts DEF DirTables
  <2>3. \A d \in dirs' : d <= NextNumber
    BY <2>1, <2>2
  <2> QED  BY <1>0, <2>1, <2>2, <2>3 DEF DirInv, DirTables
<1>7. CASE Finished \/ UNCHANGED vars
  BY <1>0, <1>7 DEF Finished, vars, DirInv, DirTables
<1> QED  BY <1>1, <1>2, <1>3, <1>4, <1>5, <1>6, <1>7 DEF Next

-----------------------------------------------------------------------------
(* The tests.                                                              *)

\* pytest's protocol: what is reported is what was run, and the test is called
\* once every boot it asks for was set up.
LEMMA TestStep ==
  ASSUME IInv, [Next]_vars  PROVE MainInv' /\ TestInv'
<1>0. MainInv /\ TestInv /\ PoolTables
  BY DEF IInv
<1>a. ASSUME UNCHANGED <<firstFail, test, nth, phase, reports, patched, results>>, cut' \in BOOLEAN,
             \A n \in Names : fixture[n] = "ok" => fixture'[n] = "ok",
             main' \in {"collect", "prepare", "tests", "finish", "drain", "results", "over"},
             main' \in {"collect", "prepare"} => main \in {"collect", "prepare"},
             main' = "tests" => main \in {"collect", "prepare", "tests"},
             main' = "results" => main = "results" \/ reports # << >>,
             main' # "over" => main # "over"
      PROVE  MainInv' /\ TestInv'
  <2>1. MainInv'
    BY <1>0, <1>a DEF MainInv
  <2>2. main' = "tests" => test \in DOMAIN Tests
    BY <1>0, <1>a, FirstTest DEF TestInv
  <2>3. ASSUME main' = "tests", phase = "setup", NEW i \in DOMAIN Asks(test), i < nth
        PROVE  fixture'[Asks(test)[i]] = "ok"
    <3>1. i \in Nat /\ i >= 1 /\ Asks(test)[i] \in Names
      BY <2>2, <2>3, TestFacts, ElementOfSeq
    <3>2. main = "tests"
      BY <1>0, <1>a, <2>3, <3>1 DEF TestInv
    <3> QED  BY <1>0, <1>a, <2>3, <3>1, <3>2 DEF TestInv
  <2>4. ASSUME main' = "tests", phase = "call", NEW n \in ToSet(Asks(test))
        PROVE  fixture'[n] = "ok"
    <3>1. n \in Names
      BY <2>2, <2>4, TestFacts, ElementOfSeq DEF ToSet
    <3>2. main = "tests"
      BY <1>0, <1>a, <2>4 DEF TestInv
    <3> QED  BY <1>0, <1>a, <2>4, <3>1, <3>2 DEF TestInv
  <2>5. Asks(test)' = Asks(test)
    BY <1>a DEF Asks
  <2> QED  BY <1>0, <1>a, <2>1, <2>2, <2>3, <2>4, <2>5 DEF TestInv
<1>b. ASSUME main = "tests", NEW when \in {"setup", "call"}, NEW r \in ReportSet,
             r.test = test, r.when = when, Reported(r, phase'),
             UNCHANGED <<main, firstFail, test, nth, cut, fixture, results>>,
             phase' = "teardown" \/ (phase' = "call" /\ \A n \in ToSet(Asks(test)) : fixture[n] = "ok"),
             patched' \in BOOLEAN
      PROVE  MainInv' /\ TestInv'
  <2>1. /\ reports' = Append(reports, r) /\ reports' \in Seq(ReportSet) /\ reports' # << >>
        /\ ToSet(reports') = ToSet(reports) \cup {r}
    BY <1>0, <1>b, ReportMore DEF Reported, MainInv
  <2>2. MainInv'
    BY <1>0, <1>b, <2>1 DEF MainInv, Phases
  <2>3. ToSet(reports)' = ToSet(reports) \cup {r} /\ ToSet(Asks(test))' = ToSet(Asks(test))
    BY <1>b, <2>1 DEF Asks
  <2>4. test \in Nat
    BY <1>0 DEF MainInv
  <2>5. \A s \in ToSet(reports) \cup {r} : s.test <= test /\ (s.when = "teardown" => s.test < test)
    BY <1>0, <1>b, <2>4 DEF TestInv
  <2>6. \A t \in DOMAIN Tests : t < test =>
          \E s \in ToSet(reports) \cup {r} : s.test = t /\ s.when = "teardown"
    BY <1>0 DEF TestInv
  <2> QED  BY <1>0, <1>b, <2>1, <2>2, <2>3, <2>5, <2>6 DEF TestInv
<1>1. CASE MainThread
  <2> USE DEF MainFrame, PoolFrame, TestFrame, bootVars, cellVars, toldVars, testVars
  <2>1. CASE Unsupported
    BY <1>0, <1>a, <2>1 DEF Unsupported, MainInv
  <2>2. CASE Collect
    <3>1. main = "collect" /\ main' \in {"tests", "prepare"}
      BY <2>2 DEF Collect
    <3> QED  BY <1>0, <1>a, <2>2, <3>1 DEF Collect, MainInv
  <2>3. CASE PrepareFails
    BY <1>0, <1>a, <2>3 DEF PrepareFails, MainInv
  <2>4. CASE Submit
    BY <1>0, <1>a, <2>4 DEF Submit, MainInv
  <2>5. CASE FixtureCached
    <3>1. Setting /\ fixture[Asked] # "none"
      BY <2>5 DEF FixtureCached
    <3>2. test \in DOMAIN Tests /\ nth \in DOMAIN Asks(test) /\ Asked = Asks(test)[nth]
      BY <3>1, AskedFacts
    <3>3. CASE fixture[Asked] = "ok"
      <4>1. /\ nth' = nth + 1
            /\ UNCHANGED <<main, firstFail, test, phase, reports, fixture, patched, cut, results>>
        BY <2>5, <3>3 DEF FixtureCached
      <4>2. MainInv'
        BY <1>0, <4>1 DEF MainInv
      <4>3. Asks(test)' = Asks(test) /\ main = "tests" /\ phase = "setup"
        BY <3>1, <4>1 DEF Asks, Setting
      <4>4. ASSUME NEW i \in DOMAIN Asks(test), i < nth + 1
            PROVE  fixture[Asks(test)[i]] = "ok"
        <5>1. i = nth \/ i < nth
          BY <1>0, <3>2, <4>4, TestFacts DEF MainInv
        <5> QED  BY <1>0, <3>2, <3>3, <4>3, <4>4, <5>1 DEF TestInv
      <4> QED  BY <1>0, <4>1, <4>2, <4>3, <4>4 DEF TestInv
    <3>4. CASE fixture[Asked] # "ok"
      <4>1. /\ Reported(Raised("setup"), "teardown")
            /\ UNCHANGED <<main, firstFail, test, nth, fixture, patched, cut, results>>
        BY <2>5, <3>4 DEF FixtureCached
      <4>2. main = "tests" /\ phase' = "teardown" /\ patched' \in BOOLEAN
        BY <1>0, <3>1, <4>1 DEF Setting, Reported, MainInv
      <4>3. Raised("setup") \in ReportSet /\ Raised("setup").test = test /\ Raised("setup").when = "setup"
        BY <3>2, ReportFacts DEF Phases
      <4> QED  BY <1>b, <4>1, <4>2, <4>3
    <3> QED  BY <3>3, <3>4
  <2>6. CASE BootInline
    BY <1>0, <1>a, <2>6 DEF BootInline, MainInv
  <2>7. CASE Booted
    BY <1>0, <1>a, <2>7, AskedFacts DEF Booted, MainInv, PoolTables
  <2>8. CASE BootedExits
    BY <1>0, <1>a, <2>8 DEF BootedExits, CutShort, MainInv, Setting
  <2>9. CASE Backstop
    BY <1>0, <1>a, <2>9, AskedFacts DEF Backstop, MainInv, PoolTables
  <2>10. CASE SetupPasses
    <3>1. main = "tests" /\ phase = "setup" /\ nth > Len(Asks(test)) /\ test \in DOMAIN Tests
      BY <1>0, <2>10 DEF SetupPasses, TestInv
    <3>2. \A n \in ToSet(Asks(test)) : fixture[n] = "ok"
      <4>1. \A i \in DOMAIN Asks(test) : i < nth
        BY <1>0, <3>1, TestFacts DEF MainInv
      <4> QED  BY <1>0, <3>1, <4>1 DEF TestInv, ToSet
    <3>3. patched' \in BOOLEAN
      BY <2>10, <3>1, TestFacts DEF SetupPasses
    <3>4. Passed("setup") \in ReportSet /\ Passed("setup").test = test /\ Passed("setup").when = "setup"
      BY <3>1, ReportFacts DEF Phases
    <3>5. /\ Reported(Passed("setup"), "call") /\ phase' = "call"
          /\ UNCHANGED <<main, firstFail, test, nth, cut, fixture, results>>
      BY <2>10 DEF SetupPasses, Reported
    <3> QED  BY <1>b, <3>1, <3>2, <3>3, <3>4, <3>5
  <2>11. CASE CallTest
    <3>1. main = "tests" /\ phase = "call" /\ test \in DOMAIN Tests
      BY <1>0, <2>11 DEF CallTest, TestInv
    <3>2. PICK r \in {Passed("call"), Raised("call"), Skipped("call")} :
            Reported(r, "teardown")
      BY <2>11 DEF CallTest
    <3>3. r \in ReportSet /\ r.test = test /\ r.when = "call"
      BY <3>1, ReportFacts DEF Phases
    <3>4. /\ UNCHANGED <<main, firstFail, test, nth, cut, fixture, results, patched>>
          /\ patched' \in BOOLEAN /\ phase' = "teardown"
      BY <1>0, <2>11, <3>2 DEF CallTest, MainInv, Reported
    <3> QED  BY <1>b, <3>1, <3>2, <3>3, <3>4
  <2>12. CASE Teardown
    <3>1. main = "tests" /\ test \in DOMAIN Tests
      BY <1>0, <2>12 DEF Teardown, TestInv
    <3>2. PICK r \in {Passed("teardown"), Raised("teardown"), Skipped("teardown")} : Reported(r, "setup")
      BY <2>12 DEF Teardown
    <3>3. r \in ReportSet /\ r.test = test /\ r.when = "teardown"
      BY <3>1, ReportFacts DEF Phases
    <3>4. /\ reports' = Append(reports, r) /\ reports' \in Seq(ReportSet) /\ reports' # << >>
          /\ ToSet(reports') = ToSet(reports) \cup {r} /\ phase' = "setup"
      BY <1>0, <3>2, <3>3, ReportMore DEF Reported, MainInv
    <3>5. /\ UNCHANGED <<firstFail, cut, fixture, results>> /\ patched' = FALSE
          /\ nth' = 1 /\ test' = test + 1 /\ main' \in {"tests", "finish"}
          /\ main' = "tests" => test # Len(Tests)
      BY <2>12, <3>1 DEF Teardown
    <3>6. test \in Nat /\ test \in 1 .. Len(Tests) /\ Len(Tests) \in Nat /\ DOMAIN Tests = 1 .. Len(Tests)
      BY <3>1, TestFacts
    <3>7. MainInv'
      <4>1. test + 1 \in 1 .. Len(Tests) + 1
        BY <3>6
      <4>2. firstFail' \in BOOLEAN /\ patched' \in BOOLEAN /\ cut' \in BOOLEAN
        BY <1>0, <3>5 DEF MainInv
      <4>3. nth' \in Nat \ {0} /\ phase' \in Phases /\ test' \in 1 .. Len(Tests) + 1
        BY <3>4, <3>5, <4>1 DEF Phases
      <4> QED  BY <3>4, <3>5, <4>2, <4>3 DEF MainInv
    <3>8. \A s \in ToSet(reports) \cup {r} : s.test < test + 1
      <4>1. \A s \in ToSet(reports) : s.test \in Nat
        BY <1>0, ReportOf DEF MainInv
      <4>2. \A s \in ToSet(reports) : s.test <= test
        BY <1>0 DEF TestInv
      <4> QED  BY <3>3, <3>6, <4>1, <4>2
    <3>9. \A t \in DOMAIN Tests : t < test + 1 =>
            \E s \in ToSet(reports) \cup {r} : s.test = t /\ s.when = "teardown"
      <4> SUFFICES ASSUME NEW t \in DOMAIN Tests, t < test + 1
                   PROVE  \E s \in ToSet(reports) \cup {r} : s.test = t /\ s.when = "teardown"
        OBVIOUS
      <4>1. t = test \/ t < test
        BY SMTT(30), <3>6
      <4> QED  BY <1>0, <3>3, <4>1 DEF TestInv
    <3>10. main' = "tests" => test' \in DOMAIN Tests
      <4>1. \A k, l \in Nat : 1 <= k /\ k <= l /\ k # l => k + 1 \in 1 .. l
        OBVIOUS
      <4>2. test # Len(Tests) => test + 1 \in 1 .. Len(Tests)
        BY <3>1, TestFacts, <4>1
      <4> QED  BY <3>5, <3>6, <4>2
    <3>11. main' = "tests" => \A i \in DOMAIN Asks(test') : ~(i < nth')
      BY <3>5, <3>10, TestFacts
    <3>12. Asks(test)' = Asks(test') /\ ToSet(reports)' = ToSet(reports') /\ results' = Nothing
      BY <1>0, <3>1, <3>5 DEF Asks, TestInv
    <3>13. \A s \in ToSet(reports)' : s.test <= test' /\ s.test < test'
      <4>1. \A s \in ToSet(reports') : s.test \in Nat
        BY <3>4, ReportOf
      <4>2. \A s \in ToSet(reports') : s.test < test + 1
        BY <3>4, <3>8
      <4>3. \A s \in ToSet(reports') : s.test <= test + 1
        BY <3>6, <4>1, <4>2
      <4> QED  BY <3>5, <3>12, <4>2, <4>3
    <3> QED  BY <3>4, <3>5, <3>7, <3>9, <3>10, <3>11, <3>12, <3>13 DEF TestInv
  <2>13. CASE SkipTest
    <3>1. main = "tests" /\ test \in DOMAIN Tests
      BY <1>0, <2>13 DEF SkipTest, TestInv
    <3>2. /\ Reported(Skipped("setup"), "teardown") /\ phase' = "teardown" /\ patched' \in BOOLEAN
          /\ UNCHANGED <<main, firstFail, test, nth, cut, fixture, results>>
      BY <1>0, <2>13 DEF SkipTest, Reported, MainInv
    <3>3. Skipped("setup") \in ReportSet /\ Skipped("setup").test = test /\ Skipped("setup").when = "setup"
      BY <3>1, ReportFacts DEF Phases
    <3> QED  BY <1>b, <3>1, <3>2, <3>3
  <2>14. CASE Shutdown
    BY <1>0, <1>a, <2>14 DEF Shutdown, MainInv
  <2>15. CASE Drain
    <3>1. main = "drain" /\ main' \in {"results", "over"} /\ (main' = "results" => reports # << >>)
      BY <2>15 DEF Drain
    <3> QED  BY <1>0, <1>a, <2>15, <3>1 DEF Drain, MainInv
  <2>16. CASE WriteResults
    <3>1. main = "results" /\ main' = "over" /\ reports # << >>
      BY <1>0, <2>16 DEF WriteResults, TestInv
    <3>2. UNCHANGED <<firstFail, test, nth, phase, reports, fixture, patched, cut>>
      BY <2>16 DEF WriteResults
    <3>3. ToSet(reports)' = ToSet(reports)
      BY <3>2
    <3> QED  BY <1>0, <3>1, <3>2, <3>3 DEF MainInv, TestInv
  <2> QED  BY <1>1, <2>1, <2>2, <2>3, <2>4, <2>5, <2>6, <2>7, <2>8, <2>9, <2>10, <2>11, <2>12,
              <2>13, <2>14, <2>15, <2>16 DEF MainThread
<1>2. CASE Interrupt
  BY <1>0, <1>a, <1>2 DEF Interrupt, CutShort, TestFrame, MainInv, toldVars
<1>3. CASE RenderPage
  BY <1>0, <1>a, <1>3 DEF RenderPage, MainFrame, MainInv
<1>4. CASE BeginBoot \/ OtherSession \/ Finished \/ UNCHANGED vars
  BY <1>0, <1>a, <1>4 DEF BeginBoot, OtherSession, Finished, vars, PoolFrame, DirFrame, testVars,
                          toldVars, MainInv
<1>5. CASE \E x \in Threads : Thread(x)
  BY <1>0, <1>a, <1>5 DEF Thread, Begins, LockDir, MakeDir, KeepDir, RunBoot, EndBoot, PoolFrame, DirFrame,
                          testVars, toldVars, MainInv
<1> QED  BY <1>1, <1>2, <1>3, <1>4, <1>5 DEF Next

-----------------------------------------------------------------------------
(* The pool.                                                               *)

\* Each boot is begun once, by a worker or by the main thread, and the main
\* thread waits for its own.
LEMMA PoolStep ==
  ASSUME IInv, [Next]_vars  PROVE PoolInv' /\ PoolTables'
<1> USE DEF Waiting, Under, Over
<1>0. PoolInv /\ PoolTables /\ MainInv
  BY DEF IInv
<1>a. ASSUME UNCHANGED <<boot, queue, inline, starts, used, fixture, settings>>,
             \A n \in Names : boot[n] \in Waiting => at'[n] = "none",
             main' \in {"collect", "prepare"} => main \in {"collect", "prepare"},
             main' = "tests" => main = "tests" \/ Wanted = {},
             main' \notin {"tests", "finish"} => queue = {},
             UNCHANGED <<main, phase, nth, test>> \/ \A n \in inline : boot[n] \notin Under
      PROVE  PoolInv' /\ PoolTables'
  <2>1. PoolTables'
    BY <1>0, <1>a DEF PoolTables
  <2>2. UNCHANGED <<main, phase, nth, test>> => Setting' = Setting /\ Asked' = Asked
    BY DEF Setting, Asked, Asks
  <2>3. \A n \in inline : boot[n] \in Under => Setting' /\ Asked' = n /\ fixture[n] = "none"
    BY <1>0, <1>a, <2>2 DEF PoolInv
  <2> QED  BY <1>0, <1>a, <2>1, <2>3 DEF PoolInv
<1>1. CASE MainThread
  <2> USE DEF MainFrame, PoolFrame, TestFrame, bootVars, cellVars, toldVars, testVars, dirVars
  <2>0. ASSUME NEW n \in inline, boot[n] \in Under
        PROVE  /\ main = "tests" /\ phase = "setup" /\ ~(nth > Len(Asks(test)))
               /\ Asked = n /\ fixture[Asked] = "none"
    <3>1. Setting /\ Asked = n /\ fixture[n] = "none"
      BY <1>0, <2>0 DEF PoolInv
    <3> QED  BY <1>0, <3>1, AskedFacts, TestFacts DEF Setting, MainInv
  <2>1. CASE Unsupported
    BY <1>0, <1>a, <2>0, <2>1 DEF Unsupported, PoolInv
  <2>2. CASE Collect
    <3>1. UNCHANGED <<boot, queue, inline, starts, used, fixture, settings>> /\ main = "collect"
      BY <2>2 DEF Collect
    <3>2. main' = "prepare" \/ (main' = "tests" /\ Wanted = {})
      BY <2>2 DEF Collect
    <3>3. \A n \in Names : at'[n] = at[n]
      BY <2>2, MainAssumption DEF Collect, IInv, DirTables, Threads
    <3> QED  BY <1>0, <1>a, <2>0, <3>1, <3>2, <3>3 DEF PoolInv
  <2>3. CASE PrepareFails
    BY <1>0, <1>a, <2>0, <2>3 DEF PrepareFails, PoolInv
  <2>4. CASE Submit
    <3>1. /\ main = "prepare" /\ main' = "tests" /\ queue' = Wanted
          /\ boot' = [n \in Names |-> IF n \in Wanted THEN "queued" ELSE boot[n]]
          /\ UNCHANGED <<at, inline, starts, used, fixture, settings>>
      BY <2>4 DEF Submit
    <3>2. \A n \in Names : boot[n] = "none" /\ starts[n] = 0 /\ at[n] = "none"
                           /\ fixture[n] # "ok" /\ used[n] = Nothing
      BY <1>0, <3>1 DEF PoolInv
    <3>3. inline = {}
      BY <1>0, <3>2 DEF PoolInv, PoolTables
    <3>4. PoolTables'
      BY <1>0, <3>1, <3>2, WantedNames DEF PoolTables
    <3>5. \A n \in Names : boot'[n] = IF n \in Wanted THEN "queued" ELSE "none"
      BY <3>1, <3>2
    <3> QED  BY <3>1, <3>2, <3>3, <3>4, <3>5, WantedNames DEF PoolInv
  <2>5. CASE FixtureCached
    BY <1>0, <1>a, <2>0, <2>5 DEF FixtureCached, Setting, PoolInv
  <2>6. CASE BootInline
    <3> DEFINE a == Asked
    <3>1. /\ Setting /\ fixture[a] = "none" /\ boot[a] = "none" /\ a \in Names /\ main = "tests"
          /\ boot' = [boot EXCEPT ![a] = "begun"] /\ starts' = [starts EXCEPT ![a] = @ + 1]
          /\ inline' = inline \cup {a} /\ at' = [at EXCEPT ![a] = "wants"]
          /\ UNCHANGED <<queue, used, fixture, settings, main, phase, nth, test>>
      BY <2>6, AskedFacts DEF BootInline, Setting
    <3>2. Setting' /\ Asked' = a
      BY <3>1 DEF Setting, Asked, Asks
    <3> HIDE DEF a
    <3>3. \A n \in Names : boot'[n] = IF n = a THEN "begun" ELSE boot[n]
      BY <1>0, <3>1 DEF PoolTables
    <3>4. starts[a] = 0 /\ \A n \in Names : starts'[n] = IF n = a THEN 1 ELSE starts[n]
      BY <1>0, <3>1 DEF PoolTables, PoolInv
    <3>5. \A n \in Names : n # a => at'[n] = at[n]
      BY <3>1 DEF IInv, DirTables, Threads
    <3>6. PoolTables'
      BY <1>0, <3>1, <3>4 DEF PoolTables
    <3>7. a \notin queue /\ a \notin Wanted /\ a \notin inline
      BY <1>0, <3>1 DEF PoolInv
    <3>8. \A n \in inline : boot[n] \notin Under
      BY <1>0, <3>7, <2>0 DEF a
    <3> QED  BY <1>0, <3>1, <3>2, <3>3, <3>4, <3>5, <3>6, <3>7, <3>8 DEF PoolInv, PoolTables
  <2>7. CASE Booted
    <3> DEFINE a == Asked
    <3>1. /\ boot[a] \in {"done", "failed"} /\ a \in Names /\ main = "tests"
          /\ fixture' = [fixture EXCEPT ![a] = FixtureOf(a)]
          /\ UNCHANGED <<boot, queue, inline, starts, used, at, settings, main>>
      BY <2>7, AskedFacts DEF Booted, Setting
    <3>2. \A n \in inline : boot[n] \notin Under
      BY <2>0, <3>1
    <3>3. FixtureOf(a) \in {"ok", "failed"} /\ (FixtureOf(a) = "ok" => boot[a] = "done")
      BY DEF FixtureOf
    <3> HIDE DEF a
    <3>4. \A n \in Names : fixture'[n] = "ok" => boot[n] = "done"
      BY <1>0, <3>1, <3>3 DEF PoolInv, PoolTables
    <3>5. PoolTables'
      BY <1>0, <3>1, <3>3 DEF PoolTables
    <3> QED  BY <1>0, <3>1, <3>2, <3>4, <3>5 DEF PoolInv
  <2>8. CASE BootedExits
    BY <1>0, <1>a, <2>0, <2>8 DEF BootedExits, CutShort, Setting, PoolInv
  <2>9. CASE Backstop
    <3> DEFINE a == Asked
    <3>1. /\ a \in Names /\ main = "tests" /\ boot[a] \in Under \cup {"queued"}
          /\ a \in inline => boot[a] = "running"
          /\ fixture' = [fixture EXCEPT ![a] = "failed"]
          /\ boot' = IF a \in inline THEN [boot EXCEPT ![a] = "failed"] ELSE boot
          /\ UNCHANGED <<queue, inline, starts, used, at, settings, main>>
      BY <2>9, AskedFacts DEF Backstop, Setting
    <3>2. \A n \in inline : boot[n] \in Under => n = a
      BY <2>0
    <3> HIDE DEF a
    <3>3. \A n \in Names : boot'[n] = IF n = a /\ n \in inline THEN "failed" ELSE boot[n]
      BY <1>0, <3>1 DEF PoolTables
    <3>4. \A n \in Names : fixture'[n] = IF n = a THEN "failed" ELSE fixture[n]
      BY <1>0, <3>1 DEF PoolTables
    <3>5. PoolTables'
      BY <1>0, <3>1 DEF PoolTables
    <3>6. \A n \in inline : boot'[n] \notin Waiting \cup Under /\ n \in Names
      BY <1>0, <3>2, <3>3 DEF PoolInv, PoolTables
    <3>7. \A n \in Names : /\ boot'[n] \in Waiting <=> boot[n] \in Waiting
                           /\ boot'[n] = "queued" <=> boot[n] = "queued"
                           /\ boot'[n] = "none" <=> boot[n] = "none"
                           /\ boot[n] \in {"running"} \cup Over => boot'[n] \in {"running"} \cup Over
                           /\ boot'[n] \in {"running", "done"} => boot'[n] = boot[n]
                           /\ fixture'[n] = "ok" => fixture[n] = "ok" /\ n # a
      BY <3>1, <3>3, <3>4
    <3>8. \A n \in Names : fixture'[n] = "ok" => boot'[n] = "done"
      BY <1>0, <3>3, <3>7 DEF PoolInv
    <3> QED  BY <1>0, <3>1, <3>5, <3>6, <3>7, <3>8, WantedNames DEF PoolInv
  <2>10. CASE SetupPasses
    BY <1>0, <1>a, <2>0, <2>10 DEF SetupPasses, PoolInv
  <2>11. CASE CallTest
    BY <1>0, <1>a, <2>0, <2>11 DEF CallTest, PoolInv
  <2>12. CASE Teardown
    BY <1>0, <1>a, <2>0, <2>12 DEF Teardown, PoolInv
  <2>13. CASE SkipTest
    <3>1. /\ main = "tests" /\ main' = "tests" /\ phase' = "teardown"
          /\ UNCHANGED <<boot, queue, inline, starts, used, at, fixture, settings>>
      BY <2>13 DEF SkipTest, Reported
    <3>2. \A n \in inline : boot[n] \notin Waiting \cup Under
      BY <1>0, <2>13 DEF SkipTest, PoolInv
    <3> QED  BY <1>0, <1>a, <3>1, <3>2 DEF PoolInv
  <2>14. CASE Shutdown
    <3>1. /\ main = "finish" /\ main' = "drain" /\ queue' = {}
          /\ boot' = [n \in Names |-> IF boot[n] = "queued" THEN "cancelled" ELSE boot[n]]
          /\ UNCHANGED <<at, inline, starts, used, fixture, settings>>
      BY <2>14 DEF Shutdown
    <3>2. \A n \in Names : boot'[n] = IF boot[n] = "queued" THEN "cancelled" ELSE boot[n]
      BY <3>1
    <3>3. PoolTables'
      BY <1>0, <3>1 DEF PoolTables
    <3>4. \A n \in inline : boot[n] \notin Waiting \cup Under /\ n \in Names
      BY <1>0, <2>0, <3>1 DEF PoolInv, PoolTables
    <3> QED  BY <1>0, <3>1, <3>2, <3>3, <3>4 DEF PoolInv
  <2>15. CASE Drain
    <3>1. UNCHANGED <<boot, queue, inline, starts, used, fixture, settings>> /\ main = "drain"
          /\ main' \in {"results", "over"}
      BY <2>15 DEF Drain
    <3>2. \A n \in Names : at'[n] = at[n]
      BY <2>15, MainAssumption DEF Drain, IInv, DirTables, Threads
    <3> QED  BY <1>0, <1>a, <2>0, <3>1, <3>2 DEF PoolInv
  <2>16. CASE WriteResults
    BY <1>0, <1>a, <2>0, <2>16 DEF WriteResults, PoolInv
  <2> QED  BY <1>1, <2>1, <2>2, <2>3, <2>4, <2>5, <2>6, <2>7, <2>8, <2>9, <2>10, <2>11, <2>12,
              <2>13, <2>14, <2>15, <2>16 DEF MainThread
<1>2. CASE Interrupt
  BY <1>0, <1>a, <1>2 DEF Interrupt, CutShort, TestFrame, PoolInv, bootVars, cellVars, dirVars
<1>3. CASE RenderPage
  BY <1>0, <1>a, <1>3 DEF RenderPage, MainFrame, PoolInv, bootVars, cellVars
<1>4. CASE BeginBoot
  <2>1. PICK n \in queue :
          /\ boot' = [boot EXCEPT ![n] = "begun"] /\ starts' = [starts EXCEPT ![n] = @ + 1]
          /\ at' = [at EXCEPT ![n] = "wants"] /\ queue' = queue \ {n}
    BY <1>4 DEF BeginBoot
  <2>2. UNCHANGED <<inline, used, fixture, settings, main, phase, nth, test>>
    BY <1>4 DEF BeginBoot, PoolFrame, testVars, cellVars
  <2>3. n \in Names /\ boot[n] = "queued" /\ starts[n] = 0
    BY <1>0 DEF PoolInv, PoolTables
  <2>4. n \notin inline
    BY <1>0, <2>3 DEF PoolInv
  <2>5. \A m \in Names : /\ boot'[m] = IF m = n THEN "begun" ELSE boot[m]
                         /\ starts'[m] = IF m = n THEN 1 ELSE starts[m]
                         /\ m # n => at'[m] = at[m]
    BY <1>0, <2>1, <2>3 DEF PoolTables, IInv, DirTables, Threads
  <2>6. PoolTables'
    BY <1>0, <2>1, <2>2, <2>3 DEF PoolTables
  <2>7. Setting' = Setting /\ Asked' = Asked
    BY <2>2 DEF Setting, Asked, Asks
  <2> QED  BY <1>0, <2>1, <2>2, <2>3, <2>4, <2>5, <2>6, <2>7, WantedNames DEF PoolInv, PoolTables
<1>5. CASE \E x \in Threads : Thread(x)
  <2> SUFFICES ASSUME NEW x \in Threads, Thread(x)  PROVE PoolInv' /\ PoolTables'
    BY <1>5
  <2>1. CASE LockDir(x) \/ MakeDir(x) \/ KeepDir(x)
    <3>1. at[x] # "none" /\ \E a \in {"has", "makes", "exits", "error", "made"} : at' = [at EXCEPT ![x] = a]
      BY <2>1 DEF LockDir, MakeDir, KeepDir
    <3>2. \A n \in Names : at[n] = "none" => at'[n] = "none"
      BY <3>1 DEF IInv, DirTables, Threads
    <3>3. UNCHANGED <<boot, queue, inline, starts, used, fixture, settings, main, phase, nth, test>>
      BY <2>1 DEF LockDir, MakeDir, KeepDir, DirFrame, testVars, bootVars, cellVars
    <3> QED  BY <1>0, <1>a, <3>2, <3>3 DEF PoolInv
  <2>2. CASE x \in Names /\ (RunBoot(x) \/ EndBoot(x))
    <3>1. UNCHANGED <<at, queue, inline, starts, fixture, settings, main, phase, nth, test>>
      BY <2>2 DEF RunBoot, EndBoot, PoolFrame, testVars, cellVars
    <3>2. PICK r \in {"running", "done", "failed", "exits"} : boot' = [boot EXCEPT ![x] = r]
      BY <2>2 DEF RunBoot, EndBoot
    <3>3. boot[x] \in Under
      BY <2>2 DEF RunBoot, EndBoot
    <3>4. \A n \in Names : boot'[n] = IF n = x THEN r ELSE boot[n]
      BY <1>0, <3>2 DEF PoolTables
    <3>5. DOMAIN used' = Names /\ \A n \in Names : n # x => used'[n] = used[n]
      BY <1>0, <2>2 DEF RunBoot, EndBoot, PoolTables
    <3>6. r \in {"running", "done"} => used'[x] = settings
      <4>1. CASE RunBoot(x)
        BY <1>0, <2>2, <3>2, <4>1 DEF RunBoot, BootSettings, PoolTables
      <4>2. CASE EndBoot(x)
        BY <1>0, <2>2, <4>2 DEF EndBoot, PoolInv
      <4> QED  BY <2>2, <4>1, <4>2
    <3>7. PoolTables'
      BY <1>0, <3>1, <3>2, <3>5 DEF PoolTables
    <3>8. Setting' = Setting /\ Asked' = Asked
      BY <3>1 DEF Setting, Asked, Asks
    <3> QED  BY <1>0, <2>2, <3>1, <3>3, <3>4, <3>5, <3>6, <3>7, <3>8, WantedNames DEF PoolInv, PoolTables
  <2> QED  BY <2>1, <2>2 DEF Thread, Begins
<1>6. CASE OtherSession \/ Finished \/ UNCHANGED vars
  BY <1>0, <1>a, <1>6 DEF OtherSession, Finished, vars, DirFrame, testVars, bootVars, cellVars, PoolInv
<1> QED  BY <1>1, <1>2, <1>3, <1>4, <1>5, <1>6 DEF Next

-----------------------------------------------------------------------------
(* What the tests are called on, and what is left at the end.              *)

\* The cell, and what was read of it, stay.
LEMMA CellStep ==
  ASSUME IInv, [Next]_vars  PROVE CellInv'
<1>1. UNCHANGED <<cell, environ, settings>>
  BY DEF Next, vars, MainThread, Unsupported, Collect, PrepareFails, Submit, FixtureCached,
         BootInline, Booted, BootedExits, Backstop, SkipTest, SetupPasses, CallTest, Teardown, Shutdown,
         Drain, WriteResults, Interrupt, RenderPage, BeginBoot, Thread, Begins, LockDir, MakeDir, KeepDir, RunBoot,
         EndBoot, OtherSession, Finished, CutShort, MainFrame, TestFrame, PoolFrame, DirFrame, cellVars
<1> QED  BY <1>1 DEF IInv, CellInv, AsConfigured

\* A boot that reached the shell has.
LEMMA DoneStays ==
  ASSUME IInv, [Next]_vars, NEW n \in Names, boot[n] = "done"  PROVE boot'[n] = "done"
<1> USE DEF bootVars, PoolFrame, DirFrame, MainFrame, TestFrame, Under
<1>0. PoolInv /\ PoolTables
  BY DEF IInv
<1>1. ASSUME NEW m \in Names, NEW a, boot' = [boot EXCEPT ![m] = a], boot[m] # "done"
      PROVE  boot'[n] = "done"
  BY <1>0, <1>1 DEF PoolTables
<1>2. CASE MainThread
  <2>1. CASE Submit
    BY <1>0, <2>1 DEF Submit, PoolInv
  <2>2. CASE BootInline
    BY <1>1, <2>2, AskedFacts DEF BootInline
  <2>3. CASE Backstop
    BY <1>1, <2>3, AskedFacts DEF Backstop
  <2>4. CASE Shutdown
    BY <2>4 DEF Shutdown
  <2>5. CASE ~(Submit \/ BootInline \/ Backstop \/ Shutdown)
    BY <1>2, <2>5 DEF MainThread, Unsupported, Collect, PrepareFails, FixtureCached, Booted, BootedExits,
                      SkipTest, SetupPasses, CallTest, Teardown, Drain, WriteResults
  <2> QED  BY <2>1, <2>2, <2>3, <2>4, <2>5
<1>3. CASE BeginBoot
  <2>1. PICK m \in queue : boot' = [boot EXCEPT ![m] = "begun"]
    BY <1>3 DEF BeginBoot
  <2>2. m \in Names /\ boot[m] = "queued"
    BY <1>0 DEF PoolInv, PoolTables
  <2> QED  BY <1>1, <2>1, <2>2
<1>4. CASE \E x \in Threads : Thread(x)
  <2> SUFFICES ASSUME NEW x \in Threads, Thread(x)  PROVE boot'[n] = "done"
    BY <1>4
  <2>1. CASE LockDir(x) \/ MakeDir(x) \/ KeepDir(x)
    BY <2>1 DEF LockDir, MakeDir, KeepDir
  <2>2. CASE x \in Names /\ RunBoot(x)
    BY <1>1, <2>2 DEF RunBoot
  <2>3. CASE x \in Names /\ EndBoot(x)
    BY <1>1, <2>3 DEF EndBoot
  <2> QED  BY <2>1, <2>2, <2>3 DEF Thread, Begins
<1>5. CASE Interrupt \/ RenderPage \/ OtherSession \/ Finished \/ UNCHANGED vars
  BY <1>5 DEF Interrupt, RenderPage, OtherSession, Finished, vars
<1> QED  BY <1>2, <1>3, <1>4, <1>5 DEF Next

\* A call that is reported is of the test whose boots are all set up.
LEMMA CallReported ==
  ASSUME IInv, [Next]_vars, NEW r \in ToSet(reports'), r.when = "call", r \notin ToSet(reports)
  PROVE  main = "tests" /\ phase = "call" /\ r.test = test
<1>0. /\ reports \in Seq(ReportSet)
      /\ main = "tests" => test \in DOMAIN Tests
  BY DEF IInv, MainInv, TestInv
<1>1. ASSUME NEW when \in Phases, NEW s \in ReportSet, s.when = when, reports' = Append(reports, s)
      PROVE  r = s /\ when = "call"
  BY <1>0, <1>1, ReportMore
<1>2. reports' # reports
  OBVIOUS
<1>3. FixtureCached \/ SkipTest \/ SetupPasses \/ CallTest \/ Teardown
  BY <1>2 DEF Next, vars, MainThread, Unsupported, Collect, PrepareFails, Submit,
         BootInline, Booted, BootedExits, Backstop, Shutdown, Drain,
         WriteResults, Interrupt, RenderPage, BeginBoot, Thread, Begins, LockDir, MakeDir, KeepDir, RunBoot,
         EndBoot, OtherSession, Finished, CutShort, MainFrame, TestFrame, PoolFrame, DirFrame, testVars
<1>4. main = "tests" /\ test \in DOMAIN Tests
  BY <1>0, <1>3 DEF FixtureCached, SkipTest, SetupPasses, CallTest, Teardown, Setting
<1>5. ~FixtureCached
  <2> SUFFICES ASSUME FixtureCached  PROVE FALSE
    OBVIOUS
  <2>1. reports' = Append(reports, Raised("setup"))
    BY <1>2 DEF FixtureCached, Reported
  <2> QED  BY <1>1, <1>4, <2>1, ReportFacts DEF Phases
<1>6. ~SetupPasses /\ ~SkipTest
  BY <1>1, <1>4, ReportFacts DEF SetupPasses, SkipTest, Reported, Phases
<1>7. ~Teardown
  <2> SUFFICES ASSUME Teardown  PROVE FALSE
    OBVIOUS
  <2>1. PICK s \in {Passed("teardown"), Raised("teardown"), Skipped("teardown")} : reports' = Append(reports, s)
    BY DEF Teardown, Reported
  <2> QED  BY <1>1, <1>4, <2>1, ReportFacts DEF Phases
<1>8. CallTest
  BY <1>3, <1>5, <1>6, <1>7
<1>9. PICK s \in {Passed("call"), Raised("call"), Skipped("call")} :
        reports' = Append(reports, s)
  BY <1>8 DEF CallTest, Reported
<1>10. s \in ReportSet /\ s.test = test /\ s.when = "call"
  BY <1>4, ReportFacts DEF Phases
<1> QED  BY <1>1, <1>4, <1>8, <1>9, <1>10 DEF CallTest, Phases

\* A test is called on its boots, and they stay what they were.
LEMMA CalledStep ==
  ASSUME IInv, [Next]_vars  PROVE CalledOnBoots'
<1>1. PoolInv' /\ PoolTables' /\ MainInv' /\ CellInv'
  BY PoolStep, TestStep, CellStep
<1> SUFFICES ASSUME NEW r \in ToSet(reports'), r.when = "call", NEW n \in ToSet(Asks(r.test))
             PROVE  boot'[n] = "done" /\ AsConfigured(used[n])'
  BY DEF CalledOnBoots, Asks
<1>2. r.test \in DOMAIN Tests
  BY <1>1, ReportOf DEF MainInv
<1>3. n \in Names
  BY <1>2, TestFacts, ElementOfSeq DEF ToSet
<1>4. boot[n] = "done"
  <2>1. CASE r \in ToSet(reports)
    BY <2>1 DEF IInv, CalledOnBoots
  <2>2. CASE r \notin ToSet(reports)
    <3>1. fixture[n] = "ok"
      BY <2>2, CallReported DEF IInv, TestInv
    <3> QED  BY <1>3, <3>1 DEF IInv, PoolInv
  <2> QED  BY <2>1, <2>2
<1>5. boot'[n] = "done"
  BY <1>3, <1>4, DoneStays
<1>6. used'[n] = settings'
  BY <1>1, <1>3, <1>5 DEF PoolInv
<1> QED  BY <1>1, <1>5, <1>6 DEF CellInv, AsConfigured

\* The pool has drained, or had nothing to do, when the results are written.
LEMMA FinishStep ==
  ASSUME IInv, [Next]_vars  PROVE NothingAfterFinish'
<1> SUFFICES ASSUME main' \in {"results", "over"}, NEW n \in Names
             PROVE  boot'[n] \notin Under \cup {"queued"}
  BY DEF NothingAfterFinish
<1> USE DEF Under, MainFrame, TestFrame, PoolFrame, DirFrame, bootVars, testVars
<1>0. PoolInv /\ PoolTables
  BY DEF IInv
<1>1. CASE main \in {"results", "over"}
  <2>1. queue = {} /\ \A m \in Names : boot[m] \notin Under \cup {"queued"}
    BY <1>0, <1>1 DEF IInv, NothingAfterFinish, PoolInv
  <2>2. ~BeginBoot /\ \A x \in Names : ~RunBoot(x) /\ ~EndBoot(x)
    BY <2>1 DEF BeginBoot, RunBoot, EndBoot
  <2>3. UNCHANGED boot
    BY <1>1, <2>2 DEF Next, vars, MainThread, Unsupported, Collect, PrepareFails, Submit, FixtureCached,
         BootInline, Booted, BootedExits, Backstop, SkipTest, SetupPasses, CallTest, Teardown, Shutdown,
         Drain, WriteResults, Interrupt, RenderPage, Thread, Begins, LockDir, MakeDir, KeepDir,
         OtherSession, Finished, CutShort, Setting
  <2> QED  BY <2>1, <2>3
<1>2. CASE main \notin {"results", "over"}
  <2>1. Unsupported \/ PrepareFails \/ Drain
    BY <1>2 DEF Next, vars, MainThread, Collect, Submit, FixtureCached,
         BootInline, Booted, BootedExits, Backstop, SkipTest, SetupPasses, CallTest, Teardown, Shutdown,
         WriteResults, Interrupt, RenderPage, BeginBoot, Thread, Begins, LockDir, MakeDir, KeepDir, RunBoot,
         EndBoot, OtherSession, Finished, CutShort, Setting
  <2>2. UNCHANGED boot
    BY <2>1 DEF Unsupported, PrepareFails, Drain
  <2>3. CASE Unsupported \/ PrepareFails
    <3>1. boot[n] = "none"
      BY <1>0, <2>3 DEF Unsupported, PrepareFails, PoolInv
    <3> QED  BY <2>2, <3>1
  <2>4. CASE Drain
    <3>1. main = "drain" /\ Busy = {} /\ queue = {}
      BY <2>4 DEF Drain, Drained
    <3>2. boot[n] \notin Under
      BY <1>0, <3>1 DEF Busy, PoolInv, Setting
    <3>3. boot[n] # "queued"
      BY <1>0, <3>1 DEF PoolInv
    <3> QED  BY <2>2, <3>2, <3>3
  <2> QED  BY <2>1, <2>3, <2>4
<1> QED  BY <1>1, <1>2

-----------------------------------------------------------------------------
(* A session that starts.                                                 *)

\* A session that starts is one the invariant describes.
LEMMA InitIInv == Init => IInv
<1> SUFFICES ASSUME Init  PROVE IInv
  OBVIOUS
<1>1. Len(Tests) \in Nat /\ 1 \in 1 .. Len(Tests) + 1
  BY FirstTest
<1>2. reports = << >> /\ reports \in Seq(ReportSet) /\ ToSet(reports) = {}
  <2>1. reports = << >> /\ DOMAIN reports = {}
    BY DEF Init
  <2> QED  BY <2>1 DEF ToSet
<1>3. MainInv
  <2>1. test = 1 /\ nth = 1 /\ firstFail \in BOOLEAN /\ patched = FALSE /\ cut = FALSE
        /\ main = "collect" /\ phase = "setup"
    BY DEF Init
  <2>2. nth \in Nat \ {0} /\ phase \in Phases /\ test \in 1 .. Len(Tests) + 1
    BY <1>1, <2>1 DEF Phases
  <2> QED  BY <1>2, <2>1, <2>2 DEF MainInv
<1>4. PoolTables /\ DirTables
  BY DEF Init, PoolTables, DirTables, Waiting, Under, Over
<1>5. TestInv
  <2>1. \A t \in DOMAIN Tests : ~(t < test)
    BY FirstTest DEF Init
  <2> QED  BY <1>2, <2>1 DEF Init, TestInv
<1>6. PoolInv
  BY DEF Init, PoolInv, Waiting, Under, Over, Threads
<1>7. DirInv
  BY MainAssumption DEF Init, DirInv, Threads
<1>8. CellInv
  BY InitCell DEF Init, CellInv
<1>9. CalledOnBoots /\ NothingAfterFinish
  BY <1>2 DEF Init, CalledOnBoots, NothingAfterFinish
<1> QED  BY <1>3, <1>4, <1>5, <1>6, <1>7, <1>8, <1>9 DEF IInv

-----------------------------------------------------------------------------
(* What is told of the session: its cell, its reports and the records     *)
(* made of them.                                                           *)

\* The banks a configuration comes to.
LEMMA BanksFacts ==
  ASSUME NEW c, NEW upstream
  PROVE  PcrBanks(Env(c, upstream)) = IF c.banks = << >> THEN <<"sha1", "sha256">> ELSE c.banks
<1> DEFINE env == Env(c, upstream)
<1>1. "DRTM_PCR_BANKS" \in DOMAIN env <=> c.banks # << >>
  BY DEF Env, Sets
<1>2. c.banks # << >> => env["DRTM_PCR_BANKS"] = c.banks
  <2>1. "DRTM_PCR_BANKS" \in Sets(c) => env["DRTM_PCR_BANKS"] = c.banks
    BY DEF Env
  <2> QED  BY <2>1 DEF Sets
<1> HIDE DEF env
<1>3. Get(env, "DRTM_PCR_BANKS", << >>) = c.banks
  BY <1>1, <1>2 DEF Get
<1> QED  BY <1>3 DEF PcrBanks, env

\* No two configurations are one machine.
LEMMA OneConfiguration ==
  ASSUME NEW n \in DOMAIN Configurations, NEW m \in DOMAIN Configurations,
         LET c == Configurations[n] d == Configurations[m] IN
           /\ c.vendor = d.vendor /\ (c.psp <=> d.psp)
           /\ PcrBanks(Env(c, FALSE)) = PcrBanks(Env(d, FALSE))
  PROVE  n = m
<1> DEFINE Names8 == {"classic", "psp", "sha256", "psp-sha256", "sha384",
                     "intel", "intel-sha256", "intel-sha384"}
           B(k) == PcrBanks(Env(Configurations[k], FALSE))
           Two == <<"sha1", "sha256">>
           One == <<"sha256">>
           Three == <<"sha1", "sha256", "sha384">>
<1>1. DOMAIN Configurations = Names8
  BY DEF Configurations
<1>2. Two # One /\ Two # Three /\ One # Three /\ One # << >> /\ Three # << >>
  <2>1. Len(One) = 1 /\ Len(Two) = 2 /\ Len(Three) = 3 /\ Len(<< >>) = 0
    OBVIOUS
  <2> QED  BY <2>1
<1> DEFINE Is(k, vendor, psp, banks) ==
             LET c == Configurations[k] IN c.vendor = vendor /\ (c.psp <=> psp) /\ c.banks = banks
<1>3. /\ Is("classic", "amd", FALSE, Plain)
      /\ Is("psp", "amd", TRUE, Plain)
      /\ Is("sha256", "amd", FALSE, Sha256)
      /\ Is("psp-sha256", "amd", TRUE, Sha256)
      /\ Is("sha384", "amd", FALSE, ToSha384)
      /\ Is("intel", "intel", FALSE, Plain)
      /\ Is("intel-sha256", "intel", FALSE, Sha256)
      /\ Is("intel-sha384", "intel", FALSE, ToSha384)
  <2>1. Configurations["classic"] = Machine("amd", FALSE, Plain)
    BY Zenon DEF Configurations
  <2>2. Configurations["psp"] = Machine("amd", TRUE, Plain)
    BY Zenon DEF Configurations
  <2>3. Configurations["sha256"] = Machine("amd", FALSE, Sha256)
    BY Zenon DEF Configurations
  <2>4. Configurations["psp-sha256"] = Machine("amd", TRUE, Sha256)
    BY Zenon DEF Configurations
  <2>5. Configurations["sha384"] = Machine("amd", FALSE, ToSha384)
    BY Zenon DEF Configurations
  <2>6. Configurations["intel"] = Machine("intel", FALSE, Plain)
    BY Zenon DEF Configurations
  <2>7. Configurations["intel-sha256"] = Machine("intel", FALSE, Sha256)
    BY Zenon DEF Configurations
  <2>8. Configurations["intel-sha384"] = Machine("intel", FALSE, ToSha384)
    BY Zenon DEF Configurations
  <2> QED  BY <2>1, <2>2, <2>3, <2>4, <2>5, <2>6, <2>7, <2>8 DEF Machine
<1>a. \A k \in Names8 : Configurations[k].psp <=> k \in {"psp", "psp-sha256"}
  <2> SUFFICES ASSUME NEW k \in Names8  PROVE Configurations[k].psp <=> k \in {"psp", "psp-sha256"}
    OBVIOUS
  <2>1. CASE k \in {"psp", "psp-sha256"}
    BY <1>3, <2>1
  <2>2. CASE k \in Names8 \ {"psp", "psp-sha256"}
    BY <1>3, <2>2
  <2> QED  BY <2>1, <2>2
<1>b. \A k \in Names8 : Configurations[k].vendor =
        IF k \in {"intel", "intel-sha256", "intel-sha384"} THEN "intel" ELSE "amd"
  <2> SUFFICES ASSUME NEW k \in Names8
               PROVE  Configurations[k].vendor =
                        IF k \in {"intel", "intel-sha256", "intel-sha384"} THEN "intel" ELSE "amd"
    OBVIOUS
  <2>1. CASE k \in {"intel", "intel-sha256", "intel-sha384"}
    BY <1>3, <2>1
  <2>2. CASE k \in Names8 \ {"intel", "intel-sha256", "intel-sha384"}
    BY <1>3, <2>2
  <2> QED  BY <2>1, <2>2
<1>5. \A k \in Names8 : B(k) = IF Configurations[k].banks = << >> THEN Two ELSE Configurations[k].banks
  BY BanksFacts
<1>6. /\ Plain = << >> /\ Sha256 = One /\ ToSha384 = Three
  BY DEF Plain, Sha256, ToSha384
<1> HIDE DEF Two, One, Three, B
<1>7. /\ B("classic") = Two /\ B("psp") = Two /\ B("intel") = Two
      /\ B("sha256") = One /\ B("psp-sha256") = One /\ B("intel-sha256") = One
      /\ B("sha384") = Three /\ B("intel-sha384") = Three
  BY <1>2, <1>3, <1>5, <1>6
<1>8. B(n) = B(m)
  BY DEF B
<1>9. CASE Configurations[n].psp
  <2>1. n \in {"psp", "psp-sha256"} /\ m \in {"psp", "psp-sha256"}
    BY <1>1, <1>a, <1>9
  <2> QED  BY <1>2, <1>7, <1>8, <2>1
<1>10. CASE ~Configurations[n].psp /\ Configurations[n].vendor = "amd"
  <2>1. n \in {"classic", "sha256", "sha384"} /\ m \in {"classic", "sha256", "sha384"}
    BY <1>1, <1>a, <1>b, <1>10
  <2> QED  BY <1>2, <1>7, <1>8, <2>1
<1>11. CASE ~Configurations[n].psp /\ Configurations[n].vendor # "amd"
  <2>1. /\ n \in {"intel", "intel-sha256", "intel-sha384"}
        /\ m \in {"intel", "intel-sha256", "intel-sha384"}
    BY <1>1, <1>a, <1>b, <1>11
  <2> QED  BY <1>2, <1>7, <1>8, <2>1
<1> QED  BY <1>9, <1>10, <1>11

\* Of the environment it is started in, the session reads its cell back.
LEMMA InitEnviron == Init => EnvironInv
<1> SUFFICES ASSUME Init, NEW caller \in Callers, settings = Settings(environ), cell \in Cells,
                    environ = Environment(caller, cell.release, cell.upstream, cell.configuration)
             PROVE  EnvironInv
  BY DEF Init
<1>1. AsConfigured(settings) /\ settings = Settings(environ)
  BY InitCell
<1>2. cell.configuration \in DOMAIN Configurations
  BY CellsAssumption
<1>3. Get(environ, "DRTM_TB_RELEASE", "default") = cell.release
  <2> DEFINE mark == [x \in {"DRTM_TB_RELEASE"} |-> cell.release]
             env  == Env(Configurations[cell.configuration], cell.upstream)
             own  == Own(cell.release, cell.upstream, cell.configuration)
  <2>1. "DRTM_TB_RELEASE" \notin DOMAIN env
    BY DEF Env, Sets
  <2>2. "DRTM_TB_RELEASE" \in DOMAIN own /\ own["DRTM_TB_RELEASE"] = cell.release
    BY <2>1 DEF Own, Updated
  <2>3. "DRTM_TB_RELEASE" \in DOMAIN environ /\ environ["DRTM_TB_RELEASE"] = own["DRTM_TB_RELEASE"]
    BY <2>2, UpdatedFacts DEF Environment
  <2> QED  BY <2>2, <2>3 DEF Get
<1>4. Current(environ) = cell.configuration
  <2> DEFINE Is(name) == LET c == Configurations[name] IN
               /\ Vendor(environ) = c.vendor
               /\ PspMode(environ) # "none" <=> c.psp
               /\ PcrBanks(environ) = PcrBanks(Env(c, FALSE))
  <2>1. Is(cell.configuration)
    <3>1. PcrBanks(environ) = PcrBanks(Env(Configurations[cell.configuration], cell.upstream))
      BY <1>1 DEF AsConfigured, Settings
    <3>2. PcrBanks(environ) = PcrBanks(Env(Configurations[cell.configuration], FALSE))
      BY <3>1, BanksFacts
    <3> QED  BY <1>1, <3>2 DEF AsConfigured, Settings
  <2>2. ASSUME NEW name \in DOMAIN Configurations, Is(name)  PROVE name = cell.configuration
    BY <1>2, <2>1, <2>2, OneConfiguration
  <2>3. Current(environ) = IF \E name \in DOMAIN Configurations : Is(name)
                           THEN CHOOSE name \in DOMAIN Configurations : Is(name) ELSE "none"
    BY DEF Current
  <2> HIDE DEF Is
  <2> QED  BY <1>2, <2>1, <2>2, <2>3
<1> QED  BY <1>3, <1>4 DEF EnvironInv

RecordSet(e) == [entries : {e}, outcome : {"passed", "failed", "skipped", "xfailed", "xpassed"},
                 ok : BOOLEAN, reason : BOOLEAN]

\* What a report makes of a record is a record.
LEMMA NotedRecord ==
  ASSUME NEW e, NEW record \in RecordSet(e), NEW r \in ReportSet
  PROVE  Noted(record, r) \in RecordSet(e)
<1>0. r.outcome \in {"passed", "failed", "skipped"}
  BY DEF ReportSet
<1>1. /\ [record EXCEPT !.ok = FALSE, !.outcome = "xpassed", !.reason = TRUE] \in RecordSet(e)
      /\ [record EXCEPT !.ok = FALSE, !.outcome = "failed"] \in RecordSet(e)
      /\ [record EXCEPT !.outcome = "xfailed", !.reason = TRUE] \in RecordSet(e)
      /\ [record EXCEPT !.outcome = "skipped"] \in RecordSet(e)
      /\ [record EXCEPT !.outcome = "xpassed", !.reason = TRUE] \in RecordSet(e)
  BY DEF RecordSet
<1> QED  BY Zenon, <1>1 DEF Noted

\* A test's record after each of the reports.
LEMMA RecordSteps ==
  ASSUME reports \in Seq(ReportSet), NEW t, NEW e
  PROVE  \E f \in [0 .. Len(reports) -> RecordSet(e)] :
           /\ f[0] = Fresh(e) /\ RecordOf(reports, t, e) = f[Len(reports)]
           /\ \A i \in 1 .. Len(reports) :
                f[i] = IF reports[i].test = t THEN Noted(f[i - 1], reports[i]) ELSE f[i - 1]
<1> DEFINE n == Len(reports)
           V == RecordSet(e)
           Next1(i, v) == IF reports[i].test = t THEN Noted(v, reports[i]) ELSE v
           step == [i \in 1 .. n |-> [v \in V |-> Next1(i, v)]]
           Is(g) == g = [i \in 0 .. n |-> IF i = 0 THEN Fresh(e)
                           ELSE IF reports[i].test = t THEN Noted(g[i - 1], reports[i]) ELSE g[i - 1]]
<1>1. n \in Nat /\ \A i \in 1 .. n : reports[i] \in ReportSet
  BY LenProperties, ElementOfSeq
<1>2. Fresh(e) \in V
  BY DEF Fresh, RecordSet
<1>3. step \in StepsOf(n, V)
  BY <1>1, NotedRecord DEF StepsOf
<1> HIDE DEF V, n, step
<1>4. PICK f : f \in [0 .. n -> V] /\ Unfolds(f, n, Fresh(e), step)
  BY <1>1, <1>2, <1>3, Recursion
<1>5. \A i \in 1 .. n : i \in 0 .. n /\ i - 1 \in 0 .. n /\ i # 0
  BY <1>1
<1>6. \A i \in 1 .. n : step[i][f[i - 1]] = Next1(i, f[i - 1])
  <2>1. \A i \in 1 .. n : f[i - 1] \in V
    BY <1>4, <1>5
  <2> HIDE DEF Next1
  <2> QED  BY <2>1 DEF step
<1>7. Is(f)
  <2>1. \A i \in 0 .. n : i # 0 => i \in 1 .. n
    BY <1>1
  <2>2. \A i \in 0 .. n : f[i] = IF i = 0 THEN Fresh(e) ELSE Next1(i, f[i - 1])
    BY <1>4, <1>6, <2>1 DEF Unfolds
  <2>3. f = [i \in 0 .. n |-> f[i]]
    BY <1>4
  <2> QED  BY <2>2, <2>3
<1> DEFINE After == CHOOSE g : Is(g)
<1>8. Is(After)
  BY <1>7, Zenon
<1>9. RecordOf(reports, t, e) = After[n]
  BY Zenon DEF RecordOf, n, After
<1> HIDE DEF After
<1>10. \A i \in 0 .. n : After[i] = f[i]
  <2> DEFINE P == {i \in 0 .. n : After[i] = f[i]}
  <2>1. 0 \in P
    BY <1>1, <1>7, <1>8
  <2>2. ASSUME NEW i \in 0 .. n, i < n, i \in P  PROVE i + 1 \in P
    <3>1. i + 1 \in 0 .. n /\ i + 1 # 0 /\ (i + 1) - 1 = i
      BY <1>1, <2>2
    <3> QED  BY <1>7, <1>8, <2>2, <3>1
  <2> HIDE DEF P
  <2>3. \A i \in 0 .. n : i \in P
    BY <1>1, <2>1, <2>2, UpTo
  <2> QED  BY <2>3 DEF P
<1>11. n \in 0 .. n /\ 0 \in 0 .. n
  BY <1>1
<1>12. \A i \in 1 .. n : f[i] = Next1(i, f[i - 1])
  BY <1>5, <1>7
<1> QED  BY <1>7, <1>9, <1>10, <1>11, <1>12 DEF n, V

\* A test's outcome after each of the reports.
LEMMA OutcomeSteps ==
  ASSUME reports \in Seq(ReportSet), NEW t
  PROVE  \E f \in [0 .. Len(reports) -> {"passed", "failed", "skipped"}] :
           /\ f[0] = "passed" /\ OutcomeOf(reports, t) = f[Len(reports)]
           /\ \A i \in 1 .. Len(reports) :
                f[i] = IF reports[i].test = t THEN Collapsed(f[i - 1], reports[i]) ELSE f[i - 1]
<1> DEFINE n == Len(reports)
           V == {"passed", "failed", "skipped"}
           Next1(i, v) == IF reports[i].test = t THEN Collapsed(v, reports[i]) ELSE v
           step == [i \in 1 .. n |-> [v \in V |-> Next1(i, v)]]
           Is(g) == g = [i \in 0 .. n |-> IF i = 0 THEN "passed"
                           ELSE IF reports[i].test = t THEN Collapsed(g[i - 1], reports[i]) ELSE g[i - 1]]
<1>1. n \in Nat /\ \A i \in 1 .. n : reports[i] \in ReportSet
  BY LenProperties, ElementOfSeq
<1>2. "passed" \in V
  OBVIOUS
<1>3. step \in StepsOf(n, V)
  BY <1>1 DEF StepsOf, Collapsed, ReportSet
<1> HIDE DEF V, n, step
<1>4. PICK f : f \in [0 .. n -> V] /\ Unfolds(f, n, "passed", step)
  BY <1>1, <1>2, <1>3, Recursion
<1>5. \A i \in 1 .. n : i \in 0 .. n /\ i - 1 \in 0 .. n /\ i # 0
  BY <1>1
<1>6. \A i \in 1 .. n : step[i][f[i - 1]] = Next1(i, f[i - 1])
  <2>1. \A i \in 1 .. n : f[i - 1] \in V
    BY <1>4, <1>5
  <2> HIDE DEF Next1
  <2> QED  BY <2>1 DEF step
<1>7. Is(f)
  <2>1. \A i \in 0 .. n : i # 0 => i \in 1 .. n
    BY <1>1
  <2>2. \A i \in 0 .. n : f[i] = IF i = 0 THEN "passed" ELSE Next1(i, f[i - 1])
    BY <1>4, <1>6, <2>1 DEF Unfolds
  <2>3. f = [i \in 0 .. n |-> f[i]]
    BY <1>4
  <2> QED  BY <2>2, <2>3
<1> DEFINE After == CHOOSE g : Is(g)
<1>8. Is(After)
  BY <1>7, Zenon
<1>9. OutcomeOf(reports, t) = After[n]
  BY Zenon DEF OutcomeOf, n, After
<1> HIDE DEF After
<1>10. \A i \in 0 .. n : After[i] = f[i]
  <2> DEFINE P == {i \in 0 .. n : After[i] = f[i]}
  <2>1. 0 \in P
    BY <1>1, <1>7, <1>8
  <2>2. ASSUME NEW i \in 0 .. n, i < n, i \in P  PROVE i + 1 \in P
    <3>1. i + 1 \in 0 .. n /\ i + 1 # 0 /\ (i + 1) - 1 = i
      BY <1>1, <2>2
    <3> QED  BY <1>7, <1>8, <2>2, <3>1
  <2> HIDE DEF P
  <2>3. \A i \in 0 .. n : i \in P
    BY <1>1, <2>1, <2>2, UpTo
  <2> QED  BY <2>3 DEF P
<1>11. n \in 0 .. n /\ 0 \in 0 .. n
  BY <1>1
<1>12. \A i \in 1 .. n : f[i] = Next1(i, f[i - 1])
  BY <1>5, <1>7
<1>13. f[0] = "passed" /\ OutcomeOf(reports, t) = f[n]
  BY <1>7, <1>9, <1>10, <1>11
<1>14. f \in [0 .. n -> V]
  BY <1>4
<1> QED  BY <1>12, <1>13, <1>14 DEF n, V

\* A phase of t was not passed, or failed, or its teardown was skipped, among the
\* first i reports.
Amiss(t, i)   == \E j \in 1 .. i : reports[j].test = t /\ reports[j].outcome # "passed"
Counted(t, i) == \E j \in 1 .. i : reports[j].test = t /\ reports[j].outcome = "failed"
Late(t, i)    == \E j \in 1 .. i : /\ reports[j].test = t
                                   /\ reports[j].when = "teardown" /\ reports[j].outcome = "skipped"

\* What one report more says of a test.
LEMMA OneReport ==
  ASSUME reports \in Seq(ReportSet), ReportsInv, NEW t \in DOMAIN Tests, NEW i \in 1 .. Len(reports)
  PROVE  LET r == reports[i] mine1 == reports[i].test = t IN
         /\ Counted(t, i) <=> Counted(t, i - 1) \/ (mine1 /\ r.outcome = "failed")
         /\ Late(t, i) <=> Late(t, i - 1) \/ (mine1 /\ r.when = "teardown" /\ r.outcome = "skipped")
         /\ mine1 /\ Counted(t, i - 1) => r.when = "teardown"
         /\ mine1 => Expected(r) /\ r.test = t
         /\ r \in ReportSet
<1>1. Len(reports) \in Nat /\ DOMAIN reports = 1 .. Len(reports)
  BY LenProperties
<1>2. i \in Nat /\ i \in 1 .. i /\ (\A j \in 1 .. i : j = i \/ j \in 1 .. i - 1)
      /\ \A j \in 1 .. i - 1 : j \in 1 .. i /\ j < i /\ j \in DOMAIN reports
  BY <1>1
<1>3. reports[i].test = t /\ Counted(t, i - 1) => reports[i].when = "teardown"
  BY <1>1, <1>2 DEF Counted, ReportsInv
<1>4. reports[i] \in ReportSet
  BY <1>1, ElementOfSeq
<1>5. reports[i].test = t => Expected(reports[i])
  BY <1>1 DEF ReportsInv
<1> QED  BY <1>2, <1>3, <1>4, <1>5 DEF Counted, Late

\* The line in results.txt is "failed" for no test but one pytest counted as
\* failed, and for each of those unless its teardown was skipped.
LEMMA OutcomeTells ==
  ASSUME reports \in Seq(ReportSet), ReportsInv, NEW t \in DOMAIN Tests
  PROVE  LET line == OutcomeOf(reports, t) n == Len(reports) IN
         /\ line = "failed" => Counted(t, n)
         /\ Counted(t, n) /\ ~Late(t, n) => line = "failed"
<1> DEFINE n == Len(reports)
<1>1. PICK f \in [0 .. n -> {"passed", "failed", "skipped"}] :
           /\ f[0] = "passed" /\ OutcomeOf(reports, t) = f[n]
           /\ \A i \in 1 .. n :
                f[i] = IF reports[i].test = t THEN Collapsed(f[i - 1], reports[i]) ELSE f[i - 1]
  BY OutcomeSteps
<1> DEFINE Stands(i) == (f[i] = "failed" => Counted(t, i)) /\ (Counted(t, i) /\ ~Late(t, i) => f[i] = "failed")
           P == {i \in 0 .. n : Stands(i)}
<1>2. n \in Nat
  BY LenProperties
<1>3. 0 \in P
  BY <1>1, <1>2 DEF Counted
<1>4. ASSUME NEW i \in 0 .. n, i < n, i \in P  PROVE i + 1 \in P
  <2>1. i + 1 \in 1 .. n /\ (i + 1) - 1 = i
    BY <1>2, <1>4
  <2>2. f[i + 1] = IF reports[i + 1].test = t THEN Collapsed(f[i], reports[i + 1]) ELSE f[i]
    BY <1>1, <2>1
  <2> DEFINE r == reports[i + 1]
  <2>3. /\ Counted(t, i + 1) <=> Counted(t, i) \/ (r.test = t /\ r.outcome = "failed")
        /\ Late(t, i + 1) <=> Late(t, i) \/ (r.test = t /\ r.when = "teardown" /\ r.outcome = "skipped")
        /\ r.test = t /\ Counted(t, i) => r.when = "teardown"
        /\ r.outcome \in {"passed", "failed", "skipped"}
    BY <2>1, OneReport DEF ReportSet
  <2> HIDE DEF r
  <2>4. Stands(i + 1)
    BY <1>4, <2>2, <2>3 DEF Collapsed, r
  <2> QED  BY <2>1, <2>4
<1> HIDE DEF P
<1>5. n \in P
  <2>1. \A i \in 0 .. n : i \in P
    BY <1>2, <1>3, <1>4, UpTo
  <2> QED  BY <1>2, <2>1
<1> QED  BY <1>1, <1>5 DEF P

\* The record in results.json is not ok when pytest counted a phase as failed; it
\* says failed or xpassed of no other test, and of each such test unless its
\* teardown was skipped; it has a reason when an expectation decided; and what is
\* failed is not ok, and what passed or was skipped is.
LEMMA RecordTells ==
  ASSUME reports \in Seq(ReportSet), ReportsInv, NEW t \in DOMAIN Tests, NEW e
  PROVE  LET record == RecordOf(reports, t, e) n == Len(reports) IN
         /\ ~record.ok <=> Counted(t, n)
         /\ record.outcome \in {"failed", "xpassed"} => Counted(t, n)
         /\ Counted(t, n) /\ ~Late(t, n) => record.outcome \in {"failed", "xpassed"}
         /\ record.outcome \in {"xfailed", "xpassed"} <=> record.reason
         /\ record.outcome \in {"passed", "skipped"} => record.ok
         /\ record \in RecordSet(e)
<1> DEFINE n == Len(reports)
<1>1. PICK f \in [0 .. n -> RecordSet(e)] :
           /\ f[0] = Fresh(e) /\ RecordOf(reports, t, e) = f[n]
           /\ \A i \in 1 .. n :
                f[i] = IF reports[i].test = t THEN Noted(f[i - 1], reports[i]) ELSE f[i - 1]
  BY RecordSteps
<1> DEFINE Stands(record, i) ==
             /\ ~record.ok <=> Counted(t, i)
             /\ record.outcome \in {"failed", "xpassed"} => Counted(t, i)
             /\ Counted(t, i) /\ ~Late(t, i) => record.outcome \in {"failed", "xpassed"}
             /\ record.outcome \in {"xfailed", "xpassed"} <=> record.reason
             /\ record.reason => Tests[t].marked
             /\ record.outcome \in {"passed", "skipped"} => record.ok
           P == {i \in 0 .. n : Stands(f[i], i)}
<1>2. n \in Nat
  BY LenProperties
<1>3. 0 \in P
  BY <1>1, <1>2 DEF Counted, Fresh
<1>4. ASSUME NEW i \in 0 .. n, i < n, i \in P  PROVE i + 1 \in P
  <2>1. i + 1 \in 1 .. n /\ (i + 1) - 1 = i
    BY <1>2, <1>4
  <2> DEFINE r == reports[i + 1]
             record == f[i]
  <2>2. f[i + 1] = IF r.test = t THEN Noted(record, r) ELSE record
    BY <1>1, <2>1
  <2>3. /\ Counted(t, i + 1) <=> Counted(t, i) \/ (r.test = t /\ r.outcome = "failed")
        /\ Late(t, i + 1) <=> Late(t, i) \/ (r.test = t /\ r.when = "teardown" /\ r.outcome = "skipped")
        /\ r.test = t /\ Counted(t, i) => r.when = "teardown"
        /\ r.test = t => Expected(r)
        /\ r \in ReportSet
    BY <2>1, OneReport
  <2>4. record \in RecordSet(e) /\ Stands(record, i)
    BY <1>4
  <2> HIDE DEF r, record
  <2>5. ASSUME r.test = t  PROVE Stands(Noted(record, r), i + 1)
    <3>1. CASE r.outcome = "failed" /\ r.strict
      <4>1. Noted(record, r) = [record EXCEPT !.ok = FALSE, !.outcome = "xpassed", !.reason = TRUE]
        BY Zenon, <3>1 DEF Noted
      <4>2. Tests[t].marked
        BY <2>3, <2>5, <3>1 DEF Expected
      <4>3. /\ ~Noted(record, r).ok /\ Noted(record, r).outcome = "xpassed" /\ Noted(record, r).reason
        BY <2>4, <4>1 DEF RecordSet
      <4> QED  BY <2>3, <2>5, <3>1, <4>2, <4>3
    <3>2. CASE r.outcome = "failed" /\ ~r.strict
      <4>1. Noted(record, r) = [record EXCEPT !.ok = FALSE, !.outcome = "failed"]
        BY Zenon, <3>2 DEF Noted
      <4>2. ~Tests[t].marked
        BY <2>3, <2>5, <3>2, TestFacts DEF Expected, ReportSet
      <4>3. ~Noted(record, r).ok /\ Noted(record, r).outcome = "failed" /\ Noted(record, r).reason = record.reason
        BY <2>4, <4>1 DEF RecordSet
      <4> QED  BY <2>3, <2>4, <2>5, <3>2, <4>2, <4>3
    <3>3. CASE r.outcome = "skipped"
      <4>1. Counted(t, i + 1) => Counted(t, i) /\ Late(t, i + 1)
        BY <2>3, <2>5, <3>3
      <4>2. CASE r.wasxfail
        <5>1. Noted(record, r) = [record EXCEPT !.outcome = "xfailed", !.reason = TRUE]
          BY Zenon, <3>3, <4>2 DEF Noted
        <5>2. /\ Noted(record, r).ok = record.ok
              /\ Noted(record, r).outcome = "xfailed" /\ Noted(record, r).reason
          BY <2>4, <5>1 DEF RecordSet
        <5> QED  BY <2>3, <2>4, <2>5, <3>3, <4>1, <4>2, <5>2 DEF Expected
      <4>3. CASE ~r.wasxfail /\ record.outcome = "passed"
        <5>1. Noted(record, r) = [record EXCEPT !.outcome = "skipped"]
          BY Zenon, <3>3, <4>3 DEF Noted
        <5>2. /\ Noted(record, r).ok = record.ok
              /\ Noted(record, r).outcome = "skipped" /\ Noted(record, r).reason = record.reason
          BY <2>4, <5>1 DEF RecordSet
        <5> QED  BY <2>3, <2>4, <2>5, <3>3, <4>1, <4>3, <5>2
      <4>4. CASE ~r.wasxfail /\ record.outcome # "passed"
        <5>1. Noted(record, r) = record
          BY Zenon, <3>3, <4>4 DEF Noted
        <5> QED  BY <2>3, <2>4, <2>5, <3>3, <4>1, <5>1
      <4> QED  BY <4>2, <4>3, <4>4
    <3>4. CASE r.outcome = "passed"
      <4>1. ~r.wasxfail
        BY <2>3, <2>5, <3>4 DEF Expected
      <4>2. Noted(record, r) = record
        BY Zenon, <3>4, <4>1 DEF Noted
      <4> QED  BY <2>3, <2>4, <2>5, <3>4, <4>2
    <3> QED  BY <2>3, <3>1, <3>2, <3>3, <3>4 DEF ReportSet
  <2>6. Stands(f[i + 1], i + 1)
    BY <2>2, <2>3, <2>4, <2>5
  <2> QED  BY <2>1, <2>6
<1> HIDE DEF P
<1>5. n \in P /\ n \in 0 .. n
  <2>1. \A i \in 0 .. n : i \in P
    BY <1>2, <1>3, <1>4, UpTo
  <2> QED  BY <1>2, <2>1
<1> QED  BY <1>1, <1>5 DEF P

\* What pytest reports of a phase is expected: a test that is not marked fails
\* when it raises, and a marked one is excused.
LEMMA ReportsExpected ==
  ASSUME test \in DOMAIN Tests, NEW when
  PROVE  /\ Expected(Raised(when)) /\ Expected(Passed(when))
         /\ Expected(Skipped(when))
         /\ when # "call" => Passed(when).outcome = "passed"
<1>1. Tests[test].marked \in BOOLEAN
  BY TestFacts
<1>2. \A o \in {"passed", "failed", "skipped"}, w \in BOOLEAN, s \in BOOLEAN :
        /\ TestReport(test, when, o, w, s).test = test
        /\ TestReport(test, when, o, w, s).outcome = o
        /\ TestReport(test, when, o, w, s).wasxfail = w
        /\ TestReport(test, when, o, w, s).strict = s
  BY DEF TestReport
<1>3. Expected(Skipped(when))
  BY <1>2 DEF Expected, Skipped
<1>4. CASE Tests[test].marked
  <2>1. Raised(when) = TestReport(test, when, "skipped", TRUE, FALSE)
    BY <1>4, <1>1 DEF Raised
  <2>2. Expected(Raised(when)) /\ Raised(when).outcome = "skipped"
    BY <1>2, <1>4, <2>1 DEF Expected
  <2>3. Expected(Passed(when)) /\ (when # "call" => Passed(when).outcome = "passed")
    <3>1. CASE when = "call"
      <4>1. Passed(when) = TestReport(test, when, "failed", FALSE, TRUE)
        BY <1>4, <3>1 DEF Passed
      <4> DEFINE r == TestReport(test, when, "failed", FALSE, TRUE)
      <4>2. r.test = test /\ r.outcome = "failed" /\ ~r.wasxfail /\ r.strict
        BY DEF TestReport
      <4>3. r.strict = Tests[test].marked
        BY <1>4 DEF TestReport
      <4> HIDE DEF r
      <4>4. Expected(r)
        BY <4>2, <4>3 DEF Expected
      <4> QED  BY <3>1, <4>1, <4>4 DEF r
    <3>2. CASE when # "call"
      <4>1. Passed(when) = TestReport(test, when, "passed", FALSE, FALSE)
        BY <3>2 DEF Passed
      <4> QED  BY <1>2, <4>1 DEF Expected
    <3> QED  BY <3>1, <3>2
  <2> QED  BY <1>3, <1>4, <2>2, <2>3
<1>5. CASE ~Tests[test].marked
  <2>1. Raised(when) = TestReport(test, when, "failed", FALSE, FALSE)
    BY <1>5, <1>1 DEF Raised
  <2>2. Expected(Raised(when)) /\ Raised(when).outcome = "failed"
    BY ZenonT(30), <1>1, <1>2, <1>5, <2>1 DEF Expected
  <2>3. Passed(when) = TestReport(test, when, "passed", FALSE, FALSE)
    BY <1>5 DEF Passed
  <2>4. Expected(Passed(when)) /\ Passed(when).outcome = "passed"
    BY <1>2, <2>3 DEF Expected
  <2> QED  BY <1>3, <1>5, <2>2, <2>4
<1> QED  BY <1>1, <1>4, <1>5

\* A report that fits what was reported of its test before.
LEMMA ReportAdded ==
  ASSUME IInv, ReportsInv, main = "tests", NEW r \in ReportSet, r.test = test, Expected(r),
         reports' = Append(reports, r),
         phase # "teardown" \/ r.when = "teardown",
         \/ phase' = "teardown" \/ test' = test + 1
         \/ phase = "setup" /\ test' = test /\ r.outcome = "passed"
  PROVE  ReportsInv'
<1>0. reports \in Seq(ReportSet) /\ test \in Nat /\ phase \in Phases
  BY DEF IInv, MainInv
<1> DEFINE n == Len(reports)
<1>1. /\ n \in Nat /\ DOMAIN reports = 1 .. n /\ DOMAIN reports' = 1 .. n + 1
      /\ \A i \in 1 .. n : reports'[i] = reports[i]
      /\ reports'[n + 1] = r
  <2>1. Len(reports') = n + 1 /\ reports' \in Seq(ReportSet)
    BY <1>0, AppendProperties
  <2> QED  BY <1>0, <2>1, AppendProperties, LenProperties
<1>2. \A i \in 1 .. n + 1 : i \in 1 .. n \/ i = n + 1
  BY <1>1
<1>3. \A i \in DOMAIN reports : reports[i].test <= test /\ reports[i].test \in Nat
  <2> SUFFICES ASSUME NEW i \in DOMAIN reports  PROVE reports[i].test <= test /\ reports[i].test \in Nat
    OBVIOUS
  <2>1. reports[i] \in ToSet(reports)
    BY DEF ToSet
  <2> QED  BY <1>0, <2>1, ReportOf DEF IInv, TestInv
<1>4. \A i \in DOMAIN reports' : Expected(reports'[i])
  BY <1>1, <1>2 DEF ReportsInv
<1>5. ASSUME NEW i \in DOMAIN reports', NEW j \in DOMAIN reports', i < j,
             reports'[i].test = reports'[j].test, reports'[i].outcome # "passed"
      PROVE  reports'[j].when = "teardown"
  <2>1. i \in 1 .. n
    BY <1>1, <1>5
  <2>2. CASE j \in 1 .. n
    BY <1>1, <1>5, <2>1, <2>2 DEF ReportsInv
  <2>3. CASE j = n + 1
    <3>1. reports[i].test = test /\ reports[i].outcome # "passed" /\ reports'[j] = r
      BY <1>1, <1>5, <2>1, <2>3
    <3>2. phase = "teardown"
      BY <1>1, <2>1, <3>1 DEF ReportsInv
    <3> QED  BY <3>1, <3>2
  <2> QED  BY <1>1, <1>2, <2>2, <2>3
<1>6. ASSUME phase' # "teardown", NEW i \in DOMAIN reports', reports'[i].test = test'
      PROVE  reports'[i].outcome = "passed"
  <2>1. CASE test' = test + 1
    <3>1. reports'[i].test <= test /\ reports'[i].test \in Nat
      BY <1>0, <1>1, <1>2, <1>3
    <3> QED  BY <1>0, <1>6, <2>1, <3>1
  <2>2. CASE phase = "setup" /\ test' = test /\ r.outcome = "passed"
    BY <1>1, <1>2, <1>6, <2>2 DEF ReportsInv
  <2> QED  BY <1>6, <2>1, <2>2
<1> QED  BY <1>4, <1>5, <1>6 DEF ReportsInv, Expected

\* Which steps report.
LEMMA WhoReports ==
  ASSUME [Next]_vars
  PROVE  \/ UNCHANGED <<reports, phase, test>>
         \/ FixtureCached \/ SkipTest \/ SetupPasses \/ CallTest \/ Teardown
BY DEF Next, vars, MainThread, Unsupported, Collect, PrepareFails, Submit,
       BootInline, Booted, BootedExits, Backstop, Shutdown, Drain,
       WriteResults, Interrupt, RenderPage, BeginBoot, Thread, Begins, LockDir, MakeDir, KeepDir, RunBoot,
       EndBoot, OtherSession, Finished, CutShort, MainFrame, TestFrame, PoolFrame, DirFrame, testVars

\* The reports stay what pytest's protocol makes them.
LEMMA ReportsStep ==
  ASSUME IInv, ReportsInv, [Next]_vars  PROVE ReportsInv'
<1>0. main = "tests" => test \in DOMAIN Tests
  BY DEF IInv, TestInv
<1>1. CASE UNCHANGED <<reports, phase, test>>
  BY <1>1 DEF ReportsInv, Expected
<1>2. CASE FixtureCached
  <2>1. main = "tests" /\ phase = "setup" /\ (UNCHANGED <<reports, phase, test>> \/
          (Reported(Raised("setup"), "teardown") /\ test' = test))
    BY <1>2 DEF FixtureCached, Setting
  <2>2. CASE Reported(Raised("setup"), "teardown")
    BY <1>0, <2>1, <2>2, ReportAdded, ReportFacts, ReportsExpected DEF Reported, Phases
  <2> QED  BY <1>1, <2>1, <2>2
<1>3. CASE SetupPasses
  <2>1. main = "tests" /\ phase = "setup" /\ Reported(Passed("setup"), "call") /\ test' = test
    BY <1>3 DEF SetupPasses
  <2>2. Passed("setup").outcome = "passed" /\ Expected(Passed("setup"))
    BY <1>0, <2>1, ReportsExpected
  <2>3. Passed("setup") \in ReportSet /\ Passed("setup").test = test
    BY <1>0, <2>1, ReportFacts DEF Phases
  <2> QED  BY <2>1, <2>2, <2>3, ReportAdded DEF Reported
<1>4. CASE CallTest
  <2>1. main = "tests" /\ phase = "call" /\ test' = test
    BY <1>4 DEF CallTest
  <2>2. PICK r \in {Passed("call"), Raised("call"), Skipped("call")} :
          Reported(r, "teardown")
    BY <1>4 DEF CallTest
  <2>3. r \in ReportSet /\ r.test = test /\ Expected(r)
    BY <1>0, <2>1, ReportFacts, ReportsExpected DEF Phases
  <2> QED  BY <2>1, <2>2, <2>3, ReportAdded DEF Reported
<1>5. CASE Teardown
  <2>1. main = "tests" /\ phase = "teardown" /\ test' = test + 1
    BY <1>5 DEF Teardown
  <2>2. PICK r \in {Passed("teardown"), Raised("teardown"), Skipped("teardown")} : Reported(r, "setup")
    BY <1>5 DEF Teardown
  <2>3. r \in ReportSet /\ r.test = test /\ r.when = "teardown" /\ Expected(r)
    BY <1>0, <2>1, <2>2, ReportFacts, ReportsExpected DEF Phases
  <2> QED  BY <2>1, <2>2, <2>3, ReportAdded DEF Reported
<1>6. CASE SkipTest
  <2>1. main = "tests" /\ phase = "setup" /\ Reported(Skipped("setup"), "teardown") /\ test' = test
    BY <1>6 DEF SkipTest
  <2>2. Skipped("setup") \in ReportSet /\ Skipped("setup").test = test /\ Expected(Skipped("setup"))
    BY <1>0, <2>1, ReportFacts, ReportsExpected DEF Phases
  <2> QED  BY <2>1, <2>2, ReportAdded DEF Reported
<1> QED  BY <1>1, <1>2, <1>3, <1>4, <1>5, <1>6, WhoReports

\* The results, when they are written, tell the run.
LEMMA Told ==
  ASSUME IInv, TellInv, WriteResults  PROVE ResultsTellTheRun'
<1>0. reports \in Seq(ReportSet) /\ EnvironInv /\ ReportsInv
  BY DEF IInv, MainInv, TellInv
<1>1. UNCHANGED <<reports, cut, cell>> /\ results' = IF at[Main] = "has" THEN Results ELSE Nothing
  BY DEF WriteResults, MainFrame, cellVars
<1> SUFFICES ASSUME results' # Nothing, results' = Results  PROVE ResultsTellTheRun'
  BY <1>1 DEF ResultsTellTheRun
<1>2. ASSUME ~cut  PROVE Results.release = cell.release /\ Results.configuration = cell.configuration
  <2>1. Live = environ
    BY <1>2 DEF TellInv, Live, WriteResults
  <2> QED  BY <1>0, <2>1 DEF Results, EnvironInv
<1>3. ASSUME NEW t \in Tested(reports)
      PROVE  LET record == Results.tests[t] line == Results.lines[t]
                 counted == Failed(Of(reports, t)) IN
             /\ ~record.ok <=> counted
             /\ record.outcome \in {"failed", "xpassed"} \/ line = "failed" => counted
             /\ counted /\ ~LateSkip(t) => record.outcome \in {"failed", "xpassed"} /\ line = "failed"
             /\ record.outcome \in {"xfailed", "xpassed"} <=> record.reason
  <2>1. t \in DOMAIN Tests
    BY <1>0, ReportOf DEF Tested
  <2>2. /\ Results.lines[t] = OutcomeOf(reports, t)
        /\ Results.tests[t] = RecordOf(reports, t, Entries[t])
    BY DEF Results, OutcomePerTest, Records
  <2>3. /\ Failed(Of(reports, t)) <=> Counted(t, Len(reports))
        /\ LateSkip(t) <=> Late(t, Len(reports))
    <3>1. DOMAIN reports = 1 .. Len(reports)
      BY <1>0, LenProperties
    <3> QED  BY <3>1 DEF Failed, LateSkip, Of, Counted, Late, ToSet
  <2> QED  BY <1>0, <2>1, <2>2, <2>3, OutcomeTells, RecordTells
<1>4. \A t \in Tested(reports) : /\ Failed(Of(reports, t))' = Failed(Of(reports, t))
                                 /\ LateSkip(t)' = LateSkip(t)
  BY <1>1 DEF Failed, LateSkip, Of
<1> QED  BY <1>1, <1>2, <1>3, <1>4 DEF ResultsTellTheRun, Tested

\* What is told stays told.
LEMMA TellStep ==
  ASSUME IInv, TellInv, [Next]_vars  PROVE TellInv'
<1>1. ReportsInv'
  BY ReportsStep DEF TellInv
<1>2. UNCHANGED <<cell, environ>>
  BY DEF Next, vars, MainThread, Unsupported, Collect, PrepareFails, Submit, FixtureCached,
         BootInline, Booted, BootedExits, Backstop, SkipTest, SetupPasses, CallTest, Teardown, Shutdown,
         Drain, WriteResults, Interrupt, RenderPage, BeginBoot, Thread, Begins, LockDir, MakeDir, KeepDir, RunBoot,
         EndBoot, OtherSession, Finished, CutShort, MainFrame, TestFrame, PoolFrame, DirFrame, cellVars
<1>3. EnvironInv'
  BY <1>2 DEF TellInv, EnvironInv
<1>4. patched' /\ ~cut' => main' = "tests"
  BY DEF TellInv, Next, vars, MainThread, Unsupported, Collect, PrepareFails, Submit, FixtureCached,
         BootInline, Booted, BootedExits, Backstop, SkipTest, SetupPasses, CallTest, Teardown, Shutdown,
         Drain, WriteResults, Interrupt, RenderPage, BeginBoot, Thread, Begins, LockDir, MakeDir, KeepDir, RunBoot,
         EndBoot, OtherSession, Finished, CutShort, MainFrame, TestFrame, PoolFrame, DirFrame, testVars, Setting
<1>5. ResultsTellTheRun'
  <2>1. CASE WriteResults
    BY <2>1, Told
  <2>2. CASE ~WriteResults /\ main = "over"
    <3>1. UNCHANGED <<reports, cut, results>>
      BY <2>2 DEF Next, vars, MainThread, Unsupported, Collect, PrepareFails, Submit, FixtureCached,
         BootInline, Booted, BootedExits, Backstop, SkipTest, SetupPasses, CallTest, Teardown, Shutdown,
         Drain, Interrupt, RenderPage, BeginBoot, Thread, Begins, LockDir, MakeDir, KeepDir, RunBoot, EndBoot,
         OtherSession, Finished, CutShort, MainFrame, TestFrame, PoolFrame, DirFrame, testVars, toldVars,
         Setting
    <3> QED  BY <1>2, <3>1 DEF TellInv, ResultsTellTheRun, Failed, LateSkip, Of, Tested
  <2>3. CASE ~WriteResults /\ main # "over"
    <3>1. results' = results
      BY <2>3 DEF Next, vars, MainThread, Unsupported, Collect, PrepareFails, Submit, FixtureCached,
         BootInline, Booted, BootedExits, Backstop, SkipTest, SetupPasses, CallTest, Teardown, Shutdown,
         Drain, Interrupt, RenderPage, BeginBoot, Thread, Begins, LockDir, MakeDir, KeepDir, RunBoot, EndBoot,
         OtherSession, Finished, CutShort, MainFrame, TestFrame, PoolFrame, DirFrame, toldVars
    <3>2. results = Nothing
      BY <2>3 DEF IInv, TestInv
    <3> QED  BY <3>1, <3>2 DEF ResultsTellTheRun
  <2> QED  BY <2>1, <2>2, <2>3
<1> QED  BY <1>1, <1>3, <1>4, <1>5 DEF TellInv

\* A session that starts has nothing to tell.
LEMMA InitTell == Init => TellInv
<1> SUFFICES ASSUME Init  PROVE TellInv
  OBVIOUS
<1>1. DOMAIN reports = {}
  BY DEF Init
<1> QED  BY <1>1, InitEnviron DEF Init, TellInv, ReportsInv, ResultsTellTheRun

-----------------------------------------------------------------------------
(* The page.                                                               *)

\* A sequence has finitely many elements.
LEMMA SeqFinite ==
  ASSUME NEW S, NEW s \in Seq(S)  PROVE IsFiniteSet(ToSet(s))
<1> DEFINE f == [i \in 1 .. Len(s) |-> s[i]]
<1>1. Len(s) \in Nat /\ DOMAIN s = 1 .. Len(s)
  BY LenProperties
<1>2. IsFiniteSet(1 .. Len(s))
  BY <1>1, FS_Interval
<1>3. f \in Surjection(1 .. Len(s), ToSet(s))
  BY <1>1 DEF Surjection, ToSet
<1> QED  BY <1>2, <1>3, FS_Surjection

\* The result taken of a cell is one of those there are.
LEMMA LastOf ==
  ASSUME NEW S, NEW all \in Seq(S), NEW x \in ToSet(all)
  PROVE  LET last == LastIn(all, Configuration(x), x.release) IN
         last \in ToSet(all) /\ last.release = x.release
<1> DEFINE I == {i \in 1 .. Len(all) : Configuration(all[i]) = Configuration(x) /\ all[i].release = x.release}
<1>1. Len(all) \in Nat /\ DOMAIN all = 1 .. Len(all)
  BY LenProperties
<1>2. I # {} /\ I \subseteq 0 .. Len(all)
  BY <1>1 DEF ToSet
<1>3. \E i \in I : \A j \in I : i >= j
  <2>1. PICK i \in I : \A j \in I : j <= i
    BY <1>1, <1>2, Greatest
  <2> QED  BY <1>2, <2>1
<1>4. Max(I) \in I
  <2> HIDE DEF I
  <2> QED  BY <1>3 DEF Max
<1>5. LastIn(all, Configuration(x), x.release) = all[IF I # {} THEN Max(I) ELSE 0]
  BY Zenon DEF LastIn, SelectLastInSeq, I
<1>6. LastIn(all, Configuration(x), x.release) = all[Max(I)] /\ Max(I) \in DOMAIN all
  BY <1>1, <1>2, <1>4, <1>5
<1> QED  BY <1>4, <1>6 DEF ToSet

\* The cells are finitely many, and hold results there are.
LEMMA CellsFacts ==
  ASSUME NEW S, NEW all \in Seq(S)
  PROVE  LET by == ByConfiguration(all) IN
         /\ IsFiniteSet(DOMAIN by)
         /\ \A c \in DOMAIN by : \A r \in DOMAIN by[c] : by[c][r] \in ToSet(all) /\ by[c][r].release = r
<1> DEFINE by == ByConfiguration(all)
           f == [x \in ToSet(all) |-> Configuration(x)]
<1>1. DOMAIN by = {Configuration(x) : x \in ToSet(all)}
  BY DEF ByConfiguration
<1>2. f \in Surjection(ToSet(all), DOMAIN by)
  BY <1>1 DEF Surjection
<1>3. IsFiniteSet(DOMAIN by)
  BY <1>2, SeqFinite, FS_Surjection
<1>4. ASSUME NEW c \in DOMAIN by, NEW r \in DOMAIN by[c]
      PROVE  by[c][r] \in ToSet(all) /\ by[c][r].release = r
  <2>1. by[c] = [release \in {x.release : x \in {y \in ToSet(all) : Configuration(y) = c}} |->
                   LastIn(all, c, release)]
    BY <1>1 DEF ByConfiguration
  <2>2. PICK x \in ToSet(all) : Configuration(x) = c /\ x.release = r
    BY <1>4, <2>1
  <2>3. by[c][r] = LastIn(all, c, r)
    BY <1>4, <2>1
  <2> QED  BY <2>2, <2>3, LastOf
<1> QED  BY <1>3, <1>4

\* A badge is red for what is missing, and for what was not ok; a note counts
\* what came to an outcome.
NotOk(result) == \E t \in DOMAIN result.tests : ~result.tests[t].ok
Came(result, outcomes) == \E t \in DOMAIN result.tests : result.tests[t].outcome \in outcomes

\* A release's badge is red exactly when some configuration has no result of it, or
\* one with a test that was not ok.
LEMMA BadgeTells ==
  ASSUME NEW by, NEW r, IsFiniteSet(DOMAIN by),
         \A c \in DOMAIN by : r \in DOMAIN by[c] => Written(by[c][r])
  PROVE  Badge(r, by).color = "red" <=> \E c \in DOMAIN by : r \notin DOMAIN by[c] \/ NotOk(by[c][r])
<1> DEFINE T(c)   == TestsIn(by[c], r)
           not    == Those(r, by, FALSE)
           missing == {c \in DOMAIN by : r \notin DOMAIN by[c]}
           Bad(c) == {c} \X {t \in DOMAIN T(c) : T(c)[t].ok = FALSE}
<1>1. \A c \in DOMAIN by : IF r \in DOMAIN by[c] THEN T(c) = by[c][r].tests ELSE DOMAIN T(c) = {}
  BY DEF TestsIn
<1>2. not = UNION {Bad(c) : c \in DOMAIN by}
  BY DEF Those
<1>3. IsFiniteSet(not)
  <2> DEFINE f == [c \in DOMAIN by |-> Bad(c)]
  <2>1. f \in Surjection(DOMAIN by, {Bad(c) : c \in DOMAIN by})
    BY DEF Surjection
  <2>2. IsFiniteSet({Bad(c) : c \in DOMAIN by})
    BY <2>1, FS_Surjection
  <2>3. ASSUME NEW c \in DOMAIN by  PROVE IsFiniteSet(Bad(c))
    <3>1. IsFiniteSet(DOMAIN T(c))
      BY <1>1, FS_EmptySet DEF Written
    <3>2. {t \in DOMAIN T(c) : T(c)[t].ok = FALSE} \in SUBSET DOMAIN T(c)
      OBVIOUS
    <3>3. IsFiniteSet({t \in DOMAIN T(c) : T(c)[t].ok = FALSE}) /\ IsFiniteSet({c})
      BY <3>1, <3>2, FS_Subset, FS_Singleton
    <3> QED  BY <3>3, FS_Product
  <2> HIDE DEF Bad
  <2> QED  BY <1>2, <2>2, <2>3, FS_UNION
<1>4. IsFiniteSet(missing)
  <2>1. missing \in SUBSET DOMAIN by
    OBVIOUS
  <2> QED  BY <2>1, FS_Subset
<1>5. not # {} <=> \E c \in DOMAIN by : r \in DOMAIN by[c] /\ NotOk(by[c][r])
  <2>1. not # {} <=> \E c \in DOMAIN by : Bad(c) # {}
    <3> HIDE DEF Bad, not
    <3>1. \A x : x \in not <=> \E c \in DOMAIN by : x \in Bad(c)
      BY <1>2
    <3> QED  BY <3>1
  <2>2. ASSUME NEW c \in DOMAIN by  PROVE Bad(c) # {} <=> r \in DOMAIN by[c] /\ NotOk(by[c][r])
    <3>1. Bad(c) # {} <=> \E t \in DOMAIN T(c) : T(c)[t].ok = FALSE
      <4> HIDE DEF T
      <4>1. \A t \in DOMAIN T(c) : T(c)[t].ok = FALSE => <<c, t>> \in Bad(c)
        OBVIOUS
      <4>2. \A x \in Bad(c) : x[2] \in DOMAIN T(c) /\ T(c)[x[2]].ok = FALSE
        OBVIOUS
      <4> QED  BY <4>1, <4>2
    <3>2. CASE r \in DOMAIN by[c]
      <4>1. Written(by[c][r]) /\ T(c) = by[c][r].tests
        BY <1>1, <3>2
      <4> HIDE DEF T, Bad
      <4> QED  BY <3>1, <3>2, <4>1 DEF Written, NotOk
    <3>3. CASE r \notin DOMAIN by[c]
      BY <1>1, <3>1, <3>3
    <3> QED  BY <3>2, <3>3
  <2> HIDE DEF Bad, not
  <2> QED  BY <2>1, <2>2
<1>6. /\ Cardinality(not) > 0 <=> not # {}
      /\ Cardinality(not) \in Nat
  <2> HIDE DEF not
  <2>1. Cardinality(not) \in Nat /\ (Cardinality(not) = 0 <=> not = {})
    BY <1>3, FS_CardinalityType, FS_EmptySet
  <2> QED  BY <2>1
<1>7. Badge(r, by).color = "red" <=> Cardinality(not) > 0 \/ missing # {}
  BY DEF Badge, Says
<1> HIDE DEF not
<1> QED  BY <1>5, <1>6, <1>7

\* A release's notes say what is missing, and count what came to each outcome.
LEMMA NotesTell ==
  ASSUME NEW entries, NEW cells, NEW releases, NEW r \in releases, NEW outcomes
  PROVE  (\E note \in Notes(entries, cells, releases) :
            /\ note.release = r
            /\ \/ note.what = "no results"
               \/ note.what = "summary" /\ DOMAIN note.of \cap outcomes # {})
         <=> (r \notin DOMAIN cells \/ Came(cells[r], outcomes))
<1> DEFINE Said(q) == IF q \notin DOMAIN cells THEN {Note("no results", q, << >>)}
                     ELSE {Note("summary", q, Summary(cells[q].tests))}
                          \cup UNION {EntryNotes(cells[q].tests, e, q) : e \in entries}
<1>1. Notes(entries, cells, releases) = UNION {Said(q) : q \in releases}
  BY DEF Notes
<1>2. \A tests, e, q : \A note \in EntryNotes(tests, e, q) :
        note.release = q /\ note.what \in {"expected", "failed", "against"}
  BY DEF EntryNotes, Note
<1>3. \A w, q, o : Note(w, q, o).what = w /\ Note(w, q, o).release = q /\ Note(w, q, o).of = o
  BY DEF Note
<1>4. \A q : DOMAIN Summary(cells[q].tests) \cap outcomes # {} <=> Came(cells[q], outcomes)
  BY DEF Summary, Outcomes, Came
<1>5. ASSUME NEW q \in releases, NEW note \in Said(q)  PROVE note.release = q
  <2>0. \/ note \in UNION {EntryNotes(cells[q].tests, e, q) : e \in entries}
        \/ note = Note("no results", q, << >>) \/ note = Note("summary", q, Summary(cells[q].tests))
    OBVIOUS
  <2> HIDE DEF Said
  <2>1. CASE note \in UNION {EntryNotes(cells[q].tests, e, q) : e \in entries}
    <3>1. PICK e \in entries : note \in EntryNotes(cells[q].tests, e, q)
      BY <2>1
    <3>2. \A x \in EntryNotes(cells[q].tests, e, q) : x.release = q
      BY <1>2
    <3> QED  BY <3>1, <3>2
  <2>2. CASE note = Note("no results", q, << >>) \/ note = Note("summary", q, Summary(cells[q].tests))
    <3>1. /\ Note("no results", q, << >>).release = q
          /\ Note("summary", q, Summary(cells[q].tests)).release = q
      BY DEF Note
    <3> QED  BY <2>2, <3>1
  <2> QED  BY <2>0, <2>1, <2>2
<1>6. \A note \in Notes(entries, cells, releases) : note.release = r => note \in Said(r)
  <2> HIDE DEF Said
  <2> QED  BY <1>1, <1>5
<1>7. Said(r) \subseteq Notes(entries, cells, releases)
  <2> HIDE DEF Said
  <2> QED  BY <1>1
<1>8. CASE r \notin DOMAIN cells
  <2> DEFINE none == Note("no results", r, << >>)
  <2>1. none \in Notes(entries, cells, releases)
    BY <1>7, <1>8
  <2>2. none.release = r /\ none.what = "no results"
    BY DEF Note
  <2> HIDE DEF none
  <2> QED  BY <1>8, <2>1, <2>2
<1>9. CASE r \in DOMAIN cells
  <2> DEFINE sum == Note("summary", r, Summary(cells[r].tests))
  <2>1. sum \in Notes(entries, cells, releases)
    BY <1>7, <1>9
  <2>2. \A note \in Said(r) : note = sum \/ note.what \in {"expected", "failed", "against"}
    BY <1>2, <1>9
  <2>3. sum.what = "summary" /\ sum.release = r /\ sum.of = Summary(cells[r].tests)
    BY <1>3
  <2> HIDE DEF sum, Said
  <2> QED  BY <1>4, <1>6, <1>9, <2>1, <2>2, <2>3
<1> QED  BY <1>8, <1>9

\* A cross has its note.
LEMMA CrossTells ==
  ASSUME NEW cells, NEW releases, NEW place \in DOMAIN Section(cells, releases).marks,
         Section(cells, releases).marks[place] = "fail"
  PROVE  \E note \in Section(cells, releases).notes :
           /\ note.what \in {"expected", "failed"}
           /\ note.of[1] = place[1] /\ note.release = place[2]
<1> DEFINE entries == UNION {UNION {ToSet(x.entries) : x \in Range(TestsIn(cells, r))} : r \in releases}
           e == place[1]
           r == place[2]
           tests == TestsIn(cells, r)
<1>1. /\ DOMAIN Section(cells, releases).marks = entries \X releases
      /\ Section(cells, releases).marks[place] = Mark(Outcomes(tests, OfEntry(tests, e)))
      /\ Section(cells, releases).notes = Notes(entries, cells, releases)
  BY DEF Section
<1>2. e \in entries /\ r \in releases
  BY <1>1
<1> HIDE DEF entries
<1>3. PICK t \in OfEntry(tests, e) : tests[t].outcome \in {"failed", "xfailed"}
  BY <1>1 DEF Mark, Outcomes
<1>4. r \in DOMAIN cells /\ tests = cells[r].tests
  BY <1>3 DEF OfEntry, TestsIn
<1>5. EntryNotes(cells[r].tests, e, r) \subseteq Section(cells, releases).notes
  <2> DEFINE Said(q) == IF q \notin DOMAIN cells THEN {Note("no results", q, << >>)}
                       ELSE {Note("summary", q, Summary(cells[q].tests))}
                            \cup UNION {EntryNotes(cells[q].tests, x, q) : x \in entries}
  <2>1. Notes(entries, cells, releases) = UNION {Said(q) : q \in releases}
    BY DEF Notes
  <2>2. EntryNotes(cells[r].tests, e, r) \subseteq Said(r)
    BY <1>2, <1>4
  <2> HIDE DEF Said
  <2> QED  BY <1>1, <1>2, <2>1, <2>2
<1>6. \E note \in EntryNotes(tests, e, r) :
        note.what \in {"expected", "failed"} /\ note.of[1] = e /\ note.release = r
  <2>1. CASE tests[t].outcome = "xfailed"
    <3>1. Note("expected", r, <<e, tests[t].reason>>) \in EntryNotes(tests, e, r)
      BY <1>3, <2>1 DEF EntryNotes, That
    <3> QED  BY <3>1 DEF Note
  <2>2. CASE tests[t].outcome = "failed"
    <3>1. That(tests, OfEntry(tests, e), "failed") # {}
      BY <1>3, <2>2 DEF That
    <3>2. \E n : Note("failed", r, <<e, n>>) \in EntryNotes(tests, e, r)
      BY <3>1 DEF EntryNotes
    <3> QED  BY <3>2 DEF Note
  <2> QED  BY <1>3, <2>1, <2>2
<1> QED  BY <1>4, <1>5, <1>6

\* A page of results this code can have written explains itself.
LEMMA RenderExplains ==
  ASSUME NEW S, NEW all \in Seq(S), \A x \in ToSet(all) : Written(x)
  PROVE  Explains(Render(all))
<1> DEFINE shown == Render(all)
           by == ByConfiguration(all)
           releases == {x.release : x \in ToSet(all)}
<1>1. /\ shown.sections = [c \in DOMAIN by |-> Section(by[c], releases)]
      /\ shown.badges = [r \in releases |-> Badge(r, by)] /\ shown.of = all
  BY DEF Render
<1>2. /\ IsFiniteSet(DOMAIN by)
      /\ \A c \in DOMAIN by : \A r \in DOMAIN by[c] : /\ Written(by[c][r]) /\ by[c][r] \in ToSet(all)
                                                      /\ by[c][r].release = r
  BY CellsFacts
<1>3. \A c \in DOMAIN by : \E entries : Section(by[c], releases).notes = Notes(entries, by[c], releases)
  BY DEF Section
<1> HIDE DEF by, releases, shown
<1>4. ASSUME NEW r \in DOMAIN shown.badges
      PROVE  LET red == shown.badges[r].color = "red" IN
             /\ Tells(shown, r, {"failed"}) => red
             /\ red => Tells(shown, r, {"failed", "xpassed", "xfailed"})
             /\ Agreed(shown, r) => (red <=> Tells(shown, r, {"failed", "xpassed"}))
  <2>1. r \in releases /\ shown.badges[r] = Badge(r, by)
    BY <1>1
  <2>2. shown.badges[r].color = "red" <=> \E c \in DOMAIN by : r \notin DOMAIN by[c] \/ NotOk(by[c][r])
    BY <1>2, <2>1, BadgeTells
  <2>3. ASSUME NEW outcomes
        PROVE  Tells(shown, r, outcomes) <=>
                 \E c \in DOMAIN by : r \notin DOMAIN by[c] \/ Came(by[c][r], outcomes)
    <3>1. ASSUME NEW c \in DOMAIN by
          PROVE  (\E note \in shown.sections[c].notes :
                   /\ note.release = r
                   /\ \/ note.what = "no results"
                      \/ note.what = "summary" /\ DOMAIN note.of \cap outcomes # {})
                 <=> (r \notin DOMAIN by[c] \/ Came(by[c][r], outcomes))
      <4>1. PICK entries : shown.sections[c].notes = Notes(entries, by[c], releases)
        BY <1>1, <1>3
      <4>2. (\E note \in Notes(entries, by[c], releases) :
               /\ note.release = r
               /\ \/ note.what = "no results"
                  \/ note.what = "summary" /\ DOMAIN note.of \cap outcomes # {})
            <=> (r \notin DOMAIN by[c] \/ Came(by[c][r], outcomes))
        BY ONLY <2>1, NotesTell
      <4> QED  BY ONLY <4>1, <4>2
    <3>2. DOMAIN shown.sections = DOMAIN by
      BY <1>1
    <3> QED  BY ONLY <3>1, <3>2 DEF Tells
  <2>4. ASSUME NEW c \in DOMAIN by, r \in DOMAIN by[c]
        PROVE  /\ Came(by[c][r], {"failed"}) => NotOk(by[c][r])
               /\ NotOk(by[c][r]) => Came(by[c][r], {"failed", "xpassed", "xfailed"})
               /\ Agreed(shown, r) => (NotOk(by[c][r]) <=> Came(by[c][r], {"failed", "xpassed"}))
    <3>1. Written(by[c][r]) /\ by[c][r] \in ToSet(all) /\ by[c][r].release = r
      BY <1>2, <2>4
    <3> DEFINE result == by[c][r]
    <3> HIDE DEF result
    <3>2. Written(result)
      BY <3>1 DEF result
    <3>3. Agreed(shown, r) => \A t \in DOMAIN result.tests : Agrees(result.tests[t])
      BY <1>1, <3>1 DEF Agreed, result
    <3>4. Came(result, {"failed"}) => NotOk(result)
      BY <3>2 DEF Written, Came, NotOk
    <3>5. NotOk(result) => Came(result, {"failed", "xpassed", "xfailed"})
      BY <3>2 DEF Written, Came, NotOk
    <3>6. Agreed(shown, r) => (NotOk(result) <=> Came(result, {"failed", "xpassed"}))
      BY <3>3 DEF Agrees, Came, NotOk
    <3> QED  BY <3>4, <3>5, <3>6 DEF result
  <2> QED  BY <2>2, <2>3, <2>4
<1>5. ASSUME NEW c \in DOMAIN shown.sections, NEW place \in DOMAIN shown.sections[c].marks,
             shown.sections[c].marks[place] = "fail"
      PROVE  \E note \in shown.sections[c].notes :
               /\ note.what \in {"expected", "failed"}
               /\ note.of[1] = place[1] /\ note.release = place[2]
  <2>1. shown.sections[c] = Section(by[c], releases)
    BY <1>1
  <2> QED  BY <1>5, <2>1, CrossTells
<1>6. Explains(shown)
  BY <1>4, <1>5 DEF Explains
<1> QED  BY <1>6 DEF shown

\* What was told of the session, and the page it is on.
PageInv == (results # Nothing => Written(results)) /\ PageExplains

\* The results are those of the tests that were reported.
LEMMA ResultsWritten ==
  ASSUME IInv, TellInv  PROVE Written(Results)
<1>1. reports \in Seq(ReportSet) /\ ReportsInv
  BY DEF IInv, MainInv, TellInv
<1>2. Results.tests = [t \in Tested(reports) |-> RecordOf(reports, t, Entries[t])]
  BY DEF Results, Records
<1>3. IsFiniteSet(Tested(reports))
  <2> DEFINE f == [r \in ToSet(reports) |-> r.test]
  <2>1. f \in Surjection(ToSet(reports), Tested(reports))
    BY DEF Surjection, Tested
  <2> QED  BY <1>1, <2>1, SeqFinite, FS_Surjection
<1>4. ASSUME NEW t \in Tested(reports)
      PROVE  LET record == RecordOf(reports, t, Entries[t]) IN
             /\ record.ok \in BOOLEAN
             /\ record.outcome \in {"passed", "skipped", "failed", "xfailed", "xpassed"}
             /\ record.outcome = "failed" => ~record.ok
             /\ record.outcome \in {"passed", "skipped"} => record.ok
  <2>1. t \in DOMAIN Tests
    BY <1>1, ReportOf DEF Tested
  <2> QED  BY <1>1, <2>1, RecordTells DEF RecordSet
<1> QED  BY <1>2, <1>3, <1>4 DEF Written

\* The page is rendered of results this code can have written.
LEMMA PageStep ==
  ASSUME IInv, TellInv, PageInv, [Next]_vars  PROVE PageInv'
<1>1. results' # Nothing => Written(results')
  <2>1. results' = results \/ results' = Nothing \/ results' = Results
    BY DEF Next, vars, MainThread, Unsupported, Collect, PrepareFails, Submit, FixtureCached,
       BootInline, Booted, BootedExits, Backstop, SkipTest, SetupPasses, CallTest, Teardown, Shutdown,
         Drain, WriteResults, Interrupt, RenderPage, BeginBoot, Thread, Begins, LockDir, MakeDir, KeepDir, RunBoot, EndBoot,
       OtherSession, Finished, CutShort, MainFrame, TestFrame, PoolFrame, DirFrame, toldVars
  <2> QED  BY <2>1, ResultsWritten DEF PageInv
<1>2. PageExplains'
  <2>1. CASE RenderPage
    <3> DEFINE own == IF results = Nothing THEN << >> ELSE <<results>>
    <3>0. PICK others \in Others : \E all \in {own \o others, others \o own} : page' = Render(all)
      BY <2>1 DEF RenderPage
    <3>1. PICK all \in {own \o others, others \o own} : page' = Render(all)
      BY <3>0
    <3> DEFINE S == ToSet(others) \cup {x \in {results} : x # Nothing}
    <3>2. others \in Seq(ToSet(others)) /\ \A x \in S : Written(x)
      BY OthersAssumption DEF PageInv
    <3>3. others \in Seq(S) /\ own \in Seq(S)
      <4>1. ToSet(others) \subseteq S
        OBVIOUS
      <4>2. others \in Seq(S)
        <5> HIDE DEF S
        <5> QED  BY <3>2, <4>1
      <4>3. CASE results = Nothing
        BY <4>2, <4>3
      <4>4. CASE results # Nothing
        <5>1. results \in S
          BY <4>4
        <5> HIDE DEF S
        <5> QED  BY <4>2, <4>4, <5>1
      <4> QED  BY <4>3, <4>4
    <3>4. all \in Seq(S)
      BY <3>1, <3>3, ConcatProperties
    <3>5. \A x \in ToSet(all) : x \in S
      BY <3>4, ElementOfSeq, LenProperties DEF ToSet
    <3> HIDE DEF S, own
    <3>6. Explains(Render(all))
      BY <3>2, <3>4, <3>5, RenderExplains
    <3> QED  BY <3>1, <3>6 DEF PageExplains
  <2>2. CASE ~RenderPage
    <3>1. page' = page
      BY <2>2 DEF Next, vars, MainThread, Unsupported, Collect, PrepareFails, Submit, FixtureCached,
       BootInline, Booted, BootedExits, Backstop, SkipTest, SetupPasses, CallTest, Teardown, Shutdown,
         Drain, WriteResults, Interrupt, BeginBoot, Thread, Begins, LockDir, MakeDir, KeepDir, RunBoot, EndBoot,
       OtherSession, Finished, CutShort, MainFrame, TestFrame, PoolFrame, DirFrame, toldVars
    <3> QED  BY <3>1 DEF PageInv, PageExplains
  <2> QED  BY <2>1, <2>2
<1> QED  BY <1>1, <1>2 DEF PageInv

-----------------------------------------------------------------------------
(* The theorems.                                                           *)

\* The invariant holds in every session.
THEOREM Inductive == Spec => []IInv
<1>1. IInv /\ [Next]_vars => IInv'
  BY TestStep, PoolStep, DirStep, CellStep, CalledStep, FinishStep DEF IInv
<1> QED  BY InitIInv, <1>1, PTL DEF Spec

\* Whatever a test's setup, call and teardown came to, marked or not: ok in
\* results.json is pytest's count, no file calls a test failed that pytest did
\* not, and each calls one failed that pytest did unless its teardown was skipped
\* or excused.  The results are those of the cell that was run.
THEOREM ResultsTell == Spec => []ResultsTellTheRun
<1>1. IInv /\ TellInv /\ [Next]_vars => TellInv'
  BY TellStep
<1>2. TellInv => ResultsTellTheRun
  BY DEF TellInv
<1> QED  BY Inductive, InitTell, <1>1, <1>2, PTL DEF Spec

\* Whatever results this code can have written, also of records whose outcome
\* does not say whether they are ok, and in whatever order they are read: a red
\* badge has its reason on the page, and exactly one where the records agree; a
\* release with a failed test or a missing configuration has a red badge; and a
\* cross has its note.
THEOREM PageAccounts == Spec => []PageExplains
<1>1. Init => PageInv
  BY DEF Init, PageInv, PageExplains
<1>2. IInv /\ IInv' /\ TellInv /\ PageInv /\ [Next]_vars => PageInv'
  BY PageStep
<1>3. IInv /\ TellInv /\ [Next]_vars => TellInv'
  BY TellStep
<1>4. PageInv => PageExplains
  BY DEF PageInv
<1> QED  BY Inductive, InitTell, <1>1, <1>2, <1>3, <1>4, PTL DEF Spec

\* The tables and what they say of each other: a boot that is queued has no
\* thread, the thread that makes the directory is the one that holds the lock.
THEOREM TypeCorrect == Spec => []TypeOK
<1>1. IInv => TypeOK
  <2> SUFFICES ASSUME IInv  PROVE TypeOK
    OBVIOUS
  <2> USE DEF Waiting
  <2>1. \A t \in DOMAIN Tests : t < test <=> \E r \in ToSet(reports) : r.test = t /\ r.when = "teardown"
    BY DEF IInv, TestInv
  <2>2. patched => phase = "call" \/ phase = "teardown"
    BY DEF IInv, MainInv, TestInv, Phases
  <2>3. results # Nothing => main = "over" /\ reports # << >>
    BY DEF IInv, TestInv
  <2>4. /\ main \in {"collect", "prepare", "tests", "finish", "drain", "results", "over"}
        /\ firstFail \in BOOLEAN /\ test \in 1 .. Len(Tests) + 1 /\ nth \in Nat \ {0}
        /\ phase \in {"setup", "call", "teardown"} /\ patched \in BOOLEAN /\ cut \in BOOLEAN
    BY DEF IInv, MainInv, Phases
  <2>5. \A n \in Names : /\ used[n] # Nothing => boot[n] \in {"running"} \cup Over
                         /\ fixture[n] \in {"none", "ok", "failed"}
                         /\ boot[n] \in Waiting \cup Under \cup Over
                         /\ boot[n] = "queued" <=> n \in queue
                         /\ boot[n] \in Waiting => at[n] = "none"
    BY DEF IInv, PoolInv, PoolTables
  <2>6. \A x \in Threads : at[x] \in {"none", "wants", "makes", "made", "has", "error", "exits"}
    BY DEF IInv, DirTables
  <2>7. /\ \A x \in Threads : at[x] \in {"makes", "made"} <=> holder = x
        /\ runDir # 0 => runDir \in mine
        /\ mine \subseteq dirs /\ number \in Nat
    BY DEF IInv, DirInv, DirTables
  <2> QED  BY <2>1, <2>2, <2>3, <2>4, <2>5, <2>6, <2>7 DEF TypeOK, IInv, PoolInv, CellInv
<1> QED  BY Inductive, <1>1, PTL

\* Each boot is begun at most once: by the worker that takes it, or by the main
\* thread if nobody had submitted it.
THEOREM BegunOnce == Spec => []BootedOnce
<1>1. IInv => BootedOnce
  BY DEF IInv, PoolInv, BootedOnce
<1> QED  BY Inductive, <1>1, PTL

\* A test is called on boots that all reached the shell with the machine, TPM
\* and PSP of the session's cell, whatever the environment became meanwhile.
THEOREM TestsHaveTheirBoots == Spec => []CalledOnBoots
<1>1. IInv => CalledOnBoots
  BY DEF IInv
<1> QED  BY Inductive, <1>1, PTL

\* When the results are written no boot runs, and none will.
THEOREM PoolIsDrained == Spec => []NothingAfterFinish
<1>1. IInv => NothingAfterFinish
  BY DEF IInv
<1> QED  BY Inductive, <1>1, PTL

\* A session makes one directory, one nobody had made, and keeps that one.
THEOREM OneRunDir == Spec => OwnRunDir
<1>1. ASSUME IInv, [Next]_vars
      PROVE  /\ mine' # mine => mine = {} /\ mine' \cap dirs = {}
             /\ runDir' # runDir => runDir = 0 /\ {runDir'} = mine
  <2>0. DirInv /\ DirTables /\ "free" \notin Threads
    <3>1. "free" \notin Threads
      BY MainAssumption DEF Threads
    <3> QED  BY <1>1, <3>1 DEF IInv
  <2>a. mine' # mine \/ runDir' # runDir => \E x \in Threads : MakeDir(x) \/ KeepDir(x)
    <3> USE DEF MainFrame, TestFrame, PoolFrame, DirFrame, dirVars
    <3>1. MainThread => UNCHANGED <<mine, runDir>>
      BY DEF MainThread, Unsupported, Collect, PrepareFails, Submit, FixtureCached, BootInline, Booted,
         BootedExits, Backstop, SkipTest, SetupPasses, CallTest, Teardown, Shutdown, Drain, WriteResults
    <3>2. BeginBoot \/ Interrupt \/ RenderPage \/ OtherSession => UNCHANGED <<mine, runDir>>
      BY DEF BeginBoot, Interrupt, RenderPage, OtherSession
    <3>3. \A x \in Threads : LockDir(x) \/ RunBoot(x) \/ EndBoot(x) => UNCHANGED <<mine, runDir>>
      BY DEF LockDir, RunBoot, EndBoot
    <3>4. Finished \/ UNCHANGED vars => UNCHANGED <<mine, runDir>>
      BY DEF Finished, vars
    <3> QED  BY <1>1, <3>1, <3>2, <3>3, <3>4 DEF Next, Thread, Begins
  <2>1. ASSUME mine' # mine  PROVE mine = {} /\ mine' \cap dirs = {}
    <3>1. PICK x \in Threads : MakeDir(x)
      BY <2>a, <2>1 DEF KeepDir
    <3>2. at[x] = "makes" /\ holder = x /\ number \notin dirs /\ mine' = mine \cup {number}
      BY <2>0, <2>1, <3>1 DEF MakeDir, DirInv
    <3>3. mine = {}
      BY <2>0, <3>2 DEF DirInv
    <3> QED  BY <3>2, <3>3
  <2>2. ASSUME runDir' # runDir  PROVE runDir = 0 /\ {runDir'} = mine
    <3>1. PICK x \in Threads : KeepDir(x)
      BY <2>a, <2>2 DEF MakeDir
    <3>2. at[x] = "made" /\ holder = x /\ runDir' = number
      BY <2>0, <3>1 DEF KeepDir, DirInv
    <3> QED  BY <2>0, <3>2 DEF DirInv
  <2> QED  BY <2>1, <2>2
<1>2. IInv /\ [Next]_vars =>
        [/\ mine' # mine => mine = {} /\ mine' \cap dirs = {}
         /\ runDir' # runDir => runDir = 0 /\ {runDir'} = mine]_<<mine, dirs, runDir>>
  BY <1>1
<1> QED  BY Inductive, <1>2, PTL DEF Spec, OwnRunDir
=============================================================================
