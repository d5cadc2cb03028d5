------------------------------- MODULE Report -------------------------------
(***************************************************************************)
(* What a run is said to have shown: the records session.py makes of       *)
(* pytest's reports for results.txt and results.json, and the page and     *)
(* badges report.py makes of the results of many sessions.                 *)
(*                                                                         *)
(* A report is one phase of one test, with pytest's outcome, whether an    *)
(* expectation excused it (wasxfail) and whether it is a strict            *)
(* expectation that was not met.  The wording and the order of lines on    *)
(* the page are left out: a table is a function, the notes are a set.      *)
(***************************************************************************)
EXTENDS Naturals, Sequences, FiniteSets, SequencesExt

TestReport(test, when, outcome, wasxfail, strict) ==
  [test |-> test, when |-> when, outcome |-> outcome, wasxfail |-> wasxfail, strict |-> strict]

Tested(reports) == {r.test : r \in ToSet(reports)}
Of(reports, t)  == {r \in ToSet(reports) : r.test = t}

\* Mutant: the last phase decides.
LastPhase(outcome, r) == r.outcome

\* _outcome_per_test: a phase that did not pass decides.
Collapsed(outcome, r) == IF r.outcome # "passed" THEN r.outcome ELSE outcome
OutcomeOf(reports, t) ==
  LET After[i \in 0 .. Len(reports)] ==
        IF i = 0 THEN "passed"
        ELSE IF reports[i].test = t THEN Collapsed(After[i - 1], reports[i]) ELSE After[i - 1]
  IN After[Len(reports)]
OutcomePerTest(reports) == [t \in Tested(reports) |-> OutcomeOf(reports, t)]

\* _records: a test's phases, in order, make its record.
Noted(record, r) ==
  CASE r.outcome = "failed" /\ r.strict ->
         [record EXCEPT !.ok = FALSE, !.outcome = "xpassed", !.reason = TRUE]
    [] r.outcome = "failed" /\ ~r.strict -> [record EXCEPT !.ok = FALSE, !.outcome = "failed"]
    [] r.outcome = "skipped" /\ r.wasxfail ->
         [record EXCEPT !.outcome = "xfailed", !.reason = TRUE]
    [] r.outcome = "skipped" /\ ~r.wasxfail /\ record.outcome = "passed" ->
         [record EXCEPT !.outcome = "skipped"]
    [] r.outcome = "passed" /\ r.wasxfail /\ record.ok ->
         [record EXCEPT !.outcome = "xpassed", !.reason = TRUE]
    [] OTHER -> record
Fresh(entries) == [entries |-> entries, outcome |-> "passed", ok |-> TRUE, reason |-> FALSE]
RecordOf(reports, t, entries) ==
  LET After[i \in 0 .. Len(reports)] ==
        IF i = 0 THEN Fresh(entries)
        ELSE IF reports[i].test = t THEN Noted(After[i - 1], reports[i]) ELSE After[i - 1]
  IN After[Len(reports)]
Records(reports, entries) == [t \in Tested(reports) |-> RecordOf(reports, t, entries[t])]

-----------------------------------------------------------------------------
(* The page.  A result is what one results.json holds: its cell of the     *)
(* matrix and its records by test.                                         *)

\* _configuration: a hand-made session's own, per vendor.
Configuration(result) ==
  IF result.configuration = "none" THEN <<"custom", result.vendor>> ELSE <<result.configuration>>

\* What _records can have written: what is failed is not ok, and what passed or
\* was skipped is; an x outcome can be either, for _records keeps a test not ok
\* whatever outcome a later phase gives it.
Written(result) ==
  /\ IsFiniteSet(DOMAIN result.tests)
  /\ \A t \in DOMAIN result.tests : LET record == result.tests[t] IN
       /\ record.ok \in BOOLEAN
       /\ record.outcome \in {"passed", "skipped", "failed", "xfailed", "xpassed"}
       /\ record.outcome = "failed" => ~record.ok
       /\ record.outcome \in {"passed", "skipped"} => record.ok

\* A record whose outcome says whether it is ok.
Agrees(record) == ~record.ok <=> record.outcome \in {"failed", "xpassed"}

\* The cells that have results, by configuration and release.  Of two results of
\* one cell the last in path order is taken.
LastIn(results, c, release) ==
  results[SelectLastInSeq(results, LAMBDA x : Configuration(x) = c /\ x.release = release)]
ByConfiguration(results) ==
  [c \in {Configuration(x) : x \in ToSet(results)} |->
     [release \in {x.release : x \in {y \in ToSet(results) : Configuration(y) = c}} |->
        LastIn(results, c, release)]]

\* The tests of a cell, none of one without results.
TestsIn(cells, release) == IF release \in DOMAIN cells THEN cells[release].tests ELSE << >>

\* Those of an entry, those that came to an outcome, and what they came to.
OfEntry(tests, entry) == {t \in DOMAIN tests : entry \in ToSet(tests[t].entries)}
That(tests, some, outcome) == {t \in some : tests[t].outcome = outcome}
Outcomes(tests, some) == {tests[t].outcome : t \in some}

\* Cell.mark: by what the boot did.
Mark(outcomes) ==
  IF outcomes \cap {"failed", "xfailed"} # {} THEN "fail"
  ELSE IF outcomes \cap {"passed", "xpassed"} # {} THEN "pass" ELSE "none"

\* _summary
Summary(tests) ==
  [o \in Outcomes(tests, DOMAIN tests) |-> Cardinality(That(tests, DOMAIN tests, o))]

\* _notes: what the suite expected of the marks.
Note(what, release, of) == [what |-> what, release |-> release, of |-> of]
EntryNotes(tests, entry, release) ==
  LET some == OfEntry(tests, entry) failed == That(tests, some, "failed") IN
     {Note("expected", release, <<entry, tests[t].reason>>) : t \in That(tests, some, "xfailed")}
     \cup (IF failed # {} THEN {Note("failed", release, <<entry, Cardinality(failed)>>)} ELSE {})
     \cup {Note("against", release, <<entry, t>>) : t \in That(tests, some, "xpassed")}
Notes(entries, cells, releases) ==
  UNION {IF release \notin DOMAIN cells THEN {Note("no results", release, << >>)}
         ELSE {Note("summary", release, Summary(cells[release].tests))}
              \cup UNION {EntryNotes(cells[release].tests, e, release) : e \in entries} :
         release \in releases}

\* _section: the entries' table, its notes and the table of every test.
Section(cells, releases) ==
  LET tests   == UNION {DOMAIN TestsIn(cells, r) : r \in releases}
      entries == UNION {UNION {ToSet(x.entries) : x \in Range(TestsIn(cells, r))} : r \in releases}
      Came(some, place) == Outcomes(TestsIn(cells, place[2]), some)
  IN [marks |-> [place \in entries \X releases |->
                   Mark(Came(OfEntry(TestsIn(cells, place[2]), place[1]), place))],
      notes |-> Notes(entries, cells, releases),
      tests |-> [place \in tests \X releases |->
                   Came({place[1]} \cap DOMAIN TestsIn(cells, place[2]), place)]]

\* A badge: the tests of every configuration that were ok, or were not.
Says(color, message, count) == [color |-> color, message |-> message, count |-> count]
Those(release, by, ok) ==
  UNION {{c} \X {t \in DOMAIN TestsIn(by[c], release) : TestsIn(by[c], release)[t].ok = ok} :
         c \in DOMAIN by}

\* Mutant: a cell without results is no failure.
BadgeOfResults(release, by) ==
  LET failed == Cardinality(Those(release, by, FALSE)) IN
  IF failed > 0 THEN Says("red", "failed", failed)
                ELSE Says("brightgreen", "passed", Cardinality(Those(release, by, TRUE)))

\* _badge, over the configurations that have a result of some release.
Badge(release, by) ==
  LET failed  == Cardinality(Those(release, by, FALSE))
      missing == {c \in DOMAIN by : release \notin DOMAIN by[c]}
  IN IF failed > 0 THEN Says("red", "failed", failed)
     ELSE IF missing # {} THEN Says("red", "missing", Cardinality(missing))
     ELSE Says("brightgreen", "passed", Cardinality(Those(release, by, TRUE)))

\* render: a section per configuration, a badge per release, and, for the
\* properties, the results it is of.
Render(results) ==
  LET by == ByConfiguration(results)
      releases == {x.release : x \in ToSet(results)}
  IN [of |-> results,
      sections |-> [c \in DOMAIN by |-> Section(by[c], releases)],
      badges   |-> [r \in releases |-> Badge(r, by)]]
=============================================================================
