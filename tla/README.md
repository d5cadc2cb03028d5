# Verification of the DRTM test harness

`drtmtest` boots TrenchBoot images under QEMU and checks what the measured launch left behind. It is a
harness, so what can be wrong with it is rarely a wrong answer in one function: it is a wait that never ends, a
console byte that is lost, a guest called hung that was only slow, a child process left running, a cache that
trusts half a file, a boot started twice, a page that is green for a run that never happened. Those are behaviours of
threads, processes, files and reports in an order nobody chose, and that is what these TLA+ modules describe.

All paths below are under `src/`.

## Inventory

### The parts, their state and their operations

| Part | Source | State it keeps | Operations |
| --- | --- | --- | --- |
| QemuVm | `drtmtest/qemu_vm.py` | children, sockets, work directory, serial log, buffer, cursor, `_stop`, the serial lock, the reader thread | `__enter__`, `__exit__`, `_read_serial`, `send`, `serial`, `wait_for_qmp` |
| expect and hang detection | `drtmtest/qemu_vm.py` | cursor, last status check, and the loop's locals | `expect`, `_check_alive`, `_running_addresses` |
| QmpClient | `drtmtest/qmp_client.py` | one connection per command | `_send_cmd`, `_send`, `execute`, `cont`, `system_reset` |
| Cache | `drtmtest/assets.py`, `trenchboot.py`, `dasharo.py`, `bundle.py` | files under a final and a temporary name | `Asset.fetch`, `unpacked_image`, `warmed_firmware`, `bundle.binary` |
| BootSession | `drtmtest/session.py` | futures, pool, run directory and its lock, collected reports | `pytest_sessionstart`, `pytest_collection_modifyitems`, `booted`, `run_log_dir`, `pytest_runtest_logreport`, `pytest_sessionfinish` |
| Suite's fixtures | `tests/conftest.py` | session fixtures, `_warm_lock` | `_prepare`, `_boot`, `_workers`, the boot fixtures |
| Console | `drtmtest/console.py` | nothing of its own: the guest's menu, prompt and shell | `select_entry`, `_move_down`, `type_entry`, `wait_for_login`, `login`, `run`, `pcrs` |
| Event log | `drtmtest/eventlog.py`, `console.py`'s `hex_dump` | none | `banks`, `parse`, `replay` |
| Results and report | `drtmtest/session.py`, `report.py` | records of a run; the results of many | `_outcome_per_test`, `_records`, `render`, `_badge`, `write` |
| Matrix | `drtmtest/matrix.py` | none: a cell is what it puts in the environment | `Configuration.env`, `environment`, `current`, `workflow_matrix` |
| GRUB configuration | `drtmtest/grubcfg.py` | none | `entries`, `with_parameter`, `commands`, reading the file off a partition |
| Machine | `drtmtest/machine.py` | none | `vendor`, `psp_mode`, `options` |
| tb-boot | `drtmtest/boot.py` | one interactive QEMU and its TPM | `main` |
| Tests, CI, docs | `tests/`, `.github/`, `docs/` | none | |

### How they interact

The pytest main thread runs `BootSession`'s hooks and the tests. Its pool's threads each run one boot: the
fixture's `_boot` opens a `QemuVm` as a `with` block, and drives it through `Console`, which only sends keys and
calls `expect`. A `QemuVm` owns a daemon thread, the reader, and two children. The thread that polls `expect` and the
reader share the buffer, under a lock; the thread reaches QEMU over a QMP connection opened for each command. A
boot asks the session for the run's log directory, which is numbered and made by the first thread that needs
one, in a directory that other sessions number theirs in. Before any boot, the main thread makes the cached files,
one of which (the warmed firmware) itself takes a boot. Which machine, TPM banks and PSP a boot has was read from the
environment when the suite was imported, an environment `matrix.py` set up for one cell. What pytest reports of each
test's phases is kept, and at the end becomes `results.txt` and `results.json`; `report.py` makes a page and badges of
the results of many such sessions.

### What is hard, and what makes each part correct

- **QemuVm**: three actors (the boot's thread, the reader, the children) share the buffer, the log, the socket and
  the files. A reader can outlive its join; a child can die, ignore a signal or never bind a socket. Correct when
  the console arrives whole and in order, log and buffer agree, QEMU goes before its TPM, the firmware kept is the
  final one, and leaving the block always ends and leaves nothing.
- **expect**: decisions taken from a copy of the buffer while it grows, and from times of earlier polls. Correct when
  the cursor moves only past the first match, nobody is accused of silence while talking or left at an unanswered
  prompt, a prompt is answered once, and the wait ends on time.
- **QmpClient**: a stream cut anywhere, events beside replies, a peer that wedges or leaves. Correct when a command
  ends, and ends with its own answer.
- **Cache**: a run can be killed anywhere, the next trusts a name. Correct when a final name always holds a whole
  file, that is made once, and a run after a stopped one gets its file.
- **BootSession**: a pool smaller than the boots, `-x`, the 900-second backstop, a lock, other sessions. Correct when
  each boot runs once and as its cell says, a test is called only on boots that reached the shell, each run has its own
  directory, and the finish waits for everything.
- **Results and report**: a test is three reports, each excused or strict or neither, folded twice, by two functions,
  into what two files say; the page folds again, over cells that may be missing. Correct when all of them agree with
  what pytest counted.
- **Console**: keys drawn too late and retried, prompts that appear in a command's output, an entry read off an image
  and typed. Correct when what boots is what was asked for and each command returns its own output.
- **Event log**: a dump other writers land in, that may have lost its end; banks an event is not in; tags that are
  logged and not extended. Correct when it reads as what was logged and replays to what the PCRs hold.

`PROJECT.json` lists each hazard at its line, with the properties that cover it or why none does.

## Modules

| Module | Models | State and actions, against the code |
| --- | --- | --- |
| `QemuVm` | one `with` block | `pc` walks through `__enter__` (`Entering`), the body and `__exit__` (`Leaving`), one action per statement that another actor can observe; `Reader...` are the reader's steps, split where it takes no lock; `Children` are what QEMU and swtpm do at will. A piece of output is its number, so `ConsoleUnbroken` sees loss, doubling and reordering. |
| `ConsoleStream` | the promise of the console to its driver | text that grows, a cursor that passes the first match |
| `Expect` | `expect`, `_check_alive`, `_running_addresses` | one action per phase of a poll: copy, sample, search, alive, status, deadline. Between any two the guest may print, pause as panicked or exit. |
| `QmpClient` | one command over QMP | `Connect` and `ReadGreeting` are `_open`, the other reads and the parse `_send`; QEMU's replies and events; a message, the greeting too, is two pieces so that reads can end inside one |
| `Console` | the boot sequence over the console | the driver's steps are the waits and keys of `select_entry`, `type_entry`, `wait_for_login`, `login` and `run`; the console is the marks the guest drew, keys queue in the serial port until it reads them; GRUB's shell remembers what it ran |
| `GrubCfg` | `entries`, `with_parameter` and `commands` | operators on the lines of a `grub.cfg`; `Console!ReadImage` types what they return |
| `EventLog` | the event log from the launch to the replay | `Measure` and `Tag` write it, `Dump` and `XenWrites` put it on the console, `Read` is `hex_dump`; `Parse` and `Replay` are `eventlog.py`'s, on bytes and offsets |
| `ImageCache` | the download, the image unpacked from it, QEMU's archive, QEMU unpacked from it, the warmed firmware | names map to inodes, so an open file survives its rename; `Stop` kills a run between any two steps |
| `BootSession` | one pytest session, as one cell of the matrix, to the page its results are on | `main` walks collection, preparation, tests and finish; the pool begins what is queued; `LockDir`, `MakeDir`, `KeepDir` are `run_log_dir` in any thread; each phase of a test appends its report |
| `Matrix` | the configurations, a cell's environment, what is read of it | operators on environments (maps from the variables that are set); `BootSession`'s initial states and settings |
| `Report` | `_outcome_per_test`, `_records`, and the page and badges | operators on reports and results; `BootSession!WriteResults` and `RenderPage` apply them |
| `QemuVmProofs`, `ExpectProofs`, `QmpClientProofs`, `ImageCacheProofs`, `BootSessionProofs`, `ConsoleProofs`, `EventLogProofs` | theorems about the module each is named for | the inductive invariants, see Proofs |
| `Induction` | nothing of the code | lemmas on numbers, recursive functions and flattened sequences, which three of the proofs use |
| `MC...` | the instances TLC checks | constants only |

`Expect` relies on `QemuVm!ConsoleUnbroken` (its buffer grows at its end only) and on `QmpClient` (the outcomes its two
QMP commands have: an answer, `OSError`, and the exceptions `QmpClient` shows, which end the wait unless they are caught). `BootSession` relies
on none of them: a boot in it may end or run for ever. `Console` takes `ConsoleStream`'s promise as the meaning of a wait. `Expect` implements
`ConsoleStream`: its property `ConsumesInOrder` is `CS!Spec`, under the refinement that reads `text` as the buffer and
`cursor` as the cursor. `GrubCfg`, `Matrix` and `Report` have no state of their own: they are composed into the modules
whose steps call them, so that a mistake in them shows as what is typed, booted or told.

### Abstractions

- Text is symbols, a QMP message is two pieces, a file is a few blocks, a directory is its number, the addresses of a
  guest's CPUs are one value (or none, when all are halted or QMP gave no usable answer).
- Time in `Expect` counts polls. It passes in the sleep that ends a poll and in QMP commands (`QmpTime`); the code
  between takes none, a `send` among it, which may wait for as long as the socket's 0.2 s. The real numbers are scaled: only their order (status interval, stuck, idle, timeout) matters.
- In `Expect`, after a match or a caught timeout the driver may go on with any call; after any other exception the boot
  is over.
- `QemuVm` has no clock: a `wait(timeout=5)` may give up at any moment, which contains every timing.
- `Console`'s guest is external and does what the comments of `console.py` say: keys are read in order, a Down can be
  read as three plain keys, the pause ends by a key or by itself. The firmware's and GRUB's own timeouts are left out,
  since a poll takes a twentieth of a second; so are two entries of the menu with one title, and output that spells the
  shell's prompt. `Starved` is the one delay that matters: a key read after `KEY_TIMEOUT`.
- `GrubCfg` has a line as its kind, first word and arguments: the quoting of titles, and the reading of the file
  off the image's partition, which may fail (`EndBoot`), are left out. A file is blocks: entries whose first line the
  reader's expression takes, each up to the brace that closes it on a line of its own, and any lines around them. An
  entry has one command a line and may hold groups of commands; that it holds no line which itself begins an entry the
  reader knows is assumed, and that a title has no quote of its own in it.
- `ImageCache` has QEMU's directory as one inode with its files as blocks, the first of them the binary, reached by name,
  so a directory that was emptied and filled again is the same one.
- `EventLog` is at the level of bytes, with digests of two and three bytes in place of twenty and more: `parse` reads
  their length from the header. A hash is injective, so a PCR is what it was extended with, in order. The console is
  stretches of hex digits and what landed between them. A dump that drops zeros drops at most the sixteen bytes of the
  last event that `parse` puts back: what it says it is for.
- `BootSession` starts with no directory; `OtherSession` makes any it needs. It leaves out a full disk under the
  timestamp file, the date in a run directory's name changing at midnight, and the threads of the warming boot other
  than their use of the directory. `Interrupt`, the keyboard's, comes while tests run and not inside a boot on the main thread itself. What a
  killed session leaves is not modelled here: a later one trusts the cache alone. Durations, reasons'
  wording and node ids are left out of the records; the order of lines, and the header, of the page.

Definitions that begin with a comment `Mutant:` or `As if:` are not part of a specification. Each is a plausible bug in
the definition after it, kept to show that a property notices it; `PROJECT.json` pairs them.

## Runs

| Run | Question | Bounds, and why they are enough |
| --- | --- | --- |
| `qemu_vm` | All interleavings of one block's three actors | Two pieces of output (one received while one waits, or both in one read), one flash write, every combination of TPM, firmware and saving. 34 000 states |
| `expect` | Two waits in a row, against a guest that prints, pauses or exits at any time | Three symbols of text: a needle that arrives in halves, a prompt before, inside and after it. The second call has a shorter timeout and another needle, so what the first left is searched again. `Idle` 4, `StuckAfter` 2, `StuckFor` 1, `Sample` 1: silence and spinning are both reached before the timeout of 5. 414 000 states |
| `expect_failures` | Does a failure before the needle end the wait? | **No** (finding 1). Four symbols |
| `qmp` | A command against every cutting of the stream, events, a wedged and a gone QEMU | Each message in two pieces, so that any read, the greeting's included, can end inside one. Two events: one beside the answer to the negotiation, one beside the reply, or two in one read. 867 states |
| `qmp_events` | Does a command QEMU answered return its value? | **No** (finding 2) |
| `cache` | One run at a time making all five files, stopped up to three times | Two blocks: a file can be empty, half and whole. Nine inodes: one per name. Three stops: what two unfinished runs left meets a third. 351 000 states |
| `cache_two_runs` | Two runs warming the firmware at once | **A half-written image is trusted** (finding 3). One stop |
| `console` | Every title selected and three boots typed off three images; keys misread, a late answer to the pause, a panic | Four titles, two pairs of which begin one another, listed once in either order: up to three moves of up to two keys. One image has settings, a function, comments and two entries; one lacks an entry; one has an entry with options inside a submenu, and an entry with a group of commands in braces and a command behind it. A prelude, a parameter on the kernel's line and one on an entry without a kernel's line. Up to three lines typed and two commands run: a first and a next. 2 600 states |
| `console_starved` | The same when a guest may read a key after `KEY_TIMEOUT` | **Another entry boots** (finding 4) |
| `eventlog` | Does a dump read back as what was logged, and replay to the PCRs? | Two events, so that one follows a padded or partial one; one or two banks and every set of them per event; an event without data whose digest ends in zeros, one with data, one whose data is zeros. Tails of 0, 3 and 40 zeros, and the region cut at its last byte that is not zero. One Xen line, at the start, inside a byte, between bytes or near the end. 42 000 states |
| `session` | A session with `-x` or not, failing boots, the backstop, the keyboard, other sessions and other cells | Three tests over three boots and two workers. The first takes no boot, may be skipped, and patches the environment while the boots run; the second is marked, and takes two; the third shares one of these; the teardown of both may raise or skip, and both reach a third boot that was not collected, which the main thread runs. Run numbers up to 2, with 2 made by others: the limit is reached. One cell, which sets a PSP and banks and no vendor, started from an empty environment and from one that names another vendor and an image; other results of the same cell, of another configuration and of another release, one of them a record that disagrees with itself, or none. 427 000 states, some minutes |
| `session_green` | Does a green badge mean that the tests ran? | **No** (finding 5). The same session beside one other cell |

### What the passing runs show

- `qemu_vm`: `ConsoleUnbroken`, `LogIsBuffer` and `WritesOnlyOpenLog` say that what `expect` searches is what the guest
  printed, and what `serial.log` holds; `TpmOutlivesQemu`, `SavedImageIsFinal` and `NothingLeftBehind` that the way out
  is in order on every path; `BlockMoves` that no QEMU or swtpm can hold it up, only a `swtpm_setup` that never ends.
- `expect`: `ConsumesInOrder` is the refinement. `HungMeansSilent`, `StuckMeansSilent` and `HungWasAnswered` say
  when a guest may be called hung. `StuckMeansSilent` leaves one window out: output that arrives while QMP answers the
  last sample is not looked at again before `GuestHung` is raised. `AnsweredOnce` compares with all answers ever
  sent, also those of the wait before. `GoneIsNoticed`, `EndsByDeadline` and `WaitEnds` say the wait ends and for the
  right reason: an overrun is at most the two QMP commands of its last poll.
- `qmp`: `AnswerIsAwaited` (a command ends on its own answer, read to the end), `CommandEnds`, and `QuietQemuIsUnderstood`:
  what else than its value or QEMU's error a command to a quiet QEMU ends in comes of a greeting that was cut.
- `cache`: `TrustedIsWhole`, `MadeOnce`, and `RecoversFromStops`, which holds although the unpacked image's temporary
  file has the name of the download's (`with_suffix` replaces `.wic`).
- `console`: `PicksTitle` (what boots is what was asked for), `TypesTheEntry` (a typed boot runs its prelude and the commands
  of an entry of that title, in order, with the parameter on the kernel's line alone: up to the first closing brace on a
  line of its own, so whole where there is none, whatever functions, submenus and other entries are around), `TypedInTurn` (no
  line reaches GRUB's shell before its prompt is back), `OwnOutput` (each command returns its own output, also when the
  answer to the loader's pause comes so late that getty reads it).
- `eventlog`: `ReadsBack`, `ReplayIsPcr`.
- `session`: `BootedOnce`, `OwnRunDir`, `NothingAfterFinish` and `SessionEnds` are about its threads. `CalledOnBoots` says
  that a test's body runs only on boots that reached the shell, each with the cell's machine, banks and PSP, whatever
  the caller had set and whatever a unit test patched in while they ran. `ResultsTellTheRun` says of the two
  records of a test, whatever its setup, call and teardown came to: `ok` is what pytest counted, neither calls a test
  failed that pytest did not, and both call failed one that pytest did, unless a teardown that was skipped or excused
  came behind it. Then they need not, which is limit C. `PageExplains` says that a release with a failure or a missing
  configuration has a red badge, that a red badge has a note which says why (exactly then, where every record agrees with
  itself; else the note may be a count of expected failures), and that every cross in a table has its note.
  `SessionEnds` says that nothing holds a session up but a boot that runs for ever or a preparation that does.
  `ResultsTellTheRun` claims the cell of an uninterrupted session only: `_details` reads the environment
  again at the finish, where a test interrupted inside its patch has not undone it.

### Findings

1. `expect` looks for the needle before the failures. Its docstring says that failures "end the wait at once". A failure
   printed before the needle and seen in the same poll is consumed and never reported.
2. An event in the same read as a reply makes `_send` return the pair, and `execute` raise `KeyError`; `_check_alive`
   catches only `OSError`.
3. `warmed_firmware`'s scratch file has one name for every run. A run that copies into it while another renames it goes
   on writing under the final name; stopped there, it leaves what the comment says cannot be left.
4. `_move_down` sends a key a second time after ten seconds, without knowing whether the first was lost or is late. When
   it was late, the wait takes the draw of the first key, the second moves the highlight past it, and the entry after
   the wanted one boots without an error.
5. A session whose tests are cut short writes results of those it came to. `_badge`'s docstring says "Green with the passes
   counted when every configuration's tests were what the suite expected"; `exit_status` is in `results.json` and nothing
   in `report.py` reads it, so the badge is green for tests that never ran; in the trace the one that was come to was
   skipped. CI does not report a cancelled run, a run reported by hand is. In the same way, a configuration that has no
   results of any release is not missed.

### Limits the properties name

The models reach three more states in which the code does not do what it is for. A property of a passing run names each
as its exception, so that it claims all of the rest.

- **A.** `_open` reads QEMU's greeting with one `recv`. What that leaves of the line is read in front of the answer to
  `qmp_capabilities`, and `json.loads` raises `ValueError` for a QEMU that is up and quiet; `_check_alive` lets it through.
  QEMU writes its greeting at once and it is short, so a cut one is rare; `_send` reads in a loop for the same stream.
  `QuietQemuIsUnderstood` excepts it (`LeftOver`).
- **B.** `entries` takes the first line that is a closing brace for the end of the entry. An entry with a group of commands
  in braces is cut at the group's, nothing says so, and its keys are sent. GRUB then waits for the rest of the group, and
  the caller sees a prompt that does not come. A submenu, and an entry with options, it does not see at all.
  `TypesTheEntry` says what is typed (`CommandsIn`).
- **C.** A test that is expected to fail, passes, and whose teardown then raises is failed for pytest, which excuses the
  teardown. Its record's outcome becomes `xfailed` while `ok` stays false, and `results.txt` says `SKIPPED`. The tests of the
  report make `ok` from the outcome (`tests/test_report.py:32`). A failed test whose teardown skips is `SKIPPED` there too.
  `ResultsTellTheRun` (`LateSkip`) and `PageExplains` (`Agrees`) except it.

## Fairness

- `QemuVm`: weak fairness of the boot's thread, but for two places, and of the reader (a thread that is scheduled; its
  `recv` has a timeout). None of the children. The waits of the thread have timeouts, except the one for `swtpm_setup`,
  a `subprocess.run` without one (`pc = "setup"`), and the body, which is the caller's: there it may stay. The `wait()`
  behind a `kill()` has none either; the kernel ends a child that is killed.
- `Expect`: weak fairness of the waiting thread. None of the guest.
- `QmpClient`: weak fairness of the client, whose socket has a timeout, and of QEMU's reply, which a QEMU that is not
  wedged or gone gives. Wedging needs no fairness: when it happens, the client's timeout is enabled.
- `Console`, `EventLog`: none; they have no liveness property.
- `ImageCache`: weak fairness of each run's own steps; stops are bounded, so that a run is eventually left alone. That
  makes a download end, well or badly, which `urlretrieve`, called without a timeout, does not promise: an assumption.
- `BootSession`: weak fairness of the main thread and of the pool's begin of a boot, none of the keyboard, other sessions
  or the page; strong fairness of each thread that needs the run directory's lock, since the lock comes and goes and
  `threading.Lock` starves nobody for ever. None of the end of a boot, nor of the preparation: a boot runs `swtpm_setup`
  and `mtype`, and the preparation downloads, without a timeout.

## Proofs

`TLAPS` proves what follows for every value of the constants that the named assumptions allow; those say that counts
are natural numbers, that tables of tests and calls are what their comments call them, and that a name used to mark
nothing is not a name; where they say more, the module's paragraph says why. Each `...Proofs` module states an inductive
invariant, `IInv`, which TLC checked on the component's run before it was proved; a component's property is seldom
inductive alone. (`EventLogProofs`' `Inv` quantifies over all sequences of bytes, which TLC does not enumerate; it is
proved only.) A lemma then says that a step preserves a part of it, or one action all of it, and the theorems follow.

**`Induction`**: the code folds over reports, lines, digests and events, and the models say so with recursive functions.
The library's induction theorems take an operator as a parameter, which the installed provers cannot instantiate, so
the same facts are stated here about sets and functions, from the library's theorem that numbers have no infinite
descent. `Least` and `Greatest`: a set of numbers has a least, and a bounded one a greatest, member. `UpTo`: a set that has
0, and the next of each of its members, has all. `Recursion`: what a recursive definition says of its function is true of
it. `FlattenSteps`, `FlattenAt` and `FlattenIs`: where each member of a sequence of sequences lands when they are joined.

**`QemuVmProofs`**: `TypeCorrect`, `LogMatchesBuffer`, `ConsoleWhole`, `QemuFirst`, `SavedIsFinal`, `NothingLeft`, and the
action property `OpenLogOnly`, for every number of pieces of output and flash writes. `IInv` is `TypeOK` and

- `ReaderInv`: what the reader's position, the lock, the stop event, the log and the piece in hand have to do with each
  other. The reader holds the lock exactly between its write and its extension, in between the log is the buffer plus
  that piece; it got past the stop event under the lock or the log is still open. `LogIsBuffer` and
  `WritesOnlyOpenLog` follow;
- `ChildInv`: which children can be running at each `pc`, and which have been sent a signal. `TpmOutlivesQemu` and the
  first part of `NothingLeftBehind` follow;
- `DiskInv`: when the sockets, the directory, the files and the saved image can exist. `SavedImageIsFinal` and the rest
  of `NothingLeftBehind` follow; it needs `ChildInv`, since a running QEMU writes flash;
- `ConsoleUnbroken`, which is inductive given `ReaderInv`: lemmas `Cut`, `Assoc`, `AppendAfter` and `OneMore` say what
  the reader's cut and the guest's append do to the concatenation.

**`ExpectProofs`**: for any calls, text and times. `Refinement` shows that `Expect` implements `ConsoleStream`: every step
is one of `CS!Next` or leaves `text` and `cursor` alone, since a match that is found in the copy is the first in the
buffer too. `TypeCorrect`, `GoneNoticed`, `TimeoutBounds`, `HungIsSilent`, `StuckIsSilent` and `NoSecondAnswer` follow
from the parts of `IInv`: `SilenceInv` (how much the wait has seen, and since when nothing came), `DeadlineInv` (a poll begins
before the deadline and makes two QMP commands at most), `GoneInv`, and `SendsInv`, where the work is: answers are looked
for past the last one, and no appearance of the needle ends before one, so that the cursor, whenever it moves, is past
all answers ever sent.

`PromptsAreAnswered` (no guest is called hung at an unanswered prompt) holds
under a hypothesis, `MaxText * PollTime < Idle`: `expect` sends one answer to a
prompt in a poll, so a guest that printed more prompts than there are polls in
`Idle` is given up before the last is answered. `PollTime` is a poll with the
QMP commands it can make. The code's 90 seconds are 1,800 polls of a twentieth
of a second when QMP answers at once, and a few polls when every QMP command
waits its ten seconds out. The hypothesis is sufficient and not necessary: the
run checks the property at constants that do not satisfy it, where the needle
and the failure leave room for fewer prompts than symbols. `PromptsInductive`
is the invariant: `SkipInv`, that every appearance before the place searched
from has been answered, and `CountInv`, that this place has moved by one symbol
at least in every poll since the last output.

**`QmpClientProofs`**: `TypeCorrect`, `AnswersAreAwaited` and `QuietQemu`, for any number of events and any cut into reads.
`QuietQemu` has the hypothesis that no part of the greeting is in what was read: limit A.
`StreamInv` speaks of the bytes read and the bytes on the way together, which no cut changes: messages are whole
(`Framed`), and what the connection carries since the client last sent is nothing, one answer, or that and events.

**`ImageCacheProofs`**: `TypeCorrect`, `TrustsWhole` and `MadeOnlyOnce` for any length of file, number of stops and choice
of files, under `OneRun`: runs come one after the other. With two at once `TrustedIsWhole` is false, as finding 3 shows.
`IInv` says that no two names share an inode, that the file being written is the temporary one, that what no hash guards
(the image, the firmware and the unpacked QEMU, of which the check sees the binary and a directory only) is written right
so far, and that what is about to be renamed is whole and has no final name yet.

**`BootSessionProofs`**: `TypeCorrect`, `BegunOnce`, `TestsHaveTheirBoots`, `PoolIsDrained` and `OneRunDir`, for any tests
and boots, any size of the pool and any number of other sessions. `IInv` has `TestInv` (what pytest has reported, and that
every boot set up for the test that runs reached the shell), `PoolInv` (a boot was begun exactly when it is no longer
waiting; it was begun by the pool or inline, and a boot inline is one nobody submitted), `DirInv` (the holder of the lock
is the one thread between making the directory and keeping it) and `CellInv` (the settings read at the import are the
cell's configuration's, for each configuration in the table, whatever the caller had set).

`ResultsTell` proves `ResultsTellTheRun`. Three folds over the same reports are compared: `_outcome_per_test`, where the
last phase that did not pass decides, `_records`, where earlier phases count too, and pytest's own count. `ReportsInv`
describes the sequences pytest can make: an expectation excuses or fails a marked test and no other, and behind a phase of
a test that did not pass comes its teardown alone, which may pass, raise or skip, in a marked test too. Along the reports,
each fold is then told by a few facts of those behind it: whether a phase did not pass, whether one failed, and what the
teardown came to. `EnvironInv` is the part about the cell: whatever the caller's environment was, what `_details` reads at
the finish is the cell's release and configuration. The theorem does not say that `ok` and the outcome agree, which is
false (limit C).

`PageAccounts` proves `PageExplains`, for results of any number of cells in any order: the last of two results of one
cell is found (`Greatest`), a badge's tests and a section's notes are taken from the same results, and a badge is red
for a test that is not ok, of which the notes have one. `OthersAssumption` says what `_records` can have written in
another session: what is failed is not ok, what passed or was skipped is, and an x outcome is either, since limit C
writes `xfailed` that is not ok and an expectation that is not strict `xpassed` that is. So the note a red badge has may
be a count of expected failures; where each record of the release agrees with itself, it is one of failures.
`CellsAssumption` says that a cell's configuration is in the table, which is where the matrix takes it from.

**`ConsoleProofs`**: for any menu, images, typed boots and number of commands. `TypeCorrect`; `OutputIsOwn`; `TypingInTurn`;
`BootsWholeEntry`: what is booted by typing is booted when the whole of what was read off the image, and nothing else, has
run. The driver sees marks only, so `PlaceInv` says what its place implies of the guest, the keys in the serial port and
the marks past the cursor; `PortInv`, `RanInv` and `DrawnInv` say the same of the guest's side, where the driver may have
given up. `PicksWhatIsAsked` (what boots is what was asked for) is proved for `~Starved`, for every menu whose titles
may begin one another: `PickInv` says that while a move is waited for, either nothing was drawn and the highlight is
where it was, or the highlight is on the next entry and no key is left. With `Starved` it is false, which is finding 4.

`TypesWhatTheMenuRuns` proves `TypesTheEntry`, for every file of blocks. `EntriesRead` is the induction, over the file's
blocks and in each over its lines (`BlockRead`): after a block the reader is outside any entry, and each title it has found
is that of an entry so far, with the commands up to that entry's first closing brace; of two entries with one title it
keeps the last. Other lines never begin an entry, and a closing brace outside one changes nothing (`BlockSkipped`), so what
stands behind a group's brace is skipped like a setting. `EntryFound` adds the parameter: on the kernel's lines alone, and
refused when there is none. `ReaderReturns`, that what is returned is a list of commands, is a lemma with no assumption
behind it. `ReadInv` says that a boot that was begun is one the reader did not refuse. `ImagesAssumption` says that a file
is blocks, of any lines but, inside one, a line that begins an entry the reader knows. It is what `GrubCfg` has of a file and
not GRUB's syntax: the reader's odd titles, and its loss of what follows a group's brace (limit B), are the reader's.

**`EventLogProofs`**: `LogReads` proves `ReadsBack` and `LogReplays` proves `ReplayIsPcr`, for any sequence of distinct banks
among the four the parser has names of, any digest sizes, any number of events with any digests and data, any tail of
zeros, and any number of Xen lines at any place in the hex.

- The writer's side: `Encoded`, `Header` and `Written` are what they are joined of, each part `At` its offset.
- The reader's side: when a part is `At` an offset, the operator that reads it there returns it and stops behind it:
  `WordAt`, `SliceAt`, `AlgorithmsRead`, `DigestsRead` (an induction over an event's digests, in whatever order),
  `EventRead`, `EventsRead` (over the events, up to the first zero count or the end). An algorithm's size is found since
  the banks are distinct.
- The console: `SplitSpells` says that a Xen line does not change the digits, wherever it lands, and `HexReads` that bytes
  come back from their digits. `DumpInv` keeps that what is on the console spells bytes that `Reaches` the log: they are
  its own, and past the end of either there are zeros, sixteen at most that the dump lacks. That is exactly the
  padding `parse` adds, so that the last event's dropped zeros are there again when it is read.
- The replay: `LogInv` says that a PCR is what the log `Comes` to, event by event; `ReplayIs` that a replay is too.

`DeclaredAssumption` says what a TPM's banks are; `MeasuredAssumption` and `BoundsAssumption` that data are bytes, that a
digest has its bank's size, and that lengths and sizes fit the 32 and 16 bits of their fields, as they do in any log that
was written at all. The 32-bit fields stop at 2^31 - 1, TLC's largest number.

Only model-checked is liveness: `BlockMoves`, `WaitEnds`, `CommandEnds`, `RecoversFromStops` and `SessionEnds`. It needs
`ENABLED` and fairness, which TLAPS's backends do not take. `PicksTitle` is proved for `~Starved`, `ImageCache`'s properties for `OneRun`,
and `HungWasAnswered` under a hypothesis that the run does not need, as said above; every other invariant and action property
of the passing runs is proved as it stands.

## Not modelled, and why

- `tb-boot` (`boot.py`): one QEMU in the foreground. Two of its hazards are among those listed: it copies the firmware straight to the
  name it trusts afterwards, where `ImageCache` shows what the temporary name is for; and it waits for the TPM emulator
  without a timeout, where `QemuVm` shows what the timeout is for.
- `machine.options`, the argument lists of `qemu_vm.py`, KVM detection: QEMU's machine is outside the repository.
- `wait_for_qmp`: a caller's loop over `QmpClient`, which changes nothing.
- `matrix.py`'s `workflow_matrix` and the choice of releases: command line handling.
- `grubcfg.py`'s way to the file, through the partition table and mtools; `bundle.py`'s packing: I/O and release tooling.
- `report.py`'s wording, order of lines, header and `write`; `docs/`, CI and packaging.
- `Console`'s PCR readers: one expression each over a command's output.
- The tests: assertions on what a boot left. They were read for what the code promises. So is the table of entries.
- Ports and socket names taken by others between choosing and binding: the code's comment accepts it.
- A run directory made and a timestamp that then cannot be written: the directory is not remembered, and the next thread
  makes another. A full disk is the only way there.

## Plan

Models: `BootTime`, the backstop of 900 seconds against the sum of a boot's waits, of which `Expect!EndsByDeadline` bounds
each; `tb-boot`'s lifecycle, with an emulator that ignores its signal and a copy made in place.

Proofs: every safety property of the passing runs has its theorem. What a `BootTime` would add is arithmetic over
`Expect!EndsByDeadline`, and so within reach.

No module declares a `RECURSIVE` operator, so that each can be proved about.
