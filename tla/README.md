# A TLA+ model of CSSC

CSSC is a free version of SCCS. A *history file* (s-file) holds all versions
(*deltas*) of one text file, in a header (the delta table, flags, users) and a
*body* in which the lines of all versions are interleaved. Separate programs
(`admin`, `get`, `delta`, `unget`, `rmdel`, `cdc`, `prs`, `val`, ...) read and
rewrite it; they share no memory and meet only in files.

The modules here are translated from the code under `src/src/`; `PROJECT.json`
gives, for each definition, the lines it stands for.

## 1. Inventory

| Component | State | Operations | What makes it correct |
|---|---|---|---|
| **Version selection** (`seqstate.cc`, `sf-get.cc`, `sf-get3.cc`) | per delta: included / excluded / ignored / explicitly tagged; open `^AI` and `^AD` brackets | `prepare_seqstate`, `start`, `end`, `include_line` | the lines selected for a delta are those checked in as that delta |
| **Body scanner** (`body-scanner.cc`, `sf-delta.cc`, `sf-rmdel.cc`) | body lines, line counts | `get`, `delta`, `remove` | brackets stay matched; a check-in changes no other version; a removal removes one version only |
| **Diff reader** (`diff-state.cc`) | position in diff's output, run of lines left | `process`, `next_state` | it reads to the end every output diff can print |
| **Command locking** (`sccsname.h`, `filelock.h`, `fileiter.cc`, constructors and destructors of `sccs_file`, `sccs_pfile`) | `lock_cnt_`, z-files | `lock`, `unlock`, clean-up, fatal signals | a file is rewritten only by the owner of its z-file; no update is lost; commands end |
| **z-file creation** (`file.cc`) | z-file, auxiliary files `nfslckN`, link counts | `atomic_nfs_create`, `~file_lock` | one owner at a time; every call returns |
| **SIDs** (`sid.cc`, `sf-get2.cc`, `delta-table.cc`) | delta table, p-file, flags | `find_requested_sid`, `find_next_sid`, `test_locks` | the next SID is free |
| **Edit cycle** (`get.cc`, `delta.cc`, `unget.cc`, `rmdel.cc`, `pfile.cc`, `pf-*.cc`, `sf-write.cc`) | s-, x-, p-, q-, g-file | `get -e`, `delta`, `unget`, `rmdel` | reservations are exclusive and stay good; the history survives crashes |
| **Header** (`parser.cc`, `sccsfile.cc`, `sf-write.cc`, `rel_list.cc`) | flags, users, description, delta table, checksum | reading, `write`, `end_update` | what a command reads is what the last one meant; the checksum and the encoded flag are right |
| **Administration** (`admin.cc`, `sf-admin.cc`, `cdc.cc`, `sf-cdc.cc`) | the header, MRs and comments of a delta | `admin -n -i -b -f -d -a -e -t -z`, `cdc` | what is taken back is gone, and nothing else disappears |
| **SID lists** (`sid_list.h`) | ranges of SIDs | construction, `clean`, `member`, `print` | a list means the ranges the user gave, in `get` and in `delta` |
| **Validation** (`sf-val.cc`) | deltas seen, deltas known to be free of loops | `validate`, `check_loop_free` | it accepts what the program makes and finds every loop |
| **Dates** (`sccsdate.cc`) | year to second | reading and printing in a file, reading from a command line, comparing | a cutoff leaves out what was made after the period it names, whatever way the date has gone |
| **Reports** (`sf-prs.cc`, `prs.cc`, `sf-prt.cc`, `prt.cc`) | the options that select deltas | `prs`, `prt` | the reports before and after a point are together the history |
| **Front end** (`sccs.c`) | the rest of a macro; p-file and g-files, which it changes itself | macros of programs, `fix`, `unedit`, `clean` | nobody's work disappears, and a lock goes with the right text |
| Other reports, keywords, uuencoding, options, privileges | | | not, or only partly, modelled: section 8 |

How they interact. Every command works through its files with one `sccs_name`.
`get -e` opens the p-file (which locks), selects a version (`find_requested_sid`,
`test_locks`, `find_next_sid`), writes the g-file through the body scanner, and
adds a lock to the p-file. `delta` opens the s-file and the p-file (both lock),
retrieves the old version, runs `diff`, rewrites the body, replaces the s-file
through the x-file and then the p-file through the q-file. `unget` only rewrites
the p-file, `rmdel` only the s-file. `sccs` runs these programs one after another, each under
its own lock, and rewrites the p-file in `unedit` under none.

What is hard here: two commands at once on the same file (locking); commands of
several users that are hours apart (reservations), or fall between the programs of a macro; crashes and failures between two
system calls; long histories of check-ins, branches, lists and removals whose
effect shows only when some old version is retrieved; and the header, which every command
rewrites from what it has read, so that a wrong conversion shows in a later command.

## 2. Modules

| Module | Models | Uses |
|---|---|---|
| `SeqState` | `seq_state` and `prepare_seqstate`; a flag is the set of the sequence numbers that have it | |
| `DiffState` | `diff_state`; diff's output for a given edit script (external) | |
| `DeltaTable` | an entry of the delta table: `write_delta` and `read_delta` | |
| `Weave` | body and delta table under `delta` (one action per line of the body), `rmdel` and `get` | `SeqState`, `DiffState`, `DeltaTable` |
| `WeaveProofs` | proofs about these | `Weave`, `OperatorProofs` |
| `CommandLocks` | processes, files, lock counts, z-files, what each process has read | |
| `CommandLocksProofs` | proofs about it | `CommandLocks` |
| `NfsLock` | creation of one z-file, one action per system call | |
| `NfsLockProofs` | proofs about it | `NfsLock` |
| `Sid` | SIDs, `find_requested_sid`, `find_next_sid`, `test_locks` | |
| `OperatorProofs` | lemmas about what `Sid` finds and about how `diff_state` reads what diff prints; before that, for all proofs, that functions defined by recursion over an interval exist, and induction over one | `Sid`, `DiffState` |
| `SidLists` | the lists of `-i` and `-x` as `range_list` keeps them, and their way through the p-file | `Sid` |
| `EditProtocol` | the files of one history under the four commands, one action per system call | `Sid`; refines `EditLocks` |
| `EditLocks` | the abstract edit cycle: current SIDs and locks | |
| `EditProtocolProofs` | proofs about both | `EditProtocol`, `OperatorProofs` |
| `Admin` | the header under `admin` and `cdc` | |
| `AdminProofs` | proofs about it | `Admin`, `OperatorProofs` |
| `Dates` | `sccs_date`: a date is a sequence of six fields, its form in a file a record | |
| `Reports` | which deltas `prs` and `prt` report | `Sid`, `Dates` |
| `Val` | `val`'s search for loops of predecessors and its checks of dates and of the order | `SeqState`, `Dates` |
| `History` | the delta table with its dates, growing and shrinking, and what `get -c`, the reports, `val` and SID lists make of it | `Reports`, `SidLists`, `Val` |
| `HistoryProofs` | proofs about it | `History`, `OperatorProofs` |
| `FrontEnd` | the commands of `sccs` by several users on one history file | `Sid` |
| `FrontEndProofs` | proofs about it | `FrontEnd`, `OperatorProofs` |
| `MC...` | values of the constants for TLC | |

An operator `Mutant...` before a definition is a plausible mistake in the code that
the definition stands for; nothing uses it in the model.

The state and the code:

* `Weave`: `table` is the delta table by sequence number, `body` the lines of the
  body. The text of a line is `<<delta, index>>`, the delta that inserted it and
  its place among that delta's lines, so lines differ exactly when the model must
  tell them apart. `scan` is `delta` in progress: the position in the old body, its
  `seq_state`, its `diff_state`, diff's output, the new body so far and the counts.
  `checkedIn` is a history variable, the g-file of each check-in; no action reads
  it, except that a null delta has its predecessor's text by definition. Where the
  code stops because the file is corrupt there is no step; that this never happens
  is the property `ScanNeverStuck`.
* `CommandLocks`: one loop iteration of a command is `NextFile`, `Lock`,
  `OpenFirst`, `OpenSecond`, `WriteS`, `WriteP`, `Close`, or one of the early ends
  `LockFails`, `OpenFails`, `Refuse`. A file is the set of the updates recorded in it,
  and a write stores what was read together with the new update, so that an update is
  lost exactly when a stale copy is written back. `rmdel` stands for all commands that
  rewrite only the s-file (`rmdel`, `cdc`, `admin`).
* `NfsLock`: `zfile` and `nfslck` are directory entries, and an inode is named after
  the call that made it.
* `Admin`: `file` is the history file: its flag lines, the stored checksum, users, description,
  the MRs and comments of its delta, and how the body is stored. The argument of a flag is a
  sequence of tokens, so that writing a list with separators and reading it back is
  modelled by what it does. `rest` is what all bytes but the encoded flag's add up to. `meant` and `undone` are
  history variables: the flags the last writer had in memory, and what it took back.
* `DeltaTable`: whenever `Weave` changes the table it is written and read (`Reread`), so what the
  next command works with has been through `write_delta` and `read_delta`.
* `History`: `file` is the delta table with its dates as they are written; every action reads all of it and
  writes all of it. `made` is a history variable, the moments at which the deltas were really made.
* `FrontEnd`: `cmd` has the programs that a user's command has still to run; a program is one step, and
  `unedit` and `clean`, which take no lock, are one step per file operation. What a command does before its first
  program reads nothing, so that a command begins with its first program. A program may fail before it has changed
  anything (`Fail`), or end early with part of its work done: `get` after the g-file and before the lock, or with the lock and no
  success; `delta` after the s-file and before the p-file, or before it removes the g-file; `unget` between p-file and g-file; and all
  locks may get lost when the q-file cannot be renamed (`GetStops`, `DeltaStops`, `UngetStops`). A `get` whose body cannot be
  retrieved removes the g-file and still exits with success, so that the macro goes on (`GetLoses`, `get.cc:544`).
  Replacing the s-file is one step here: what may happen between its removal and the renaming of the x-file is in `EditProtocol`.
  The history variables are `passed` (another command changed the delta table while the one ran that gave the user his lock),
  `botched` (a `get` of the user ended without the g-file or an `unget` removed the g-file and left the lock) and `damaged` (an `unedit`
  has met a change of the p-file, `clean -b` a file being edited, or a SID has been checked in twice).
* `EditProtocol` and `Weave`: `use` is the way the history file is used (flags, lists, removals, bounds); it is chosen at
  the start from the constant `Uses` and never changes.
* `EditProtocol`: `run` is the command that holds the z-file. Its fields `table` and
  `locks` are what the command will write; `pc` is the next system call.

## 3. Runs

Passing runs:

| Run | What it shows |
|---|---|
| `weave` | For all histories of up to 4 deltas (branches, one automatic null delta per check-in, removals), `get` returns every version as it was checked in, `get -m` names the right delta, a cutoff gives the ancestor of that date, the counts add up, and neither `delta` nor `rmdel` meets a body it cannot read. The same for versions made with `-i` and `-x`, when the lists are *disciplined*: an included delta brings no lists of its own and is not one that the version already excludes (see section 7). |
| `locks` | Commands of two processes on one file or two, which may fail at the last file and may be killed: an updater owns the z-file, no update is lost, and no command waits for ever unless the z-file of a killed command is in its way. |
| `edit` | SIDs are unique, reservations exclusive and free, no edit is refused as already done, and the system calls of the commands implement `EditLocks`: without joint editing and with null deltas, with joint editing (also the assertion of `find_next_sid`), and with a default SID on a branch, a ceiling and a locked release. |
| `edit_crash` | Kills between any two system calls, and failing `remove` and `rename`: the s-file or a complete x-file always exists, deltas being edited stay, and commands end even when a q-file was left behind. |
| `nfs` | Three processes create the z-file: one owner, who owns the file that is there, and each call returns. |
| `admin` | A file is created and then changed by `admin` and `cdc` any number of times: flags survive the way through the file, the encoded flag and the checksum are right, an unlocked release is not locked and an erased user is gone, and no comment or MR disappears without a trace. |
| `history` | Deltas made at any of five moments, in any order, in files begun by CSSC or by an SCCS that writes years differently, any number of times rewritten: a cutoff of `get -c` leaves out exactly what was made after the year, month, day, hour, minute or second it names; `prs -l` and `prs -e`, `prt -c` and `prt -r` divide the history; `prt -y` ends at its SID; `val` accepts every table and finds every loop that one wrong predecessor makes; lists of two or three ranges mean what they say, also after the p-file. |
| `front` | Two users with a directory each run `edit`, `delget`, `deledit`, `branch`, `fix`, `unedit`, `clean` and the single programs, any of which may fail, and one with part of its work done: a file being edited goes away only by its user's own `delta`, `unget` or `unedit` (or `clean -b`), the delta that `fix` removes is the one that the user has a copy of, and a lock goes with the text of the delta that was gotten; the exceptions are in the properties. |

Runs that end in a violation, each refuting what a comment, a document or an assertion
of the repository says:

| Run | What it shows |
|---|---|
| `locks_leak` | A constructor that throws leaves `lock_cnt_` at 1; for the next file of the same command `lock()` creates no z-file, and the file is updated without one. |
| `edit_next_sid` | Without joint editing `find_next_sid` looks for a free branch without looking at the p-file, and its closing assertion fails. |
| `nfs_twice` | The auxiliary file is not unique: processes unlink each other's, and two of them hold the lock. It takes a second call by one of them. |
| `weave_keyword_removed` | With a cutoff, `get` may look up a removed delta for the keywords and use the null pointer it gets. |

`CHECK_DEADLOCK FALSE` is given everywhere: histories end at their bound, and
processes that have done their commands stop.

## 4. Bounds

* `weave`: two uses. Without lists: 2 initial lines, 4 deltas, up to 1 line inserted by each at any
  place, any subset of the lines deleted. Four deltas give two branches with a
  deletion on one and an insertion on the other, a null delta in between, and a removal
  followed by a new check-in. With two lines there are hunks at the beginning, in the
  middle and at the end, adjacent hunks, and changes. With lists: 1 initial line, 4 deltas, one
  listed delta, enough for a version that inherits a list from its predecessor. The proofs
  (section 6) cover any number of lines, deltas and listed deltas.
* `locks`: 2 processes and 2 files; every pair of kinds of commands. The proofs
  (section 6) cover any number.
* `edit_*`: 2 users, 2 locks, 3 or 4 deltas, 2 or 3 releases: branches of branches need
  3 deltas, null deltas a skipped release (3).
* `history`: 4 deltas, so that a branch and a removed delta may be anywhere in the order; the moments are the two
  ends of the century that two digits can name, the last second of 1999, and a leap day with the day after.
  Every cutoff that abbreviates one of them is tried. The lists are of three ranges between current SIDs, and of two
  between current SIDs and the ones after them (adjacent ranges are merged), for tables of one date only.
* `front`: 2 users, 3 deltas, one release above the first: enough for a branch, its removal by `fix`, and a
  delta of the other user between the programs of a macro. `MaxFailures` is 1: one program of the whole behaviour stops
  half-way; simple failures (`Fail`) are not bounded. The proofs cover any number.
* `admin`: 2 releases, 3 keyword letters, each flag with a conversion of its own
  (`c`, `l`, `v`, `y`), a command that sets one flag of each other kind, among them `y`, a list of locked
  releases that ends at a letter and one with a range, which is refused, 2 users, 2 MRs, 4 comments,
  the checksum modulo 2 so that it wraps. `BinaryUpdate` is `FALSE`: `admin -b` is used for new files only.
* `nfs`: 3 processes, 3 attempts instead of 10000, one lock call each with hard links (a
  second one fails, `nfs_twice`), two without. The proofs cover any number without links.
* `MaxLocks`, `MaxDeltas`, `MaxCalls` and so on only cut behaviours off; they are guards of the
  actions that begin a command, never of a step inside one.

Symmetry is used for users where the run has no liveness property.

## 5. Fairness

`CommandLocks!FairSpec`, `NfsLock!FairSpec` and `EditProtocol!Spec` assume weak fairness of
the steps of a started process, and nothing else: the operating system schedules
a runnable process. Starting a command, being killed and removing a stale z-file
are not fair. Waiting for a z-file is a loop with sleeps; the model's `Lock` is enabled
when the z-file is absent, and weak fairness is enough because a process that keeps a
z-file is itself fair and each process runs one command only.

## 6. Proofs

`WeaveProofs`, for every way of using a history file (`Uses`): any number of initial lines, deltas, null deltas and
listed deltas, any edit script, with and without removals:

* For any lists of `-i` and `-x`: `ScanNeverSticks` (`ScanNeverStuck`), `RemovalIsClean` (`RemovableDeltaIsTerminal`),
  `AnnotationIsRight` (`AnnotationNamesInserter`), `TypeCorrect` (`TypeOK`), and `CutoffIsAncestor`
  (`CutoffGivesAncestor`, which is itself about tables without lists).
* `WhatIsCheckedInIsKept` (`RetrievedIsCheckedIn`) whenever `Steady`: the lists are disciplined, or no delta of the table
  has a list. Section 7 shows that other lists do break it.
* `CountsAreRight` (`CountsAddUp`) whenever `Steady` and `CountsFit`: no text has more than 99999 lines. The five
  digits of `cap5` cannot say more.

Each of these speaks of what a command would get out of a file between two commands, and none says why the next check-in
leaves it so. The invariant is `IInv`:

* `TableOK`: the table is `Sound` (predecessors and lists name earlier deltas, and a current delta depends on current
  ones only), so that what `seq_state` selects for a delta depends on that delta's past (`VersionOf`).
* `BodyOK`: the body is a weave. Its brackets are those of current deltas, nest by age and are all closed, a line of
  text stands directly within its inserter's bracket, and a bracket stands within the insertion of another delta only if its own delta
  depends on that one (`Below`).
* `TextsKept`, `CountsKept`: for a `Steady` table the body gives each current delta its text, and the counts fit.
* `Busy`, while a check-in is in progress: there are a version W, an edit script and a place, i lines of the body read and c
  lines inserted since, such that `seq_state` has just the brackets open that are open after line i (`Reading`);
  `diff_state` is where the script says (`ReaderAt`, through the layout of diff's output, `Laid`); and the body written so far gives every
  version without the new delta what the old body gave it, and W with the new delta what the script has made so far (`Progress`, `Made`).

That gives the argument its parts. `seq_state`: the three loops of `prepare_seqstate` as sets, closed under dependency, and
not disturbed by younger deltas; with disciplined lists, `get` redoes what the check-in saw. `get`: it outputs the version (`Version`) of any set of
deltas that is closed under what encloses what. `diff_state` (in `OperatorProofs`): for every script, whatever runs of deletions and insertions it has, `process` answers
for the next line what the script says, and the brackets it prints close and open what has to be. `rmdel`: a
delta on which nothing depends encloses no other's bracket, and without its lines all other versions are as they were. The
delta table: reading gives back what was written, the lists whichever of them are absent and the counts up to five digits. `IInv` quantifies over scripts and
sets of sequence numbers and is not a run's invariant; TLC has checked `TableOK`, `BodyOK`, `TextsKept` and `CountsKept` on the instance of `weave`.

`CommandLocksProofs`, for any processes, files and commands:

* `TypeCorrect`: `Spec => []TypeOK`. The lock count of an `sccs_name` is never negative.
  Needs `CountAtLeast`: the count is at least the number of the objects that will unlock.
* `UpdatesAreLocked`: `Spec => []LockedWhenUpdating`, and `UpdatesAreNotLost`:
  `Spec => NoLostUpdate`, both assuming `NoLeftoverCount`: a file that can make a command leave
  its lock count behind (unreadable, refused by `get -e`, or contended until the attempts
  are used up) is always the last one of a command. `locks_leak` shows that the
  assumption is needed.

Neither property is inductive: that a writer owns the z-file depends on `Lock` having
found a count of zero, and that depends on how the previous iteration ended; that no update is
lost depends on the copy not being stale. The invariant is `SafeInv`, the
conjunction of `TypeInv` and, for each process, `CountOf` (the count is exactly the number
of live objects, and zero before each file), `HoldsOf` (from `Lock` to `Close` the process owns the
z-file of its file) and `SeenOf` (what it has read is still what the file
holds). `SeenOf` is preserved by the steps of others because two busy processes
work on different files (`DifferentFiles`) and a step changes only the file it
works on (`Frame`).

`EditProtocolProofs`, for any users, releases, bounds and ways of using a file (`Uses`):

* With kills and failing calls: `FilesAreWellFormed` (`TypeOK`), `HistoryIsNeverLost` (`HistorySurvives`, where the
  rename of the x-file cannot fail; section 7 shows what happens when it does), `LockedDeltaExists`
  (`GottenDeltaExists`), `DeltasHaveOneEditor` (`OneEditorPerDelta`), `JointAssertionHolds` (`JointNextSidIsNew`).
* Where nothing is killed and no call but the removal of the s-file fails (`Undisturbed`), and null deltas are made only
  without joint editing and with a default SID of no or three components (`NullsAreTame`):
  `SidsAreUnique` (`UniqueSids`), `ReservationsAreExclusive` (`ReservedSidsAreFree`), `ShouldNotHappenDoesNot`
  (`NeverAlreadyEdited`, where the default SID is not a complete one), `ImplementsEditLocks` (`Refinement`, from one
  initial delta) and `PromiseKept` (`Abstract!Promise` of the files at every moment; it has no run of its own).
  Section 7 shows that a crash, or null deltas under joint editing, do break them.

None is inductive. The invariant of the second group is `CycleIInv`: `TypeInv`, `FilesInv` (which of the s-, x-, p- and q-files exist before each call of the running command,
and what they hold; `PlacesInv` has the rest of that for commands that are not killed) and `CycleInv` (the table and the p-file are
`Consistent` between two commands: a lock was gotten from a current delta and is for a free SID, no two locks are for
one SID, SIDs are unique, and in a tame use every lock goes to its SID in one of three ways, `TameSid`, which is why the
null deltas of one check-in are in nobody's way; and what a running command is going to write is an
`Effect` of `EditLocks`). The main work is in `OperatorProofs`: the delta that the loop of
`find_requested_sid` ends with is current and the best one, the SID that `find_next_sid` answers is free under joint
editing (the search for a free number ends because the SIDs are finite: `FreeNumber`), and without it, in a tame use,
answers for different deltas differ (`TameAnswer`). TLC has checked `CycleIInv` on the instances of `edit` (without
crashes) and its part about files on `edit_crash`.

The first part of `OperatorProofs` is what lets all these proofs speak of loops. The loops of the code are functions
defined by recursion over an interval, and the prover knows nothing of them beyond `CHOOSE`. `UpwardRecursion` and
`DownwardRecursion` show, by the least-number argument (`LeastNumber`), that such a function exists;
`UpwardInduction` and `DownwardInduction` are the induction over its domain. Both are stated for sets, not for operators.

`NfsLockProofs`, for any number of processes, calls and attempts: `NamesAreWellTyped`; `HolderMadeTheZFile` (`HolderHasZFile`)
and `LockIsExclusive` (`MutualExclusion`) under `Undisturbed`: where there are hard links, no process removes the
auxiliary file of another that has still to link it or to look at its link count. Without hard links nothing is assumed. The hypothesis is what
the protocol relies on, and what a name of its own for every process, of which the code's comment speaks, would give it; the names that the
code uses do not (`nfs_twice`, and section 7). The run `nfs` shows that with three calls nothing goes wrong all the same. The invariant
`LockInv` says that a process finds its own auxiliary file until it has seen the link count (`OwnInv`), and that only the holder, or a process that
is going to see its link, has made the z-file that is there (`HolderInv`).

`FrontEndProofs`, for any users, releases and bounds: `FrontEndIsWellTyped` (`TypeOK`), `EditorsHaveTheirText`
(`EditMatchesLock`) and `EditorsWorkIsSafe` (`WorkIsSafe`). The invariant is `FrontInv`: `TypeInv` and, unless the
file is `damaged`, `SafeInv`: `TableInv` (a current delta is the youngest of its SID, the current trunk is a chain, and a
delta on a branch has a current predecessor of its own release),
`LocksInv` (a lock, in the p-file or in the memory of an `unedit`, was gotten from a current delta, and is for a free SID or, if a
`delta` has left it behind, for one whose current delta has that predecessor; no two are for one SID or of one delta),
`UneditInv` (what an `unedit` has read is still what the p-file holds), `TextInv` (a user with a lock has the right text
or is among the exceptions the property names) and `PlanInv` (what the rest of a macro relies on; above all that, when `rmdel` is
next, a copy has the SID that `rmdel` is told to remove). Programs may stop half-way any number of times. TLC has
checked `FrontInv` on the instance of `front`.

In `EditProtocolProofs` and `FrontEndProofs` `AbsentIsNoFile` says that the value for a missing file is not a file.

`AdminProofs`, for any options of `admin` and `cdc`, any releases, letters, bounds and any modulus of the checksum:

* `EncodingAlwaysMarked`: `Spec => []EncodingIsMarked`, assuming `~BinaryUpdate`. The property alone is
  not inductive, as the next command decides from the flag it reads: the invariant `Marked` adds that an
  existing file has an `e` line at all (`write` always writes one, `HasLine`).
* `ChecksumAlwaysRight`: `Spec => []ChecksumRight`, by the invariant `Summed`. The only work is
  `rehack_encoded_flag`: adding one to the sum modulo 2^16 is the sum of the changed file.
* `AdminIsWellTyped` (`TypeOK`), `FlagsAlwaysSurvive` (`FlagsSurvive`), `TakenBackStaysGone` (`TakenBackIsGone`)
  and `NothingIsForgotten` (`NothingForgotten`), by the invariant `FlagsInv`: the lines of the file are those that
  writing the flags that were meant gives (`LinesOf`). `ReadBack` shows that reading such lines gives flags with the same meaning, flag by
  flag; `ChangeFlagsIs` and `WithoutIs` what the loops over the `-f`, `-d` and `-e` options leave.

`HistoryProofs`, for any moments from 1969 to 2068 and any length of the table:

* `HistoryIsWellTyped`: `Spec => []TypeOK`.
* `CutoffsSelectPeriods`: `Spec => []CutoffSelectsPeriod`, assuming `NoLeapSeconds`: the command line completes a minute
  with second 59, while `valid` lets the file have 60 and 61.

The invariant `DatesInv` adds that every date of the file, read back, is the moment at which the delta was made; it is
preserved by a rewriting because the window of `y2k_window` is the inverse of printing two digits
(`DateReadBack`), also for the forms of other writers. `LessIs` shows that `compare`, which goes by the day of the year, agrees with
the order of the calendar, leap years included (`MonthsInOrder`, an induction over `update_yearday`'s loop); `EndOfPeriod` that the date
`CommandLineDate` completes is before just those moments that are after the period.

* `ReportsAreSplit` (`ReportsSplitHistory`) and `PrtEndsAtItsSid` (`PrtEndsAtSid`). A report is a set of deltas, as its
  order is always the file's; what a loop of `prs` or `prt` reports on is then a matter of the first delta that it meets
  (`FirstMet`). The invariant is `HistoryInv`, that is `DatesInv` and `SidsInv`: every SID is sound, and of two
  deltas with the same one the older is removed (`SidsRight`), because the SID that `find_next_sid` answers is in no one's use (`NextIsNew`, from
  `OperatorProofs`). The reports at a moment further need that `compare` is a linear order on the moments
  (`MomentsInOrder`, `MomentsChain`).
* `ValFindsLoops` (`ValIsExact`). `check_loop_free` gives a way up as soon as it comes to a delta it has met before, on this way or
  on another. `WayHalts` shows that it does so within the length of the table (by the pigeonhole principle, `EndlessRepeats`),
  `LeadsAlong` that all deltas of a way lead to the root or none does, and `Remembers` is the invariant of `validate`: as long as there is no error, what is
  remembered leads to the root. `ValidateFindsLoops` is about every table whose predecessors exist, not only those of `History`;
  that val accepts the program's own tables is that a way into older deltas ends (`OlderLeads`).

The assumptions on the constants (`CommandLocksAssumption`, `EditProtocolAssumption` and so on) say only that
they have the right types, that tokens of different kinds differ, and that the moments of `History` are in their order.

Only model-checked: `ListsDenoteRanges` of `History` (merging in a sorted list is an induction over data of its own);
and all liveness properties (liveness under fairness is out of the prover's reach).

## 7. Limits, and further disagreements met while modelling

* `CommandLocks` takes the creation of a z-file as one atomic step. `NfsLock` models
  it in detail and shows (`nfs_twice`) that it is not always exclusive; the theorems about
  `CommandLocks` hold as far as it is.
* `EditProtocol` lets one command run at a time, which is what `CommandLocks` establishes
  under `NoLeftoverCount`.

These are reproduced by changing the configurations as said:

* Inclusions and exclusions. `prepare_seqstate_1` applies all inclusions, then all
  exclusions; at check-in the command line's lists come after both. With
  `lists |-> "any"` in `Listed` of `MCWeave`, a version made by including a delta that its predecessor
  excludes is not retrieved as it was checked in; with `lists |-> "include"` the same happens to
  a version that includes a delta with an include list of its own.
* Null deltas under joint editing. With `nulls |-> TRUE`, `deltas |-> 4` and `releases |-> 3` in `Joint` of
  `MCEditProtocol`, two users who skip the same release both make its null delta,
  and `ReservedSidsAreFree`, and with it `UniqueSids`, fails.
* A crash of `delta` between the s-file and the p-file leaves a lock for an SID that exists
  already; `delta` accepts it again and makes the SID a second time (`UniqueSids` as an
  invariant of `MCEditProtocolCrash.cfg`).
* A failing `rename` of the x-file: the s-file has been removed, `xfile_created_` is still
  true, and `~sccs_file` removes the x-file (`"rename_x"` added to `MayFail` in `MCEditProtocolCrash.cfg`
  breaks `HistorySurvives`).
* `admin -b` on an existing file sets the encoded flag and leaves the body as it is
  (`BinaryUpdate = TRUE` in `MCAdmin.cfg` breaks `EncodingIsMarked`); `docs/cssc.texi` describes `-b` for new
  files only, the code does not refuse it.
* Four callers. With a fourth process in `MCNfsLock.cfg` and hard links, one call each is enough to break `MutualExclusion`:
  each of them can remove the auxiliary file of another.
* A complete default SID. With `!.default = <<1, 1, 0, 0>>` in `Restricted` of `MCEditProtocol`, "this should not happen" does
  happen in `get -e` (`NeverAlreadyEdited`): `find_next_sid` takes the default for the requested SID, whatever `-r`
  says, so that while one user edits 1.1 and will make 1.2, the first idea for a user who edits 1.1.1.1 is
  1.2 as well. A default of a release alone together with null deltas is outside of what is proved (`NullsAreTame`).
* Macros. The last `get` of `deledit`, `branch` and `fix` has no `-r`. Without the disjunct `passed` of `EditMatchesLock`
  TLC shows a `deledit` between whose programs another user removes the new delta: the lock is then for another
  delta than the text is of. Without the last two disjuncts it shows the same in one user's hands, when a
  `deledit` was on a lower release, or `fix` removed a delta of a branch (it goes on with the trunk).
* `fix` without a copy. When the body cannot be retrieved or written, `get -k` removes the g-file and exits with success
  (`get.cc:544-548` goes on without setting `retval`), and `fix` removes the delta from the history. Without `botched` in
  `WorkIsSafe` TLC shows it. `docs/sccs.1` says that `fix` "leaves you with a copy of the delta".
* `fix` and a SID that is made again. `rmdel -r` looks for the SID, not for the delta that was gotten: if another user removes that delta
  and checks in one of the same SID between the programs, `fix` removes the new one, of which its user has no copy
  (`WorkIsSafe` without its last disjunct, with `MaxDeltas = 3`).
* A `delta` that stops after the s-file leaves its lock; others may edit the new delta, and the first user's next `delta` makes its SID a second time.
  The lock of the others then names a younger delta than the one they have (`EditMatchesLock` without `CheckedInTwice` in `Damage`).
* `unedit` rewrites the p-file from what it read, without the z-file. Without `damaged` in `FrontEnd`, locks made
  in between disappear and released ones come back. Also, it rewrites the file when nothing in it is the user's.
* `clean -b` removes a file that is being edited on a branch; `docs/sccs.1` calls this dangerous.
* `prt -y` compares dates, not SIDs: if a younger delta was made in the same second it stops there, and the SID
  that was named is not printed (`PrtEndsAtSid` without its condition). `docs/cssc.texi` says it "will be the last one printed".
* `prs -l -c` stops at the first delta that is too old, and misses younger ones behind it once the clock has been
  put back (`ReportsSplitHistory` without `InOrder`).

Seen in the code and not reproduced by a run:

* `prs -e -r` with a `-c` that the named delta is younger than reports nothing at all (`sf-prs.cc:714`): the
  delta is passed over before it counts as found. The model follows.
* A cutoff without seconds means second 59 (`sccsdate.cc:246`), so that it would leave out a delta made in a leap second.
* `docs/sccs.1` on `info -b` says branches are SIDs with two or fewer components; `isbranch` takes more than two.

* The letters of the `y` flag are read back together with their separators (`sccsfile.cc:408`); the
  model follows, and the meaning of the flag survives (`FlagsSurvive`).
* `validate` does not use the result of `validate_seq_lists` (`sf-val.cc:271`), and `seen_ever[s - 1] > 1`
  (`sf-val.cc:237`) is true only at the third delta with the same sequence number.
* `sid::comparable` (`sid.cc:98`) joins its two tests by `&&`, so branches of different trunk deltas
  of one release are comparable. The model follows.
* `range_list::remove` and `merge` are called by no program.
* `sccs_name::unlock` calls `unique_ptr::release`, which does not destroy the lock object;
  so z-files stay until the command ends, against the comment beside it
  (`sccsname.h`). The model follows the code.

## 8. Not modelled

* Users of the delta table; files that no CSSC command wrote (BitKeeper, corrupt
  lines; of foreign files only the dates are modelled); failing reads and writes of the header.
* Which keys `prs` prints, and how; `sact`, `what` and `sccsdiff`; `val`'s options and its checks of names; keyword
  expansion except the choice of the delta; uuencoding itself; privileges, options and error reporting. Conversions of
  text that change no file.
* Of the front end: paths, the environment, privileges, and the commands that change nothing.
  A user has one command at a time and a directory of his own: two commands of one user in two
  windows, or two users in one directory, are not modelled.
* g-files: `EditProtocol` only knows whether a user has a writable one, `FrontEnd` which delta's text it is.
* Flags do not change while a history is edited: `admin` is modelled by itself, not as a step of `EditProtocol`.
* Sequence numbers and SID components at the limit of `unsigned short`: a table of 65535 deltas is out of TLC's reach.
* NFS caching: system calls take effect at once.

## 9. Plan

Done: `SeqState`, `DiffState`, `DeltaTable`, `Weave`, `CommandLocks`, `Sid`, `EditProtocol` with `EditLocks`, `NfsLock`, `Admin`
and `FrontEnd` with proofs of all their safety properties; `SidLists`, `Dates`, `Reports`, `Val`; `History` with proofs about
all of it but the lists of SIDs.

Next, in this order:

1. A proof that `range_list::clean` keeps the meaning of a list (`ListsDenoteRanges`), whatever its length.
2. Flags as state: `admin` as an action of `EditProtocol`, so that joint editing, null deltas, the
   default SID and locked releases change while reservations stand (`sf-get2.cc`, `sf-chkid.cc`).
