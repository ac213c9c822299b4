---------------------------- MODULE EditProtocol ----------------------------
(***************************************************************************)
(* The edit cycle of one history file: get -e reserves the SID of the next *)
(* delta in the p-file, delta adds the delta to the s-file and takes the   *)
(* reservation back, unget only takes it back, and rmdel removes a delta.  *)
(*                                                                         *)
(* A command holds the z-file from its first look at the files to its end, *)
(* so one command runs at a time (CommandLocks); but it changes the files  *)
(* one system call at a time, and it may crash or fail between two calls:  *)
(* the s-file is rewritten into the x-file, removed, and the x-file        *)
(* renamed; the p-file in the same way through the q-file.                 *)
(*                                                                         *)
(* A table is kept as in module Sid; the text of the deltas is the subject *)
(* of module Weave.                                                        *)
(***************************************************************************)
EXTENDS Sid

CONSTANTS
  Users,         \* the users
  Absent,        \* a file that does not exist
  Uses,          \* the ways in which the history file may be used; in each of them:
                 \*   flags     the flags of the history file (see module Sid)
                 \*   nulls     is the n flag set?
                 \*   branches  the values of the -b option of get
                 \*   deltas    bound on the length of the delta table
                 \*   releases  bound on the releases that are asked for
  InitialDeltas, \* number of deltas, 1.1, 1.2, ..., at the start
  MaxLocks,      \* bound on the number of edit locks
  MayCrash,      \* may a command be killed?
  MayFail        \* the calls of remove and rename that may fail

ASSUME EditProtocolAssumption ==
  /\ \A x \in Uses : /\ x.nulls \in BOOLEAN /\ x.branches \subseteq BOOLEAN
                     /\ {x.deltas, x.releases} \subseteq Nat
                     /\ x.flags.joint \in BOOLEAN /\ x.flags.default \in WellFormed
  /\ {InitialDeltas, MaxLocks} \subseteq Nat
  /\ MayCrash \in BOOLEAN
  /\ MayFail \subseteq {"remove_s", "rename_x", "remove_p", "rename_q"}

VARIABLES
  sfile,   \* the delta table in the s-file, or Absent
  xfile,   \* the delta table in the x-file (<<>> while it is being written), or Absent
  pfile,   \* the set of the edit locks in the p-file, or Absent
  qfile,   \* the set of the edit locks in the q-file, or Absent
  gfile,   \* does the user's working directory have the (writable) g-file?
  run,     \* the command that holds the z-file
  use      \* the way this history file is used; it never changes

vars == <<sfile, xfile, pfile, qfile, gfile, run, use>>

Flags == use.flags

Idle == [pc |-> "idle"]
IsIdle == run.pc = "idle"

Entry(id, prev) == [sid |-> id, prev |-> prev, type |-> "D"]
Lock(user, got, delta) == [user |-> user, got |-> got, delta |-> delta]

\* The sccs_pfile constructor: no p-file means no locks.
LocksIn(file) == IF file = Absent THEN {} ELSE file
Locks == LocksIn(pfile)

-----------------------------------------------------------------------------
(* The commands, up to their first change of a file.                       *)

\* The SIDs a user may give with -r; NullSid is no -r.
Requests ==
  {NullSid} \cup {<<r, 0, 0, 0>> : r \in 1..use.releases} \cup CurrentSids(sfile)
    \cup {[id EXCEPT ![4] = 0] : id \in {i \in CurrentSids(sfile) : i[3] # 0}}

Retrieve(rid) == FindRequestedSid(sfile, rid, FALSE, Flags.default)

\* get -e goes as far as choosing the SID of the new delta.
MayEdit(rid) == ~IsNull(Retrieve(rid)) /\ TestLocks(Locks, Retrieve(rid), Flags)
NextSid(rid, branch) ==
  FindNextSid(sfile, Locks, EditRequest(rid, Retrieve(rid)), Retrieve(rid), branch, Flags)

\* get -e writes the g-file, unless a writable one is there.  Where the assertion at
\* the end of find_next_sid fails the program aborts before it has changed a file.
GetEdit(u, rid, branch) ==
  /\ IsIdle /\ sfile # Absent
  /\ Cardinality(Locks) < MaxLocks
  /\ rid \in Requests
  /\ MayEdit(rid)
  /\ NextSid(rid, branch).ok
  /\ ~InUse(sfile, Locks, NextSid(rid, branch).next)
  /\ ~gfile[u]
  /\ gfile' = [gfile EXCEPT ![u] = TRUE]
  /\ run' = [pc |-> "create_q", kind |-> "get", user |-> u, table |-> sfile,
             locks |-> Locks \cup {Lock(u, Retrieve(rid), NextSid(rid, branch).next)},
             replaces |-> Locks # {}]
  /\ UNCHANGED <<sfile, xfile, pfile, qfile, use>>

\* sccs_pfile::find_sid: the one lock of the user that -r names.
FindSid(u, rid) ==
  {l \in Locks : l.user = u /\ (IsNull(rid) \/ rid = l.got \/ rid = l.delta)}

\* delete_lock, as write_edit_locks obeys it.
DeleteLock(l) == Locks \ {l}

\* The releases between the gotten one and the new one.
SkippedSids(got, id) ==
  {<<r, 1, 0, 0>> : r \in (Release(got) + 1)..(Release(id) - 1)}
\* Mutant of NullSids: the loop runs up to the new release.
MutantNullSids(got, id) ==
  IF use.nulls THEN {<<r, 1, 0, 0>> : r \in (Release(got) + 1)..Release(id)} ELSE {}

\* They get a delta each (flag n).
NullSids(got, id) == IF use.nulls THEN SkippedSids(got, id) ELSE {}

WithDelta(table, l) ==
  LET nulls == Cardinality(NullSids(l.got, l.delta))
      n     == Len(table)
      seq   == FindDelta(table, l.got)
  IN  table \o [i \in 1..nulls |->
                  Entry(<<Release(l.got) + i, 1, 0, 0>>, IF i = 1 THEN seq ELSE n + i - 1)]
            \o <<Entry(l.delta, IF nulls = 0 THEN seq ELSE n + nulls)>>

Delta(u, rid) ==
  /\ IsIdle /\ sfile # Absent
  /\ gfile[u]
  /\ \E l \in Locks :
       /\ FindSid(u, rid) = {l}
       /\ FindDelta(sfile, l.got) # 0
       /\ Len(WithDelta(sfile, l)) <= use.deltas
       /\ run' = [pc |-> "create_x", kind |-> "delta", user |-> u,
                  table |-> WithDelta(sfile, l), locks |-> DeleteLock(l), replaces |-> TRUE]
  /\ UNCHANGED <<sfile, xfile, pfile, qfile, gfile, use>>

Unget(u, rid) ==
  /\ IsIdle
  /\ \E l \in Locks :
       /\ FindSid(u, rid) = {l}
       /\ run' = [pc |-> "create_q", kind |-> "unget", user |-> u, table |-> sfile,
                  locks |-> DeleteLock(l), replaces |-> TRUE]
  /\ UNCHANGED <<sfile, xfile, pfile, qfile, gfile, use>>

\* Mutant of IsLocked: the wrong field is compared.
MutantIsLocked(rid) == \E l \in Locks : l.delta = rid

\* is_locked of rmdel.cc.
IsLocked(rid) == \E l \in Locks : l.got = rid

\* rmdel refuses a SID that somebody has gotten for editing, or that has a successor.
Rmdel(u, rid) ==
  LET seq == FindDelta(sfile, rid) IN
  /\ IsIdle /\ sfile # Absent
  /\ rid \in CurrentSids(sfile)
  /\ ~IsLocked(rid)
  /\ \A i \in CurrentDeltas(sfile) : sfile[i].prev # seq
  /\ run' = [pc |-> "create_x", kind |-> "rmdel", user |-> u,
             table |-> [sfile EXCEPT ![seq].type = "R"], locks |-> Locks, replaces |-> TRUE]
  /\ UNCHANGED <<sfile, xfile, pfile, qfile, gfile, use>>

-----------------------------------------------------------------------------
(* Replacing the s-file: start_update, end_update and ~sccs_file.          *)

At(pc) == run.pc = pc
GoTo(pc) == run' = [run EXCEPT !.pc = pc]
\* Mutant of CreateX: the old s-file is removed before the new one is written.
MutantCreateX ==
  /\ At("create_x")
  /\ xfile' = <<>>
  /\ GoTo("remove_s")
  /\ UNCHANGED <<sfile, pfile, qfile, gfile, use>>

\* start_update creates the x-file; one that an earlier crash left behind is renamed to
\* x-file.bak, or overwritten.
CreateX ==
  /\ At("create_x")
  /\ xfile' = <<>>
  /\ GoTo("write_x")
  /\ UNCHANGED <<sfile, pfile, qfile, gfile, use>>

WriteX ==
  /\ At("write_x")
  /\ xfile' = run.table
  /\ GoTo("remove_s")
  /\ UNCHANGED <<sfile, pfile, qfile, gfile, use>>

RemoveS ==
  /\ At("remove_s")
  /\ sfile' = Absent
  /\ GoTo("rename_x")
  /\ UNCHANGED <<xfile, pfile, qfile, gfile, use>>

RenameX ==
  /\ At("rename_x")
  /\ sfile' = xfile
  /\ xfile' = Absent
  /\ IF run.kind = "delta" THEN GoTo("create_q") ELSE run' = Idle
  /\ UNCHANGED <<pfile, qfile, gfile, use>>

\* The body scanner, remove or rename fails (a line that is too long makes the
\* scanner fail): the x-file is removed, and the p-file stays.
UpdateFails ==
  /\ \/ At("write_x")
     \/ run.pc \in MayFail \cap {"remove_s", "rename_x"}
  /\ xfile' = Absent
  /\ run' = Idle
  /\ UNCHANGED <<sfile, pfile, qfile, gfile, use>>

-----------------------------------------------------------------------------
(* Replacing the p-file: sccs_pfile::update and what its callers do next.  *)

\* delta and unget end by removing the g-file; delta only after a success.
Succeed ==
  /\ run' = Idle
  /\ gfile' = IF run.kind = "get" THEN gfile ELSE [gfile EXCEPT ![run.user] = FALSE]

Fail ==
  /\ run' = Idle
  /\ gfile' = IF run.kind = "delta" THEN gfile ELSE [gfile EXCEPT ![run.user] = FALSE]

CreateQ ==
  /\ At("create_q") /\ qfile = Absent
  /\ qfile' = run.locks
  /\ GoTo(IF run.replaces THEN "remove_p" ELSE "rename_q")
  /\ UNCHANGED <<sfile, xfile, pfile, gfile, use>>
\* Mutant of QFileExists: wait until it goes away.
MutantQFileExists == At("create_q") /\ qfile # Absent /\ UNCHANGED vars

\* The q-file is created exclusively: one that is there already is an error.
QFileExists ==
  /\ At("create_q") /\ qfile # Absent
  /\ Fail
  /\ UNCHANGED <<sfile, xfile, pfile, qfile, use>>

RemoveP ==
  /\ At("remove_p")
  /\ pfile' = Absent
  /\ GoTo(IF run.locks = {} THEN "remove_q" ELSE "rename_q")
  /\ UNCHANGED <<sfile, xfile, qfile, gfile, use>>

RenameQ ==
  /\ At("rename_q")
  /\ pfile' = qfile
  /\ qfile' = Absent
  /\ Succeed
  /\ UNCHANGED <<sfile, xfile, use>>

\* No lock is left: qfile_deleter removes the q-file.
RemoveQ ==
  /\ At("remove_q")
  /\ qfile' = Absent
  /\ Succeed
  /\ UNCHANGED <<sfile, xfile, pfile, use>>

\* remove or rename fails: qfile_deleter removes the q-file.
PFileUpdateFails ==
  /\ run.pc \in MayFail \cap {"remove_p", "rename_q"}
  /\ qfile' = Absent
  /\ Fail
  /\ UNCHANGED <<sfile, xfile, pfile, use>>

-----------------------------------------------------------------------------
\* The command is killed, or a fatal signal ends it: every file stays as it is,
\* except the z-file, which handle_fatal_sig or somebody's hand removes.
Crash ==
  /\ MayCrash /\ ~IsIdle
  /\ run' = Idle
  /\ UNCHANGED <<sfile, xfile, pfile, qfile, gfile, use>>

\* A user removes his g-file by hand.
DiscardGFile(u) ==
  /\ IsIdle /\ gfile[u]
  /\ gfile' = [gfile EXCEPT ![u] = FALSE]
  /\ UNCHANGED <<sfile, xfile, pfile, qfile, run, use>>

\* admin has created the file, and the first deltas have been made.
Init ==
  /\ use \in Uses
  /\ sfile = [i \in 1..InitialDeltas |-> Entry(<<1, i, 0, 0>>, i - 1)]
  /\ xfile = Absent /\ pfile = Absent /\ qfile = Absent
  /\ gfile = [u \in Users |-> FALSE]
  /\ run = Idle

Command ==
  \E u \in Users :
    \/ \E rid \in (IF sfile = Absent THEN {} ELSE Requests) :
         \/ \E branch \in use.branches : GetEdit(u, rid, branch)
         \/ Rmdel(u, rid)
    \/ \E rid \in {NullSid} \cup {l.got : l \in Locks} \cup Reserved(Locks) :
         Delta(u, rid) \/ Unget(u, rid)
    \/ DiscardGFile(u)

SystemCall ==
  \/ CreateX \/ WriteX \/ RemoveS \/ RenameX \/ UpdateFails
  \/ CreateQ \/ QFileExists \/ RemoveP \/ RenameQ \/ RemoveQ \/ PFileUpdateFails

Next == Command \/ SystemCall \/ Crash

\* A command that runs goes on running.
Spec == Init /\ [][Next]_vars /\ WF_vars(SystemCall)

-----------------------------------------------------------------------------
(* Properties.                                                             *)

\* Type correctness: what is in the files is what the programs write there.
TypeOK ==
  /\ gfile \in [Users -> BOOLEAN]
  /\ \A l \in Locks \cup LocksIn(qfile) : l.user \in Users
  /\ \A t \in {sfile, xfile} \ {Absent} : \A i \in DOMAIN t :
       t[i].prev \in 0..(i - 1) /\ Components(t[i].sid) \in {2, 4}
  /\ run.pc \in {"idle", "create_x", "write_x", "remove_s", "rename_x",
                 "create_q", "remove_p", "rename_q", "remove_q"}

\* docs/cssc.texi: "These revisions are each identified by a unique SID": two deltas
\* that have not been removed never have the same one.
UniqueSids ==
  sfile # Absent =>
    \A i, j \in CurrentDeltas(sfile) : sfile[i].sid = sfile[j].sid => i = j

\* A reservation is exclusive, and good until it is used: between commands, no two
\* locks promise the same SID, and no delta has a promised SID.
ReservedSidsAreFree ==
  IsIdle /\ sfile # Absent =>
    /\ \A l, m \in Locks : l.delta = m.delta => l = m
    /\ Reserved(Locks) \cap CurrentSids(sfile) = {}

\* Whoever has gotten a delta for editing finds it still there: rmdel has not
\* removed it ("Locked delta doesn't exist!" is never printed).
GottenDeltaExists ==
  IsIdle /\ sfile # Absent => \A l \in Locks : l.got \in CurrentSids(sfile)

\* Without the joint edit flag at most one user edits a given delta.
OneEditorPerDelta ==
  ~Flags.joint => \A l, m \in Locks : l.got = m.got => l = m

\* Whenever find_next_sid is reached, its closing assertion holds: the SID is new.
\* (sf-get2.cc: ASSERT(!sid_in_use(next, pfile)).)
NextSidIsNew ==
  IsIdle /\ sfile # Absent =>
    \A rid \in Requests, branch \in use.branches :
      MayEdit(rid) /\ NextSid(rid, branch).ok =>
        ~InUse(sfile, Locks, NextSid(rid, branch).next)

\* With the joint edit flag, which makes the search look at the p-file, it does hold,
\* whatever was gotten, reserved, branched and removed before.
JointNextSidIsNew == Flags.joint => NextSidIsNew

\* sf-get2.cc on an SID that is being made already: "this should not happen",
\* because test_locks has refused the request.
NeverAlreadyEdited ==
  IsIdle /\ sfile # Absent =>
    \A rid \in Requests, branch \in use.branches : MayEdit(rid) => NextSid(rid, branch).ok

\* The history survives: at every moment, also after a crash and after a failure of
\* any call but the renaming of the x-file, the s-file or a complete x-file is there.
HistorySurvives == sfile # Absent \/ xfile \notin {Absent, <<>>}

\* EditLocks is what remains when the files are forgotten.  A command takes effect
\* when it removes the s-file or, where it only changes the p-file, creates the
\* q-file: from there it goes on to the end, unless it is killed.
TookEffect ==
  \/ run.pc \in {"rename_x", "remove_p", "rename_q", "remove_q"}
  \/ run.pc = "create_q" /\ run.kind = "delta"

Abstract ==
  INSTANCE EditLocks WITH
    Sids    <- SidTuples,
    First   <- <<1, 1, 0, 0>>,
    Companions <- SkippedSids,
    current <- CurrentSids(IF TookEffect THEN run.table ELSE sfile),
    locks   <- IF TookEffect THEN run.locks ELSE Locks,
    joint   <- Flags.joint,
    nulls   <- use.nulls

\* The system calls of get -e, delta, unget and rmdel together do what EditLocks
\* says in one step each.
Refinement == Abstract!AbsSpec

\* A command that has begun comes to its end.
CommandsEnd == ~IsIdle ~> IsIdle

=============================================================================
