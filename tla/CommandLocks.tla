---------------------------- MODULE CommandLocks ----------------------------
(***************************************************************************)
(* How the commands that change a history file lock it.                    *)
(*                                                                         *)
(* A command works through the files of its command line with ONE          *)
(* sccs_name object (sccs_file_iterator::next assigns the next name to     *)
(* it).  The object counts its users in lock_cnt_: the first call of       *)
(* sccs_name::lock creates the z-file, the others only count.  An          *)
(* sccs_file opened for update and an sccs_pfile opened for update or      *)
(* append each call lock in their constructors and unlock in their         *)
(* destructors; a constructor that throws has locked, and its destructor   *)
(* does not run.  unlock calls unique_ptr::release, which forgets the      *)
(* lock object without destroying it, so a z-file disappears only when     *)
(* the command ends (Cleaner::~Cleaner and ~sccs_name).                    *)
(*                                                                         *)
(* An s-file and a p-file are the sets of the updates recorded in them: an *)
(* update rewrites a whole file from what the command read of it.  The     *)
(* z-file is created atomically here; module NfsLock models how.           *)
(***************************************************************************)
EXTENDS Naturals, Sequences

CONSTANTS
  Proc,          \* the processes
  File,          \* the history files
  NoProc,        \* no process
  Commands,      \* the commands that may be started: a kind and a list of files
  Unreadable,    \* files of which the s-file or the p-file may fail to open or parse
  Refused,       \* files that get -e may refuse (SID not found, locked, g-file writable)
  Contended,     \* files for which the 10000 attempts to create a z-file may be used up
  MayKill        \* may a process be killed by a signal that is not caught?

\* rmdel stands for the commands that only rewrite the s-file: rmdel, cdc, admin.
Kinds == {"delta", "get", "unget", "rmdel"}

ASSUME CommandLocksAssumption ==
  /\ NoProc \notin Proc
  /\ Commands \subseteq [kind : Kinds, files : Seq(File)]
  /\ Unreadable \cup Refused \cup Contended \subseteq File
  /\ MayKill \in BOOLEAN

VARIABLES
  pc,         \* where each process is in its command
  cmd,        \* its command
  pos,        \* the number of files it has begun with
  lockCnt,    \* lock_cnt_ of its sccs_name
  zfile,      \* the process that created the z-file of a file, or NoProc
  sfile,      \* the updates recorded in the s-file
  pfile,      \* the updates recorded in the p-file
  seenS,      \* what a process read of the s-file it works on
  seenP       \* what a process read of the p-file it works on

vars == <<pc, cmd, pos, lockCnt, zfile, sfile, pfile, seenS, seenP>>

WritesS(p) == cmd[p].kind \in {"delta", "rmdel"}
WritesP(p) == cmd[p].kind \in {"delta", "get", "unget"}

\* The file a process works on, and its update of it.
Name(p) == cmd[p].files[pos[p]]
Update(p) == <<p, pos[p]>>
\* Mutant of Users: get's s-file, which is only read, is unlocked too.
MutantUsers(p) == IF cmd[p].kind \in {"delta", "get"} THEN 2 ELSE 1

\* The calls of lock that the objects of one loop iteration have made.
Users(p) == IF cmd[p].kind = "delta" THEN 2 ELSE 1

-----------------------------------------------------------------------------
Init ==
  /\ pc = [p \in Proc |-> "idle"]
  /\ cmd \in [Proc -> Commands]
  /\ pos = [p \in Proc |-> 0]
  /\ lockCnt = [p \in Proc |-> 0]
  /\ zfile = [f \in File |-> NoProc]
  /\ sfile = [f \in File |-> {}]
  /\ pfile = [f \in File |-> {}]
  /\ seenS = [p \in Proc |-> {}]
  /\ seenP = [p \in Proc |-> {}]

Start(p) ==
  /\ pc[p] = "idle"
  /\ pc' = [pc EXCEPT ![p] = "next"]
  /\ UNCHANGED <<cmd, pos, lockCnt, zfile, sfile, pfile, seenS, seenP>>

\* sccs_file_iterator::next: only the name changes, the lock count stays.
NextFile(p) ==
  /\ pc[p] = "next"
  /\ pos[p] < Len(cmd[p].files)
  /\ pos' = [pos EXCEPT ![p] = @ + 1]
  /\ pc' = [pc EXCEPT ![p] = "lock"]
  /\ UNCHANGED <<cmd, lockCnt, zfile, sfile, pfile, seenS, seenP>>
\* Mutants of RemoveZFiles: the clean-up is forgotten, or removes the z-files of
\* other processes too.
MutantKeepZFiles(p) == zfile' = zfile
MutantRemoveAllZFiles(p) == zfile' = [f \in File |-> NoProc]

\* The z-files go when the command ends, all together.
RemoveZFiles(p) == zfile' = [f \in File |-> IF zfile[f] = p THEN NoProc ELSE zfile[f]]

Finish(p) ==
  /\ pc[p] = "next"
  /\ pos[p] = Len(cmd[p].files)
  /\ RemoveZFiles(p)
  /\ pc' = [pc EXCEPT ![p] = "done"]
  /\ UNCHANGED <<cmd, pos, lockCnt, sfile, pfile, seenS, seenP>>
\* Mutant of Lock: an existing z-file is overwritten.
MutantLock(p) ==
  /\ pc[p] = "lock"
  /\ zfile' = [zfile EXCEPT ![Name(p)] = p]
  /\ lockCnt' = [lockCnt EXCEPT ![p] = @ + 1]
  /\ pc' = [pc EXCEPT ![p] = "open"]
  /\ UNCHANGED <<cmd, pos, sfile, pfile, seenS, seenP>>

\* sccs_name::lock, in the constructor of the first object: the sccs_file of
\* delta and rmdel, the sccs_pfile of get -e and unget.
Lock(p) ==
  /\ pc[p] = "lock"
  /\ IF lockCnt[p] = 0
     THEN /\ zfile[Name(p)] = NoProc
          /\ zfile' = [zfile EXCEPT ![Name(p)] = p]
     ELSE zfile' = zfile
  /\ lockCnt' = [lockCnt EXCEPT ![p] = @ + 1]
  /\ pc' = [pc EXCEPT ![p] = "open"]
  /\ UNCHANGED <<cmd, pos, sfile, pfile, seenS, seenP>>

\* The z-file could not be created: file_lock's constructor throws, after
\* lock_cnt_ has been increased.
LockFails(p) ==
  /\ pc[p] = "lock" /\ Name(p) \in Contended
  /\ lockCnt[p] = 0 /\ zfile[Name(p)] # NoProc
  /\ lockCnt' = [lockCnt EXCEPT ![p] = @ + 1]
  /\ pc' = [pc EXCEPT ![p] = "next"]
  /\ UNCHANGED <<cmd, pos, zfile, sfile, pfile, seenS, seenP>>

\* The rest of the first constructor reads the file.
OpenFirst(p) ==
  /\ pc[p] = "open"
  /\ IF WritesS(p)
     THEN /\ seenS' = [seenS EXCEPT ![p] = sfile[Name(p)]]
          /\ seenP' = seenP
     ELSE /\ seenP' = [seenP EXCEPT ![p] = pfile[Name(p)]]
          /\ seenS' = seenS
  /\ pc' = [pc EXCEPT ![p] = IF cmd[p].kind \in {"delta", "get"} THEN "second" ELSE "work"]
  /\ UNCHANGED <<cmd, pos, lockCnt, zfile, sfile, pfile>>

\* delta opens the p-file for update (its lock only counts), get -e the s-file
\* for reading (which does not lock).
OpenSecond(p) ==
  /\ pc[p] = "second"
  /\ IF cmd[p].kind = "delta"
     THEN /\ lockCnt' = [lockCnt EXCEPT ![p] = @ + 1]
          /\ seenP' = [seenP EXCEPT ![p] = pfile[Name(p)]]
          /\ seenS' = seenS
     ELSE /\ seenS' = [seenS EXCEPT ![p] = sfile[Name(p)]]
          /\ UNCHANGED <<lockCnt, seenP>>
  /\ pc' = [pc EXCEPT ![p] = "work"]
  /\ UNCHANGED <<cmd, pos, zfile, sfile, pfile>>

\* A constructor throws and the loop goes on with the next file.  The lock that
\* the failed constructor took is never undone: with the first object that is its
\* own; with delta's p-file the s-file's is undone in its place; and the
\* sccs_pfile that get -e has allocated is not deleted.
OpenFails(p) ==
  /\ pc[p] \in {"open", "second"}
  /\ Name(p) \in Unreadable
  /\ pc' = [pc EXCEPT ![p] = "next"]
  /\ UNCHANGED <<cmd, pos, lockCnt, zfile, sfile, pfile, seenS, seenP>>

\* sccs_name::unlock as the objects are destroyed: only the count changes.
Unlock(p) == lockCnt' = [lockCnt EXCEPT ![p] = @ - Users(p)]

\* The command finds a reason not to change this file.  get -e leaves its loop
\* body with continue, without deleting the sccs_pfile.
Refuse(p) ==
  /\ pc[p] = "work"
  /\ IF cmd[p].kind = "get" THEN Name(p) \in Refused /\ UNCHANGED lockCnt ELSE Unlock(p)
  /\ pc' = [pc EXCEPT ![p] = "next"]
  /\ UNCHANGED <<cmd, pos, zfile, sfile, pfile, seenS, seenP>>

\* sccs_file::end_update: the new s-file, made from what was read, replaces the old.
WriteS(p) ==
  /\ pc[p] = "work" /\ WritesS(p)
  /\ sfile' = [sfile EXCEPT ![Name(p)] = seenS[p] \cup {Update(p)}]
  /\ pc' = [pc EXCEPT ![p] = IF WritesP(p) THEN "pfile" ELSE "close"]
  /\ UNCHANGED <<cmd, pos, lockCnt, zfile, pfile, seenS, seenP>>

\* sccs_pfile::update: the same for the p-file.
WriteP(p) ==
  /\ \/ pc[p] = "pfile"
     \/ pc[p] = "work" /\ ~WritesS(p)
  /\ pfile' = [pfile EXCEPT ![Name(p)] = seenP[p] \cup {Update(p)}]
  /\ pc' = [pc EXCEPT ![p] = "close"]
  /\ UNCHANGED <<cmd, pos, lockCnt, zfile, sfile, seenS, seenP>>

Close(p) ==
  /\ pc[p] = "close"
  /\ Unlock(p)
  /\ pc' = [pc EXCEPT ![p] = "next"]
  /\ UNCHANGED <<cmd, pos, zfile, sfile, pfile, seenS, seenP>>

\* A signal that handle_fatal_sig catches: the z-files are removed.
FatalSignal(p) ==
  /\ MayKill
  /\ pc[p] \notin {"idle", "done", "dead"}
  /\ RemoveZFiles(p)
  /\ pc' = [pc EXCEPT ![p] = "done"]
  /\ UNCHANGED <<cmd, pos, lockCnt, sfile, pfile, seenS, seenP>>

\* Any other end: the z-files stay, until somebody removes them by hand.
Kill(p) ==
  /\ MayKill
  /\ pc[p] \notin {"idle", "done", "dead"}
  /\ pc' = [pc EXCEPT ![p] = "dead"]
  /\ UNCHANGED <<cmd, pos, lockCnt, zfile, sfile, pfile, seenS, seenP>>

RemoveStaleZFile(f) ==
  /\ zfile[f] \in Proc /\ pc[zfile[f]] = "dead"
  /\ zfile' = [zfile EXCEPT ![f] = NoProc]
  /\ UNCHANGED <<pc, cmd, pos, lockCnt, sfile, pfile, seenS, seenP>>

Step(p) ==
  \/ NextFile(p) \/ Finish(p)
  \/ Lock(p) \/ LockFails(p)
  \/ OpenFirst(p) \/ OpenSecond(p) \/ OpenFails(p)
  \/ Refuse(p) \/ WriteS(p) \/ WriteP(p) \/ Close(p)

Next ==
  \/ \E p \in Proc : Start(p) \/ Step(p) \/ FatalSignal(p) \/ Kill(p)
  \/ \E f \in File : RemoveStaleZFile(f)

Spec == Init /\ [][Next]_vars

\* A command that has been started keeps running.
FairSpec == Spec /\ \A p \in Proc : WF_vars(Step(p))

-----------------------------------------------------------------------------
(* Properties.                                                             *)

Places == {"idle", "next", "lock", "open", "second", "work", "pfile", "close",
           "done", "dead"}

\* Type correctness; the lock count of a process that is not inside the loop
\* body of a file never falls below zero.
TypeOK ==
  /\ pc \in [Proc -> Places]
  /\ cmd \in [Proc -> Commands]
  /\ pos \in [Proc -> Nat]
  /\ lockCnt \in [Proc -> Nat]
  /\ zfile \in [File -> Proc \cup {NoProc}]
  /\ sfile \in [File -> SUBSET (Proc \X Nat)]
  /\ pfile \in [File -> SUBSET (Proc \X Nat)]
  /\ seenS \in [Proc -> SUBSET (Proc \X Nat)]
  /\ seenP \in [Proc -> SUBSET (Proc \X Nat)]
  /\ \A p \in Proc :
       /\ pos[p] <= Len(cmd[p].files)
       /\ pc[p] \notin {"idle", "next", "done", "dead"} => pos[p] > 0

\* No update is ever lost: whatever one command has written into the s-file or the
\* p-file is still there after every step of every other command, although each
\* of them writes back a copy it read earlier.
NoLostUpdate ==
  [][\A f \in File : sfile[f] \subseteq sfile'[f] /\ pfile[f] \subseteq pfile'[f]]_vars

\* Every command comes to its end, although it waits for the z-files of others and
\* keeps those it has created until then, unless it is killed or a killed command's
\* z-file is in the way.
CommandsFinish ==
  \A p \in Proc :
    pc[p] # "idle" ~> \/ pc[p] \in {"done", "dead"}
                      \/ \E f \in File : zfile[f] # NoProc /\ pc[zfile[f]] = "dead"

\* sccsfile.cc says of the constructor that "the file is locked if it isn't only
\* being read": whoever is about to rewrite a file has created its z-file.
LockedWhenUpdating ==
  \A p \in Proc : pc[p] \in {"work", "pfile"} => zfile[Name(p)] = p

\* When locking is sound: a command may leave a lock count behind only when it is at
\* its last file.
NoLeftoverCount ==
  \A c \in Commands : \A i \in 1..(Len(c.files) - 1) :
    c.files[i] \notin Unreadable \cup Refused \cup Contended

=============================================================================
