------------------------------ MODULE NfsLock ------------------------------
(***************************************************************************)
(* How a z-file is created (file_lock::file_lock, createfile and           *)
(* atomic_nfs_create in src/src/file.cc), one system call at a time.       *)
(*                                                                         *)
(* O_EXCL is not trusted on NFS.  So a process creates the auxiliary file  *)
(* nfslck0, links it to the z-file and looks at the auxiliary file's link  *)
(* count: 2 means that the link succeeded and the lock is taken.  If       *)
(* anything goes wrong it starts again with nfslck1, and so on.  The names *)
(* of the auxiliary files are the same for every process.                  *)
(*                                                                         *)
(* The directory maps the names to inodes; an inode is identified by the   *)
(* process, the attempt and the lock call that created it.                 *)
(***************************************************************************)
EXTENDS Naturals, FiniteSets

CONSTANTS
  Proc,          \* the processes
  None,          \* no inode
  MaxAttempts,   \* 10000 in the code
  MaxCalls,      \* bound on the lock calls of one process, with and without hard links
  HardLinks,     \* may the file system have, or lack, hard links? (subset of BOOLEAN)
  MayFailOpen,   \* may open fail for another reason than EEXIST?
  MayCrash       \* may a process be killed?

ASSUME NfsLockAssumption ==
  /\ MaxAttempts \in Nat \ {0} /\ MaxCalls \in [BOOLEAN -> Nat]
  /\ HardLinks \subseteq BOOLEAN /\ MayFailOpen \in BOOLEAN /\ MayCrash \in BOOLEAN
  /\ None \notin Proc \X Nat \X Nat

Attempts == 0..(MaxAttempts - 1)

VARIABLES
  zfile,     \* the inode of the z-file, or None
  nfslck,    \* the inodes of the auxiliary files
  pc,        \* the next system call of each process
  attempt,   \* the loop counter of atomic_nfs_create
  calls,     \* the number of lock calls each process has begun
  canLink    \* does the file system have hard links?

vars == <<zfile, nfslck, pc, attempt, calls, canLink>>

NewInode(p) == <<p, attempt[p], calls[p]>>

\* st_nlink: the number of names of an inode.
Links(i) ==
  Cardinality({n \in Attempts : nfslck[n] = i}) + (IF zfile = i THEN 1 ELSE 0)

MyName(p) == nfslck[attempt[p]]

-----------------------------------------------------------------------------
Init ==
  /\ zfile = None
  /\ nfslck = [n \in Attempts |-> None]
  /\ pc = [p \in Proc |-> "idle"]
  /\ attempt = [p \in Proc |-> 0]
  /\ calls = [p \in Proc |-> 0]
  /\ canLink \in HardLinks

Goto(p, place) == pc' = [pc EXCEPT ![p] = place]

Call(p) ==
  /\ pc[p] = "idle" /\ calls[p] < MaxCalls[canLink]
  /\ calls' = [calls EXCEPT ![p] = @ + 1]
  /\ attempt' = [attempt EXCEPT ![p] = 0]
  /\ Goto(p, "open")
  /\ UNCHANGED <<zfile, nfslck, canLink>>
\* Mutants of NextAttempt: one attempt too many, or attempts without end.
MutantOneMore(p) ==
  IF attempt[p] = MaxAttempts
  THEN Goto(p, "failed") /\ UNCHANGED attempt
  ELSE Goto(p, "open") /\ attempt' = [attempt EXCEPT ![p] = @ + 1]
MutantForever(p) ==
  Goto(p, "open") /\ attempt' = [attempt EXCEPT ![p] = (@ + 1) % MaxAttempts]

\* The end of the loop body; after the last attempt -1 is returned, fdopen fails
\* and the constructor throws.
NextAttempt(p) ==
  IF attempt[p] + 1 = MaxAttempts
  THEN Goto(p, "failed") /\ UNCHANGED attempt
  ELSE Goto(p, "open") /\ attempt' = [attempt EXCEPT ![p] = @ + 1]

Open(p) ==
  /\ pc[p] = "open" /\ MyName(p) = None
  /\ nfslck' = [nfslck EXCEPT ![attempt[p]] = NewInode(p)]
  /\ Goto(p, "stat")
  /\ UNCHANGED <<zfile, attempt, calls, canLink>>

OpenExists(p) ==
  /\ pc[p] = "open" /\ MyName(p) # None
  /\ NextAttempt(p)
  /\ UNCHANGED <<zfile, nfslck, calls, canLink>>

OpenFails(p) ==
  /\ MayFailOpen /\ pc[p] = "open"
  /\ Goto(p, "fallback")
  /\ UNCHANGED <<zfile, nfslck, attempt, calls, canLink>>

\* The first get_nlinks: "stat not supported on this file system or the file was
\* deleted" leads to the fallback.
Stat(p) ==
  /\ pc[p] = "stat"
  /\ Goto(p, IF MyName(p) = None THEN "fallback"
             ELSE IF Links(MyName(p)) = 1 THEN "link" ELSE "unlink_again")
  /\ UNCHANGED <<zfile, nfslck, attempt, calls, canLink>>

\* link(2) fails when the z-file exists, when the auxiliary file does not, and on
\* file systems without links.
Link(p) ==
  /\ pc[p] = "link"
  /\ zfile' = IF canLink /\ zfile = None THEN MyName(p) ELSE zfile
  /\ Goto(p, "stat_again")
  /\ UNCHANGED <<nfslck, attempt, calls, canLink>>
\* Mutant of StatAgain: it is enough that the auxiliary file is there.
MutantStatAgain(p) ==
  /\ pc[p] = "stat_again"
  /\ Goto(p, IF MyName(p) # None THEN "unlink_won" ELSE "unlink_lost")
  /\ UNCHANGED <<zfile, nfslck, attempt, calls, canLink>>

StatAgain(p) ==
  /\ pc[p] = "stat_again"
  /\ Goto(p, IF MyName(p) # None /\ Links(MyName(p)) = 2 THEN "unlink_won"
             ELSE "unlink_lost")
  /\ UNCHANGED <<zfile, nfslck, attempt, calls, canLink>>

UnlinkAux(p) == nfslck' = [nfslck EXCEPT ![attempt[p]] = None]

UnlinkWon(p) ==
  /\ pc[p] = "unlink_won"
  /\ UnlinkAux(p)
  /\ Goto(p, "held")
  /\ UNCHANGED <<zfile, attempt, calls, canLink>>

\* EPERM or ENOSYS: the fallback; otherwise maybe_wait_a_bit ...
UnlinkLost(p) ==
  /\ pc[p] = "unlink_lost"
  /\ UnlinkAux(p)
  /\ Goto(p, IF canLink THEN "unlink_again" ELSE "fallback")
  /\ UNCHANGED <<zfile, attempt, calls, canLink>>

\* ... and the auxiliary file is removed once more.
UnlinkAgain(p) ==
  /\ pc[p] = "unlink_again"
  /\ UnlinkAux(p)
  /\ NextAttempt(p)
  /\ UNCHANGED <<zfile, calls, canLink>>
\* Mutant of Fallback: open without O_EXCL.
MutantFallback(p) ==
  /\ pc[p] = "fallback"
  /\ zfile' = NewInode(p)
  /\ Goto(p, "held")
  /\ UNCHANGED <<nfslck, attempt, calls, canLink>>

\* The fallback creates the z-file with O_EXCL; where it exists, an assertion of
\* file_lock's constructor fails.
Fallback(p) ==
  /\ pc[p] = "fallback"
  /\ IF zfile = None
     THEN zfile' = NewInode(p) /\ Goto(p, "held")
     ELSE zfile' = zfile /\ Goto(p, "failed")
  /\ UNCHANGED <<nfslck, attempt, calls, canLink>>

\* file_lock::~file_lock removes the z-file by its name.
Release(p) ==
  /\ pc[p] = "held"
  /\ zfile' = None
  /\ Goto(p, "idle")
  /\ UNCHANGED <<nfslck, attempt, calls, canLink>>

GiveUp(p) ==
  /\ pc[p] = "failed"
  /\ Goto(p, "idle")
  /\ UNCHANGED <<zfile, nfslck, attempt, calls, canLink>>

\* A process that is killed leaves its files behind.
Crash(p) ==
  /\ MayCrash
  /\ pc[p] \notin {"idle", "dead"}
  /\ Goto(p, "dead")
  /\ UNCHANGED <<zfile, nfslck, attempt, calls, canLink>>

Creating(p) ==
  \/ Open(p) \/ OpenExists(p) \/ OpenFails(p)
  \/ Stat(p) \/ Link(p) \/ StatAgain(p)
  \/ UnlinkWon(p) \/ UnlinkLost(p) \/ UnlinkAgain(p) \/ Fallback(p)

Step(p) == Creating(p) \/ Release(p) \/ GiveUp(p)

Next == \E p \in Proc : Call(p) \/ Step(p) \/ Crash(p)

Spec == Init /\ [][Next]_vars

\* A process that is creating a z-file keeps running, and so does one that holds it.
FairSpec == Spec /\ \A p \in Proc : WF_vars(Step(p))

-----------------------------------------------------------------------------
(* Properties.                                                             *)

Inodes == Proc \X Nat \X Nat

\* Type correctness.
TypeOK ==
  /\ zfile \in Inodes \cup {None}
  /\ nfslck \in [Attempts -> Inodes \cup {None}]
  /\ pc \in [Proc -> {"idle", "open", "stat", "link", "stat_again", "unlink_won",
                      "unlink_lost", "unlink_again", "fallback", "held", "failed", "dead"}]
  /\ attempt \in [Proc -> Attempts]
  /\ canLink \in HardLinks
  /\ calls \in [Proc -> 0..MaxCalls[canLink]]

\* The purpose of it all: at most one process holds the lock.  (For the comment at
\* the top of file.cc: link to "a unique file" and look whether "its link count has
\* increased to 2".)
MutualExclusion == \A p, q \in Proc : pc[p] = "held" /\ pc[q] = "held" => p = q

\* While a process holds the lock the z-file is there, so its destructor removes a
\* z-file that it made and nobody else's.
HolderHasZFile == \A p \in Proc : pc[p] = "held" => zfile # None /\ zfile[1] = p

\* What the protocol takes for granted, and the names of the auxiliary files do not give it
\* where there are hard links: that nobody removes the auxiliary file of a process that has
\* still to link it or to look at its link count.
Unlinks(p) == UnlinkWon(p) \/ UnlinkLost(p) \/ UnlinkAgain(p)
Trying(p) == pc[p] \in {"stat", "link", "stat_again"}
LeavesAlone(p, q) == Unlinks(p) /\ Trying(q) => MyName(p) # NewInode(q)
Undisturbed == [][canLink => \A p \in Proc : \A q \in Proc \ {p} : LeavesAlone(p, q)]_vars

\* Every lock call returns, with the lock or without it.
CallsReturn == \A p \in Proc : pc[p] \notin {"idle", "dead"} ~> pc[p] \in {"idle", "dead"}

=============================================================================
