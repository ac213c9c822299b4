---------------------------- MODULE NfsLockProofs ----------------------------
(***************************************************************************)
(* Proofs about NfsLock, for any number of attempts, with crashes and with *)
(* failures of open.                                                       *)
(***************************************************************************)
EXTENDS NfsLock, FiniteSetTheorems, TLAPS

-----------------------------------------------------------------------------
(* Type correctness.                                                       *)

\* A process that has begun a lock call has counted it.
CallInv == \A p \in Proc : pc[p] # "idle" => calls[p] >= 1

TypeInv == TypeOK /\ CallInv

\* What one process does.
ProcStep(q) == Call(q) \/ Step(q) \/ Crash(q)

LEMMA NewInodeType ==
  ASSUME TypeOK, NEW p \in Proc
  PROVE  /\ NewInode(p) \in Inodes /\ NewInode(p) # None
         /\ attempt[p] \in Attempts /\ attempt[p] \in Nat /\ calls[p] \in Nat
<1>1. attempt[p] \in Attempts /\ attempt[p] \in Nat
  BY NfsLockAssumption DEF TypeOK, Attempts
<1>2. calls[p] \in Nat
  BY DEF TypeOK
<1>3. NewInode(p) \in Inodes
  BY <1>1, <1>2 DEF NewInode, Inodes
<1> QED
  BY <1>1, <1>2, <1>3, NfsLockAssumption DEF Inodes

LEMMA NextAttemptType ==
  ASSUME TypeOK, NEW q \in Proc, NextAttempt(q)
  PROVE  /\ attempt' \in [Proc -> Attempts]
         /\ \/ Goto(q, "failed") /\ attempt' = attempt
            \/ Goto(q, "open") /\ attempt' = [attempt EXCEPT ![q] = @ + 1]
<1>1. CASE attempt[q] + 1 = MaxAttempts
  BY <1>1 DEF NextAttempt, TypeOK
<1>2. CASE attempt[q] + 1 # MaxAttempts
  <2>1. attempt[q] + 1 \in Attempts
    BY <1>2, NfsLockAssumption DEF TypeOK, Attempts
  <2>2. Goto(q, "open") /\ attempt' = [attempt EXCEPT ![q] = @ + 1]
    BY <1>2 DEF NextAttempt
  <2>3. attempt' \in [Proc -> Attempts]
    BY <2>1, <2>2 DEF TypeOK
  <2> QED
    BY <2>2, <2>3
<1> QED
  BY <1>1, <1>2

LEMMA UnlinkType ==
  ASSUME TypeOK, NEW q \in Proc, UnlinkAux(q)
  PROVE  nfslck' \in [Attempts -> Inodes \cup {None}]
BY DEF UnlinkAux, TypeOK

LEMMA TypeInit == Init => TypeInv
<1> SUFFICES ASSUME Init PROVE TypeInv
  OBVIOUS
<1>1. canLink \in BOOLEAN /\ MaxCalls[canLink] \in Nat
  BY NfsLockAssumption DEF Init
<1>2. 0 \in Attempts
  BY NfsLockAssumption DEF Attempts
<1> QED
  BY <1>1, <1>2 DEF Init, TypeInv, TypeOK, CallInv

LEMMA TypeStep ==
  ASSUME TypeInv, NEW q \in Proc, ProcStep(q)
  PROVE  TypeInv'
<1>0. /\ TypeOK /\ CallInv /\ NewInode(q) \in Inodes /\ MyName(q) \in Inodes \cup {None}
      /\ canLink' = canLink /\ MaxCalls[canLink] \in Nat /\ 0 \in Attempts
  <2>1. NewInode(q) \in Inodes /\ MyName(q) \in Inodes \cup {None}
    BY NewInodeType DEF TypeInv, TypeOK, MyName
  <2>2. MaxCalls[canLink] \in Nat
    BY NfsLockAssumption DEF TypeInv, TypeOK
  <2>3. canLink' = canLink
    BY DEF ProcStep, Step, Creating, Call, Open, OpenExists, OpenFails, Stat, Link, StatAgain,
           UnlinkWon, UnlinkLost, UnlinkAgain, Fallback, Release, GiveUp, Crash
  <2>4. 0 \in Attempts
    BY NfsLockAssumption DEF Attempts
  <2> QED
    BY <2>1, <2>2, <2>3, <2>4 DEF TypeInv
<1> USE <1>0 DEF TypeInv
<1>1. CASE Call(q)
  <2>1. calls[q] + 1 \in 0..MaxCalls[canLink]
    BY <1>1 DEF Call, TypeOK
  <2>2. calls' \in [Proc -> 0..MaxCalls[canLink]]
    BY <1>1, <2>1 DEF Call, TypeOK
  <2>3. attempt' \in [Proc -> Attempts]
    BY <1>1 DEF Call, TypeOK
  <2>4. TypeOK'
    BY <1>1, <2>2, <2>3 DEF Call, Goto, TypeOK
  <2>5. CallInv'
    BY <1>1 DEF Call, Goto, TypeOK, CallInv
  <2> QED
    BY <2>4, <2>5
<1>2. CASE Open(q)
  BY <1>2 DEF Open, Goto, TypeOK, CallInv
<1>3. CASE OpenExists(q)
  BY <1>3, NextAttemptType DEF OpenExists, Goto, TypeOK, CallInv
<1>4. CASE OpenFails(q)
  BY <1>4 DEF OpenFails, Goto, TypeOK, CallInv
<1>5. CASE Stat(q)
  BY <1>5 DEF Stat, Goto, TypeOK, CallInv
<1>6. CASE Link(q)
  BY <1>6 DEF Link, Goto, TypeOK, CallInv
<1>7. CASE StatAgain(q)
  BY <1>7 DEF StatAgain, Goto, TypeOK, CallInv
<1>8. CASE UnlinkWon(q)
  BY <1>8, UnlinkType DEF UnlinkWon, Goto, TypeOK, CallInv
<1>9. CASE UnlinkLost(q)
  BY <1>9, UnlinkType DEF UnlinkLost, Goto, TypeOK, CallInv
<1>10. CASE UnlinkAgain(q)
  BY <1>10, UnlinkType, NextAttemptType DEF UnlinkAgain, Goto, TypeOK, CallInv
<1>11. CASE Fallback(q)
  BY <1>11 DEF Fallback, Goto, TypeOK, CallInv
<1>12. CASE Release(q)
  BY <1>12 DEF Release, Goto, TypeOK, CallInv
<1>13. CASE GiveUp(q)
  BY <1>13 DEF GiveUp, Goto, TypeOK, CallInv
<1>14. CASE Crash(q)
  BY <1>14 DEF Crash, Goto, TypeOK, CallInv
<1> QED
  BY <1>1, <1>2, <1>3, <1>4, <1>5, <1>6, <1>7, <1>8, <1>9, <1>10, <1>11, <1>12, <1>13, <1>14
  DEF ProcStep, Step, Creating

LEMMA TypeStutter == TypeInv /\ UNCHANGED vars => TypeInv'
BY DEF TypeInv, TypeOK, CallInv, vars

\* Names are bound to inodes, the loop counter never reaches MaxAttempts, and no process
\* makes more calls than the model lets it.
THEOREM NamesAreWellTyped == Spec => []TypeOK
<1>1. TypeInv /\ [Next]_vars => TypeInv'
  BY TypeStep, TypeStutter DEF Next, ProcStep
<1>2. TypeInv => TypeOK
  BY DEF TypeInv
<1> QED
  BY TypeInit, <1>1, <1>2, PTL DEF Spec

-----------------------------------------------------------------------------
(* Mutual exclusion, for any processes and any number of calls: always     *)
(* without hard links, where O_EXCL is enough, and with them as long as    *)
(* nobody removes an auxiliary file that is still in use.                  *)

\* The name of an auxiliary file is in its inode, and a process makes each inode once.
NamesInv ==
  /\ \A n \in Attempts : nfslck[n] # None => nfslck[n][2] = n
  /\ \A p \in Proc : \A n \in Attempts :
       nfslck[n] # None /\ nfslck[n][1] = p =>
         /\ nfslck[n][3] <= calls[p]
         /\ nfslck[n][3] = calls[p] =>
              n <= attempt[p] /\ (pc[p] = "open" => n < attempt[p])

\* A process finds its auxiliary file until it has seen the link count; without hard
\* links, until it has removed it.
OwnInv ==
  /\ \A p \in Proc : Trying(p) => MyName(p) = NewInode(p)
  /\ ~canLink => \A p \in Proc : /\ pc[p] \notin {"unlink_won", "unlink_again"}
                                 /\ pc[p] = "unlink_lost" => MyName(p) = NewInode(p)

\* The z-file is the one that its holder has made, in the present attempt: only a process
\* that is going to see its link, has the lock or is dead has made it.
HolderInv ==
  /\ \A p \in Proc : pc[p] \in {"unlink_won", "held"} => zfile = NewInode(p)
  /\ zfile # None =>
       /\ zfile = NewInode(zfile[1])
       /\ pc[zfile[1]] \in {"stat_again", "unlink_won", "held", "dead"}
       /\ ~canLink => pc[zfile[1]] \in {"held", "dead"}

LockInv == TypeInv /\ NamesInv /\ OwnInv /\ HolderInv

LEMMA LinksAre ==
  ASSUME TypeInv, NamesInv, NEW p \in Proc, MyName(p) # None
  PROVE  Links(MyName(p)) = IF zfile = MyName(p) THEN 2 ELSE 1
<1> DEFINE Names == {n \in Attempts : nfslck[n] = MyName(p)}
<1>1. Names = {attempt[p]}
  <2>1. attempt[p] \in Names
    BY NewInodeType DEF MyName, TypeInv
  <2>2. ASSUME NEW n \in Names PROVE n = attempt[p]
    BY <2>1 DEF NamesInv, MyName
  <2> QED
    BY <2>1, <2>2
<1>2. Cardinality(Names) = 1
  BY <1>1, FS_Singleton
<1> QED
  BY <1>2 DEF Links

LEMMA LockInit == Init => LockInv
<1> SUFFICES ASSUME Init PROVE LockInv
  OBVIOUS
<1>1. TypeInv
  BY TypeInit
<1> QED
  BY <1>1 DEF Init, LockInv, NamesInv, OwnInv, HolderInv, Trying

\* Two processes never make the same inode.
LEMMA InodesDiffer ==
  ASSUME NEW p \in Proc, NEW q \in Proc, NewInode(p) = NewInode(q)
  PROVE  p = q
BY DEF NewInode

\* What the step of one process leaves as it is.
LEMMA OthersStay ==
  ASSUME TypeInv, NEW q \in Proc, ProcStep(q)
  PROVE  /\ \A p \in Proc \ {q} : /\ pc'[p] = pc[p] /\ attempt'[p] = attempt[p]
                                  /\ calls'[p] = calls[p] /\ NewInode(p)' = NewInode(p)
         /\ canLink' = canLink
<1> USE DEF TypeInv, TypeOK
<1>1. NextAttempt(q) => \A p \in Proc \ {q} : pc'[p] = pc[p] /\ attempt'[p] = attempt[p]
  BY DEF NextAttempt, Goto
<1> QED
  BY <1>1 DEF ProcStep, Step, Creating, Call, Open, OpenExists, OpenFails, Stat, Link, StatAgain,
              UnlinkWon, UnlinkLost, UnlinkAgain, Fallback, Release, GiveUp, Crash, Goto, NewInode

\* Only open gives an auxiliary file a name, and a process opens once in an attempt.
LEMMA NamesStep ==
  ASSUME LockInv, NEW q \in Proc, ProcStep(q), TypeInv'
  PROVE  NamesInv'
<1> USE DEF LockInv, TypeInv, TypeOK
<1> DEFINE Same == \A n \in Attempts : nfslck'[n] # None => nfslck'[n] = nfslck[n]
<1>0. /\ attempt[q] \in Nat /\ calls[q] \in Nat /\ attempt'[q] \in Nat /\ calls'[q] \in Nat
      /\ Attempts \subseteq Nat
  BY NfsLockAssumption DEF Attempts
<1>1. ASSUME Same, NEW n \in Attempts, nfslck'[n] # None
      PROVE  nfslck[n] # None /\ nfslck[n] = nfslck'[n] /\ nfslck[n] \in Inodes
  BY <1>1
<1>2. ASSUME Same,
             \/ calls'[q] = calls[q] + 1
             \/ /\ calls'[q] = calls[q]
                /\ \/ attempt'[q] = attempt[q] /\ (pc'[q] = "open" => pc[q] = "open")
                   \/ attempt'[q] = attempt[q] + 1
      PROVE  NamesInv'
  <2>1. \A n \in Attempts : nfslck'[n] # None => nfslck'[n][2] = n
    BY <1>1, <1>2 DEF NamesInv
  <2>2. ASSUME NEW p \in Proc, NEW n \in Attempts, nfslck'[n] # None, nfslck'[n][1] = p
        PROVE  /\ nfslck'[n][3] <= calls'[p]
               /\ nfslck'[n][3] = calls'[p] =>
                    n <= attempt'[p] /\ (pc'[p] = "open" => n < attempt'[p])
    <3>1. /\ nfslck[n] # None /\ nfslck[n] = nfslck'[n] /\ nfslck[n][3] \in Nat /\ n \in Nat
          /\ nfslck[n][3] <= calls[p]
          /\ nfslck[n][3] = calls[p] => n <= attempt[p] /\ (pc[p] = "open" => n < attempt[p])
      BY <1>0, <1>1, <1>2, <2>2 DEF NamesInv, Inodes
    <3>2. CASE p # q
      BY <2>2, <3>1, <3>2, OthersStay
    <3>3. CASE p = q
      BY <1>0, <1>2, <3>1, <3>3
    <3> QED
      BY <3>2, <3>3
  <2> QED
    BY <2>1, <2>2 DEF NamesInv
<1>3. CASE Call(q)
  BY <1>2, <1>3 DEF Call
<1>4. CASE Open(q)
  <2>1. /\ nfslck' = [nfslck EXCEPT ![attempt[q]] = NewInode(q)]
        /\ attempt' = attempt /\ calls' = calls /\ pc'[q] = "stat" /\ attempt[q] \in Attempts
    BY <1>4 DEF Open, Goto
  <2>2. ASSUME NEW n \in Attempts, nfslck'[n] # None, n # attempt[q]
        PROVE  nfslck[n] = nfslck'[n]
    BY <2>1, <2>2
  <2>3. nfslck'[attempt[q]] = <<q, attempt[q], calls[q]>>
    BY <2>1 DEF NewInode
  <2>4. \A n \in Attempts : nfslck'[n] # None => nfslck'[n][2] = n
    BY <2>2, <2>3 DEF NamesInv
  <2>5. ASSUME NEW p \in Proc, NEW n \in Attempts, nfslck'[n] # None, nfslck'[n][1] = p
        PROVE  /\ nfslck'[n][3] <= calls'[p]
               /\ nfslck'[n][3] = calls'[p] =>
                    n <= attempt'[p] /\ (pc'[p] = "open" => n < attempt'[p])
    <3>1. CASE n = attempt[q]
      BY <1>0, <2>1, <2>3, <2>5, <3>1
    <3>2. CASE n # attempt[q]
      <4>1. /\ nfslck[n] = nfslck'[n]
            /\ nfslck[n][3] <= calls[p]
            /\ nfslck[n][3] = calls[p] => n <= attempt[p] /\ (pc[p] = "open" => n < attempt[p])
        BY <2>2, <2>5, <3>2 DEF NamesInv
      <4> QED
        BY <2>1, <2>5, <4>1, OthersStay
    <3> QED
      BY <3>1, <3>2
  <2> QED
    BY <2>4, <2>5 DEF NamesInv
<1>5. CASE OpenExists(q)
  BY <1>2, <1>5, NextAttemptType DEF OpenExists, Goto
<1>6. CASE OpenFails(q)
  BY <1>2, <1>6 DEF OpenFails, Goto
<1>7. CASE Stat(q) \/ Link(q) \/ StatAgain(q) \/ Fallback(q) \/ Release(q) \/ GiveUp(q) \/ Crash(q)
  BY <1>2, <1>7 DEF Stat, Link, StatAgain, Fallback, Release, GiveUp, Crash, Goto
<1>8. CASE UnlinkWon(q) \/ UnlinkLost(q)
  BY <1>2, <1>8 DEF UnlinkWon, UnlinkLost, UnlinkAux, Goto
<1>9. CASE UnlinkAgain(q)
  BY <1>2, <1>9, NextAttemptType DEF UnlinkAgain, UnlinkAux, Goto
<1> QED
  BY <1>3, <1>4, <1>5, <1>6, <1>7, <1>8, <1>9 DEF ProcStep, Step, Creating

\* The other processes keep their auxiliary files.
LEMMA OthersOwn ==
  ASSUME LockInv, NEW q \in Proc, ProcStep(q), TypeInv',
         canLink => \A p \in Proc \ {q} : LeavesAlone(q, p),
         NEW p \in Proc \ {q}, MyName(p) = NewInode(p),
         Trying(p) \/ (~canLink /\ pc[p] = "unlink_lost")
  PROVE  MyName(p)' = NewInode(p)
<1> USE DEF LockInv, TypeInv, TypeOK
<1>1. attempt'[p] = attempt[p] /\ attempt[p] \in Attempts /\ attempt[q] \in Attempts
  BY OthersStay
<1>2. NewInode(p) # None
  BY NewInodeType
<1>3. CASE Unlinks(q)
  <2>1. nfslck' = [nfslck EXCEPT ![attempt[q]] = None]
    BY <1>3 DEF Unlinks, UnlinkWon, UnlinkLost, UnlinkAgain, UnlinkAux
  <2>2. MyName(q) # NewInode(p)
    <3>1. CASE canLink
      BY <1>3, <3>1 DEF LeavesAlone
    <3>2. CASE ~canLink
      <4>1. pc[q] = "unlink_lost"
        BY <1>3, <3>2 DEF OwnInv, Unlinks, UnlinkWon, UnlinkLost, UnlinkAgain
      <4> QED
        BY <3>2, <4>1, InodesDiffer DEF OwnInv
    <3> QED
      BY <3>1, <3>2
  <2>3. attempt[p] # attempt[q]
    BY <2>2 DEF MyName
  <2> QED
    BY <1>1, <2>1, <2>3 DEF MyName
<1>4. CASE Open(q)
  BY <1>1, <1>2, <1>4 DEF Open, MyName
<1>5. CASE ~Unlinks(q) /\ ~Open(q)
  <2>1. nfslck' = nfslck
    BY <1>5 DEF ProcStep, Step, Creating, Unlinks, Call, OpenExists, OpenFails, Stat, Link,
                StatAgain, Fallback, Release, GiveUp, Crash
  <2> QED
    BY <1>1, <2>1 DEF MyName
<1> QED
  BY <1>3, <1>4, <1>5

\* Every process has its own auxiliary file as long as it needs it.
LEMMA OwnStep ==
  ASSUME LockInv, NEW q \in Proc, ProcStep(q), TypeInv',
         canLink => \A p \in Proc \ {q} : LeavesAlone(q, p)
  PROVE  OwnInv'
<1> USE DEF LockInv, TypeInv, TypeOK
<1>0. canLink' = canLink /\ canLink \in BOOLEAN
  BY OthersStay, NfsLockAssumption
<1>1. ASSUME NEW p \in Proc \ {q} PROVE Trying(p)' => MyName(p)' = NewInode(p)'
  <2>1. Trying(p)' <=> Trying(p)
    BY OthersStay DEF Trying
  <2> QED
    BY <2>1, OthersStay, OthersOwn DEF OwnInv
<1>2. ASSUME NEW p \in Proc \ {q}, ~canLink
      PROVE  /\ pc'[p] \notin {"unlink_won", "unlink_again"}
             /\ pc'[p] = "unlink_lost" => MyName(p)' = NewInode(p)'
  BY <1>2, OthersStay, OthersOwn DEF OwnInv
<1>3. ASSUME attempt' = attempt, calls' = calls, nfslck' = nfslck,
             Trying(q)' => Trying(q),
             ~canLink => /\ pc'[q] \notin {"unlink_won", "unlink_again"}
                         /\ pc'[q] = "unlink_lost" => Trying(q) \/ pc[q] = "unlink_lost"
      PROVE  /\ Trying(q)' => MyName(q)' = NewInode(q)'
             /\ ~canLink => /\ pc'[q] \notin {"unlink_won", "unlink_again"}
                            /\ pc'[q] = "unlink_lost" => MyName(q)' = NewInode(q)'
  BY <1>3 DEF OwnInv, MyName, NewInode
<1>4. ASSUME pc'[q] \notin {"stat", "link", "stat_again", "unlink_won", "unlink_lost", "unlink_again"}
      PROVE  /\ Trying(q)' => MyName(q)' = NewInode(q)'
             /\ ~canLink => /\ pc'[q] \notin {"unlink_won", "unlink_again"}
                            /\ pc'[q] = "unlink_lost" => MyName(q)' = NewInode(q)'
  BY <1>4 DEF Trying
<1>5. /\ Trying(q)' => MyName(q)' = NewInode(q)'
      /\ ~canLink => /\ pc'[q] \notin {"unlink_won", "unlink_again"}
                     /\ pc'[q] = "unlink_lost" => MyName(q)' = NewInode(q)'
  <2>1. CASE Call(q) \/ OpenFails(q) \/ Fallback(q) \/ Release(q) \/ GiveUp(q) \/ Crash(q)
             \/ UnlinkWon(q)
    BY <1>4, <2>1 DEF Call, OpenFails, Fallback, Release, GiveUp, Crash, UnlinkWon, Goto
  <2>2. CASE Open(q)
    BY <2>2 DEF Open, Goto, MyName, NewInode
  <2>3. CASE OpenExists(q) \/ UnlinkAgain(q)
    BY <1>4, <2>3, NextAttemptType DEF OpenExists, UnlinkAgain, Goto
  <2>4. CASE Stat(q)
    <3>1. pc[q] = "stat" /\ Trying(q) /\ MyName(q) = NewInode(q) /\ MyName(q) # None
      BY <2>4, NewInodeType DEF Stat, Trying, OwnInv
    <3>2. zfile # MyName(q)
      BY <3>1 DEF HolderInv, NewInode
    <3>3. Links(MyName(q)) = 1
      BY <3>1, <3>2, LinksAre
    <3>4. pc'[q] = "link"
      BY <2>4, <3>1, <3>3 DEF Stat, Goto
    <3> QED
      BY <1>3, <2>4, <3>1, <3>4 DEF Stat, Trying
  <2>5. CASE Link(q)
    BY <1>3, <2>5 DEF Link, Goto, Trying
  <2>6. CASE StatAgain(q)
    <3>1. pc[q] = "stat_again" /\ Trying(q) /\ MyName(q) = NewInode(q) /\ MyName(q) # None
      BY <2>6, NewInodeType DEF StatAgain, Trying, OwnInv
    <3>2. ~canLink => zfile # MyName(q)
      BY <3>1 DEF OwnInv, HolderInv, NewInode
    <3>3. ~canLink => pc'[q] = "unlink_lost"
      BY <2>6, <3>1, <3>2, LinksAre DEF StatAgain, Goto
    <3> QED
      BY <1>3, <2>6, <3>1, <3>3 DEF StatAgain, Goto, Trying
  <2>7. CASE UnlinkLost(q)
    BY <2>7 DEF UnlinkLost, Goto, Trying
  <2> QED
    BY <2>1, <2>2, <2>3, <2>4, <2>5, <2>6, <2>7 DEF ProcStep, Step, Creating
<1> QED
  BY <1>0, <1>1, <1>2, <1>5 DEF OwnInv

\* Who has the lock has made the z-file, and nobody else can take it for his own.
LEMMA HolderStep ==
  ASSUME LockInv, NEW q \in Proc, ProcStep(q)
  PROVE  HolderInv'
<1> USE DEF LockInv, TypeInv, TypeOK
<1> DEFINE Kept == zfile' = zfile
           Made == zfile = None /\ zfile' = NewInode(q) /\ pc'[q] \in {"stat_again", "held"}
                   /\ (~canLink => pc'[q] = "held")
           Gone == pc[q] = "held" /\ zfile' = None /\ pc'[q] = "idle"
<1>0. /\ \A p \in Proc \ {q} : pc'[p] = pc[p] /\ NewInode(p)' = NewInode(p)
      /\ canLink' = canLink /\ canLink \in BOOLEAN
      /\ \A p \in Proc : NewInode(p) # None /\ NewInode(p)[1] = p
      /\ zfile # None => zfile[1] \in Proc
  <2>1. \A p \in Proc : NewInode(p) # None /\ NewInode(p)[1] = p
    BY NewInodeType DEF NewInode
  <2>2. zfile # None => zfile[1] \in Proc
    BY DEF Inodes
  <2> QED
    BY <2>1, <2>2, OthersStay, NfsLockAssumption
\* What q does to the z-file, and when it comes to have it.
<1>1. /\ Kept \/ Made \/ Gone
      /\ pc[q] \in {"stat_again", "unlink_won", "held", "dead"} /\ Kept =>
           /\ NewInode(q)' = NewInode(q)
           /\ \/ pc'[q] \in {"unlink_won", "held", "dead"}
              \/ pc[q] = "stat_again" /\ zfile # NewInode(q)
           /\ pc[q] \in {"held", "dead"} => pc'[q] \in {"held", "dead"}
      /\ pc'[q] \in {"unlink_won", "held"} => zfile' = NewInode(q)'
      /\ Made => NewInode(q)' = NewInode(q)
  <2>1. CASE Call(q) \/ Open(q) \/ OpenFails(q) \/ UnlinkLost(q) \/ GiveUp(q)
    BY <1>0, <2>1 DEF Call, Open, OpenFails, UnlinkLost, GiveUp, Goto
  <2>2. CASE OpenExists(q) \/ UnlinkAgain(q)
    <3>1. Kept /\ pc[q] \in {"open", "unlink_again"} /\ pc'[q] \in {"open", "failed"}
      BY <2>2, NextAttemptType DEF OpenExists, UnlinkAgain, Goto
    <3> QED
      BY <1>0, <3>1
  <2>3. CASE Stat(q)
    <3>1. Kept /\ pc[q] = "stat" /\ pc'[q] \in {"fallback", "link", "unlink_again"}
      BY <2>3 DEF Stat, Goto
    <3> QED
      BY <1>0, <3>1
  <2>4. CASE Link(q)
    <3>1. MyName(q) = NewInode(q) /\ NewInode(q)' = NewInode(q) /\ pc[q] = "link"
          /\ pc'[q] = "stat_again"
      BY <2>4 DEF Link, Trying, OwnInv, NewInode, Goto
    <3>2. Kept \/ Made
      BY <1>0, <2>4, <3>1 DEF Link
    <3> QED
      BY <1>0, <3>1, <3>2
  <2>5. CASE StatAgain(q)
    <3>1. /\ MyName(q) = NewInode(q) /\ NewInode(q)' = NewInode(q) /\ pc[q] = "stat_again"
          /\ Kept /\ MyName(q) # None
      BY <1>0, <2>5 DEF StatAgain, Trying, OwnInv, NewInode
    <3>2. pc'[q] = IF zfile = NewInode(q) THEN "unlink_won" ELSE "unlink_lost"
      BY <2>5, <3>1, LinksAre DEF StatAgain, Goto
    <3> QED
      BY <1>0, <3>1, <3>2
  <2>6. CASE UnlinkWon(q)
    <3>1. zfile = NewInode(q) /\ NewInode(q)' = NewInode(q) /\ Kept
          /\ pc[q] = "unlink_won" /\ pc'[q] = "held"
      BY <2>6 DEF UnlinkWon, HolderInv, NewInode, Goto
    <3> QED
      BY <1>0, <3>1
  <2>7. CASE Fallback(q)
    <3>1. NewInode(q)' = NewInode(q) /\ pc[q] = "fallback"
      BY <2>7 DEF Fallback, NewInode
    <3>2. \/ zfile = None /\ zfile' = NewInode(q) /\ pc'[q] = "held"
          \/ Kept /\ pc'[q] = "failed"
      BY <2>7 DEF Fallback, Goto
    <3> QED
      BY <1>0, <3>1, <3>2
  <2>8. CASE Release(q)
    <3>1. Gone /\ ~Kept
      BY <1>0, <2>8 DEF Release, Goto, HolderInv
    <3> QED
      BY <3>1
  <2>9. CASE Crash(q)
    <3>1. NewInode(q)' = NewInode(q) /\ Kept /\ pc'[q] = "dead"
      BY <2>9 DEF Crash, NewInode, Goto
    <3> QED
      BY <1>0, <3>1
  <2> QED
    BY <2>1, <2>2, <2>3, <2>4, <2>5, <2>6, <2>7, <2>8, <2>9 DEF ProcStep, Step, Creating
<1> HIDE DEF Kept, Made, Gone
<1>2. ASSUME NEW p \in Proc, pc'[p] \in {"unlink_won", "held"}
      PROVE  zfile' = NewInode(p)'
  <2>1. CASE p = q
    BY <1>1, <1>2, <2>1
  <2>2. CASE p # q
    <3>1. zfile = NewInode(p) /\ NewInode(p)' = NewInode(p) /\ zfile # None
      BY <1>0, <1>2, <2>2 DEF HolderInv
    <3>2. ~Made
      BY <3>1 DEF Made
    <3>3. ~Gone
      BY <2>2, <3>1, InodesDiffer DEF Gone, HolderInv
    <3> QED
      BY <1>1, <3>1, <3>2, <3>3 DEF Kept
  <2> QED
    BY <2>1, <2>2
<1>3. ASSUME zfile' # None
      PROVE  /\ zfile' = NewInode(zfile[1])'
             /\ pc'[zfile'[1]] \in {"stat_again", "unlink_won", "held", "dead"}
             /\ ~canLink' => pc'[zfile'[1]] \in {"held", "dead"}
  <2>1. CASE Made
    <3>1. zfile' = NewInode(q) /\ NewInode(q)' = NewInode(q) /\ zfile'[1] = q
      BY <1>0, <1>1, <2>1 DEF Made
    <3>2. NewInode(zfile[1])' = NewInode(q)'
      BY <3>1 DEF NewInode
    <3> QED
      BY <1>0, <2>1, <3>1, <3>2 DEF Made
  <2>2. CASE Kept
    <3>1. /\ zfile' = zfile /\ zfile # None /\ zfile[1] \in Proc /\ zfile = NewInode(zfile[1])
          /\ pc[zfile[1]] \in {"stat_again", "unlink_won", "held", "dead"}
          /\ ~canLink => pc[zfile[1]] \in {"held", "dead"}
      BY <1>0, <1>3, <2>2 DEF Kept, HolderInv
    <3>2. PICK o \in Proc : o = zfile[1]
      BY <3>1
    <3>3. zfile' = NewInode(o) /\ NewInode(zfile[1])' = NewInode(o)'
      BY <3>1, <3>2 DEF NewInode
    <3>4. CASE o # q
      BY <1>0, <3>1, <3>2, <3>3, <3>4
    <3>5. CASE o = q
      BY <1>0, <1>1, <2>2, <3>1, <3>2, <3>3, <3>5
    <3> QED
      BY <3>4, <3>5
  <2> QED
    BY <1>1, <1>3, <2>1, <2>2 DEF Gone
<1> QED
  BY <1>2, <1>3 DEF HolderInv

LEMMA LockStep ==
  ASSUME LockInv, NEW q \in Proc, ProcStep(q),
         canLink => \A p \in Proc \ {q} : LeavesAlone(q, p)
  PROVE  LockInv'
<1>1. TypeInv'
  BY TypeStep DEF LockInv
<1> QED
  BY <1>1, NamesStep, OwnStep, HolderStep DEF LockInv

LEMMA LockStutter == LockInv /\ UNCHANGED vars => LockInv'
<1> SUFFICES ASSUME LockInv, UNCHANGED vars PROVE LockInv'
  OBVIOUS
<1>1. TypeInv'
  BY TypeStutter DEF LockInv
<1>2. NamesInv' /\ HolderInv'
  BY DEF LockInv, NamesInv, HolderInv, NewInode, vars
<1>3. OwnInv'
  BY DEF LockInv, OwnInv, Trying, MyName, NewInode, vars
<1> QED
  BY <1>1, <1>2, <1>3 DEF LockInv

\* Every step is the step of one process, and it is the one that could disturb the others.
LEMMA LockNext ==
  ASSUME LockInv, [Next]_vars,
         [canLink => \A p \in Proc : \A q \in Proc \ {p} : LeavesAlone(p, q)]_vars
  PROVE  LockInv'
<1>1. CASE UNCHANGED vars
  BY <1>1, LockStutter
<1>2. CASE ~UNCHANGED vars
  <2>1. PICK q \in Proc : ProcStep(q)
    BY <1>2 DEF Next, ProcStep
  <2>2. canLink => \A p \in Proc \ {q} : LeavesAlone(q, p)
    BY <1>2
  <2> QED
    BY <2>1, <2>2, LockStep
<1> QED
  BY <1>1, <1>2

LEMMA LockIsInvariant == Spec /\ Undisturbed => []LockInv
BY LockInit, LockNext, PTL DEF Spec, Undisturbed

\* A process that has the lock has made the z-file itself, so that its destructor removes
\* nobody else's, whatever crashes and however often it is tried.
THEOREM HolderMadeTheZFile == Spec /\ Undisturbed => []HolderHasZFile
<1>1. LockInv => HolderHasZFile
  <2> SUFFICES ASSUME LockInv, NEW p \in Proc, pc[p] = "held" PROVE zfile # None /\ zfile[1] = p
    BY DEF HolderHasZFile
  <2> QED
    BY NewInodeType DEF LockInv, TypeInv, HolderInv, NewInode
<1> QED
  BY <1>1, LockIsInvariant, PTL

\* Under the same condition at most one process holds the lock.
THEOREM LockIsExclusive == Spec /\ Undisturbed => []MutualExclusion
<1>1. LockInv => MutualExclusion
  <2> SUFFICES ASSUME LockInv, NEW p \in Proc, NEW q \in Proc, pc[p] = "held", pc[q] = "held"
               PROVE  p = q
    BY DEF MutualExclusion
  <2> QED
    BY InodesDiffer DEF LockInv, HolderInv
<1> QED
  BY <1>1, LockIsInvariant, PTL

=============================================================================
