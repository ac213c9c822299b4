------------------------- MODULE CommandLocksProofs -------------------------
(***************************************************************************)
(* Proofs about CommandLocks, for any number of processes, files and       *)
(* commands.                                                               *)
(***************************************************************************)
EXTENDS CommandLocks, TLAPS

-----------------------------------------------------------------------------
(* Type correctness.  That the lock count never becomes negative needs the *)
(* number of calls of lock that the objects still alive have made.         *)

CountAtLeast ==
  \A p \in Proc :
    /\ pc[p] \in {"open", "second"} => lockCnt[p] >= 1
    /\ pc[p] \in {"work", "pfile", "close"} => lockCnt[p] >= Users(p)

TypeInv == TypeOK /\ CountAtLeast

\* A process that works on a file has one.
LEMMA NameInFile ==
  ASSUME TypeOK, NEW p \in Proc, pos[p] > 0
  PROVE  Name(p) \in File /\ cmd[p].kind \in Kinds /\ Len(cmd[p].files) \in Nat
<1>1. cmd[p] \in [kind : Kinds, files : Seq(File)]
  BY CommandLocksAssumption DEF TypeOK
<1>2. cmd[p].files \in Seq(File) /\ cmd[p].kind \in Kinds
  BY <1>1
<1>3. pos[p] \in 1..Len(cmd[p].files)
  BY <1>2 DEF TypeOK
<1>4. cmd[p].files[pos[p]] \in File
  BY <1>2, <1>3
<1> QED
  BY <1>2, <1>4 DEF Name

LEMMA TypeInit == Init => TypeInv
<1> SUFFICES ASSUME Init PROVE TypeInv
  OBVIOUS
<1>1. \A p \in Proc : cmd[p].files \in Seq(File)
  BY CommandLocksAssumption DEF Init
<1>2. TypeOK
  BY <1>1 DEF Init, TypeOK, Places
<1>3. CountAtLeast
  BY DEF Init, CountAtLeast
<1> QED
  BY <1>2, <1>3 DEF TypeInv

\* Every step of one process keeps the types and the counts.
LEMMA TypeStep ==
  ASSUME TypeInv, NEW q \in Proc, Start(q) \/ Step(q) \/ FatalSignal(q) \/ Kill(q)
  PROVE  TypeInv'
<1> USE DEF TypeInv
<1>0. /\ cmd[q].kind \in Kinds
      /\ Len(cmd[q].files) \in Nat
      /\ pos[q] > 0 => Name(q) \in File
      /\ Users(q) \in {1, 2}
      /\ Update(q) \in Proc \X Nat
  <2>1. cmd[q] \in [kind : Kinds, files : Seq(File)]
    BY CommandLocksAssumption DEF TypeOK
  <2> QED
    BY <2>1, NameInFile DEF Users, Update, TypeOK
<1>1. CASE Start(q)
  BY <1>1, <1>0 DEF Start, TypeOK, CountAtLeast, Users, Places
<1>2. CASE NextFile(q)
  BY <1>2, <1>0 DEF NextFile, TypeOK, CountAtLeast, Users, Places
<1>3. CASE Finish(q)
  BY <1>3, <1>0 DEF Finish, RemoveZFiles, TypeOK, CountAtLeast, Users, Places
<1>4. CASE Lock(q)
  <2>0. zfile' \in [File -> Proc \cup {NoProc}]
    BY <1>4, <1>0 DEF Lock, TypeOK
  <2>1. TypeOK'
    BY <1>4, <1>0, <2>0 DEF Lock, TypeOK, Places
  <2>2. CountAtLeast'
    BY <1>4, <1>0 DEF Lock, TypeOK, CountAtLeast, Users, Places
  <2> QED
    BY <2>1, <2>2
<1>5. CASE LockFails(q)
  BY <1>5, <1>0 DEF LockFails, TypeOK, CountAtLeast, Users, Places
<1>6. CASE OpenFirst(q)
  <2>a. pos[q] > 0 /\ Name(q) \in File
    BY <1>6, <1>0 DEF OpenFirst, TypeOK
  <2>b. sfile[Name(q)] \in SUBSET (Proc \X Nat) /\ pfile[Name(q)] \in SUBSET (Proc \X Nat)
    BY <2>a DEF TypeOK
  <2>c. /\ seenS' \in [Proc -> SUBSET (Proc \X Nat)]
        /\ seenP' \in [Proc -> SUBSET (Proc \X Nat)]
    BY <1>6, <2>b DEF OpenFirst, TypeOK
  <2>1. TypeOK'
    BY <1>6, <1>0, <2>c DEF OpenFirst, Kinds, TypeOK, Places
  <2>2. CountAtLeast'
    BY <1>6, <1>0 DEF OpenFirst, Kinds, TypeOK, CountAtLeast, Users, Places
  <2> QED
    BY <2>1, <2>2
<1>7. CASE OpenSecond(q)
  <2>a. pos[q] > 0 /\ Name(q) \in File
    BY <1>7, <1>0 DEF OpenSecond, TypeOK
  <2>b. sfile[Name(q)] \in SUBSET (Proc \X Nat) /\ pfile[Name(q)] \in SUBSET (Proc \X Nat)
    BY <2>a DEF TypeOK
  <2>c. /\ seenS' \in [Proc -> SUBSET (Proc \X Nat)]
        /\ seenP' \in [Proc -> SUBSET (Proc \X Nat)]
        /\ lockCnt' \in [Proc -> Nat]
    <3>1. CASE cmd[q].kind = "delta"
      <4>1. /\ lockCnt' = [lockCnt EXCEPT ![q] = @ + 1]
            /\ seenP' = [seenP EXCEPT ![q] = pfile[Name(q)]]
            /\ seenS' = seenS
        BY <1>7, <3>1 DEF OpenSecond
      <4>2. lockCnt' \in [Proc -> Nat]
        BY <4>1 DEF TypeOK
      <4>3. seenP' \in [Proc -> SUBSET (Proc \X Nat)]
        BY <4>1, <2>b DEF TypeOK
      <4> QED
        BY <4>1, <4>2, <4>3 DEF TypeOK
    <3>2. CASE cmd[q].kind # "delta"
      BY <1>7, <2>b, <3>2 DEF OpenSecond, TypeOK
    <3> QED
      BY <3>1, <3>2
  <2>1. TypeOK'
    BY <1>7, <1>0, <2>c DEF OpenSecond, TypeOK, Places
  <2>2. CountAtLeast'
    BY <1>7, <1>0 DEF OpenSecond, TypeOK, CountAtLeast, Users, Places
  <2> QED
    BY <2>1, <2>2
<1>8. CASE OpenFails(q)
  BY <1>8, <1>0 DEF OpenFails, TypeOK, CountAtLeast, Users, Places
<1>9. CASE Refuse(q)
  <2>a. lockCnt[q] - Users(q) \in Nat
    BY <1>9, <1>0 DEF Refuse, CountAtLeast, TypeOK
  <2>b. lockCnt' \in [Proc -> Nat]
    BY <1>9, <2>a DEF Refuse, Unlock, TypeOK
  <2>1. TypeOK'
    BY <1>9, <1>0, <2>b DEF Refuse, TypeOK, Places
  <2>2. CountAtLeast'
    BY <1>9, <1>0 DEF Refuse, Unlock, TypeOK, CountAtLeast, Users, Places
  <2> QED
    BY <2>1, <2>2
<1>10. CASE WriteS(q)
  BY <1>10, <1>0 DEF WriteS, TypeOK, CountAtLeast, Users, Places
<1>11. CASE WriteP(q)
  BY <1>11, <1>0 DEF WriteP, TypeOK, CountAtLeast, Users, Places
<1>12. CASE Close(q)
  BY <1>12, <1>0 DEF Close, Unlock, TypeOK, CountAtLeast, Users, Places
<1>13. CASE FatalSignal(q)
  BY <1>13, <1>0 DEF FatalSignal, RemoveZFiles, TypeOK, CountAtLeast, Users, Places
<1>14. CASE Kill(q)
  BY <1>14, <1>0 DEF Kill, TypeOK, CountAtLeast, Users, Places
<1> QED
  BY <1>1, <1>2, <1>3, <1>4, <1>5, <1>6, <1>7, <1>8, <1>9, <1>10, <1>11, <1>12,
     <1>13, <1>14 DEF Step

LEMMA TypeNext == TypeInv /\ [Next]_vars => TypeInv'
<1> SUFFICES ASSUME TypeInv, [Next]_vars PROVE TypeInv'
  OBVIOUS
<1>1. CASE \E p \in Proc : Start(p) \/ Step(p) \/ FatalSignal(p) \/ Kill(p)
  BY <1>1, TypeStep
<1>2. ASSUME NEW f \in File, RemoveStaleZFile(f) PROVE TypeInv'
  BY <1>2 DEF RemoveStaleZFile, TypeInv, TypeOK, CountAtLeast, Users
<1>3. CASE UNCHANGED vars
  BY <1>3 DEF vars, TypeInv, TypeOK, CountAtLeast, Users
<1> QED
  BY <1>1, <1>2, <1>3 DEF Next

\* The type invariant holds in every reachable state, whatever the commands do; in
\* particular lock_cnt_ is never negative.
THEOREM TypeCorrect == Spec => []TypeOK
<1>1. TypeInv => TypeOK
  BY DEF TypeInv
<1> QED
  BY TypeInit, TypeNext, <1>1, PTL DEF Spec

-----------------------------------------------------------------------------
(* No update is lost.  The inductive invariant says, of a process that has *)
(* passed Lock: its count is exactly the number of its objects, so it      *)
(* began with zero and Lock created the z-file; the z-file is still there; *)
(* and what it has read is what the file still holds.                      *)

Busy(p) == pc[p] \in {"open", "second", "work", "pfile", "close"}

CountOf(p) ==
  /\ pc[p] \in {"idle", "next"} /\ pos[p] < Len(cmd[p].files) => lockCnt[p] = 0
  /\ pc[p] = "lock" => lockCnt[p] = 0
  /\ pc[p] \in {"open", "second"} => lockCnt[p] = 1
  /\ pc[p] \in {"work", "pfile", "close"} => lockCnt[p] = Users(p)

HoldsOf(p) == Busy(p) => zfile[Name(p)] = p

SeenOf(p) ==
  /\ pc[p] = "second" /\ cmd[p].kind = "delta" => seenS[p] = sfile[Name(p)]
  /\ pc[p] = "second" /\ cmd[p].kind # "delta" => seenP[p] = pfile[Name(p)]
  /\ pc[p] = "work" /\ WritesS(p) => seenS[p] = sfile[Name(p)]
  /\ pc[p] = "work" /\ WritesP(p) => seenP[p] = pfile[Name(p)]
  /\ pc[p] = "pfile" => seenP[p] = pfile[Name(p)]

SafeInv == TypeInv /\ \A p \in Proc : CountOf(p) /\ HoldsOf(p) /\ SeenOf(p)

LEMMA SafeInit == Init => SafeInv
<1> SUFFICES ASSUME Init PROVE SafeInv
  OBVIOUS
<1>1. TypeInv
  BY TypeInit
<1>2. \A p \in Proc : CountOf(p) /\ HoldsOf(p) /\ SeenOf(p)
  BY DEF Init, CountOf, HoldsOf, SeenOf, Busy
<1> QED
  BY <1>1, <1>2 DEF SafeInv

\* Two processes that both hold the z-file of what they work on work on different
\* files.
LEMMA DifferentFiles ==
  ASSUME SafeInv, NEW p \in Proc, NEW q \in Proc, p # q, Busy(p), Busy(q)
  PROVE  Name(p) # Name(q)
BY DEF SafeInv, HoldsOf

\* A step of q keeps the count of q exact.
LEMMA CountStep ==
  ASSUME SafeInv, NoLeftoverCount, NEW q \in Proc,
         Start(q) \/ Step(q) \/ FatalSignal(q) \/ Kill(q)
  PROVE  CountOf(q)'
<1>0. /\ CountOf(q) /\ TypeOK
      /\ cmd[q].kind \in Kinds /\ Users(q) \in {1, 2}
      /\ Len(cmd[q].files) \in Nat /\ pos[q] \in Nat /\ lockCnt[q] \in Nat
  <2>1. cmd[q] \in [kind : Kinds, files : Seq(File)]
    BY CommandLocksAssumption DEF SafeInv, TypeInv, TypeOK
  <2> QED
    BY <2>1 DEF SafeInv, TypeInv, TypeOK, Users
<1>a. cmd[q] \in Commands /\ pos[q] <= Len(cmd[q].files)
  BY <1>0 DEF TypeOK
<1>b. ASSUME pos[q] > 0, Name(q) \in Unreadable \cup Refused \cup Contended
      PROVE  ~(pos[q] < Len(cmd[q].files))
  <2> SUFFICES ASSUME pos[q] < Len(cmd[q].files) PROVE FALSE
    OBVIOUS
  <2>1. pos[q] \in 1..(Len(cmd[q].files) - 1)
    BY <1>0, <1>b
  <2> QED
    BY <1>a, <1>b, <2>1 DEF NoLeftoverCount, Name
<1> USE <1>0 DEF CountOf, TypeOK, Users
<1>1. CASE Start(q)
  BY <1>1 DEF Start
<1>2. CASE NextFile(q)
  BY <1>2 DEF NextFile
<1>3. CASE Finish(q)
  BY <1>3 DEF Finish
<1>4. CASE Lock(q)
  BY <1>4 DEF Lock
<1>5. CASE LockFails(q)
  <2>1. ~(pos[q] < Len(cmd[q].files))
    BY <1>5, <1>b DEF LockFails
  <2>2. pos[q] > 0 /\ pc'[q] = "next" /\ pos' = pos /\ cmd' = cmd
    BY <1>5 DEF LockFails
  <2> QED
    BY <2>1, <2>2
<1>6. CASE OpenFirst(q)
  BY <1>6 DEF OpenFirst, Kinds
<1>7. CASE OpenSecond(q)
  BY <1>7 DEF OpenSecond, Kinds
<1>8. CASE OpenFails(q)
  <2>1. ~(pos[q] < Len(cmd[q].files))
    BY <1>8, <1>b DEF OpenFails
  <2>2. pos[q] > 0 /\ pc'[q] = "next" /\ pos' = pos /\ cmd' = cmd
    BY <1>8 DEF OpenFails
  <2> QED
    BY <2>1, <2>2
<1>9. CASE Refuse(q)
  <2>1. pos[q] > 0 /\ pc'[q] = "next" /\ pos' = pos /\ cmd' = cmd
    BY <1>9 DEF Refuse
  <2>2. CASE cmd[q].kind = "get"
    <3>1. ~(pos[q] < Len(cmd[q].files))
      BY <1>9, <1>b, <2>2 DEF Refuse
    <3> QED
      BY <2>1, <3>1
  <2>3. CASE cmd[q].kind # "get"
    <3>1. lockCnt' = [lockCnt EXCEPT ![q] = @ - Users(q)] /\ lockCnt[q] = Users(q)
      BY <1>9, <2>3 DEF Refuse, Unlock
    <3>2. lockCnt'[q] = 0
      BY <3>1
    <3> QED
      BY <2>1, <3>2
  <2> QED
    BY <2>2, <2>3
<1>10. CASE WriteS(q)
  BY <1>10 DEF WriteS
<1>11. CASE WriteP(q)
  BY <1>11 DEF WriteP
<1>12. CASE Close(q)
  BY <1>12 DEF Close, Unlock
<1>13. CASE FatalSignal(q) \/ Kill(q)
  BY <1>13 DEF FatalSignal, Kill
<1> QED
  BY <1>1, <1>2, <1>3, <1>4, <1>5, <1>6, <1>7, <1>8, <1>9, <1>10, <1>11, <1>12, <1>13
     DEF Step

\* A step of q leaves q with the z-file of what it works on.
LEMMA HoldStep ==
  ASSUME SafeInv, NEW q \in Proc, Start(q) \/ Step(q) \/ FatalSignal(q) \/ Kill(q)
  PROVE  HoldsOf(q)'
<1>0. CountOf(q) /\ HoldsOf(q) /\ TypeOK
  BY DEF SafeInv, TypeInv
<1> USE <1>0 DEF HoldsOf, Busy, TypeOK, Name
<1>1. CASE Lock(q)
  <2>1. Name(q) \in File
    BY <1>1, NameInFile DEF Lock
  <2>2. zfile' = [zfile EXCEPT ![Name(q)] = q]
    BY <1>1 DEF Lock, CountOf
  <2> QED
    BY <1>1, <2>1, <2>2 DEF Lock
<1>2. CASE Start(q) \/ NextFile(q) \/ Finish(q) \/ LockFails(q) \/ OpenFails(q)
           \/ Refuse(q) \/ Close(q) \/ FatalSignal(q) \/ Kill(q)
  BY <1>2 DEF Start, NextFile, Finish, LockFails, OpenFails, Refuse, Close,
              FatalSignal, Kill
<1>3. CASE OpenFirst(q) \/ OpenSecond(q) \/ WriteS(q) \/ WriteP(q)
  BY <1>3 DEF OpenFirst, OpenSecond, WriteS, WriteP
<1> QED
  BY <1>1, <1>2, <1>3 DEF Step

\* A step of q leaves q with a true copy of what it will write back.
LEMMA SeenStep ==
  ASSUME SafeInv, NEW q \in Proc, Start(q) \/ Step(q) \/ FatalSignal(q) \/ Kill(q)
  PROVE  SeenOf(q)'
<1>0. SeenOf(q) /\ TypeOK
  BY DEF SafeInv, TypeInv
<1>1. CASE OpenFirst(q)
  BY <1>0, <1>1 DEF OpenFirst, SeenOf, TypeOK, Name, WritesS, WritesP
<1>2. CASE OpenSecond(q)
  BY <1>0, <1>2 DEF OpenSecond, SeenOf, TypeOK, Name, WritesS, WritesP
<1>3. CASE WriteS(q)
  BY <1>0, <1>3 DEF WriteS, SeenOf, TypeOK, Name, WritesS, WritesP
<1>4. CASE WriteP(q)
  BY <1>0, <1>4 DEF WriteP, SeenOf, TypeOK
<1>5. CASE Start(q) \/ NextFile(q) \/ Finish(q) \/ Lock(q) \/ LockFails(q) \/ OpenFails(q)
           \/ Refuse(q) \/ Close(q) \/ FatalSignal(q) \/ Kill(q)
  BY <1>0, <1>5 DEF Start, NextFile, Finish, Lock, LockFails, OpenFails, Refuse, Close,
                    FatalSignal, Kill, SeenOf, TypeOK
<1> QED
  BY <1>1, <1>2, <1>3, <1>4, <1>5 DEF Step

\* What a step of q leaves alone of the others.
LEMMA Frame ==
  ASSUME TypeOK, NEW p \in Proc, NEW q \in Proc, p # q,
         Start(q) \/ Step(q) \/ FatalSignal(q) \/ Kill(q)
  PROVE  /\ cmd' = cmd /\ pc'[p] = pc[p] /\ pos'[p] = pos[p] /\ lockCnt'[p] = lockCnt[p]
         /\ seenS'[p] = seenS[p] /\ seenP'[p] = seenP[p]
         /\ \A f \in File : zfile[f] = p => zfile'[f] = p
         /\ \A f \in File : sfile'[f] # sfile[f] \/ pfile'[f] # pfile[f] =>
                              Busy(q) /\ f = Name(q)
<1> USE DEF TypeOK
<1>1. CASE Start(q) \/ NextFile(q) \/ LockFails(q) \/ OpenFails(q) \/ Kill(q)
  BY <1>1 DEF Start, NextFile, LockFails, OpenFails, Kill
<1>2. CASE Finish(q) \/ FatalSignal(q)
  BY <1>2 DEF Finish, FatalSignal, RemoveZFiles
<1>3. CASE Lock(q)
  BY <1>3, CommandLocksAssumption DEF Lock
<1>4. CASE OpenFirst(q)
  BY <1>4 DEF OpenFirst
<1>5. CASE OpenSecond(q)
  BY <1>5 DEF OpenSecond
<1>6. CASE Refuse(q) \/ Close(q)
  BY <1>6 DEF Refuse, Close, Unlock
<1>7. CASE WriteS(q)
  BY <1>7 DEF WriteS, Busy
<1>8. CASE WriteP(q)
  BY <1>8 DEF WriteP, Busy
<1> QED
  BY <1>1, <1>2, <1>3, <1>4, <1>5, <1>6, <1>7, <1>8 DEF Step

LEMMA SafeStep ==
  ASSUME SafeInv, NoLeftoverCount, NEW q \in Proc,
         Start(q) \/ Step(q) \/ FatalSignal(q) \/ Kill(q)
  PROVE  SafeInv'
<1>1. TypeInv'
  BY TypeStep DEF SafeInv
<1>2. ASSUME NEW p \in Proc PROVE (CountOf(p) /\ HoldsOf(p) /\ SeenOf(p))'
  <2>1. CASE p = q
    BY <2>1, CountStep, HoldStep, SeenStep
  <2>2. CASE p # q
    <3>0. TypeOK /\ CountOf(p) /\ HoldsOf(p) /\ SeenOf(p)
      BY DEF SafeInv, TypeInv
    <3>1. /\ cmd' = cmd /\ pc'[p] = pc[p] /\ pos'[p] = pos[p] /\ lockCnt'[p] = lockCnt[p]
          /\ seenS'[p] = seenS[p] /\ seenP'[p] = seenP[p]
          /\ \A f \in File : zfile[f] = p => zfile'[f] = p
          /\ \A f \in File : sfile'[f] # sfile[f] \/ pfile'[f] # pfile[f] =>
                               Busy(q) /\ f = Name(q)
      BY <2>2, <3>0, Frame
    <3>2. Busy(p) => Name(p) \in File
      BY <3>0, NameInFile DEF Busy, TypeOK
    <3>3. Busy(p) => sfile'[Name(p)] = sfile[Name(p)] /\ pfile'[Name(p)] = pfile[Name(p)]
      BY <2>2, <3>1, <3>2, DifferentFiles
    <3>4. CountOf(p)'
      BY <3>0, <3>1 DEF CountOf, Users
    <3>5. HoldsOf(p)'
      BY <3>0, <3>1, <3>2 DEF HoldsOf, Busy, Name
    <3>6. SeenOf(p)'
      BY <3>0, <3>1, <3>3 DEF SeenOf, Busy, Name, WritesS, WritesP
    <3> QED
      BY <3>4, <3>5, <3>6
  <2> QED
    BY <2>1, <2>2
<1> QED
  BY <1>1, <1>2 DEF SafeInv

LEMMA SafeNext == NoLeftoverCount /\ SafeInv /\ [Next]_vars => SafeInv'
<1> SUFFICES ASSUME NoLeftoverCount, SafeInv, [Next]_vars PROVE SafeInv'
  OBVIOUS
<1>1. CASE \E p \in Proc : Start(p) \/ Step(p) \/ FatalSignal(p) \/ Kill(p)
  BY <1>1, SafeStep
<1>2. ASSUME NEW f \in File, RemoveStaleZFile(f) PROVE SafeInv'
  <2>1. TypeInv'
    BY <1>2, TypeNext DEF Next, SafeInv
  <2>2. ASSUME NEW p \in Proc PROVE (CountOf(p) /\ HoldsOf(p) /\ SeenOf(p))'
    <3>1. CountOf(p) /\ HoldsOf(p) /\ SeenOf(p) /\ TypeOK
      BY DEF SafeInv, TypeInv
    <3>2. CountOf(p)' /\ SeenOf(p)'
      BY <1>2, <3>1 DEF RemoveStaleZFile, CountOf, SeenOf, Users, Name, WritesS, WritesP
    <3>3. Busy(p) => Name(p) # f
      BY <1>2, <3>1 DEF RemoveStaleZFile, HoldsOf, Busy
    <3>4. HoldsOf(p)'
      BY <1>2, <3>1, <3>3 DEF RemoveStaleZFile, HoldsOf, Busy, Name, TypeOK
    <3> QED
      BY <3>2, <3>4
  <2> QED
    BY <2>1, <2>2 DEF SafeInv
<1>3. CASE UNCHANGED vars
  <2>1. TypeInv'
    BY <1>3, TypeNext DEF SafeInv
  <2>2. ASSUME NEW p \in Proc PROVE (CountOf(p) /\ HoldsOf(p) /\ SeenOf(p))'
    BY <1>3 DEF vars, SafeInv, CountOf, HoldsOf, SeenOf, Busy, Users, Name, WritesS, WritesP
  <2> QED
    BY <2>1, <2>2 DEF SafeInv
<1> QED
  BY <1>1, <1>2, <1>3 DEF Next

\* When no command leaves a lock count behind before its last file, whoever is about
\* to rewrite a file holds its z-file (the promise of sccs_file's constructor), also
\* when commands are killed.
THEOREM UpdatesAreLocked ==
  ASSUME NoLeftoverCount PROVE Spec => []LockedWhenUpdating
<1>1. SafeInv => LockedWhenUpdating
  BY DEF SafeInv, LockedWhenUpdating, HoldsOf, Busy
<1> QED
  BY SafeInit, SafeNext, <1>1, PTL DEF Spec

\* Under the same condition no command ever undoes what another one recorded in
\* an s-file or a p-file, whatever the interleaving and whoever crashes.
THEOREM UpdatesAreNotLost ==
  ASSUME NoLeftoverCount PROVE Spec => NoLostUpdate
<1>1. ASSUME SafeInv, [Next]_vars, NEW f \in File
      PROVE  sfile[f] \subseteq sfile'[f] /\ pfile[f] \subseteq pfile'[f]
  <2>0. TypeOK
    BY <1>1 DEF SafeInv, TypeInv
  <2>1. ASSUME NEW q \in Proc, WriteS(q)
        PROVE  sfile[f] \subseteq sfile'[f] /\ pfile[f] \subseteq pfile'[f]
    <3>1. seenS[q] = sfile[Name(q)]
      BY <1>1, <2>1 DEF WriteS, SafeInv, SeenOf
    <3> QED
      BY <2>0, <2>1, <3>1 DEF WriteS, TypeOK
  <2>2. ASSUME NEW q \in Proc, WriteP(q)
        PROVE  sfile[f] \subseteq sfile'[f] /\ pfile[f] \subseteq pfile'[f]
    <3>1. cmd[q].kind \in Kinds
      BY <2>0, CommandLocksAssumption DEF TypeOK
    <3>2. seenP[q] = pfile[Name(q)]
      BY <1>1, <2>2, <3>1 DEF WriteP, SafeInv, SeenOf, WritesS, WritesP, Kinds
    <3> QED
      BY <2>0, <2>2, <3>2 DEF WriteP, TypeOK
  <2>3. ASSUME NEW q \in Proc,
               \/ Start(q) \/ NextFile(q) \/ Finish(q) \/ Lock(q) \/ LockFails(q)
               \/ OpenFirst(q) \/ OpenSecond(q) \/ OpenFails(q) \/ Refuse(q) \/ Close(q)
               \/ FatalSignal(q) \/ Kill(q)
        PROVE  sfile' = sfile /\ pfile' = pfile
    BY <2>3 DEF Start, NextFile, Finish, Lock, LockFails, OpenFirst, OpenSecond,
                OpenFails, Refuse, Close, FatalSignal, Kill
  <2>4. (\E g \in File : RemoveStaleZFile(g)) \/ UNCHANGED vars
          => sfile' = sfile /\ pfile' = pfile
    BY DEF RemoveStaleZFile, vars
  <2> QED
    BY <1>1, <2>1, <2>2, <2>3, <2>4 DEF Next, Step
<1>2. SafeInv /\ [Next]_vars =>
        [\A f \in File : sfile[f] \subseteq sfile'[f] /\ pfile[f] \subseteq pfile'[f]]_vars
  BY <1>1
<1> QED
  BY SafeInit, SafeNext, <1>2, PTL DEF Spec, NoLostUpdate

=============================================================================
