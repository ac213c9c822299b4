------------------------- MODULE EditProtocolProofs -------------------------
(***************************************************************************)
(* The edit cycle, for any users, flags, requests and bounds: what is in   *)
(* the files, what survives crashes and failures, which promises of the    *)
(* p-file are kept, and that EditProtocol implements EditLocks.            *)
(***************************************************************************)
EXTENDS EditProtocol, OperatorProofs, SequenceTheorems

EditLock == [user : Users, got : DeltaSids, delta : DeltaSids]
PFiles == {locks \in SUBSET EditLock : IsFiniteSet(locks)}

\* Absent is no table and no set of locks.
AbsentIsNoFile == Absent \notin Tables /\ Absent \notin PFiles

Calls == {"create_x", "write_x", "remove_s", "rename_x",
          "create_q", "remove_p", "rename_q", "remove_q"}
Runs ==
  [pc : Calls, kind : {"get", "delta", "unget", "rmdel"}, user : Users,
   table : Tables \cup {Absent}, locks : PFiles, replaces : BOOLEAN]

TypeInv ==
  /\ use \in Uses
  /\ gfile \in [Users -> BOOLEAN]
  /\ sfile \in Tables \cup {Absent} /\ xfile \in Tables \cup {Absent}
  /\ pfile \in PFiles \cup {Absent} /\ qfile \in PFiles \cup {Absent}
  /\ run = Idle \/ run \in Runs

-----------------------------------------------------------------------------
(* Lemmas about the operators.                                             *)

LEMMA UseFacts ==
  ASSUME TypeInv
  PROVE  /\ Flags.joint \in BOOLEAN /\ Flags.default \in WellFormed
         /\ use.nulls \in BOOLEAN /\ use.branches \subseteq BOOLEAN
BY EditProtocolAssumption DEF TypeInv, Flags

LEMMA LocksType ==
  ASSUME TypeInv
  PROVE  /\ Locks \in PFiles /\ Locks \subseteq EditLock /\ IsFiniteSet(Locks)
         /\ \A l \in Locks : l.user \in Users /\ l.got \in DeltaSids /\ l.delta \in DeltaSids
<1>1. {} \in PFiles
  BY FS_EmptySet DEF PFiles
<1>2. Locks \in PFiles
  BY <1>1 DEF TypeInv, Locks, LocksIn
<1> QED
  BY <1>2 DEF PFiles, EditLock

LEMMA FewerLocks ==
  ASSUME NEW locks \in PFiles, NEW l
  PROVE  locks \ {l} \in PFiles
BY FS_RemoveElement DEF PFiles

LEMMA MoreLocks ==
  ASSUME NEW locks \in PFiles, NEW l \in EditLock
  PROVE  locks \cup {l} \in PFiles
BY FS_AddElement DEF PFiles

\* What a user may ask for is a SID.
LEMMA RequestsWellFormed ==
  ASSUME TypeInv, sfile # Absent
  PROVE  Requests \subseteq WellFormed
<1>1. sfile \in Tables /\ CurrentSids(sfile) \subseteq DeltaSids /\ DeltaSids \subseteq WellFormed
  BY TableFacts DEF TypeInv, DeltaSids
<1>2. NullSid \in WellFormed
  BY DEF NullSid, WellFormed, SidTuples
<1>3. use.releases \in Nat /\ \A r \in 1..use.releases : <<r, 0, 0, 0>> \in WellFormed
  BY EditProtocolAssumption DEF TypeInv, WellFormed, SidTuples
<1>4. ASSUME NEW id \in DeltaSids PROVE [id EXCEPT ![4] = 0] \in WellFormed
  <2>1. id \in WellFormed
    BY DEF DeltaSids
  <2>2. [id EXCEPT ![4] = 0] = <<id[1], id[2], id[3], 0>>
    BY <2>1 DEF WellFormed, SidTuples
  <2> QED
    BY <2>1, <2>2 DEF WellFormed, SidTuples
<1> QED
  BY <1>1, <1>2, <1>3, <1>4 DEF Requests

\* What get -e retrieves is there, and its answer to which SID is next is a SID.
LEMMA RetrieveType ==
  ASSUME TypeInv, sfile # Absent, NEW rid, ~IsNull(Retrieve(rid))
  PROVE  Retrieve(rid) \in CurrentSids(sfile) /\ Retrieve(rid) \in DeltaSids
<1>1. sfile \in Tables
  BY DEF TypeInv
<1>2. Retrieve(rid) \in CurrentSids(sfile) \cup {NullSid}
  BY <1>1, RequestedIsCurrent DEF Retrieve
<1>3. IsNull(NullSid)
  BY DEF IsNull, NullSid
<1> QED
  BY <1>1, <1>2, <1>3, TableFacts

LEMMA EditRequestType ==
  ASSUME TypeInv, sfile # Absent, NEW rid \in Requests, ~IsNull(Retrieve(rid))
  PROVE  /\ EditRequest(rid, Retrieve(rid)) \in WellFormed
         /\ ~IsNull(EditRequest(rid, Retrieve(rid)))
<1>1. rid \in WellFormed /\ Retrieve(rid) \in DeltaSids /\ DeltaSids \subseteq WellFormed
  BY RequestsWellFormed, RetrieveType DEF DeltaSids
<1> QED
  BY <1>1 DEF EditRequest

LEMMA NextSidType ==
  ASSUME TypeInv, sfile # Absent, NEW rid \in Requests, ~IsNull(Retrieve(rid)),
         NEW branch \in BOOLEAN
  PROVE  NextSid(rid, branch).next \in DeltaSids
<1>1. /\ sfile \in Tables /\ IsFiniteSet(Locks) /\ Flags.default \in WellFormed
      /\ Retrieve(rid) \in DeltaSids
      /\ EditRequest(rid, Retrieve(rid)) \in WellFormed
      /\ ~IsNull(EditRequest(rid, Retrieve(rid)))
  BY LocksType, UseFacts, RetrieveType, EditRequestType DEF TypeInv
<1> QED
  BY <1>1, NextSidCases DEF NextSid

\* The null deltas are numbered from the release after the gotten one.
LEMMA SkippedCount ==
  ASSUME NEW got \in DeltaSids, NEW id \in DeltaSids
  PROVE  LET n == Cardinality(SkippedSids(got, id))
         IN  /\ n \in Nat /\ IsFiniteSet(SkippedSids(got, id))
             /\ n = 0 <=> SkippedSids(got, id) = {}
             /\ SkippedSids(got, id) = {<<Release(got) + i, 1, 0, 0>> : i \in 1..n}
             /\ SkippedSids(got, id) \subseteq DeltaSids
<1> DEFINE a == Release(got) + 1
           b == Release(id) - 1
           D == a..b
           S == SkippedSids(got, id)
           f == [r \in D |-> <<r, 1, 0, 0>>]
<1>1. a \in Nat /\ b \in Int /\ a > 0
  BY DEF DeltaSids, WellFormed, SidTuples, Release
<1>2. S = {<<r, 1, 0, 0>> : r \in D}
  BY DEF SkippedSids
<1>3. f \in Bijection(D, S)
  <2>1. \A r \in D : f[r] = <<r, 1, 0, 0>>
    OBVIOUS
  <2>2. \A q, r \in D : f[q] = f[r] => q = r
    BY <2>1
  <2>3. f \in [D -> S] /\ \A s \in S : \E r \in D : f[r] = s
    BY <1>2, <2>1
  <2> HIDE DEF f, D, S
  <2> QED
    BY <2>2, <2>3 DEF Bijection, Injection, Surjection, IsInjective
<1> HIDE DEF f
<1>4. IsFiniteSet(D) /\ Cardinality(D) = IF a > b THEN 0 ELSE b - a + 1
  <2> HIDE DEF a, b
  <2> QED
    BY <1>1, FS_Interval
<1>5. ExistsBijection(D, S)
  BY <1>3 DEF ExistsBijection
<1>6. IsFiniteSet(S) /\ Cardinality(S) = Cardinality(D)
  <2> HIDE DEF D, S
  <2> QED
    BY <1>4, <1>5, FS_Bijection
<1>7. S \subseteq DeltaSids
  <2>1. ASSUME NEW r \in D PROVE <<r, 1, 0, 0>> \in DeltaSids
    <3>1. r \in Nat /\ r > 0
      BY <1>1
    <3> QED
      BY <3>1, DeltaSidFacts DEF SidTuples
  <2> QED
    BY <1>2, <2>1
<1> DEFINE n == Cardinality(S)
<1>8. n \in Nat /\ n = IF a > b THEN 0 ELSE b - a + 1
  BY <1>1, <1>4, <1>6
<1>9. n = 0 <=> S = {}
  BY <1>6, FS_EmptySet
<1>10. S = {<<Release(got) + i, 1, 0, 0>> : i \in 1..n}
  <2>0. Release(got) \in Nat
    BY DEF DeltaSids, WellFormed, SidTuples, Release
  <2> HIDE DEF n
  <2>1. ASSUME NEW r \in D PROVE \E i \in 1..n : r = Release(got) + i
    <3>1. r \in Int /\ a <= r /\ r <= b
      BY <1>1
    <3>2. r - Release(got) \in 1..n
      BY <1>1, <1>8, <2>0, <3>1
    <3>3. r = Release(got) + (r - Release(got))
      BY <2>0, <3>1
    <3> QED
      BY <3>2, <3>3
  <2>2. ASSUME NEW i \in 1..n PROVE Release(got) + i \in D
    BY <1>1, <1>8, <2>0
  <2> HIDE DEF D, S
  <2> QED
    BY <1>2, <2>1, <2>2
<1> HIDE DEF S
<1> QED
  BY <1>6, <1>7, <1>8, <1>9, <1>10 DEF S

LEMMA NullSidsFacts ==
  ASSUME TypeInv, NEW l \in EditLock
  PROVE  LET n == Cardinality(NullSids(l.got, l.delta))
         IN  /\ n \in Nat
             /\ NullSids(l.got, l.delta) = {<<Release(l.got) + i, 1, 0, 0>> : i \in 1..n}
             /\ NullSids(l.got, l.delta) \subseteq DeltaSids
<1>1. l.got \in DeltaSids /\ l.delta \in DeltaSids
  BY DEF EditLock
<1>2. CASE use.nulls
  BY <1>1, <1>2, SkippedCount DEF NullSids
<1>3. CASE ~use.nulls
  <2>1. NullSids(l.got, l.delta) = {} /\ Cardinality({}) = 0
    BY <1>3, FS_EmptySet DEF NullSids
  <2> QED
    BY <2>1
<1> QED
  BY <1>2, <1>3

\* The table that delta writes: the old one, the null deltas and the new delta.
LEMMA WithDeltaParts ==
  ASSUME TypeInv, NEW t \in Tables, NEW l \in EditLock, FindDelta(t, l.got) # 0
  PROVE  LET w == WithDelta(t, l)
             m == Cardinality(NullSids(l.got, l.delta))
         IN  /\ w \in Tables /\ m \in Nat
             /\ Len(w) = Len(t) + m + 1
             /\ \A i \in 1..Len(t) : w[i] = t[i]
             /\ \A i \in 1..m : /\ w[Len(t) + i].sid = <<Release(l.got) + i, 1, 0, 0>>
                                /\ w[Len(t) + i].type = "D"
             /\ w[Len(t) + m + 1].sid = l.delta /\ w[Len(t) + m + 1].type = "D"
             /\ \A i \in 1..m : w[Len(t) + i].prev = IF i = 1 THEN FindDelta(t, l.got)
                                                    ELSE Len(t) + i - 1
             /\ w[Len(t) + m + 1].prev = IF m = 0 THEN FindDelta(t, l.got) ELSE Len(t) + m
<1> DEFINE m == Cardinality(NullSids(l.got, l.delta))
           n == Len(t)
           seq == FindDelta(t, l.got)
           mid == [i \in 1..m |->
                     Entry(<<Release(l.got) + i, 1, 0, 0>>, IF i = 1 THEN seq ELSE n + i - 1)]
           last == <<Entry(l.delta, IF m = 0 THEN seq ELSE n + m)>>
           w == WithDelta(t, l)
<1>1. m \in Nat /\ n \in Nat /\ seq \in 1..n /\ t \in Seq(DeltaRecords)
  BY NullSidsFacts, TableFacts, FindDeltaFinds DEF Tables
<1>2. \A i \in 1..m : <<Release(l.got) + i, 1, 0, 0>> \in DeltaSids
  BY NullSidsFacts
<1>3. w = (t \o mid) \o last
  BY DEF WithDelta
<1>4. \A i \in 1..m : /\ mid[i].sid = <<Release(l.got) + i, 1, 0, 0>> /\ mid[i].type = "D"
                      /\ mid[i].prev = IF i = 1 THEN seq ELSE n + i - 1
                      /\ mid[i] \in DeltaRecords
  <2> HIDE DEF seq, n, m
  <2> QED
    BY <1>1, <1>2 DEF Entry, DeltaRecords
<1>5. mid \in Seq(DeltaRecords) /\ Len(mid) = m
  <2>1. DOMAIN mid = 1..m /\ mid \in [1..m -> DeltaRecords]
    BY <1>4
  <2> HIDE DEF mid, m
  <2> QED
    BY <1>1, <2>1
<1>6. /\ last \in Seq(DeltaRecords) /\ Len(last) = 1 /\ last[1].sid = l.delta /\ last[1].type = "D"
      /\ last[1].prev = IF m = 0 THEN seq ELSE n + m
  <2>1. l.delta \in DeltaSids
    BY DEF EditLock
  <2> HIDE DEF seq, n, m
  <2> QED
    BY <1>1, <2>1 DEF Entry, DeltaRecords
<1> HIDE DEF mid, last, seq, w, m
<1>7. /\ t \o mid \in Seq(DeltaRecords) /\ Len(t \o mid) = n + m
      /\ \A i \in 1..(n + m) : (t \o mid)[i] = IF i <= n THEN t[i] ELSE mid[i - n]
  BY <1>1, <1>5, ConcatProperties
<1>8. /\ w \in Seq(DeltaRecords) /\ Len(w) = n + m + 1
      /\ \A i \in 1..(n + m + 1) :
           w[i] = IF i <= n + m THEN (t \o mid)[i] ELSE last[i - (n + m)]
  <2> DEFINE u == t \o mid
             k == n + m
  <2>1. u \in Seq(DeltaRecords) /\ Len(u) = k /\ w = u \o last
    BY <1>3, <1>7
  <2> HIDE DEF u, k
  <2>2. /\ w \in Seq(DeltaRecords) /\ Len(w) = k + 1
        /\ \A i \in 1..(k + 1) : w[i] = IF i <= k THEN u[i] ELSE last[i - k]
    <3>1. /\ u \o last \in Seq(DeltaRecords) /\ Len(u \o last) = Len(u) + Len(last)
          /\ \A i \in 1..(Len(u) + Len(last)) :
               (u \o last)[i] = IF i <= Len(u) THEN u[i] ELSE last[i - Len(u)]
      BY <1>6, <2>1, ConcatProperties
    <3>2. Len(last) = 1
      BY <1>6
    <3> QED
      BY <2>1, <3>1, <3>2, Zenon
  <2> QED
    BY <2>2 DEF u, k
<1> HIDE DEF n
<1>9. ASSUME NEW i \in 1..n PROVE w[i] = t[i]
  <2> DEFINE u == t \o mid
  <2>1. i \in 1..(n + m) /\ i \in 1..(n + m + 1) /\ i <= n /\ i <= n + m
    BY <1>1
  <2>2. \A j \in 1..(n + m) : u[j] = IF j <= n THEN t[j] ELSE mid[j - n]
    BY <1>7
  <2>3. \A j \in 1..(n + m + 1) : w[j] = IF j <= n + m THEN u[j] ELSE last[j - (n + m)]
    BY <1>8
  <2> HIDE DEF u
  <2> QED
    BY Zenon, <2>1, <2>2, <2>3
<1>10. \A i \in 1..m : w[n + i] = mid[i]
  <2> TAKE i \in 1..m
  <2>1. n + i \in 1..(n + m) /\ n + i \in 1..(n + m + 1) /\ n + i <= n + m /\ ~(n + i <= n)
        /\ (n + i) - n = i
    BY <1>1
  <2> QED
    BY <1>7, <1>8, <2>1
<1>11. w[n + m + 1] = last[1]
  <2>1. n + m + 1 \in 1..(n + m + 1) /\ ~(n + m + 1 <= n + m) /\ (n + m + 1) - (n + m) = 1
    BY <1>1
  <2> QED
    BY <1>8, <2>1
<1>12. \A i \in 1..(n + m + 1) : w[i].prev < i
  <2> TAKE i \in 1..(n + m + 1)
  <2>1. CASE i \in 1..n
    BY <1>9, <2>1 DEF Tables, n
  <2>2. CASE i \in (n + 1)..(n + m)
    <3>1. i - n \in 1..m /\ n + (i - n) = i
      BY <1>1, <2>2
    <3>2. w[i] = mid[i - n]
      BY <1>10, <3>1
    <3>3. mid[i - n].prev = IF i - n = 1 THEN seq ELSE n + (i - n) - 1
      BY <1>4, <3>1
    <3>4. w[i].prev = seq \/ w[i].prev = i - 1
      BY <1>1, <3>1, <3>2, <3>3
    <3> QED
      BY <1>1, <2>2, <3>4
  <2>3. CASE i = n + m + 1
    BY <1>1, <1>6, <1>11, <2>3
  <2> QED
    BY <1>1, <2>1, <2>2, <2>3
<1>13. w \in Tables
  BY <1>8, <1>12 DEF Tables
<1> QED
  BY <1>1, <1>4, <1>6, <1>8, <1>9, <1>10, <1>11, <1>13 DEF w, m, n, seq

LEMMA WithDeltaSids ==
  ASSUME TypeInv, NEW t \in Tables, NEW l \in EditLock, FindDelta(t, l.got) # 0
  PROVE  CurrentSids(WithDelta(t, l)) =
           CurrentSids(t) \cup {l.delta} \cup NullSids(l.got, l.delta)
<1> DEFINE w == WithDelta(t, l)
           m == Cardinality(NullSids(l.got, l.delta))
           n == Len(t)
<1>1. /\ w \in Tables /\ m \in Nat
      /\ Len(w) = n + m + 1
      /\ \A i \in 1..n : w[i] = t[i]
      /\ \A i \in 1..m : /\ w[n + i].sid = <<Release(l.got) + i, 1, 0, 0>>
                         /\ w[n + i].type = "D"
      /\ w[n + m + 1].sid = l.delta /\ w[n + m + 1].type = "D"
  BY WithDeltaParts
<1>2. n \in Nat /\ DOMAIN t = 1..n
  BY TableFacts
<1>3. NullSids(l.got, l.delta) = {<<Release(l.got) + i, 1, 0, 0>> : i \in 1..m}
  BY NullSidsFacts
<1> HIDE DEF w, m, n
<1>4. DOMAIN w = 1..(n + m + 1)
  BY <1>1, TableFacts
<1>5. ASSUME NEW i \in CurrentDeltas(w)
      PROVE  w[i].sid \in CurrentSids(t) \cup {l.delta} \cup NullSids(l.got, l.delta)
  <2>1. i \in 1..(n + m + 1) /\ w[i].type = "D"
    BY <1>4 DEF CurrentDeltas
  <2>2. CASE i \in 1..n
    BY <1>1, <1>2, <2>1, <2>2 DEF CurrentSids, CurrentDeltas
  <2>3. CASE i \in (n + 1)..(n + m)
    <3>1. i - n \in 1..m /\ n + (i - n) = i
      BY <1>1, <1>2, <2>3
    <3> QED
      BY <1>1, <1>3, <3>1
  <2>4. CASE i = n + m + 1
    BY <1>1, <2>4
  <2> QED
    BY <1>1, <1>2, <2>1, <2>2, <2>3, <2>4
<1>6. ASSUME NEW i \in CurrentDeltas(t) PROVE t[i].sid \in CurrentSids(w)
  <2>1. i \in 1..n /\ i \in 1..(n + m + 1) /\ t[i].type = "D"
    BY <1>1, <1>2 DEF CurrentDeltas
  <2> QED
    BY <1>1, <1>4, <2>1 DEF CurrentSids, CurrentDeltas
<1>7. l.delta \in CurrentSids(w)
  <2>1. n + m + 1 \in 1..(n + m + 1)
    BY <1>1, <1>2
  <2> QED
    BY <1>1, <1>4, <2>1 DEF CurrentSids, CurrentDeltas
<1>8. ASSUME NEW i \in 1..m PROVE <<Release(l.got) + i, 1, 0, 0>> \in CurrentSids(w)
  <2>1. n + i \in 1..(n + m + 1)
    BY <1>1, <1>2
  <2> QED
    BY <1>1, <1>4, <2>1 DEF CurrentSids, CurrentDeltas
<1>9. CurrentSids(t) \subseteq CurrentSids(w)
  BY <1>6 DEF CurrentSids
<1>10. CurrentSids(w) \subseteq CurrentSids(t) \cup {l.delta} \cup NullSids(l.got, l.delta)
  BY <1>5 DEF CurrentSids
<1> QED
  BY <1>3, <1>7, <1>8, <1>9, <1>10 DEF w

-----------------------------------------------------------------------------
(* The commands begin.                                                     *)

\* The steps of the system, one by one.
LEMMA Steps ==
  ASSUME TypeInv, Next
  PROVE  \/ \E u \in Users, rid \in Requests, branch \in BOOLEAN : GetEdit(u, rid, branch)
         \/ \E u \in Users, rid \in Requests : Rmdel(u, rid)
         \/ \E u \in Users : \E rid : Delta(u, rid)
         \/ \E u \in Users : \E rid : Unget(u, rid)
         \/ \E u \in Users : DiscardGFile(u)
         \/ CreateX \/ WriteX \/ RemoveS \/ RenameX \/ UpdateFails
         \/ CreateQ \/ QFileExists \/ RemoveP \/ RenameQ \/ RemoveQ \/ PFileUpdateFails
         \/ Crash
<1>1. CASE Command
  <2>1. PICK u \in Users :
          \/ \E rid \in (IF sfile = Absent THEN {} ELSE Requests) :
               \/ \E branch \in use.branches : GetEdit(u, rid, branch)
               \/ Rmdel(u, rid)
          \/ \E rid \in {NullSid} \cup {l.got : l \in Locks} \cup Reserved(Locks) :
               Delta(u, rid) \/ Unget(u, rid)
          \/ DiscardGFile(u)
    BY <1>1 DEF Command
  <2>2. (IF sfile = Absent THEN {} ELSE Requests) \subseteq Requests
    OBVIOUS
  <2> QED
    BY <2>1, <2>2, UseFacts
<1> QED
  BY <1>1 DEF Next, SystemCall

LEMMA GetEditBegins ==
  ASSUME TypeInv, NEW u \in Users, NEW rid \in Requests, NEW branch \in BOOLEAN,
         GetEdit(u, rid, branch)
  PROVE  LET got == Retrieve(rid)
             next == NextSid(rid, branch).next
             l == Lock(u, got, next)
         IN  /\ IsIdle /\ sfile \in Tables /\ sfile # Absent
             /\ l \in EditLock /\ l.user = u /\ l.got = got /\ l.delta = next
             /\ got \in CurrentSids(sfile)
             /\ next \notin CurrentSids(sfile) \cup Reserved(Locks)
             /\ TestLocks(Locks, got, Flags) /\ NextSid(rid, branch).ok
             /\ run' \in Runs /\ run'.pc = "create_q" /\ run'.kind = "get"
             /\ run'.table = sfile /\ run'.locks = Locks \cup {l}
             /\ gfile' \in [Users -> BOOLEAN]
             /\ UNCHANGED <<sfile, xfile, pfile, qfile, use>>
<1> DEFINE got == Retrieve(rid)
           next == NextSid(rid, branch).next
           l == Lock(u, got, next)
<1>1. /\ IsIdle /\ sfile # Absent /\ MayEdit(rid) /\ NextSid(rid, branch).ok
      /\ ~InUse(sfile, Locks, next)
      /\ gfile' = [gfile EXCEPT ![u] = TRUE]
      /\ run' = [pc |-> "create_q", kind |-> "get", user |-> u, table |-> sfile,
                 locks |-> Locks \cup {l}, replaces |-> Locks # {}]
      /\ UNCHANGED <<sfile, xfile, pfile, qfile, use>>
  BY DEF GetEdit
<1>2. ~IsNull(got) /\ TestLocks(Locks, got, Flags)
  BY <1>1 DEF MayEdit
<1>3. sfile \in Tables
  BY <1>1 DEF TypeInv
<1>4. got \in CurrentSids(sfile) /\ got \in DeltaSids
  BY <1>1, <1>2, RetrieveType
<1>5. next \in DeltaSids
  BY <1>1, <1>2, NextSidType
<1>6. next \notin CurrentSids(sfile) \cup Reserved(Locks)
  BY <1>1, <1>3, FindDeltaZero DEF InUse
<1> HIDE DEF got, next
<1>7. l \in EditLock /\ l.user = u /\ l.got = got /\ l.delta = next
  BY <1>4, <1>5 DEF EditLock, Lock
<1>8. Locks \cup {l} \in PFiles
  BY <1>7, LocksType, MoreLocks
<1>9. (Locks # {}) \in BOOLEAN
  OBVIOUS
<1> HIDE DEF l
<1>10. run' \in Runs /\ run'.pc = "create_q" /\ run'.kind = "get"
       /\ run'.table = sfile /\ run'.locks = Locks \cup {l}
  BY <1>1, <1>3, <1>8, <1>9 DEF Runs, Calls
<1>11. gfile' \in [Users -> BOOLEAN]
  BY <1>1 DEF TypeInv
<1> QED
  BY <1>1, <1>2, <1>3, <1>4, <1>6, <1>7, <1>10, <1>11 DEF got, next, l

LEMMA DeltaBegins ==
  ASSUME TypeInv, NEW u \in Users, NEW rid, Delta(u, rid)
  PROVE  /\ IsIdle /\ sfile \in Tables /\ sfile # Absent
         /\ run' \in Runs /\ run'.pc = "create_x" /\ run'.kind = "delta"
         /\ run'.table \in Tables /\ run'.table # <<>>
         /\ \E l \in Locks : /\ run'.locks = Locks \ {l} /\ FindDelta(sfile, l.got) # 0
                             /\ run'.table = WithDelta(sfile, l)
         /\ UNCHANGED <<sfile, xfile, pfile, qfile, gfile, use>>
<1>1. /\ IsIdle /\ sfile # Absent /\ sfile \in Tables
      /\ UNCHANGED <<sfile, xfile, pfile, qfile, gfile, use>>
  BY DEF Delta, TypeInv
<1>2. PICK l \in Locks :
        /\ FindDelta(sfile, l.got) # 0
        /\ run' = [pc |-> "create_x", kind |-> "delta", user |-> u,
                   table |-> WithDelta(sfile, l), locks |-> DeleteLock(l), replaces |-> TRUE]
  BY DEF Delta
<1>3. l \in EditLock /\ Locks \ {l} \in PFiles
  BY LocksType, FewerLocks
<1>4. /\ WithDelta(sfile, l) \in Tables
      /\ \E m \in Nat : Len(WithDelta(sfile, l)) = Len(sfile) + m + 1
  BY <1>1, <1>2, <1>3, WithDeltaParts
<1>5. WithDelta(sfile, l) # <<>>
  BY <1>1, <1>4, TableFacts
<1>6. run' \in Runs /\ run'.pc = "create_x" /\ run'.kind = "delta"
      /\ run'.table = WithDelta(sfile, l) /\ run'.locks = Locks \ {l}
  BY <1>2, <1>3, <1>4 DEF Runs, Calls, DeleteLock
<1> QED
  BY <1>1, <1>2, <1>4, <1>5, <1>6

LEMMA UngetBegins ==
  ASSUME TypeInv, NEW u \in Users, NEW rid, Unget(u, rid)
  PROVE  /\ IsIdle
         /\ run' \in Runs /\ run'.pc = "create_q" /\ run'.kind = "unget"
         /\ run'.table = sfile /\ \E l \in Locks : run'.locks = Locks \ {l}
         /\ UNCHANGED <<sfile, xfile, pfile, qfile, gfile, use>>
<1>1. IsIdle /\ UNCHANGED <<sfile, xfile, pfile, qfile, gfile, use>>
  BY DEF Unget
<1>2. PICK l \in Locks :
        run' = [pc |-> "create_q", kind |-> "unget", user |-> u, table |-> sfile,
                locks |-> DeleteLock(l), replaces |-> TRUE]
  BY DEF Unget
<1>3. Locks \ {l} \in PFiles
  BY LocksType, FewerLocks
<1>4. run' \in Runs /\ run'.pc = "create_q" /\ run'.kind = "unget"
      /\ run'.table = sfile /\ run'.locks = Locks \ {l}
  BY <1>2, <1>3 DEF Runs, Calls, DeleteLock, TypeInv
<1> QED
  BY <1>1, <1>4

LEMMA RmdelBegins ==
  ASSUME TypeInv, NEW u \in Users, NEW rid, Rmdel(u, rid)
  PROVE  /\ IsIdle /\ sfile \in Tables /\ sfile # Absent
         /\ run' \in Runs /\ run'.pc = "create_x" /\ run'.kind = "rmdel"
         /\ run'.locks = Locks
         /\ rid \in CurrentSids(sfile) /\ \A l \in Locks : l.got # rid
         /\ run'.table = Removed(sfile, rid)
         /\ run'.table \in Tables /\ run'.table # <<>>
         /\ UNCHANGED <<sfile, xfile, pfile, qfile, gfile, use>>
<1> DEFINE t == Removed(sfile, rid)
<1>1. /\ IsIdle /\ sfile # Absent /\ rid \in CurrentSids(sfile)
      /\ \A l \in Locks : l.got # rid
      /\ run' = [pc |-> "create_x", kind |-> "rmdel", user |-> u, table |-> t,
                 locks |-> Locks, replaces |-> TRUE]
      /\ UNCHANGED <<sfile, xfile, pfile, qfile, gfile, use>>
  BY DEF Rmdel, IsLocked, Removed
<1>2. sfile \in Tables
  BY <1>1 DEF TypeInv
<1>3. t \in Tables /\ t # <<>>
  BY <1>1, <1>2, RemovedDelta
<1>4. Locks \in PFiles
  BY LocksType
<1> HIDE DEF t
<1>5. run' \in Runs /\ run'.pc = "create_x" /\ run'.kind = "rmdel"
      /\ run'.table = t /\ run'.locks = Locks
  BY <1>1, <1>3, <1>4 DEF Runs, Calls
<1> QED
  BY <1>1, <1>2, <1>3, <1>5 DEF t

-----------------------------------------------------------------------------
(* Type correctness.                                                       *)

LEMMA RunType ==
  ASSUME TypeInv, ~IsIdle
  PROVE  run \in Runs
BY DEF TypeInv, IsIdle, Idle

LEMMA GoToType ==
  ASSUME NEW r \in Runs, NEW pc \in Calls
  PROVE  LET s == [r EXCEPT !.pc = pc]
         IN  /\ s \in Runs /\ s.pc = pc /\ s.kind = r.kind /\ s.user = r.user
             /\ s.table = r.table /\ s.locks = r.locks /\ s.replaces = r.replaces
BY DEF Runs

\* The system calls: where the command goes, and what it takes with it.
SameCommand ==
  /\ run' \in Runs /\ run'.kind = run.kind /\ run'.user = run.user
  /\ run'.table = run.table /\ run'.locks = run.locks

LEMMA CallSteps ==
  ASSUME TypeInv
  PROVE  /\ CreateX => /\ run \in Runs /\ run.pc = "create_x" /\ run'.pc = "write_x"
                       /\ SameCommand
                       /\ xfile' = <<>> /\ UNCHANGED <<sfile, pfile, qfile, gfile, use>>
         /\ WriteX => /\ run \in Runs /\ run.pc = "write_x" /\ run'.pc = "remove_s"
                      /\ SameCommand
                      /\ xfile' = run.table /\ UNCHANGED <<sfile, pfile, qfile, gfile, use>>
         /\ RemoveS => /\ run \in Runs /\ run.pc = "remove_s" /\ run'.pc = "rename_x"
                       /\ SameCommand
                       /\ sfile' = Absent /\ UNCHANGED <<xfile, pfile, qfile, gfile, use>>
         /\ RenameX => /\ run \in Runs /\ run.pc = "rename_x"
                       /\ \/ run.kind = "delta" /\ run'.pc = "create_q" /\ SameCommand
                          \/ run.kind # "delta" /\ run' = Idle
                       /\ sfile' = xfile /\ xfile' = Absent
                       /\ UNCHANGED <<pfile, qfile, gfile, use>>
         /\ UpdateFails => /\ run \in Runs
                           /\ \/ run.pc = "write_x"
                              \/ run.pc = "remove_s" /\ "remove_s" \in MayFail
                              \/ run.pc = "rename_x" /\ "rename_x" \in MayFail
                           /\ xfile' = Absent /\ run' = Idle
                           /\ UNCHANGED <<sfile, pfile, qfile, gfile, use>>
         /\ CreateQ => /\ run \in Runs /\ run.pc = "create_q"
                       /\ run'.pc \in {"remove_p", "rename_q"} /\ SameCommand
                       /\ qfile = Absent /\ qfile' = run.locks
                       /\ UNCHANGED <<sfile, xfile, pfile, gfile, use>>
         /\ QFileExists => /\ run \in Runs /\ run.pc = "create_q" /\ qfile # Absent
                           /\ run' = Idle /\ gfile' \in [Users -> BOOLEAN]
                           /\ UNCHANGED <<sfile, xfile, pfile, qfile, use>>
         /\ RemoveP => /\ run \in Runs /\ run.pc = "remove_p" /\ SameCommand
                       /\ run'.pc = IF run.locks = {} THEN "remove_q" ELSE "rename_q"
                       /\ pfile' = Absent /\ UNCHANGED <<sfile, xfile, qfile, gfile, use>>
         /\ RenameQ => /\ run \in Runs /\ run.pc = "rename_q" /\ run' = Idle
                       /\ pfile' = qfile /\ qfile' = Absent /\ gfile' \in [Users -> BOOLEAN]
                       /\ UNCHANGED <<sfile, xfile, use>>
         /\ RemoveQ => /\ run \in Runs /\ run.pc = "remove_q" /\ run' = Idle
                       /\ qfile' = Absent /\ gfile' \in [Users -> BOOLEAN]
                       /\ UNCHANGED <<sfile, xfile, pfile, use>>
         /\ PFileUpdateFails => /\ run \in Runs
                                /\ \/ run.pc = "remove_p" /\ "remove_p" \in MayFail
                                   \/ run.pc = "rename_q" /\ "rename_q" \in MayFail
                                /\ run' = Idle /\ qfile' = Absent
                                /\ gfile' \in [Users -> BOOLEAN]
                                /\ UNCHANGED <<sfile, xfile, pfile, use>>
         /\ Crash => /\ MayCrash /\ run \in Runs /\ run' = Idle
                     /\ UNCHANGED <<sfile, xfile, pfile, qfile, gfile, use>>
<1>1. run.pc # "idle" => run \in Runs
  BY RunType DEF IsIdle
<1>2. ASSUME NEW pc \in Calls, run.pc # "idle", GoTo(pc)
      PROVE  SameCommand /\ run'.pc = pc
  BY <1>1, <1>2, GoToType DEF GoTo, SameCommand
<1>3. ASSUME run.pc # "idle", Succeed \/ Fail
      PROVE  run' = Idle /\ gfile' \in [Users -> BOOLEAN]
  <2>1. gfile \in [Users -> BOOLEAN] /\ run.user \in Users
    BY <1>1, <1>3 DEF TypeInv, Runs
  <2>2. gfile' = gfile \/ gfile' = [gfile EXCEPT ![run.user] = FALSE]
    BY <1>3 DEF Succeed, Fail
  <2> QED
    BY <1>3, <2>1, <2>2 DEF Succeed, Fail
<1>4. Calls = {"create_x", "write_x", "remove_s", "rename_x",
               "create_q", "remove_p", "rename_q", "remove_q"}
  BY DEF Calls
<1> HIDE DEF SameCommand, GoTo, Succeed, Fail, Calls
<1>5. CreateX => /\ run \in Runs /\ run.pc = "create_x" /\ run'.pc = "write_x"
                 /\ SameCommand
                 /\ xfile' = <<>> /\ UNCHANGED <<sfile, pfile, qfile, gfile, use>>
  BY <1>1, <1>2, <1>4 DEF CreateX, At
<1>6. WriteX => /\ run \in Runs /\ run.pc = "write_x" /\ run'.pc = "remove_s"
                /\ SameCommand
                /\ xfile' = run.table /\ UNCHANGED <<sfile, pfile, qfile, gfile, use>>
  BY <1>1, <1>2, <1>4 DEF WriteX, At
<1>7. RemoveS => /\ run \in Runs /\ run.pc = "remove_s" /\ run'.pc = "rename_x"
                 /\ SameCommand
                 /\ sfile' = Absent /\ UNCHANGED <<xfile, pfile, qfile, gfile, use>>
  BY <1>1, <1>2, <1>4 DEF RemoveS, At
<1>8. RenameX => /\ run \in Runs /\ run.pc = "rename_x"
                 /\ \/ run.kind = "delta" /\ run'.pc = "create_q" /\ SameCommand
                    \/ run.kind # "delta" /\ run' = Idle
                 /\ sfile' = xfile /\ xfile' = Absent
                 /\ UNCHANGED <<pfile, qfile, gfile, use>>
  BY <1>1, <1>2, <1>4 DEF RenameX, At
<1>9. UpdateFails => /\ run \in Runs
                     /\ \/ run.pc = "write_x"
                        \/ run.pc = "remove_s" /\ "remove_s" \in MayFail
                        \/ run.pc = "rename_x" /\ "rename_x" \in MayFail
                     /\ xfile' = Absent /\ run' = Idle
                     /\ UNCHANGED <<sfile, pfile, qfile, gfile, use>>
  BY <1>1 DEF UpdateFails, At
<1>10. CreateQ => /\ run \in Runs /\ run.pc = "create_q"
                  /\ run'.pc \in {"remove_p", "rename_q"} /\ SameCommand
                  /\ qfile = Absent /\ qfile' = run.locks
                  /\ UNCHANGED <<sfile, xfile, pfile, gfile, use>>
  BY <1>1, <1>2, <1>4 DEF CreateQ, At
<1>11. QFileExists => /\ run \in Runs /\ run.pc = "create_q" /\ qfile # Absent
                      /\ run' = Idle /\ gfile' \in [Users -> BOOLEAN]
                      /\ UNCHANGED <<sfile, xfile, pfile, qfile, use>>
  BY <1>1, <1>3 DEF QFileExists, At
<1>12. RemoveP => /\ run \in Runs /\ run.pc = "remove_p" /\ SameCommand
                  /\ run'.pc = IF run.locks = {} THEN "remove_q" ELSE "rename_q"
                  /\ pfile' = Absent /\ UNCHANGED <<sfile, xfile, qfile, gfile, use>>
  BY <1>1, <1>2, <1>4 DEF RemoveP, At
<1>13. RenameQ => /\ run \in Runs /\ run.pc = "rename_q" /\ run' = Idle
                  /\ pfile' = qfile /\ qfile' = Absent /\ gfile' \in [Users -> BOOLEAN]
                  /\ UNCHANGED <<sfile, xfile, use>>
  BY <1>1, <1>3 DEF RenameQ, At
<1>14. RemoveQ => /\ run \in Runs /\ run.pc = "remove_q" /\ run' = Idle
                  /\ qfile' = Absent /\ gfile' \in [Users -> BOOLEAN]
                  /\ UNCHANGED <<sfile, xfile, pfile, use>>
  BY <1>1, <1>3 DEF RemoveQ, At
<1>15. PFileUpdateFails => /\ run \in Runs
                           /\ \/ run.pc = "remove_p" /\ "remove_p" \in MayFail
                              \/ run.pc = "rename_q" /\ "rename_q" \in MayFail
                           /\ run' = Idle /\ qfile' = Absent
                           /\ gfile' \in [Users -> BOOLEAN]
                           /\ UNCHANGED <<sfile, xfile, pfile, use>>
  BY <1>1, <1>3 DEF PFileUpdateFails
<1>16. Crash => /\ MayCrash /\ run \in Runs /\ run' = Idle
                /\ UNCHANGED <<sfile, xfile, pfile, qfile, gfile, use>>
  BY <1>1 DEF Crash, IsIdle
<1> QED
  BY <1>5, <1>6, <1>7, <1>8, <1>9, <1>10, <1>11, <1>12, <1>13, <1>14, <1>15, <1>16

LEMMA TypeNext ==
  ASSUME TypeInv, [Next]_vars
  PROVE  TypeInv'
<1>1. <<>> \in Tables
  BY DEF Tables
<1>2. \A r \in Runs : r.table \in Tables \cup {Absent} /\ r.locks \in PFiles
  BY DEF Runs
<1>3. CASE \E u \in Users, rid \in Requests, branch \in BOOLEAN : GetEdit(u, rid, branch)
  BY <1>3, GetEditBegins DEF TypeInv
<1>4. CASE \E u \in Users, rid \in Requests : Rmdel(u, rid)
  BY <1>4, RmdelBegins DEF TypeInv
<1>5. CASE \E u \in Users : \E rid : Delta(u, rid)
  BY <1>5, DeltaBegins DEF TypeInv
<1>6. CASE \E u \in Users : \E rid : Unget(u, rid)
  BY <1>6, UngetBegins DEF TypeInv
<1>7. CASE \E u \in Users : DiscardGFile(u)
  BY <1>7 DEF TypeInv, DiscardGFile
<1>8. CASE CreateX \/ WriteX \/ RemoveS \/ RenameX \/ UpdateFails
  BY <1>1, <1>2, <1>8, CallSteps DEF TypeInv, SameCommand
<1>9. CASE CreateQ \/ QFileExists \/ RemoveP \/ RenameQ \/ RemoveQ \/ PFileUpdateFails \/ Crash
  BY <1>1, <1>2, <1>9, CallSteps DEF TypeInv, SameCommand
<1>10. CASE UNCHANGED vars
  BY <1>10 DEF vars, TypeInv
<1> QED
  BY <1>3, <1>4, <1>5, <1>6, <1>7, <1>8, <1>9, <1>10, Steps

LEMMA InitTable ==
  ASSUME Init
  PROVE  /\ sfile \in Tables /\ Len(sfile) = InitialDeltas
         /\ \A i \in 1..InitialDeltas : sfile[i] = Entry(<<1, i, 0, 0>>, i - 1)
<1>1. sfile = [i \in 1..InitialDeltas |-> Entry(<<1, i, 0, 0>>, i - 1)] /\ InitialDeltas \in Nat
  BY EditProtocolAssumption DEF Init
<1>2. ASSUME NEW i \in 1..InitialDeltas
      PROVE  Entry(<<1, i, 0, 0>>, i - 1) \in DeltaRecords /\ Entry(<<1, i, 0, 0>>, i - 1).prev < i
  <2>1. i \in Nat /\ i > 0 /\ i - 1 \in Nat
    BY <1>1
  <2>2. <<1, i, 0, 0>> \in DeltaSids
    BY <2>1, DeltaSidFacts DEF SidTuples
  <2> QED
    BY <2>1, <2>2 DEF Entry, DeltaRecords
<1>3. sfile \in [1..InitialDeltas -> DeltaRecords] /\ \A i \in 1..InitialDeltas : sfile[i].prev < i
  BY <1>1, <1>2
<1>4. sfile \in Seq(DeltaRecords) /\ Len(sfile) = InitialDeltas
  BY <1>1, <1>3
<1>5. sfile \in Tables
  BY <1>3, <1>4 DEF Tables
<1> QED
  BY <1>1, <1>4, <1>5

LEMMA TypeInit ==
  ASSUME Init
  PROVE  TypeInv
BY InitTable DEF Init, TypeInv

LEMMA TypeImpliesTypeOK ==
  ASSUME TypeInv
  PROVE  TypeOK
<1>1. ASSUME NEW t \in Tables, NEW i \in DOMAIN t
      PROVE  t[i].prev \in 0..(i - 1) /\ Components(t[i].sid) \in {2, 4}
  <2>1. i \in 1..Len(t) /\ t[i] \in DeltaRecords /\ t[i].prev < i /\ Len(t) \in Nat
    BY TableFacts DEF Tables
  <2>2. t[i].prev \in Nat /\ t[i].sid \in DeltaSids
    BY <2>1 DEF DeltaRecords
  <2> QED
    BY <2>1, <2>2 DEF DeltaSids
<1>2. \A l \in Locks \cup LocksIn(qfile) : l.user \in Users
  BY LocksType DEF TypeInv, LocksIn, PFiles, EditLock
<1>3. run.pc \in Calls \cup {"idle"}
  BY DEF TypeInv, Runs, Idle
<1> QED
  BY <1>1, <1>2, <1>3 DEF TypeOK, TypeInv, Calls

\* Whatever crashes and fails: the files hold tables and locks that the programs have
\* written, every delta is younger than its predecessor, and every delta of every
\* table has a SID of two or four components (whatever find_next_sid was asked).
THEOREM FilesAreWellFormed == Spec => []TypeOK
<1>1. Init => TypeInv
  BY TypeInit
<1>2. TypeInv /\ [Next]_vars => TypeInv'
  BY TypeNext
<1>3. TypeInv => TypeOK
  BY TypeImpliesTypeOK
<1> QED
  BY <1>1, <1>2, <1>3, PTL DEF Spec

-----------------------------------------------------------------------------
(* What survives crashes and failures.                                     *)

Updating == {"create_x", "write_x", "remove_s", "rename_x"}

\* A command that replaces a file has the new one complete before the old one goes.
FilesInv ==
  /\ run.pc \in {"create_x", "write_x", "remove_s"} => sfile # Absent
  /\ run.pc \in Updating => run.table \in Tables \ {<<>>}
  /\ run.pc \in {"remove_s", "rename_x"} => xfile = run.table
  /\ run.pc \in {"remove_p", "rename_q"} => qfile = run.locks

LEMMA FilesNext ==
  ASSUME TypeInv, FilesInv, [Next]_vars
  PROVE  FilesInv'
<1>1. Idle.pc = "idle"
  BY DEF Idle
<1>2. CASE \E u \in Users, rid \in Requests, branch \in BOOLEAN : GetEdit(u, rid, branch)
  BY <1>2, GetEditBegins DEF FilesInv, Updating
<1>3. CASE \E u \in Users, rid \in Requests : Rmdel(u, rid)
  BY <1>3, RmdelBegins DEF FilesInv, Updating
<1>4. CASE \E u \in Users : \E rid : Delta(u, rid)
  BY <1>4, DeltaBegins DEF FilesInv, Updating
<1>5. CASE \E u \in Users : \E rid : Unget(u, rid)
  BY <1>5, UngetBegins DEF FilesInv, Updating
<1>6. CASE \E u \in Users : DiscardGFile(u)
  BY <1>6 DEF FilesInv, DiscardGFile
<1>7. CASE CreateX \/ WriteX \/ RemoveS \/ RenameX \/ UpdateFails
  BY <1>1, <1>7, CallSteps DEF FilesInv, Updating, SameCommand
<1>8. CASE CreateQ \/ QFileExists \/ RemoveP \/ RenameQ \/ RemoveQ \/ PFileUpdateFails \/ Crash
  BY <1>1, <1>8, CallSteps DEF FilesInv, Updating, SameCommand
<1>9. CASE UNCHANGED vars
  BY <1>9 DEF vars, FilesInv
<1> QED
  BY <1>2, <1>3, <1>4, <1>5, <1>6, <1>7, <1>8, <1>9, Steps

LEMMA FilesInit ==
  ASSUME Init
  PROVE  FilesInv
BY DEF Init, FilesInv, Updating, Idle

LEMMA HistoryNext ==
  ASSUME AbsentIsNoFile, "rename_x" \notin MayFail,
         TypeInv, FilesInv, HistorySurvives, [Next]_vars
  PROVE  HistorySurvives'
<1>1. CASE \E u \in Users, rid \in Requests, branch \in BOOLEAN : GetEdit(u, rid, branch)
  BY <1>1, GetEditBegins DEF HistorySurvives
<1>2. CASE \E u \in Users, rid \in Requests : Rmdel(u, rid)
  BY <1>2, RmdelBegins DEF HistorySurvives
<1>3. CASE \E u \in Users : \E rid : Delta(u, rid)
  BY <1>3, DeltaBegins DEF HistorySurvives
<1>4. CASE \E u \in Users : \E rid : Unget(u, rid)
  BY <1>4, UngetBegins DEF HistorySurvives
<1>5. CASE \E u \in Users : DiscardGFile(u)
  BY <1>5 DEF HistorySurvives, DiscardGFile
<1>6. CASE CreateX \/ WriteX \/ RemoveS \/ RenameX \/ UpdateFails
  BY <1>6, CallSteps DEF FilesInv, HistorySurvives, Updating, AbsentIsNoFile
<1>7. CASE CreateQ \/ QFileExists \/ RemoveP \/ RenameQ \/ RemoveQ \/ PFileUpdateFails \/ Crash
  BY <1>7, CallSteps DEF HistorySurvives
<1>8. CASE UNCHANGED vars
  BY <1>8 DEF vars, HistorySurvives
<1> QED
  BY <1>1, <1>2, <1>3, <1>4, <1>5, <1>6, <1>7, <1>8, Steps

\* At every moment, whatever is killed and whatever call fails, except the renaming of
\* the x-file, the s-file is there or the x-file is there and complete (~sccs_file and
\* end_update never leave the user without a history).
THEOREM HistoryIsNeverLost ==
  ASSUME AbsentIsNoFile, "rename_x" \notin MayFail
  PROVE  Spec => []HistorySurvives
<1>1. Init => TypeInv /\ FilesInv /\ HistorySurvives
  <2>1. ASSUME Init PROVE TypeInv /\ FilesInv
    BY <2>1, TypeInit, FilesInit
  <2>2. ASSUME Init PROVE sfile \in Tables
    BY <2>2, InitTable
  <2> QED
    BY <2>1, <2>2 DEF HistorySurvives, AbsentIsNoFile
<1>2. TypeInv /\ FilesInv /\ HistorySurvives /\ [Next]_vars
        => (TypeInv /\ FilesInv /\ HistorySurvives)'
  BY TypeNext, FilesNext, HistoryNext
<1> QED
  BY <1>1, <1>2, PTL DEF Spec

\* A delta that somebody edits is in the table that is there, and in the one that is
\* being written.
GotIn(locks, table) == \A l \in locks : l.got \in CurrentSids(table)

GottenInv ==
  /\ sfile # Absent => GotIn(Locks, sfile)
  /\ run.pc \in Updating => GotIn(Locks, run.table) /\ GotIn(run.locks, run.table)
  /\ run.pc \in {"create_q", "remove_p", "rename_q"} /\ sfile # Absent =>
       GotIn(run.locks, sfile)

LEMMA GottenNext ==
  ASSUME TypeInv, FilesInv, GottenInv, [Next]_vars
  PROVE  GottenInv'
<1>1. Idle.pc = "idle"
  BY DEF Idle
<1>2. ASSUME NEW u \in Users, NEW rid \in Requests, NEW branch \in BOOLEAN,
             GetEdit(u, rid, branch)
      PROVE  GottenInv'
  <2>1. PICK l : /\ l.got \in CurrentSids(sfile) /\ run'.locks = Locks \cup {l}
                 /\ run'.pc = "create_q" /\ sfile # Absent
                 /\ sfile' = sfile /\ pfile' = pfile
    BY <1>2, GetEditBegins
  <2> QED
    BY <2>1 DEF GottenInv, GotIn, Locks, LocksIn, Updating
<1>3. ASSUME NEW u \in Users, NEW rid \in Requests, Rmdel(u, rid)
      PROVE  GottenInv'
  <2>1. /\ run'.pc = "create_x" /\ run'.locks = Locks /\ sfile # Absent
        /\ rid \in CurrentSids(sfile) /\ \A l \in Locks : l.got # rid
        /\ sfile \in Tables
        /\ run'.table = Removed(sfile, rid)
        /\ sfile' = sfile /\ pfile' = pfile
    BY <1>3, RmdelBegins
  <2>2. GotIn(Locks, run'.table)
    <3>1. CurrentSids(sfile) \ {rid} \subseteq CurrentSids(run'.table)
      BY <2>1, RemovedDelta
    <3> QED
      BY <2>1, <3>1 DEF GottenInv, GotIn
  <2> QED
    BY <2>1, <2>2 DEF GottenInv, Locks, LocksIn, Updating
<1>4. ASSUME NEW u \in Users, NEW rid, Delta(u, rid)
      PROVE  GottenInv'
  <2>1. /\ run'.pc = "create_x" /\ sfile # Absent /\ sfile \in Tables
        /\ sfile' = sfile /\ pfile' = pfile
    BY <1>4, DeltaBegins
  <2>2. PICK l \in Locks : /\ run'.locks = Locks \ {l} /\ FindDelta(sfile, l.got) # 0
                           /\ run'.table = WithDelta(sfile, l)
    BY <1>4, DeltaBegins
  <2>3. l \in EditLock
    BY LocksType
  <2>4. CurrentSids(sfile) \subseteq CurrentSids(run'.table)
    BY <2>1, <2>2, <2>3, WithDeltaSids
  <2>5. GotIn(Locks, run'.table) /\ GotIn(run'.locks, run'.table)
    BY <2>1, <2>2, <2>4 DEF GottenInv, GotIn
  <2> QED
    BY <2>1, <2>5 DEF GottenInv, Locks, LocksIn, Updating
<1>5. ASSUME NEW u \in Users, NEW rid, Unget(u, rid)
      PROVE  GottenInv'
  <2>1. PICK l \in Locks : /\ run'.locks = Locks \ {l} /\ run'.pc = "create_q"
                           /\ sfile' = sfile /\ pfile' = pfile
    BY <1>5, UngetBegins
  <2> QED
    BY <2>1 DEF GottenInv, GotIn, Locks, LocksIn, Updating
<1>6. CASE \E u \in Users : DiscardGFile(u)
  BY <1>6 DEF GottenInv, DiscardGFile, Locks, LocksIn
<1>7. CASE CreateX \/ WriteX \/ RemoveS \/ RenameX \/ UpdateFails
  BY <1>1, <1>7, CallSteps DEF FilesInv, GottenInv, Updating, SameCommand, Locks, LocksIn
<1>8. CASE CreateQ \/ QFileExists \/ RemoveP \/ RenameQ \/ RemoveQ \/ PFileUpdateFails \/ Crash
  <2>1. GotIn({}, sfile)
    BY DEF GotIn
  <2> QED
    BY <1>1, <1>8, <2>1, CallSteps
    DEF FilesInv, GottenInv, Updating, SameCommand, Locks, LocksIn
<1>9. CASE UNCHANGED vars
  BY <1>9 DEF vars, GottenInv, Locks, LocksIn
<1> QED
  BY <1>2, <1>3, <1>4, <1>5, <1>6, <1>7, <1>8, <1>9, Steps

\* Whatever crashes and fails, a delta that somebody has gotten for editing is not
\* removed: delta never prints "Locked delta doesn't exist!" (is_locked of rmdel.cc).
THEOREM LockedDeltaExists == Spec => []GottenDeltaExists
<1>1. Init => TypeInv /\ FilesInv /\ GottenInv
  BY TypeInit, FilesInit DEF Init, GottenInv, GotIn, Locks, LocksIn, Updating, Idle
<1>2. TypeInv /\ FilesInv /\ GottenInv /\ [Next]_vars => (TypeInv /\ FilesInv /\ GottenInv)'
  BY TypeNext, FilesNext, GottenNext
<1>3. GottenInv => GottenDeltaExists
  BY DEF GottenInv, GotIn, GottenDeltaExists
<1> QED
  BY <1>1, <1>2, <1>3, PTL DEF Spec

OneEditor(locks) == \A l, m \in locks : l.got = m.got => l = m

EditorsInv == ~Flags.joint => OneEditor(Locks) /\ (~IsIdle => OneEditor(run.locks))

LEMMA EditorsNext ==
  ASSUME TypeInv, FilesInv, EditorsInv, [Next]_vars
  PROVE  EditorsInv'
<1> SUFFICES ASSUME ~Flags'.joint
             PROVE  OneEditor(Locks') /\ (run'.pc # "idle" => OneEditor(run'.locks))
  BY DEF EditorsInv, IsIdle
<1>0. use' = use
  <2>1. CASE UNCHANGED vars
    BY <2>1 DEF vars
  <2>2. CASE Next
    BY <2>2, Steps, GetEditBegins, RmdelBegins, DeltaBegins, UngetBegins, CallSteps
    DEF DiscardGFile
  <2> QED
    BY <2>1, <2>2
<1>1. Idle.pc = "idle" /\ OneEditor({})
  BY DEF Idle, OneEditor
<1>2. ~Flags.joint /\ OneEditor(Locks) /\ (run.pc # "idle" => OneEditor(run.locks))
  BY <1>0 DEF EditorsInv, IsIdle, Flags
<1>3. \A r \in Runs : r.pc # "idle"
  BY DEF Runs, Calls
<1>4. ASSUME NEW u \in Users, NEW rid \in Requests, NEW branch \in BOOLEAN,
             GetEdit(u, rid, branch)
      PROVE  OneEditor(Locks') /\ OneEditor(run'.locks)
  <2>1. PICK l : /\ TestLocks(Locks, l.got, Flags) /\ run'.locks = Locks \cup {l}
                 /\ pfile' = pfile
    BY <1>4, GetEditBegins
  <2>2. \A m \in Locks : m.got # l.got
    BY <1>2, <2>1 DEF TestLocks
  <2> QED
    BY <1>2, <2>1, <2>2 DEF OneEditor, Locks, LocksIn
<1>5. ASSUME NEW u \in Users, NEW rid \in Requests, Rmdel(u, rid)
      PROVE  OneEditor(Locks') /\ OneEditor(run'.locks)
  BY <1>2, <1>5, RmdelBegins DEF Locks, LocksIn
<1>6. ASSUME NEW u \in Users, NEW rid, Delta(u, rid) \/ Unget(u, rid)
      PROVE  OneEditor(Locks') /\ OneEditor(run'.locks)
  <2>1. pfile' = pfile /\ run'.locks \subseteq Locks
    BY <1>6, DeltaBegins, UngetBegins
  <2> QED
    BY <1>2, <2>1 DEF OneEditor, Locks, LocksIn
<1>7. CASE \E u \in Users : DiscardGFile(u)
  BY <1>2, <1>7 DEF DiscardGFile, Locks, LocksIn
<1>8. CASE CreateX \/ WriteX \/ RemoveS \/ RenameX \/ UpdateFails
  BY <1>1, <1>2, <1>3, <1>8, CallSteps DEF SameCommand, Locks, LocksIn
<1>9. CASE CreateQ \/ QFileExists \/ RemoveP \/ RenameQ \/ RemoveQ \/ PFileUpdateFails \/ Crash
  BY <1>1, <1>2, <1>3, <1>9, CallSteps DEF FilesInv, SameCommand, Locks, LocksIn
<1>10. CASE UNCHANGED vars
  BY <1>2, <1>10 DEF vars, Locks, LocksIn
<1> QED
  BY <1>4, <1>5, <1>6, <1>7, <1>8, <1>9, <1>10, Steps

\* Without the joint edit flag no two users edit the same delta, however the commands
\* that update the p-file are killed or fail (test_locks, sccs_pfile::update).
THEOREM DeltasHaveOneEditor == Spec => []OneEditorPerDelta
<1>1. Init => TypeInv /\ FilesInv /\ EditorsInv
  BY TypeInit, FilesInit DEF Init, EditorsInv, OneEditor, Locks, LocksIn, IsIdle, Idle
<1>2. TypeInv /\ FilesInv /\ EditorsInv /\ [Next]_vars => (TypeInv /\ FilesInv /\ EditorsInv)'
  BY TypeNext, FilesNext, EditorsNext
<1>3. EditorsInv => OneEditorPerDelta
  BY DEF EditorsInv, OneEditor, OneEditorPerDelta
<1> QED
  BY <1>1, <1>2, <1>3, PTL DEF Spec

\* With the joint edit flag the assertion at the end of find_next_sid holds, whatever
\* the table and the p-file have become (sf-get2.cc: ASSERT(!sid_in_use(next, pfile))).
THEOREM JointAssertionHolds == Spec => []JointNextSidIsNew
<1>1. Init => TypeInv
  BY TypeInit
<1>2. TypeInv /\ [Next]_vars => TypeInv'
  BY TypeNext
<1>3. ASSUME TypeInv PROVE JointNextSidIsNew
  <2> SUFFICES ASSUME Flags.joint, IsIdle, sfile # Absent,
                      NEW rid \in Requests, NEW branch \in use.branches,
                      MayEdit(rid), NextSid(rid, branch).ok
               PROVE  ~InUse(sfile, Locks, NextSid(rid, branch).next)
    BY DEF JointNextSidIsNew, NextSidIsNew
  <2>1. /\ sfile \in Tables /\ IsFiniteSet(Locks) /\ branch \in BOOLEAN
        /\ Flags.default \in WellFormed /\ ~IsNull(Retrieve(rid))
    BY <1>3, UseFacts, LocksType DEF TypeInv, MayEdit
  <2>2. /\ Retrieve(rid) \in DeltaSids
        /\ EditRequest(rid, Retrieve(rid)) \in WellFormed
        /\ ~IsNull(EditRequest(rid, Retrieve(rid)))
    BY <1>3, <2>1, RetrieveType, EditRequestType
  <2> QED
    BY <2>1, <2>2, JointAnswerIsFree DEF NextSid
<1> QED
  BY <1>1, <1>2, <1>3, PTL DEF Spec

-----------------------------------------------------------------------------
(* Which promises are kept when no command is killed.                      *)

\* Nothing goes wrong once a command has begun to take effect.
Undisturbed == ~MayCrash /\ MayFail \subseteq {"remove_s"}

\* A use in which the SIDs that get -e reserves are tame (see OperatorProofs).
TameUse(x) == ~x.flags.joint /\ Components(x.flags.default) \in {0, 3}

\* Null deltas are made in such uses only.
NullsAreTame == \A x \in Uses : x.nulls => TameUse(x)

Companions(x, l) == IF x.nulls THEN SkippedSids(l.got, l.delta) ELSE {}

UniqueIn(table) == \A i, j \in CurrentDeltas(table) : table[i].sid = table[j].sid => i = j

\* What holds of the table and the p-file between two commands.
Consistent(x, table, locks) ==
  /\ \A l \in locks : l.got \in CurrentSids(table) /\ l.delta \notin CurrentSids(table)
  /\ \A l, m \in locks : l.delta = m.delta => l = m
  /\ ~x.flags.joint => OneEditor(locks)
  /\ UniqueIn(table)
  /\ TameUse(x) => \A l \in locks : TameSid(table, l.got, l.delta)

LEMMA OneOpener ==
  ASSUME NEW x, TameUse(x), NEW t \in Tables, NEW locks \in PFiles, Consistent(x, t, locks),
         NEW l \in locks, NEW m \in locks,
         OpensRelease(t, l.got, l.delta), OpensRelease(t, m.got, m.delta)
  PROVE  l = m
<1>1. l.got \in CurrentSids(t) /\ m.got \in CurrentSids(t)
  BY DEF Consistent
<1>2. l.got \in DeltaSids /\ m.got \in DeltaSids
  BY <1>1, TableFacts
<1>3. OnTrunk(l.got) /\ OnTrunk(m.got) /\ Gte(l.got, m.got) /\ Gte(m.got, l.got)
  BY <1>1 DEF OpensRelease
<1>4. l.got = m.got
  BY <1>2, <1>3, TrunkEqual
<1> QED
  BY <1>4 DEF Consistent, OneEditor, TameUse

LEMMA TameRelease ==
  ASSUME NEW t, NEW got \in DeltaSids, NEW id \in DeltaSids, TameSid(t, got, id),
         ~OpensRelease(t, got, id)
  PROVE  Release(id) = Release(got) /\ SkippedSids(got, id) = {}
<1>1. Release(id) = Release(got)
  BY IncrementType DEF TameSid, Release
<1>2. Release(got) \in Nat
  BY TrunkSid
<1>3. \A r \in (Release(got) + 1)..(Release(id) - 1) : FALSE
  BY <1>1, <1>2
<1> QED
  BY <1>1, <1>3 DEF SkippedSids

\* The SIDs of the null deltas are free.
LEMMA CompanionsFree ==
  ASSUME NullsAreTame, NEW x \in Uses, NEW t \in Tables, NEW locks \in PFiles,
         Consistent(x, t, locks), NEW l \in locks
  PROVE  Companions(x, l) \cap (CurrentSids(t) \cup Reserved(locks)) = {}
<1> SUFFICES ASSUME x.nulls, NEW s \in SkippedSids(l.got, l.delta),
                    s \in CurrentSids(t) \cup Reserved(locks)
             PROVE  FALSE
  BY DEF Companions
<1>1. TameUse(x)
  BY DEF NullsAreTame
<1>2. \A m \in locks : m.got \in DeltaSids /\ m.delta \in DeltaSids /\ TameSid(t, m.got, m.delta)
  BY <1>1 DEF PFiles, EditLock, Consistent
<1>3. OpensRelease(t, l.got, l.delta)
  BY <1>2, TameRelease
<1>4. PICK r \in (Release(l.got) + 1)..(Release(l.delta) - 1) : s = <<r, 1, 0, 0>>
  BY DEF SkippedSids
<1>5. Release(l.got) \in Nat /\ Release(l.delta) \in Nat /\ l.got \in SidTuples
  BY <1>2, TrunkSid
<1>6. r \in Nat /\ Release(l.got) < r /\ r < Release(l.delta) /\ r > 0
  BY <1>4, <1>5
<1>7. OnTrunk(s)
  BY <1>4, <1>6 DEF OnTrunk, Components, IsNull
<1>8. CASE s \in CurrentSids(t)
  <2>1. Gte(l.got, s)
    BY <1>3, <1>7, <1>8 DEF OpensRelease
  <2> QED
    BY <1>4, <1>5, <1>6, <2>1 DEF Gte, Release, SidTuples
<1>9. CASE s \in Reserved(locks)
  <2>1. PICK m \in locks : m.delta = s
    BY <1>9 DEF Reserved
  <2>2. Release(m.delta) = r /\ m.delta[2] = 1 /\ m.delta[3] = 0 /\ m.delta[4] = 0
    BY <1>4, <2>1 DEF Release
  <2>3. m # l
    BY <1>6, <2>2
  <2>4. ~OpensRelease(t, m.got, m.delta)
    BY <1>1, <1>3, <2>3, OneOpener
  <2>5. m.delta = Increment(m.got)
    BY <1>2, <2>2, <2>4 DEF TameSid
  <2>6. m.got \in SidTuples /\ m.got[2] > 0
    BY <1>2, DeltaSidFacts
  <2>7. Increment(m.got) = <<m.got[1], m.got[2] + 1, 0, 0>> \/ Increment(m.got)[3] # 0
    BY <1>2, IncrementType
  <2> QED
    BY <2>2, <2>5, <2>6, <2>7 DEF SidTuples
<1> QED
  BY <1>8, <1>9

\* Consistency outlives each command: get -e,
LEMMA ReserveKeeps ==
  ASSUME NEW x, NEW t, NEW locks, Consistent(x, t, locks), NEW l,
         l.got \in CurrentSids(t), l.delta \notin CurrentSids(t) \cup Reserved(locks),
         x.flags.joint \/ \A m \in locks : m.got # l.got,
         TameUse(x) => TameSid(t, l.got, l.delta)
  PROVE  Consistent(x, t, locks \cup {l})
<1>1. \A m \in locks : m.delta # l.delta
  BY DEF Reserved
<1>2. \A a, b \in locks \cup {l} : a.delta = b.delta => a = b
  BY <1>1 DEF Consistent
<1>3. ~x.flags.joint => OneEditor(locks \cup {l})
  BY DEF Consistent, OneEditor
<1> QED
  BY <1>2, <1>3 DEF Consistent

\* unget,
LEMMA AbandonKeeps ==
  ASSUME NEW x, NEW t, NEW locks, Consistent(x, t, locks), NEW l
  PROVE  Consistent(x, t, locks \ {l})
BY DEF Consistent, OneEditor

\* rmdel,
LEMMA RemoveKeeps ==
  ASSUME NEW x, NEW t \in Tables, NEW locks, Consistent(x, t, locks), NEW id \in CurrentSids(t),
         \A l \in locks : l.got # id
  PROVE  LET u == Removed(t, id)
         IN  Consistent(x, u, locks) /\ CurrentSids(u) = CurrentSids(t) \ {id}
<1> DEFINE u == Removed(t, id)
           seq == FindDelta(t, id)
<1>1. /\ seq \in CurrentDeltas(t) /\ t[seq].sid = id
      /\ CurrentDeltas(u) = CurrentDeltas(t) \ {seq}
      /\ \A i \in CurrentDeltas(u) : u[i].sid = t[i].sid
      /\ CurrentSids(t) \ {id} \subseteq CurrentSids(u)
  BY RemovedDelta
<1> HIDE DEF u, seq
<1>2. UniqueIn(u)
  BY <1>1 DEF UniqueIn, Consistent
<1>3. ASSUME NEW i \in CurrentDeltas(u) PROVE u[i].sid \in CurrentSids(t) \ {id}
  BY <1>1, <1>3 DEF UniqueIn, Consistent, CurrentSids
<1>4. CurrentSids(u) = CurrentSids(t) \ {id}
  BY <1>1, <1>3 DEF CurrentSids
<1>5. \A l \in locks : l.got \in CurrentSids(u) /\ l.delta \notin CurrentSids(u)
  BY <1>4 DEF Consistent
<1>6. \A l \in locks : TameSid(t, l.got, l.delta) => TameSid(u, l.got, l.delta)
  BY <1>4 DEF TameSid, OpensRelease
<1> QED
  BY <1>2, <1>4, <1>5, <1>6 DEF Consistent, u

\* and delta.
LEMMA CommitUnique ==
  ASSUME TypeInv, NEW t \in Tables, NEW l \in EditLock, FindDelta(t, l.got) # 0, UniqueIn(t),
         l.delta \notin CurrentSids(t), NullSids(l.got, l.delta) \cap CurrentSids(t) = {}
  PROVE  UniqueIn(WithDelta(t, l))
<1> DEFINE w == WithDelta(t, l)
           m == Cardinality(NullSids(l.got, l.delta))
           n == Len(t)
<1>1. /\ w \in Tables /\ m \in Nat
      /\ Len(w) = n + m + 1
      /\ \A i \in 1..n : w[i] = t[i]
      /\ \A i \in 1..m : /\ w[n + i].sid = <<Release(l.got) + i, 1, 0, 0>>
                         /\ w[n + i].type = "D"
      /\ w[n + m + 1].sid = l.delta /\ w[n + m + 1].type = "D"
  BY WithDeltaParts
<1>2. n \in Nat /\ DOMAIN t = 1..n /\ DOMAIN w = 1..(n + m + 1)
  BY <1>1, TableFacts
<1>3. NullSids(l.got, l.delta) = {<<Release(l.got) + i, 1, 0, 0>> : i \in 1..m}
  BY NullSidsFacts
<1>4. l.got \in DeltaSids /\ l.delta \in DeltaSids /\ Release(l.got) \in Nat
  BY TrunkSid DEF EditLock
<1>5. l.delta \notin NullSids(l.got, l.delta)
  <2>1. Release(l.delta) \in Nat
    BY <1>4, TrunkSid
  <2>2. ASSUME NEW s \in SkippedSids(l.got, l.delta) PROVE s # l.delta
    <3>1. PICK r \in (Release(l.got) + 1)..(Release(l.delta) - 1) : s = <<r, 1, 0, 0>>
      BY DEF SkippedSids
    <3>2. Release(s) = r /\ r # Release(l.delta)
      BY <1>4, <2>1, <3>1 DEF Release
    <3> QED
      BY <3>2
  <2> QED
    BY <2>2 DEF NullSids
<1> HIDE DEF w, m, n
<1> DEFINE Old(i) == i \in 1..n /\ t[i].type = "D"
           Null(i) == i - n \in 1..m
           IsNew(i) == i = n + m + 1
<1>6. ASSUME NEW i \in CurrentDeltas(w)
      PROVE  \/ Old(i) /\ w[i].sid = t[i].sid /\ w[i].sid \in CurrentSids(t)
             \/ /\ Null(i) /\ w[i].sid = <<Release(l.got) + (i - n), 1, 0, 0>>
                /\ w[i].sid \in NullSids(l.got, l.delta)
             \/ IsNew(i) /\ w[i].sid = l.delta
  <2>1. i \in 1..(n + m + 1) /\ w[i].type = "D"
    BY <1>2 DEF CurrentDeltas
  <2>2. CASE i \in 1..n
    BY <1>1, <1>2, <2>1, <2>2 DEF CurrentSids, CurrentDeltas
  <2>3. CASE i \in (n + 1)..(n + m)
    <3>1. i - n \in 1..m /\ n + (i - n) = i
      BY <1>1, <1>2, <2>3
    <3> QED
      BY <1>1, <1>3, <3>1
  <2>4. CASE i = n + m + 1
    BY <1>1, <2>4
  <2> QED
    BY <1>1, <1>2, <2>1, <2>2, <2>3, <2>4
<1>7. ASSUME NEW i \in CurrentDeltas(w), NEW j \in CurrentDeltas(w), w[i].sid = w[j].sid
      PROVE  i = j
  <2>1. i \in 1..(n + m + 1) /\ j \in 1..(n + m + 1)
    BY <1>2 DEF CurrentDeltas
  <2>2. CASE w[i].sid \in CurrentSids(t)
    <3>1. Old(i) /\ Old(j) /\ t[i].sid = t[j].sid
      <4>1. w[i].sid # l.delta /\ w[i].sid \notin NullSids(l.got, l.delta)
        BY <2>2
      <4>2. Old(i) /\ w[i].sid = t[i].sid
        BY <1>6, <4>1
      <4>3. Old(j) /\ w[j].sid = t[j].sid
        BY <1>6, <1>7, <4>1
      <4> QED
        BY <1>7, <4>2, <4>3
    <3> QED
      BY <1>2, <3>1 DEF UniqueIn, CurrentDeltas
  <2>3. CASE w[i].sid \in NullSids(l.got, l.delta)
    <3>1. /\ Null(i) /\ w[i].sid = <<Release(l.got) + (i - n), 1, 0, 0>>
          /\ Null(j) /\ w[j].sid = <<Release(l.got) + (j - n), 1, 0, 0>>
      BY <1>5, <1>6, <1>7, <2>3
    <3>2. Release(l.got) + (i - n) = Release(l.got) + (j - n)
      <4> DEFINE a == Release(l.got) + (i - n)
                 b == Release(l.got) + (j - n)
      <4>1. <<a, 1, 0, 0>> = <<b, 1, 0, 0>>
        BY <1>7, <3>1
      <4> HIDE DEF a, b
      <4>2. a = b
        BY <4>1
      <4> QED
        BY <4>2 DEF a, b
    <3> QED
      BY <1>1, <1>2, <1>4, <2>1, <3>2
  <2>4. CASE w[i].sid = l.delta
    BY <1>5, <1>6, <1>7, <2>4
  <2> QED
    BY <1>6, <2>2, <2>3, <2>4
<1> QED
  BY <1>7 DEF UniqueIn, w

LEMMA CommitKeeps ==
  ASSUME TypeInv, NullsAreTame, NEW t \in Tables, NEW locks \in PFiles,
         Consistent(use, t, locks), NEW l \in locks, FindDelta(t, l.got) # 0
  PROVE  Consistent(use, WithDelta(t, l), locks \ {l})
<1> DEFINE w == WithDelta(t, l)
           C == NullSids(l.got, l.delta)
<1>1. /\ use \in Uses /\ l \in EditLock
      /\ \A m \in locks : m.got \in DeltaSids /\ m.delta \in DeltaSids
  BY DEF TypeInv, PFiles, EditLock
<1>2. C = Companions(use, l) /\ C \cap (CurrentSids(t) \cup Reserved(locks)) = {}
  <2>1. C = Companions(use, l)
    BY DEF NullSids, Companions
  <2> QED
    BY <1>1, <2>1, CompanionsFree
<1>3. CurrentSids(w) = CurrentSids(t) \cup {l.delta} \cup C
  BY <1>1, WithDeltaSids
<1>4. UniqueIn(w)
  BY <1>1, <1>2, CommitUnique DEF Consistent
<1>5. ASSUME NEW m \in locks \ {l} PROVE m.got \in CurrentSids(w) /\ m.delta \notin CurrentSids(w)
  <2>1. m.delta # l.delta /\ m.delta \notin CurrentSids(t) /\ m.delta \in Reserved(locks)
        /\ m.got \in CurrentSids(t)
    BY DEF Consistent, Reserved
  <2> HIDE DEF w, C
  <2> QED
    BY <1>2, <1>3, <2>1
<1>6. ASSUME TameUse(use), NEW m \in locks \ {l} PROVE TameSid(w, m.got, m.delta)
  <2>1. TameSid(t, m.got, m.delta) /\ TameSid(t, l.got, l.delta)
    BY <1>6 DEF Consistent
  <2>2. CASE ~OpensRelease(t, m.got, m.delta)
    BY <2>1, <2>2 DEF TameSid
  <2>3. CASE OpensRelease(t, m.got, m.delta)
    <3>1. ~OpensRelease(t, l.got, l.delta)
      BY <1>6, <2>3, OneOpener
    <3>2. C = {}
      BY <1>1, <2>1, <3>1, TameRelease DEF NullSids
    <3>3. ASSUME OnTrunk(l.delta) PROVE Gte(m.got, l.delta)
      <4>1. l.delta[3] = 0 /\ l.delta[4] = 0
        BY <1>1, <3>3, TrunkSid
      <4>2. l.delta = Increment(l.got)
        BY <2>1, <3>1, <4>1 DEF TameSid
      <4>3. l.got[3] = 0 /\ l.delta = <<l.got[1], l.got[2] + 1, 0, 0>>
        BY <1>1, <4>1, <4>2, IncrementType
      <4>4. OnTrunk(l.got) /\ l.got \in CurrentSids(t)
        BY <1>1, <4>3, TrunkSid DEF Consistent
      <4>5. Gte(m.got, l.got) /\ OnTrunk(m.got)
        BY <2>3, <4>4 DEF OpensRelease
      <4>6. m.got # l.got
        BY <1>6 DEF Consistent, OneEditor, TameUse
      <4>7. /\ m.got \in SidTuples /\ l.got \in SidTuples
            /\ m.got[3] = 0 /\ m.got[4] = 0 /\ l.got[4] = 0
        BY <1>1, <4>3, <4>5, TrunkSid
      <4> QED
        BY <4>3, <4>5, <4>6, <4>7 DEF Gte, SidTuples
    <3>4. OpensRelease(w, m.got, m.delta)
      BY <1>3, <2>3, <3>2, <3>3 DEF OpensRelease
    <3> QED
      BY <3>4 DEF TameSid
  <2> QED
    BY <2>2, <2>3
<1>7. OneEditor(locks) => OneEditor(locks \ {l})
  BY DEF OneEditor
<1> QED
  BY <1>4, <1>5, <1>6, <1>7 DEF Consistent, w

\* What a command does to the table and to the p-file (see EditLocks).
Effect(x, t, locks, u, left) ==
  \/ \E l \in left \ locks :
       /\ l \in EditLock /\ l.got \in CurrentSids(t)
       /\ l.delta \notin CurrentSids(t) \cup Reserved(locks)
       /\ x.flags.joint \/ \A m \in locks : m.got # l.got
       /\ left = locks \cup {l} /\ CurrentSids(u) = CurrentSids(t)
  \/ \E l \in locks :
       /\ Companions(x, l) \cap (CurrentSids(t) \cup Reserved(locks)) = {}
       /\ CurrentSids(u) = CurrentSids(t) \cup {l.delta} \cup Companions(x, l)
       /\ left = locks \ {l}
  \/ \E l \in locks : left = locks \ {l} /\ CurrentSids(u) = CurrentSids(t)
  \/ \E id \in CurrentSids(t) :
       /\ \A l \in locks : l.got # id
       /\ left = locks /\ CurrentSids(u) = CurrentSids(t) \ {id}

Replacing == {"remove_p", "rename_q", "remove_q"}

\* Which file holds what while a command runs.
PlacesInv ==
  /\ IF run.pc = "rename_x" THEN sfile = Absent ELSE sfile \in Tables
  /\ run.pc # "idle" => run.table \in Tables
  /\ run.pc \in Updating =>
       run.kind = "delta" \/ (run.kind = "rmdel" /\ run.locks = Locks)
  /\ run.pc \in {"create_q"} \cup Replacing => sfile = run.table /\ run.kind # "rmdel"
  /\ run.pc \in Replacing => qfile = run.locks
  /\ run.pc \notin Replacing => qfile = Absent
  /\ run.pc = "remove_q" => pfile = Absent /\ run.locks = {}

CycleInv ==
  /\ ~TookEffect => Consistent(use, sfile, Locks)
  /\ run.pc # "idle" => Consistent(use, run.table, run.locks)
  /\ run.pc # "idle" /\ ~TookEffect => Effect(use, sfile, Locks, run.table, run.locks)

\* The table and the locks as a reader of EditLocks sees them.
SeenTable == IF TookEffect THEN run.table ELSE sfile
SeenLocks == IF TookEffect THEN run.locks ELSE Locks
SameView == SeenTable' = SeenTable /\ SeenLocks' = SeenLocks
EffectStep == Effect(use, SeenTable, SeenLocks, SeenTable', SeenLocks')

\* A step keeps the invariant, and is seen as a command's effect or not at all.
GoodStep == PlacesInv' /\ CycleInv' /\ use' = use /\ (SameView \/ EffectStep)

LEMMA GetEditStep ==
  ASSUME TypeInv, PlacesInv, CycleInv,
         NEW u \in Users, NEW rid \in Requests, NEW branch \in BOOLEAN, GetEdit(u, rid, branch)
  PROVE  GoodStep
<1> DEFINE got == Retrieve(rid)
           next == NextSid(rid, branch).next
           l == Lock(u, got, next)
<1>1. /\ IsIdle /\ sfile \in Tables
      /\ l \in EditLock /\ l.user = u /\ l.got = got /\ l.delta = next
      /\ got \in CurrentSids(sfile) /\ next \notin CurrentSids(sfile) \cup Reserved(Locks)
      /\ TestLocks(Locks, got, Flags) /\ NextSid(rid, branch).ok
      /\ run'.pc = "create_q" /\ run'.kind = "get"
      /\ run'.table = sfile /\ run'.locks = Locks \cup {l}
      /\ UNCHANGED <<sfile, xfile, pfile, qfile, use>>
  BY GetEditBegins
<1>2. run.pc = "idle" /\ ~TookEffect /\ ~TookEffect' /\ Locks' = Locks
  BY <1>1 DEF TookEffect, IsIdle, Locks, LocksIn
<1>3. ASSUME TameUse(use) PROVE TameSid(sfile, got, next)
  <2>1. /\ rid \in WellFormed /\ IsFiniteSet(Locks) /\ sfile # Absent
        /\ Flags.default \in WellFormed /\ ~IsNull(got)
    BY <1>1, RequestsWellFormed, LocksType, UseFacts DEF GetEdit, MayEdit
  <2>2. GetRequest(sfile, rid, got, Flags)
    BY <2>1 DEF GetRequest, Retrieve
  <2>3. Components(Flags.default) \in {0, 3}
    BY <1>3 DEF TameUse, Flags
  <2>4. FindNextSid(sfile, Locks, EditRequest(rid, got), got, branch, Flags).ok
    BY <1>1 DEF NextSid
  <2>5. next = FindNextSid(sfile, Locks, EditRequest(rid, got), got, branch, Flags).next
    BY DEF NextSid
  <2> HIDE DEF got, next
  <2>6. TameSid(sfile, got, FindNextSid(sfile, Locks, EditRequest(rid, got), got, branch, Flags).next)
    BY <1>1, <2>1, <2>2, <2>3, <2>4, TameAnswer
  <2> QED
    BY <2>5, <2>6
<1>4. Flags.joint \/ \A m \in Locks : m.got # got
  BY <1>1 DEF TestLocks
<1> HIDE DEF got, next, l
<1>5. l \notin Locks
  BY <1>1 DEF Reserved
<1>6. Consistent(use, sfile, Locks)
  BY <1>2 DEF CycleInv
<1>7. Consistent(use, sfile, Locks \cup {l})
  BY <1>1, <1>3, <1>4, <1>6, ReserveKeeps DEF Flags
<1>8. Effect(use, sfile, Locks, sfile, Locks \cup {l})
  BY <1>1, <1>4, <1>5 DEF Effect, Flags
<1>9. PlacesInv'
  BY <1>1, <1>2 DEF PlacesInv, Updating, Replacing
<1>10. CycleInv'
  BY <1>1, <1>2, <1>6, <1>7, <1>8 DEF CycleInv
<1>11. SameView
  BY <1>1, <1>2 DEF SameView, SeenTable, SeenLocks
<1> QED
  BY <1>1, <1>9, <1>10, <1>11 DEF GoodStep

LEMMA RmdelStep ==
  ASSUME TypeInv, PlacesInv, CycleInv, NEW u \in Users, NEW rid \in Requests, Rmdel(u, rid)
  PROVE  GoodStep
<1> DEFINE t == Removed(sfile, rid)
<1>1. /\ IsIdle /\ sfile \in Tables
      /\ run'.pc = "create_x" /\ run'.kind = "rmdel" /\ run'.locks = Locks
      /\ rid \in CurrentSids(sfile) /\ \A l \in Locks : l.got # rid
      /\ run'.table = t /\ t \in Tables
      /\ UNCHANGED <<sfile, xfile, pfile, qfile, use>>
  BY RmdelBegins
<1>2. run.pc = "idle" /\ ~TookEffect /\ ~TookEffect' /\ Locks' = Locks
  BY <1>1 DEF TookEffect, IsIdle, Locks, LocksIn
<1>3. Consistent(use, sfile, Locks)
  BY <1>2 DEF CycleInv
<1>4. Consistent(use, t, Locks) /\ CurrentSids(t) = CurrentSids(sfile) \ {rid}
  <2>1. sfile \in Tables /\ rid \in CurrentSids(sfile) /\ \A l \in Locks : l.got # rid
    BY <1>1
  <2> QED
    BY <1>3, <2>1, RemoveKeeps
<1> HIDE DEF t
<1>5. Effect(use, sfile, Locks, t, Locks)
  BY <1>1, <1>4 DEF Effect
<1>6. PlacesInv'
  BY <1>1, <1>2 DEF PlacesInv, Updating, Replacing
<1>7. CycleInv'
  BY <1>1, <1>2, <1>3, <1>4, <1>5 DEF CycleInv
<1>8. SameView
  BY <1>1, <1>2 DEF SameView, SeenTable, SeenLocks
<1> QED
  BY <1>1, <1>6, <1>7, <1>8 DEF GoodStep

LEMMA DeltaStep ==
  ASSUME NullsAreTame, TypeInv, PlacesInv, CycleInv, NEW u \in Users, NEW rid, Delta(u, rid)
  PROVE  GoodStep
<1>1. /\ IsIdle /\ sfile \in Tables
      /\ run'.pc = "create_x" /\ run'.kind = "delta" /\ run'.table \in Tables
      /\ UNCHANGED <<sfile, xfile, pfile, qfile, use>>
  BY DeltaBegins
<1>2. PICK l \in Locks : /\ run'.locks = Locks \ {l} /\ FindDelta(sfile, l.got) # 0
                         /\ run'.table = WithDelta(sfile, l)
  BY DeltaBegins
<1>3. run.pc = "idle" /\ ~TookEffect /\ ~TookEffect' /\ Locks' = Locks
  BY <1>1 DEF TookEffect, IsIdle, Locks, LocksIn
<1>4. Consistent(use, sfile, Locks) /\ Locks \in PFiles /\ l \in EditLock /\ use \in Uses
  BY <1>3, LocksType DEF CycleInv, TypeInv
<1>5. Consistent(use, run'.table, run'.locks)
  BY <1>1, <1>2, <1>4, CommitKeeps
<1>6. Effect(use, sfile, Locks, run'.table, run'.locks)
  <2>1. Companions(use, l) \cap (CurrentSids(sfile) \cup Reserved(Locks)) = {}
    BY <1>1, <1>4, CompanionsFree
  <2>2. CurrentSids(run'.table) = CurrentSids(sfile) \cup {l.delta} \cup NullSids(l.got, l.delta)
    BY <1>1, <1>2, <1>4, WithDeltaSids
  <2>3. NullSids(l.got, l.delta) = Companions(use, l)
    BY DEF NullSids, Companions
  <2> QED
    BY <1>2, <2>1, <2>2, <2>3 DEF Effect
<1>7. PlacesInv'
  BY <1>1, <1>3 DEF PlacesInv, Updating, Replacing
<1>8. CycleInv'
  BY <1>1, <1>3, <1>4, <1>5, <1>6 DEF CycleInv
<1>9. SameView
  BY <1>1, <1>3 DEF SameView, SeenTable, SeenLocks
<1> QED
  BY <1>1, <1>7, <1>8, <1>9 DEF GoodStep

LEMMA UngetStep ==
  ASSUME TypeInv, PlacesInv, CycleInv, NEW u \in Users, NEW rid, Unget(u, rid)
  PROVE  GoodStep
<1>1. PICK l \in Locks :
        /\ IsIdle /\ run'.pc = "create_q" /\ run'.kind = "unget"
        /\ run'.table = sfile /\ run'.locks = Locks \ {l}
        /\ UNCHANGED <<sfile, xfile, pfile, qfile, use>>
  BY UngetBegins
<1>2. run.pc = "idle" /\ ~TookEffect /\ ~TookEffect' /\ Locks' = Locks
  BY <1>1 DEF TookEffect, IsIdle, Locks, LocksIn
<1>3. Consistent(use, sfile, Locks) /\ Consistent(use, sfile, Locks \ {l})
  BY <1>2, AbandonKeeps DEF CycleInv
<1>4. Effect(use, sfile, Locks, sfile, Locks \ {l})
  BY <1>1 DEF Effect
<1>5. PlacesInv'
  BY <1>1, <1>2 DEF PlacesInv, Updating, Replacing
<1>6. CycleInv'
  BY <1>1, <1>2, <1>3, <1>4 DEF CycleInv
<1>7. SameView
  BY <1>1, <1>2 DEF SameView, SeenTable, SeenLocks
<1> QED
  BY <1>1, <1>5, <1>6, <1>7 DEF GoodStep

LEMMA UpdateSteps ==
  ASSUME Undisturbed, TypeInv, FilesInv, PlacesInv, CycleInv,
         CreateX \/ WriteX \/ RemoveS \/ RenameX \/ UpdateFails
  PROVE  GoodStep
<1>1. CASE CreateX \/ WriteX
  <2>1. /\ run.pc \in {"create_x", "write_x"} /\ run'.pc \in {"write_x", "remove_s"}
        /\ SameCommand /\ UNCHANGED <<sfile, pfile, qfile, use>>
    BY <1>1, CallSteps
  <2>2. ~TookEffect /\ ~TookEffect' /\ Locks' = Locks
    BY <2>1 DEF TookEffect, Locks, LocksIn
  <2>3. PlacesInv'
    BY <2>1, <2>2 DEF PlacesInv, SameCommand, Updating, Replacing
  <2>4. CycleInv' /\ SameView
    BY <2>1, <2>2 DEF CycleInv, SameCommand, SameView, SeenTable, SeenLocks
  <2> QED
    BY <2>1, <2>3, <2>4 DEF GoodStep
<1>2. CASE RemoveS
  <2>1. /\ run.pc = "remove_s" /\ run'.pc = "rename_x" /\ sfile' = Absent
        /\ SameCommand /\ UNCHANGED <<pfile, qfile, use>>
    BY <1>2, CallSteps
  <2>2. ~TookEffect /\ TookEffect' /\ Locks' = Locks
    BY <2>1 DEF TookEffect, Locks, LocksIn
  <2>3. PlacesInv'
    BY <2>1, <2>2 DEF PlacesInv, SameCommand, Updating, Replacing
  <2>4. CycleInv'
    BY <2>1, <2>2 DEF CycleInv, SameCommand
  <2>5. EffectStep
    BY <2>1, <2>2 DEF CycleInv, SameCommand, EffectStep, SeenTable, SeenLocks
  <2> QED
    BY <2>1, <2>3, <2>4, <2>5 DEF GoodStep
<1>3. CASE RenameX
  <2>1. /\ run.pc = "rename_x" /\ sfile' = xfile /\ UNCHANGED <<pfile, qfile, use>>
        /\ \/ run.kind = "delta" /\ run'.pc = "create_q" /\ SameCommand
           \/ run.kind # "delta" /\ run' = Idle
    BY <1>3, CallSteps
  <2>2. TookEffect /\ Locks' = Locks /\ sfile' = run.table /\ run.table \in Tables
    BY <2>1 DEF TookEffect, Locks, LocksIn, FilesInv, PlacesInv
  <2>3. CASE run.kind = "delta" /\ run'.pc = "create_q" /\ SameCommand
    <3>1. TookEffect'
      BY <2>3 DEF TookEffect, SameCommand
    <3>2. PlacesInv'
      BY <2>1, <2>2, <2>3 DEF PlacesInv, SameCommand, Updating, Replacing
    <3>3. CycleInv' /\ SameView
      BY <2>1, <2>2, <2>3, <3>1 DEF CycleInv, SameCommand, SameView, SeenTable, SeenLocks
    <3> QED
      BY <2>1, <3>2, <3>3 DEF GoodStep
  <2>4. CASE run.kind # "delta" /\ run' = Idle
    <3>1. run'.pc = "idle" /\ ~TookEffect'
      BY <2>4 DEF TookEffect, Idle
    <3>2. run.locks = Locks
      BY <2>1, <2>4 DEF PlacesInv, Updating
    <3>3. PlacesInv'
      BY <2>1, <2>2, <3>1 DEF PlacesInv, Updating, Replacing
    <3>4. CycleInv' /\ SameView
      BY <2>1, <2>2, <3>1, <3>2 DEF CycleInv, SameView, SeenTable, SeenLocks
    <3> QED
      BY <2>1, <3>3, <3>4 DEF GoodStep
  <2> QED
    BY <2>1, <2>3, <2>4
<1>4. CASE UpdateFails
  <2>1. run.pc \in {"write_x", "remove_s"} /\ run' = Idle /\ UNCHANGED <<sfile, pfile, qfile, use>>
    BY <1>4, CallSteps DEF Undisturbed
  <2>2. run'.pc = "idle" /\ ~TookEffect /\ ~TookEffect' /\ Locks' = Locks
    BY <2>1 DEF TookEffect, Locks, LocksIn, Idle
  <2>3. PlacesInv'
    BY <2>1, <2>2 DEF PlacesInv, Updating, Replacing
  <2>4. CycleInv' /\ SameView
    BY <2>1, <2>2 DEF CycleInv, SameView, SeenTable, SeenLocks
  <2> QED
    BY <2>1, <2>3, <2>4 DEF GoodStep
<1> QED
  BY <1>1, <1>2, <1>3, <1>4

LEMMA ReplaceSteps ==
  ASSUME AbsentIsNoFile, Undisturbed, TypeInv, PlacesInv, CycleInv,
         CreateQ \/ QFileExists \/ RemoveP \/ RenameQ \/ RemoveQ \/ PFileUpdateFails \/ Crash
  PROVE  GoodStep
<1>1. CASE CreateQ
  <2>1. /\ run \in Runs /\ run.pc = "create_q" /\ run'.pc \in {"remove_p", "rename_q"}
        /\ SameCommand /\ qfile' = run.locks /\ UNCHANGED <<sfile, pfile, use>>
    BY <1>1, CallSteps
  <2>2. TookEffect' /\ Locks' = Locks /\ sfile = run.table
    BY <2>1 DEF TookEffect, Locks, LocksIn, PlacesInv
  <2>3. PlacesInv'
    BY <2>1, <2>2 DEF PlacesInv, SameCommand, Updating, Replacing
  <2>4. CycleInv'
    BY <2>1, <2>2 DEF CycleInv, SameCommand
  <2>5. CASE TookEffect
    BY <2>1, <2>2, <2>3, <2>4, <2>5 DEF GoodStep, SameCommand, SameView, SeenTable, SeenLocks
  <2>6. CASE ~TookEffect
    <3>1. EffectStep
      BY <2>1, <2>2, <2>6 DEF CycleInv, SameCommand, EffectStep, SeenTable, SeenLocks
    <3> QED
      BY <2>1, <2>3, <2>4, <3>1 DEF GoodStep
  <2> QED
    BY <2>5, <2>6
<1>2. CASE QFileExists \/ PFileUpdateFails \/ Crash
  BY <1>2, CallSteps DEF PlacesInv, Undisturbed, Replacing
<1>3. CASE RemoveP
  <2>1. /\ run.pc = "remove_p" /\ SameCommand
        /\ run'.pc = IF run.locks = {} THEN "remove_q" ELSE "rename_q"
        /\ pfile' = Absent /\ UNCHANGED <<sfile, qfile, use>>
    BY <1>3, CallSteps
  <2>2. TookEffect /\ TookEffect'
    BY <2>1 DEF TookEffect
  <2>3. PlacesInv'
    BY <2>1 DEF PlacesInv, SameCommand, Updating, Replacing
  <2>4. CycleInv' /\ SameView
    BY <2>1, <2>2 DEF CycleInv, SameCommand, SameView, SeenTable, SeenLocks
  <2> QED
    BY <2>1, <2>3, <2>4 DEF GoodStep
<1>4. CASE RenameQ \/ RemoveQ
  <2>1. /\ run \in Runs /\ run.pc \in {"rename_q", "remove_q"} /\ run' = Idle /\ qfile' = Absent
        /\ run.pc = "rename_q" => pfile' = qfile
        /\ run.pc = "remove_q" => pfile' = pfile
        /\ UNCHANGED <<sfile, use>>
    BY <1>4, CallSteps
  <2>2. run'.pc = "idle" /\ TookEffect /\ ~TookEffect'
    BY <2>1 DEF TookEffect, Idle
  <2>3. run.locks # Absent
    BY <2>1 DEF Runs, AbsentIsNoFile
  <2>4. Locks' = run.locks /\ sfile' = run.table /\ run.table \in Tables
    BY <2>1, <2>3 DEF PlacesInv, Replacing, Locks, LocksIn
  <2>5. PlacesInv'
    BY <2>1, <2>2, <2>4 DEF PlacesInv, Updating, Replacing
  <2>6. CycleInv' /\ SameView
    BY <2>1, <2>2, <2>4 DEF CycleInv, SameView, SeenTable, SeenLocks
  <2> QED
    BY <2>1, <2>5, <2>6 DEF GoodStep
<1> QED
  BY <1>1, <1>2, <1>3, <1>4

LEMMA GoodSteps ==
  ASSUME AbsentIsNoFile, Undisturbed, NullsAreTame,
         TypeInv, FilesInv, PlacesInv, CycleInv, [Next]_vars
  PROVE  GoodStep
<1>1. ASSUME UNCHANGED <<sfile, pfile, qfile, run, use>> PROVE GoodStep
  BY <1>1 DEF GoodStep, PlacesInv, CycleInv, SameView, SeenTable, SeenLocks, TookEffect,
              Locks, LocksIn
<1>2. CASE \E u \in Users : DiscardGFile(u)
  BY <1>1, <1>2 DEF DiscardGFile
<1>3. CASE UNCHANGED vars
  BY <1>1, <1>3 DEF vars
<1> QED
  BY <1>2, <1>3, Steps, GetEditStep, RmdelStep, DeltaStep, UngetStep, UpdateSteps, ReplaceSteps

LEMMA InitSids ==
  ASSUME Init
  PROVE  /\ UniqueIn(sfile)
         /\ InitialDeltas = 1 => CurrentSids(sfile) = {<<1, 1, 0, 0>>}
<1>1. /\ sfile \in Tables /\ Len(sfile) = InitialDeltas /\ DOMAIN sfile = 1..InitialDeltas
      /\ \A i \in 1..InitialDeltas : sfile[i].sid = <<1, i, 0, 0>> /\ sfile[i].type = "D"
  BY InitTable, TableFacts DEF Entry
<1>2. CurrentDeltas(sfile) = 1..InitialDeltas
  BY <1>1 DEF CurrentDeltas
<1>3. ASSUME NEW i \in 1..InitialDeltas, NEW j \in 1..InitialDeltas, sfile[i].sid = sfile[j].sid
      PROVE  i = j
  <2>1. <<1, i, 0, 0>> = <<1, j, 0, 0>>
    BY <1>1, <1>3, Zenon
  <2> QED
    BY <2>1
<1>4. UniqueIn(sfile)
  BY <1>2, <1>3 DEF UniqueIn
<1>5. ASSUME InitialDeltas = 1 PROVE CurrentSids(sfile) = {<<1, 1, 0, 0>>}
  <2>1. 1..InitialDeltas = {1}
    BY <1>5
  <2>2. CurrentDeltas(sfile) = {1} /\ sfile[1].sid = <<1, 1, 0, 0>>
    BY <1>1, <1>2, <2>1
  <2>3. CurrentSids(sfile) = {sfile[1].sid}
    BY <2>2 DEF CurrentSids
  <2> QED
    BY <2>2, <2>3, Zenon
<1> QED
  BY <1>4, <1>5

LEMMA CycleInit ==
  ASSUME Init
  PROVE  PlacesInv /\ CycleInv
<1>1. run.pc = "idle" /\ ~TookEffect /\ Locks = {} /\ qfile = Absent
  BY DEF Init, Idle, TookEffect, Locks, LocksIn
<1>2. sfile \in Tables /\ UniqueIn(sfile)
  BY InitTable, InitSids
<1>3. Consistent(use, sfile, {})
  BY <1>2 DEF Consistent, OneEditor
<1> QED
  BY <1>1, <1>2, <1>3 DEF PlacesInv, CycleInv, Updating, Replacing

\* The inductive invariant of an edit cycle in which no command is killed.
CycleIInv == TypeInv /\ FilesInv /\ PlacesInv /\ CycleInv

LEMMA CycleInvariant ==
  ASSUME AbsentIsNoFile, Undisturbed, NullsAreTame
  PROVE  Spec => []CycleIInv
<1>1. Init => CycleIInv
  BY TypeInit, FilesInit, CycleInit DEF CycleIInv
<1>2. CycleIInv /\ [Next]_vars => CycleIInv'
  BY TypeNext, FilesNext, GoodSteps DEF CycleIInv, GoodStep
<1> QED
  BY <1>1, <1>2, PTL DEF Spec

\* Every delta of the history file has a SID of its own, at every moment of an edit
\* cycle in which no command is killed, with any flags; null deltas only without joint
\* editing and without a default SID on the trunk (get, delta, unget, rmdel).
THEOREM SidsAreUnique ==
  ASSUME AbsentIsNoFile, Undisturbed, NullsAreTame
  PROVE  Spec => []UniqueSids
<1>1. ASSUME CycleIInv PROVE UniqueSids
  <2>1. CASE ~TookEffect
    BY <1>1, <2>1 DEF CycleIInv, CycleInv, Consistent, UniqueIn, UniqueSids
  <2>2. CASE TookEffect
    <3>1. run.pc = "rename_x" => sfile = Absent
      BY <1>1 DEF CycleIInv, PlacesInv
    <3>2. run.pc # "rename_x" => sfile = run.table
      BY <1>1, <2>2 DEF CycleIInv, PlacesInv, TookEffect, Replacing
    <3>3. run.pc # "idle"
      BY <2>2 DEF TookEffect
    <3>4. UniqueIn(run.table)
      BY <1>1, <3>3 DEF CycleIInv, CycleInv, Consistent
    <3> QED
      BY <3>1, <3>2, <3>4 DEF UniqueIn, UniqueSids
  <2> QED
    BY <2>1, <2>2
<1> QED
  BY <1>1, CycleInvariant, PTL

\* Between commands no two locks promise the same SID and no delta has a promised SID:
\* a reservation of get -e is good until delta or unget uses it up.
THEOREM ReservationsAreExclusive ==
  ASSUME AbsentIsNoFile, Undisturbed, NullsAreTame
  PROVE  Spec => []ReservedSidsAreFree
<1>1. ASSUME CycleIInv PROVE ReservedSidsAreFree
  <2> SUFFICES ASSUME IsIdle
               PROVE  /\ \A l, m \in Locks : l.delta = m.delta => l = m
                      /\ Reserved(Locks) \cap CurrentSids(sfile) = {}
    BY DEF ReservedSidsAreFree
  <2>1. Consistent(use, sfile, Locks)
    BY <1>1 DEF CycleIInv, CycleInv, IsIdle, TookEffect
  <2> QED
    BY <2>1 DEF Consistent, Reserved
<1> QED
  BY <1>1, CycleInvariant, PTL

\* The successor of a delta that nobody edits is not being made.
LEMMA SuccessorIsFree ==
  ASSUME NEW x, TameUse(x), NEW t \in Tables, NEW locks \in PFiles, Consistent(x, t, locks),
         NEW got \in CurrentSids(t), \A l \in locks : l.got # got
  PROVE  Increment(got) \notin Reserved(locks)
<1> SUFFICES ASSUME NEW l \in locks, l.delta = Increment(got) PROVE FALSE
  BY DEF Reserved
<1>1. got \in DeltaSids /\ l.got \in DeltaSids /\ l.delta \in DeltaSids
  BY TableFacts DEF PFiles, EditLock
<1>2. /\ got \in SidTuples /\ l.got \in SidTuples
      /\ (got[3] = 0) = (got[4] = 0)
      /\ (l.got[3] = 0) = (l.got[4] = 0)
  BY <1>1, TrunkSid
<1>3. TameSid(t, l.got, l.delta)
  BY DEF Consistent
<1>4. CASE l.delta = Increment(l.got)
  <2>1. /\ got[3] = 0 => l.delta = <<got[1], got[2] + 1, 0, 0>>
        /\ got[3] # 0 => l.delta = <<got[1], got[2], got[3], got[4] + 1>>
    BY <1>1, IncrementType
  <2>2. /\ l.got[3] = 0 => l.delta = <<l.got[1], l.got[2] + 1, 0, 0>>
        /\ l.got[3] # 0 => l.delta = <<l.got[1], l.got[2], l.got[3], l.got[4] + 1>>
    BY <1>1, <1>4, IncrementType
  <2>3. l.got = got
    BY <1>2, <2>1, <2>2 DEF SidTuples
  <2> QED
    BY <2>3
<1>5. CASE l.delta[4] = 1
  <2>1. got[3] = 0 => l.delta[4] = 0
    BY <1>1, IncrementType
  <2>2. got[3] # 0 => l.delta[4] = got[4] + 1
    BY <1>1, IncrementType
  <2> QED
    BY <1>2, <1>5, <2>1, <2>2 DEF SidTuples
<1>6. CASE OpensRelease(t, l.got, l.delta)
  <2>1. l.delta[3] = 0 /\ Release(l.delta) > Release(l.got)
    BY <1>1, <1>6, TrunkSid DEF OpensRelease
  <2>2. got[3] = 0 /\ l.delta[1] = got[1]
    BY <1>1, <2>1, IncrementType
  <2>3. OnTrunk(got)
    BY <1>1, <2>2, TrunkSid
  <2>4. Gte(l.got, got)
    BY <1>6, <2>3 DEF OpensRelease
  <2> QED
    BY <1>2, <2>1, <2>2, <2>4 DEF Gte, Release, SidTuples
<1> QED
  BY <1>3, <1>4, <1>5, <1>6 DEF TameSid

\* find_next_sid never comes to what its comment says should not happen, a SID that
\* another user is making already, unless the default SID is a complete one.
THEOREM ShouldNotHappenDoesNot ==
  ASSUME AbsentIsNoFile, Undisturbed, NullsAreTame,
         \A x \in Uses : x.flags.joint \/ PartialSid(x.flags.default)
  PROVE  Spec => []NeverAlreadyEdited
<1>1. ASSUME CycleIInv PROVE NeverAlreadyEdited
  <2> SUFFICES ASSUME IsIdle, sfile # Absent, NEW rid \in Requests, NEW branch \in use.branches,
                      MayEdit(rid), ~NextSid(rid, branch).ok
               PROVE  FALSE
    BY DEF NeverAlreadyEdited
  <2> DEFINE got == Retrieve(rid)
             asked == Asked(rid, got, Flags)
             idea == FirstIdea(sfile, Locks, asked, got)
  <2>1. TypeInv /\ Consistent(use, sfile, Locks) /\ use \in Uses
    BY <1>1 DEF CycleIInv, CycleInv, TypeInv, IsIdle, TookEffect
  <2>2. /\ sfile \in Tables /\ IsFiniteSet(Locks) /\ Locks \in PFiles /\ branch \in BOOLEAN
        /\ Flags.default \in WellFormed /\ rid \in WellFormed
        /\ ~IsNull(got) /\ TestLocks(Locks, got, Flags)
    BY <2>1, UseFacts, LocksType, RequestsWellFormed DEF TypeInv, MayEdit
  <2>3. GetRequest(sfile, rid, got, Flags)
    BY <2>2 DEF GetRequest, Retrieve
  <2>4. /\ got \in CurrentSids(sfile) /\ got \in DeltaSids
        /\ asked \in WellFormed /\ ~IsNull(asked)
        /\ EditRequest(rid, got) \in WellFormed /\ ~IsNull(EditRequest(rid, got))
    BY <2>2, <2>3, AskedFacts
  <2>5. ShouldNotHappen(sfile, Locks, idea, Flags)
    BY <2>2, <2>4, NextSidCases DEF NextSid, Asked
  <2>6. idea \in Reserved(Locks) /\ ~Flags.joint
    BY <2>5 DEF ShouldNotHappen
  <2>7. PartialSid(Flags.default) /\ Components(Flags.default) \in {0, 1, 3}
    <3>1. PartialSid(Flags.default)
      BY <2>1, <2>6 DEF Flags
    <3> QED
      BY <2>2, <3>1, WellFormedFacts DEF PartialSid, Components, IsNull
  <2>8. CASE Components(Flags.default) = 1
    <3>1. ~IsNull(Flags.default) /\ ReleaseOnly(Flags.default)
      BY <2>2, <2>8, WellFormedFacts DEF Components, IsNull, ReleaseOnly
    <3>2. ReleaseOnly(asked)
      BY <3>1 DEF Asked
    <3> HIDE DEF asked, got
    <3>3. idea \notin CurrentSids(sfile) \cup Reserved(Locks)
      BY <2>2, <2>4, <3>2, FirstIdeaType
    <3> QED
      BY <2>6, <3>3
  <2>9. CASE Components(Flags.default) \in {0, 3}
    <3>1. idea = Increment(got)
      BY <2>2, <2>3, <2>6, <2>9, Ideas
    <3>2. \A l \in Locks : l.got # got
      BY <2>2, <2>6 DEF TestLocks
    <3>3. TameUse(use)
      BY <2>6, <2>9 DEF TameUse, Flags
    <3> HIDE DEF got, idea
    <3>4. Increment(got) \notin Reserved(Locks)
      BY <2>1, <2>2, <2>4, <3>2, <3>3, SuccessorIsFree
    <3> QED
      BY <2>6, <3>1, <3>4
  <2> QED
    BY <2>7, <2>8, <2>9
<1> QED
  BY <1>1, CycleInvariant, PTL

-----------------------------------------------------------------------------
(* EditProtocol implements EditLocks.                                      *)

LEMMA EffectIsAbstract ==
  ASSUME TypeInv, use' = use, SameView \/ EffectStep
  PROVE  Abstract!AbsNext
<1> DEFINE cur == CurrentSids(SeenTable)
           cur2 == CurrentSids(SeenTable')
           L == SeenLocks
           M == SeenLocks'
<1>1. Flags' = Flags /\ use'.nulls = use.nulls /\ Flags.joint = use.flags.joint
  BY DEF Flags
<1>2. \A l \in EditLock : l \in [user : Users, got : SidTuples, delta : SidTuples]
  BY DeltaSidFacts DEF EditLock
<1>3. CASE SameView
  BY <1>1, <1>3 DEF SameView, SeenTable, SeenLocks, Abstract!AbsNext, Abstract!absVars
<1>4. CASE \E l \in M \ L :
             /\ l \in EditLock /\ l.got \in cur /\ l.delta \notin cur \cup Reserved(L)
             /\ Flags.joint \/ \A m \in L : m.got # l.got
             /\ M = L \cup {l} /\ cur2 = cur
  <2>1. PICK l \in M \ L :
             /\ l \in EditLock /\ l.got \in cur /\ l.delta \notin cur \cup Reserved(L)
             /\ Flags.joint \/ \A m \in L : m.got # l.got
             /\ M = L \cup {l} /\ cur2 = cur
    BY <1>4
  <2>2. l \in [user : Users, got : cur, delta : SidTuples \ (cur \cup Reserved(L))]
    BY <1>2, <2>1 DEF EditLock
  <2>3. Abstract!Reserve
    BY <1>1, <2>1, <2>2
    DEF Abstract!Reserve, Abstract!Reservation, Abstract!Promised, SeenTable, SeenLocks, Reserved
  <2> QED
    BY <2>3 DEF Abstract!AbsNext
<1>5. CASE \E l \in L :
             /\ Companions(use, l) \cap (cur \cup Reserved(L)) = {}
             /\ cur2 = cur \cup {l.delta} \cup Companions(use, l)
             /\ M = L \ {l}
  <2>1. Abstract!Commit
    BY <1>1, <1>5
    DEF Abstract!Commit, Abstract!Promised, SeenTable, SeenLocks, Reserved, Companions
  <2> QED
    BY <2>1 DEF Abstract!AbsNext
<1>6. CASE \E l \in L : M = L \ {l} /\ cur2 = cur
  <2>1. Abstract!Abandon
    BY <1>1, <1>6 DEF Abstract!Abandon, SeenTable, SeenLocks
  <2> QED
    BY <2>1 DEF Abstract!AbsNext
<1>7. CASE \E id \in cur : (\A l \in L : l.got # id) /\ M = L /\ cur2 = cur \ {id}
  <2>1. Abstract!Remove
    BY <1>1, <1>7 DEF Abstract!Remove, SeenTable, SeenLocks
  <2> QED
    BY <2>1 DEF Abstract!AbsNext
<1>8. EffectStep => \/ \E l \in M \ L :
                         /\ l \in EditLock /\ l.got \in cur /\ l.delta \notin cur \cup Reserved(L)
                         /\ Flags.joint \/ \A m \in L : m.got # l.got
                         /\ M = L \cup {l} /\ cur2 = cur
                    \/ \E l \in L :
                         /\ Companions(use, l) \cap (cur \cup Reserved(L)) = {}
                         /\ cur2 = cur \cup {l.delta} \cup Companions(use, l)
                         /\ M = L \ {l}
                    \/ \E l \in L : M = L \ {l} /\ cur2 = cur
                    \/ \E id \in cur : (\A l \in L : l.got # id) /\ M = L /\ cur2 = cur \ {id}
  BY <1>1, Zenon DEF EffectStep, Effect
<1> QED
  BY <1>3, <1>4, <1>5, <1>6, <1>7, <1>8

\* The system calls of get -e, delta, unget and rmdel, interleaved as they may be and
\* failing where they may fail, do what EditLocks says in one step each: a step of
\* EditProtocol is a step of EditLocks or is not seen at all.
THEOREM ImplementsEditLocks ==
  ASSUME AbsentIsNoFile, Undisturbed, NullsAreTame, InitialDeltas = 1
  PROVE  Spec => Refinement
<1>1. Init => Abstract!AbsInit
  <2> SUFFICES ASSUME Init PROVE Abstract!AbsInit
    OBVIOUS
  <2>1. ~TookEffect /\ Locks = {} /\ TypeInv
    BY TypeInit DEF Init, Idle, TookEffect, Locks, LocksIn
  <2>2. CurrentSids(sfile) = {<<1, 1, 0, 0>>}
    BY InitSids
  <2>3. Flags.joint \in BOOLEAN /\ use.nulls \in BOOLEAN
    BY <2>1, UseFacts
  <2> QED
    BY <2>1, <2>2, <2>3 DEF Abstract!AbsInit
<1>2. CycleIInv /\ [Next]_vars => [Abstract!AbsNext]_(Abstract!absVars)
  BY GoodSteps, EffectIsAbstract DEF CycleIInv, GoodStep
<1>3. Spec => []CycleIInv
  BY CycleInvariant
<1> QED
  BY <1>1, <1>2, <1>3, PTL DEF Spec, Refinement, Abstract!AbsSpec


\* What EditLocks promises holds of the files: at every moment each reservation names a
\* delta that is there and a SID that is free, no two name the same SID, and without
\* joint editing no two name the same delta (the contract of get -e, delta, unget and
\* rmdel).
THEOREM PromiseKept ==
  ASSUME AbsentIsNoFile, Undisturbed, NullsAreTame
  PROVE  Spec => []Abstract!Promise
<1>1. CycleIInv => Abstract!Promise
  <2> SUFFICES ASSUME CycleIInv PROVE Abstract!Promise
    OBVIOUS
  <2>1. Consistent(use, SeenTable, SeenLocks)
    <3>1. CASE TookEffect
      <4>1. run.pc # "idle"
        BY <3>1 DEF TookEffect
      <4> QED
        BY <3>1, <4>1 DEF CycleIInv, CycleInv, SeenTable, SeenLocks
    <3>2. CASE ~TookEffect
      BY <3>2 DEF CycleIInv, CycleInv, SeenTable, SeenLocks
    <3> QED
      BY <3>1, <3>2
  <2> QED
    BY <2>1 DEF Consistent, OneEditor, Abstract!Promise, SeenTable, SeenLocks, Flags
<1> QED
  BY <1>1, CycleInvariant, PTL

=============================================================================
