--------------------------- MODULE FrontEndProofs ---------------------------
(***************************************************************************)
(* The front end, for any number of users, deltas, releases and half-done  *)
(* programs: whoever holds a lock has the text of the delta he got, and his *)
(* file goes away only by a command of his own that is meant to remove it. *)
(***************************************************************************)
EXTENDS FrontEnd, OperatorProofs, SequenceTheorems

-----------------------------------------------------------------------------
(* The delta table.  The current delta of a SID is the youngest of that    *)
(* SID; the current deltas of the trunk are a chain in which every one     *)
(* follows its predecessor; a delta on a branch has a current predecessor  *)
(* of its own release.                                                     *)

TrunkDeltas(t) == {i \in CurrentDeltas(t) : OnTrunk(t[i].sid)}

\* The order of the trunk.
Below(a, b) == a[1] < b[1] \/ (a[1] = b[1] /\ a[2] < b[2])
Follows(b, a) == a[1] < b[1] \/ (a[1] = b[1] /\ b[2] = a[2] + 1)

Youngest(t) ==
  \A i \in CurrentDeltas(t), j \in DOMAIN t : t[j].sid = t[i].sid => j <= i

Rising(t) == \A i, j \in TrunkDeltas(t) : i < j => Below(t[i].sid, t[j].sid)

Chain(t) ==
  \A j \in TrunkDeltas(t) :
    /\ \A k \in TrunkDeltas(t) : k < j => k <= t[j].prev
    /\ t[j].prev # 0 => t[j].prev \in TrunkDeltas(t) /\ Follows(t[j].sid, t[t[j].prev].sid)

Rooted(t) ==
  \A j \in CurrentDeltas(t) : ~OnTrunk(t[j].sid) =>
    /\ t[j].prev \in CurrentDeltas(t)
    /\ Release(t[j].sid) = Release(t[t[j].prev].sid)

TableInv(t) == t \in Tables /\ Youngest(t) /\ Rising(t) /\ Chain(t) /\ Rooted(t)

LEMMA TableEntry ==
  ASSUME NEW t \in Tables, NEW i \in CurrentDeltas(t)
  PROVE  /\ i \in 1..Len(t) /\ i \in Nat /\ t[i].sid \in CurrentSids(t) /\ t[i].sid \in DeltaSids
         /\ t[i].sid \in SidTuples /\ t[i].prev \in Nat /\ t[i].prev < i /\ Len(t) \in Nat
<1>1. i \in 1..Len(t) /\ Len(t) \in Nat /\ t[i] \in DeltaRecords
  BY TableFacts
<1>2. t[i].sid \in CurrentSids(t)
  BY DEF CurrentSids
<1>3. t[i].prev < i
  BY <1>1 DEF Tables
<1> QED
  BY <1>1, <1>2, <1>3, DeltaSidFacts DEF DeltaRecords

\* find returns the only current delta of a SID.
LEMMA FindDeltaIs ==
  ASSUME NEW t, TableInv(t), NEW i \in CurrentDeltas(t)
  PROVE  FindDelta(t, t[i].sid) = i
<1>1. t[i].sid \in CurrentSids(t) /\ t \in Tables
  BY TableEntry DEF TableInv
<1> DEFINE k == FindDelta(t, t[i].sid)
<1>2. k \in CurrentDeltas(t) /\ t[k].sid = t[i].sid
  BY <1>1, FindDeltaFinds
<1> HIDE DEF k
<1>3. k \in DOMAIN t /\ i \in DOMAIN t /\ k \in Nat /\ i \in Nat
  BY <1>1, <1>2, TableFacts, TableEntry
<1>4. k <= i /\ i <= k
  BY <1>2, <1>3 DEF TableInv, Youngest
<1> QED
  BY <1>3, <1>4 DEF k

\* The highest release depends on the SIDs of the trunk only.
TrunkSids(t) == {id \in CurrentSids(t) : OnTrunk(id)}
Greatest(S) == IF S = {} THEN NullSid ELSE CHOOSE a \in S : \A b \in S : Gte(a, b)

LEMMA SameHighest ==
  ASSUME NEW t, NEW u, TrunkSids(t) = TrunkSids(u)
  PROVE  HighestRelease(t) = HighestRelease(u)
<1>1. \A v : HighestRelease(v) = Greatest(TrunkSids(v))
  BY DEF HighestRelease, TrunkSids, Greatest
<1> QED
  BY <1>1

\* The highest release is the last one of the trunk.
LEMMA HighestIsLast ==
  ASSUME NEW t, TableInv(t), NEW i \in TrunkDeltas(t)
  PROVE  LET top == FindDelta(t, HighestRelease(t))
         IN  /\ top \in TrunkDeltas(t) /\ t[top].sid = HighestRelease(t)
             /\ \A k \in TrunkDeltas(t) : k <= top
<1>1. t \in Tables /\ i \in CurrentDeltas(t) /\ t[i].sid \in CurrentSids(t) /\ OnTrunk(t[i].sid)
  BY TableEntry DEF TableInv, TrunkDeltas
<1>2. HighestRelease(t) \in CurrentSids(t) /\ OnTrunk(HighestRelease(t))
  BY <1>1, HighestIsHighest
<1> DEFINE top == FindDelta(t, HighestRelease(t))
<1>3. top \in CurrentDeltas(t) /\ t[top].sid = HighestRelease(t)
  BY <1>1, <1>2, FindDeltaFinds
<1> HIDE DEF top
<1>4. top \in TrunkDeltas(t)
  BY <1>2, <1>3 DEF TrunkDeltas
<1>5. ASSUME NEW k \in TrunkDeltas(t), k > top PROVE FALSE
  <2>1. Below(t[top].sid, t[k].sid)
    BY <1>4, <1>5 DEF TableInv, Rising
  <2>2. /\ k \in CurrentDeltas(t) /\ OnTrunk(t[k].sid)
        /\ t[k].sid \in CurrentSids(t) /\ t[k].sid \in SidTuples /\ t[top].sid \in SidTuples
    BY <1>1, <1>3, <1>5, TableEntry DEF TrunkDeltas
  <2>3. Gte(t[top].sid, t[k].sid)
    BY <1>1, <1>3, <2>2, HighestIsHighest
  <2> QED
    BY <2>1, <2>2, <2>3 DEF Below, Gte, SidTuples
<1>6. \A k \in TrunkDeltas(t) : k \in Nat /\ top \in Nat
  BY <1>1, <1>3, TableEntry DEF TrunkDeltas
<1> QED
  BY <1>3, <1>4, <1>5, <1>6 DEF top

\* Every release that has a delta has one on the trunk.
LEMMA ReleaseHasTrunk ==
  ASSUME NEW t, TableInv(t), NEW i \in CurrentDeltas(t)
  PROVE  \E j \in TrunkDeltas(t) : Release(t[j].sid) = Release(t[i].sid)
<1> DEFINE S == {k \in CurrentDeltas(t) : Release(t[k].sid) = Release(t[i].sid)}
<1>0. t \in Tables
  BY DEF TableInv
<1>1. S \subseteq Nat /\ S # {}
  BY <1>0, TableEntry
<1>2. PICK m \in S : \A k \in S : m <= k
  BY <1>1, LeastNumber
<1>3. OnTrunk(t[m].sid)
  <2>1. SUFFICES ASSUME ~OnTrunk(t[m].sid) PROVE FALSE
    OBVIOUS
  <2>2. t[m].prev \in CurrentDeltas(t) /\ Release(t[m].sid) = Release(t[t[m].prev].sid)
    BY <2>1 DEF TableInv, Rooted
  <2>3. t[m].prev \in S /\ t[m].prev < m /\ t[m].prev \in Nat /\ m \in Nat
    BY <1>0, <2>2, TableEntry
  <2> HIDE DEF S
  <2> QED
    BY <1>2, <2>3
<1> QED
  BY <1>3 DEF TrunkDeltas

LEMMA ReleaseAtMost ==
  ASSUME NEW t, TableInv(t), NEW i \in CurrentDeltas(t)
  PROVE  /\ Release(t[i].sid) <= Release(HighestRelease(t))
         /\ HighestRelease(t) \in CurrentSids(t) /\ OnTrunk(HighestRelease(t))
<1>0. t \in Tables
  BY DEF TableInv
<1>1. PICK j \in TrunkDeltas(t) : Release(t[j].sid) = Release(t[i].sid)
  BY ReleaseHasTrunk
<1>2. j \in CurrentDeltas(t) /\ t[j].sid \in CurrentSids(t) /\ OnTrunk(t[j].sid) /\ t[j].sid \in SidTuples
  BY <1>0, TableEntry DEF TrunkDeltas
<1>3. /\ HighestRelease(t) \in CurrentSids(t) /\ OnTrunk(HighestRelease(t))
      /\ Gte(HighestRelease(t), t[j].sid)
  BY <1>0, <1>2, HighestIsHighest
<1>4. HighestRelease(t) \in SidTuples
  BY <1>0, <1>3, TableFacts, DeltaSidFacts
<1> QED
  BY <1>1, <1>2, <1>3, <1>4 DEF Gte, SidTuples, Release

\* The table that delta writes.
Added(t, got, delta) ==
  Append(t, [sid |-> delta, prev |-> FindDelta(t, got), type |-> "D"])

LEMMA AddedParts ==
  ASSUME NEW t \in Tables, NEW got \in CurrentSids(t), NEW delta \in DeltaSids
  PROVE  LET w == Added(t, got, delta)
             n == Len(t) + 1
         IN  /\ w \in Tables /\ Len(w) = n /\ n \in Nat /\ n > Len(t)
             /\ \A i \in 1..Len(t) : w[i] = t[i]
             /\ w[n].sid = delta /\ w[n].prev = FindDelta(t, got) /\ w[n].type = "D"
             /\ CurrentDeltas(w) = CurrentDeltas(t) \cup {n}
             /\ CurrentSids(w) = CurrentSids(t) \cup {delta}
<1> DEFINE prev == FindDelta(t, got)
           new == [sid |-> delta, prev |-> prev, type |-> "D"]
           w == Append(t, new)
           n == Len(t) + 1
<1>0. w = Added(t, got, delta)
  BY DEF Added
<1>1. prev \in CurrentDeltas(t)
  BY FindDeltaFinds
<1>2. prev \in 1..Len(t) /\ prev \in Nat /\ Len(t) \in Nat /\ t \in Seq(DeltaRecords) /\ DOMAIN t = 1..Len(t)
  BY <1>1, TableFacts DEF Tables
<1> HIDE DEF prev
<1>3. new \in DeltaRecords /\ new.sid = delta /\ new.prev = prev /\ new.type = "D"
  BY <1>2 DEF DeltaRecords
<1> HIDE DEF new
<1>4. /\ w \in Seq(DeltaRecords) /\ Len(w) = n /\ n \in Nat /\ n > Len(t) /\ DOMAIN w = 1..n
      /\ \A i \in 1..Len(t) : w[i] = t[i]
      /\ w[n] = new
  BY <1>2, <1>3
<1> HIDE DEF w
<1>5. \A i \in 1..n : i \in 1..Len(t) \/ i = n
  BY <1>2
<1> HIDE DEF n
<1>6. w \in Tables
  <2>1. \A i \in 1..Len(t) : t[i].prev < i
    BY DEF Tables
  <2>2. prev < n
    BY <1>2, <1>4
  <2> QED
    BY <1>3, <1>4, <1>5, <2>1, <2>2 DEF Tables
<1>7. CurrentDeltas(w) = CurrentDeltas(t) \cup {n}
  <2>1. n \in 1..n /\ 1..Len(t) \subseteq 1..n
    BY <1>2, <1>4 DEF n
  <2> QED
    BY <1>2, <1>3, <1>4, <1>5, <2>1 DEF CurrentDeltas
<1>8. CurrentSids(w) = CurrentSids(t) \cup {delta}
  <2>1. \A i \in CurrentDeltas(t) : w[i].sid = t[i].sid
    BY <1>4, TableFacts
  <2> QED
    BY <1>3, <1>4, <1>7, <2>1 DEF CurrentSids
<1> QED
  BY <1>0, <1>3, <1>4, <1>6, <1>7, <1>8 DEF n, prev

\* What a lock says of the delta that will be made.
Tame(t, got, delta) ==
  IF OnTrunk(delta) THEN got = HighestRelease(t) /\ Follows(delta, got)
  ELSE Release(delta) = Release(got)

LEMMA AddedTable ==
  ASSUME NEW t, TableInv(t), NEW got \in CurrentSids(t), NEW delta \in DeltaSids,
         delta \notin CurrentSids(t), Tame(t, got, delta)
  PROVE  TableInv(Added(t, got, delta))
<1> DEFINE w == Added(t, got, delta)
           n == Len(t) + 1
           top == FindDelta(t, got)
<1>0. t \in Tables
  BY DEF TableInv
<1>1. /\ w \in Tables /\ Len(w) = n /\ n \in Nat /\ n > Len(t)
      /\ \A i \in 1..Len(t) : w[i] = t[i]
      /\ w[n].sid = delta /\ w[n].prev = top /\ w[n].type = "D"
      /\ CurrentDeltas(w) = CurrentDeltas(t) \cup {n}
      /\ CurrentSids(w) = CurrentSids(t) \cup {delta}
  BY <1>0, AddedParts
<1>2. top \in CurrentDeltas(t) /\ t[top].sid = got
  BY <1>0, FindDeltaFinds
<1>3. \A i \in CurrentDeltas(t) : i \in 1..Len(t) /\ i \in Nat /\ i < n /\ w[i] = t[i]
  BY <1>0, <1>1, TableEntry
<1>4. DOMAIN t = 1..Len(t) /\ DOMAIN w = 1..n /\ \A i \in 1..n : i \in 1..Len(t) \/ i = n
  BY <1>0, <1>1, TableFacts
<1> HIDE DEF w, n, top
<1>5. Youngest(w)
  <2> SUFFICES ASSUME NEW i \in CurrentDeltas(w), NEW j \in DOMAIN w, w[j].sid = w[i].sid
               PROVE  j <= i
    BY DEF Youngest
  <2>1. CASE i = n
    BY <1>1, <1>4, <2>1
  <2>2. CASE i \in CurrentDeltas(t) /\ j = n
    BY <1>1, <1>3, <2>2 DEF CurrentSids
  <2>3. CASE i \in CurrentDeltas(t) /\ j \in 1..Len(t)
    BY <1>1, <1>3, <1>4, <2>3 DEF TableInv, Youngest
  <2> QED
    BY <1>1, <1>4, <2>1, <2>2, <2>3
<1>6. \A i \in TrunkDeltas(w) : i \in TrunkDeltas(t) \/ (i = n /\ OnTrunk(delta))
  BY <1>1, <1>3 DEF TrunkDeltas
<1>7. \A i \in TrunkDeltas(t) : i \in TrunkDeltas(w) /\ i \in CurrentDeltas(t)
  BY <1>1, <1>3 DEF TrunkDeltas
\* On the trunk the new delta comes after the last one.
<1>8. ASSUME OnTrunk(delta)
      PROVE  /\ top \in TrunkDeltas(t) /\ (\A k \in TrunkDeltas(t) : k <= top)
             /\ Follows(delta, t[top].sid)
  <2>1. got = HighestRelease(t) /\ Follows(delta, got)
    BY <1>8 DEF Tame
  <2>2. OnTrunk(t[top].sid)
    BY <1>2, <2>1, ReleaseAtMost
  <2>3. top \in TrunkDeltas(t)
    BY <1>2, <2>2 DEF TrunkDeltas
  <2>4. \A k \in TrunkDeltas(t) : k <= top
    BY <2>1, HighestIsLast DEF top
  <2> QED
    BY <1>2, <2>1, <2>3, <2>4
<1>9. Rising(w)
  <2> SUFFICES ASSUME NEW i \in TrunkDeltas(w), NEW j \in TrunkDeltas(w), i < j
               PROVE  Below(w[i].sid, w[j].sid)
    BY DEF Rising
  <2>1. CASE i = n
    <3>1. j \in Nat /\ j <= n
      BY <1>1, <1>3, <1>6, <1>7
    <3> QED
      BY <2>1, <3>1, <1>1
  <2>2. CASE i \in TrunkDeltas(t) /\ j \in TrunkDeltas(t)
    BY <1>3, <1>7, <2>2 DEF TableInv, Rising
  <2>3. CASE i \in TrunkDeltas(t) /\ j = n /\ OnTrunk(delta)
    <3>1. /\ w[i].sid = t[i].sid /\ w[j].sid = delta
          /\ t[i].sid \in SidTuples /\ t[top].sid \in SidTuples /\ delta \in SidTuples
          /\ i \in Nat /\ top \in Nat
      BY <1>0, <1>1, <1>2, <1>3, <1>7, <2>3, TableEntry, DeltaSidFacts
    <3>2. i = top \/ Below(t[i].sid, t[top].sid)
      BY <1>8, <2>3, <3>1 DEF TableInv, Rising
    <3>3. Follows(delta, t[top].sid)
      BY <1>8, <2>3
    <3> QED
      BY <3>1, <3>2, <3>3 DEF Below, Follows, SidTuples
  <2> QED
    BY <1>6, <2>1, <2>2, <2>3
<1>10. Chain(w)
  <2> SUFFICES ASSUME NEW j \in TrunkDeltas(w)
               PROVE  /\ \A k \in TrunkDeltas(w) : k < j => k <= w[j].prev
                      /\ w[j].prev # 0 => /\ w[j].prev \in TrunkDeltas(w)
                                          /\ Follows(w[j].sid, w[w[j].prev].sid)
    BY DEF Chain
  <2>1. CASE j \in TrunkDeltas(t)
    <3>1. \A k \in TrunkDeltas(w) : k < j => k \in TrunkDeltas(t)
      BY <1>1, <1>3, <1>6, <1>7, <2>1
    <3> QED
      BY <1>3, <1>7, <2>1, <3>1 DEF TableInv, Chain
  <2>2. CASE j = n /\ OnTrunk(delta)
    <3>1. \A k \in TrunkDeltas(w) : k < j => k \in TrunkDeltas(t)
      BY <1>1, <1>6, <2>2
    <3>2. top \in TrunkDeltas(w) /\ w[top].sid = t[top].sid
      BY <1>2, <1>3, <1>7, <1>8, <2>2
    <3> QED
      BY <1>1, <1>8, <2>2, <3>1, <3>2
  <2> QED
    BY <1>6, <2>1, <2>2
<1>11. Rooted(w)
  <2> SUFFICES ASSUME NEW j \in CurrentDeltas(w), ~OnTrunk(w[j].sid)
               PROVE  /\ w[j].prev \in CurrentDeltas(w)
                      /\ Release(w[j].sid) = Release(w[w[j].prev].sid)
    BY DEF Rooted
  <2>1. CASE j \in CurrentDeltas(t)
    BY <1>1, <1>3, <2>1 DEF TableInv, Rooted
  <2>2. CASE j = n
    BY <1>1, <1>2, <1>3, <2>2 DEF Tame
  <2> QED
    BY <1>1, <2>1, <2>2
<1> QED
  BY <1>1, <1>5, <1>9, <1>10, <1>11 DEF TableInv, w

LEMMA AddedKeeps ==
  ASSUME NEW t, TableInv(t), NEW got \in CurrentSids(t), NEW delta \in DeltaSids,
         delta \notin CurrentSids(t), Tame(t, got, delta)
  PROVE  LET w == Added(t, got, delta)
         IN  /\ \A id \in CurrentSids(t) : FindDelta(w, id) = FindDelta(t, id)
             /\ FindDelta(w, delta) = Len(w)
             /\ ~OnTrunk(delta) => HighestRelease(w) = HighestRelease(t)
<1> DEFINE w == Added(t, got, delta)
<1>0. t \in Tables /\ TableInv(w)
  BY AddedTable DEF TableInv
<1>1. /\ w \in Tables /\ Len(w) = Len(t) + 1
      /\ \A i \in 1..Len(t) : w[i] = t[i]
      /\ w[Len(w)].sid = delta
      /\ CurrentDeltas(w) = CurrentDeltas(t) \cup {Len(w)}
      /\ CurrentSids(w) = CurrentSids(t) \cup {delta}
  BY <1>0, AddedParts
<1> HIDE DEF w
<1>2. ASSUME NEW id \in CurrentSids(t) PROVE FindDelta(w, id) = FindDelta(t, id)
  <2>1. FindDelta(t, id) \in CurrentDeltas(t) /\ t[FindDelta(t, id)].sid = id
    BY <1>0, FindDeltaFinds
  <2>2. FindDelta(t, id) \in CurrentDeltas(w) /\ w[FindDelta(t, id)].sid = id
    BY <1>0, <1>1, <2>1, TableEntry
  <2> QED
    BY <1>0, <2>2, FindDeltaIs
<1>3. FindDelta(w, delta) = Len(w)
  BY <1>0, <1>1, FindDeltaIs
<1>4. ASSUME ~OnTrunk(delta) PROVE HighestRelease(w) = HighestRelease(t)
  <2>1. TrunkSids(w) = TrunkSids(t)
    BY <1>1, <1>4 DEF TrunkSids
  <2> QED
    BY <2>1, SameHighest
<1> QED
  BY <1>2, <1>3, <1>4 DEF w

\* A delta of the trunk that nobody has built on is the last one of the trunk.
LEMMA LastOfTrunk ==
  ASSUME NEW t, TableInv(t), NEW seq \in TrunkDeltas(t),
         \A i \in CurrentDeltas(t) : t[i].prev # seq
  PROVE  \A k \in TrunkDeltas(t) : k <= seq
<1> DEFINE S == {j \in TrunkDeltas(t) : j > seq}
<1>0. t \in Tables
  BY DEF TableInv
<1>1. \A k \in TrunkDeltas(t) : k \in CurrentDeltas(t) /\ k \in Nat /\ t[k].prev \in Nat /\ t[k].prev < k
  BY <1>0, TableEntry DEF TrunkDeltas
<1>2. S = {}
  <2>1. SUFFICES ASSUME S # {} PROVE FALSE
    OBVIOUS
  <2>2. S \subseteq Nat
    BY <1>1
  <2>3. PICK j \in S : \A k \in S : j <= k
    BY <2>1, <2>2, LeastNumber
  <2>4. seq <= t[j].prev /\ (t[j].prev # 0 => t[j].prev \in TrunkDeltas(t))
    BY <2>3 DEF TableInv, Chain
  <2>5. t[j].prev \in Nat /\ t[j].prev < j /\ t[j].prev # seq /\ seq \in Nat /\ j \in Nat
    BY <1>1, <2>3
  <2>6. t[j].prev \in S
    BY <2>4, <2>5
  <2> HIDE DEF S
  <2> QED
    BY <2>3, <2>5, <2>6
<1> QED
  BY <1>1, <1>2

LEMMA RemovedTable ==
  ASSUME NEW t, TableInv(t), NEW id \in CurrentSids(t),
         \A i \in CurrentDeltas(t) : t[i].prev # FindDelta(t, id)
  PROVE  LET u == Removed(t, id)
             seq == FindDelta(t, id)
         IN  /\ TableInv(u)
             /\ TrunkDeltas(u) = TrunkDeltas(t) \ {seq}
             /\ CurrentSids(u) = CurrentSids(t) \ {id}
             /\ \A x \in CurrentSids(u) : FindDelta(u, x) = FindDelta(t, x)
<1> DEFINE u == Removed(t, id)
           seq == FindDelta(t, id)
<1>0. t \in Tables
  BY DEF TableInv
<1>1. /\ u \in Tables
      /\ seq \in CurrentDeltas(t) /\ t[seq].sid = id
      /\ CurrentDeltas(u) = CurrentDeltas(t) \ {seq}
      /\ CurrentSids(t) \ {id} \subseteq CurrentSids(u)
      /\ Len(u) = Len(t)
      /\ \A i \in 1..Len(t) : u[i].sid = t[i].sid /\ u[i].prev = t[i].prev
  BY <1>0, RemovedDelta
<1>2. /\ \A i \in CurrentDeltas(t) : /\ i \in 1..Len(t) /\ u[i].sid = t[i].sid
                                     /\ u[i].prev = t[i].prev /\ t[i].prev # seq
      /\ DOMAIN u = 1..Len(t) /\ DOMAIN t = 1..Len(t)
  BY <1>0, <1>1, TableFacts
<1> HIDE DEF u, seq
<1>3. TrunkDeltas(u) = TrunkDeltas(t) \ {seq} /\ \A i \in TrunkDeltas(t) : i \in CurrentDeltas(t)
  BY <1>1, <1>2 DEF TrunkDeltas
<1>4. Youngest(u)
  BY <1>1, <1>2 DEF TableInv, Youngest
<1>5. Rising(u)
  BY <1>2, <1>3 DEF TableInv, Rising
<1>6. Chain(u)
  <2> SUFFICES ASSUME NEW j \in TrunkDeltas(u)
               PROVE  /\ \A k \in TrunkDeltas(u) : k < j => k <= u[j].prev
                      /\ u[j].prev # 0 => /\ u[j].prev \in TrunkDeltas(u)
                                          /\ Follows(u[j].sid, u[u[j].prev].sid)
    BY DEF Chain
  <2>1. /\ j \in TrunkDeltas(t) /\ u[j].prev = t[j].prev /\ u[j].sid = t[j].sid /\ t[j].prev # seq
    BY <1>2, <1>3
  <2>2. /\ \A k \in TrunkDeltas(t) : k < j => k <= t[j].prev
        /\ t[j].prev # 0 => t[j].prev \in TrunkDeltas(t) /\ Follows(t[j].sid, t[t[j].prev].sid)
    BY <2>1 DEF TableInv, Chain
  <2> QED
    BY <1>2, <1>3, <2>1, <2>2
<1>7. Rooted(u)
  <2> SUFFICES ASSUME NEW j \in CurrentDeltas(u), ~OnTrunk(u[j].sid)
               PROVE  /\ u[j].prev \in CurrentDeltas(u)
                      /\ Release(u[j].sid) = Release(u[u[j].prev].sid)
    BY DEF Rooted
  <2>1. t[j].prev \in CurrentDeltas(t) /\ Release(t[j].sid) = Release(t[t[j].prev].sid)
    BY <1>1, <1>2 DEF TableInv, Rooted
  <2> QED
    BY <1>1, <1>2, <2>1
<1>8. TableInv(u)
  BY <1>1, <1>4, <1>5, <1>6, <1>7 DEF TableInv
<1>9. CurrentSids(u) = CurrentSids(t) \ {id}
  <2>1. ASSUME NEW i \in CurrentDeltas(u) PROVE u[i].sid \in CurrentSids(t) \ {id}
    <3>1. i \in CurrentDeltas(t) /\ i # seq /\ u[i].sid = t[i].sid
      BY <1>1, <1>2
    <3>2. t[i].sid # id
      BY <1>1, <3>1, FindDeltaIs
    <3> QED
      BY <3>1, <3>2 DEF CurrentSids
  <2>2. CurrentSids(u) \subseteq CurrentSids(t) \ {id}
    <3> SUFFICES ASSUME NEW x \in CurrentSids(u) PROVE x \in CurrentSids(t) \ {id}
      OBVIOUS
    <3>1. PICK i \in CurrentDeltas(u) : x = u[i].sid
      BY DEF CurrentSids
    <3> QED
      BY <2>1, <3>1
  <2> QED
    BY <1>1, <2>2
<1>10. ASSUME NEW x \in CurrentSids(u) PROVE FindDelta(u, x) = FindDelta(t, x)
  <2>1. FindDelta(u, x) \in CurrentDeltas(u) /\ u[FindDelta(u, x)].sid = x
    BY <1>1, FindDeltaFinds
  <2>2. FindDelta(u, x) \in CurrentDeltas(t) /\ t[FindDelta(u, x)].sid = x
    BY <1>1, <1>2, <2>1
  <2> QED
    BY <2>2, FindDeltaIs
<1> QED
  BY <1>3, <1>8, <1>9, <1>10 DEF u, seq

\* If the delta was on the trunk, then its predecessor is now the last one; if not, the
\* trunk is as it was.
LEMMA RemovedTrunk ==
  ASSUME NEW t, TableInv(t), NEW id \in CurrentSids(t),
         \A i \in CurrentDeltas(t) : t[i].prev # FindDelta(t, id)
  PROVE  LET u == Removed(t, id)
             seq == FindDelta(t, id)
         IN  IF OnTrunk(id)
             THEN id = HighestRelease(t) /\ t[seq].prev = FindDelta(u, HighestRelease(u))
             ELSE HighestRelease(u) = HighestRelease(t)
<1> DEFINE u == Removed(t, id)
           seq == FindDelta(t, id)
<1>0. t \in Tables
  BY DEF TableInv
<1>1. seq \in CurrentDeltas(t) /\ t[seq].sid = id
  BY <1>0, FindDeltaFinds
<1>2. TableInv(u) /\ u \in Tables /\ TrunkDeltas(u) = TrunkDeltas(t) \ {seq} /\ CurrentSids(u) = CurrentSids(t) \ {id}
  BY RemovedTable DEF TableInv
<1>3. \A i \in CurrentDeltas(t) : t[i].prev # seq
  OBVIOUS
<1> HIDE DEF u, seq
<1>4. ASSUME OnTrunk(id) PROVE id = HighestRelease(t) /\ t[seq].prev = FindDelta(u, HighestRelease(u))
  <2>1. seq \in TrunkDeltas(t)
    BY <1>1, <1>4 DEF TrunkDeltas
  <2>2. \A k \in TrunkDeltas(t) : k <= seq
    BY <1>3, <2>1, LastOfTrunk
  <2>3. \A k \in TrunkDeltas(t) : k \in Nat /\ t[k].prev \in Nat /\ t[k].prev < k
    BY <1>0, TableEntry DEF TrunkDeltas
  <2>4. id = HighestRelease(t)
    <3> DEFINE top == FindDelta(t, HighestRelease(t))
    <3>1. top \in TrunkDeltas(t) /\ t[top].sid = HighestRelease(t) /\ seq <= top
      BY <2>1, HighestIsLast
    <3> HIDE DEF top
    <3>2. top = seq
      BY <2>1, <2>2, <2>3, <3>1
    <3> QED
      BY <1>1, <3>1, <3>2
  <2>5. /\ \A k \in TrunkDeltas(t) : k < seq => k <= t[seq].prev
        /\ t[seq].prev # 0 => t[seq].prev \in TrunkDeltas(t)
    BY <2>1 DEF TableInv, Chain
  <2>6. CASE t[seq].prev # 0
    <3> DEFINE top == FindDelta(u, HighestRelease(u))
    <3>1. t[seq].prev \in TrunkDeltas(u) /\ t[seq].prev \in TrunkDeltas(t)
      BY <1>2, <2>1, <2>3, <2>5, <2>6
    <3>2. top \in TrunkDeltas(u) /\ t[seq].prev <= top
      BY <1>2, <3>1, HighestIsLast
    <3> HIDE DEF top
    <3>3. top \in TrunkDeltas(t) /\ top # seq
      BY <1>2, <3>2
    <3>4. top < seq /\ top <= t[seq].prev
      BY <2>1, <2>2, <2>3, <2>5, <3>3
    <3>5. top = t[seq].prev
      BY <2>1, <2>3, <3>2, <3>3, <3>4
    <3> QED
      BY <2>4, <3>5 DEF top
  <2>7. CASE t[seq].prev = 0
    <3>1. ASSUME NEW k \in TrunkDeltas(u) PROVE FALSE
      <4>1. k \in TrunkDeltas(t) /\ k # seq
        BY <1>2, <3>1
      <4>2. k < seq /\ k > 0
        BY <2>1, <2>2, <2>3, <4>1
      <4> QED
        BY <2>5, <2>7, <2>3, <4>1, <4>2
    <3>2. {a \in CurrentSids(u) : OnTrunk(a)} = {}
      BY <3>1 DEF CurrentSids, TrunkDeltas
    <3>3. HighestRelease(u) = NullSid
      BY <3>2, Zenon DEF HighestRelease
    <3>4. NullSid \notin DeltaSids
      BY DeltaSidFacts DEF NullSid
    <3>5. FindDelta(u, NullSid) = 0
      BY <1>2, <3>4, TableFacts, FindDeltaFinds
    <3> QED
      BY <2>4, <2>7, <3>3, <3>5
  <2> QED
    BY <2>6, <2>7
<1>5. ASSUME ~OnTrunk(id) PROVE HighestRelease(u) = HighestRelease(t)
  <2>1. TrunkSids(u) = TrunkSids(t)
    BY <1>2, <1>5 DEF TrunkSids
  <2> QED
    BY <2>1, SameHighest
<1> QED
  BY <1>4, <1>5 DEF u, seq

-----------------------------------------------------------------------------
(* The last get of deledit and branch: -t and no -r.                       *)

\* It goes from the youngest delta to the first one of the highest release.
LEMMA TopRequest ==
  ASSUME NEW t, TableInv(t), Len(t) \in CurrentDeltas(t)
  PROVE  LET got == FindRequestedSid(t, NullSid, TRUE, NullSid)
         IN  got = t[Len(t)].sid \/ Release(t[Len(t)].sid) < Release(got)
<1> DEFINE n == Len(t)
           high == HighestRelease(t)
           R == Release(high)
           want == <<R, 0, 0, 0>>
           F == RequestedLoop(t, want, TRUE)
           got == FindRequestedSid(t, NullSid, TRUE, NullSid)
<1>0. t \in Tables /\ n \in Nat /\ n >= 1
  BY TableEntry DEF TableInv
<1>1. high \in CurrentSids(t) /\ \A i \in CurrentDeltas(t) : Release(t[i].sid) <= R
  BY ReleaseAtMost
<1>2. R \in Nat /\ R > 0
  BY <1>0, <1>1, TableFacts, DeltaSidFacts DEF Release, SidTuples
<1>3. Sought(t, NullSid, NullSid) = want
  BY DEF Sought, IsNull, NullSid
<1>4. got = F[1].best
  BY <1>3, RequestedIsLoop
<1>5. /\ F \in [1..(n + 1) -> [best : CurrentSids(t) \cup {NullSid}, stop : BOOLEAN]]
      /\ F[n + 1] = [best |-> NullSid, stop |-> FALSE]
      /\ \A i \in 1..n : F[i] = RequestedStep(t, want, TRUE, i, F[i + 1])
  BY <1>0, LoopFindsCurrent
<1> HIDE DEF F, R, high
<1>6. Components(want) = 1 /\ WantedComponents(want, TRUE) = 1
  BY <1>2 DEF Components, IsNull, WantedComponents
<1>7. \A id : SidMatches(want, id, TRUE) <=> Release(id) <= R
  BY <1>6 DEF SidMatches, Release
<1>8. \A id : Matches(id, want, 1) <=> Release(id) = R
  BY <1>2 DEF Matches, Release
<1> HIDE DEF want
<1>9. ASSUME NEW i \in 1..n
      PROVE  LET better == /\ ~F[i + 1].stop /\ t[i].type = "D" /\ Release(t[i].sid) <= R
                           /\ F[i + 1].best = NullSid \/ Gte(t[i].sid, F[i + 1].best)
             IN  /\ better => F[i].best = t[i].sid /\ (F[i].stop <=> Release(t[i].sid) = R)
                 /\ ~better => F[i] = F[i + 1]
  <2> DEFINE matches == TRUE /\ Matches(t[i].sid, want, WantedComponents(want, TRUE))
  <2>1. F[i] = RequestedStep(t, want, TRUE, i, F[i + 1])
    BY <1>5
  <2>2. SidMatches(want, t[i].sid, TRUE) <=> Release(t[i].sid) <= R
    BY <1>7
  <2>3. matches <=> Release(t[i].sid) = R
    BY <1>6, <1>8
  <2>4. CASE /\ ~F[i + 1].stop /\ t[i].type = "D" /\ Release(t[i].sid) <= R
             /\ F[i + 1].best = NullSid \/ Gte(t[i].sid, F[i + 1].best)
    <3>1. F[i] = [best |-> t[i].sid, stop |-> matches]
      BY <2>1, <2>2, <2>4 DEF RequestedStep
    <3>2. F[i].best = t[i].sid /\ F[i].stop = matches
      BY <3>1
    <3> QED
      BY <2>3, <2>4, <3>2
  <2>5. CASE ~(/\ ~F[i + 1].stop /\ t[i].type = "D" /\ Release(t[i].sid) <= R
               /\ F[i + 1].best = NullSid \/ Gte(t[i].sid, F[i + 1].best))
    BY <2>1, <2>2, <2>5 DEF RequestedStep
  <2> QED
    BY <2>4, <2>5
\* The search stops at the first delta of the highest release.
<1>10. ASSUME NEW k \in 1..(n + 1), F[k].stop
       PROVE  F[1] = F[k]
  <2> DEFINE S == {i \in 1..k : F[i] = F[k]}
  <2>1. k - 1 \in Nat /\ (k - 1) + 1 = k /\ 1 \in 1..k
    BY <1>0
  <2>2. k \in S
    BY <2>1
  <2>3. ASSUME NEW i \in 1..(k - 1), i + 1 \in S PROVE i \in S
    <3>1. i \in 1..n /\ i \in 1..k /\ F[i + 1].stop
      BY <1>0, <1>10, <2>3
    <3> QED
      BY <1>9, <2>3, <3>1
  <2>4. \A i \in 1..k : i \in S
    <3> HIDE DEF S
    <3> QED
      BY <2>1, <2>2, <2>3, DownwardInduction
  <2> QED
    BY <2>1, <2>4
\* It stops when it has found one, and only then.
<1>11. ASSUME NEW k \in 1..(n + 1)
       PROVE  IF F[k].stop THEN Release(F[k].best) = R
              ELSE F[k].best = NullSid \/ Release(F[k].best) < R
  <2> DEFINE S == {i \in 1..(n + 1) : IF F[i].stop THEN Release(F[i].best) = R
                                     ELSE F[i].best = NullSid \/ Release(F[i].best) < R}
  <2>1. n + 1 \in S
    BY <1>0, <1>5
  <2>2. ASSUME NEW i \in 1..n, i + 1 \in S PROVE i \in S
    <3>1. i \in 1..(n + 1) /\ t[i].sid \in SidTuples /\ Release(t[i].sid) \in Nat
      BY <1>0, TableFacts, DeltaSidFacts DEF DeltaRecords, Release, SidTuples
    <3>2. CASE F[i] = F[i + 1]
      BY <2>2, <3>1, <3>2
    <3>3. CASE /\ F[i].best = t[i].sid /\ (F[i].stop <=> Release(t[i].sid) = R)
               /\ Release(t[i].sid) <= R
      BY <1>2, <3>1, <3>3
    <3> QED
      BY <1>9, <3>2, <3>3
  <2>3. \A i \in 1..(n + 1) : i \in S
    <3> HIDE DEF S
    <3> QED
      BY <1>0, <2>1, <2>2, DownwardInduction
  <2> QED
    BY <2>3
<1>12. n \in 1..n /\ n \in CurrentDeltas(t) /\ t[n].type = "D" /\ Release(t[n].sid) <= R
  BY <1>0, <1>1 DEF CurrentDeltas
<1>13. CASE Release(t[n].sid) = R
  <2>1. F[n].best = t[n].sid /\ F[n].stop
    BY <1>5, <1>9, <1>12, <1>13
  <2>2. F[1] = F[n]
    BY <1>0, <1>10, <2>1
  <2> QED
    BY <1>4, <2>1, <2>2
<1>14. CASE Release(t[n].sid) # R
  <2> DEFINE h == FindDelta(t, high)
  <2>1. h \in CurrentDeltas(t) /\ t[h].sid = high
    BY <1>0, <1>1, FindDeltaFinds
  <2> HIDE DEF h
  <2>2. /\ h \in 1..n /\ h \in 1..(n + 1) /\ h + 1 \in 1..(n + 1) /\ t[h].type = "D"
        /\ Release(t[h].sid) = R /\ t[h].sid \in SidTuples
    BY <1>0, <2>1, TableEntry DEF CurrentDeltas, R
  <2>3. F[h].stop
    <3>1. CASE F[h + 1].stop
      BY <1>9, <2>2, <3>1
    <3>2. CASE ~F[h + 1].stop
      <4>1. F[h + 1].best = NullSid \/ Release(F[h + 1].best) < R
        BY <1>11, <2>2, <3>2
      <4>2. F[h + 1].best = NullSid \/ F[h + 1].best \in SidTuples
        BY <1>0, <1>5, <2>2, TableFacts, DeltaSidFacts
      <4>3. F[h + 1].best = NullSid \/ Gte(t[h].sid, F[h + 1].best)
        BY <2>2, <4>1, <4>2 DEF Gte, Release, SidTuples
      <4> QED
        BY <1>2, <1>9, <2>2, <3>2, <4>3
    <3> QED
      BY <3>1, <3>2
  <2>4. F[1] = F[h] /\ Release(F[h].best) = R
    BY <1>10, <1>11, <2>2, <2>3
  <2>5. Release(t[n].sid) \in Nat
    BY <1>0, <1>12, TableEntry DEF Release, SidTuples
  <2>6. Release(got) = R
    BY <1>4, <2>4
  <2>7. Release(t[n].sid) < R
    BY <1>2, <1>12, <1>14, <2>5
  <2> QED
    BY <2>6, <2>7, Zenon
<1> QED
  BY <1>13, <1>14

\* The last get of fix: neither -t nor -r.
LEMMA PlainRequest ==
  ASSUME NEW t, TableInv(t), ~IsNull(FindRequestedSid(t, NullSid, FALSE, NullSid))
  PROVE  FindRequestedSid(t, NullSid, FALSE, NullSid) = HighestRelease(t)
<1> DEFINE got == FindRequestedSid(t, NullSid, FALSE, NullSid)
           high == HighestRelease(t)
           want == <<Release(high), 0, 0, 0>>
<1>0. t \in Tables
  BY DEF TableInv
<1>1. Sought(t, NullSid, NullSid) = want
  BY DEF Sought, IsNull, NullSid
<1>2. got \in CurrentSids(t)
  <2>1. got \in CurrentSids(t) \cup {NullSid}
    BY <1>0, RequestedIsCurrent
  <2>2. IsNull(NullSid)
    BY DEF IsNull, NullSid
  <2> QED
    BY <2>1, <2>2
<1>3. high \in CurrentSids(t) /\ OnTrunk(high)
  <2>1. PICK i \in CurrentDeltas(t) : t[i].sid = got
    BY <1>2 DEF CurrentSids
  <2> QED
    BY <2>1, ReleaseAtMost
<1>4. /\ SidMatches(want, got, FALSE)
      /\ \A id \in CurrentSids(t) : SidMatches(want, id, FALSE) => Gte(got, id)
  BY <1>0, <1>1, RequestedIsBest
<1> HIDE DEF got, high
<1>5. high \in DeltaSids /\ high[1] \in Nat /\ high[1] > 0 /\ got \in DeltaSids
  <2>1. high \in DeltaSids /\ got \in DeltaSids
    BY <1>0, <1>2, <1>3, TableFacts
  <2> QED
    BY <2>1, DeltaSidFacts DEF SidTuples
<1>6. Components(want) = 1
  BY <1>5 DEF Components, IsNull, Release
<1>7. \A id : SidMatches(want, id, FALSE) <=> Release(id) <= Release(high) /\ OnTrunk(id)
  BY <1>6 DEF SidMatches, Release
<1>8. Gte(got, high)
  <2>1. SidMatches(want, high, FALSE)
    <3>1. Release(high) <= Release(high)
      BY <1>5 DEF Release
    <3> QED
      BY <1>3, <1>7, <3>1
  <2> HIDE DEF want
  <2> QED
    BY <1>3, <1>4, <2>1
<1>9. OnTrunk(got)
  BY <1>4, <1>7
<1>10. Gte(high, got)
  BY <1>0, <1>2, <1>9, HighestIsHighest DEF high
<1>11. got = high
  BY <1>3, <1>5, <1>8, <1>9, <1>10, TrunkEqual
<1> QED
  BY <1>11 DEF got, high

-----------------------------------------------------------------------------
(* The SID that get -e reserves.                                           *)

\* What get -e asks find_next_sid for: the delta it retrieves, or a release that has none
\* yet and follows it.
FrontRequest(t, rid, got) ==
  LET asked == EditRequest(rid, got)
  IN  /\ got \in CurrentSids(t)
      /\ \/ asked = got
         \/ /\ asked \in WellFormed /\ ReleaseOnly(asked)
            /\ OnTrunk(got) /\ Release(got) < Release(asked)
            /\ \A a \in CurrentSids(t) :
                 OnTrunk(a) /\ Release(a) <= Release(asked) => Gte(got, a)

Typed(t) == {NullSid} \cup CurrentSids(t) \cup {<<r, 0, 0, 0>> : r \in Nat}

LEMMA RequestFacts ==
  ASSUME NEW t \in Tables, NEW rid \in Typed(t), NEW top \in BOOLEAN, top => rid = NullSid,
         ~IsNull(FindRequestedSid(t, rid, top, NullSid))
  PROVE  LET got == FindRequestedSid(t, rid, top, NullSid)
         IN  /\ FrontRequest(t, rid, got)
             /\ rid \in CurrentSids(t) => got = rid
<1> DEFINE got == FindRequestedSid(t, rid, top, NullSid)
<1>1. got \in CurrentSids(t) \cup {NullSid}
  BY RequestedIsCurrent
<1>2. IsNull(NullSid)
  BY DEF IsNull, NullSid
<1>3. got \in CurrentSids(t)
  BY <1>1, <1>2
<1>4. CurrentSids(t) \subseteq DeltaSids
  BY TableFacts
<1>5. \A id \in DeltaSids : id \in WellFormed /\ ~IsNull(id) /\ ~PartialSid(id) /\ ~ReleaseOnly(id)
  BY DeltaSidFacts DEF DeltaSids, IsNull, PartialSid, ReleaseOnly, SidTuples
<1>6. CASE IsNull(rid)
  <2>1. EditRequest(rid, got) = got
    BY <1>6 DEF EditRequest
  <2>2. rid \notin CurrentSids(t)
    BY <1>4, <1>5, <1>6
  <2> QED
    BY <1>3, <2>1, <2>2 DEF FrontRequest
<1>7. CASE rid \in CurrentSids(t)
  <2>1. rid # NullSid /\ top = FALSE /\ rid \in WellFormed /\ ~IsNull(rid) /\ ~PartialSid(rid)
    BY <1>2, <1>4, <1>5, <1>7
  <2>2. got = rid
    BY <2>1, RetrievedIs
  <2> HIDE DEF got
  <2>3. EditRequest(rid, got) = got
    BY <2>2 DEF EditRequest
  <2> QED
    BY <1>3, <2>2, <2>3 DEF FrontRequest, got
<1>8. CASE ~IsNull(rid) /\ rid \notin CurrentSids(t)
  <2>1. PICK r \in Nat : rid = <<r, 0, 0, 0>>
    BY <1>2, <1>8 DEF Typed
  <2>2. rid \in WellFormed /\ ReleaseOnly(rid) /\ top = FALSE /\ Release(rid) = r
    BY <1>2, <1>8, <2>1 DEF WellFormed, SidTuples, ReleaseOnly, IsNull, Release
  <2>3. /\ OnTrunk(got) /\ Release(got) <= Release(rid)
        /\ \A a \in CurrentSids(t) :
             OnTrunk(a) /\ Release(a) <= Release(rid) => Gte(got, a)
    BY <1>8, <2>2, RetrievedIs
  <2>4. Release(got) \in Nat
    BY <1>3, <1>4, TrunkSid
  <2> HIDE DEF got
  <2>5. CASE Release(got) = Release(rid)
    <3>1. EditRequest(rid, got) = got
      BY <1>8, <2>2, <2>5 DEF EditRequest
    <3> QED
      BY <1>3, <1>8, <3>1 DEF FrontRequest, got
  <2>6. CASE Release(got) # Release(rid)
    <3>1. EditRequest(rid, got) = rid /\ Release(got) < Release(rid)
      BY <1>8, <2>2, <2>3, <2>4, <2>6 DEF EditRequest
    <3> QED
      BY <1>3, <1>8, <2>2, <2>3, <3>1 DEF FrontRequest, got
  <2> QED
    BY <2>5, <2>6
<1> QED
  BY <1>6, <1>7, <1>8

\* The successor of a delta of the trunk that has a higher one in its release is current.
LEMMA SuccessorIsCurrent ==
  ASSUME NEW t, TableInv(t), NEW got \in CurrentSids(t), OnTrunk(got),
         Release(got) >= Release(HighestRelease(t)), got # HighestRelease(t)
  PROVE  Increment(got) \in CurrentSids(t)
<1> DEFINE i == FindDelta(t, got)
           top == FindDelta(t, HighestRelease(t))
           S == {j \in TrunkDeltas(t) : j > i}
<1>0. t \in Tables
  BY DEF TableInv
<1>1. i \in CurrentDeltas(t) /\ t[i].sid = got
  BY <1>0, FindDeltaFinds
<1>2. i \in TrunkDeltas(t)
  BY <1>1 DEF TrunkDeltas
<1>3. top \in TrunkDeltas(t) /\ t[top].sid = HighestRelease(t) /\ \A k \in TrunkDeltas(t) : k <= top
  BY <1>2, HighestIsLast
<1>4. \A k \in TrunkDeltas(t) : /\ k \in CurrentDeltas(t) /\ k \in Nat /\ t[k].prev \in Nat /\ t[k].prev < k
                                /\ t[k].sid \in DeltaSids /\ t[k].sid \in SidTuples /\ k > 0
                                /\ t[k].sid \in CurrentSids(t) /\ OnTrunk(t[k].sid)
  BY <1>0, TableEntry DEF TrunkDeltas
<1>5. top \in S
  BY <1>1, <1>2, <1>3, <1>4
<1> HIDE DEF i, top
<1>6. S \subseteq Nat
  BY <1>4
<1>7. PICK j \in S : \A k \in S : j <= k
  BY <1>5, <1>6, LeastNumber
<1>8. /\ i <= t[j].prev
      /\ t[j].prev # 0 => t[j].prev \in TrunkDeltas(t) /\ Follows(t[j].sid, t[t[j].prev].sid)
  BY <1>2, <1>7 DEF TableInv, Chain
<1>9. t[j].prev = i
  <2>1. t[j].prev # 0 /\ t[j].prev < j
    BY <1>2, <1>4, <1>7, <1>8
  <2>2. t[j].prev \notin S
    BY <1>4, <1>7, <2>1
  <2> QED
    BY <1>2, <1>4, <1>7, <1>8, <2>1, <2>2
<1>10. Follows(t[j].sid, got)
  BY <1>1, <1>2, <1>4, <1>8, <1>9
<1>11. Gte(HighestRelease(t), t[j].sid) /\ HighestRelease(t) \in SidTuples
  BY <1>0, <1>3, <1>4, <1>7, HighestIsHighest
<1>12. j \in TrunkDeltas(t)
  BY <1>7
<1>13. t[j].sid[3] = 0 /\ t[j].sid[4] = 0 /\ got[3] = 0 /\ got[4] = 0 /\ got \in DeltaSids
  BY <1>1, <1>2, <1>4, <1>12, TrunkSid
<1>14. Increment(got) = <<got[1], got[2] + 1, 0, 0>>
  BY <1>13, IncrementType
<1>15. t[j].sid = <<got[1], got[2] + 1, 0, 0>>
  <2>1. got \in SidTuples /\ t[j].sid \in SidTuples
    BY <1>1, <1>2, <1>4, <1>12
  <2> QED
    BY <1>10, <1>11, <1>13, <2>1 DEF Follows, Gte, SidTuples, Release
<1> QED
  BY <1>4, <1>12, <1>14, <1>15

LEMMA FindAnyIs ==
  ASSUME NEW t, TableInv(t), NEW i \in CurrentDeltas(t)
  PROVE  FindAny(t, t[i].sid) = i
<1> DEFINE S == {j \in DOMAIN t : t[j].sid = t[i].sid}
<1>1. t \in Tables /\ DOMAIN t = 1..Len(t) /\ i \in DOMAIN t
  BY TableFacts DEF TableInv
<1>2. i \in S /\ \A j \in S : j <= i
  BY <1>1 DEF TableInv, Youngest
<1>3. S \subseteq Nat
  BY <1>1
<1> HIDE DEF S
<1>4. \A k \in S : (\A j \in S : j <= k) => k = i
  BY <1>2, <1>3
<1>5. (CHOOSE k \in S : \A j \in S : j <= k) = i
  BY <1>2, <1>4
<1> QED
  BY <1>2, <1>5 DEF FindAny, S

LEMMA TameNext ==
  ASSUME NEW t, TableInv(t), NEW locks, IsFiniteSet(locks), NEW rid, NEW got,
         FrontRequest(t, rid, got), NEW wantBranch \in BOOLEAN,
         FindNextSid(t, locks, EditRequest(rid, got), got, wantBranch, Flags).ok
  PROVE  LET next == FindNextSid(t, locks, EditRequest(rid, got), got, wantBranch, Flags).next
         IN  next \in DeltaSids /\ Tame(t, got, next)
<1> DEFINE asked == EditRequest(rid, got)
           idea == FirstIdea(t, locks, asked, got)
           from == IF wantBranch /\ Components(asked) >= 4 THEN idea ELSE got
           taken == CurrentSids(t)
           next == FindNextSid(t, locks, asked, got, wantBranch, Flags).next
           high == HighestRelease(t)
<1>0. t \in Tables
  BY DEF TableInv
<1>1. got \in CurrentSids(t) /\ got \in DeltaSids
  BY <1>0, TableFacts DEF FrontRequest
<1>2. /\ got \in SidTuples /\ got \in WellFormed /\ ~IsNull(got)
      /\ ~PartialSid(got) /\ ~ReleaseOnly(got) /\ Components(got) \in {2, 4}
      /\ got[1] \in Nat /\ Release(got) = got[1]
  BY <1>1, DeltaSidFacts DEF DeltaSids, IsNull, PartialSid, ReleaseOnly, SidTuples, Release
<1>3. \/ asked = got
      \/ /\ asked \in WellFormed /\ ReleaseOnly(asked)
         /\ OnTrunk(got) /\ Release(got) < Release(asked)
         /\ \A a \in CurrentSids(t) :
              OnTrunk(a) /\ Release(a) <= Release(asked) => Gte(got, a)
  BY DEF FrontRequest
<1> HIDE DEF asked
<1>4. asked \in WellFormed /\ ~IsNull(asked) /\ asked[1] \in Nat /\ asked[1] > 0 /\ Release(asked) = asked[1]
  <2>1. CASE asked = got
    BY <1>2, <2>1 DEF IsNull, Release
  <2>2. CASE asked \in WellFormed /\ ReleaseOnly(asked)
    BY <2>2, WellFormedFacts DEF ReleaseOnly, IsNull, Release
  <2> QED
    BY <1>3, <2>1, <2>2
<1>5. ReleaseOnly(asked) => Components(asked) = 1
  BY <1>4 DEF ReleaseOnly, Components
<1>6. /\ Flags.default = NullSid /\ Flags.default \in WellFormed /\ IsNull(Flags.default)
      /\ Flags.branch = TRUE /\ Flags.joint = FALSE
  BY DEF Flags, NullSid, WellFormed, SidTuples, IsNull
<1>7. /\ next \in DeltaSids
      /\ \/ next = FreeBranch(NextBranch(from), taken) /\ from \in DeltaSids
         \/ /\ next = idea
            /\ ~Collides(t, locks, asked, idea, Flags)
            /\ ~(Components(asked) < 3 /\ Release(got) < Release(high))
      /\ IsFiniteSet(taken)
  <2>1. FindNextSid(t, locks, asked, got, wantBranch, Flags).ok
    BY DEF asked
  <2> QED
    BY <1>0, <1>1, <1>4, <1>6, <2>1, NextSidCases
<1>8. /\ ReleaseOnly(asked) => \E k \in Nat : idea = <<asked[1], 1 + k, 0, 0>>
      /\ asked = got => idea = Increment(got)
  BY <1>0, <1>1, <1>2, <1>4, FirstIdeaType
<1> HIDE DEF idea, taken, next, high
<1>9. from = got \/ from = Increment(got)
  BY <1>3, <1>5, <1>8
<1>10. CASE next = FreeBranch(NextBranch(from), taken) /\ from \in DeltaSids
  <2> HIDE DEF from
  <2>1. PICK k \in Nat : next = <<from[1], from[2], from[3] + 1 + k, 1>>
    BY <1>7, <1>10, NewBranch
  <2>2. from[1] = got[1]
    BY <1>1, <1>9, IncrementType
  <2>3. Release(next) = Release(got) /\ next[4] = 1
    BY <2>1, <2>2 DEF Release
  <2>4. ~OnTrunk(next)
    BY <1>7, <2>3, TrunkSid
  <2> QED
    BY <1>7, <2>3, <2>4 DEF Tame, next, asked
\* On the trunk, the delta that is retrieved is the last one.
<1>11. PICK i \in CurrentDeltas(t) : t[i].sid = got
  BY <1>1 DEF CurrentSids
<1>12. /\ high \in CurrentSids(t) /\ OnTrunk(high) /\ high \in DeltaSids /\ high \in SidTuples
       /\ high[1] \in Nat /\ Release(high) = high[1]
  <2>1. high \in CurrentSids(t) /\ OnTrunk(high)
    BY <1>11, ReleaseAtMost DEF high
  <2>2. high \in DeltaSids
    BY <1>0, <2>1, TableFacts
  <2> QED
    BY <2>1, <2>2, TrunkSid DEF SidTuples
<1>13. CASE /\ next = idea
            /\ ~Collides(t, locks, asked, idea, Flags)
            /\ ~(Components(asked) < 3 /\ Release(got) < Release(high))
  <2>1. CASE asked = got /\ ~OnTrunk(got)
    <3>1. got[3] # 0 /\ Increment(got) \in DeltaSids
      BY <1>1, <2>1, TrunkSid, IncrementType
    <3>2. next = <<got[1], got[2], got[3], got[4] + 1>>
      BY <1>1, <1>8, <1>13, <2>1, <3>1, IncrementType
    <3>3. ~OnTrunk(next) /\ Release(next) = Release(got)
      BY <1>2, <1>7, <3>1, <3>2, TrunkSid DEF Release
    <3> QED
      BY <1>7, <3>3 DEF Tame, next, asked
  <2>2. CASE asked = got /\ OnTrunk(got)
    <3>1. Components(got) = 2
      BY <2>2 DEF OnTrunk
    <3>2. Release(got) >= Release(high)
      BY <1>2, <1>12, <1>13, <2>2, <3>1
    <3>3. got = high
      <4> SUFFICES ASSUME got # high PROVE FALSE
        OBVIOUS
      <4>1. idea \in CurrentSids(t)
        BY <1>1, <1>8, <2>2, <3>2, SuccessorIsCurrent DEF high
      <4>2. PICK j \in CurrentDeltas(t) : t[j].sid = idea
        BY <4>1 DEF CurrentSids
      <4>3. FindAny(t, idea) = j /\ j # 0 /\ t[j].type = "D"
        BY <1>0, <4>2, FindAnyIs, TableEntry DEF CurrentDeltas
      <4>4. Collides(t, locks, asked, idea, Flags)
        BY <1>2, <2>2, <4>3 DEF Collides
      <4> QED
        BY <1>13, <4>4
    <3>4. got[3] = 0
      BY <1>1, <2>2, TrunkSid
    <3>5. next = <<got[1], got[2] + 1, 0, 0>>
      BY <1>1, <1>8, <1>13, <2>2, <3>4, IncrementType
    <3>6. OnTrunk(next) /\ Follows(next, got)
      BY <1>2, <1>7, <3>5, TrunkSid DEF Follows
    <3> QED
      BY <1>7, <3>3, <3>6 DEF Tame, next, asked, high
  <2>3. CASE asked # got
    <3>1. /\ ReleaseOnly(asked) /\ OnTrunk(got) /\ Release(got) < Release(asked)
          /\ \A a \in CurrentSids(t) :
               OnTrunk(a) /\ Release(a) <= Release(asked) => Gte(got, a)
      BY <1>3, <2>3
    <3>2. ~(Release(got) < Release(high))
      BY <1>5, <1>13, <3>1
    <3>3. Gte(got, high)
      BY <1>2, <1>4, <1>12, <3>1, <3>2
    <3>4. Gte(high, got)
      BY <1>0, <1>1, <3>1, HighestIsHighest DEF high
    <3>5. got = high
      BY <1>1, <1>12, <3>1, <3>3, <3>4, TrunkEqual
    <3>6. PICK k \in Nat : next = <<asked[1], 1 + k, 0, 0>>
      BY <1>8, <1>13, <3>1
    <3>7. OnTrunk(next) /\ Follows(next, got)
      BY <1>2, <1>4, <1>7, <3>1, <3>6, TrunkSid DEF Follows
    <3> QED
      BY <1>7, <3>5, <3>7 DEF Tame, next, asked, high
  <2> QED
    BY <2>1, <2>2, <2>3
<1> QED
  BY <1>7, <1>10, <1>13

-----------------------------------------------------------------------------
(* What a user's command may have left to do.                              *)

One(prog, opts) == <<Step(prog, opts, NullSid)>>
EditAgain == One("get", {"e", "t", "g"})
FixAgain == One("get", {"e", "g"})
RestOfBranch == <<Step("delta", {"n"}, NullSid), Step("get", {"e", "t", "g"}, NullSid)>>
RestOfFix(rid) == <<Step("rmdel", {}, rid), Step("get", {"e", "g"}, NullSid)>>

Plans ==
  {<<>>, One("get", {}), One("get", {"t"}), EditAgain, FixAgain, RestOfBranch,
   One("unedit_p", {}), One("unedit_write", {}), One("unedit_g", {})}
    \cup {One("clean_g", opts) : opts \in SUBSET {"b"}}
    \cup {RestOfFix(rid) : rid \in DeltaSids}

Is(steps, prog) == steps # <<>> /\ Head(steps).prog = prog
Edits(steps) == \E i \in DOMAIN steps : "e" \in steps[i].opts

LEMMA StepParts ==
  ASSUME NEW prog, NEW opts, NEW rid
  PROVE  /\ Step(prog, opts, rid).prog = prog /\ Step(prog, opts, rid).opts = opts
         /\ Step(prog, opts, rid).rid = rid
BY DEF Step

LEMMA SingleParts ==
  ASSUME NEW prog, NEW opts, NEW rid
  PROVE  LET p == <<Step(prog, opts, rid)>>
         IN  /\ p # <<>> /\ Len(p) = 1 /\ Tail(p) = <<>>
             /\ Head(p).prog = prog /\ Head(p).opts = opts /\ Head(p).rid = rid
             /\ \A other : Is(p, other) <=> other = prog
             /\ Edits(p) <=> "e" \in opts
<1> DEFINE s == Step(prog, opts, rid)
           p == <<s>>
<1>1. s.prog = prog /\ s.opts = opts /\ s.rid = rid
  BY StepParts
<1> HIDE DEF s
<1>2. p # <<>> /\ Len(p) = 1 /\ Tail(p) = <<>> /\ Head(p) = s /\ DOMAIN p = {1} /\ p[1] = s
  OBVIOUS
<1> HIDE DEF p
<1>3. Head(p).prog = prog /\ Head(p).opts = opts /\ Head(p).rid = rid
  BY <1>1, <1>2
<1>4. \A other : Is(p, other) <=> other = prog
  BY <1>2, <1>3 DEF Is
<1>5. Edits(p) <=> "e" \in opts
  BY <1>1, <1>2 DEF Edits
<1> QED
  BY <1>2, <1>3, <1>4, <1>5 DEF p, s

LEMMA DoubleParts ==
  ASSUME NEW prog, NEW opts, NEW rid, NEW s, "e" \in s.opts
  PROVE  LET p == <<Step(prog, opts, rid), s>>
         IN  /\ p # <<>> /\ Len(p) = 2 /\ Tail(p) = <<s>>
             /\ Head(p).prog = prog /\ Head(p).opts = opts /\ Head(p).rid = rid
             /\ \A other : Is(p, other) <=> other = prog
             /\ Edits(p)
<1> DEFINE q == Step(prog, opts, rid)
           p == <<q, s>>
<1>1. q.prog = prog /\ q.opts = opts /\ q.rid = rid
  BY StepParts
<1> HIDE DEF q
<1>2. p # <<>> /\ Len(p) = 2 /\ Tail(p) = <<s>> /\ Head(p) = q /\ 2 \in DOMAIN p /\ p[2] = s
  OBVIOUS
<1> HIDE DEF p
<1>3. Head(p).prog = prog /\ Head(p).opts = opts /\ Head(p).rid = rid
  BY <1>1, <1>2
<1>4. \A other : Is(p, other) <=> other = prog
  BY <1>2, <1>3 DEF Is
<1>5. Edits(p)
  BY <1>2 DEF Edits
<1> QED
  BY <1>2, <1>3, <1>4, <1>5 DEF p, q

\* A plan is known by its first program.
LEMMA PlanParts ==
  /\ Len(<<>>) = 0 /\ ~Edits(<<>>) /\ \A prog : ~Is(<<>>, prog)
  /\ \A prog, opts :
       /\ One(prog, opts) # <<>> /\ Len(One(prog, opts)) = 1 /\ Tail(One(prog, opts)) = <<>>
       /\ Head(One(prog, opts)).prog = prog /\ Head(One(prog, opts)).opts = opts
       /\ Head(One(prog, opts)).rid = NullSid
       /\ \A other : Is(One(prog, opts), other) <=> other = prog
       /\ Edits(One(prog, opts)) <=> "e" \in opts
  /\ RestOfBranch # <<>> /\ Len(RestOfBranch) = 2 /\ Tail(RestOfBranch) = EditAgain
  /\ Head(RestOfBranch).prog = "delta" /\ Head(RestOfBranch).opts = {"n"}
  /\ Edits(RestOfBranch) /\ \A other : Is(RestOfBranch, other) <=> other = "delta"
  /\ \A rid :
       /\ RestOfFix(rid) # <<>> /\ Len(RestOfFix(rid)) = 2 /\ Tail(RestOfFix(rid)) = FixAgain
       /\ Head(RestOfFix(rid)).prog = "rmdel" /\ Head(RestOfFix(rid)).opts = {}
       /\ Head(RestOfFix(rid)).rid = rid
       /\ Edits(RestOfFix(rid)) /\ \A other : Is(RestOfFix(rid), other) <=> other = "rmdel"
<1>1. Len(<<>>) = 0 /\ ~Edits(<<>>) /\ \A prog : ~Is(<<>>, prog)
  BY DEF Edits, Is
<1>2. ASSUME NEW prog, NEW opts
      PROVE  /\ One(prog, opts) # <<>> /\ Len(One(prog, opts)) = 1 /\ Tail(One(prog, opts)) = <<>>
             /\ Head(One(prog, opts)).prog = prog /\ Head(One(prog, opts)).opts = opts
             /\ Head(One(prog, opts)).rid = NullSid
             /\ \A other : Is(One(prog, opts), other) <=> other = prog
             /\ Edits(One(prog, opts)) <=> "e" \in opts
  BY SingleParts DEF One
<1>3. /\ "e" \in Step("get", {"e", "t", "g"}, NullSid).opts
      /\ "e" \in Step("get", {"e", "g"}, NullSid).opts
  BY StepParts
<1>4. /\ RestOfBranch # <<>> /\ Len(RestOfBranch) = 2 /\ Tail(RestOfBranch) = EditAgain
      /\ Head(RestOfBranch).prog = "delta" /\ Head(RestOfBranch).opts = {"n"}
      /\ Edits(RestOfBranch) /\ \A other : Is(RestOfBranch, other) <=> other = "delta"
  BY <1>3, DoubleParts DEF RestOfBranch, EditAgain, One
<1>5. ASSUME NEW rid
      PROVE  /\ RestOfFix(rid) # <<>> /\ Len(RestOfFix(rid)) = 2 /\ Tail(RestOfFix(rid)) = FixAgain
             /\ Head(RestOfFix(rid)).prog = "rmdel" /\ Head(RestOfFix(rid)).opts = {}
             /\ Head(RestOfFix(rid)).rid = rid
             /\ Edits(RestOfFix(rid)) /\ \A other : Is(RestOfFix(rid), other) <=> other = "rmdel"
  BY <1>3, DoubleParts DEF RestOfFix, FixAgain, One
<1> QED
  BY <1>1, <1>2, <1>4, <1>5

EditLock == [user : Users, got : DeltaSids, delta : DeltaSids]
LockSets == {s \in SUBSET EditLock : IsFiniteSet(s)}
GFiles == [text : Nat, writable : BOOLEAN]

TypeInv ==
  /\ table \in Tables
  /\ pfile \in LockSets \cup {Absent}
  /\ gfile \in [Users -> GFiles \cup {Absent}]
  /\ \A u \in Users : gfile[u] # Absent => gfile[u] \in GFiles /\ gfile[u].text <= Len(table)
  /\ cmd \in [Users -> [steps : Plans, seen : LockSets \cup {Absent}]]
  /\ \A u \in Users : Is(cmd[u].steps, "unedit_p") \/ Is(cmd[u].steps, "unedit_write") =>
                        cmd[u].seen \in LockSets
  /\ passed \in [Users -> BOOLEAN] /\ botched \in [Users -> BOOLEAN]
  /\ damaged \in BOOLEAN /\ failures \in 0..MaxFailures

BranchPlan(rid) ==
  <<Step("get", {"e", "b"}, rid), Step("delta", {"n"}, NullSid), Step("get", {"e", "t", "g"}, NullSid)>>
FixPlan(rid) ==
  <<Step("get", {"k"}, rid), Step("rmdel", {}, rid), Step("get", {"e", "g"}, NullSid)>>
DelgetPlan == <<Step("delta", {}, NullSid), Step("get", {"t"}, NullSid)>>

\* What a program may be run with: first the ones that begin a command.
Begun(todo) ==
  \/ \E rid \in Typed(table) : todo = <<Step("get", {"e"}, rid)>> \/ todo = BranchPlan(rid)
  \/ \E rid \in CurrentSids(table) : todo = <<Step("rmdel", {}, rid)>> \/ todo = FixPlan(rid)
  \/ todo \in {One("get", {}), One("delta", {}), One("unget", {}), One("unedit", {})}
  \/ todo = DelgetPlan \/ todo = RestOfBranch
  \/ \E opts \in SUBSET {"b"} : todo = One("clean", opts)

LEMMA TodoCases ==
  ASSUME TypeInv, NEW u \in Users, NEW todo \in Todo(u)
  PROVE  \/ IsIdle(u) /\ Begun(todo)
         \/ ~IsIdle(u) /\ todo = cmd[u].steps /\ todo \in Plans
<1>1. CASE ~IsIdle(u)
  BY <1>1 DEF Todo, TypeInv
<1>2. CASE IsIdle(u)
  <2> DEFINE rids == {NullSid} \cup CurrentSids(table) \cup {<<r, 0, 0, 0>> : r \in Releases}
  <2>1. rids \subseteq Typed(table)
    BY FrontEndAssumption DEF Typed
  <2>2. \/ \E rid \in rids : todo = Macro("edit", {}, rid) \/ todo = Macro("branch", {}, rid)
        \/ \E rid \in CurrentSids(table) : todo = Macro("fix", {}, rid) \/ todo = Macro("rmdel", {}, rid)
        \/ \E name \in {"get", "delta", "delget", "deledit", "unget", "unedit"} :
             todo = Macro(name, {}, NullSid)
        \/ \E opts \in SUBSET {"b"} : todo = Macro("clean", opts, NullSid)
    <3>1. todo \in Commands
      BY <1>2 DEF Todo
    <3> HIDE DEF Macro
    <3> QED
      BY <3>1 DEF Commands
  <2> HIDE DEF rids
  <2>3. \A rid : /\ Macro("edit", {}, rid) = <<Step("get", {"e"}, rid)>>
                 /\ Macro("branch", {}, rid) = BranchPlan(rid)
                 /\ Macro("fix", {}, rid) = FixPlan(rid)
                 /\ Macro("rmdel", {}, rid) = <<Step("rmdel", {}, rid)>>
    <3>1. {"e"} \cup {} = {"e"}
      OBVIOUS
    <3> QED
      BY <3>1 DEF Macro, BranchPlan, FixPlan
  <2>4. /\ Macro("get", {}, NullSid) = One("get", {})
        /\ Macro("delta", {}, NullSid) = One("delta", {})
        /\ Macro("unget", {}, NullSid) = One("unget", {})
        /\ Macro("unedit", {}, NullSid) = One("unedit", {})
        /\ Macro("delget", {}, NullSid) = DelgetPlan
        /\ Macro("deledit", {}, NullSid) = RestOfBranch
        /\ \A opts : Macro("clean", opts, NullSid) = One("clean", opts)
    BY DEF Macro, One, DelgetPlan, RestOfBranch, Deledit
  <2> QED
    BY <1>2, <2>1, <2>2, <2>3, <2>4 DEF Begun
<1> QED
  BY <1>1, <1>2

LEMMA BegunParts ==
  /\ \A rid : /\ Head(BranchPlan(rid)).prog = "get" /\ Head(BranchPlan(rid)).opts = {"e", "b"}
              /\ Head(BranchPlan(rid)).rid = rid /\ Tail(BranchPlan(rid)) = RestOfBranch
              /\ Head(FixPlan(rid)).prog = "get" /\ Head(FixPlan(rid)).opts = {"k"}
              /\ Head(FixPlan(rid)).rid = rid /\ Tail(FixPlan(rid)) = RestOfFix(rid)
  /\ Head(DelgetPlan).prog = "delta" /\ Head(DelgetPlan).opts = {}
  /\ Tail(DelgetPlan) = One("get", {"t"})
<1>1. \A a, b, c : Head(<<a, b, c>>) = a /\ Tail(<<a, b, c>>) = <<b, c>> /\ Head(<<a, b>>) = a /\ Tail(<<a, b>>) = <<b>>
  OBVIOUS
<1> QED
  BY <1>1, StepParts DEF BranchPlan, FixPlan, RestOfBranch, RestOfFix, DelgetPlan, One

LEMMA GetJobs ==
  ASSUME TypeInv, NEW u \in Users, NEW todo \in Todo(u), At(todo, "get")
  PROVE  LET opts == Head(todo).opts
             rid == Head(todo).rid
         IN  \/ IsIdle(u) /\ rid \in Typed(table) /\ opts = {"e"} /\ Tail(todo) = <<>>
             \/ IsIdle(u) /\ rid \in Typed(table) /\ opts = {"e", "b"} /\ Tail(todo) = RestOfBranch
             \/ IsIdle(u) /\ rid \in CurrentSids(table) /\ opts = {"k"} /\ Tail(todo) = RestOfFix(rid)
             \/ opts \in {{}, {"t"}} /\ rid = NullSid /\ Tail(todo) = <<>>
             \/ cmd[u].steps = EditAgain /\ opts = {"e", "t", "g"} /\ rid = NullSid /\ Tail(todo) = <<>>
             \/ cmd[u].steps = FixAgain /\ opts = {"e", "g"} /\ rid = NullSid /\ Tail(todo) = <<>>
<1>1. Head(todo).prog = "get"
  BY DEF At
<1>2. CASE IsIdle(u) /\ Begun(todo)
  <2>1. CASE \E rid \in Typed(table) : todo = <<Step("get", {"e"}, rid)>> \/ todo = BranchPlan(rid)
    <3>1. PICK rid \in Typed(table) : todo = <<Step("get", {"e"}, rid)>> \/ todo = BranchPlan(rid)
      BY <2>1
    <3>2. CASE todo = <<Step("get", {"e"}, rid)>>
      <4>1. Head(todo).opts = {"e"} /\ Head(todo).rid = rid /\ Tail(todo) = <<>>
        BY <3>2, SingleParts
      <4> QED
        BY <1>2, <4>1
    <3>3. CASE todo = BranchPlan(rid)
      BY <1>2, <3>3, BegunParts
    <3> QED
      BY <3>1, <3>2, <3>3
  <2>2. CASE \E rid \in CurrentSids(table) : todo = <<Step("rmdel", {}, rid)>> \/ todo = FixPlan(rid)
    <3>1. PICK rid \in CurrentSids(table) : todo = <<Step("rmdel", {}, rid)>> \/ todo = FixPlan(rid)
      BY <2>2
    <3>2. todo # <<Step("rmdel", {}, rid)>>
      BY <1>1, SingleParts
    <3> QED
      BY <1>2, <3>1, <3>2, BegunParts
  <2>3. CASE todo \in {One("get", {}), One("delta", {}), One("unget", {}), One("unedit", {})}
    BY <1>1, <2>3, PlanParts
  <2>4. CASE todo = DelgetPlan \/ todo = RestOfBranch
    BY <1>1, <2>4, PlanParts, BegunParts
  <2>5. CASE \E opts \in SUBSET {"b"} : todo = One("clean", opts)
    BY <1>1, <2>5, PlanParts
  <2> QED
    BY <1>2, <2>1, <2>2, <2>3, <2>4, <2>5 DEF Begun
<1>3. CASE ~IsIdle(u) /\ todo = cmd[u].steps /\ todo \in Plans
  <2>1. todo \in {One("get", {}), One("get", {"t"}), EditAgain, FixAgain}
    <3>1. todo # <<>>
      BY <1>3 DEF IsIdle
    <3> QED
      BY <1>1, <1>3, <3>1, PlanParts DEF Plans
  <2> QED
    BY <1>3, <2>1, PlanParts DEF EditAgain, FixAgain
<1> QED
  BY <1>2, <1>3, TodoCases

LEMMA DeltaJobs ==
  ASSUME TypeInv, NEW u \in Users, NEW todo \in Todo(u), At(todo, "delta")
  PROVE  LET opts == Head(todo).opts
         IN  \/ IsIdle(u) /\ opts = {} /\ Tail(todo) \in {<<>>, One("get", {"t"})}
             \/ IsIdle(u) /\ opts = {"n"} /\ Tail(todo) = EditAgain
             \/ cmd[u].steps = RestOfBranch /\ opts = {"n"} /\ Tail(todo) = EditAgain
<1>1. Head(todo).prog = "delta"
  BY DEF At
<1>2. CASE IsIdle(u) /\ Begun(todo)
  <2>1. CASE \E rid \in Typed(table) : todo = <<Step("get", {"e"}, rid)>> \/ todo = BranchPlan(rid)
    BY <1>1, <2>1, SingleParts, BegunParts
  <2>2. CASE \E rid \in CurrentSids(table) : todo = <<Step("rmdel", {}, rid)>> \/ todo = FixPlan(rid)
    BY <1>1, <2>2, SingleParts, BegunParts
  <2>3. CASE todo \in {One("get", {}), One("delta", {}), One("unget", {}), One("unedit", {})}
    BY <1>1, <1>2, <2>3, PlanParts
  <2>4. CASE todo = DelgetPlan \/ todo = RestOfBranch
    BY <1>2, <2>4, PlanParts, BegunParts
  <2>5. CASE \E opts \in SUBSET {"b"} : todo = One("clean", opts)
    BY <1>1, <2>5, PlanParts
  <2> QED
    BY <1>2, <2>1, <2>2, <2>3, <2>4, <2>5 DEF Begun
<1>3. CASE ~IsIdle(u) /\ todo = cmd[u].steps /\ todo \in Plans
  <2>1. todo = RestOfBranch
    <3>1. todo # <<>>
      BY <1>3 DEF IsIdle
    <3> QED
      BY <1>1, <1>3, <3>1, PlanParts DEF Plans, EditAgain, FixAgain
  <2> QED
    BY <1>3, <2>1, PlanParts
<1> QED
  BY <1>2, <1>3, TodoCases

LEMMA RmdelJobs ==
  ASSUME TypeInv, NEW u \in Users, NEW todo \in Todo(u), At(todo, "rmdel")
  PROVE  \/ IsIdle(u) /\ Tail(todo) = <<>>
         \/ cmd[u].steps = RestOfFix(Head(todo).rid) /\ Tail(todo) = FixAgain
<1>1. Head(todo).prog = "rmdel"
  BY DEF At
<1>2. CASE IsIdle(u) /\ Begun(todo)
  <2>1. CASE \E rid \in Typed(table) : todo = <<Step("get", {"e"}, rid)>> \/ todo = BranchPlan(rid)
    BY <1>1, <2>1, SingleParts, BegunParts
  <2>2. CASE \E rid \in CurrentSids(table) : todo = <<Step("rmdel", {}, rid)>> \/ todo = FixPlan(rid)
    <3>1. PICK rid \in CurrentSids(table) : todo = <<Step("rmdel", {}, rid)>> \/ todo = FixPlan(rid)
      BY <2>2
    <3>2. todo = <<Step("rmdel", {}, rid)>>
      BY <1>1, <3>1, BegunParts
    <3>3. Tail(todo) = <<>>
      BY <3>2, SingleParts
    <3> QED
      BY <1>2, <3>3
  <2>3. CASE todo \in {One("get", {}), One("delta", {}), One("unget", {}), One("unedit", {})}
    BY <1>1, <2>3, PlanParts
  <2>4. CASE todo = DelgetPlan \/ todo = RestOfBranch
    BY <1>1, <2>4, PlanParts, BegunParts
  <2>5. CASE \E opts \in SUBSET {"b"} : todo = One("clean", opts)
    BY <1>1, <2>5, PlanParts
  <2> QED
    BY <1>2, <2>1, <2>2, <2>3, <2>4, <2>5 DEF Begun
<1>3. CASE ~IsIdle(u) /\ todo = cmd[u].steps /\ todo \in Plans
  <2>1. \E rid : todo = RestOfFix(rid)
    <3>1. todo # <<>>
      BY <1>3 DEF IsIdle
    <3> QED
      BY <1>1, <1>3, <3>1, PlanParts DEF Plans, EditAgain, FixAgain
  <2> QED
    BY <1>3, <2>1, PlanParts
<1> QED
  BY <1>2, <1>3, TodoCases

LEMMA OtherJobs ==
  ASSUME TypeInv, NEW u \in Users, NEW todo \in Todo(u)
  PROVE  /\ At(todo, "unget") => IsIdle(u) /\ Tail(todo) = <<>>
         /\ At(todo, "unedit") => IsIdle(u)
         /\ At(todo, "clean") => IsIdle(u) /\ Head(todo).opts \in SUBSET {"b"}
<1> SUFFICES ASSUME At(todo, "unget") \/ At(todo, "unedit") \/ At(todo, "clean")
             PROVE  /\ IsIdle(u)
                    /\ At(todo, "unget") => Tail(todo) = <<>>
                    /\ At(todo, "clean") => Head(todo).opts \in SUBSET {"b"}
  OBVIOUS
<1>1. Head(todo).prog \in {"unget", "unedit", "clean"}
  BY DEF At
<1>2. CASE IsIdle(u) /\ Begun(todo)
  <2>1. CASE \E rid \in Typed(table) : todo = <<Step("get", {"e"}, rid)>> \/ todo = BranchPlan(rid)
    BY <1>1, <2>1, SingleParts, BegunParts
  <2>2. CASE \E rid \in CurrentSids(table) : todo = <<Step("rmdel", {}, rid)>> \/ todo = FixPlan(rid)
    BY <1>1, <2>2, SingleParts, BegunParts
  <2>3. CASE todo \in {One("get", {}), One("delta", {}), One("unget", {}), One("unedit", {})}
    BY <1>1, <1>2, <2>3, PlanParts DEF At
  <2>4. CASE todo = DelgetPlan \/ todo = RestOfBranch
    BY <1>1, <2>4, PlanParts, BegunParts
  <2>5. CASE \E opts \in SUBSET {"b"} : todo = One("clean", opts)
    <3>1. PICK opts \in SUBSET {"b"} : todo = One("clean", opts)
      BY <2>5
    <3>2. Head(todo).opts = opts /\ Head(todo).prog = "clean"
      BY <3>1, PlanParts
    <3> QED
      BY <1>2, <3>2 DEF At
  <2> QED
    BY <1>2, <2>1, <2>2, <2>3, <2>4, <2>5 DEF Begun
<1>3. CASE ~IsIdle(u) /\ todo = cmd[u].steps /\ todo \in Plans
  <2>1. todo # <<>>
    BY <1>3 DEF IsIdle
  <2> QED
    BY <1>1, <1>3, <2>1, PlanParts DEF Plans, EditAgain, FixAgain
<1> QED
  BY <1>2, <1>3, TodoCases

-----------------------------------------------------------------------------
(* The types.                                                              *)

Rest(steps) == [steps |-> steps, seen |-> Absent]
Cmds == [steps : Plans, seen : LockSets \cup {Absent}]
GoodCmd(c) ==
  /\ c \in Cmds
  /\ Is(c.steps, "unedit_p") \/ Is(c.steps, "unedit_write") => c.seen \in LockSets

\* Neither of the two moments of an unedit at which the p-file is in its memory.
QuietPlans == {p \in Plans : ~Is(p, "unedit_p") /\ ~Is(p, "unedit_write")}

LEMMA RestType ==
  ASSUME NEW steps \in QuietPlans
  PROVE  GoodCmd(Rest(steps)) /\ Rest(steps).steps = steps
BY DEF GoodCmd, Cmds, Rest, QuietPlans

LEMMA QuietMembers ==
  /\ <<>> \in QuietPlans /\ One("get", {}) \in QuietPlans /\ One("get", {"t"}) \in QuietPlans
  /\ EditAgain \in QuietPlans /\ FixAgain \in QuietPlans /\ RestOfBranch \in QuietPlans
  /\ One("unedit_g", {}) \in QuietPlans
  /\ \A opts \in SUBSET {"b"} : One("clean_g", opts) \in QuietPlans
  /\ \A rid \in DeltaSids : RestOfFix(rid) \in QuietPlans
<1>1. /\ <<>> \in Plans /\ One("get", {}) \in Plans /\ One("get", {"t"}) \in Plans
      /\ EditAgain \in Plans /\ FixAgain \in Plans /\ RestOfBranch \in Plans
      /\ One("unedit_g", {}) \in Plans
      /\ \A opts \in SUBSET {"b"} : One("clean_g", opts) \in Plans
      /\ \A rid \in DeltaSids : RestOfFix(rid) \in Plans
  BY DEF Plans
<1> QED
  BY <1>1, PlanParts DEF QuietPlans, EditAgain, FixAgain

LEMMA ContinueIs ==
  ASSUME NEW u \in Users, NEW todo
  PROVE  /\ Continue(u, todo) => cmd' = [cmd EXCEPT ![u] = Rest(Tail(todo))]
         /\ Stop(u) => cmd' = [cmd EXCEPT ![u] = Rest(<<>>)]
<1>1. \A steps : [Idle EXCEPT !.steps = steps] = Rest(steps)
  BY DEF Idle, Rest
<1>2. Idle = Rest(<<>>)
  BY DEF Idle, Rest
<1> QED
  BY <1>1, <1>2 DEF Continue, Stop

LEMMA LocksType ==
  ASSUME TypeInv
  PROVE  /\ Locks \in LockSets /\ Locks \subseteq EditLock /\ IsFiniteSet(Locks)
         /\ {} \in LockSets
         /\ \A l \in Locks : l.user \in Users /\ l.got \in DeltaSids /\ l.delta \in DeltaSids
<1>1. {} \in LockSets
  BY FS_EmptySet DEF LockSets
<1>2. Locks \in LockSets
  BY <1>1 DEF TypeInv, Locks, LocksOf
<1> QED
  BY <1>1, <1>2 DEF LockSets, EditLock

LEMMA SmallerLocks ==
  ASSUME NEW locks \in LockSets, NEW s, s \subseteq locks
  PROVE  s \in LockSets
BY FS_Subset DEF LockSets

LEMMA FewerLocks ==
  ASSUME NEW locks \in LockSets, NEW l
  PROVE  locks \ {l} \in LockSets
BY SmallerLocks

LEMMA MoreLocks ==
  ASSUME NEW locks \in LockSets, NEW l \in EditLock
  PROVE  locks \cup {l} \in LockSets
BY FS_AddElement DEF LockSets

LEMMA SetLocksType ==
  ASSUME NEW locks \in LockSets, SetLocks(locks)
  PROVE  pfile' \in LockSets \cup {Absent}
BY DEF SetLocks

\* What every action does to the types.
TypedStep(u) ==
  /\ table' \in Tables /\ Len(table') >= Len(table)
  /\ pfile' \in LockSets \cup {Absent}
  /\ \E c : GoodCmd(c) /\ cmd' = [cmd EXCEPT ![u] = c]
  /\ \/ UNCHANGED gfile
     \/ \E g : /\ gfile' = [gfile EXCEPT ![u] = g]
               /\ g = Absent \/ (g \in GFiles /\ g.text <= Len(table'))
  /\ passed' \in [Users -> BOOLEAN] /\ botched' \in [Users -> BOOLEAN]
  /\ damaged' \in BOOLEAN /\ failures' \in 0..MaxFailures

LEMMA TypedStepKeeps ==
  ASSUME TypeInv, NEW u \in Users, TypedStep(u)
  PROVE  TypeInv'
<1>1. PICK c : GoodCmd(c) /\ cmd' = [cmd EXCEPT ![u] = c]
  BY DEF TypedStep
<1>2. /\ cmd' \in [Users -> [steps : Plans, seen : LockSets \cup {Absent}]]
      /\ \A v \in Users : Is(cmd'[v].steps, "unedit_p") \/ Is(cmd'[v].steps, "unedit_write") =>
                            cmd'[v].seen \in LockSets
  <2>1. cmd' \in [Users -> [steps : Plans, seen : LockSets \cup {Absent}]]
    BY <1>1 DEF TypeInv, GoodCmd, Cmds
  <2>2. ASSUME NEW v \in Users,
               Is(cmd'[v].steps, "unedit_p") \/ Is(cmd'[v].steps, "unedit_write")
        PROVE  cmd'[v].seen \in LockSets
    <3>1. cmd'[v] = c \/ cmd'[v] = cmd[v]
      BY <1>1 DEF TypeInv
    <3> QED
      BY <1>1, <2>2, <3>1 DEF TypeInv, GoodCmd
  <2> QED
    BY <2>1, <2>2
<1>3. table' \in Tables /\ Len(table') >= Len(table) /\ Len(table) \in Nat /\ Len(table') \in Nat
  BY TableFacts DEF TypeInv, TypedStep
<1>4. /\ gfile' \in [Users -> GFiles \cup {Absent}]
      /\ \A v \in Users : gfile'[v] # Absent => gfile'[v] \in GFiles /\ gfile'[v].text <= Len(table')
  <2>1. \A v \in Users : gfile[v] # Absent => gfile[v] \in GFiles /\ gfile[v].text <= Len(table')
    BY <1>3 DEF TypeInv, GFiles
  <2>2. CASE UNCHANGED gfile
    BY <2>1, <2>2 DEF TypeInv
  <2>3. CASE \E g : /\ gfile' = [gfile EXCEPT ![u] = g]
                    /\ g = Absent \/ (g \in GFiles /\ g.text <= Len(table'))
    BY <2>1, <2>3 DEF TypeInv
  <2> QED
    BY <2>2, <2>3 DEF TypedStep
<1> QED
  BY <1>2, <1>3, <1>4 DEF TypeInv, TypedStep

LEMMA NoteType ==
  ASSUME TypeInv, NEW u, NEW botches, Note(u, botches), Damage(u) \/ damaged' \in BOOLEAN,
         UNCHANGED failures \/ Fails
  PROVE  /\ passed' \in [Users -> BOOLEAN] /\ botched' \in [Users -> BOOLEAN]
         /\ damaged' \in BOOLEAN /\ failures' \in 0..MaxFailures
<1>1. passed' \in [Users -> BOOLEAN]
  BY DEF Note
<1>2. botched' \in [Users -> BOOLEAN]
  BY DEF Note
<1>3. damaged' \in BOOLEAN
  BY DEF Damage
<1>4. failures' \in 0..MaxFailures
  BY FrontEndAssumption DEF TypeInv, Fails
<1> QED
  BY <1>1, <1>2, <1>3, <1>4

LEMMA ObserveIs ==
  ASSUME NEW u, Observe(u)
  PROVE  Damage(u) /\ Note(u, FALSE) /\ UNCHANGED failures
BY DEF Observe

LEMMA GFileParts ==
  ASSUME NEW n \in Nat, NEW writable \in BOOLEAN
  PROVE  /\ GFile(n, writable) \in GFiles /\ GFile(n, writable).text <= n
         /\ GFile(n, writable).writable = writable
         /\ writable => GFile(n, writable).text = n
BY DEF GFile, GFiles

\* get
LEMMA GetFacts ==
  ASSUME TypeInv, NEW u \in Users, NEW todo \in Todo(u), Get(u, todo)
  PROVE  LET got == Retrieve(todo)
             next == NextSid(todo, got).next
         IN  /\ FrontRequest(table, Rid(todo), got)
             /\ Rid(todo) \in CurrentSids(table) => got = Rid(todo)
             /\ got \in CurrentSids(table) /\ got \in DeltaSids
             /\ FindDelta(table, got) \in CurrentDeltas(table) /\ FindDelta(table, got) \in 1..Len(table)
             /\ table[FindDelta(table, got)].sid = got
             /\ next \in DeltaSids
<1> DEFINE got == Retrieve(todo)
           next == NextSid(todo, got).next
<1>1. table \in Tables /\ At(todo, "get") /\ ~IsNull(got)
  BY DEF TypeInv, Get
<1>2. Rid(todo) \in Typed(table) /\ (Has(todo, "t") => Rid(todo) = NullSid)
  <2>1. \/ Rid(todo) \in Typed(table) /\ Head(todo).opts \in {{"e"}, {"e", "b"}}
        \/ Rid(todo) \in CurrentSids(table) /\ Head(todo).opts = {"k"}
        \/ Rid(todo) = NullSid
    BY <1>1, GetJobs DEF Rid
  <2>2. CurrentSids(table) \subseteq Typed(table) /\ NullSid \in Typed(table)
    BY DEF Typed
  <2> QED
    BY <2>1, <2>2 DEF Has
<1>3. got = FindRequestedSid(table, Rid(todo), Has(todo, "t"), NullSid) /\ Has(todo, "t") \in BOOLEAN
  BY DEF Retrieve, Flags, Has
<1>4. /\ FrontRequest(table, Rid(todo), got)
      /\ Rid(todo) \in CurrentSids(table) => got = Rid(todo)
  <2> DEFINE rid == Rid(todo)
             top == Has(todo, "t")
  <2> HIDE DEF rid, top, got
  <2>1. rid \in Typed(table) /\ top \in BOOLEAN /\ (top => rid = NullSid) /\ got = FindRequestedSid(table, rid, top, NullSid)
    BY <1>2, <1>3 DEF rid, top
  <2>2. FrontRequest(table, rid, got) /\ (rid \in CurrentSids(table) => got = rid)
    BY <1>1, <2>1, RequestFacts
  <2> QED
    BY <2>2 DEF rid
<1> HIDE DEF got
<1>5. got \in CurrentSids(table) /\ got \in DeltaSids
  BY <1>1, <1>4, TableFacts DEF FrontRequest
<1>6. /\ FindDelta(table, got) \in CurrentDeltas(table)
      /\ table[FindDelta(table, got)].sid = got
  BY <1>1, <1>5, FindDeltaFinds
<1>7. FindDelta(table, got) \in 1..Len(table)
  BY <1>1, <1>6, TableFacts
<1>8. next \in DeltaSids
  <2> DEFINE asked == EditRequest(Rid(todo), got)
             wantBranch == Has(todo, "b")
  <2>1. asked \in WellFormed /\ ~IsNull(asked)
    <3>1. \A id \in DeltaSids : id \in WellFormed /\ ~IsNull(id)
      BY DeltaSidFacts DEF DeltaSids, IsNull, SidTuples
    <3>2. \A id \in WellFormed : ReleaseOnly(id) => ~IsNull(id)
      BY WellFormedFacts DEF ReleaseOnly, IsNull
    <3> QED
      BY <1>4, <1>5, <3>1, <3>2 DEF FrontRequest
  <2>2. wantBranch \in BOOLEAN /\ next = FindNextSid(table, Locks, asked, got, wantBranch, Flags).next
    BY DEF NextSid, Has
  <2>3. Flags.default \in WellFormed
    BY DEF Flags, NullSid, WellFormed, SidTuples
  <2> HIDE DEF asked, wantBranch, next
  <2>4. FindNextSid(table, Locks, asked, got, wantBranch, Flags).next \in DeltaSids
    BY <1>1, <1>5, <2>1, <2>2, <2>3, LocksType, NextSidCases
  <2> QED
    BY <2>2, <2>4
<1> QED
  BY <1>4, <1>5, <1>6, <1>7, <1>8 DEF got

\* The ways in which it can end.
LEMMA GetCases ==
  ASSUME TypeInv, NEW u \in Users, NEW todo \in Todo(u), Get(u, todo)
  PROVE  LET got == Retrieve(todo)
         IN  \E locks :
               /\ \/ ~Has(todo, "e") /\ locks = {}
                  \/ Has(todo, "e") /\ \E l \in Reservable(u, todo, got) : locks = {l}
               /\ Locks \cup locks \in LockSets
               /\ GetEnds(u, todo, got, locks) \/ GetLoses(u, todo) \/ GetStops(u, todo, locks)
<1> DEFINE got == Retrieve(todo)
<1>1. got \in DeltaSids /\ NextSid(todo, got).next \in DeltaSids
  BY GetFacts
<1>2. PICK locks \in IF Has(todo, "e") THEN {{l} : l \in Reservable(u, todo, got)} ELSE {{}} :
        GetEnds(u, todo, got, locks) \/ GetLoses(u, todo) \/ GetStops(u, todo, locks)
  BY DEF Get
<1> HIDE DEF got
<1>3. \/ ~Has(todo, "e") /\ locks = {}
      \/ Has(todo, "e") /\ \E l \in Reservable(u, todo, got) : locks = {l}
  BY <1>2
<1>4. \A l \in Reservable(u, todo, got) : l \in EditLock
  BY <1>1 DEF Reservable, EditLock
<1>5. Locks \cup locks \in LockSets
  BY <1>3, <1>4, LocksType, MoreLocks
<1> QED
  BY <1>2, <1>3, <1>5 DEF got

LEMMA GetTyped ==
  ASSUME TypeInv, NEW u \in Users, NEW todo \in Todo(u), Get(u, todo)
  PROVE  TypedStep(u)
<1> DEFINE got == Retrieve(todo)
           seq == FindDelta(table, got)
           w == Has(todo, "e") \/ Has(todo, "k")
<1>1. seq \in 1..Len(table)
  BY GetFacts
<1>2. At(todo, "get") /\ UNCHANGED table
  BY DEF Get
<1>3. table \in Tables /\ Len(table) \in Nat /\ pfile \in LockSets \cup {Absent}
  BY TableFacts DEF TypeInv
<1>4. PICK locks : /\ Locks \cup locks \in LockSets
                   /\ GetEnds(u, todo, got, locks) \/ GetLoses(u, todo) \/ GetStops(u, todo, locks)
  BY GetCases
<1>5. \A n : Output(todo, n) = GFile(n, w)
  BY DEF Output
<1>6. w \in BOOLEAN
  OBVIOUS
<1> HIDE DEF got, w
<1>7. /\ UNCHANGED pfile \/ SetLocks({}) \/ SetLocks(Locks \cup locks)
      /\ Continue(u, todo) \/ Stop(u)
      /\ \/ UNCHANGED gfile
         \/ \E f \in {Absent, GFile(0, w), GFile(seq, w)} : gfile' = [gfile EXCEPT ![u] = f]
      /\ Damage(u) /\ (Note(u, FALSE) \/ Note(u, TRUE)) /\ (UNCHANGED failures \/ Fails)
  <2>1. CASE GetEnds(u, todo, got, locks)
    BY <1>5, <2>1, ObserveIs DEF GetEnds, Reserve
  <2>2. CASE GetLoses(u, todo)
    BY <1>5, <2>2 DEF GetLoses
  <2>3. CASE GetStops(u, todo, locks)
    BY <1>5, <2>3 DEF GetStops, Reserve
  <2> QED
    BY <1>4, <2>1, <2>2, <2>3
<1> HIDE DEF seq
<1>8. pfile' \in LockSets \cup {Absent}
  BY <1>3, <1>4, <1>7, LocksType, SetLocksType
<1>9. Tail(todo) \in QuietPlans
  <2>1. \/ Tail(todo) = <<>> \/ Tail(todo) = RestOfBranch
        \/ \E rid \in CurrentSids(table) : Tail(todo) = RestOfFix(rid)
    BY <1>2, GetJobs
  <2>2. CurrentSids(table) \subseteq DeltaSids
    BY <1>3, TableFacts
  <2> QED
    BY <2>1, <2>2, QuietMembers
<1>10. \E c : GoodCmd(c) /\ cmd' = [cmd EXCEPT ![u] = c]
  BY <1>7, <1>9, QuietMembers, RestType, ContinueIs
<1>11. \A f \in {Absent, GFile(0, w), GFile(seq, w)} :
         f = Absent \/ (f \in GFiles /\ f.text <= Len(table))
  <2>1. seq \in Nat /\ seq <= Len(table) /\ 0 <= Len(table)
    BY <1>1, <1>3
  <2>2. GFile(0, w) \in GFiles /\ GFile(0, w).text <= 0 /\ GFile(seq, w) \in GFiles /\ GFile(seq, w).text <= seq
    BY <1>6, <2>1, GFileParts
  <2> QED
    BY <1>3, <2>1, <2>2 DEF GFiles
<1>12. \/ UNCHANGED gfile
       \/ \E g : /\ gfile' = [gfile EXCEPT ![u] = g]
                 /\ g = Absent \/ (g \in GFiles /\ g.text <= Len(table'))
  BY <1>2, <1>7, <1>11
<1>13. /\ passed' \in [Users -> BOOLEAN] /\ botched' \in [Users -> BOOLEAN]
       /\ damaged' \in BOOLEAN /\ failures' \in 0..MaxFailures
  BY <1>7, NoteType
<1>14. table' \in Tables /\ Len(table') >= Len(table)
  BY <1>2, <1>3
<1> QED
  BY <1>8, <1>10, <1>12, <1>13, <1>14 DEF TypedStep

\* delta
LEMMA DeltaFacts ==
  ASSUME TypeInv, NEW u \in Users, NEW todo \in Todo(u), Delta(u, todo)
  PROVE  \E l \in Locks :
           /\ Mine(u, Locks) = {l} /\ l \in EditLock /\ l.user = u
           /\ table' = Added(table, l.got, l.delta) /\ table' \in Tables
           /\ Len(table') = Len(table) + 1
           /\ Locks \ {l} \in LockSets
           /\ DeltaEnds(u, todo, l) \/ DeltaStops(u, l)
<1>1. PICK l \in Locks :
       /\ IsLock(u, l)
       /\ table' = Append(table, [sid |-> l.delta, prev |-> FindDelta(table, l.got), type |-> "D"])
       /\ DeltaEnds(u, todo, l) \/ DeltaStops(u, l)
  BY DEF Delta
<1>2. l \in EditLock /\ l.delta \in DeltaSids /\ Locks \ {l} \in LockSets
  BY LocksType, FewerLocks
<1>3. Mine(u, Locks) = {l} /\ l.user = u
  BY <1>1 DEF IsLock, Mine
<1>4. table' = Added(table, l.got, l.delta)
  BY <1>1 DEF Added
<1>5. table' \in Tables /\ Len(table') = Len(table) + 1
  <2> DEFINE prev == FindDelta(table, l.got)
             new == [sid |-> l.delta, prev |-> prev, type |-> "D"]
  <2>1. /\ table \in Tables /\ table \in Seq(DeltaRecords) /\ Len(table) \in Nat
        /\ \A i \in 1..Len(table) : table[i].prev < i
    BY TableFacts DEF TypeInv, Tables
  <2>2. prev \in Nat /\ prev <= Len(table)
    <3>1. prev = 0 \/ prev \in CurrentDeltas(table)
      BY <2>1, FindDeltaFinds
    <3> HIDE DEF prev
    <3>2. CurrentDeltas(table) \subseteq 1..Len(table)
      BY <2>1, TableFacts
    <3> QED
      BY <2>1, <3>1, <3>2
  <2> HIDE DEF prev
  <2>3. new \in DeltaRecords /\ new.prev = prev
    BY <1>2, <2>2 DEF DeltaRecords
  <2> HIDE DEF new
  <2>4. table' = Append(table, new)
    BY <1>1 DEF new, prev
  <2>5. /\ table' \in Seq(DeltaRecords) /\ Len(table') = Len(table) + 1
        /\ \A i \in 1..Len(table') : table'[i] = IF i = Len(table) + 1 THEN new ELSE table[i]
    BY <2>1, <2>3, <2>4
  <2>6. \A i \in 1..Len(table') : i = Len(table) + 1 \/ i \in 1..Len(table)
    BY <2>1, <2>5
  <2>7. \A i \in 1..Len(table') : table'[i].prev < i
    BY <2>1, <2>2, <2>3, <2>5, <2>6
  <2> QED
    BY <2>5, <2>7 DEF Tables
<1> QED
  BY <1>1, <1>2, <1>3, <1>4, <1>5

LEMMA DeltaTyped ==
  ASSUME TypeInv, NEW u \in Users, NEW todo \in Todo(u), Delta(u, todo)
  PROVE  TypedStep(u)
<1>1. PICK l \in Locks :
         /\ table' \in Tables /\ Len(table') = Len(table) + 1
         /\ Locks \ {l} \in LockSets
         /\ DeltaEnds(u, todo, l) \/ DeltaStops(u, l)
  BY DeltaFacts
<1>2. At(todo, "delta") /\ gfile[u] # Absent
  BY DEF Delta
<1> DEFINE g == IF Has(todo, "n") THEN GFile(Len(table'), gfile[u].writable) ELSE Absent
<1>3. /\ UNCHANGED pfile \/ SetLocks({}) \/ SetLocks(Locks \ {l})
      /\ Continue(u, todo) \/ Stop(u)
      /\ UNCHANGED gfile \/ gfile' = [gfile EXCEPT ![u] = g]
      /\ Damage(u) /\ Note(u, FALSE) /\ (UNCHANGED failures \/ Fails)
  <2>1. CASE DeltaEnds(u, todo, l)
    BY <2>1, ObserveIs DEF DeltaEnds, TypeInv
  <2>2. CASE DeltaStops(u, l)
    BY <2>2 DEF DeltaStops
  <2> QED
    BY <1>1, <2>1, <2>2
<1>4. pfile' \in LockSets \cup {Absent}
  BY <1>1, <1>3, LocksType, SetLocksType DEF TypeInv
<1>5. Tail(todo) \in QuietPlans
  BY <1>2, DeltaJobs, QuietMembers
<1>6. \E c : GoodCmd(c) /\ cmd' = [cmd EXCEPT ![u] = c]
  BY <1>3, <1>5, QuietMembers, RestType, ContinueIs
<1>7. Len(table) \in Nat /\ Len(table') \in Nat
  BY <1>1, TableFacts DEF TypeInv
<1>8. gfile[u].writable \in BOOLEAN
  BY <1>2 DEF TypeInv, GFiles
<1>9. g = Absent \/ (g \in GFiles /\ g.text <= Len(table'))
  BY <1>7, <1>8, GFileParts
<1> HIDE DEF g
<1>10. /\ passed' \in [Users -> BOOLEAN] /\ botched' \in [Users -> BOOLEAN]
       /\ damaged' \in BOOLEAN /\ failures' \in 0..MaxFailures
  BY <1>3, NoteType
<1>11. Len(table') >= Len(table)
  BY <1>1, <1>7
<1> QED
  BY <1>1, <1>3, <1>4, <1>6, <1>9, <1>10, <1>11 DEF TypedStep

LEMMA UngetFacts ==
  ASSUME TypeInv, NEW u \in Users, NEW todo \in Todo(u), Unget(u, todo)
  PROVE  \E l \in Locks :
           /\ Mine(u, Locks) = {l} /\ l \in EditLock /\ l.user = u
           /\ Locks \ {l} \in LockSets
           /\ UngetEnds(u, todo, l) \/ UngetStops(u, l)
<1>1. PICK l \in Locks : IsLock(u, l) /\ (UngetEnds(u, todo, l) \/ UngetStops(u, l))
  BY DEF Unget
<1>2. l \in EditLock /\ Locks \ {l} \in LockSets
  BY LocksType, FewerLocks
<1>3. Mine(u, Locks) = {l} /\ l.user = u
  BY <1>1 DEF IsLock, Mine
<1> QED
  BY <1>1, <1>2, <1>3

LEMMA UngetTyped ==
  ASSUME TypeInv, NEW u \in Users, NEW todo \in Todo(u), Unget(u, todo)
  PROVE  TypedStep(u)
<1>1. PICK l \in Locks : Locks \ {l} \in LockSets /\ (UngetEnds(u, todo, l) \/ UngetStops(u, l))
  BY UngetFacts
<1>2. At(todo, "unget") /\ UNCHANGED table
  BY DEF Unget
<1>3. /\ UNCHANGED pfile \/ SetLocks({}) \/ SetLocks(Locks \ {l})
      /\ Continue(u, todo) \/ Stop(u)
      /\ gfile' = [gfile EXCEPT ![u] = Absent] \/ UNCHANGED gfile
      /\ Damage(u) /\ (\E b : Note(u, b)) /\ (UNCHANGED failures \/ Fails)
  <2>1. CASE UngetEnds(u, todo, l)
    BY <2>1, ObserveIs DEF UngetEnds
  <2>2. CASE UngetStops(u, l)
    BY <2>2 DEF UngetStops, TypeInv
  <2> QED
    BY <1>1, <2>1, <2>2
<1>4. pfile' \in LockSets \cup {Absent}
  BY <1>1, <1>3, LocksType, SetLocksType DEF TypeInv
<1>5. \E c : GoodCmd(c) /\ cmd' = [cmd EXCEPT ![u] = c]
  BY <1>2, <1>3, OtherJobs, QuietMembers, RestType, ContinueIs
<1>6. table' \in Tables /\ Len(table') >= Len(table)
  BY <1>2, TableFacts DEF TypeInv
<1>7. /\ passed' \in [Users -> BOOLEAN] /\ botched' \in [Users -> BOOLEAN]
      /\ damaged' \in BOOLEAN /\ failures' \in 0..MaxFailures
  BY <1>3, NoteType
<1> QED
  BY <1>3, <1>4, <1>5, <1>6, <1>7 DEF TypedStep

LEMMA RmdelTyped ==
  ASSUME TypeInv, NEW u \in Users, NEW todo \in Todo(u), Rmdel(u, todo)
  PROVE  TypedStep(u) /\ table' = Removed(table, Rid(todo)) /\ Rid(todo) \in CurrentSids(table)
<1>1. /\ At(todo, "rmdel") /\ UNCHANGED <<pfile, gfile>> /\ Continue(u, todo) /\ Observe(u)
      /\ Rid(todo) \in CurrentSids(table) /\ table' = Removed(table, Rid(todo))
  BY DEF Rmdel, RmdelPermitted, Removed
<1>2. table \in Tables /\ Len(table) \in Nat
  BY TableFacts DEF TypeInv
<1>3. table' \in Tables /\ Len(table') >= Len(table)
  <2>1. Removed(table, Rid(todo)) \in Tables /\ Len(Removed(table, Rid(todo))) = Len(table)
    BY <1>1, <1>2, RemovedDelta
  <2> QED
    BY <1>1, <1>2, <2>1
<1>4. \E c : GoodCmd(c) /\ cmd' = [cmd EXCEPT ![u] = c]
  BY <1>1, RmdelJobs, QuietMembers, RestType, ContinueIs
<1>5. /\ passed' \in [Users -> BOOLEAN] /\ botched' \in [Users -> BOOLEAN]
      /\ damaged' \in BOOLEAN /\ failures' \in 0..MaxFailures
  BY <1>1, ObserveIs, NoteType
<1> QED
  BY <1>1, <1>3, <1>4, <1>5 DEF TypedStep, TypeInv

LEMMA UneditReadTyped ==
  ASSUME TypeInv, NEW u \in Users, NEW todo \in Todo(u), UneditRead(u, todo)
  PROVE  TypedStep(u)
<1> DEFINE c == [steps |-> One("unedit_p", {}), seen |-> pfile]
<1>1. /\ cmd' = [cmd EXCEPT ![u] = c] /\ pfile # Absent
      /\ UNCHANGED <<table, pfile, gfile>> /\ Observe(u)
  BY DEF UneditRead, One
<1>2. pfile \in LockSets
  BY <1>1 DEF TypeInv
<1>3. GoodCmd(c)
  <2>1. One("unedit_p", {}) \in Plans
    BY DEF Plans
  <2> QED
    BY <1>2, <2>1 DEF GoodCmd, Cmds
<1>4. table' \in Tables /\ Len(table') >= Len(table)
  BY <1>1, TableFacts DEF TypeInv
<1>5. /\ passed' \in [Users -> BOOLEAN] /\ botched' \in [Users -> BOOLEAN]
      /\ damaged' \in BOOLEAN /\ failures' \in 0..MaxFailures
  BY <1>1, ObserveIs, NoteType
<1> HIDE DEF c
<1> QED
  BY <1>1, <1>2, <1>3, <1>4, <1>5 DEF TypedStep

LEMMA CleanReadTyped ==
  ASSUME TypeInv, NEW u \in Users, NEW todo \in Todo(u), CleanRead(u, todo)
  PROVE  TypedStep(u)
<1>1. /\ At(todo, "clean") /\ UNCHANGED <<table, pfile, gfile>> /\ Observe(u)
      /\ cmd' = [cmd EXCEPT ![u] = Rest(One("clean_g", Head(todo).opts))]
  <2>1. \A steps : [Idle EXCEPT !.steps = steps] = Rest(steps)
    BY DEF Idle, Rest
  <2> QED
    BY <2>1 DEF CleanRead, One
<1>2. \E c : GoodCmd(c) /\ cmd' = [cmd EXCEPT ![u] = c]
  BY <1>1, OtherJobs, QuietMembers, RestType
<1>3. table' \in Tables /\ Len(table') >= Len(table)
  BY <1>1, TableFacts DEF TypeInv
<1>4. /\ passed' \in [Users -> BOOLEAN] /\ botched' \in [Users -> BOOLEAN]
      /\ damaged' \in BOOLEAN /\ failures' \in 0..MaxFailures
  BY <1>1, ObserveIs, NoteType
<1> QED
  BY <1>1, <1>2, <1>3, <1>4 DEF TypedStep, TypeInv

LEMMA FailTyped ==
  ASSUME TypeInv, NEW u \in Users, Fail(u)
  PROVE  TypedStep(u)
<1>1. /\ UNCHANGED <<table, pfile, gfile, failures>> /\ Stop(u)
      /\ damaged' \in BOOLEAN /\ Note(u, FALSE)
  BY DEF Fail, Running
<1>2. \E c : GoodCmd(c) /\ cmd' = [cmd EXCEPT ![u] = c]
  BY <1>1, QuietMembers, RestType, ContinueIs
<1>3. table' \in Tables /\ Len(table') >= Len(table)
  BY <1>1, TableFacts DEF TypeInv
<1>4. /\ passed' \in [Users -> BOOLEAN] /\ botched' \in [Users -> BOOLEAN]
      /\ damaged' \in BOOLEAN /\ failures' \in 0..MaxFailures
  BY <1>1, NoteType
<1> QED
  BY <1>1, <1>2, <1>3, <1>4 DEF TypedStep, TypeInv

LEMMA CmdFacts ==
  ASSUME TypeInv, NEW u \in Users
  PROVE  /\ cmd[u] \in Cmds /\ cmd[u].steps \in Plans
         /\ \A prog : Running(u, prog) <=> Is(cmd[u].steps, prog)
         /\ IsIdle(u) <=> cmd[u].steps = <<>>
         /\ WillEdit(u) <=> Edits(cmd[u].steps)
         /\ Running(u, "unedit_p") \/ Running(u, "unedit_write") => cmd[u].seen \in LockSets
<1>1. cmd[u] \in Cmds /\ cmd[u].steps \in Plans
  BY DEF TypeInv, Cmds
<1>2. \A prog : Running(u, prog) <=> Is(cmd[u].steps, prog)
  BY DEF Running, IsIdle, Is
<1> QED
  BY <1>1, <1>2 DEF TypeInv, IsIdle, WillEdit, Edits

LEMMA UneditOpenTyped ==
  ASSUME TypeInv, NEW u \in Users, UneditOpen(u)
  PROVE  /\ TypedStep(u)
         /\ cmd' = [cmd EXCEPT ![u] =
                      [steps |-> IF Others(u, cmd[u].seen) = {} THEN One("unedit_g", {})
                                 ELSE One("unedit_write", {}),
                       seen |-> cmd[u].seen]]
<1> DEFINE others == Others(u, cmd[u].seen)
           steps == IF others = {} THEN One("unedit_g", {}) ELSE One("unedit_write", {})
           c == [steps |-> steps, seen |-> cmd[u].seen]
<1>1. cmd[u].seen \in LockSets /\ cmd[u] \in Cmds
  BY CmdFacts DEF UneditOpen
<1>2. cmd' = [cmd EXCEPT ![u].steps = steps]
  <2>1. steps = <<Step(IF others = {} THEN "unedit_g" ELSE "unedit_write", {}, NullSid)>>
    BY DEF One
  <2> HIDE DEF steps
  <2> QED
    BY <2>1 DEF UneditOpen
<1>3. steps \in Plans
  BY DEF Plans
<1> HIDE DEF steps
<1>4. [cmd[u] EXCEPT !.steps = steps] = c
  BY <1>1 DEF Cmds
<1>5. cmd' = [cmd EXCEPT ![u] = c]
  BY <1>2, <1>4 DEF TypeInv
<1>6. GoodCmd(c)
  BY <1>1, <1>3 DEF GoodCmd, Cmds
<1>7. /\ UNCHANGED <<table, gfile>>
      /\ pfile' = (IF others = {} THEN Absent ELSE {})
      /\ Observe(u)
  BY DEF UneditOpen
<1>8. pfile' \in LockSets \cup {Absent}
  <2>1. {} \in LockSets
    BY FS_EmptySet DEF LockSets
  <2> QED
    BY <1>7, <2>1
<1>9. table' \in Tables /\ Len(table') >= Len(table)
  BY <1>7, TableFacts DEF TypeInv
<1>10. TypedStep(u)
  <2>1. /\ passed' \in [Users -> BOOLEAN] /\ botched' \in [Users -> BOOLEAN]
        /\ damaged' \in BOOLEAN /\ failures' \in 0..MaxFailures
    BY <1>7, ObserveIs, NoteType
  <2> HIDE DEF c
  <2> QED
    BY <1>5, <1>6, <1>7, <1>8, <1>9, <2>1 DEF TypedStep, TypeInv
<1> QED
  BY <1>5, <1>10 DEF steps

LEMMA UneditWriteTyped ==
  ASSUME TypeInv, NEW u \in Users, UneditWrite(u)
  PROVE  /\ TypedStep(u)
         /\ \E seen : cmd' = [cmd EXCEPT ![u] = [steps |-> One("unedit_g", {}), seen |-> seen]]
<1> DEFINE c == [steps |-> One("unedit_g", {}), seen |-> Mine(u, cmd[u].seen)]
<1>1. cmd[u].seen \in LockSets
  BY CmdFacts DEF UneditWrite
<1>2. Others(u, cmd[u].seen) \in LockSets /\ Mine(u, cmd[u].seen) \in LockSets
  BY <1>1, SmallerLocks DEF Others, Mine
<1>3. /\ pfile' = Others(u, cmd[u].seen) /\ cmd' = [cmd EXCEPT ![u] = c]
      /\ UNCHANGED <<table, gfile, damaged, failures>> /\ Note(u, FALSE)
  BY DEF UneditWrite, One
<1>4. GoodCmd(c)
  BY <1>2, QuietMembers DEF GoodCmd, Cmds, QuietPlans
<1>5. table' \in Tables /\ Len(table') >= Len(table)
  BY <1>3, TableFacts DEF TypeInv
<1>6. TypedStep(u)
  <2>1. /\ passed' \in [Users -> BOOLEAN] /\ botched' \in [Users -> BOOLEAN]
        /\ damaged' \in BOOLEAN /\ failures' \in 0..MaxFailures
    <3>1. damaged' \in BOOLEAN
      BY <1>3 DEF TypeInv
    <3> QED
      BY <1>3, <3>1, NoteType
  <2> HIDE DEF c
  <2> QED
    BY <1>2, <1>3, <1>4, <1>5, <2>1 DEF TypedStep, TypeInv
<1> QED
  BY <1>3, <1>6

LEMMA UneditRemoveTyped ==
  ASSUME TypeInv, NEW u \in Users, UneditRemove(u)
  PROVE  /\ TypedStep(u)
         /\ UNCHANGED <<table, pfile, damaged, failures>> /\ Note(u, FALSE)
         /\ \/ UNCHANGED gfile /\ cmd' = [cmd EXCEPT ![u] = Rest(<<>>)]
            \/ /\ gfile' = [gfile EXCEPT ![u] = Absent]
               /\ cmd' = [cmd EXCEPT ![u] = Rest(One("get", {}))]
<1>1. /\ UNCHANGED <<table, pfile, damaged, failures>> /\ Note(u, FALSE)
      /\ \/ UNCHANGED gfile /\ Stop(u)
         \/ /\ gfile' = [gfile EXCEPT ![u] = Absent]
            /\ cmd' = [cmd EXCEPT ![u] = [Idle EXCEPT !.steps = Macro("get", {}, NullSid)]]
  BY DEF UneditRemove
<1>2. [Idle EXCEPT !.steps = Macro("get", {}, NullSid)] = Rest(One("get", {}))
  <2>1. Macro("get", {}, NullSid) = One("get", {})
    BY DEF Macro, One
  <2> QED
    BY <2>1 DEF Idle, Rest
<1>3. \/ UNCHANGED gfile /\ cmd' = [cmd EXCEPT ![u] = Rest(<<>>)]
      \/ /\ gfile' = [gfile EXCEPT ![u] = Absent]
         /\ cmd' = [cmd EXCEPT ![u] = Rest(One("get", {}))]
  BY <1>1, <1>2, ContinueIs
<1>4. GoodCmd(Rest(<<>>)) /\ GoodCmd(Rest(One("get", {})))
  BY QuietMembers, RestType
<1>5. table' \in Tables /\ Len(table') >= Len(table)
  BY <1>1, TableFacts DEF TypeInv
<1>6. TypedStep(u)
  <2>1. /\ passed' \in [Users -> BOOLEAN] /\ botched' \in [Users -> BOOLEAN]
        /\ damaged' \in BOOLEAN /\ failures' \in 0..MaxFailures
    <3>1. damaged' \in BOOLEAN
      BY <1>1 DEF TypeInv
    <3> QED
      BY <1>1, <3>1, NoteType
  <2> QED
    BY <1>1, <1>3, <1>4, <1>5, <2>1 DEF TypedStep, TypeInv
<1> QED
  BY <1>1, <1>3, <1>6

LEMMA CleanRemoveTyped ==
  ASSUME TypeInv, NEW u \in Users, CleanRemove(u)
  PROVE  TypedStep(u)
<1>1. /\ UNCHANGED <<table, pfile, failures>> /\ gfile' = [gfile EXCEPT ![u] = Absent] /\ Stop(u)
      /\ damaged' \in BOOLEAN /\ Note(u, FALSE)
  BY DEF CleanRemove
<1>2. \E c : GoodCmd(c) /\ cmd' = [cmd EXCEPT ![u] = c]
  BY <1>1, QuietMembers, RestType, ContinueIs
<1>3. table' \in Tables /\ Len(table') >= Len(table)
  BY <1>1, TableFacts DEF TypeInv
<1>4. /\ passed' \in [Users -> BOOLEAN] /\ botched' \in [Users -> BOOLEAN]
      /\ damaged' \in BOOLEAN /\ failures' \in 0..MaxFailures
  BY <1>1, NoteType
<1> QED
  BY <1>1, <1>2, <1>3, <1>4 DEF TypedStep, TypeInv

LEMMA TypeNext ==
  ASSUME TypeInv, [Next]_vars
  PROVE  TypeInv'
<1>1. CASE Next
  <2>1. PICK u \in Users : \/ Program(u) \/ Fail(u)
                           \/ UneditOpen(u) \/ UneditWrite(u) \/ UneditRemove(u)
                           \/ CleanRemove(u)
    BY <1>1 DEF Next
  <2>2. TypedStep(u)
    <3>1. CASE Program(u)
      BY <3>1, GetTyped, DeltaTyped, UngetTyped, RmdelTyped, UneditReadTyped, CleanReadTyped
         DEF Program
    <3> QED
      BY <2>1, <3>1, FailTyped, UneditOpenTyped, UneditWriteTyped, UneditRemoveTyped,
         CleanRemoveTyped
  <2> QED
    BY <2>2, TypedStepKeeps
<1>2. CASE UNCHANGED vars
  BY <1>2 DEF vars, TypeInv
<1> QED
  BY <1>1, <1>2

LEMMA InitTable ==
  ASSUME Init
  PROVE  /\ table \in Tables /\ Len(table) = 1
         /\ table[1].sid = <<1, 1, 0, 0>> /\ table[1].prev = 0 /\ table[1].type = "D"
<1> DEFINE d == [sid |-> <<1, 1, 0, 0>>, prev |-> 0, type |-> "D"]
<1>1. <<1, 1, 0, 0>> \in DeltaSids
  BY DEF DeltaSids, WellFormed, SidTuples, Components, IsNull
<1>2. d \in DeltaRecords /\ d.sid = <<1, 1, 0, 0>> /\ d.prev = 0 /\ d.type = "D"
  BY <1>1 DEF DeltaRecords
<1> HIDE DEF d
<1>3. table = <<d>>
  BY DEF Init, d
<1> QED
  BY <1>2, <1>3 DEF Tables

LEMMA TypeInit ==
  ASSUME Init
  PROVE  TypeInv
<1>1. table \in Tables /\ Len(table) = 1
  BY InitTable
<1>2. cmd = [u \in Users |-> Rest(<<>>)] /\ GoodCmd(Rest(<<>>))
  <2>1. Idle = Rest(<<>>)
    BY DEF Idle, Rest
  <2> QED
    BY <2>1, QuietMembers, RestType DEF Init
<1>3. /\ cmd \in [Users -> [steps : Plans, seen : LockSets \cup {Absent}]]
      /\ \A u \in Users : Is(cmd[u].steps, "unedit_p") \/ Is(cmd[u].steps, "unedit_write") =>
                            cmd[u].seen \in LockSets
  BY <1>2 DEF GoodCmd, Cmds
<1>4. GFile(1, FALSE) \in GFiles /\ GFile(1, FALSE).text <= 1
  BY GFileParts
<1>5. gfile \in [Users -> {Absent, GFile(1, FALSE)}]
  BY DEF Init
<1>6. /\ gfile \in [Users -> GFiles \cup {Absent}]
      /\ \A u \in Users : gfile[u] # Absent => gfile[u] \in GFiles /\ gfile[u].text <= Len(table)
  BY <1>1, <1>4, <1>5
<1>7. /\ passed \in [Users -> BOOLEAN] /\ botched \in [Users -> BOOLEAN]
      /\ damaged \in BOOLEAN /\ failures \in 0..MaxFailures
  <2>1. failures \in 0..MaxFailures
    BY FrontEndAssumption DEF Init
  <2>2. passed \in [Users -> BOOLEAN] /\ botched \in [Users -> BOOLEAN] /\ damaged \in BOOLEAN
    BY DEF Init
  <2> QED
    BY <2>1, <2>2
<1>8. pfile = Absent
  BY DEF Init
<1> QED
  BY <1>1, <1>3, <1>6, <1>7, <1>8 DEF TypeInv

LEMMA TypeImpliesTypeOK ==
  ASSUME TypeInv
  PROVE  TypeOK
<1>1. \A i \in DOMAIN table : table[i].prev \in 0..(i - 1) /\ Components(table[i].sid) \in {2, 4}
  <2>1. /\ DOMAIN table = 1..Len(table) /\ \A i \in 1..Len(table) : table[i] \in DeltaRecords
        /\ \A i \in 1..Len(table) : table[i].prev < i
    BY TableFacts DEF TypeInv, Tables
  <2> QED
    BY <2>1 DEF DeltaRecords, DeltaSids
<1>2. \A u \in Users : gfile[u] # Absent => gfile[u].text \in 0..Len(table)
  BY TableFacts DEF TypeInv, GFiles
<1>3. ASSUME NEW u \in Users PROVE Len(cmd[u].steps) <= 2
  <2>1. cmd[u].steps \in Plans
    BY CmdFacts
  <2> QED
    BY <2>1, PlanParts DEF Plans, EditAgain, FixAgain
<1>4. \A l \in Locks : l.user \in Users
  BY LocksType
<1> QED
  BY <1>1, <1>2, <1>3, <1>4 DEF TypeOK, TypeInv

\* The delta table, the p-file, the g-files and the commands of all users are always well
\* formed, also while a file is being damaged (TypeOK).
THEOREM FrontEndIsWellTyped == Spec => []TypeOK
<1>1. Init => TypeInv
  BY TypeInit
<1>2. TypeInv /\ [Next]_vars => TypeInv'
  BY TypeNext
<1>3. TypeInv => TypeOK
  BY TypeImpliesTypeOK
<1> QED
  BY <1>1, <1>2, <1>3, PTL DEF Spec

-----------------------------------------------------------------------------
(* The invariant.                                                          *)

\* A writable file with the text of a delta.
HasText(g) == g # Absent /\ g.writable /\ g.text # 0
Copy(t, g) == g # Absent /\ g.writable /\ g.text \in 1..Len(t)

\* What a lock promises its holder: he has a writable file with the text of a delta, and
\* it is the one that he got unless one of the exceptions of EditMatchesLock holds.
TextInv(t, g, p, b, l) ==
  \/ b
  \/ /\ Copy(t, g)
     /\ \/ g.text = FindDelta(t, l.got)
        \/ t[g.text].type = "R" /\ t[g.text].prev = FindDelta(t, l.got)
        \/ p
        \/ Release(t[g.text].sid) < Release(l.got)
        \/ t[g.text].type = "R" /\ ~OnTrunk(t[g.text].sid)

\* A lock whose SID is already checked in is one that a delta has left behind.
Fits(t, l) ==
  /\ l.got \in CurrentSids(t)
  /\ IF OnTrunk(l.delta) THEN Follows(l.delta, l.got) ELSE Release(l.delta) = Release(l.got)
  /\ IF l.delta \in CurrentSids(t)
     THEN t[FindDelta(t, l.delta)].prev = FindDelta(t, l.got)
     ELSE OnTrunk(l.delta) => l.got = HighestRelease(t)

\* The locks and the delta table.
LocksInv(t, locks) ==
  /\ \A l \in locks : Fits(t, l)
  /\ \A l, m \in locks : l.delta = m.delta \/ l.got = m.got => l = m

\* What a user has between two programs of a macro.
Copied(t, g, mine) == mine = {} /\ Copy(t, g)

PlanInv(t, g, p, b, steps, mine) ==
  /\ Is(steps, "unedit_g") => mine = {}
  /\ Is(steps, "clean_g") => \A l \in mine : "b" \in Head(steps).opts /\ IsBranch(l.delta)
  /\ steps = EditAgain =>
       b \/ (Copied(t, g, mine) /\ (p \/ (g.text = Len(t) /\ t[Len(t)].type = "D")))
  /\ Is(steps, "rmdel") =>
       /\ b \/ (Copied(t, g, mine) /\ (p \/ t[g.text].type = "D"))
       /\ HasText(g) => Copy(t, g) /\ t[g.text].sid = Head(steps).rid
  /\ steps = FixAgain =>
       \/ b
       \/ /\ Copied(t, g, mine)
          /\ \/ p
             \/ /\ t[g.text].type = "R"
                /\ \/ ~OnTrunk(t[g.text].sid)
                   \/ t[g.text].prev = FindDelta(t, HighestRelease(t))

UneditInv ==
  /\ \A u \in Users : Running(u, "unedit_p") => pfile = cmd[u].seen /\ pfile # Absent
  /\ \A u \in Restoring : /\ pfile = {}
                          /\ \A v \in Users \ {u} : v \notin Restoring /\ ~Running(v, "unedit_p")

SafeInv ==
  /\ TableInv(table)
  /\ LocksInv(table, AllLocks)
  /\ UneditInv
  /\ \A l \in AllLocks : TextInv(table, gfile[l.user], passed[l.user], botched[l.user], l)
  /\ \A u \in Users :
       PlanInv(table, gfile[u], passed[u], botched[u], cmd[u].steps, Mine(u, AllLocks))

\* Absent is no set of locks and no g-file.
AbsentIsNoFile == Absent \notin LockSets /\ Absent \notin GFiles

-----------------------------------------------------------------------------
(* What changes of the delta table leave alone.                            *)

Extends(w, t) ==
  /\ Len(w) \in Nat /\ Len(t) \in Nat /\ Len(w) >= Len(t)
  /\ \A i \in 1..Len(t) : w[i].sid = t[i].sid /\ w[i].prev = t[i].prev
  /\ \A i \in 1..Len(t) : t[i].type = "R" => w[i].type = "R"

LEMMA TextKept ==
  ASSUME NEW t, NEW w, Extends(w, t), NEW l, FindDelta(w, l.got) = FindDelta(t, l.got),
         NEW g, NEW p, NEW q, p => q, NEW b, NEW c, b => c, TextInv(t, g, p, b, l)
  PROVE  TextInv(w, g, q, c, l)
<1>1. CASE ~b
  <2>1. Copy(t, g) /\ Copy(w, g) /\ g.text \in 1..Len(t)
    BY <1>1 DEF TextInv, Copy, Extends
  <2> QED
    BY <1>1, <2>1 DEF TextInv, Extends
<1> QED
  BY <1>1 DEF TextInv

LEMMA PlanKept ==
  ASSUME NEW t, NEW w, Extends(w, t), NEW g, NEW p, NEW q, NEW b, NEW c,
         NEW steps \in Plans, NEW mine,
         PlanInv(t, g, p, b, steps, mine), NEW few, few \subseteq mine,
         Edits(steps) => (p => q) /\ (b => c) /\ (w = t \/ q)
  PROVE  PlanInv(w, g, q, c, steps, few)
<1>1. /\ Copied(t, g, mine) => Copied(w, g, few) /\ g.text \in 1..Len(t)
      /\ Copy(t, g) => Copy(w, g) /\ g.text \in 1..Len(t)
  BY DEF Copied, Copy, Extends
<1>2. /\ Is(steps, "unedit_g") => few = {}
      /\ Is(steps, "clean_g") => \A l \in few : "b" \in Head(steps).opts /\ IsBranch(l.delta)
  BY DEF PlanInv
<1>3. ASSUME steps = EditAgain
      PROVE  c \/ (Copied(w, g, few) /\ (q \/ (g.text = Len(w) /\ w[Len(w)].type = "D")))
  <2>1. Edits(steps)
    BY <1>3, PlanParts DEF EditAgain
  <2> QED
    BY <1>1, <1>3, <2>1 DEF PlanInv
<1>4. ASSUME Is(steps, "rmdel")
      PROVE  /\ c \/ (Copied(w, g, few) /\ (q \/ w[g.text].type = "D"))
             /\ HasText(g) => Copy(w, g) /\ w[g.text].sid = Head(steps).rid
  <2>1. /\ b \/ (Copied(t, g, mine) /\ (p \/ t[g.text].type = "D"))
        /\ HasText(g) => Copy(t, g) /\ t[g.text].sid = Head(steps).rid
    BY <1>4 DEF PlanInv
  <2>2. HasText(g) => w[g.text].sid = t[g.text].sid
    BY <1>1, <2>1 DEF Extends
  <2>3. Edits(steps)
    BY <1>4, PlanParts DEF Plans, EditAgain, FixAgain
  <2> QED
    BY <1>1, <2>1, <2>2, <2>3
<1>5. ASSUME steps = FixAgain
      PROVE  \/ c
             \/ /\ Copied(w, g, few)
                /\ \/ q
                   \/ /\ w[g.text].type = "R"
                      /\ \/ ~OnTrunk(w[g.text].sid)
                         \/ w[g.text].prev = FindDelta(w, HighestRelease(w))
  <2>1. Edits(steps)
    BY <1>5, PlanParts DEF FixAgain
  <2> QED
    BY <1>1, <1>5, <2>1 DEF PlanInv
<1> QED
  BY <1>2, <1>3, <1>4, <1>5 DEF PlanInv

LEMMA AddedLocks ==
  ASSUME NEW t, TableInv(t), NEW locks, LocksInv(t, locks), NEW l \in locks, l.delta \in DeltaSids,
         l.delta \notin CurrentSids(t)
  PROVE  LET w == Added(t, l.got, l.delta)
         IN  /\ TableInv(w) /\ LocksInv(w, locks) /\ Extends(w, t)
             /\ Len(w) \in CurrentDeltas(w) /\ Len(w) = Len(t) + 1
             /\ \A m \in locks : FindDelta(w, m.got) = FindDelta(t, m.got)
<1> DEFINE w == Added(t, l.got, l.delta)
<1>1. /\ t \in Tables /\ l.got \in CurrentSids(t) /\ Tame(t, l.got, l.delta)
  BY DEF TableInv, LocksInv, Fits, Tame
<1>2. TableInv(w)
  BY <1>1, AddedTable
<1>3. /\ \A id \in CurrentSids(t) : FindDelta(w, id) = FindDelta(t, id)
      /\ FindDelta(w, l.delta) = Len(w)
      /\ ~OnTrunk(l.delta) => HighestRelease(w) = HighestRelease(t)
  BY <1>1, AddedKeeps
<1>4. /\ Len(w) = Len(t) + 1 /\ Len(t) + 1 \in Nat
      /\ \A i \in 1..Len(t) : w[i] = t[i]
      /\ w[Len(w)].prev = FindDelta(t, l.got)
      /\ CurrentDeltas(w) = CurrentDeltas(t) \cup {Len(t) + 1}
      /\ CurrentSids(w) = CurrentSids(t) \cup {l.delta}
      /\ Len(t) \in Nat
  BY <1>1, AddedParts, TableFacts
<1> HIDE DEF w
<1>5. Extends(w, t)
  BY <1>4 DEF Extends
<1>6. ASSUME NEW m \in locks
      PROVE  Fits(w, m)
  <2>1. Fits(t, m) /\ m.got \in CurrentSids(t)
    BY DEF LocksInv, Fits
  <2>2. FindDelta(w, m.got) = FindDelta(t, m.got) /\ m.got \in CurrentSids(w)
    BY <1>3, <1>4, <2>1
  <2>3. CASE m.delta = l.delta
    <3>1. m = l
      BY <2>3 DEF LocksInv
    <3> QED
      BY <1>3, <1>4, <2>1, <2>2, <3>1 DEF Fits
  <2>4. CASE m.delta # l.delta /\ m.delta \in CurrentSids(t)
    <3>1. FindDelta(t, m.delta) \in 1..Len(t)
      BY <1>1, <2>4, FindDeltaFinds, TableFacts
    <3>2. FindDelta(w, m.delta) = FindDelta(t, m.delta) /\ w[FindDelta(t, m.delta)] = t[FindDelta(t, m.delta)]
      BY <1>3, <1>4, <2>4, <3>1
    <3> QED
      BY <1>4, <2>1, <2>2, <2>4, <3>2 DEF Fits
  <2>5. CASE m.delta # l.delta /\ m.delta \notin CurrentSids(t)
    <3>1. ASSUME OnTrunk(m.delta) PROVE m.got = HighestRelease(w)
      <4>1. m.got = HighestRelease(t) /\ m.got # l.got
        BY <2>1, <2>5, <3>1 DEF Fits, LocksInv
      <4>2. ~OnTrunk(l.delta)
        BY <1>1, <4>1 DEF Tame
      <4> QED
        BY <1>3, <4>1, <4>2
    <3>2. m.delta \notin CurrentSids(w)
      BY <1>4, <2>5
    <3> QED
      BY <2>1, <2>2, <3>1, <3>2 DEF Fits
  <2> QED
    BY <2>3, <2>4, <2>5
<1>7. \A k, m \in locks : k.delta = m.delta \/ k.got = m.got => k = m
  BY DEF LocksInv
<1>8. LocksInv(w, locks)
  BY <1>6, <1>7 DEF LocksInv
<1>9. \A m \in locks : FindDelta(w, m.got) = FindDelta(t, m.got)
  BY <1>3 DEF LocksInv, Fits
<1> QED
  BY <1>2, <1>4, <1>5, <1>8, <1>9 DEF w

LEMMA RemovedLocks ==
  ASSUME NEW t, TableInv(t), NEW locks, LocksInv(t, locks), NEW id \in CurrentSids(t),
         \A l \in locks : l.got # id,
         \A i \in CurrentDeltas(t) : t[i].prev # FindDelta(t, id)
  PROVE  LET w == Removed(t, id)
         IN  /\ TableInv(w) /\ LocksInv(w, locks) /\ Extends(w, t)
             /\ \A m \in locks : FindDelta(w, m.got) = FindDelta(t, m.got)
<1> DEFINE w == Removed(t, id)
           seq == FindDelta(t, id)
<1>1. /\ TableInv(w) /\ CurrentSids(w) = CurrentSids(t) \ {id}
      /\ \A x \in CurrentSids(w) : FindDelta(w, x) = FindDelta(t, x)
  BY RemovedTable
<1>2. OnTrunk(id) => id = HighestRelease(t) /\ t[seq].prev = FindDelta(w, HighestRelease(w))
  BY RemovedTrunk
<1>3. ~OnTrunk(id) => HighestRelease(w) = HighestRelease(t)
  BY RemovedTrunk
<1>4. t \in Tables /\ w \in Tables
  BY <1>1 DEF TableInv
<1>5. /\ Len(w) = Len(t) /\ w[seq].type = "R"
      /\ \A i \in 1..Len(t) : w[i].sid = t[i].sid /\ w[i].prev = t[i].prev
      /\ \A i \in 1..Len(t) : i # seq => w[i].type = t[i].type
  BY <1>4, RemovedDelta
<1>6. Len(t) \in Nat
  BY <1>4, TableFacts
<1> HIDE DEF w
<1>7. Extends(w, t)
  BY <1>5, <1>6 DEF Extends
<1>8. ASSUME NEW m \in locks
      PROVE  Fits(w, m)
  <2>1. Fits(t, m) /\ m.got \in CurrentSids(t) /\ m.got # id
    BY DEF LocksInv, Fits
  <2>2. m.got \in CurrentSids(w) /\ FindDelta(w, m.got) = FindDelta(t, m.got)
    BY <1>1, <2>1
  <2>3. CASE m.delta = id
    <3>1. ASSUME OnTrunk(m.delta) PROVE m.got = HighestRelease(w)
      <4>1. FindDelta(w, m.got) = FindDelta(w, HighestRelease(w))
        BY <1>2, <2>1, <2>2, <2>3, <3>1 DEF Fits
      <4>2. FindDelta(w, m.got) # 0 /\ w[FindDelta(w, m.got)].sid = m.got
        BY <1>4, <2>2, FindDeltaFinds, FindDeltaZero
      <4>3. HighestRelease(w) \in CurrentSids(w)
        BY <1>4, <4>1, <4>2, FindDeltaZero
      <4>4. w[FindDelta(w, HighestRelease(w))].sid = HighestRelease(w)
        BY <1>4, <4>3, FindDeltaFinds
      <4> QED
        BY <4>1, <4>2, <4>4
    <3>2. m.delta \notin CurrentSids(w)
      BY <1>1, <2>3
    <3> QED
      BY <2>1, <2>2, <3>1, <3>2 DEF Fits
  <2>4. CASE m.delta # id /\ m.delta \in CurrentSids(t)
    <3>1. FindDelta(t, m.delta) \in 1..Len(t)
      BY <1>4, <2>4, FindDeltaFinds, TableFacts
    <3>2. /\ FindDelta(w, m.delta) = FindDelta(t, m.delta) /\ m.delta \in CurrentSids(w)
          /\ w[FindDelta(t, m.delta)].prev = t[FindDelta(t, m.delta)].prev
      BY <1>1, <1>5, <2>4, <3>1
    <3> QED
      BY <2>1, <2>2, <2>4, <3>2 DEF Fits
  <2>5. CASE m.delta # id /\ m.delta \notin CurrentSids(t)
    <3>1. ASSUME OnTrunk(m.delta) PROVE m.got = HighestRelease(w)
      <4>1. m.got = HighestRelease(t)
        BY <2>1, <2>5, <3>1 DEF Fits
      <4>2. ~OnTrunk(id)
        BY <1>2, <2>1, <4>1
      <4> QED
        BY <1>3, <4>1, <4>2
    <3>2. m.delta \notin CurrentSids(w)
      BY <1>1, <2>5
    <3> QED
      BY <2>1, <2>2, <3>1, <3>2 DEF Fits
  <2> QED
    BY <2>3, <2>4, <2>5
<1>9. LocksInv(w, locks)
  BY <1>8 DEF LocksInv
<1>10. \A m \in locks : FindDelta(w, m.got) = FindDelta(t, m.got)
  BY <1>1, <1>8 DEF Fits
<1> QED
  BY <1>1, <1>7, <1>9, <1>10 DEF w

LEMMA ReservedLock ==
  ASSUME NEW t, TableInv(t), NEW locks, LocksInv(t, locks), NEW l,
         l.got \in CurrentSids(t), l.delta \notin CurrentSids(t), Tame(t, l.got, l.delta),
         \A m \in locks : m.got # l.got /\ m.delta # l.delta
  PROVE  LocksInv(t, locks \cup {l})
<1>1. Fits(t, l)
  BY DEF Fits, Tame
<1> QED
  BY <1>1 DEF LocksInv

-----------------------------------------------------------------------------
(* The steps.                                                              *)

LEMMA RunningIs ==
  ASSUME NEW v
  PROVE  /\ \A prog : Running(v, prog) <=> Is(cmd[v].steps, prog)
         /\ \A prog : Running(v, prog)' <=> Is(cmd'[v].steps, prog)
         /\ WillEdit(v) <=> Edits(cmd[v].steps)
         /\ WillEdit(v)' <=> Edits(cmd'[v].steps)
BY DEF Running, IsIdle, Is, WillEdit, Edits

\* What is remembered of a user who is still editing after a step.
LEMMA NoteIs ==
  ASSUME TypeInv, NEW u \in Users, NEW botches \in BOOLEAN, Note(u, botches)
  PROVE  \A v \in Users : Mine(v, AllLocks') # {} \/ Edits(cmd'[v].steps) =>
           /\ botched[v] => botched'[v]
           /\ v = u /\ botches => botched'[v]
           /\ passed[v] /\ (v # u \/ Mine(u, AllLocks) = {} \/ Mine(u, AllLocks') # {}) => passed'[v]
           /\ v # u /\ table' # table /\ Edits(cmd[v].steps) => passed'[v]
<1> SUFFICES ASSUME NEW v \in Users, Mine(v, AllLocks') # {} \/ Edits(cmd'[v].steps)
             PROVE  /\ botched[v] => botched'[v]
                    /\ v = u /\ botches => botched'[v]
                    /\ passed[v] /\ (v # u \/ Mine(u, AllLocks) = {} \/ Mine(u, AllLocks') # {}) => passed'[v]
                    /\ v # u /\ table' # table /\ Edits(cmd[v].steps) => passed'[v]
  OBVIOUS
<1>1. (WillEdit(v) <=> Edits(cmd[v].steps)) /\ (WillEdit(v)' <=> Edits(cmd'[v].steps))
  BY RunningIs
<1>2. Editing(v)'
  BY <1>1 DEF Editing
<1>3. Afresh(u) <=> Mine(u, AllLocks) # {} /\ Mine(u, AllLocks') = {}
  BY DEF Afresh
<1>4. /\ passed'[v] = (/\ passed[v] \/ (v # u /\ table' # table /\ WillEdit(v))
                       /\ Editing(v)' /\ ~(v = u /\ Afresh(u)))
      /\ botched'[v] = ((botched[v] \/ (v = u /\ botches)) /\ Editing(v)')
  BY DEF Note
<1> HIDE DEF Editing, Afresh
<1> QED
  BY <1>1, <1>2, <1>3, <1>4

\* What the step of one user does to the others.
Undisturbed(u) ==
  \A v \in Users \ {u} :
    /\ gfile'[v] = gfile[v] /\ cmd'[v] = cmd[v]
    /\ Mine(v, AllLocks') \subseteq Mine(v, AllLocks)

LEMMA Keeps ==
  ASSUME TypeInv, SafeInv, NEW u \in Users, NEW botches \in BOOLEAN, Note(u, botches),
         Undisturbed(u),
         TableInv(table'), LocksInv(table', AllLocks'), UneditInv', Extends(table', table),
         \A l \in AllLocks' : l.user \in Users,
         \A l \in AllLocks' : l.user # u => FindDelta(table', l.got) = FindDelta(table, l.got),
         \A l \in Mine(u, AllLocks') : TextInv(table', gfile'[u], passed'[u], botched'[u], l),
         PlanInv(table', gfile'[u], passed'[u], botched'[u], cmd'[u].steps, Mine(u, AllLocks'))
  PROVE  SafeInv'
<1>1. ASSUME NEW l \in AllLocks'
      PROVE  TextInv(table', gfile'[l.user], passed'[l.user], botched'[l.user], l)
  <2>1. CASE l.user = u
    BY <2>1 DEF Mine
  <2>2. CASE l.user # u
    <3> DEFINE v == l.user
    <3>1. v \in Users \ {u} /\ l \in Mine(v, AllLocks')
      BY <2>2 DEF Mine
    <3>2. /\ l \in AllLocks /\ gfile'[v] = gfile[v]
          /\ passed[v] => passed'[v]
          /\ botched[v] => botched'[v]
      <4>1. l \in AllLocks /\ gfile'[v] = gfile[v]
        BY <3>1 DEF Undisturbed, Mine
      <4> QED
        BY <3>1, <4>1, NoteIs
    <3>3. TextInv(table, gfile[v], passed[v], botched[v], l)
      BY <3>2 DEF SafeInv
    <3>4. FindDelta(table', l.got) = FindDelta(table, l.got)
      BY <2>2
    <3> HIDE DEF v
    <3>5. TextInv(table', gfile[v], passed'[v], botched'[v], l)
      BY <3>2, <3>3, <3>4, TextKept
    <3> QED
      BY <3>2, <3>5 DEF v
  <2> QED
    BY <2>1, <2>2
<1>2. ASSUME NEW v \in Users
      PROVE  PlanInv(table', gfile'[v], passed'[v], botched'[v], cmd'[v].steps, Mine(v, AllLocks'))
  <2>1. CASE v = u
    BY <2>1
  <2>2. CASE v # u
    <3>1. /\ gfile'[v] = gfile[v] /\ cmd'[v] = cmd[v]
          /\ Mine(v, AllLocks') \subseteq Mine(v, AllLocks)
      BY <2>2 DEF Undisturbed
    <3>2. Edits(cmd[v].steps) => /\ passed[v] => passed'[v]
                                 /\ botched[v] => botched'[v]
                                 /\ table' = table \/ passed'[v]
      BY <2>2, <3>1, NoteIs
    <3>3. /\ PlanInv(table, gfile[v], passed[v], botched[v], cmd[v].steps, Mine(v, AllLocks))
          /\ cmd[v].steps \in Plans
      BY CmdFacts DEF SafeInv
    <3>4. PlanInv(table', gfile[v], passed'[v], botched'[v], cmd[v].steps, Mine(v, AllLocks'))
      BY <3>1, <3>2, <3>3, PlanKept
    <3> QED
      BY <3>1, <3>4
  <2> QED
    BY <2>1, <2>2
<1> QED
  BY <1>1, <1>2 DEF SafeInv

LEMMA NobodyRestores ==
  /\ Restoring = {} => AllLocks = Locks
  /\ Restoring' = {} => AllLocks' = Locks'
BY DEF AllLocks

\* A program that leaves the files undamaged meets no unedit.
LEMMA ProgramFrame ==
  ASSUME TypeInv, SafeInv, NEW u \in Users, ~Running(u, "unedit_write"), NEW c,
         ~Is(c.steps, "unedit_write"), cmd' = [cmd EXCEPT ![u] = c],
         Is(c.steps, "unedit_p") => pfile' = c.seen /\ pfile' # Absent,
         Damage(u), ~damaged'
  PROVE  /\ AllLocks = Locks /\ AllLocks' = Locks' /\ UneditInv'
         /\ cmd'[u] = c /\ \A v \in Users \ {u} : cmd'[v] = cmd[v]
<1>1. cmd'[u] = c /\ \A v \in Users \ {u} : cmd'[v] = cmd[v]
  BY DEF TypeInv
<1>2. ~Torn(u)
  BY DEF Damage
<1>3. \A v \in Users \ {u} : /\ ~Running(v, "unedit_write")
                             /\ Running(v, "unedit_p") => pfile' = pfile
  BY <1>2 DEF Torn
<1>4. Restoring = {}
  BY <1>3 DEF Restoring
<1>5. Restoring' = {}
  <2>1. \A v \in Users : ~Running(v, "unedit_write")'
    BY <1>1, <1>3, RunningIs
  <2> QED
    BY <2>1 DEF Restoring
<1>6. ASSUME NEW v \in Users, Running(v, "unedit_p")' PROVE pfile' = cmd'[v].seen /\ pfile' # Absent
  <2>1. Is(cmd'[v].steps, "unedit_p")
    BY <1>6, RunningIs
  <2>2. CASE v = u
    BY <1>1, <2>1, <2>2
  <2>3. CASE v # u
    <3>1. Running(v, "unedit_p") /\ cmd'[v] = cmd[v]
      BY <1>1, <2>1, <2>3, RunningIs
    <3> QED
      BY <1>3, <2>3, <3>1 DEF SafeInv, UneditInv
  <2> QED
    BY <2>2, <2>3
<1>7. UneditInv'
  BY <1>5, <1>6 DEF UneditInv
<1> QED
  BY <1>1, <1>4, <1>5, <1>7, NobodyRestores

LEMMA ProgramKeeps ==
  ASSUME TypeInv, TypeInv', SafeInv, NEW u \in Users, ~Running(u, "unedit_write"), NEW c,
         ~Is(c.steps, "unedit_write"), cmd' = [cmd EXCEPT ![u] = c],
         Is(c.steps, "unedit_p") => pfile' = c.seen /\ pfile' # Absent,
         Damage(u), ~damaged', NEW botches \in BOOLEAN, Note(u, botches),
         \A v \in Users \ {u} : gfile'[v] = gfile[v] /\ Mine(v, Locks') \subseteq Mine(v, Locks),
         TableInv(table'), LocksInv(table', Locks'), Extends(table', table),
         \A l \in Locks' : l.user # u => FindDelta(table', l.got) = FindDelta(table, l.got),
         \A l \in Mine(u, Locks') : TextInv(table', gfile'[u], passed'[u], botched'[u], l),
         PlanInv(table', gfile'[u], passed'[u], botched'[u], c.steps, Mine(u, Locks'))
  PROVE  SafeInv'
<1>1. /\ AllLocks = Locks /\ AllLocks' = Locks' /\ UneditInv'
      /\ cmd'[u] = c /\ \A v \in Users \ {u} : cmd'[v] = cmd[v]
  BY ProgramFrame
<1>2. \A l \in Locks' : l.user \in Users
  BY DEF TypeInv, Locks, LocksOf, LockSets, EditLock
<1>3. Undisturbed(u)
  BY <1>1 DEF Undisturbed
<1> QED
  BY <1>1, <1>2, <1>3, Keeps

LEMMA LocksAre ==
  ASSUME AbsentIsNoFile, NEW locks \in LockSets, SetLocks(locks)
  PROVE  Locks' = locks
BY DEF AbsentIsNoFile, SetLocks, Locks, LocksOf

\* A file that stays is as good as it was, for a lock that stays.
LEMMA OwnText ==
  ASSUME TypeInv, SafeInv, NEW u \in Users, NEW botches \in BOOLEAN, Note(u, botches),
         gfile'[u] = gfile[u], Extends(table', table),
         NEW l \in Mine(u, AllLocks'), l \in AllLocks,
         FindDelta(table', l.got) = FindDelta(table, l.got)
  PROVE  TextInv(table', gfile'[u], passed'[u], botched'[u], l)
<1>1. l.user = u /\ Mine(u, AllLocks') # {}
  BY DEF Mine
<1>2. TextInv(table, gfile[u], passed[u], botched[u], l)
  BY <1>1 DEF SafeInv
<1>3. (passed[u] => passed'[u]) /\ (botched[u] => botched'[u])
  BY <1>1, NoteIs
<1> QED
  BY <1>2, <1>3, TextKept

LEMMA SameLocks ==
  ASSUME UNCHANGED pfile
  PROVE  Locks' = Locks
BY DEF Locks, LocksOf

LEMMA SameTable ==
  ASSUME TypeInv, UNCHANGED table
  PROVE  Extends(table', table)
<1>1. Len(table) \in Nat
  BY TableFacts DEF TypeInv
<1> QED
  BY <1>1 DEF Extends

\* Nobody who is editing has no writable file.
LEMMA EditorsHaveFiles ==
  ASSUME SafeInv, NEW u, ~Writable(u), ~botched[u], AllLocks = Locks
  PROVE  Mine(u, Locks) = {}
<1> SUFFICES ASSUME NEW l \in Mine(u, Locks) PROVE FALSE
  OBVIOUS
<1>1. l \in AllLocks /\ l.user = u
  BY DEF Mine
<1>2. TextInv(table, gfile[u], passed[u], botched[u], l)
  BY <1>1 DEF SafeInv
<1> QED
  BY <1>2 DEF TextInv, Copy, Writable

LEMMA NotRestoring ==
  ASSUME NEW u, NEW todo \in Todo(u), NEW prog, At(todo, prog), prog # "unedit_write"
  PROVE  ~Running(u, "unedit_write")
BY DEF Todo, Running, IsIdle, At

LEMMA IdlePlan ==
  ASSUME NEW t, NEW g, NEW p, NEW b, NEW mine
  PROVE  /\ PlanInv(t, g, p, b, <<>>, mine)
         /\ PlanInv(t, g, p, b, One("get", {}), mine) /\ PlanInv(t, g, p, b, One("get", {"t"}), mine)
         /\ PlanInv(t, g, p, b, RestOfBranch, mine) /\ PlanInv(t, g, p, b, One("unedit_p", {}), mine)
         /\ PlanInv(t, g, p, b, One("unedit_write", {}), mine)
<1>1. ASSUME NEW steps, ~Is(steps, "unedit_g"), ~Is(steps, "clean_g"), ~Is(steps, "rmdel"),
             steps # EditAgain, steps # FixAgain
      PROVE  PlanInv(t, g, p, b, steps, mine)
  BY <1>1 DEF PlanInv
<1>2. <<>> # EditAgain /\ <<>> # FixAgain /\ RestOfBranch # EditAgain /\ RestOfBranch # FixAgain
  BY PlanParts DEF EditAgain, FixAgain
<1>3. One("unedit_p", {}) # EditAgain /\ One("unedit_p", {}) # FixAgain
  BY PlanParts DEF EditAgain, FixAgain
<1>4. One("unedit_write", {}) # EditAgain /\ One("unedit_write", {}) # FixAgain
  BY PlanParts DEF EditAgain, FixAgain
<1>5. /\ One("get", {}) # EditAgain /\ One("get", {}) # FixAgain
      /\ One("get", {"t"}) # EditAgain /\ One("get", {"t"}) # FixAgain
  <2>1. "e" \notin {} /\ "e" \notin {"t"} /\ "e" \in {"e", "t", "g"} /\ "e" \in {"e", "g"}
    OBVIOUS
  <2> QED
    BY <2>1, PlanParts DEF EditAgain, FixAgain
<1> QED
  BY <1>1, <1>2, <1>3, <1>4, <1>5, PlanParts

LEMMA AgainPlans ==
  /\ EditAgain # FixAgain /\ Edits(EditAgain) /\ Edits(FixAgain)
  /\ \A prog \in {"unedit_g", "clean_g", "rmdel"} : ~Is(EditAgain, prog) /\ ~Is(FixAgain, prog)
  /\ \A rid : RestOfFix(rid) # EditAgain /\ RestOfFix(rid) # FixAgain
  /\ One("unedit_g", {}) # EditAgain /\ One("unedit_g", {}) # FixAgain
<1>1. "t" \in {"e", "t", "g"} /\ "t" \notin {"e", "g"}
  OBVIOUS
<1>2. EditAgain # FixAgain
  <2>1. Head(EditAgain).opts = {"e", "t", "g"} /\ Head(FixAgain).opts = {"e", "g"}
    BY PlanParts DEF EditAgain, FixAgain
  <2> QED
    BY <1>1, <2>1
<1>3. \A prog \in {"unedit_g", "clean_g", "rmdel"} : ~Is(EditAgain, prog) /\ ~Is(FixAgain, prog)
  BY PlanParts DEF EditAgain, FixAgain
<1>4. \A rid : RestOfFix(rid) # EditAgain /\ RestOfFix(rid) # FixAgain
  BY PlanParts DEF EditAgain, FixAgain
<1>5. One("unedit_g", {}) # EditAgain /\ One("unedit_g", {}) # FixAgain
  BY PlanParts DEF EditAgain, FixAgain
<1>6. Edits(EditAgain) /\ Edits(FixAgain)
  BY PlanParts DEF EditAgain, FixAgain
<1> QED
  BY <1>2, <1>3, <1>4, <1>5, <1>6

LEMMA UneditReadSafe ==
  ASSUME TypeInv, TypeInv', SafeInv, NEW u \in Users, NEW todo \in Todo(u), UneditRead(u, todo), ~damaged'
  PROVE  SafeInv'
<1> DEFINE c == [steps |-> One("unedit_p", {}), seen |-> pfile]
<1>1. /\ At(todo, "unedit") /\ cmd' = [cmd EXCEPT ![u] = c] /\ pfile # Absent
      /\ UNCHANGED <<table, pfile, gfile>> /\ Damage(u) /\ Note(u, FALSE)
  BY ObserveIs DEF UneditRead, One
<1>2. ~Running(u, "unedit_write")
  BY <1>1, NotRestoring
<1>3. c.steps = One("unedit_p", {}) /\ c.seen = pfile /\ ~Is(c.steps, "unedit_write")
  BY PlanParts
<1> HIDE DEF c
<1>4. AllLocks = Locks /\ AllLocks' = Locks' /\ Locks' = Locks
  BY <1>1, <1>2, <1>3, ProgramFrame, SameLocks
<1>5. Extends(table', table)
  BY <1>1, SameTable
<1>6. ASSUME NEW l \in Mine(u, Locks') PROVE TextInv(table', gfile'[u], passed'[u], botched'[u], l)
  <2>1. l \in AllLocks /\ l \in Mine(u, AllLocks')
    BY <1>4 DEF Mine
  <2> QED
    BY <1>1, <1>5, <2>1, OwnText
<1>7. TableInv(table') /\ LocksInv(table', Locks')
  BY <1>1, <1>4 DEF SafeInv
<1>8. PlanInv(table', gfile'[u], passed'[u], botched'[u], c.steps, Mine(u, Locks'))
  BY <1>3, IdlePlan
<1>9. /\ \A v \in Users \ {u} : gfile'[v] = gfile[v] /\ Mine(v, Locks') \subseteq Mine(v, Locks)
      /\ \A l \in Locks' : l.user # u => FindDelta(table', l.got) = FindDelta(table, l.got)
  BY <1>1, <1>4
<1>10. Is(c.steps, "unedit_p") => pfile' = c.seen /\ pfile' # Absent
  BY <1>1, <1>3
<1> QED
  BY <1>1, <1>2, <1>3, <1>5, <1>6, <1>7, <1>8, <1>9, <1>10, ProgramKeeps

LEMMA CleanReadSafe ==
  ASSUME TypeInv, TypeInv', SafeInv, NEW u \in Users, NEW todo \in Todo(u), CleanRead(u, todo), ~damaged'
  PROVE  SafeInv'
<1> DEFINE opts == Head(todo).opts
           c == Rest(One("clean_g", opts))
<1>1. /\ At(todo, "clean") /\ UNCHANGED <<table, pfile, gfile>> /\ Damage(u) /\ Note(u, FALSE)
      /\ cmd' = [cmd EXCEPT ![u] = c] /\ BeingEdited(todo) = {}
  <2>1. \A steps : [Idle EXCEPT !.steps = steps] = Rest(steps)
    BY DEF Idle, Rest
  <2> QED
    BY <2>1, ObserveIs DEF CleanRead, One
<1>2. ~Running(u, "unedit_write")
  BY <1>1, NotRestoring
<1>3. /\ c.steps = One("clean_g", opts) /\ ~Is(c.steps, "unedit_write") /\ ~Is(c.steps, "unedit_p")
  <2>1. c.steps = One("clean_g", opts)
    BY DEF Rest
  <2> QED
    BY <2>1, PlanParts
<1>4. \A l \in Locks : "b" \in opts /\ IsBranch(l.delta)
  BY <1>1 DEF BeingEdited, Has
<1> HIDE DEF c, opts
<1>5. AllLocks = Locks /\ AllLocks' = Locks' /\ Locks' = Locks
  BY <1>1, <1>2, <1>3, ProgramFrame, SameLocks
<1>6. Extends(table', table)
  BY <1>1, SameTable
<1>7. ASSUME NEW l \in Mine(u, Locks') PROVE TextInv(table', gfile'[u], passed'[u], botched'[u], l)
  <2>1. l \in AllLocks /\ l \in Mine(u, AllLocks')
    BY <1>5 DEF Mine
  <2> QED
    BY <1>1, <1>6, <2>1, OwnText
<1>8. TableInv(table') /\ LocksInv(table', Locks')
  BY <1>1, <1>5 DEF SafeInv
<1>9. PlanInv(table', gfile'[u], passed'[u], botched'[u], c.steps, Mine(u, Locks'))
  <2>1. \A l \in Mine(u, Locks') : "b" \in Head(c.steps).opts /\ IsBranch(l.delta)
    BY <1>3, <1>4, <1>5, PlanParts DEF Mine
  <2>2. /\ ~Is(c.steps, "unedit_g") /\ ~Is(c.steps, "rmdel")
        /\ c.steps # EditAgain /\ c.steps # FixAgain
    BY <1>3, PlanParts DEF EditAgain, FixAgain
  <2> QED
    BY <2>1, <2>2 DEF PlanInv
<1>10. /\ \A v \in Users \ {u} : gfile'[v] = gfile[v] /\ Mine(v, Locks') \subseteq Mine(v, Locks)
       /\ \A l \in Locks' : l.user # u => FindDelta(table', l.got) = FindDelta(table, l.got)
  BY <1>1, <1>5
<1> QED
  BY <1>1, <1>2, <1>3, <1>6, <1>7, <1>8, <1>9, <1>10, ProgramKeeps

LEMMA FewerSafe ==
  ASSUME NEW t, NEW locks, LocksInv(t, locks), NEW s, s \subseteq locks
  PROVE  LocksInv(t, s)
BY DEF LocksInv

LEMMA UngetSafe ==
  ASSUME AbsentIsNoFile, TypeInv, TypeInv', SafeInv, NEW u \in Users, NEW todo \in Todo(u), Unget(u, todo), ~damaged'
  PROVE  SafeInv'
<1> DEFINE c == Rest(<<>>)
<1>1. PICK l \in Locks : /\ Mine(u, Locks) = {l} /\ l.user = u /\ Locks \ {l} \in LockSets
                         /\ UngetEnds(u, todo, l) \/ UngetStops(u, l)
  BY UngetFacts
<1>2. At(todo, "unget") /\ UNCHANGED table /\ Tail(todo) = <<>>
  BY OtherJobs DEF Unget
<1>3. PICK botches \in BOOLEAN :
         /\ Damage(u) /\ Note(u, botches) /\ cmd' = [cmd EXCEPT ![u] = c]
         /\ \/ gfile' = [gfile EXCEPT ![u] = Absent] /\ (SetLocks(Locks \ {l}) \/ botches)
            \/ UNCHANGED gfile
         /\ UNCHANGED pfile \/ SetLocks({}) \/ SetLocks(Locks \ {l})
  <2>1. CASE UngetEnds(u, todo, l)
    <3>1. /\ Damage(u) /\ Note(u, FALSE) /\ cmd' = [cmd EXCEPT ![u] = c]
          /\ gfile' = [gfile EXCEPT ![u] = Absent] /\ SetLocks(Locks \ {l})
      BY <1>2, <2>1, ContinueIs, ObserveIs DEF UngetEnds
    <3> QED
      BY <3>1
  <2>2. CASE UngetStops(u, l)
    <3> DEFINE botches == gfile'[u] = Absent
    <3>1. /\ Damage(u) /\ Note(u, botches) /\ cmd' = [cmd EXCEPT ![u] = c]
          /\ UNCHANGED pfile \/ SetLocks({}) \/ SetLocks(Locks \ {l})
          /\ \E f \in {Absent, gfile[u]} : gfile' = [gfile EXCEPT ![u] = f]
      BY <2>2, ContinueIs DEF UngetStops
    <3>2. botches \in BOOLEAN
      OBVIOUS
    <3>3. \/ gfile' = [gfile EXCEPT ![u] = Absent] /\ botches
          \/ UNCHANGED gfile
      <4>1. CASE gfile' = [gfile EXCEPT ![u] = Absent]
        BY <4>1 DEF TypeInv
      <4>2. CASE gfile' = [gfile EXCEPT ![u] = gfile[u]]
        BY <4>2 DEF TypeInv
      <4> QED
        BY <3>1, <4>1, <4>2
    <3> HIDE DEF botches
    <3> QED
      BY <3>1, <3>2, <3>3
  <2> QED
    BY <1>1, <2>1, <2>2
<1>4. ~Running(u, "unedit_write")
  BY <1>2, NotRestoring
<1>5. c.steps = <<>> /\ ~Is(c.steps, "unedit_write") /\ ~Is(c.steps, "unedit_p")
  BY PlanParts DEF Rest
<1> HIDE DEF c
<1>6. /\ Locks' = Locks \/ Locks' = {} \/ Locks' = Locks \ {l}
      /\ SetLocks(Locks \ {l}) => Locks' = Locks \ {l}
  BY <1>1, <1>3, LocksAre, LocksType, SameLocks
<1>7. Locks' \subseteq Locks /\ \A v : Mine(v, Locks') \subseteq Mine(v, Locks)
  BY <1>6 DEF Mine
<1>8. AllLocks = Locks /\ AllLocks' = Locks'
  BY <1>3, <1>4, <1>5, ProgramFrame
<1>9. TableInv(table') /\ LocksInv(table', Locks')
  BY <1>2, <1>7, <1>8, FewerSafe DEF SafeInv
<1>10. PlanInv(table', gfile'[u], passed'[u], botched'[u], c.steps, Mine(u, Locks'))
  BY <1>5, IdlePlan
<1>11. /\ \A v \in Users \ {u} : gfile'[v] = gfile[v] /\ Mine(v, Locks') \subseteq Mine(v, Locks)
       /\ \A m \in Locks' : m.user # u => FindDelta(table', m.got) = FindDelta(table, m.got)
  BY <1>2, <1>3, <1>7 DEF TypeInv
<1>12. Extends(table', table)
  BY <1>2, SameTable
<1>13. ASSUME NEW m \in Mine(u, Locks') PROVE TextInv(table', gfile'[u], passed'[u], botched'[u], m)
  <2>1. CASE SetLocks(Locks \ {l})
    BY <1>1, <1>6, <2>1 DEF Mine
  <2>2. CASE botches
    <3>1. botched'[u]
      BY <1>3, <1>8, <2>2, NoteIs
    <3> QED
      BY <3>1 DEF TextInv
  <2>3. CASE UNCHANGED gfile
    <3>1. m \in Mine(u, AllLocks') /\ m \in AllLocks /\ gfile'[u] = gfile[u]
      BY <1>7, <1>8, <2>3 DEF Mine
    <3> QED
      BY <1>2, <1>3, <1>12, <3>1, OwnText
  <2> QED
    BY <1>3, <2>1, <2>2, <2>3
<1> QED
  BY <1>3, <1>4, <1>5, <1>9, <1>10, <1>11, <1>12, <1>13, ProgramKeeps

LEMMA DeltaSafe ==
  ASSUME AbsentIsNoFile, TypeInv, TypeInv', SafeInv, NEW u \in Users, NEW todo \in Todo(u), Delta(u, todo), ~damaged'
  PROVE  SafeInv'
<1> DEFINE g == IF Has(todo, "n") THEN GFile(Len(table'), gfile[u].writable) ELSE Absent
<1>1. PICK l \in Locks : /\ Mine(u, Locks) = {l} /\ l \in EditLock /\ l.user = u
                         /\ table' = Added(table, l.got, l.delta) /\ Len(table') = Len(table) + 1
                         /\ Locks \ {l} \in LockSets
                         /\ DeltaEnds(u, todo, l) \/ DeltaStops(u, l)
  BY DeltaFacts
<1>2. At(todo, "delta") /\ gfile[u] # Absent
  BY DEF Delta
<1>3. PICK c : /\ Damage(u) /\ Note(u, FALSE) /\ cmd' = [cmd EXCEPT ![u] = c]
               /\ \/ /\ c = Rest(Tail(todo)) /\ SetLocks(Locks \ {l})
                     /\ gfile' = [gfile EXCEPT ![u] = g]
                  \/ /\ c = Rest(<<>>) /\ UNCHANGED gfile
                     /\ UNCHANGED pfile \/ SetLocks({}) \/ SetLocks(Locks \ {l})
  <2>1. CASE DeltaEnds(u, todo, l)
    BY <2>1, ContinueIs, ObserveIs DEF DeltaEnds, TypeInv
  <2>2. CASE DeltaStops(u, l)
    BY <2>2, ContinueIs DEF DeltaStops
  <2> QED
    BY <1>1, <2>1, <2>2
<1> HIDE DEF g
<1>4. ~Running(u, "unedit_write")
  BY <1>2, NotRestoring
<1>5. /\ \/ Tail(todo) = <<>> \/ Tail(todo) = One("get", {"t"})
         \/ Tail(todo) = EditAgain /\ Has(todo, "n")
      /\ ~Is(Tail(todo), "unedit_write") /\ ~Is(Tail(todo), "unedit_p")
  <2>1. \/ Tail(todo) = <<>> \/ Tail(todo) = One("get", {"t"})
        \/ Tail(todo) = EditAgain /\ Has(todo, "n")
    BY <1>2, DeltaJobs DEF Has
  <2> QED
    BY <2>1, QuietMembers DEF QuietPlans
<1>6. c.steps \in {Tail(todo), <<>>} /\ ~Is(c.steps, "unedit_write") /\ ~Is(c.steps, "unedit_p")
  <2>1. \A steps : Rest(steps).steps = steps
    BY DEF Rest
  <2>2. c.steps = Tail(todo) \/ c.steps = <<>>
    BY <1>3, <2>1
  <2>3. ~Is(<<>>, "unedit_write") /\ ~Is(<<>>, "unedit_p")
    BY DEF Is
  <2>4. ~Is(Tail(todo), "unedit_write") /\ ~Is(Tail(todo), "unedit_p")
    BY <1>5
  <2> HIDE DEF Is
  <2> DEFINE rest == Tail(todo)
  <2> HIDE DEF rest
  <2>5. c.steps = rest \/ c.steps = <<>>
    BY <2>2 DEF rest
  <2>6. ~Is(rest, "unedit_write") /\ ~Is(rest, "unedit_p")
    BY <2>4 DEF rest
  <2>7. c.steps \in {rest, <<>>} /\ ~Is(c.steps, "unedit_write") /\ ~Is(c.steps, "unedit_p")
    <3>1. CASE c.steps = rest
      BY <2>6, <3>1
    <3>2. CASE c.steps = <<>>
      BY <2>3, <3>2
    <3> QED
      BY <2>5, <3>1, <3>2
  <2> QED
    BY <2>7 DEF rest
<1>7. /\ Locks' = Locks \/ Locks' = {} \/ Locks' = Locks \ {l}
      /\ SetLocks(Locks \ {l}) => Locks' = Locks \ {l}
  BY <1>1, <1>3, LocksAre, LocksType, SameLocks
<1>8. Locks' \subseteq Locks /\ \A v : Mine(v, Locks') \subseteq Mine(v, Locks)
  BY <1>7 DEF Mine
<1>9. AllLocks = Locks /\ AllLocks' = Locks' /\ cmd'[u] = c
  BY <1>3, <1>4, <1>6, ProgramFrame
<1>10. l.delta \notin CurrentSids(table)
  <2>1. table \in Tables /\ l.got \in CurrentSids(table) /\ l.delta \in DeltaSids
    BY <1>1, <1>9 DEF SafeInv, LocksInv, Fits, TypeInv, EditLock
  <2>2. table'[Len(table')].sid = l.delta
    BY <1>1, <2>1, AddedParts
  <2>3. Len(table') > Len(table)
    BY <1>1, <2>1, TableFacts
  <2> QED
    BY <1>3, <2>2, <2>3 DEF Damage, CheckedInTwice
<1>11. /\ TableInv(table') /\ LocksInv(table', Locks') /\ Extends(table', table)
       /\ Len(table') \in CurrentDeltas(table')
       /\ \A m \in Locks : FindDelta(table', m.got) = FindDelta(table, m.got)
  <2>1. TableInv(table) /\ LocksInv(table, Locks) /\ l.delta \in DeltaSids
    BY <1>1, <1>9 DEF SafeInv, EditLock
  <2> DEFINE w == Added(table, l.got, l.delta)
  <2>2. /\ TableInv(w) /\ LocksInv(w, Locks) /\ Extends(w, table)
        /\ Len(w) \in CurrentDeltas(w)
        /\ \A m \in Locks : FindDelta(w, m.got) = FindDelta(table, m.got)
    BY <1>10, <2>1, AddedLocks
  <2> HIDE DEF w
  <2>3. table' = w
    BY <1>1 DEF w
  <2> QED
    BY <1>8, <2>2, <2>3, FewerSafe
<1>12. ASSUME NEW m \in Mine(u, Locks') PROVE TextInv(table', gfile'[u], passed'[u], botched'[u], m)
  <2>1. CASE SetLocks(Locks \ {l})
    BY <1>1, <1>7, <2>1 DEF Mine
  <2>2. CASE UNCHANGED gfile
    <3>1. /\ m \in Mine(u, AllLocks') /\ m \in AllLocks /\ gfile'[u] = gfile[u]
          /\ FindDelta(table', m.got) = FindDelta(table, m.got)
      BY <1>8, <1>9, <1>11, <2>2 DEF Mine
    <3> QED
      BY <1>3, <1>11, <3>1, OwnText
  <2> QED
    BY <1>3, <2>1, <2>2
<1>13. PlanInv(table', gfile'[u], passed'[u], botched'[u], c.steps, Mine(u, Locks'))
  <2>1. CASE /\ c.steps = EditAgain /\ Has(todo, "n") /\ SetLocks(Locks \ {l})
             /\ gfile' = [gfile EXCEPT ![u] = g]
    <3>1. CASE botched[u]
      <4>1. botched'[u]
        BY <1>3, <1>9, <2>1, <3>1, AgainPlans, NoteIs
      <4> QED
        BY <2>1, <4>1, AgainPlans DEF PlanInv
    <3>2. CASE ~botched[u]
      <4>1. gfile[u].writable /\ gfile[u] \in GFiles
        <5>1. TextInv(table, gfile[u], passed[u], botched[u], l)
          BY <1>1, <1>9 DEF SafeInv
        <5> QED
          BY <3>2, <5>1 DEF TextInv, Copy, TypeInv
      <4>2. Len(table') \in Nat /\ Len(table') \in 1..Len(table') /\ table'[Len(table')].type = "D"
        BY <1>11, TableEntry DEF TableInv, CurrentDeltas
      <4>3. gfile[u].writable = TRUE
        BY <4>1 DEF GFiles
      <4>4. g = GFile(Len(table'), TRUE)
        BY <2>1, <4>3 DEF g
      <4>5. gfile'[u] \in GFiles /\ gfile'[u].writable = TRUE /\ gfile'[u].text = Len(table')
        BY <2>1, <4>2, <4>4, GFileParts DEF TypeInv
      <4>6. gfile'[u] # Absent
        BY <4>5 DEF AbsentIsNoFile
      <4>7. Mine(u, Locks') = {}
        BY <1>1, <1>7, <2>1 DEF Mine
      <4>8. Copied(table', gfile'[u], Mine(u, Locks'))
        BY <4>2, <4>5, <4>6, <4>7 DEF Copied, Copy
      <4>9. /\ ~Is(c.steps, "unedit_g") /\ ~Is(c.steps, "clean_g")
            /\ ~Is(c.steps, "rmdel") /\ c.steps # FixAgain
        BY <2>1, AgainPlans
      <4> QED
        BY <2>1, <4>2, <4>5, <4>8, <4>9 DEF PlanInv
    <3> QED
      BY <3>1, <3>2
  <2>2. CASE c.steps = <<>> \/ c.steps = One("get", {"t"})
    BY <2>2, IdlePlan
  <2>3. \/ /\ c.steps = EditAgain /\ Has(todo, "n") /\ SetLocks(Locks \ {l})
           /\ gfile' = [gfile EXCEPT ![u] = g]
        \/ c.steps = <<>> \/ c.steps = One("get", {"t"})
    <3>1. \A steps : Rest(steps).steps = steps
      BY DEF Rest
    <3> QED
      BY <1>3, <1>5, <3>1
  <2> QED
    BY <2>1, <2>2, <2>3
<1>14. /\ \A v \in Users \ {u} : gfile'[v] = gfile[v] /\ Mine(v, Locks') \subseteq Mine(v, Locks)
       /\ \A m \in Locks' : m.user # u => FindDelta(table', m.got) = FindDelta(table, m.got)
  BY <1>3, <1>8, <1>11 DEF TypeInv
<1> QED
  BY <1>3, <1>4, <1>6, <1>11, <1>12, <1>13, <1>14, ProgramKeeps

LEMMA RmdelSafe ==
  ASSUME TypeInv, TypeInv', SafeInv, NEW u \in Users, NEW todo \in Todo(u), Rmdel(u, todo), ~damaged'
  PROVE  SafeInv'
<1> DEFINE c == Rest(Tail(todo))
           rid == Rid(todo)
           seq == FindDelta(table, rid)
<1>1. /\ At(todo, "rmdel") /\ UNCHANGED <<pfile, gfile>>
      /\ cmd' = [cmd EXCEPT ![u] = c] /\ Damage(u) /\ Note(u, FALSE) /\ RmdelPermitted(rid)
      /\ table' = Removed(table, rid)
  BY ContinueIs, ObserveIs, RmdelTyped DEF Rmdel
<1>2. ~Running(u, "unedit_write")
  BY <1>1, NotRestoring
<1>3. c.steps = Tail(todo)
  BY DEF Rest
<1>4. \/ IsIdle(u) /\ Tail(todo) = <<>>
      \/ cmd[u].steps = RestOfFix(rid) /\ Tail(todo) = FixAgain
  BY <1>1, RmdelJobs DEF Rid
<1> HIDE DEF c, rid
<1>5. ~Is(Tail(todo), "unedit_write") /\ ~Is(Tail(todo), "unedit_p")
  BY <1>4, QuietMembers DEF QuietPlans
<1>6. AllLocks = Locks /\ AllLocks' = Locks' /\ cmd'[u] = c
  BY <1>1, <1>2, <1>3, <1>5, ProgramFrame
<1>7. Locks' = Locks
  BY <1>1, SameLocks
<1>8. /\ TableInv(table) /\ LocksInv(table, Locks) /\ table \in Tables
      /\ rid \in CurrentSids(table) /\ \A l \in Locks : l.got # rid
      /\ \A i \in CurrentDeltas(table) : table[i].prev # seq
  BY <1>1, <1>6 DEF SafeInv, RmdelPermitted, TypeInv
<1> DEFINE w == Removed(table, rid)
<1>9. /\ TableInv(w) /\ LocksInv(w, Locks) /\ Extends(w, table)
      /\ \A m \in Locks : FindDelta(w, m.got) = FindDelta(table, m.got)
  BY <1>8, RemovedLocks
<1>10. /\ OnTrunk(rid) => table[seq].prev = FindDelta(w, HighestRelease(w))
       /\ w[seq].type = "R" /\ seq \in CurrentDeltas(table) /\ table[seq].sid = rid
  <2>1. OnTrunk(rid) => table[seq].prev = FindDelta(w, HighestRelease(w))
    BY <1>8, RemovedTrunk
  <2>2. w[seq].type = "R" /\ seq \in CurrentDeltas(table) /\ table[seq].sid = rid
    BY <1>8, RemovedDelta
  <2> QED
    BY <2>1, <2>2
<1>11. table' = w
  BY <1>1
<1> HIDE DEF w, seq
<1>12. TableInv(table') /\ LocksInv(table', Locks') /\ Extends(table', table)
  BY <1>7, <1>9, <1>11
<1>13. ASSUME NEW l \in Mine(u, Locks') PROVE TextInv(table', gfile'[u], passed'[u], botched'[u], l)
  <2>1. l \in AllLocks /\ l \in Mine(u, AllLocks') /\ l \in Locks /\ gfile'[u] = gfile[u]
    BY <1>1, <1>6, <1>7 DEF Mine
  <2>2. FindDelta(table', l.got) = FindDelta(table, l.got)
    BY <1>9, <1>11, <2>1
  <2> QED
    BY <1>1, <1>12, <2>1, <2>2, OwnText
<1>14. PlanInv(table', gfile'[u], passed'[u], botched'[u], c.steps, Mine(u, Locks'))
  <2>1. CASE cmd[u].steps = RestOfFix(rid) /\ Tail(todo) = FixAgain
    <3> DEFINE g == gfile[u]
    <3>1. c.steps = FixAgain /\ gfile'[u] = g /\ Edits(cmd'[u].steps)
      BY <1>1, <1>3, <1>6, <2>1, AgainPlans
    <3>2. /\ botched[u] \/ (Copied(table, g, Mine(u, Locks)) /\ (passed[u] \/ table[g.text].type = "D"))
          /\ HasText(g) => Copy(table, g) /\ table[g.text].sid = rid
      <4>1. Is(cmd[u].steps, "rmdel") /\ Head(cmd[u].steps).rid = rid
        BY <2>1, PlanParts
      <4>2. PlanInv(table, gfile[u], passed[u], botched[u], cmd[u].steps, Mine(u, Locks))
        BY <1>6 DEF SafeInv
      <4> QED
        BY <4>1, <4>2 DEF PlanInv
    <3> HIDE DEF g
    <3>3. CASE botched[u]
      <4>1. botched'[u]
        BY <1>1, <3>1, <3>3, NoteIs
      <4> QED
        BY <3>1, <4>1, AgainPlans DEF PlanInv
    <3>4. CASE ~botched[u]
      <4>1. /\ Copied(table, g, Mine(u, Locks)) /\ (passed[u] \/ table[g.text].type = "D")
            /\ g.text \in 1..Len(table) /\ table[g.text].sid = rid
        BY <3>2, <3>4 DEF Copied, Copy, HasText
      <4>2. \/ passed'[u]
            \/ (w[g.text].type = "R" /\ (~OnTrunk(w[g.text].sid) \/ w[g.text].prev = FindDelta(w, HighestRelease(w))))
        <5>1. CASE passed[u]
          <6>1. Mine(u, AllLocks) = {}
            BY <1>6, <4>1 DEF Copied
          <6> QED
            BY <1>1, <3>1, <5>1, <6>1, NoteIs
        <5>2. CASE table[g.text].type = "D"
          <6>1. g.text \in CurrentDeltas(table)
            BY <1>8, <4>1, <5>2, TableFacts DEF CurrentDeltas
          <6>2. seq = g.text
            BY <1>8, <4>1, <6>1, FindDeltaIs DEF seq
          <6>3. w[g.text].sid = table[g.text].sid /\ w[g.text].prev = table[g.text].prev
            BY <1>9, <4>1 DEF Extends
          <6> QED
            BY <1>10, <4>1, <6>2, <6>3
        <5> QED
          BY <4>1, <5>1, <5>2
      <4>3. Copied(table', g, Mine(u, Locks'))
        BY <1>7, <1>12, <4>1 DEF Copied, Copy, Extends
      <4> QED
        BY <1>11, <3>1, <4>2, <4>3, AgainPlans DEF PlanInv
    <3> QED
      BY <3>3, <3>4
  <2> QED
    BY <1>3, <1>4, <2>1, IdlePlan
<1>15. /\ \A v \in Users \ {u} : gfile'[v] = gfile[v] /\ Mine(v, Locks') \subseteq Mine(v, Locks)
       /\ \A m \in Locks' : m.user # u => FindDelta(table', m.got) = FindDelta(table, m.got)
  BY <1>1, <1>7, <1>9, <1>11
<1> QED
  BY <1>1, <1>2, <1>3, <1>5, <1>12, <1>13, <1>14, <1>15, ProgramKeeps

LEMMA OutputlessGets ==
  ASSUME TypeInv, NEW u \in Users, NEW todo \in Todo(u), At(todo, "get"), Has(todo, "g")
  PROVE  \/ cmd[u].steps = EditAgain /\ Head(todo).opts = {"e", "t", "g"} /\ Rid(todo) = NullSid
         \/ cmd[u].steps = FixAgain /\ Head(todo).opts = {"e", "g"} /\ Rid(todo) = NullSid
<1> DEFINE opts == Head(todo).opts
<1>1. \/ opts = {"e"} \/ opts = {"e", "b"} \/ opts = {"k"} \/ opts = {} \/ opts = {"t"}
      \/ cmd[u].steps = EditAgain /\ opts = {"e", "t", "g"} /\ Rid(todo) = NullSid
      \/ cmd[u].steps = FixAgain /\ opts = {"e", "g"} /\ Rid(todo) = NullSid
  BY GetJobs DEF Rid
<1>2. "g" \in opts
  BY DEF Has
<1> HIDE DEF opts
<1>3. opts # {"e"} /\ opts # {"e", "b"} /\ opts # {"k"} /\ opts # {} /\ opts # {"t"}
  BY <1>2
<1> QED
  BY <1>1, <1>3 DEF opts

\* Nobody gets a second lock, or a new file instead of his own.
LEMMA GetOnce ==
  ASSUME TypeInv, SafeInv, NEW u \in Users, NEW todo \in Todo(u), Get(u, todo), AllLocks = Locks,
         ~botched[u]
  PROVE  Mine(u, Locks) = {}
<1>1. At(todo, "get") /\ OutputPermitted(u, todo)
  BY DEF Get
<1>2. CASE ~Writable(u)
  BY <1>2, EditorsHaveFiles
<1>3. CASE Has(todo, "g")
  <2>1. cmd[u].steps = EditAgain \/ cmd[u].steps = FixAgain
    BY <1>1, <1>3, OutputlessGets
  <2>2. PlanInv(table, gfile[u], passed[u], botched[u], cmd[u].steps, Mine(u, Locks))
    BY DEF SafeInv
  <2> QED
    BY <2>1, <2>2 DEF PlanInv, Copied
<1> QED
  BY <1>1, <1>2, <1>3 DEF OutputPermitted

\* A get that reserves a SID.
LEMMA GetReserves ==
  ASSUME TypeInv, SafeInv, NEW u \in Users, NEW todo \in Todo(u), Get(u, todo),
         AllLocks = Locks, NEW l \in Reservable(u, todo, Retrieve(todo))
  PROVE  l.user = u /\ l.got = Retrieve(todo) /\ LocksInv(table, Locks \cup {l})
<1> DEFINE got == Retrieve(todo)
           next == NextSid(todo, got).next
<1>1. /\ FrontRequest(table, Rid(todo), got)
      /\ got \in CurrentSids(table) /\ got \in DeltaSids /\ next \in DeltaSids
  BY GetFacts
<1>2. /\ TestLocks(Locks, got, Flags) /\ NextSid(todo, got).ok /\ ~InUse(table, Locks, next)
      /\ l = [user |-> u, got |-> got, delta |-> next]
  BY DEF Reservable
<1>3. TableInv(table) /\ LocksInv(table, Locks) /\ table \in Tables
  BY DEF SafeInv, TypeInv
<1>4. Tame(table, got, next)
  <2> DEFINE wantBranch == Has(todo, "b")
             rid == Rid(todo)
             answer == FindNextSid(table, Locks, EditRequest(rid, got), got, wantBranch, Flags)
  <2>1. NextSid(todo, got) = answer /\ wantBranch \in BOOLEAN
    BY DEF NextSid, Has
  <2> HIDE DEF got, wantBranch, rid
  <2>2. FrontRequest(table, rid, got) /\ answer.ok
    BY <1>1, <1>2, <2>1 DEF rid
  <2>3. Tame(table, got, answer.next)
    BY <1>3, <2>1, <2>2, LocksType, TameNext
  <2> HIDE DEF answer
  <2> QED
    BY <2>1, <2>3
<1>5. next \notin CurrentSids(table) /\ next \notin Reserved(Locks)
  BY <1>2, <1>3, FindDeltaZero DEF InUse
<1>6. \A m \in Locks : m.got # got
  BY <1>2 DEF TestLocks, Flags
<1> HIDE DEF got, next
<1>7. l.user = u /\ l.got = got /\ l.delta = next
  BY <1>2
<1>8. \A m \in Locks : m.got # l.got /\ m.delta # l.delta
  BY <1>5, <1>6, <1>7 DEF Reserved
<1>9. LocksInv(table, Locks \cup {l})
  BY <1>1, <1>3, <1>4, <1>5, <1>7, <1>8, ReservedLock
<1> QED
  BY <1>7, <1>9 DEF got

\* A get that writes a file writes the text of the delta it retrieves.
LEMMA GetWrites ==
  ASSUME AbsentIsNoFile, TypeInv, NEW u \in Users, NEW todo \in Todo(u), Get(u, todo),
         NEW locks, GetEnds(u, todo, Retrieve(todo), locks),
         ~Has(todo, "g"), Has(todo, "e") \/ Has(todo, "k")
  PROVE  LET seq == FindDelta(table, Retrieve(todo))
         IN  /\ Copy(table, gfile'[u]) /\ gfile'[u].text = seq
             /\ seq \in CurrentDeltas(table) /\ seq \in 1..Len(table)
             /\ table[seq].sid = Retrieve(todo) /\ table[seq].type = "D"
<1> DEFINE seq == FindDelta(table, Retrieve(todo))
           w == Has(todo, "e") \/ Has(todo, "k")
<1>1. seq \in CurrentDeltas(table) /\ seq \in 1..Len(table) /\ table[seq].sid = Retrieve(todo)
  BY GetFacts
<1>2. gfile' = [gfile EXCEPT ![u] = GFile(seq, w)]
  BY DEF GetEnds, Output
<1>3. w = TRUE
  OBVIOUS
<1> HIDE DEF seq, w
<1>4. seq \in Nat
  BY <1>1, TableEntry DEF TypeInv
<1>5. gfile'[u] = GFile(seq, TRUE)
  BY <1>2, <1>3 DEF TypeInv
<1>6. gfile'[u] \in GFiles /\ gfile'[u].writable = TRUE /\ gfile'[u].text = seq
  BY <1>4, <1>5, GFileParts
<1>7. gfile'[u] # Absent
  BY <1>6 DEF AbsentIsNoFile
<1>8. table[seq].type = "D"
  BY <1>1 DEF CurrentDeltas
<1> QED
  BY <1>1, <1>6, <1>7, <1>8 DEF seq, Copy

LEMMA GetText ==
  ASSUME AbsentIsNoFile, TypeInv, SafeInv, NEW u \in Users, NEW todo \in Todo(u), Get(u, todo),
         NEW locks, GetEnds(u, todo, Retrieve(todo), locks),
         AllLocks = Locks, Has(todo, "e"), NEW l, l.got = Retrieve(todo),
         ~botched[u], passed[u] => passed'[u], NEW b
  PROVE  TextInv(table, gfile'[u], passed'[u], b, l)
<1>1. At(todo, "get")
  BY DEF Get
<1>2. CASE ~Has(todo, "g")
  BY <1>2, GetWrites DEF TextInv
<1>3. CASE Has(todo, "g")
  <2> DEFINE g == gfile[u]
  <2>1. gfile'[u] = g
    BY <1>3 DEF GetEnds
  <2>2. \/ cmd[u].steps = EditAgain /\ Head(todo).opts = {"e", "t", "g"} /\ Rid(todo) = NullSid
        \/ cmd[u].steps = FixAgain /\ Head(todo).opts = {"e", "g"} /\ Rid(todo) = NullSid
    BY <1>1, <1>3, OutputlessGets
  <2>3. TableInv(table) /\ PlanInv(table, g, passed[u], botched[u], cmd[u].steps, Mine(u, Locks))
    BY DEF SafeInv
  <2>4. Flags.default = NullSid
    BY DEF Flags
  <2>5. ~IsNull(Retrieve(todo))
    BY DEF Get
  <2> HIDE DEF g
  <2>6. CASE cmd[u].steps = EditAgain /\ Head(todo).opts = {"e", "t", "g"} /\ Rid(todo) = NullSid
    <3>1. /\ Copied(table, g, Mine(u, Locks))
          /\ passed[u] \/ (g.text = Len(table) /\ table[Len(table)].type = "D")
      BY <2>3, <2>6 DEF PlanInv
    <3>2. CASE passed[u]
      BY <2>1, <3>1, <3>2 DEF Copied, TextInv
    <3>3. CASE g.text = Len(table) /\ table[Len(table)].type = "D"
      <4>1. Has(todo, "t") = TRUE
        BY <2>6 DEF Has
      <4>2. Retrieve(todo) = FindRequestedSid(table, NullSid, TRUE, NullSid)
        BY <2>4, <2>6, <4>1, Zenon DEF Retrieve
      <4>3. Len(table) \in CurrentDeltas(table)
        <5>1. Len(table) \in DOMAIN table
          BY <3>1, <3>3, TableFacts DEF Copied, Copy, TypeInv
        <5> QED
          BY <3>3, <5>1 DEF CurrentDeltas
      <4>4. l.got = table[Len(table)].sid \/ Release(table[Len(table)].sid) < Release(l.got)
        BY <2>3, <4>2, <4>3, TopRequest, Zenon
      <4>5. FindDelta(table, table[Len(table)].sid) = Len(table)
        BY <2>3, <4>3, FindDeltaIs
      <4>6. FindDelta(table, l.got) = g.text \/ Release(table[g.text].sid) < Release(l.got)
        BY <3>3, <4>4, <4>5, Zenon
      <4> QED
        BY <2>1, <3>1, <4>6 DEF Copied, TextInv
    <3> QED
      BY <3>1, <3>2, <3>3
  <2>7. CASE cmd[u].steps = FixAgain /\ Head(todo).opts = {"e", "g"} /\ Rid(todo) = NullSid
    <3>1. /\ Copied(table, g, Mine(u, Locks))
          /\ \/ passed[u]
             \/ /\ table[g.text].type = "R"
                /\ \/ ~OnTrunk(table[g.text].sid)
                   \/ table[g.text].prev = FindDelta(table, HighestRelease(table))
      BY <2>3, <2>7 DEF PlanInv
    <3>2. Has(todo, "t") = FALSE
      BY <2>7 DEF Has
    <3>3. Retrieve(todo) = FindRequestedSid(table, NullSid, FALSE, NullSid)
      BY <2>4, <2>7, <3>2, Zenon DEF Retrieve
    <3>4. l.got = HighestRelease(table)
      BY <2>3, <2>5, <3>3, PlainRequest, Zenon
    <3> QED
      BY <2>1, <3>1, <3>4 DEF Copied, TextInv
  <2> QED
    BY <2>2, <2>6, <2>7
<1> QED
  BY <1>2, <1>3

LEMMA GetSafe ==
  ASSUME AbsentIsNoFile, TypeInv, TypeInv', SafeInv, NEW u \in Users, NEW todo \in Todo(u), Get(u, todo), ~damaged'
  PROVE  SafeInv'
<1> DEFINE got == Retrieve(todo)
           opts == Head(todo).opts
           rid == Rid(todo)
<1>1. At(todo, "get") /\ UNCHANGED table
  BY DEF Get
<1>2. PICK locks :
        /\ \/ ~Has(todo, "e") /\ locks = {}
           \/ Has(todo, "e") /\ \E l \in Reservable(u, todo, got) : locks = {l}
        /\ Locks \cup locks \in LockSets
        /\ GetEnds(u, todo, got, locks) \/ GetLoses(u, todo) \/ GetStops(u, todo, locks)
  BY GetCases
<1> HIDE DEF got
<1> DEFINE Outcome(c, botches) ==
             /\ Damage(u) /\ Note(u, botches) /\ cmd' = [cmd EXCEPT ![u] = c]
             /\ UNCHANGED pfile \/ SetLocks({}) \/ SetLocks(Locks \cup locks)
             /\ \/ GetEnds(u, todo, got, locks) /\ c = Rest(Tail(todo))
                \/ GetLoses(u, todo) /\ c = Rest(Tail(todo)) /\ botches
                \/ c = Rest(<<>>) /\ botches
             /\ \A v \in Users \ {u} : gfile'[v] = gfile[v]
<1>3. PICK c, botches : botches \in BOOLEAN /\ Outcome(c, botches)
  <2>1. CASE GetEnds(u, todo, got, locks)
    <3>1. /\ Damage(u) /\ Note(u, FALSE) /\ cmd' = [cmd EXCEPT ![u] = Rest(Tail(todo))]
          /\ UNCHANGED pfile \/ SetLocks(Locks \cup locks)
          /\ UNCHANGED gfile \/ \E f : gfile' = [gfile EXCEPT ![u] = f]
      BY <2>1, ContinueIs, ObserveIs DEF GetEnds, Reserve
    <3>2. \A v \in Users \ {u} : gfile'[v] = gfile[v]
      BY <3>1 DEF TypeInv
    <3>3. Outcome(Rest(Tail(todo)), FALSE)
      BY <2>1, <3>1, <3>2, Zenon
    <3> HIDE DEF Outcome
    <3> QED
      BY <3>3
  <2>2. CASE GetLoses(u, todo)
    <3>1. /\ Damage(u) /\ Note(u, TRUE) /\ cmd' = [cmd EXCEPT ![u] = Rest(Tail(todo))]
          /\ UNCHANGED pfile
          /\ \E f : gfile' = [gfile EXCEPT ![u] = f]
      BY <2>2, ContinueIs DEF GetLoses
    <3>2. \A v \in Users \ {u} : gfile'[v] = gfile[v]
      BY <3>1 DEF TypeInv
    <3>3. Outcome(Rest(Tail(todo)), TRUE)
      BY <2>2, <3>1, <3>2, Zenon
    <3> HIDE DEF Outcome
    <3> QED
      BY <3>3
  <2>3. CASE GetStops(u, todo, locks)
    <3>1. /\ Damage(u) /\ Note(u, TRUE) /\ cmd' = [cmd EXCEPT ![u] = Rest(<<>>)]
          /\ UNCHANGED pfile \/ SetLocks({}) \/ SetLocks(Locks \cup locks)
          /\ UNCHANGED gfile \/ \E f : gfile' = [gfile EXCEPT ![u] = f]
      BY <2>3, ContinueIs DEF GetStops, Reserve
    <3>2. \A v \in Users \ {u} : gfile'[v] = gfile[v]
      BY <3>1 DEF TypeInv
    <3>3. Outcome(Rest(<<>>), TRUE)
      BY <3>1, <3>2, Zenon
    <3> HIDE DEF Outcome
    <3> QED
      BY <3>3
  <2> QED
    BY <1>2, <2>1, <2>2, <2>3
<1>4. ~Running(u, "unedit_write")
  BY <1>1, NotRestoring
<1>5. /\ \/ Tail(todo) = <<>> \/ Tail(todo) = RestOfBranch
         \/ rid \in CurrentSids(table) /\ opts = {"k"} /\ Tail(todo) = RestOfFix(rid)
      /\ ~Is(Tail(todo), "unedit_write") /\ ~Is(Tail(todo), "unedit_p")
  <2>1. \/ Tail(todo) = <<>> \/ Tail(todo) = RestOfBranch
        \/ rid \in CurrentSids(table) /\ opts = {"k"} /\ Tail(todo) = RestOfFix(rid)
    BY <1>1, GetJobs DEF Rid
  <2>2. CurrentSids(table) \subseteq DeltaSids
    BY TableFacts DEF TypeInv
  <2> QED
    BY <2>1, <2>2, QuietMembers DEF QuietPlans
<1>6. (c = Rest(Tail(todo)) => c.steps = Tail(todo)) /\ (c = Rest(<<>>) => c.steps = <<>>)
  BY DEF Rest
<1>7. ~Is(c.steps, "unedit_write") /\ ~Is(c.steps, "unedit_p")
  <2>1. CASE c = Rest(Tail(todo))
    BY <1>5, <1>6, <2>1
  <2>2. CASE c = Rest(<<>>)
    BY <1>6, <2>2, PlanParts
  <2> QED
    BY <1>3, <2>1, <2>2
<1>8. AllLocks = Locks /\ AllLocks' = Locks' /\ cmd'[u] = c
  BY <1>3, <1>4, <1>7, ProgramFrame
<1>9. TableInv(table) /\ LocksInv(table, Locks)
  BY <1>8 DEF SafeInv
<1>10. Extends(table', table)
  BY <1>1, SameTable
<1>11. Locks' = Locks \/ Locks' = {} \/ Locks' = Locks \cup locks
  BY <1>2, <1>3, LocksAre, LocksType, SameLocks
<1>12. /\ \A l \in locks : l.user = u /\ l.got = got
       /\ LocksInv(table, Locks \cup locks)
  <2>1. CASE locks = {}
    BY <1>9, <2>1
  <2>2. CASE \E l \in Reservable(u, todo, got) : locks = {l}
    BY <1>8, <2>2, GetReserves DEF got
  <2> QED
    BY <1>2, <2>1, <2>2
<1>13. LocksInv(table', Locks')
  <2>1. Locks' \subseteq Locks \cup locks
    BY <1>11
  <2> QED
    BY <1>1, <1>12, <2>1, FewerSafe
<1>14. \A v \in Users \ {u} : gfile'[v] = gfile[v] /\ Mine(v, Locks') \subseteq Mine(v, Locks)
  <2>1. \A v \in Users \ {u} : gfile'[v] = gfile[v]
    BY <1>3
  <2>2. \A v \in Users \ {u} : Mine(v, Locks') \subseteq Mine(v, Locks)
    BY <1>11, <1>12 DEF Mine
  <2> QED
    BY <2>1, <2>2
<1>15. ASSUME NEW l \in Mine(u, Locks') PROVE TextInv(table', gfile'[u], passed'[u], botched'[u], l)
  <2>1. CASE botched[u] \/ botches
    <3>1. botched'[u]
      BY <1>3, <1>8, <2>1, NoteIs
    <3> QED
      BY <3>1 DEF TextInv
  <2>2. CASE ~botched[u] /\ GetEnds(u, todo, got, locks)
    <3>1. Mine(u, Locks) = {}
      BY <1>8, <2>2, GetOnce
    <3>2. l \in locks
      BY <1>11, <3>1 DEF Mine
    <3>3. Has(todo, "e") /\ l.got = got
      BY <1>2, <1>12, <3>2
    <3>4. passed[u] => passed'[u]
      BY <1>3, <1>8, <3>1, NoteIs
    <3>5. TextInv(table, gfile'[u], passed'[u], botched'[u], l)
      BY <1>8, <2>2, <3>3, <3>4, GetText DEF got
    <3> QED
      BY <1>1, <3>5
  <2> QED
    BY <1>3, <2>1, <2>2
<1>16. PlanInv(table', gfile'[u], passed'[u], botched'[u], c.steps, Mine(u, Locks'))
  <2>1. CASE /\ rid \in CurrentSids(table) /\ opts = {"k"} /\ c.steps = RestOfFix(rid)
             /\ GetEnds(u, todo, got, locks) \/ (GetLoses(u, todo) /\ botches)
    <3>1. ~Has(todo, "e") /\ ~Has(todo, "g") /\ Has(todo, "k")
      BY <2>1 DEF Has
    <3>2. Locks' = Locks \/ Locks' = {}
      BY <1>2, <1>11, <3>1
    <3>3. Edits(cmd'[u].steps)
      BY <1>8, <2>1, PlanParts
    <3>4. /\ c.steps # EditAgain /\ c.steps # FixAgain /\ Head(c.steps).rid = rid
          /\ ~Is(c.steps, "unedit_g") /\ ~Is(c.steps, "clean_g")
      <4>1. Head(c.steps).rid = rid /\ Head(c.steps).prog = "rmdel"
        BY <2>1, PlanParts
      <4> QED
        BY <2>1, <4>1, AgainPlans DEF Is
    <3>5. CASE GetEnds(u, todo, got, locks)
      <4> DEFINE seq == FindDelta(table, Retrieve(todo))
      <4>1. /\ Copy(table, gfile'[u]) /\ gfile'[u].text = seq
            /\ table[seq].sid = Retrieve(todo) /\ table[seq].type = "D"
        BY <3>1, <3>5, GetWrites DEF got
      <4>2. Retrieve(todo) = rid
        BY <2>1, GetFacts
      <4> HIDE DEF seq, rid
      <4>3. botched'[u] \/ Mine(u, Locks') = {}
        <5>1. CASE botched[u]
          BY <1>3, <3>3, <5>1, NoteIs
        <5>2. CASE ~botched[u]
          <6>1. Mine(u, Locks) = {}
            BY <1>8, <5>2, GetOnce
          <6> QED
            BY <3>2, <6>1 DEF Mine
        <5> QED
          BY <5>1, <5>2
      <4>4. /\ Copy(table', gfile'[u]) /\ table'[gfile'[u].text].sid = rid
            /\ table'[gfile'[u].text].type = "D"
        BY <1>1, <4>1, <4>2
      <4> QED
        BY <3>4, <4>3, <4>4 DEF PlanInv, Copied
    <3>6. CASE GetLoses(u, todo) /\ botches
      <4>1. botched'[u]
        BY <1>3, <3>3, <3>6, NoteIs
      <4>2. ~HasText(gfile'[u])
        <5>1. PICK f \in {Absent, Output(todo, 0)} : gfile' = [gfile EXCEPT ![u] = f]
          BY <3>6 DEF GetLoses
        <5>2. gfile'[u] = f
          BY <5>1 DEF TypeInv
        <5>3. Output(todo, 0).text = 0
          BY DEF Output, GFile
        <5> QED
          BY <5>1, <5>2, <5>3 DEF HasText
      <4> QED
        BY <3>4, <4>1, <4>2 DEF PlanInv
    <3> QED
      BY <2>1, <3>5, <3>6
  <2>2. CASE c.steps = <<>> \/ c.steps = RestOfBranch
    BY <2>2, IdlePlan
  <2>3. \/ /\ rid \in CurrentSids(table) /\ opts = {"k"} /\ c.steps = RestOfFix(rid)
           /\ GetEnds(u, todo, got, locks) \/ (GetLoses(u, todo) /\ botches)
        \/ c.steps = <<>> \/ c.steps = RestOfBranch
    BY <1>3, <1>5, <1>6
  <2> QED
    BY <2>1, <2>2, <2>3
<1>17. \A l \in Locks' : l.user # u => FindDelta(table', l.got) = FindDelta(table, l.got)
  BY <1>1
<1>18. TableInv(table')
  BY <1>1, <1>9
<1> QED
  BY <1>3, <1>4, <1>7, <1>10, <1>13, <1>14, <1>15, <1>16, <1>17, <1>18, ProgramKeeps

\* A step of a user who is not at the p-file.
LEMMA SameRestoring ==
  ASSUME TypeInv, SafeInv, NEW u \in Users, ~Running(u, "unedit_write"), NEW c,
         ~Is(c.steps, "unedit_write"), ~Is(c.steps, "unedit_p"),
         cmd' = [cmd EXCEPT ![u] = c], UNCHANGED pfile
  PROVE  /\ AllLocks' = AllLocks /\ UneditInv'
         /\ cmd'[u] = c /\ \A v \in Users \ {u} : cmd'[v] = cmd[v]
<1>1. cmd'[u] = c /\ \A v \in Users \ {u} : cmd'[v] = cmd[v]
  BY DEF TypeInv
<1>2. \A v \in Users : /\ Running(v, "unedit_write")' <=> Running(v, "unedit_write")
                       /\ Running(v, "unedit_p")' => Running(v, "unedit_p") /\ v # u
  BY <1>1, RunningIs
<1>3. Restoring' = Restoring /\ u \notin Restoring
  BY <1>2 DEF Restoring
<1>4. \A v \in Restoring : cmd'[v] = cmd[v]
  BY <1>1, <1>3 DEF Restoring
<1>5. UNION {Others(v, cmd'[v].seen) : v \in Restoring} = UNION {Others(v, cmd[v].seen) : v \in Restoring}
  BY <1>4
<1>6. AllLocks' = AllLocks
  BY <1>3, <1>5, SameLocks DEF AllLocks
<1>7. UneditInv'
  BY <1>1, <1>2, <1>3 DEF SafeInv, UneditInv
<1> QED
  BY <1>1, <1>6, <1>7

LEMMA AllLocksUsers ==
  ASSUME TypeInv
  PROVE  \A l \in AllLocks : l.user \in Users
<1> SUFFICES ASSUME NEW l \in AllLocks PROVE l.user \in Users
  OBVIOUS
<1>1. CASE l \in Locks
  BY <1>1, LocksType
<1>2. CASE \E v \in Restoring : l \in Others(v, cmd[v].seen)
  <2>1. PICK v \in Restoring : l \in Others(v, cmd[v].seen)
    BY <1>2
  <2>2. cmd[v].seen \in LockSets
    BY CmdFacts DEF Restoring
  <2> QED
    BY <2>1, <2>2 DEF Others, LockSets, EditLock
<1> QED
  BY <1>1, <1>2 DEF AllLocks

\* A step that changes neither the table nor anybody's lock, nor the file of an editor.
LEMMA AloneKeeps ==
  ASSUME TypeInv, SafeInv, NEW u \in Users, ~Running(u, "unedit_write"), NEW c,
         ~Is(c.steps, "unedit_write"), ~Is(c.steps, "unedit_p"),
         cmd' = [cmd EXCEPT ![u] = c], UNCHANGED <<table, pfile>>, Note(u, FALSE),
         \A v \in Users \ {u} : gfile'[v] = gfile[v],
         gfile'[u] = gfile[u] \/ Mine(u, AllLocks) = {},
         PlanInv(table, gfile'[u], passed'[u], botched'[u], c.steps, Mine(u, AllLocks))
  PROVE  SafeInv'
<1>1. /\ AllLocks' = AllLocks /\ UneditInv'
      /\ cmd'[u] = c /\ \A v \in Users \ {u} : cmd'[v] = cmd[v]
  BY SameRestoring
<1>2. table' = table
  OBVIOUS
<1>3. Undisturbed(u)
  BY <1>1, <1>2 DEF Undisturbed
<1>4. \A l \in AllLocks' : l.user \in Users
  BY <1>1, AllLocksUsers
<1>5. Extends(table', table)
  BY SameTable
<1>6. ASSUME NEW l \in Mine(u, AllLocks')
      PROVE  TextInv(table', gfile'[u], passed'[u], botched'[u], l)
  <2>1. l \in AllLocks /\ gfile'[u] = gfile[u]
    BY <1>1 DEF Mine
  <2> QED
    BY <1>5, <2>1, OwnText
<1>7. TableInv(table') /\ LocksInv(table', AllLocks')
  BY <1>1, <1>2 DEF SafeInv
<1>8. PlanInv(table', gfile'[u], passed'[u], botched'[u], cmd'[u].steps, Mine(u, AllLocks'))
  BY <1>1, <1>2
<1>9. \A l \in AllLocks' : l.user # u => FindDelta(table', l.got) = FindDelta(table, l.got)
  BY <1>2
<1> QED
  BY <1>1, <1>3, <1>4, <1>5, <1>6, <1>7, <1>8, <1>9, Keeps

LEMMA FailSafe ==
  ASSUME TypeInv, SafeInv, NEW u \in Users, Fail(u), ~damaged'
  PROVE  SafeInv'
<1> DEFINE c == Rest(<<>>)
<1>1. /\ UNCHANGED <<table, pfile, gfile>> /\ Note(u, FALSE) /\ cmd' = [cmd EXCEPT ![u] = c]
      /\ ~Running(u, "unedit_write")
  BY ContinueIs DEF Fail
<1>2. c.steps = <<>> /\ ~Is(c.steps, "unedit_write") /\ ~Is(c.steps, "unedit_p")
  BY PlanParts DEF Rest
<1> HIDE DEF c
<1>3. PlanInv(table, gfile'[u], passed'[u], botched'[u], c.steps, Mine(u, AllLocks))
  BY <1>2, IdlePlan
<1> QED
  BY <1>1, <1>2, <1>3, AloneKeeps

LEMMA UneditRemoveSafe ==
  ASSUME TypeInv, SafeInv, NEW u \in Users, UneditRemove(u)
  PROVE  SafeInv'
<1>1. Running(u, "unedit_g")
  BY DEF UneditRemove
<1>2. Mine(u, AllLocks) = {}
  BY <1>1, RunningIs DEF SafeInv, PlanInv
<1>3. ~Running(u, "unedit_write")
  BY <1>1 DEF Running
<1>4. PICK c : /\ c = Rest(<<>>) \/ c = Rest(One("get", {}))
               /\ cmd' = [cmd EXCEPT ![u] = c] /\ UNCHANGED <<table, pfile>> /\ Note(u, FALSE)
               /\ \A v \in Users \ {u} : gfile'[v] = gfile[v]
  BY UneditRemoveTyped DEF TypeInv
<1>5. c.steps = <<>> \/ c.steps = One("get", {})
  BY <1>4 DEF Rest
<1>6. ~Is(c.steps, "unedit_write") /\ ~Is(c.steps, "unedit_p")
  BY <1>5, PlanParts
<1>7. PlanInv(table, gfile'[u], passed'[u], botched'[u], c.steps, Mine(u, AllLocks))
  BY <1>5, IdlePlan
<1> QED
  BY <1>2, <1>3, <1>4, <1>6, <1>7, AloneKeeps

LEMMA CleanRemoveSafe ==
  ASSUME TypeInv, SafeInv, NEW u \in Users, CleanRemove(u), ~damaged'
  PROVE  SafeInv'
<1> DEFINE c == Rest(<<>>)
<1>1. /\ Running(u, "clean_g") /\ UNCHANGED <<table, pfile>> /\ Note(u, FALSE)
      /\ gfile' = [gfile EXCEPT ![u] = Absent] /\ cmd' = [cmd EXCEPT ![u] = c]
      /\ ~Torn(u) /\ Mine(u, Locks) = {}
  BY ContinueIs DEF CleanRemove
<1>2. c.steps = <<>> /\ ~Is(c.steps, "unedit_write") /\ ~Is(c.steps, "unedit_p")
  BY PlanParts DEF Rest
<1> HIDE DEF c
<1>3. ~Running(u, "unedit_write")
  BY <1>1 DEF Running
<1>4. Restoring = {}
  BY <1>1, <1>3 DEF Torn, Restoring
<1>5. Mine(u, AllLocks) = {}
  BY <1>1, <1>4, NobodyRestores
<1>6. PlanInv(table, gfile'[u], passed'[u], botched'[u], c.steps, Mine(u, AllLocks))
  BY <1>2, IdlePlan
<1>7. \A v \in Users \ {u} : gfile'[v] = gfile[v]
  BY <1>1 DEF TypeInv
<1> QED
  BY <1>1, <1>2, <1>3, <1>5, <1>6, <1>7, AloneKeeps

\* A step of unedit that takes away its user's lock only.
LEMMA PFileKeeps ==
  ASSUME TypeInv, TypeInv', SafeInv, NEW u \in Users, UNCHANGED <<table, gfile>>, Note(u, FALSE),
         \A v \in Users \ {u} : cmd'[v] = cmd[v],
         AllLocks' \subseteq AllLocks, UneditInv', Mine(u, AllLocks') = {},
         cmd'[u].steps = One("unedit_g", {}) \/ cmd'[u].steps = One("unedit_write", {})
  PROVE  SafeInv'
<1>1. table' = table /\ gfile' = gfile
  OBVIOUS
<1>2. Undisturbed(u)
  <2>1. \A v \in Users \ {u} : Mine(v, AllLocks') \subseteq Mine(v, AllLocks)
    BY DEF Mine
  <2> QED
    BY <1>1, <2>1 DEF Undisturbed
<1>3. \A l \in AllLocks' : l.user \in Users
  BY AllLocksUsers
<1>4. Extends(table', table)
  BY SameTable
<1>5. TableInv(table') /\ LocksInv(table', AllLocks')
  BY <1>1, FewerSafe DEF SafeInv
<1>6. PlanInv(table', gfile'[u], passed'[u], botched'[u], cmd'[u].steps, Mine(u, AllLocks'))
  <2>1. CASE cmd'[u].steps = One("unedit_write", {})
    BY <2>1, IdlePlan
  <2>2. CASE cmd'[u].steps = One("unedit_g", {})
    <3>1. ~Is(One("unedit_g", {}), "clean_g") /\ ~Is(One("unedit_g", {}), "rmdel")
      BY PlanParts
    <3> QED
      BY <2>2, <3>1, AgainPlans DEF PlanInv
  <2> QED
    BY <2>1, <2>2
<1>7. \A l \in Mine(u, AllLocks') : TextInv(table', gfile'[u], passed'[u], botched'[u], l)
  OBVIOUS
<1>8. \A l \in AllLocks' : l.user # u => FindDelta(table', l.got) = FindDelta(table, l.got)
  BY <1>1
<1> QED
  BY <1>2, <1>3, <1>4, <1>5, <1>6, <1>7, <1>8, Keeps

LEMMA UneditOpenSafe ==
  ASSUME AbsentIsNoFile, TypeInv, TypeInv', SafeInv, NEW u \in Users, UneditOpen(u), ~damaged'
  PROVE  SafeInv'
<1> DEFINE others == Others(u, cmd[u].seen)
           steps == IF others = {} THEN One("unedit_g", {}) ELSE One("unedit_write", {})
           c == [steps |-> steps, seen |-> cmd[u].seen]
<1>1. /\ Running(u, "unedit_p") /\ UNCHANGED <<table, gfile>> /\ Note(u, FALSE) /\ ~Torn(u)
      /\ pfile' = IF others = {} THEN Absent ELSE {}
  BY ObserveIs DEF UneditOpen, Damage
<1>2. cmd' = [cmd EXCEPT ![u] = c]
  BY UneditOpenTyped
<1>3. c.steps = steps /\ c.seen = cmd[u].seen
  OBVIOUS
<1> HIDE DEF c
<1>4. cmd'[u] = c /\ \A v \in Users \ {u} : cmd'[v] = cmd[v]
  BY <1>2 DEF TypeInv
<1>5. pfile = cmd[u].seen /\ pfile # Absent
  BY <1>1 DEF SafeInv, UneditInv
<1>6. pfile' # pfile
  BY <1>1, <1>5 DEF Others
<1>7. \A v \in Users \ {u} : ~Running(v, "unedit_write") /\ ~Running(v, "unedit_p")
  BY <1>1, <1>6 DEF Torn
<1>8. \A v \in Users \ {u} : ~Running(v, "unedit_write")' /\ ~Running(v, "unedit_p")'
  BY <1>4, <1>7, RunningIs
<1>9. AllLocks = pfile
  <2>1. ~Running(u, "unedit_write")
    BY <1>1 DEF Running
  <2>2. Restoring = {}
    BY <1>7, <2>1 DEF Restoring
  <2> QED
    BY <1>5, <2>2, NobodyRestores DEF Locks, LocksOf
<1>10. ~Running(u, "unedit_p")' /\ (Running(u, "unedit_write")' <=> others # {})
  <2>1. ~Is(steps, "unedit_p") /\ (Is(steps, "unedit_write") <=> others # {})
    BY PlanParts
  <2> HIDE DEF steps, others
  <2> QED
    BY <1>3, <1>4, <2>1, RunningIs
<1> HIDE DEF steps
<1>11. AllLocks' = others /\ UneditInv'
  <2>1. CASE others = {}
    <3>1. Restoring' = {}
      BY <1>8, <1>10, <2>1 DEF Restoring
    <3>2. AllLocks' = {}
      BY <1>1, <2>1, <3>1, NobodyRestores DEF Locks, LocksOf
    <3> QED
      BY <1>8, <1>10, <2>1, <3>1, <3>2 DEF UneditInv
  <2>2. CASE others # {}
    <3>1. Restoring' = {u}
      BY <1>8, <1>10, <2>2 DEF Restoring
    <3>2. pfile' = {} /\ Locks' = {}
      BY <1>1, <2>2 DEF Locks, LocksOf
    <3>3. Others(u, cmd'[u].seen) = others
      BY <1>3, <1>4
    <3> HIDE DEF others
    <3>4. UNION {Others(v, cmd'[v].seen) : v \in {u}} = others
      BY <3>3
    <3>5. AllLocks' = others
      BY <3>1, <3>2, <3>4 DEF AllLocks
    <3>6. UneditInv'
      BY <1>8, <1>10, <3>1, <3>2 DEF UneditInv
    <3> QED
      BY <3>5, <3>6
  <2> QED
    BY <2>1, <2>2
<1>12. AllLocks' \subseteq AllLocks /\ Mine(u, AllLocks') = {}
  BY <1>5, <1>9, <1>11 DEF Others, Mine
<1>13. cmd'[u].steps = One("unedit_g", {}) \/ cmd'[u].steps = One("unedit_write", {})
  BY <1>3, <1>4 DEF steps
<1> QED
  BY <1>1, <1>4, <1>11, <1>12, <1>13, PFileKeeps

LEMMA UneditWriteSafe ==
  ASSUME AbsentIsNoFile, TypeInv, TypeInv', SafeInv, NEW u \in Users, UneditWrite(u)
  PROVE  SafeInv'
<1> DEFINE others == Others(u, cmd[u].seen)
<1>1. /\ Running(u, "unedit_write") /\ UNCHANGED <<table, gfile>> /\ Note(u, FALSE) /\ pfile' = others
  BY DEF UneditWrite
<1>2. PICK seen : cmd' = [cmd EXCEPT ![u] = [steps |-> One("unedit_g", {}), seen |-> seen]]
  BY UneditWriteTyped
<1>3. cmd'[u].steps = One("unedit_g", {}) /\ \A v \in Users \ {u} : cmd'[v] = cmd[v]
  BY <1>2 DEF TypeInv
<1>4. /\ pfile = {} /\ u \in Restoring
      /\ \A v \in Users \ {u} : v \notin Restoring /\ ~Running(v, "unedit_p")
  BY <1>1 DEF SafeInv, UneditInv, Restoring
<1>5. Restoring = {u}
  BY <1>4 DEF Restoring
<1>6. others \in LockSets
  BY <1>1, CmdFacts, SmallerLocks DEF Others
<1> HIDE DEF others
<1>7. AllLocks = others
  <2>1. Locks = {}
    BY <1>4 DEF Locks, LocksOf
  <2>2. UNION {Others(v, cmd[v].seen) : v \in {u}} = others
    BY DEF others
  <2> QED
    BY <1>5, <2>1, <2>2 DEF AllLocks
<1>8. \A v \in Users : ~Running(v, "unedit_write")' /\ ~Running(v, "unedit_p")'
  <2>1. \A v \in Users \ {u} : ~Running(v, "unedit_write") /\ ~Running(v, "unedit_p")
    BY <1>4 DEF Restoring
  <2>2. ~Is(One("unedit_g", {}), "unedit_write") /\ ~Is(One("unedit_g", {}), "unedit_p")
    BY PlanParts
  <2> QED
    BY <1>3, <2>1, <2>2, RunningIs
<1>9. Restoring' = {} /\ UneditInv'
  BY <1>8 DEF Restoring, UneditInv
<1>10. AllLocks' = others
  BY <1>1, <1>6, <1>9, NobodyRestores DEF Locks, LocksOf, AbsentIsNoFile
<1>11. AllLocks' \subseteq AllLocks /\ Mine(u, AllLocks') = {}
  BY <1>7, <1>10 DEF others, Others, Mine
<1> QED
  BY <1>1, <1>3, <1>9, <1>11, PFileKeeps

-----------------------------------------------------------------------------
(* The theorems.                                                           *)

LEMMA SafeNext ==
  ASSUME AbsentIsNoFile, TypeInv, TypeInv', SafeInv, [Next]_vars, ~damaged'
  PROVE  SafeInv'
<1>1. CASE Next
  <2>1. PICK u \in Users : \/ Program(u) \/ Fail(u)
                           \/ UneditOpen(u) \/ UneditWrite(u) \/ UneditRemove(u)
                           \/ CleanRemove(u)
    BY <1>1 DEF Next
  <2>2. CASE Program(u)
    <3>1. PICK todo \in Todo(u) :
                 Get(u, todo) \/ Delta(u, todo) \/ Unget(u, todo) \/ Rmdel(u, todo)
                   \/ UneditRead(u, todo) \/ CleanRead(u, todo)
      BY <2>2 DEF Program
    <3> QED
      BY <3>1, GetSafe, DeltaSafe, UngetSafe, RmdelSafe, UneditReadSafe, CleanReadSafe
  <2> QED
    BY <2>1, <2>2, FailSafe, UneditOpenSafe, UneditWriteSafe, UneditRemoveSafe, CleanRemoveSafe
<1>2. CASE UNCHANGED vars
  <2>1. AllLocks' = AllLocks /\ Restoring' = Restoring /\ UneditInv' = UneditInv
    BY <1>2 DEF vars, AllLocks, Restoring, UneditInv, Locks, LocksOf, Running, IsIdle
  <2>2. /\ table' = table /\ gfile' = gfile /\ cmd' = cmd
        /\ passed' = passed /\ botched' = botched
    BY <1>2 DEF vars
  <2> QED
    BY <2>1, <2>2 DEF SafeInv
<1> QED
  BY <1>1, <1>2

LEMMA SafeInit ==
  ASSUME Init
  PROVE  SafeInv
<1>1. /\ table \in Tables /\ Len(table) = 1
      /\ table[1].sid = <<1, 1, 0, 0>> /\ table[1].prev = 0 /\ table[1].type = "D"
  BY InitTable
<1>2. DOMAIN table = {1} /\ CurrentDeltas(table) = {1}
  <2>1. DOMAIN table = 1..1
    BY <1>1, TableFacts
  <2> QED
    BY <1>1, <2>1 DEF CurrentDeltas
<1>3. OnTrunk(table[1].sid)
  BY <1>1 DEF OnTrunk, Components, IsNull
<1>4. TableInv(table)
  BY <1>1, <1>2, <1>3 DEF TableInv, Youngest, Rising, Chain, Rooted, TrunkDeltas
<1>5. \A u \in Users : cmd[u].steps = <<>>
  BY DEF Init, Idle
<1>6. \A u \in Users : \A prog : ~Running(u, prog)
  BY <1>5 DEF Running, IsIdle
<1>7. Restoring = {} /\ UneditInv
  BY <1>6 DEF Restoring, UneditInv
<1>8. AllLocks = {}
  <2>1. Locks = {}
    BY DEF Init, Locks, LocksOf
  <2> QED
    BY <1>7, <2>1, NobodyRestores
<1>9. LocksInv(table, AllLocks)
  BY <1>8 DEF LocksInv
<1> QED
  BY <1>4, <1>5, <1>7, <1>8, <1>9, IdlePlan DEF SafeInv

\* Nothing but the types is claimed of damaged files.
FrontInv == TypeInv /\ (~damaged => SafeInv)

LEMMA FrontInit ==
  ASSUME Init
  PROVE  FrontInv
BY TypeInit, SafeInit DEF FrontInv

LEMMA FrontNext ==
  ASSUME AbsentIsNoFile, FrontInv, [Next]_vars
  PROVE  FrontInv'
<1>1. TypeInv /\ TypeInv'
  BY TypeNext DEF FrontInv
<1>2. ~damaged' => ~damaged
  BY DEF Next, vars
<1> QED
  BY <1>1, <1>2, SafeNext DEF FrontInv

LEMMA SafeMatches ==
  ASSUME FrontInv
  PROVE  EditMatchesLock
<1> SUFFICES ASSUME ~damaged, NEW l \in Locks
             PROVE  LET seq  == FindDelta(table, l.got)
                        text == gfile[l.user].text
                    IN /\ seq # 0
                       /\ \/ botched[l.user]
                          \/ /\ HasCopy(l.user)
                             /\ \/ text = seq
                                \/ table[text].type = "R" /\ table[text].prev = seq
                                \/ passed[l.user]
                                \/ Release(table[text].sid) < Release(l.got)
                                \/ table[text].type = "R" /\ ~OnTrunk(table[text].sid)
  BY DEF EditMatchesLock
<1>1. SafeInv /\ l \in AllLocks /\ table \in Tables
  BY DEF FrontInv, AllLocks, TypeInv
<1>2. /\ l.got \in CurrentSids(table)
      /\ TextInv(table, gfile[l.user], passed[l.user], botched[l.user], l)
  BY <1>1 DEF SafeInv, LocksInv, Fits
<1>3. FindDelta(table, l.got) # 0
  BY <1>1, <1>2, FindDeltaZero
<1>4. Copy(table, gfile[l.user]) => HasCopy(l.user)
  BY DEF Copy, HasCopy, Writable
<1> QED
  BY <1>2, <1>3, <1>4, Zenon DEF TextInv

\* Whatever number of users, releases and deltas, however the programs of their commands
\* interleave, and wherever and however often they stop with part of their work done: as
\* long as the files are not damaged, whoever has a lock has the text that his next delta
\* is to be based on, but for the exceptions of EditMatchesLock.
THEOREM EditorsHaveTheirText ==
  ASSUME AbsentIsNoFile
  PROVE  Spec => []EditMatchesLock
<1>1. Init => FrontInv
  BY FrontInit
<1>2. FrontInv /\ [Next]_vars => FrontInv'
  BY FrontNext
<1>3. FrontInv => EditMatchesLock
  BY SafeMatches
<1> QED
  BY <1>1, <1>2, <1>3, PTL DEF Spec

\* The two halves of WorkIsSafe, for one user.
KeepsWork(u) ==
  Mine(u, Locks) # {} /\ Writable(u) /\ gfile'[u] # gfile[u] =>
    \/ Mine(u, Locks) \cap LocksOf(pfile') = {}
    \/ \E todo \in Todo(u) : Unget(u, todo)
    \/ Running(u, "clean_g") /\ Has(cmd[u].steps, "b")
         /\ \A l \in Mine(u, Locks) : IsBranch(l.delta)
CopiesFirst(u) ==
  Running(u, "rmdel") /\ Len(cmd[u].steps) = 2 /\ Len(cmd'[u].steps) = 1 =>
    LET rid  == Rid(cmd[u].steps)
        text == gfile[u].text
    IN  IF HasCopy(u)
        THEN \/ text = FindDelta(table, rid)
             \/ table[text].sid = rid /\ table[text].type = "R"
        ELSE botched[u]

LEMMA MineOfAll ==
  ASSUME NEW u
  PROVE  Mine(u, Locks) \subseteq Mine(u, AllLocks)
BY DEF Mine, AllLocks

LEMMA DroppedLock ==
  ASSUME AbsentIsNoFile, NEW u, NEW l, Mine(u, Locks) = {l}, SetLocks(Locks \ {l}),
         Locks \ {l} \in LockSets
  PROVE  KeepsWork(u)
<1>1. LocksOf(pfile') = Locks \ {l}
  BY LocksAre DEF Locks, LocksOf
<1> QED
  BY <1>1 DEF KeepsWork

\* A user's own programs.
LEMMA ProgramKeepsWork ==
  ASSUME AbsentIsNoFile, TypeInv, SafeInv, NEW u \in Users, Program(u)
  PROVE  KeepsWork(u) /\ CopiesFirst(u)
<1>1. PICK todo \in Todo(u) :
             Get(u, todo) \/ Delta(u, todo) \/ Unget(u, todo) \/ Rmdel(u, todo)
               \/ UneditRead(u, todo) \/ CleanRead(u, todo)
  BY DEF Program
<1>2. Running(u, "rmdel") => At(todo, "rmdel") /\ todo = cmd[u].steps
  BY DEF Running, Todo, At
<1>3. CASE Get(u, todo)
  <2>1. KeepsWork(u)
    <3>1. Has(todo, "g") => UNCHANGED gfile
      BY <1>3 DEF Get, GetEnds, GetLoses, GetStops
    <3>2. ~Has(todo, "g") => ~Writable(u)
      BY <1>3 DEF Get, OutputPermitted
    <3> QED
      BY <3>1, <3>2 DEF KeepsWork
  <2>2. At(todo, "get")
    BY <1>3 DEF Get
  <2> QED
    BY <1>2, <2>1, <2>2 DEF At, CopiesFirst
<1>4. CASE Delta(u, todo)
  <2>1. At(todo, "delta")
    BY <1>4 DEF Delta
  <2>2. PICK l \in Locks : /\ Mine(u, Locks) = {l} /\ Locks \ {l} \in LockSets
                           /\ DeltaEnds(u, todo, l) \/ DeltaStops(u, l)
    BY <1>4, DeltaFacts
  <2>3. KeepsWork(u)
    <3>1. CASE DeltaEnds(u, todo, l)
      BY <2>2, <3>1, DroppedLock DEF DeltaEnds
    <3>2. CASE DeltaStops(u, l)
      BY <3>2 DEF DeltaStops, KeepsWork
    <3> QED
      BY <2>2, <3>1, <3>2
  <2> QED
    BY <1>2, <2>1, <2>3 DEF At, CopiesFirst
<1>5. CASE Unget(u, todo)
  <2>1. At(todo, "unget")
    BY <1>5 DEF Unget
  <2>2. KeepsWork(u)
    BY <1>5 DEF KeepsWork
  <2> QED
    BY <1>2, <2>1, <2>2 DEF At, CopiesFirst
<1>6. CASE UneditRead(u, todo) \/ CleanRead(u, todo)
  <2>1. UNCHANGED gfile /\ (At(todo, "unedit") \/ At(todo, "clean"))
    BY <1>6 DEF UneditRead, CleanRead
  <2> QED
    BY <1>2, <2>1 DEF At, CopiesFirst, KeepsWork
<1>7. CASE Rmdel(u, todo)
  <2>1. UNCHANGED gfile
    BY <1>7 DEF Rmdel
  <2>2. KeepsWork(u)
    BY <2>1 DEF KeepsWork
  <2> DEFINE text == gfile[u].text
             rid == Rid(cmd[u].steps)
  <2>3. ASSUME Running(u, "rmdel")
        PROVE  IF HasCopy(u)
               THEN \/ text = FindDelta(table, rid)
                    \/ table[text].sid = rid /\ table[text].type = "R"
               ELSE botched[u]
    <3>1. /\ botched[u] \/ Copied(table, gfile[u], Mine(u, AllLocks))
          /\ HasText(gfile[u]) => Copy(table, gfile[u]) /\ table[text].sid = rid
      <4>1. PlanInv(table, gfile[u], passed[u], botched[u], cmd[u].steps, Mine(u, AllLocks))
        BY DEF SafeInv
      <4>2. Is(cmd[u].steps, "rmdel")
        BY <2>3, RunningIs
      <4> QED
        BY <4>1, <4>2 DEF PlanInv, Rid
    <3>2. HasCopy(u) <=> HasText(gfile[u])
      BY DEF HasCopy, HasText, Writable
    <3>3. CASE ~HasCopy(u)
      <4>1. ~Copy(table, gfile[u])
        BY <3>2, <3>3 DEF HasText, Copy
      <4> QED
        BY <3>1, <3>3, <4>1 DEF Copied
    <3>4. CASE HasCopy(u)
      <4>1. text \in 1..Len(table) /\ table[text].sid = rid
        BY <3>1, <3>2, <3>4 DEF Copy
      <4>2. table \in Tables
        BY DEF TypeInv
      <4> HIDE DEF text, rid
      <4>3. table[text].type \in {"D", "R"} /\ text \in DOMAIN table
        BY <4>1, <4>2, TableFacts DEF DeltaRecords
      <4>4. ASSUME table[text].type = "D" PROVE text = FindDelta(table, rid)
        <5>1. text \in CurrentDeltas(table)
          BY <4>3, <4>4 DEF CurrentDeltas
        <5> QED
          BY <4>1, <5>1, FindDeltaIs DEF SafeInv
      <4> QED
        BY <3>4, <4>1, <4>3, <4>4
    <3> QED
      BY <3>3, <3>4
  <2> QED
    BY <2>2, <2>3 DEF CopiesFirst
<1> QED
  BY <1>1, <1>3, <1>4, <1>5, <1>6, <1>7

\* The rest of a user's own steps.
LEMMA OwnStepKeepsWork ==
  ASSUME TypeInv, SafeInv, NEW u \in Users,
         Fail(u) \/ UneditOpen(u) \/ UneditWrite(u) \/ UneditRemove(u) \/ CleanRemove(u)
  PROVE  KeepsWork(u) /\ CopiesFirst(u)
<1>1. PlanInv(table, gfile[u], passed[u], botched[u], cmd[u].steps, Mine(u, AllLocks))
  BY DEF SafeInv
<1>2. CASE Fail(u)
  <2>1. cmd' = [cmd EXCEPT ![u] = Rest(<<>>)] /\ UNCHANGED gfile
    BY <1>2, ContinueIs DEF Fail
  <2>2. cmd'[u].steps = <<>>
    BY <2>1 DEF TypeInv, Rest
  <2> QED
    BY <2>1, <2>2 DEF KeepsWork, CopiesFirst
<1>3. CASE UneditOpen(u) \/ UneditWrite(u)
  <2>1. UNCHANGED gfile /\ ~Running(u, "rmdel")
    BY <1>3 DEF UneditOpen, UneditWrite, Running
  <2> QED
    BY <2>1 DEF KeepsWork, CopiesFirst
<1>4. CASE UneditRemove(u)
  <2>1. Running(u, "unedit_g") /\ ~Running(u, "rmdel")
    BY <1>4 DEF UneditRemove, Running
  <2>2. Mine(u, AllLocks) = {}
    BY <1>1, <2>1, RunningIs DEF PlanInv
  <2>3. Mine(u, Locks) = {}
    BY <2>2, MineOfAll
  <2> QED
    BY <2>1, <2>3 DEF KeepsWork, CopiesFirst
<1>5. CASE CleanRemove(u)
  <2>1. Running(u, "clean_g") /\ ~Running(u, "rmdel")
    BY <1>5 DEF CleanRemove, Running
  <2>2. \A l \in Mine(u, AllLocks) : "b" \in Head(cmd[u].steps).opts /\ IsBranch(l.delta)
    BY <1>1, <2>1, RunningIs DEF PlanInv
  <2>3. \A l \in Mine(u, Locks) : "b" \in Head(cmd[u].steps).opts /\ IsBranch(l.delta)
    BY <2>2, MineOfAll
  <2> QED
    BY <2>1, <2>3 DEF KeepsWork, CopiesFirst, Has
<1> QED
  BY <1>2, <1>3, <1>4, <1>5

LEMMA NextKeepsWork ==
  ASSUME AbsentIsNoFile, FrontInv, Next, NEW u \in Users
  PROVE  KeepsWork(u) /\ CopiesFirst(u)
<1>1. TypeInv /\ SafeInv
  BY DEF FrontInv, Next
<1>2. PICK v \in Users : \/ Program(v) \/ Fail(v)
                         \/ UneditOpen(v) \/ UneditWrite(v) \/ UneditRemove(v)
                         \/ CleanRemove(v)
  BY DEF Next
<1>3. CASE v = u
  BY <1>1, <1>2, <1>3, ProgramKeepsWork, OwnStepKeepsWork
<1>4. CASE v # u
  <2>1. TypedStep(v)
    <3>1. CASE Program(v)
      BY <1>1, <3>1, GetTyped, DeltaTyped, UngetTyped, RmdelTyped, UneditReadTyped, CleanReadTyped
         DEF Program
    <3> QED
      BY <1>1, <1>2, <3>1, FailTyped, UneditOpenTyped, UneditWriteTyped, UneditRemoveTyped,
         CleanRemoveTyped
  <2>2. gfile'[u] = gfile[u] /\ cmd'[u] = cmd[u]
    BY <1>1, <1>4, <2>1 DEF TypedStep, TypeInv
  <2> QED
    BY <2>2 DEF KeepsWork, CopiesFirst
<1> QED
  BY <1>3, <1>4

\* However the users' commands interleave and wherever they stop, the file of a user who is
\* editing goes away only by his own delta, unget or unedit or by clean -b on a branch; and
\* the delta that the rmdel of fix removes is the one of which the user has a copy, unless a
\* get of his has failed and said nothing, or the delta that he got has been removed before
\* and another one been checked in under its SID.
THEOREM EditorsWorkIsSafe ==
  ASSUME AbsentIsNoFile
  PROVE  Spec => WorkIsSafe
<1>1. Init => FrontInv
  BY FrontInit
<1>2. FrontInv /\ [Next]_vars => FrontInv'
  BY FrontNext
<1>3. FrontInv /\ [Next]_vars =>
        [\A u \in Users :
           /\ Mine(u, Locks) # {} /\ Writable(u) /\ gfile'[u] # gfile[u] =>
                \/ Mine(u, Locks) \cap LocksOf(pfile') = {}
                \/ \E todo \in Todo(u) : Unget(u, todo)
                \/ Running(u, "clean_g") /\ Has(cmd[u].steps, "b")
                     /\ \A l \in Mine(u, Locks) : IsBranch(l.delta)
           /\ Running(u, "rmdel") /\ Len(cmd[u].steps) = 2 /\ Len(cmd'[u].steps) = 1 =>
                LET rid  == Rid(cmd[u].steps)
                    text == gfile[u].text
                IN  IF HasCopy(u)
                    THEN \/ text = FindDelta(table, rid)
                         \/ table[text].sid = rid /\ table[text].type = "R"
                    ELSE botched[u]]_vars
  BY NextKeepsWork DEF KeepsWork, CopiesFirst
<1> QED
  BY <1>1, <1>2, <1>3, PTL DEF Spec, WorkIsSafe

=============================================================================
