-------------------------- MODULE OperatorProofs ---------------------------
(***************************************************************************)
(* What the operators of Sid and DiffState return: for any delta table,    *)
(* any p-file and any flags, and for any edit script.                      *)
(*                                                                         *)
(* The first part is what the proofs about all components need for the     *)
(* loops of the code: functions defined by recursion over an interval      *)
(* exist, and there is induction over one.  Then come the SIDs that get    *)
(* finds, and last diff's output and diff_state, which reads it: wherever  *)
(* the reader is in the output, it answers for the next line of the new    *)
(* file as the edit script says (ReaderSteps).                             *)
(***************************************************************************)
EXTENDS Sid, DiffState, FiniteSetTheorems, SequenceTheorems, TLAPS

-----------------------------------------------------------------------------
(* Least and greatest numbers.  Induction over data is done with these: of *)
(* the counterexamples to a claim there would be a least one.              *)

LEMMA LeastNumber ==
  ASSUME NEW S, S \subseteq Nat, S # {}
  PROVE  \E m \in S : \A k \in S : m <= k
<1> DEFINE R == OpToRel(<, Nat)
<1>1. IsWellFoundedOn(R, Nat)
  BY NatLessThanWellFounded
<1>2. ASSUME NEW x \in Nat, NEW y \in Nat, <<y, x>> \notin R
      PROVE  x <= y
  <2>1. ~(y < x)
    BY <1>2 DEF OpToRel
  <2> QED
    BY <2>1
<1> HIDE DEF R
<1>3. PICK x \in S : \A y \in S : ~(<<y, x>> \in R)
  BY <1>1, WFMin
<1>4. \A y \in S : x <= y
  BY <1>2, <1>3
<1> QED
  BY <1>4

LEMMA GreatestNumber ==
  ASSUME NEW n \in Nat, NEW S, S \subseteq 0..n, S # {}
  PROVE  \E m \in S : \A k \in S : k <= m
<1> DEFINE T == {x \in 0..n : n - x \in S}
<1>1. ASSUME NEW k \in S PROVE n - k \in T /\ n - k \in Nat /\ n - (n - k) = k
  <2>1. k \in 0..n
    OBVIOUS
  <2> QED
    BY <2>1
<1>2. T \subseteq Nat /\ T # {}
  <2>1. PICK k \in S : TRUE
    OBVIOUS
  <2>2. n - k \in T
    BY <1>1
  <2>3. T \subseteq 0..n
    OBVIOUS
  <2> HIDE DEF T
  <2> QED
    BY <2>2, <2>3
<1>3. PICK t \in T : \A k \in T : t <= k
  BY <1>2, LeastNumber
<1>4. t \in 0..n /\ n - t \in S
  OBVIOUS
<1>5. ASSUME NEW k \in S PROVE k <= n - t
  <2>1. k \in 0..n /\ t <= n - k
    BY <1>1, <1>3
  <2> HIDE DEF T
  <2> QED
    BY <2>1, <1>4
<1> QED
  BY <1>4, <1>5

\* A function that is defined from its value at n + 1 down.
Downward(f, n, S, base, step) ==
  /\ f \in [1..(n + 1) -> S]
  /\ f[n + 1] = base
  /\ \A i \in 1..n : f[i] = step[i][f[i + 1]]

LEMMA DownwardRecursion ==
  ASSUME NEW n \in Nat, NEW S, NEW base \in S, NEW step \in [1..n -> [S -> S]]
  PROVE  \E f : Downward(f, n, S, base, step)
<1> DEFINE Good(d) ==
      \E f \in [(n + 1 - d)..(n + 1) -> S] :
        /\ f[n + 1] = base
        /\ \A i \in (n + 1 - d)..n : f[i] = step[i][f[i + 1]]
    Bad == {d \in 0..n : ~Good(d)}
<1>1. Good(0)
  <2> DEFINE f == [i \in (n + 1)..(n + 1) |-> base]
  <2>1. f \in [(n + 1 - 0)..(n + 1) -> S] /\ f[n + 1] = base
    OBVIOUS
  <2>2. \A i \in (n + 1 - 0)..n : FALSE
    OBVIOUS
  <2> HIDE DEF f
  <2> QED
    BY <2>1, <2>2
<1>2. ASSUME NEW d \in 0..(n - 1), Good(d) PROVE Good(d + 1)
  <2>1. PICK f \in [(n + 1 - d)..(n + 1) -> S] :
          /\ f[n + 1] = base
          /\ \A i \in (n + 1 - d)..n : f[i] = step[i][f[i + 1]]
    BY <1>2
  <2> DEFINE k == n - d
  <2>2. k \in 1..n /\ n + 1 - d = k + 1 /\ n + 1 - (d + 1) = k
    OBVIOUS
  <2> HIDE DEF k
  <2> DEFINE g == [i \in k..(n + 1) |-> IF i = k THEN step[k][f[k + 1]] ELSE f[i]]
  <2>0. \A i \in k..(n + 1) : g[i] = IF i = k THEN step[k][f[k + 1]] ELSE f[i]
    OBVIOUS
  <2>3. k + 1 \in (n + 1 - d)..(n + 1) /\ f[k + 1] \in S
    BY <2>2
  <2>4. step[k][f[k + 1]] \in S
    BY <2>2, <2>3
  <2>5. \A i \in k..(n + 1) : i # k => i \in (n + 1 - d)..(n + 1)
    BY <2>2
  <2>6. g \in [k..(n + 1) -> S]
    BY <2>4, <2>5
  <2> HIDE DEF g
  <2>7. g[n + 1] = base
    BY <2>0, <2>1, <2>2
  <2>8. ASSUME NEW i \in k..n PROVE g[i] = step[i][g[i + 1]]
    <3>1. i + 1 \in k..(n + 1) /\ i + 1 # k
      BY <2>2
    <3>2. g[i + 1] = f[i + 1] /\ g[i] = IF i = k THEN step[k][f[k + 1]] ELSE f[i]
      BY <3>1, <2>0, <2>2
    <3>3. CASE i = k
      BY <3>2, <3>3
    <3>4. CASE i # k
      <4>1. i \in (n + 1 - d)..n
        BY <3>4, <2>2
      <4> QED
        BY <4>1, <3>4, <3>2, <2>1
    <3> QED
      BY <3>3, <3>4
  <2> QED
    BY <2>2, <2>6, <2>7, <2>8
<1> HIDE DEF Good
<1>3. Bad = {}
  <2>1. SUFFICES ASSUME Bad # {} PROVE FALSE
    OBVIOUS
  <2>2. PICK d \in Bad : \A k \in Bad : d <= k
    <3>1. Bad \subseteq Nat
      OBVIOUS
    <3> HIDE DEF Bad
    <3> QED
      BY <2>1, <3>1, LeastNumber
  <2>3. d \in 0..n /\ d # 0
    BY <1>1
  <2>4. d - 1 \in 0..(n - 1) /\ d - 1 < d /\ (d - 1) + 1 = d
    BY <2>3
  <2>5. d - 1 \notin Bad
    BY <2>2, <2>4
  <2>6. Good(d - 1)
    BY <2>4, <2>5
  <2> QED
    BY <1>2, <2>4, <2>6
<1>4. Good(n)
  BY <1>3
<1>5. n + 1 - n = 1
  OBVIOUS
<1> QED
  BY <1>4, <1>5 DEF Good, Downward

LEMMA DownwardInduction ==
  ASSUME NEW n \in Nat, NEW S, n + 1 \in S, \A i \in 1..n : i + 1 \in S => i \in S
  PROVE  \A i \in 1..(n + 1) : i \in S
<1> DEFINE Bad == {d \in 0..n : n + 1 - d \notin S}
<1>1. Bad = {}
  <2>1. SUFFICES ASSUME Bad # {} PROVE FALSE
    OBVIOUS
  <2>2. PICK d \in Bad : \A k \in Bad : d <= k
    <3>1. Bad \subseteq Nat
      OBVIOUS
    <3> HIDE DEF Bad
    <3> QED
      BY <2>1, <3>1, LeastNumber
  <2>3. d \in 0..n /\ d # 0
    OBVIOUS
  <2>4. d - 1 \in 0..n /\ d - 1 < d /\ n + 1 - d \in 1..n /\ (n + 1 - d) + 1 = n + 1 - (d - 1)
    BY <2>3
  <2>5. (n + 1 - d) + 1 \in S
    BY <2>2, <2>4
  <2> QED
    BY <2>4, <2>5
<1>2. ASSUME NEW i \in 1..(n + 1) PROVE i \in S
  <2>1. n + 1 - i \in 0..n /\ n + 1 - (n + 1 - i) = i
    OBVIOUS
  <2>2. n + 1 - i \notin Bad
    BY <1>1
  <2>3. n + 1 - (n + 1 - i) \in S
    BY <2>1, <2>2
  <2> QED
    BY <2>1, <2>3
<1> QED
  BY <1>2

-----------------------------------------------------------------------------
(* Upward.                                                                 *)

LEMMA UpwardInduction ==
  ASSUME NEW n \in Nat, NEW S, 0 \in S, \A i \in 1..n : i - 1 \in S => i \in S
  PROVE  \A i \in 0..n : i \in S
<1> DEFINE Bad == {i \in 0..n : i \notin S}
<1>1. SUFFICES ASSUME Bad # {} PROVE FALSE
  OBVIOUS
<1>2. PICK d \in Bad : \A k \in Bad : d <= k
  <2>1. Bad \subseteq Nat
    OBVIOUS
  <2> HIDE DEF Bad
  <2> QED
    BY <1>1, <2>1, LeastNumber
<1>3. d \in 1..n /\ d - 1 \in 0..n /\ d - 1 < d
  OBVIOUS
<1>4. d - 1 \in S
  BY <1>2, <1>3
<1> QED
  BY <1>3, <1>4

\* A function that is defined from its value at 0 up.
Upward(f, n, S, base, step) ==
  /\ f \in [0..n -> S]
  /\ f[0] = base
  /\ \A i \in 1..n : f[i] = step[i][f[i - 1]]

LEMMA UpwardRecursion ==
  ASSUME NEW n \in Nat, NEW S, NEW base \in S, NEW step \in [1..n -> [S -> S]]
  PROVE  \E f : Upward(f, n, S, base, step)
<1> DEFINE Good(d) ==
      \E f \in [0..d -> S] : f[0] = base /\ \A i \in 1..d : f[i] = step[i][f[i - 1]]
    All == {d \in 0..n : Good(d)}
<1>1. Good(0)
  <2> DEFINE f == [i \in 0..0 |-> base]
  <2>1. f \in [0..0 -> S] /\ f[0] = base
    OBVIOUS
  <2>2. \A i \in 1..0 : FALSE
    OBVIOUS
  <2> HIDE DEF f
  <2> QED
    BY <2>1, <2>2
<1>2. ASSUME NEW d \in 1..n, Good(d - 1) PROVE Good(d)
  <2>1. PICK f \in [0..(d - 1) -> S] : f[0] = base /\ \A i \in 1..(d - 1) : f[i] = step[i][f[i - 1]]
    BY <1>2
  <2> DEFINE g == [i \in 0..d |-> IF i = d THEN step[d][f[d - 1]] ELSE f[i]]
  <2>2. \A i \in 0..d : g[i] = IF i = d THEN step[d][f[d - 1]] ELSE f[i]
    OBVIOUS
  <2>3. step[d][f[d - 1]] \in S
    <3>1. d - 1 \in 0..(d - 1)
      OBVIOUS
    <3> QED
      BY <3>1
  <2>4. \A i \in 0..d : i # d => i \in 0..(d - 1)
    OBVIOUS
  <2>5. g \in [0..d -> S]
    BY <2>3, <2>4
  <2> HIDE DEF g
  <2>6. g[0] = base
    BY <2>1, <2>2
  <2>7. ASSUME NEW i \in 1..d PROVE g[i] = step[i][g[i - 1]]
    <3>1. i - 1 \in 0..d /\ i - 1 # d /\ i \in 0..d
      OBVIOUS
    <3>2. g[i - 1] = f[i - 1] /\ g[i] = IF i = d THEN step[d][f[d - 1]] ELSE f[i]
      BY <2>2, <3>1
    <3>3. i # d => i \in 1..(d - 1)
      OBVIOUS
    <3> QED
      BY <2>1, <3>2, <3>3
  <2> QED
    BY <2>5, <2>6, <2>7
<1> HIDE DEF Good
<1>3. 0 \in All /\ \A i \in 1..n : i - 1 \in All => i \in All
  BY <1>1, <1>2
<1>4. n \in All
  <2>1. n \in 0..n
    OBVIOUS
  <2> HIDE DEF All
  <2>2. \A i \in 0..n : i \in All
    BY <1>3, UpwardInduction
  <2> QED
    BY <2>1, <2>2
<1> QED
  BY <1>4 DEF Good, Upward

-----------------------------------------------------------------------------
(* Delta tables.                                                           *)
\* The SIDs of deltas: a release and a level, or all four components.
DeltaSids == {id \in WellFormed : Components(id) \in {2, 4}}

\* Delta tables: predecessors are older.
DeltaRecords == [sid : DeltaSids, prev : Nat, type : {"D", "R"}]
Tables == {t \in Seq(DeltaRecords) : \A i \in 1..Len(t) : t[i].prev < i}

-----------------------------------------------------------------------------
(* Looking deltas up.                                                      *)

LEMMA TableFacts ==
  ASSUME NEW t \in Tables
  PROVE  /\ Len(t) \in Nat /\ DOMAIN t = 1..Len(t)
         /\ \A i \in 1..Len(t) : t[i] \in DeltaRecords
         /\ CurrentDeltas(t) \subseteq 1..Len(t)
         /\ CurrentSids(t) \subseteq DeltaSids
<1>1. t \in Seq(DeltaRecords)
  BY DEF Tables
<1>2. Len(t) \in Nat /\ DOMAIN t = 1..Len(t) /\ \A i \in 1..Len(t) : t[i] \in DeltaRecords
  BY <1>1
<1> QED
  BY <1>2 DEF CurrentDeltas, CurrentSids, DeltaRecords

\* cssc_delta_table::find: a current delta with that SID, if there is one.
LEMMA FindDeltaFinds ==
  ASSUME NEW t \in Tables, NEW id
  PROVE  /\ id \in CurrentSids(t) => /\ FindDelta(t, id) \in CurrentDeltas(t)
                                     /\ t[FindDelta(t, id)].sid = id
         /\ id \notin CurrentSids(t) => FindDelta(t, id) = 0
<1> DEFINE S == {i \in CurrentDeltas(t) : t[i].sid = id}
<1>1. S \subseteq 0..Len(t) /\ Len(t) \in Nat
  BY TableFacts
<1>2. id \in CurrentSids(t) <=> S # {}
  BY DEF CurrentSids
<1>3. FindDelta(t, id) = IF S = {} THEN 0 ELSE CHOOSE i \in S : \A j \in S : j <= i
  BY DEF FindDelta
<1>4. ASSUME S # {} PROVE FindDelta(t, id) \in S
  <2>1. \E i \in S : \A j \in S : j <= i
    <3> HIDE DEF S
    <3> QED
      BY <1>1, <1>4, GreatestNumber
  <2> HIDE DEF S
  <2> QED
    BY <1>3, <1>4, <2>1
<1> QED
  BY <1>2, <1>3, <1>4

LEMMA FindDeltaZero ==
  ASSUME NEW t \in Tables, NEW id
  PROVE  FindDelta(t, id) = 0 <=> id \notin CurrentSids(t)
BY FindDeltaFinds, TableFacts

\* The loop of find_requested_sid, as the function it computes.
RequestedStep(t, want, top, i, prev) ==
  IF /\ ~prev.stop
     /\ t[i].type = "D"
     /\ SidMatches(want, t[i].sid, top)
     /\ prev.best = NullSid \/ Gte(t[i].sid, prev.best)
  THEN [best |-> t[i].sid,
        stop |-> top /\ Matches(t[i].sid, want, WantedComponents(want, top))]
  ELSE prev

RequestedLoop(t, want, top) ==
  CHOOSE f : f = [i \in 1..(Len(t) + 1) |->
                    IF i = Len(t) + 1 THEN [best |-> NullSid, stop |-> FALSE]
                    ELSE RequestedStep(t, want, top, i, f[i + 1])]

LEMMA RequestedIsLoop ==
  ASSUME NEW t, NEW requested, NEW top, NEW defaultSid
  PROVE  FindRequestedSid(t, requested, top, defaultSid) =
           LET want == Sought(t, requested, defaultSid)
           IN  IF IsNull(want) /\ ~top THEN NullSid ELSE RequestedLoop(t, want, top)[1].best
BY Zenon DEF FindRequestedSid, RequestedLoop, RequestedStep

\* What the loop has found at any moment is the SID of a current delta.
LEMMA LoopFindsCurrent ==
  ASSUME NEW t \in Tables, NEW want, NEW top \in BOOLEAN
  PROVE  LET F == RequestedLoop(t, want, top)
             S == [best : CurrentSids(t) \cup {NullSid}, stop : BOOLEAN]
         IN  /\ F \in [1..(Len(t) + 1) -> S]
             /\ F[Len(t) + 1] = [best |-> NullSid, stop |-> FALSE]
             /\ \A i \in 1..Len(t) : F[i] = RequestedStep(t, want, top, i, F[i + 1])
<1> DEFINE n == Len(t)
           S == [best : CurrentSids(t) \cup {NullSid}, stop : BOOLEAN]
           base == [best |-> NullSid, stop |-> FALSE]
           step == [i \in 1..n |-> [prev \in S |-> RequestedStep(t, want, top, i, prev)]]
           F == RequestedLoop(t, want, top)
           Body(f) == [i \in 1..(n + 1) |-> IF i = n + 1 THEN base
                                            ELSE RequestedStep(t, want, top, i, f[i + 1])]
<1>1. n \in Nat /\ base \in S
  BY TableFacts
<1>2. ASSUME NEW i \in 1..n, NEW prev \in S PROVE RequestedStep(t, want, top, i, prev) \in S
  <2>1. t[i].type = "D" => t[i].sid \in CurrentSids(t)
    BY TableFacts DEF CurrentSids, CurrentDeltas
  <2>2. (top /\ Matches(t[i].sid, want, WantedComponents(want, top))) \in BOOLEAN
    OBVIOUS
  <2> QED
    BY <2>1, <2>2 DEF RequestedStep
<1>3. step \in [1..n -> [S -> S]]
  BY <1>2
<1>4. \A i \in 1..n : \A prev \in S : step[i][prev] = RequestedStep(t, want, top, i, prev)
  OBVIOUS
<1>5. F = CHOOSE f : f = Body(f)
  BY Zenon DEF RequestedLoop
<1> HIDE DEF step, S, F, base, n
<1>0. PICK f : Downward(f, n, S, base, step)
  BY <1>1, <1>3, DownwardRecursion
<1>6. /\ f \in [1..(n + 1) -> S]
      /\ f[n + 1] = base /\ \A i \in 1..n : f[i] = step[i][f[i + 1]]
  BY <1>0 DEF Downward
<1>7. f = Body(f)
  <2>1. ASSUME NEW i \in 1..(n + 1)
        PROVE  f[i] = IF i = n + 1 THEN base ELSE RequestedStep(t, want, top, i, f[i + 1])
    <3>1. CASE i = n + 1
      BY <1>6, <3>1
    <3>2. CASE i # n + 1
      <4>1. i \in 1..n /\ i + 1 \in 1..(n + 1)
        BY <1>1, <3>2
      <4> QED
        BY <1>4, <1>6, <3>2, <4>1
    <3> QED
      BY <3>1, <3>2
  <2> QED
    BY <1>6, <2>1
<1>8. F = Body(F)
  <2> HIDE DEF Body
  <2> QED
    BY <1>5, <1>7
<1>9. /\ F[n + 1] = base
      /\ \A i \in 1..n : F[i] = RequestedStep(t, want, top, i, F[i + 1])
  <2>1. ASSUME NEW i \in 1..(n + 1)
        PROVE  F[i] = IF i = n + 1 THEN base ELSE RequestedStep(t, want, top, i, F[i + 1])
    BY <1>8
  <2>2. n + 1 \in 1..(n + 1) /\ \A i \in 1..n : i \in 1..(n + 1) /\ i # n + 1
    BY <1>1
  <2> QED
    BY <2>1, <2>2
<1>10. DOMAIN F = 1..(n + 1)
  BY <1>8
<1> HIDE DEF Body
<1> DEFINE Bad == {d \in 0..n : F[n + 1 - d] \notin S}
<1>11. Bad = {}
  <2>1. SUFFICES ASSUME Bad # {} PROVE FALSE
    OBVIOUS
  <2>2. PICK d \in Bad : \A k \in Bad : d <= k
    <3>1. Bad \subseteq Nat
      BY <1>1
    <3> HIDE DEF Bad
    <3> QED
      BY <2>1, <3>1, LeastNumber
  <2>3. d \in 0..n /\ d # 0
    BY <1>1, <1>9
  <2>4. d - 1 \in 0..n /\ d - 1 < d /\ n + 1 - d \in 1..n /\ (n + 1 - d) + 1 = n + 1 - (d - 1)
    BY <1>1, <2>3
  <2>5. F[(n + 1 - d) + 1] \in S
    BY <2>2, <2>4
  <2>6. F[n + 1 - d] \in S
    BY <1>2, <1>9, <2>4, <2>5
  <2> QED
    BY <2>6
<1>12. ASSUME NEW i \in 1..(n + 1) PROVE F[i] \in S
  <2>1. n + 1 - i \in 0..n /\ n + 1 - (n + 1 - i) = i
    BY <1>1
  <2> QED
    BY <1>11, <2>1
<1>13. F = [i \in 1..(n + 1) |-> F[i]]
  BY <1>8, <1>10 DEF Body
<1>14. F \in [1..(n + 1) -> S]
  BY <1>12, <1>13
<1> QED
  BY <1>9, <1>14 DEF F, S, base, n

\* find_requested_sid answers with the SID of a delta that is there, or with none.
LEMMA RequestedIsCurrent ==
  ASSUME NEW t \in Tables, NEW requested, NEW top \in BOOLEAN, NEW defaultSid
  PROVE  FindRequestedSid(t, requested, top, defaultSid) \in CurrentSids(t) \cup {NullSid}
<1> DEFINE want == Sought(t, requested, defaultSid)
           F == RequestedLoop(t, want, top)
<1>1. FindRequestedSid(t, requested, top, defaultSid) =
        IF IsNull(want) /\ ~top THEN NullSid ELSE F[1].best
  BY RequestedIsLoop
<1>2. F \in [1..(Len(t) + 1) -> [best : CurrentSids(t) \cup {NullSid}, stop : BOOLEAN]]
  BY LoopFindsCurrent
<1>3. 1 \in 1..(Len(t) + 1)
  BY TableFacts
<1> HIDE DEF F, want
<1>4. F[1].best \in CurrentSids(t) \cup {NullSid}
  BY <1>2, <1>3
<1> QED
  BY <1>1, <1>4

-----------------------------------------------------------------------------
(* The SID of a new delta.                                                 *)

LEMMA WellFormedFacts ==
  ASSUME NEW id \in WellFormed
  PROVE  /\ id \in SidTuples /\ id = <<id[1], id[2], id[3], id[4]>>
         /\ id[1] \in Nat /\ id[2] \in Nat /\ id[3] \in Nat /\ id[4] \in Nat
BY DEF WellFormed, SidTuples

LEMMA DeltaSidFacts ==
  ASSUME NEW id
  PROVE  id \in DeltaSids <=>
           /\ id \in SidTuples
           /\ id[1] > 0 /\ id[2] > 0
           /\ (id[3] = 0 /\ id[4] = 0) \/ (id[3] > 0 /\ id[4] > 0)
BY DEF DeltaSids, WellFormed, SidTuples, Components, IsNull

\* A delta table has finitely many SIDs.
LEMMA CurrentSidsFinite ==
  ASSUME NEW t \in Tables
  PROVE  IsFiniteSet(CurrentSids(t))
<1> DEFINE f == [i \in CurrentDeltas(t) |-> t[i].sid]
<1>1. IsFiniteSet(CurrentDeltas(t))
  <2>1. CurrentDeltas(t) \subseteq 1..Len(t) /\ Len(t) \in Nat
    BY TableFacts
  <2>2. IsFiniteSet(1..Len(t))
    BY <2>1, FS_Interval
  <2> QED
    BY <2>1, <2>2, FS_Subset
<1>2. f \in Surjection(CurrentDeltas(t), CurrentSids(t))
  BY DEF Surjection, CurrentSids
<1> HIDE DEF f
<1> QED
  BY <1>1, <1>2, FS_Surjection

LEMMA TooManyPigeons ==
  ASSUME NEW S, IsFiniteSet(S), NEW T, IsFiniteSet(T), Cardinality(T) < Cardinality(S),
         NEW f \in [S -> T], \A x, y \in S : f[x] = f[y] => x = y
  PROVE  FALSE
<1>1. \E x, y \in S : x # y /\ f[x] = f[y]
  BY FS_PigeonHole
<1> QED
  BY <1>1

\* Among one more numbers than there are SIDs taken, one gives a SID that is free.
LEMMA FreeNumber ==
  ASSUME NEW taken, IsFiniteSet(taken),
         NEW sid \in [0..Cardinality(taken) -> SidTuples],
         \A j, k \in 0..Cardinality(taken) : sid[j] = sid[k] => j = k
  PROVE  LET S == {k \in 0..Cardinality(taken) : sid[k] \notin taken}
             m == CHOOSE k \in S : \A j \in S : k <= j
         IN  m \in Nat /\ m \in 0..Cardinality(taken) /\ sid[m] \notin taken
<1> DEFINE c == Cardinality(taken)
           S == {k \in 0..c : sid[k] \notin taken}
           m == CHOOSE k \in S : \A j \in S : k <= j
<1>1. c \in Nat
  BY FS_CardinalityType
<1>2. S # {}
  <2>1. SUFFICES ASSUME S = {} PROVE FALSE
    OBVIOUS
  <2>2. sid \in [0..c -> taken]
    BY <2>1
  <2> DEFINE D == 0..c
  <2>3. IsFiniteSet(D) /\ Cardinality(D) = c + 1
    <3> HIDE DEF c
    <3>1. 0 \in Int /\ c \in Int /\ ~(0 > c)
      BY <1>1
    <3>2. IsFiniteSet(D) /\ Cardinality(D) = IF 0 > c THEN 0 ELSE c - 0 + 1
      BY <3>1, FS_Interval, Zenon
    <3>3. c - 0 + 1 = c + 1
      BY <1>1
    <3> QED
      BY <3>1, <3>2, <3>3
  <2>4. Cardinality(taken) < Cardinality(D)
    BY <1>1, <2>3
  <2>5. sid \in [D -> taken] /\ \A x, y \in D : sid[x] = sid[y] => x = y
    BY <2>2
  <2> HIDE DEF D
  <2> QED
    BY <2>3, <2>4, <2>5, TooManyPigeons
<1>3. S \subseteq Nat
  BY <1>1
<1>4. \E k \in S : \A j \in S : k <= j
  <2> HIDE DEF S
  <2> QED
    BY <1>2, <1>3, LeastNumber
<1>5. m \in S
  <2> HIDE DEF S
  <2> QED
    BY <1>4
<1> QED
  BY <1>3, <1>5

\* The search for a free level and for a free branch ends with one.
LEMMA FreeLevelIsFree ==
  ASSUME NEW id \in SidTuples, NEW taken, IsFiniteSet(taken)
  PROVE  /\ FreeLevel(id, taken) \notin taken
         /\ \E k \in Nat : FreeLevel(id, taken) = <<id[1], id[2] + k, 0, 0>>
<1> DEFINE c == Cardinality(taken)
           sid == [k \in 0..c |-> <<id[1], id[2] + k, 0, 0>>]
           S == {k \in 0..c : sid[k] \notin taken}
           m == CHOOSE k \in S : \A j \in S : k <= j
<1>0. id[1] \in Nat /\ id[2] \in Nat /\ c \in Nat
  BY FS_CardinalityType DEF SidTuples
<1>1. \A k \in 0..c : sid[k] = <<id[1], id[2] + k, 0, 0>>
  OBVIOUS
<1>2. \A j, k \in 0..c : sid[j] = sid[k] => j = k
  BY <1>0
<1>3. sid \in [0..c -> SidTuples]
  BY <1>0 DEF SidTuples
<1>4. S = {k \in 0..c : <<id[1], id[2] + k, 0, 0>> \notin taken}
  OBVIOUS
<1> HIDE DEF sid
<1>5. m \in Nat /\ m \in 0..c /\ sid[m] \notin taken
  BY <1>2, <1>3, FreeNumber
<1>6. FreeLevel(id, taken) = <<id[1], id[2] + m, 0, 0>>
  BY <1>4 DEF FreeLevel
<1> HIDE DEF m
<1> QED
  BY <1>1, <1>5, <1>6

LEMMA FreeBranchIsFree ==
  ASSUME NEW id \in SidTuples, NEW taken, IsFiniteSet(taken)
  PROVE  /\ FreeBranch(id, taken) \notin taken
         /\ \E k \in Nat : FreeBranch(id, taken) = <<id[1], id[2], id[3] + k, id[4]>>
<1> DEFINE c == Cardinality(taken)
           sid == [k \in 0..c |-> <<id[1], id[2], id[3] + k, id[4]>>]
           S == {k \in 0..c : sid[k] \notin taken}
           m == CHOOSE k \in S : \A j \in S : k <= j
<1>0. id[1] \in Nat /\ id[2] \in Nat /\ id[3] \in Nat /\ id[4] \in Nat /\ c \in Nat
  BY FS_CardinalityType DEF SidTuples
<1>1. \A k \in 0..c : sid[k] = <<id[1], id[2], id[3] + k, id[4]>>
  OBVIOUS
<1>2. \A j, k \in 0..c : sid[j] = sid[k] => j = k
  BY <1>0
<1>3. sid \in [0..c -> SidTuples]
  BY <1>0 DEF SidTuples
<1>4. S = {k \in 0..c : <<id[1], id[2], id[3] + k, id[4]>> \notin taken}
  OBVIOUS
<1> HIDE DEF sid
<1>5. m \in Nat /\ m \in 0..c /\ sid[m] \notin taken
  BY <1>2, <1>3, FreeNumber
<1>6. FreeBranch(id, taken) = <<id[1], id[2], id[3] + m, id[4]>>
  BY <1>4 DEF FreeBranch
<1> HIDE DEF m
<1> QED
  BY <1>1, <1>5, <1>6

LEMMA ReservedFinite ==
  ASSUME NEW locks, IsFiniteSet(locks)
  PROVE  IsFiniteSet(Reserved(locks))
<1> DEFINE f == [l \in locks |-> l.delta]
<1>1. f \in Surjection(locks, Reserved(locks))
  BY DEF Surjection, Reserved
<1> HIDE DEF f
<1> QED
  BY <1>1, FS_Surjection

LEMMA IncrementType ==
  ASSUME NEW id \in DeltaSids
  PROVE  /\ Increment(id) \in DeltaSids /\ Increment(id) # id
         /\ id[3] = 0 => Increment(id) = <<id[1], id[2] + 1, 0, 0>>
         /\ id[3] # 0 => Increment(id) = <<id[1], id[2], id[3], id[4] + 1>>
<1>1. id \in SidTuples /\ id = <<id[1], id[2], id[3], id[4]>>
  BY DEF DeltaSids, WellFormed, SidTuples
<1>2. CASE id[3] = 0
  <2>1. id[2] > 0 /\ id[4] = 0
    BY <1>2, DeltaSidFacts
  <2>2. Increment(id) = [id EXCEPT ![2] = @ + 1]
    BY <1>2, <2>1, <1>1 DEF Increment, SidTuples
  <2>3. Increment(id) = <<id[1], id[2] + 1, 0, 0>>
    BY <1>1, <1>2, <2>1, <2>2 DEF SidTuples
  <2> QED
    BY <1>1, <1>2, <2>1, <2>3, DeltaSidFacts DEF SidTuples
<1>3. CASE id[3] # 0
  <2>1. Increment(id) = [id EXCEPT ![4] = @ + 1]
    BY <1>3, <1>1 DEF Increment, SidTuples
  <2>2. Increment(id) = <<id[1], id[2], id[3], id[4] + 1>>
    BY <1>1, <2>1 DEF SidTuples
  <2> QED
    BY <1>1, <1>3, <2>2, DeltaSidFacts DEF SidTuples
<1> QED
  BY <1>2, <1>3

\* A new branch at a delta, or at the next delta of its branch.
LEMMA NewBranch ==
  ASSUME NEW from \in DeltaSids, NEW taken, IsFiniteSet(taken)
  PROVE  /\ FreeBranch(NextBranch(from), taken) \in DeltaSids \ taken
         /\ \E k \in Nat :
              FreeBranch(NextBranch(from), taken) = <<from[1], from[2], from[3] + 1 + k, 1>>
<1> DEFINE id == NextBranch(from)
<1>1. from \in SidTuples /\ from[1] > 0 /\ from[2] > 0
  BY DeltaSidFacts
<1>2. /\ id \in SidTuples
      /\ id[1] = from[1] /\ id[2] = from[2] /\ id[3] = from[3] + 1 /\ id[4] = 1
  BY <1>1 DEF NextBranch, SidTuples
<1> HIDE DEF id
<1>3. /\ FreeBranch(id, taken) \notin taken
      /\ \E k \in Nat : FreeBranch(id, taken) = <<id[1], id[2], id[3] + k, id[4]>>
  BY <1>2, FreeBranchIsFree
<1>4. PICK k \in Nat : FreeBranch(id, taken) = <<from[1], from[2], from[3] + 1 + k, 1>>
  BY <1>2, <1>3
<1>5. <<from[1], from[2], from[3] + 1 + k, 1>> \in DeltaSids
  BY <1>1, DeltaSidFacts DEF SidTuples
<1> QED
  BY <1>3, <1>4, <1>5 DEF id

\* The first idea is the SID of a delta, and for a release a free one.
LEMMA FirstIdeaType ==
  ASSUME NEW t \in Tables, NEW locks, IsFiniteSet(locks),
         NEW requested \in WellFormed, ~IsNull(requested), NEW got \in DeltaSids
  PROVE  LET idea == FirstIdea(t, locks, requested, got)
         IN  /\ idea \in DeltaSids
             /\ ReleaseOnly(requested) =>
                  /\ idea \notin CurrentSids(t) \cup Reserved(locks)
                  /\ \E k \in Nat : idea = <<requested[1], 1 + k, 0, 0>>
             /\ ~ReleaseOnly(requested) /\ PartialSid(requested) => idea = Increment(got)
             /\ ~PartialSid(requested) => requested \in DeltaSids /\ idea = Increment(requested)
<1> DEFINE idea == FirstIdea(t, locks, requested, got)
           taken == CurrentSids(t) \cup Reserved(locks)
<1>0. requested \in SidTuples /\ requested[1] \in Nat /\ requested[1] > 0
  BY DEF WellFormed, SidTuples, IsNull
<1>1. CASE ReleaseOnly(requested)
  <2>1. idea = FreeLevel(NextLevel(requested), taken)
    BY <1>1 DEF FirstIdea
  <2>2. NextLevel(requested) = <<requested[1], 1, 0, 0>>
    BY <1>0, <1>1 DEF NextLevel, ReleaseOnly, SidTuples
  <2>3. IsFiniteSet(taken)
    BY CurrentSidsFinite, ReservedFinite, FS_Union
  <2>4. NextLevel(requested) \in SidTuples
    BY <1>0, <2>2 DEF SidTuples
  <2>5. idea \notin taken /\ \E k \in Nat : idea = <<requested[1], 1 + k, 0, 0>>
    <3> HIDE DEF taken, idea
    <3> QED
      BY <2>1, <2>2, <2>3, <2>4, FreeLevelIsFree
  <2>6. idea \in DeltaSids
    <3>1. PICK k \in Nat : idea = <<requested[1], 1 + k, 0, 0>>
      BY <2>5
    <3> QED
      BY <1>0, <3>1, DeltaSidFacts DEF SidTuples
  <2>7. PartialSid(requested)
    BY <1>1 DEF ReleaseOnly, PartialSid
  <2> QED
    BY <1>1, <2>5, <2>6, <2>7
<1>2. CASE ~ReleaseOnly(requested) /\ PartialSid(requested)
  <2>1. idea = Increment(got)
    BY <1>2 DEF FirstIdea
  <2> QED
    BY <1>2, <2>1, IncrementType
<1>3. CASE ~ReleaseOnly(requested) /\ ~PartialSid(requested)
  <2>1. idea = Increment(requested)
    BY <1>3 DEF FirstIdea
  <2>2. requested \in DeltaSids
    BY <1>0, <1>3, DeltaSidFacts DEF ReleaseOnly, PartialSid, WellFormed, SidTuples
  <2> QED
    BY <1>3, <2>1, <2>2, IncrementType
<1> QED
  BY <1>1, <1>2, <1>3

\* find_next_sid answers with the SID of a delta: the first idea, or a free branch of
\* the gotten delta or of the first idea.
LEMMA NextSidCases ==
  ASSUME NEW t \in Tables, NEW locks, IsFiniteSet(locks),
         NEW rid \in WellFormed, ~IsNull(rid), NEW got \in DeltaSids,
         NEW wantBranch \in BOOLEAN, NEW flags, flags.default \in WellFormed
  PROVE  LET requested == IF IsNull(flags.default) THEN rid ELSE flags.default
             branch == wantBranch /\ flags.branch
             idea == FirstIdea(t, locks, requested, got)
             from == IF branch /\ Components(requested) >= 4 THEN idea ELSE got
             taken == CurrentSids(t) \cup (IF flags.joint THEN Reserved(locks) ELSE {})
             answer == FindNextSid(t, locks, rid, got, wantBranch, flags)
         IN  /\ answer.next \in DeltaSids
             /\ answer.ok =>
                  \/ answer.next = FreeBranch(NextBranch(from), taken) /\ from \in DeltaSids
                  \/ /\ answer.next = idea
                     /\ ~branch
                     /\ ~Collides(t, locks, requested, idea, flags)
                     /\ ~(Components(requested) < 3 /\ Release(got) < Release(HighestRelease(t)))
             /\ IsFiniteSet(taken)
             /\ ~answer.ok => ~branch /\ ShouldNotHappen(t, locks, idea, flags)
<1> DEFINE requested == IF IsNull(flags.default) THEN rid ELSE flags.default
           branch == wantBranch /\ flags.branch
           idea == FirstIdea(t, locks, requested, got)
           from == IF branch /\ Components(requested) >= 4 THEN idea ELSE got
           taken == CurrentSids(t) \cup (IF flags.joint THEN Reserved(locks) ELSE {})
           tooHigh == /\ OnTrunk(requested) /\ flags.ceiling # 0
                      /\ Release(requested) > flags.ceiling
           notTop == Components(requested) < 3 /\ Release(got) < Release(HighestRelease(t))
           forced == ~branch /\ (tooHigh \/ notTop
                                  \/ Collides(t, locks, requested, idea, flags))
           answer == FindNextSid(t, locks, rid, got, wantBranch, flags)
<1>1. answer = IF ~branch /\ ShouldNotHappen(t, locks, idea, flags)
               THEN [ok |-> FALSE, next |-> idea]
               ELSE [ok |-> TRUE,
                     next |-> IF branch \/ forced THEN FreeBranch(NextBranch(from), taken)
                              ELSE idea]
  BY DEF FindNextSid
<1>2. requested \in WellFormed /\ ~IsNull(requested)
  OBVIOUS
<1>3. forced <=> ~branch /\ (tooHigh \/ notTop \/ Collides(t, locks, requested, idea, flags))
  OBVIOUS
<1>4. IsFiniteSet(taken)
  BY CurrentSidsFinite, ReservedFinite, FS_Union
<1> HIDE DEF requested, branch, taken, tooHigh, forced, answer
<1>5. idea \in DeltaSids
  BY <1>2, FirstIdeaType
<1> HIDE DEF idea
<1>6. from \in DeltaSids
  BY <1>5
<1> HIDE DEF from
<1>7. FreeBranch(NextBranch(from), taken) \in DeltaSids
  BY <1>4, <1>6, NewBranch
<1>8. answer.next \in DeltaSids
  BY <1>1, <1>5, <1>7
<1>9. ~answer.ok => ~branch /\ ShouldNotHappen(t, locks, idea, flags)
  BY <1>1
<1>10. answer.ok => answer.next = IF branch \/ forced THEN FreeBranch(NextBranch(from), taken)
                                  ELSE idea
  BY <1>1
<1>11. answer.ok => \/ answer.next = FreeBranch(NextBranch(from), taken) /\ from \in DeltaSids
                    \/ /\ answer.next = idea /\ ~branch /\ ~notTop
                       /\ ~Collides(t, locks, requested, idea, flags)
  BY <1>3, <1>6, <1>10
<1> QED
  BY <1>4, <1>8, <1>9, <1>11 DEF requested, branch, idea, from, taken, answer

\* With the joint edit flag the search for the SID looks at the p-file too, and its
\* closing assertion holds.
LEMMA JointAnswerIsFree ==
  ASSUME NEW t \in Tables, NEW locks, IsFiniteSet(locks),
         NEW rid \in WellFormed, ~IsNull(rid), NEW got \in DeltaSids,
         NEW wantBranch \in BOOLEAN, NEW flags, flags.default \in WellFormed, flags.joint,
         FindNextSid(t, locks, rid, got, wantBranch, flags).ok
  PROVE  ~InUse(t, locks, FindNextSid(t, locks, rid, got, wantBranch, flags).next)
<1> DEFINE requested == IF IsNull(flags.default) THEN rid ELSE flags.default
           branch == wantBranch /\ flags.branch
           idea == FirstIdea(t, locks, requested, got)
           from == IF branch /\ Components(requested) >= 4 THEN idea ELSE got
           taken == CurrentSids(t) \cup (IF flags.joint THEN Reserved(locks) ELSE {})
           next == FindNextSid(t, locks, rid, got, wantBranch, flags).next
<1>1. /\ IsFiniteSet(taken)
      /\ \/ next = FreeBranch(NextBranch(from), taken) /\ from \in DeltaSids
         \/ next = idea /\ ~Collides(t, locks, requested, idea, flags)
  BY NextSidCases
<1>2. taken = CurrentSids(t) \cup Reserved(locks)
  OBVIOUS
<1>3. InUse(t, locks, idea) => Collides(t, locks, requested, idea, flags)
  BY DEF Collides
<1> HIDE DEF requested, branch, idea, from, taken, next
<1>4. CASE next = FreeBranch(NextBranch(from), taken) /\ from \in DeltaSids
  <2>1. next \notin taken
    BY <1>1, <1>4, NewBranch
  <2> QED
    BY <1>2, <2>1, FindDeltaZero DEF InUse, next
<1>5. CASE next = idea /\ ~Collides(t, locks, requested, idea, flags)
  BY <1>3, <1>5 DEF next
<1> QED
  BY <1>1, <1>4, <1>5

-----------------------------------------------------------------------------
(* The best delta.                                                         *)

\* sid::gte is a total preorder.
LEMMA GteOrder ==
  ASSUME NEW a \in SidTuples, NEW b \in SidTuples
  PROVE  /\ Gte(a, a)
         /\ Gte(a, b) \/ Gte(b, a)
         /\ \A c \in SidTuples : Gte(a, b) /\ Gte(b, c) => Gte(a, c)
BY DEF SidTuples, Gte

LEMMA LoopFindsBest ==
  ASSUME NEW t \in Tables, NEW want
  PROVE  LET best == RequestedLoop(t, want, FALSE)[1].best
         IN  /\ best # NullSid => SidMatches(want, best, FALSE)
             /\ \A id \in CurrentSids(t) :
                  SidMatches(want, id, FALSE) => best # NullSid /\ Gte(best, id)
<1> DEFINE n == Len(t)
           F == RequestedLoop(t, want, FALSE)
           Wanted(j) == t[j].type = "D" /\ SidMatches(want, t[j].sid, FALSE)
           Best(i) ==
             /\ ~F[i].stop
             /\ F[i].best # NullSid => SidMatches(want, F[i].best, FALSE)
             /\ \A j \in i..n : Wanted(j) => F[i].best # NullSid /\ Gte(F[i].best, t[j].sid)
           S == {i \in 1..(n + 1) : Best(i)}
<1>1. n \in Nat /\ DOMAIN t = 1..n /\ \A i \in 1..n : t[i].sid \in DeltaSids
  BY TableFacts DEF DeltaRecords
<1>2. /\ \A i \in 1..(n + 1) : F[i].best \in CurrentSids(t) \cup {NullSid}
      /\ F[n + 1] = [best |-> NullSid, stop |-> FALSE]
      /\ \A i \in 1..n : F[i] = RequestedStep(t, want, FALSE, i, F[i + 1])
  BY LoopFindsCurrent
<1>3. DeltaSids \subseteq SidTuples /\ NullSid \notin DeltaSids /\ NullSid \in SidTuples
  BY DeltaSidFacts DEF NullSid, SidTuples
<1>4. \A i \in 1..(n + 1) : F[i].best \in SidTuples
  BY <1>2, <1>3, TableFacts
<1> HIDE DEF F, n
<1>5. n + 1 \in S
  <2>1. \A j \in (n + 1)..n : FALSE
    BY <1>1
  <2>2. F[n + 1].best = NullSid /\ ~F[n + 1].stop /\ n + 1 \in 1..(n + 1)
    BY <1>1, <1>2
  <2>3. Best(n + 1)
    BY <2>1, <2>2
  <2> QED
    BY <2>2, <2>3
<1>6. ASSUME NEW i \in 1..n, i + 1 \in S PROVE i \in S
  <2>1. /\ i \in 1..(n + 1) /\ i + 1 \in 1..(n + 1)
        /\ \A j \in i..n : j = i \/ j \in (i + 1)..n
        /\ \A j \in i..n : j \in 1..n
    BY <1>1
  <2>2. F[i] = RequestedStep(t, want, FALSE, i, F[i + 1]) /\ t[i].sid \in DeltaSids
    BY <1>1, <1>2
  <2>3. Best(i + 1)
    BY <1>6
  <2>4. F[i].best \in SidTuples /\ F[i + 1].best \in SidTuples /\ t[i].sid \in SidTuples
        /\ t[i].sid # NullSid
    BY <1>3, <1>4, <2>1, <2>2
  <2>5. CASE Wanted(i) /\ (F[i + 1].best = NullSid \/ Gte(t[i].sid, F[i + 1].best))
    <3>0. F[i] = [best |-> t[i].sid, stop |-> FALSE]
      BY <2>2, <2>3, <2>5 DEF RequestedStep
    <3>1. F[i].best = t[i].sid /\ ~F[i].stop
      BY <3>0
    <3>2. ASSUME NEW j \in i..n, Wanted(j) PROVE Gte(t[i].sid, t[j].sid)
      <4>1. CASE j = i
        BY <2>4, <4>1, GteOrder
      <4>2. CASE j \in (i + 1)..n
        <5>1. F[i + 1].best # NullSid /\ Gte(F[i + 1].best, t[j].sid)
          BY <2>3, <3>2, <4>2
        <5>2. t[j].sid \in SidTuples
          BY <1>1, <1>3, <2>1
        <5> QED
          BY <2>4, <2>5, <5>1, <5>2, GteOrder
      <4> QED
        BY <2>1, <4>1, <4>2
    <3>3. Best(i)
      BY <2>4, <2>5, <3>1, <3>2
    <3> QED
      BY <2>1, <3>3
  <2>6. CASE ~(Wanted(i) /\ (F[i + 1].best = NullSid \/ Gte(t[i].sid, F[i + 1].best)))
    <3>1. F[i] = F[i + 1]
      BY <2>2, <2>6 DEF RequestedStep
    <3>2. ASSUME NEW j \in i..n, Wanted(j)
          PROVE  F[i + 1].best # NullSid /\ Gte(F[i + 1].best, t[j].sid)
      <4>1. CASE j = i
        BY <2>4, <2>6, <3>2, <4>1, GteOrder
      <4>2. CASE j \in (i + 1)..n
        BY <2>3, <3>2, <4>2
      <4> QED
        BY <2>1, <4>1, <4>2
    <3>3. Best(i)
      BY <2>3, <3>1, <3>2
    <3> QED
      BY <2>1, <3>3
  <2> QED
    BY <2>5, <2>6
<1>7. Best(1)
  <2>1. 1 \in 1..(n + 1)
    BY <1>1
  <2>2. 1 \in S
    <3> HIDE DEF S
    <3> QED
      BY <1>1, <1>5, <1>6, <2>1, DownwardInduction
  <2> QED
    BY <2>2
<1>8. ASSUME NEW id \in CurrentSids(t), SidMatches(want, id, FALSE)
      PROVE  F[1].best # NullSid /\ Gte(F[1].best, id)
  <2>1. PICK j \in 1..n : t[j].type = "D" /\ t[j].sid = id
    BY <1>1 DEF CurrentSids, CurrentDeltas
  <2> QED
    BY <1>7, <1>8, <2>1
<1> QED
  BY <1>7, <1>8 DEF F

\* What find_requested_sid answers matches what is sought, and is the highest current
\* SID that does.
LEMMA RequestedIsBest ==
  ASSUME NEW t \in Tables, NEW requested, NEW defaultSid,
         ~IsNull(FindRequestedSid(t, requested, FALSE, defaultSid))
  PROVE  LET want == Sought(t, requested, defaultSid)
             best == FindRequestedSid(t, requested, FALSE, defaultSid)
         IN  /\ SidMatches(want, best, FALSE)
             /\ \A id \in CurrentSids(t) : SidMatches(want, id, FALSE) => Gte(best, id)
<1> DEFINE want == Sought(t, requested, defaultSid)
           best == FindRequestedSid(t, requested, FALSE, defaultSid)
<1>1. best = IF IsNull(want) /\ ~FALSE THEN NullSid ELSE RequestedLoop(t, want, FALSE)[1].best
  BY RequestedIsLoop
<1>2. IsNull(NullSid)
  BY DEF IsNull, NullSid
<1>3. best # NullSid /\ best = RequestedLoop(t, want, FALSE)[1].best
  BY <1>1, <1>2
<1> HIDE DEF want, best
<1>4. /\ best # NullSid => SidMatches(want, best, FALSE)
      /\ \A id \in CurrentSids(t) :
           SidMatches(want, id, FALSE) => best # NullSid /\ Gte(best, id)
  BY <1>3, LoopFindsBest
<1> QED
  BY <1>3, <1>4 DEF want, best

\* update_highest: high_release_ is the highest current SID of the trunk.
LEMMA HighestIsHighest ==
  ASSUME NEW t \in Tables, NEW id \in CurrentSids(t), OnTrunk(id)
  PROVE  /\ HighestRelease(t) \in CurrentSids(t) /\ OnTrunk(HighestRelease(t))
         /\ Gte(HighestRelease(t), id)
<1> DEFINE n == Len(t)
           T(j) == t[j].type = "D" /\ OnTrunk(t[j].sid)
           HasMax(i) == \/ \A j \in i..n : ~T(j)
                        \/ \E k \in i..n : T(k) /\ \A j \in i..n : T(j) => Gte(t[k].sid, t[j].sid)
           M == {i \in 1..(n + 1) : HasMax(i)}
           S == {a \in CurrentSids(t) : OnTrunk(a)}
<1>1. n \in Nat /\ DOMAIN t = 1..n /\ \A i \in 1..n : t[i].sid \in DeltaSids
  BY TableFacts DEF DeltaRecords
<1>2. \A i \in 1..n : t[i].sid \in SidTuples
  BY <1>1, DeltaSidFacts
<1> HIDE DEF n
<1>3. n + 1 \in M
  <2>1. n + 1 \in 1..(n + 1) /\ \A j \in (n + 1)..n : FALSE
    BY <1>1
  <2> QED
    BY <2>1
<1>4. ASSUME NEW i \in 1..n, i + 1 \in M PROVE i \in M
  <2>1. /\ i \in 1..(n + 1) /\ i \in i..n /\ (i + 1)..n \subseteq i..n
        /\ \A j \in i..n : j \in 1..n /\ (j = i \/ j \in (i + 1)..n)
    BY <1>1
  <2>2. HasMax(i + 1)
    BY <1>4
  <2>3. CASE ~T(i)
    BY <2>1, <2>2, <2>3
  <2>4. CASE T(i) /\ \A j \in (i + 1)..n : ~T(j)
    <3>1. Gte(t[i].sid, t[i].sid)
      BY <1>2, GteOrder
    <3> QED
      BY <2>1, <2>4, <3>1
  <2>5. ASSUME T(i), NEW k \in (i + 1)..n, T(k),
               \A j \in (i + 1)..n : T(j) => Gte(t[k].sid, t[j].sid)
        PROVE  i \in M
    <3>1. k \in i..n /\ t[k].sid \in SidTuples /\ t[i].sid \in SidTuples
      BY <1>2, <2>1
    <3>2. CASE Gte(t[k].sid, t[i].sid)
      BY <2>1, <2>5, <3>1, <3>2
    <3>3. CASE Gte(t[i].sid, t[k].sid)
      <4>1. ASSUME NEW j \in i..n, T(j) PROVE Gte(t[i].sid, t[j].sid)
        <5>1. CASE j = i
          BY <3>1, <5>1, GteOrder
        <5>2. CASE j \in (i + 1)..n
          <6>1. Gte(t[k].sid, t[j].sid) /\ t[j].sid \in SidTuples
            BY <1>2, <2>1, <2>5, <4>1, <5>2
          <6> QED
            BY <3>1, <3>3, <6>1, GteOrder
        <5> QED
          BY <2>1, <5>1, <5>2
      <4> QED
        BY <2>1, <2>5, <4>1
    <3> QED
      BY <3>1, <3>2, <3>3, GteOrder
  <2> QED
    BY <2>2, <2>3, <2>4, <2>5
<1>5. HasMax(1)
  <2>1. 1 \in 1..(n + 1)
    BY <1>1
  <2>2. 1 \in M
    <3> HIDE DEF M
    <3> QED
      BY <1>1, <1>3, <1>4, <2>1, DownwardInduction
  <2> QED
    BY <2>2
<1>6. \A a \in S : \E j \in 1..n : T(j) /\ t[j].sid = a
  BY <1>1 DEF CurrentSids, CurrentDeltas
<1>7. \A j \in 1..n : T(j) => t[j].sid \in S
  BY <1>1 DEF CurrentSids, CurrentDeltas
<1>8. id \in S
  OBVIOUS
<1>9. \E a \in S : \A b \in S : Gte(a, b)
  <2>1. PICK k \in 1..n : T(k) /\ \A j \in 1..n : T(j) => Gte(t[k].sid, t[j].sid)
    BY <1>5, <1>6, <1>8
  <2>2. t[k].sid \in S
    BY <1>7, <2>1
  <2>3. \A b \in S : Gte(t[k].sid, b)
    BY <1>6, <2>1
  <2> QED
    BY <2>2, <2>3
<1>10. HighestRelease(t) = CHOOSE a \in S : \A b \in S : Gte(a, b)
  BY <1>8 DEF HighestRelease
<1>11. HighestRelease(t) \in S /\ \A b \in S : Gte(HighestRelease(t), b)
  <2> HIDE DEF S
  <2> QED
    BY <1>9, <1>10
<1> QED
  BY <1>8, <1>11

\* The gotten delta is the last one of the trunk, and the new one opens a release.
OpensRelease(t, got, id) ==
  /\ OnTrunk(got) /\ OnTrunk(id) /\ Release(id) > Release(got)
  /\ \A a \in CurrentSids(t) : OnTrunk(a) => Gte(got, a)

\* What find_requested_sid retrieves, as far as the next SID depends on it.
LEMMA RetrievedIs ==
  ASSUME NEW t \in Tables, NEW rid \in WellFormed, ~IsNull(rid), NEW defaultSid,
         ~IsNull(FindRequestedSid(t, rid, FALSE, defaultSid))
  PROVE  LET got == FindRequestedSid(t, rid, FALSE, defaultSid)
         IN  /\ got \in CurrentSids(t) /\ got \in DeltaSids
             /\ ~PartialSid(rid) => got = rid
             /\ ReleaseOnly(rid) =>
                  /\ OnTrunk(got) /\ Release(got) <= Release(rid)
                  /\ \A a \in CurrentSids(t) :
                       OnTrunk(a) /\ Release(a) <= Release(rid) => Gte(got, a)
<1> DEFINE got == FindRequestedSid(t, rid, FALSE, defaultSid)
<1>1. Sought(t, rid, defaultSid) = rid
  BY DEF Sought
<1>2. /\ SidMatches(rid, got, FALSE)
      /\ \A id \in CurrentSids(t) : SidMatches(rid, id, FALSE) => Gte(got, id)
  BY <1>1, RequestedIsBest
<1>3. got \in CurrentSids(t) /\ got \in DeltaSids
  <2>1. got \in CurrentSids(t) \cup {NullSid}
    BY RequestedIsCurrent
  <2>2. IsNull(NullSid)
    BY DEF IsNull, NullSid
  <2> QED
    BY <2>1, <2>2, TableFacts
<1>4. rid \in SidTuples /\ got \in SidTuples /\ rid[1] > 0
  <2>1. got \in SidTuples
    BY <1>3, DeltaSidFacts
  <2>2. rid \in SidTuples /\ rid[1] \in Nat
    BY WellFormedFacts
  <2> HIDE DEF got
  <2>3. rid[1] > 0
    BY <2>2 DEF IsNull
  <2> QED
    BY <2>1, <2>2, <2>3
<1> HIDE DEF got
<1>5. ASSUME ~PartialSid(rid) PROVE got = rid
  <2>1. Components(rid) \in {2, 4}
    BY <1>4, <1>5 DEF Components, PartialSid, IsNull, SidTuples
  <2>2. Matches(got, rid, 4)
    BY <1>2, <2>1 DEF SidMatches, WantedComponents
  <2>3. got[1] = rid[1] /\ got[2] = rid[2] /\ got[3] = rid[3] /\ got[4] = rid[4]
    BY <2>2 DEF Matches
  <2> QED
    BY <1>4, <2>3 DEF SidTuples
<1>6. ASSUME ReleaseOnly(rid)
      PROVE  /\ OnTrunk(got) /\ Release(got) <= Release(rid)
             /\ \A a \in CurrentSids(t) :
                  OnTrunk(a) /\ Release(a) <= Release(rid) => Gte(got, a)
  <2>1. Components(rid) = 1
    BY <1>4, <1>6 DEF Components, ReleaseOnly, IsNull, SidTuples
  <2> QED
    BY <1>2, <2>1 DEF SidMatches
<1> QED
  BY <1>3, <1>5, <1>6 DEF got

-----------------------------------------------------------------------------
(* The SID that get -e reserves, where the default SID is none or names a  *)
(* branch: the successor of the gotten delta, the first delta of a branch  *)
(* in its release, or the first one of a new release.                      *)

\* What find_next_sid is asked for.
Asked(rid, got, flags) ==
  IF IsNull(flags.default) THEN EditRequest(rid, got) ELSE flags.default

\* The request that get -e makes of its -r option.
GetRequest(t, rid, got, flags) ==
  /\ rid \in WellFormed /\ flags.default \in WellFormed
  /\ got = FindRequestedSid(t, rid, FALSE, flags.default) /\ ~IsNull(got)

LEMMA AskedFacts ==
  ASSUME NEW t \in Tables, NEW rid, NEW got, NEW flags, GetRequest(t, rid, got, flags)
  PROVE  /\ got \in CurrentSids(t) /\ got \in DeltaSids
         /\ Asked(rid, got, flags) \in WellFormed /\ ~IsNull(Asked(rid, got, flags))
         /\ EditRequest(rid, got) \in WellFormed /\ ~IsNull(EditRequest(rid, got))
<1>1. got \in CurrentSids(t) \cup {NullSid}
  BY RequestedIsCurrent DEF GetRequest
<1>2. IsNull(NullSid) /\ DeltaSids \subseteq WellFormed
  BY DEF IsNull, NullSid, DeltaSids
<1>3. got \in CurrentSids(t) /\ got \in DeltaSids /\ got \in WellFormed /\ ~IsNull(got)
  BY <1>1, <1>2, TableFacts DEF GetRequest
<1>4. EditRequest(rid, got) \in WellFormed /\ ~IsNull(EditRequest(rid, got))
  BY <1>3 DEF EditRequest, GetRequest
<1> QED
  BY <1>3, <1>4 DEF Asked, GetRequest

LEMMA Ideas ==
  ASSUME NEW t \in Tables, NEW locks, IsFiniteSet(locks),
         NEW rid, NEW got, NEW flags, GetRequest(t, rid, got, flags),
         Components(flags.default) \in {0, 3}
  PROVE  LET asked == Asked(rid, got, flags)
             idea == FirstIdea(t, locks, asked, got)
         IN  \/ idea = Increment(got)
             \/ /\ ReleaseOnly(asked) /\ idea \notin CurrentSids(t) \cup Reserved(locks)
                /\ \E k \in Nat : idea = <<asked[1], 1 + k, 0, 0>>
                /\ OnTrunk(got) /\ Release(got) < Release(asked)
                /\ \A a \in CurrentSids(t) :
                     OnTrunk(a) /\ Release(a) <= Release(asked) => Gte(got, a)
<1> DEFINE asked == Asked(rid, got, flags)
           idea == FirstIdea(t, locks, asked, got)
<1>1. /\ got \in CurrentSids(t) /\ got \in DeltaSids
      /\ asked \in WellFormed /\ ~IsNull(asked)
  BY AskedFacts
<1>2. /\ ReleaseOnly(asked) =>
           /\ idea \notin CurrentSids(t) \cup Reserved(locks)
           /\ \E k \in Nat : idea = <<asked[1], 1 + k, 0, 0>>
      /\ ~ReleaseOnly(asked) /\ PartialSid(asked) => idea = Increment(got)
      /\ ~PartialSid(asked) => asked \in DeltaSids /\ idea = Increment(asked)
  <2> HIDE DEF asked
  <2> QED
    BY <1>1, FirstIdeaType
<1>3. got[1] > 0 /\ got[2] > 0 /\ got \in SidTuples
  BY <1>1, DeltaSidFacts
<1>4. CASE ~IsNull(flags.default)
  <2>1. Components(flags.default) = 3 /\ flags.default \in SidTuples
    BY <1>4 DEF Components, GetRequest, WellFormed
  <2>2. asked = flags.default /\ ~ReleaseOnly(asked) /\ PartialSid(asked)
    BY <1>4, <2>1 DEF Asked, Components, ReleaseOnly, PartialSid, IsNull, SidTuples
  <2> QED
    BY <1>2, <2>2
<1>5. CASE IsNull(flags.default) /\ asked = got
  <2>1. ~PartialSid(got)
    BY <1>1, DeltaSidFacts DEF PartialSid, SidTuples
  <2> QED
    BY <1>2, <1>5, <2>1
<1>6. CASE IsNull(flags.default) /\ asked # got
  <2>1. /\ asked = rid /\ ~IsNull(rid)
        /\ ~(ReleaseOnly(rid) /\ Release(rid) = Release(got))
    BY <1>6 DEF Asked, EditRequest
  <2>2. /\ ~PartialSid(rid) => got = rid
        /\ ReleaseOnly(rid) =>
             /\ OnTrunk(got) /\ Release(got) <= Release(rid)
             /\ \A a \in CurrentSids(t) :
                  OnTrunk(a) /\ Release(a) <= Release(rid) => Gte(got, a)
    BY <2>1, RetrievedIs DEF GetRequest
  <2>3. CASE ReleaseOnly(rid)
    <3>1. Release(got) < Release(rid)
      <4>1. rid[1] \in Nat /\ got[1] \in Nat
        BY <1>3, WellFormedFacts DEF GetRequest, SidTuples
      <4> QED
        BY <2>1, <2>2, <2>3, <4>1 DEF Release
    <3> QED
      BY <1>2, <2>1, <2>2, <2>3, <3>1
  <2>4. CASE ~ReleaseOnly(rid)
    BY <1>2, <1>6, <2>1, <2>2, <2>4
  <2> QED
    BY <2>3, <2>4
<1> QED
  BY <1>4, <1>5, <1>6

\* The ways in which a lock goes from the gotten delta to the new one.
TameSid(t, got, id) ==
  \/ id = Increment(got)
  \/ Release(id) = Release(got) /\ id[4] = 1
  \/ OpensRelease(t, got, id)

LEMMA TameAnswer ==
  ASSUME NEW t \in Tables, NEW locks, IsFiniteSet(locks),
         NEW rid, NEW got, NEW flags, GetRequest(t, rid, got, flags),
         Components(flags.default) \in {0, 3}, NEW wantBranch \in BOOLEAN,
         FindNextSid(t, locks, EditRequest(rid, got), got, wantBranch, flags).ok
  PROVE  TameSid(t, got, FindNextSid(t, locks, EditRequest(rid, got), got, wantBranch, flags).next)
<1> DEFINE asked == Asked(rid, got, flags)
           branch == wantBranch /\ flags.branch
           idea == FirstIdea(t, locks, asked, got)
           from == IF branch /\ Components(asked) >= 4 THEN idea ELSE got
           taken == CurrentSids(t) \cup (IF flags.joint THEN Reserved(locks) ELSE {})
           next == FindNextSid(t, locks, EditRequest(rid, got), got, wantBranch, flags).next
<1>1. /\ got \in CurrentSids(t) /\ got \in DeltaSids
      /\ asked \in WellFormed /\ ~IsNull(asked)
      /\ EditRequest(rid, got) \in WellFormed /\ ~IsNull(EditRequest(rid, got))
      /\ flags.default \in WellFormed
  BY AskedFacts DEF GetRequest
<1>2. /\ IsFiniteSet(taken)
      /\ \/ next = FreeBranch(NextBranch(from), taken) /\ from \in DeltaSids
         \/ /\ next = idea
            /\ ~(Components(asked) < 3 /\ Release(got) < Release(HighestRelease(t)))
  BY <1>1, NextSidCases DEF Asked
<1>3. \/ idea = Increment(got)
      \/ /\ ReleaseOnly(asked)
         /\ \E k \in Nat : idea = <<asked[1], 1 + k, 0, 0>>
         /\ OnTrunk(got) /\ Release(got) < Release(asked)
         /\ \A a \in CurrentSids(t) :
              OnTrunk(a) /\ Release(a) <= Release(asked) => Gte(got, a)
  BY Ideas
<1>4. ReleaseOnly(asked) => Components(asked) = 1
  <2> HIDE DEF asked
  <2> QED
    BY <1>1, WellFormedFacts DEF ReleaseOnly, Components
<1>5. asked[1] \in Nat /\ got \in SidTuples /\ got[1] \in Nat /\ Release(got) = got[1]
      /\ Release(asked) = asked[1]
  <2> HIDE DEF asked
  <2> QED
    BY <1>1, WellFormedFacts, DeltaSidFacts DEF SidTuples, Release
<1> HIDE DEF asked, branch, idea, taken, next
<1>6. from = got \/ from = Increment(got)
  BY <1>3, <1>4
<1>7. CASE next = FreeBranch(NextBranch(from), taken) /\ from \in DeltaSids
  <2> HIDE DEF from
  <2>1. PICK k \in Nat : next = <<from[1], from[2], from[3] + 1 + k, 1>>
    BY <1>2, <1>7, NewBranch
  <2>2. from[1] = got[1]
    BY <1>1, <1>6, IncrementType
  <2>3. Release(next) = Release(got) /\ next[4] = 1
    BY <2>1, <2>2 DEF Release
  <2> QED
    BY <2>3 DEF TameSid, next
<1>8. CASE /\ next = idea
           /\ ~(Components(asked) < 3 /\ Release(got) < Release(HighestRelease(t)))
  <2>1. CASE idea = Increment(got)
    BY <1>8, <2>1 DEF TameSid, next
  <2>2. CASE idea # Increment(got)
    <3>1. PICK k \in Nat : idea = <<asked[1], 1 + k, 0, 0>>
      BY <1>3, <2>2
    <3>2. OnTrunk(idea) /\ Release(idea) = asked[1]
      <4>1. asked[1] > 0
        BY <1>1, <1>5 DEF IsNull
      <4> QED
        BY <3>1, <4>1, <1>5 DEF OnTrunk, Components, IsNull, Release
    <3>3. ~(Release(got) < Release(HighestRelease(t)))
      BY <1>3, <1>4, <1>8, <2>2
    <3>4. ASSUME NEW a \in CurrentSids(t), OnTrunk(a) PROVE Gte(got, a)
      <4> DEFINE h == HighestRelease(t)
      <4>1. h \in CurrentSids(t) /\ Gte(h, a)
        BY <3>4, HighestIsHighest
      <4>2. h \in SidTuples /\ a \in SidTuples
        BY <4>1, TableFacts, DeltaSidFacts
      <4> HIDE DEF h
      <4>3. h[1] >= a[1] /\ h[1] \in Nat /\ a[1] \in Nat
        BY <4>1, <4>2 DEF Gte, SidTuples
      <4>4. ~(got[1] < h[1])
        BY <1>5, <3>3 DEF h, Release
      <4>5. Release(a) <= Release(asked)
        BY <1>3, <1>5, <2>2, <4>3, <4>4 DEF Release
      <4> QED
        BY <1>3, <2>2, <3>4, <4>5
    <3>5. OpensRelease(t, got, idea)
      BY <1>3, <1>5, <2>2, <3>2, <3>4 DEF OpensRelease
    <3> QED
      BY <1>8, <3>5 DEF TameSid, next
  <2> QED
    BY <2>1, <2>2
<1> QED
  BY <1>2, <1>7, <1>8

-----------------------------------------------------------------------------
(* SIDs of the trunk, and the table that rmdel writes.                     *)

LEMMA TrunkEqual ==
  ASSUME NEW a \in DeltaSids, NEW b \in DeltaSids, OnTrunk(a), OnTrunk(b), Gte(a, b), Gte(b, a)
  PROVE  a = b
<1>1. a \in SidTuples /\ b \in SidTuples /\ a[3] = 0 /\ a[4] = 0 /\ b[3] = 0 /\ b[4] = 0
  BY DeltaSidFacts DEF OnTrunk, Components, IsNull, SidTuples
<1> QED
  BY <1>1 DEF Gte, SidTuples

\* A SID of the trunk has no branch.
LEMMA TrunkSid ==
  ASSUME NEW a \in DeltaSids
  PROVE  /\ OnTrunk(a) <=> a[3] = 0
         /\ a[3] = 0 <=> a[4] = 0
         /\ a \in SidTuples /\ Release(a) = a[1] /\ Release(a) \in Nat
BY DeltaSidFacts DEF OnTrunk, Components, IsNull, SidTuples, Release

\* The table that rmdel writes.
Removed(table, id) == [table EXCEPT ![FindDelta(table, id)].type = "R"]

LEMMA RemovedDelta ==
  ASSUME NEW t \in Tables, NEW id \in CurrentSids(t)
  PROVE  LET seq == FindDelta(t, id)
             u == Removed(t, id)
         IN  /\ u \in Tables /\ u # <<>>
             /\ seq \in CurrentDeltas(t) /\ t[seq].sid = id
             /\ CurrentDeltas(u) = CurrentDeltas(t) \ {seq}
             /\ \A i \in CurrentDeltas(u) : u[i].sid = t[i].sid
             /\ CurrentSids(t) \ {id} \subseteq CurrentSids(u)
             /\ Len(u) = Len(t) /\ u[seq].type = "R"
             /\ \A i \in 1..Len(t) : u[i].sid = t[i].sid /\ u[i].prev = t[i].prev
             /\ \A i \in 1..Len(t) : i # seq => u[i].type = t[i].type
<1> DEFINE seq == FindDelta(t, id)
           u == [t EXCEPT ![seq].type = "R"]
<1>0. u = Removed(t, id)
  BY DEF Removed
<1>1. seq \in CurrentDeltas(t) /\ t[seq].sid = id
  BY FindDeltaFinds
<1>2. t \in Seq(DeltaRecords) /\ Len(t) \in Nat /\ DOMAIN t = 1..Len(t) /\ seq \in 1..Len(t)
  BY <1>1, TableFacts DEF Tables
<1> HIDE DEF seq
<1>3. t[seq] \in DeltaRecords /\ [t[seq] EXCEPT !.type = "R"] \in DeltaRecords
  <2>1. t[seq] \in DeltaRecords
    BY <1>2, TableFacts
  <2> QED
    BY <2>1 DEF DeltaRecords
<1>4. /\ DOMAIN u = 1..Len(t)
      /\ \A i \in 1..Len(t) : i # seq => u[i] = t[i]
      /\ u[seq] = [t[seq] EXCEPT !.type = "R"]
  BY <1>2
<1>5. u \in Seq(DeltaRecords) /\ Len(u) = Len(t)
  <2>1. \A i \in 1..Len(t) : u[i] \in DeltaRecords
    BY <1>2, <1>3, <1>4
  <2>2. u \in [1..Len(t) -> DeltaRecords]
    BY <1>2, <2>1
  <2> HIDE DEF u
  <2> QED
    BY <1>2, <1>4, <2>2
<1> HIDE DEF u
<1>6. \A i \in 1..Len(t) : u[i].sid = t[i].sid /\ u[i].prev = t[i].prev
  BY <1>3, <1>4 DEF DeltaRecords
<1>7. u \in Tables
  BY <1>5, <1>6 DEF Tables
<1>12. u[seq].type = "R"
  BY <1>3, <1>4 DEF DeltaRecords
<1>8. CurrentDeltas(u) = CurrentDeltas(t) \ {seq}
  BY <1>2, <1>4, <1>12 DEF CurrentDeltas
<1>9. \A i \in CurrentDeltas(u) : u[i].sid = t[i].sid
  BY <1>2, <1>6, <1>8 DEF CurrentDeltas
<1>10. CurrentSids(t) \ {id} \subseteq CurrentSids(u)
  BY <1>1, <1>8, <1>9 DEF CurrentSids
<1>11. u # <<>>
  BY <1>2, <1>5
<1> QED
  BY <1>0, <1>1, <1>4, <1>5, <1>6, <1>7, <1>8, <1>9, <1>10, <1>11, <1>12 DEF seq

-----------------------------------------------------------------------------
(* Sequences.                                                              *)

LEMMA Appending ==
  ASSUME NEW S, NEW s \in Seq(S), NEW x \in S
  PROVE  /\ Append(s, x) \in Seq(S) /\ Len(Append(s, x)) = Len(s) + 1
         /\ \A i \in 1..Len(s) : Append(s, x)[i] = s[i]
         /\ Append(s, x)[Len(s) + 1] = x
OBVIOUS

LEMMA Joining ==
  ASSUME NEW S, NEW s \in Seq(S), NEW t \in Seq(S)
  PROVE  /\ s \o t \in Seq(S) /\ Len(s \o t) = Len(s) + Len(t)
         /\ \A i \in 1..Len(s) : (s \o t)[i] = s[i]
         /\ \A i \in 1..Len(t) : (s \o t)[Len(s) + i] = t[i]
OBVIOUS

LEMMA Equal ==
  ASSUME NEW S, NEW T, NEW s \in Seq(S), NEW t \in Seq(T), Len(s) = Len(t),
         \A i \in 1..Len(s) : s[i] = t[i]
  PROVE  s = t
OBVIOUS

-----------------------------------------------------------------------------
(* The text of a file, as a sequence of lines.                             *)

LineTexts == Seq(Nat \X Nat)

-----------------------------------------------------------------------------
(* What diff prints.                                                       *)

\* An edit script over m lines.
ScriptFor(script, m) ==
  /\ script.del \in SUBSET (1..m)
  /\ script.ins \in [1..(m + 1) -> LineTexts]
  /\ \A j \in 1..(m + 1) : j \in script.del => script.ins[j] = <<>>

\* What one old line contributes to the new file, with what comes before it.
PatchedStep(old, script, j, new) ==
  new \o script.ins[j]
    \o (IF j <= Len(old) /\ j \notin script.del THEN <<old[j]>> ELSE <<>>)

\* The new file, line by line of the old one.
LEMMA PatchedIs ==
  ASSUME NEW old \in LineTexts, NEW script, ScriptFor(script, Len(old))
  PROVE  /\ Patched(old, script) \in [0..(Len(old) + 1) -> LineTexts]
         /\ Patched(old, script)[0] = <<>>
         /\ \A i \in 1..(Len(old) + 1) : Patched(old, script)[i] = PatchedStep(old, script, i, Patched(old, script)[i - 1])
<1> DEFINE n == (Len(old) + 1)
           T == LineTexts
           base == <<>>
           step == [i \in 1..n |-> [x \in T |-> PatchedStep(old, script, i, x)]]
           F == Patched(old, script)
           Body0(f) == [i \in 0..n |-> IF i = 0 THEN base ELSE PatchedStep(old, script, i, f[i - 1])]
<1>1. n \in Nat /\ base \in T
  BY DEF LineTexts
<1>2. ASSUME NEW i \in 1..n, NEW x \in T PROVE PatchedStep(old, script, i, x) \in T
  <2>1. Len(old) \in Nat /\ i \in 1..(Len(old) + 1)
    BY DEF LineTexts
  <2>2. script.ins[i] \in LineTexts
    BY <2>1 DEF ScriptFor
  <2>3. x \o script.ins[i] \in LineTexts
    BY <2>2 DEF LineTexts
  <2>4. i <= Len(old) => old[i] \in Nat \X Nat
    BY <2>1 DEF LineTexts
  <2>5. CASE i <= Len(old) /\ i \notin script.del
    <3>1. <<old[i]>> \in LineTexts
      BY <2>4, <2>5 DEF LineTexts
    <3>2. PatchedStep(old, script, i, x) = x \o script.ins[i] \o <<old[i]>>
      BY Zenon, <2>5 DEF PatchedStep
    <3> QED
      BY <2>3, <3>1, <3>2 DEF LineTexts
  <2>6. CASE ~(i <= Len(old) /\ i \notin script.del)
    <3>1. PatchedStep(old, script, i, x) = x \o script.ins[i] \o <<>>
      BY Zenon, <2>6 DEF PatchedStep
    <3> QED
      BY <2>3, <3>1 DEF LineTexts
  <2> QED
    BY <2>5, <2>6

<1>3. step \in [1..n -> [T -> T]]
  BY <1>2
<1>4. \A i \in 1..n : \A x \in T : step[i][x] = PatchedStep(old, script, i, x)
  OBVIOUS
<1>5. F = CHOOSE f : f = Body0(f)
  BY Zenon DEF Patched, PatchedStep
<1> HIDE DEF step, F, base, n, T
<1>6. PICK f : Upward(f, n, T, base, step)
  BY <1>1, <1>3, UpwardRecursion
<1>7. f \in [0..n -> T] /\ f[0] = base /\ \A i \in 1..n : f[i] = step[i][f[i - 1]]
  BY <1>6 DEF Upward
<1>8. f = Body0(f)
  <2>1. ASSUME NEW i \in 0..n
        PROVE  f[i] = IF i = 0 THEN base ELSE PatchedStep(old, script, i, f[i - 1])
    <3>1. CASE i = 0
      BY <1>7, <3>1
    <3>2. CASE i # 0
      <4>1. i \in 1..n /\ i - 1 \in 0..n
        BY <1>1, <3>2
      <4>2. f[i - 1] \in T
        BY <1>7, <4>1
      <4>3. f[i] = step[i][f[i - 1]]
        BY <1>7, <4>1
      <4>4. step[i][f[i - 1]] = PatchedStep(old, script, i, f[i - 1])
        BY <1>4, <4>1, <4>2
      <4> QED
        BY <4>3, <4>4, <3>2
    <3> QED
      BY <3>1, <3>2
  <2>2. f = [i \in 0..n |-> f[i]]
    BY <1>7
  <2> QED
    BY <2>1, <2>2
<1>9. F = Body0(F)
  BY Zenon, <1>5, <1>8
<1>10. \A i \in 0..n : F[i] = IF i = 0 THEN base ELSE PatchedStep(old, script, i, F[i - 1])
  BY Zenon, <1>9
<1>11. DOMAIN F = 0..n /\ F = [i \in 0..n |-> F[i]]
  BY Zenon, <1>9
<1>12. 0 \in 0..n /\ \A i \in 1..n : i \in 0..n /\ i # 0
  BY <1>1
<1>13. F[0] = base /\ \A i \in 1..n : F[i] = PatchedStep(old, script, i, F[i - 1])
  BY Zenon, <1>10, <1>12
<1>14. F \in [0..n -> T]
  <2> DEFINE S == {i \in 0..n : F[i] \in T}
  <2>1. 0 \in S
    BY <1>1, <1>12, <1>13
  <2>2. ASSUME NEW i \in 1..n, i - 1 \in S PROVE i \in S
    BY <2>2, <1>2, <1>12, <1>13
  <2> HIDE DEF S
  <2>3. \A i \in 0..n : i \in S
    BY <1>1, <2>1, <2>2, UpwardInduction
  <2>4. \A i \in 0..n : F[i] \in T
    BY <2>3 DEF S
  <2> QED
    BY <1>11, <2>4
<1> QED
  BY <1>13, <1>14 DEF F, n, T, base

\* A deleted line, and an old line that is kept.
LEMMA PatchedLine ==
  ASSUME NEW old \in LineTexts, NEW script, ScriptFor(script, Len(old)), NEW j \in 1..Len(old)
  PROVE  /\ j \in script.del => Patched(old, script)[j] = Patched(old, script)[j - 1]
         /\ j \notin script.del =>
              Patched(old, script)[j] = Append(Patched(old, script)[j - 1] \o script.ins[j], old[j])
<1> DEFINE P == Patched(old, script)
<1>1. /\ Len(old) \in Nat /\ j \in 1..(Len(old) + 1) /\ j - 1 \in 0..(Len(old) + 1)
      /\ old[j] \in Nat \X Nat
  BY DEF LineTexts
<1>2. P[j] = PatchedStep(old, script, j, P[j - 1]) /\ P[j - 1] \in LineTexts
  BY <1>1, PatchedIs
<1>3. script.ins[j] \in LineTexts
  BY <1>1 DEF ScriptFor
<1> HIDE DEF P
<1>4. CASE j \in script.del
  <2>1. script.ins[j] = <<>>
    BY <1>1, <1>4 DEF ScriptFor
  <2>2. P[j] = P[j - 1] \o <<>> \o <<>>
    BY <1>2, <1>4, <2>1 DEF PatchedStep
  <2>3. P[j] = P[j - 1]
    BY <1>2, <2>2 DEF LineTexts
  <2> QED
    BY <1>4, <2>3 DEF P
<1>5. CASE j \notin script.del
  <2>1. P[j] = P[j - 1] \o script.ins[j] \o <<old[j]>>
    <3>1. j <= Len(old) /\ j \notin script.del
      BY <1>1, <1>5
    <3> QED
      BY Zenon, <1>2, <3>1 DEF PatchedStep
  <2>2. P[j - 1] \o script.ins[j] \in LineTexts
    BY <1>2, <1>3 DEF LineTexts
  <2>3. P[j] = Append(P[j - 1] \o script.ins[j], old[j])
    BY Zenon, <1>1, <2>1, <2>2, AppendIsConcat DEF LineTexts
  <2> QED
    BY <1>5, <2>3 DEF P
<1> QED
  BY <1>4, <1>5

\* The end of the new file.
LEMMA PatchedEnd ==
  ASSUME NEW old \in LineTexts, NEW script, ScriptFor(script, Len(old))
  PROVE  Patch(old, script) = Patched(old, script)[Len(old)] \o script.ins[Len(old) + 1]
<1> DEFINE P == Patched(old, script)
           j == Len(old) + 1
<1>1. Len(old) \in Nat /\ j \in 1..(Len(old) + 1) /\ j - 1 = Len(old) /\ Len(old) \in 0..(Len(old) + 1)
  BY DEF LineTexts
<1>2. P[j] = PatchedStep(old, script, j, P[j - 1])
  BY <1>1, PatchedIs
<1>3. P[Len(old)] \in LineTexts
  BY <1>1, PatchedIs
<1>4. script.ins[j] \in LineTexts
  BY <1>1 DEF ScriptFor
<1>5. ~(j <= Len(old))
  BY <1>1
<1> HIDE DEF P
<1>6. P[j] = P[Len(old)] \o script.ins[j] \o <<>>
  BY <1>1, <1>2, <1>5 DEF PatchedStep
<1> HIDE DEF j
<1>7. P[j] = P[Len(old)] \o script.ins[j]
  BY <1>3, <1>4, <1>6 DEF LineTexts
<1>8. Patch(old, script) = P[j]
  BY DEF Patch, P, j
<1> QED
  BY <1>7, <1>8 DEF P, j

-----------------------------------------------------------------------------
(* Hunks.                                                                  *)

LEMMA RunStartIs ==
  ASSUME NEW m \in Nat, NEW script, ScriptFor(script, m), NEW j \in 1..(m + 1)
  PROVE  /\ RunStart(script, j) \in 1..j
         /\ \A k \in RunStart(script, j)..(j - 1) : k \in script.del
         /\ RunStart(script, j) = 1 \/ RunStart(script, j) - 1 \notin script.del
<1> DEFINE S == {i \in 1..j : \A k \in i..(j - 1) : k \in script.del}
           f == RunStart(script, j)
<1>1. j \in S
  OBVIOUS
<1>2. S \subseteq Nat /\ S # {}
  BY <1>1
<1>3. \E x \in S : \A y \in S : x <= y
  BY <1>2, LeastNumber
<1>4. f = CHOOSE x \in S : \A y \in S : x <= y
  BY DEF RunStart, Min
<1>5. f \in S /\ \A y \in S : f <= y
  BY Zenon, <1>3, <1>4
<1>6. f \in 1..j /\ \A k \in f..(j - 1) : k \in script.del
  BY <1>5
<1>7. ASSUME f # 1, f - 1 \in script.del PROVE FALSE
  <2> HIDE DEF f
  <2>1. f - 1 \in 1..j
    BY <1>6, <1>7
  <2>2. \A k \in (f - 1)..(j - 1) : k = f - 1 \/ k \in f..(j - 1)
    BY <1>6
  <2>3. f - 1 \in S
    BY <1>6, <1>7, <2>1, <2>2
  <2>4. f <= f - 1
    BY <1>5, <2>3
  <2> QED
    BY <1>6, <2>4
<1> QED
  BY <1>6, <1>7

\* A run of deletions adds nothing to the new file.
LEMMA RunAddsNothing ==
  ASSUME NEW old \in LineTexts, NEW script, ScriptFor(script, Len(old)), NEW j \in 1..(Len(old) + 1)
  PROVE  \A i \in (RunStart(script, j) - 1)..(j - 1) :
           Patched(old, script)[i] = Patched(old, script)[RunStart(script, j) - 1]
<1> DEFINE f == RunStart(script, j)
           P == Patched(old, script)
           n == j - f
<1>1. Len(old) \in Nat
  BY DEF LineTexts
<1>2. f \in 1..j /\ \A k \in f..(j - 1) : k \in script.del
  BY <1>1, RunStartIs
<1>3. \A k \in 1..Len(old) : k \in script.del => P[k] = P[k - 1]
  BY PatchedLine
<1> HIDE DEF f, P
<1>4. n \in Nat
  BY <1>2
<1> DEFINE Good == {i \in 0..n : P[f - 1 + i] = P[f - 1]}
<1>5. 0 \in Good
  BY <1>2, <1>4
<1>6. ASSUME NEW i \in 1..n, i - 1 \in Good PROVE i \in Good
  <2>1. f - 1 + i \in f..(j - 1) /\ f - 1 + i \in 1..Len(old) /\ f - 1 + i - 1 = f - 1 + (i - 1)
    BY <1>1, <1>2, <1>4
  <2>2. P[f - 1 + i] = P[f - 1 + (i - 1)]
    BY <1>2, <1>3, <2>1
  <2>3. P[f - 1 + (i - 1)] = P[f - 1]
    BY <1>6
  <2> QED
    BY <2>2, <2>3
<1> HIDE DEF Good
<1>7. \A i \in 0..n : i \in Good
  BY <1>4, <1>5, <1>6, UpwardInduction
<1>8. ASSUME NEW i \in (f - 1)..(j - 1) PROVE P[i] = P[f - 1]
  <2>1. i - (f - 1) \in 0..n /\ f - 1 + (i - (f - 1)) = i
    BY <1>2, <1>4
  <2>2. P[f - 1 + (i - (f - 1))] = P[f - 1]
    BY <1>7, <2>1 DEF Good
  <2> QED
    BY <2>1, <2>2
<1> QED
  BY <1>8 DEF f, P

DiffLines ==
  [k : {"hunk"}, op : {"a", "c", "d"}, line1 : Int, line2 : Int, line3 : Int, line4 : Int]
  \cup [k : {"<", "---", "\\"}] \cup [k : {">"}, text : Nat \X Nat]

FourParts(x, a, b, c, d) ==
  /\ Len(x) = Len(a) + Len(b) + Len(c) + Len(d)
  /\ \A i \in 1..Len(a) : x[i] = a[i]
  /\ \A i \in 1..Len(b) : x[Len(a) + i] = b[i]
  /\ \A i \in 1..Len(c) : x[Len(a) + Len(b) + i] = c[i]
  /\ \A i \in 1..Len(d) : x[Len(a) + Len(b) + Len(c) + i] = d[i]

LEMMA JoinFour ==
  ASSUME NEW S, NEW a \in Seq(S), NEW b \in Seq(S), NEW c \in Seq(S), NEW d \in Seq(S)
  PROVE  a \o b \o c \o d \in Seq(S) /\ FourParts(a \o b \o c \o d, a, b, c, d)
<1> DEFINE x == a \o b
           y == x \o c
           z == y \o d
<1>1. /\ x \in Seq(S) /\ Len(x) = Len(a) + Len(b)
      /\ \A i \in 1..Len(a) : x[i] = a[i]
      /\ \A i \in 1..Len(b) : x[Len(a) + i] = b[i]
  BY Joining
<1> HIDE DEF x
<1>2. /\ y \in Seq(S) /\ Len(y) = Len(x) + Len(c)
      /\ \A i \in 1..Len(x) : y[i] = x[i]
      /\ \A i \in 1..Len(c) : y[Len(x) + i] = c[i]
  <2>1. x \in Seq(S)
    BY <1>1
  <2> QED
    BY <2>1, Joining
<1> HIDE DEF y
<1>3. /\ z \in Seq(S) /\ Len(z) = Len(y) + Len(d)
      /\ \A i \in 1..Len(y) : z[i] = y[i]
      /\ \A i \in 1..Len(d) : z[Len(y) + i] = d[i]
  <2>1. y \in Seq(S)
    BY <1>2
  <2> QED
    BY <2>1, Joining
<1> HIDE DEF z
<1>4. Len(a) \in Nat /\ Len(b) \in Nat /\ Len(c) \in Nat /\ Len(d) \in Nat
  OBVIOUS
<1> DEFINE la == Len(a)
           lb == Len(b)
           lc == Len(c)
<1>a. /\ la \in Nat /\ lb \in Nat /\ lc \in Nat
      /\ Len(x) = la + lb /\ Len(y) = la + lb + lc
  BY <1>1, <1>2, <1>4
<1>b. \A i \in 1..(la + lb) : z[i] = x[i]
  BY <1>2, <1>3, <1>a
<1>5. \A i \in 1..Len(a) : z[i] = a[i]
  BY <1>1, <1>b, <1>a
<1>6. \A i \in 1..Len(b) : z[Len(a) + i] = b[i]
  <2> TAKE i \in 1..Len(b)
  <2>1. la + i \in 1..(la + lb)
    BY <1>a
  <2> QED
    BY <1>1, <1>b, <2>1
<1>7. \A i \in 1..Len(c) : z[Len(a) + Len(b) + i] = c[i]
  <2> TAKE i \in 1..Len(c)
  <2>1. la + lb + i \in 1..Len(y) /\ la + lb + i = Len(x) + i
    BY <1>a
  <2>2. z[la + lb + i] = y[la + lb + i] /\ y[Len(x) + i] = c[i]
    BY <1>2, <1>3, <2>1
  <2> QED
    BY <2>1, <2>2
<1>8. \A i \in 1..Len(d) : z[Len(a) + Len(b) + Len(c) + i] = d[i]
  BY <1>1, <1>2, <1>3, <1>4
<1>9. z \in Seq(S) /\ Len(z) = Len(a) + Len(b) + Len(c) + Len(d)
  BY <1>1, <1>2, <1>3, <1>4
<1> QED
  BY <1>5, <1>6, <1>7, <1>8, <1>9 DEF x, y, z, FourParts

\* The parts of a hunk: its header, the separator, and where they are when it starts
\* after line b of the output.
Op(f, j, t) == IF f = j THEN "a" ELSE IF t = 0 THEN "d" ELSE "c"
Heads(h, f, j, right, t) ==
  /\ h.k = "hunk" /\ h.op = Op(f, j, t)
  /\ h.line1 = (IF f = j THEN j - 1 ELSE f)
  /\ h.line2 = j - 1
  /\ h.line3 = (IF f # j /\ t = 0 THEN right ELSE right + 1)
  /\ h.line4 = (IF f # j /\ t = 0 THEN right ELSE right + t)
Sep(f, j, t) == IF f # j /\ t # 0 THEN 1 ELSE 0
HunkLength(f, j, t) == 1 + (j - f) + Sep(f, j, t) + t

LaidHunk(diff, b, f, j, right, text) ==
  /\ Heads(diff[b + 1], f, j, right, Len(text))
  /\ \A i \in 1..(j - f) : diff[b + 1 + i].k = "<"
  /\ Sep(f, j, Len(text)) = 1 => diff[b + 2 + (j - f)].k = "---"
  /\ \A i \in 1..Len(text) :
       /\ diff[b + 1 + (j - f) + Sep(f, j, Len(text)) + i].k = ">"
       /\ diff[b + 1 + (j - f) + Sep(f, j, Len(text)) + i].text = text[i]

LEMMA HunkIs ==
  ASSUME NEW m \in Nat, NEW script, ScriptFor(script, m), NEW j \in 1..(m + 1), NEW right \in Nat,
         NEW f, f = RunStart(script, j), NEW H, H = Hunk(script, j, right)
  PROVE  /\ H \in Seq(DiffLines) /\ Len(H) = HunkLength(f, j, Len(script.ins[j]))
         /\ LaidHunk(H, 0, f, j, right, script.ins[j])
<1>1. f \in 1..j /\ f \in Nat /\ j \in Nat
  BY RunStartIs
<1> DEFINE text == script.ins[j]
           dels == j - f
<1>2. text \in LineTexts /\ Len(text) \in Nat /\ (text = <<>> <=> Len(text) = 0)
  BY DEF ScriptFor, LineTexts
<1> DEFINE op == IF dels = 0 THEN "a" ELSE IF text = <<>> THEN "d" ELSE "c"
           h == [k |-> "hunk", op |-> op,
                 line1 |-> IF op = "a" THEN j - 1 ELSE f,
                 line2 |-> j - 1,
                 line3 |-> IF op = "d" THEN right ELSE right + 1,
                 line4 |-> IF op = "d" THEN right ELSE right + Len(text)]
           a == <<h>>
           b == [i \in 1..dels |-> [k |-> "<"]]
           c == IF op = "c" THEN <<[k |-> "---"]>> ELSE <<>>
           d == [i \in 1..Len(text) |-> [k |-> ">", text |-> text[i]]]
<1>3. H = a \o b \o c \o d
  BY DEF Hunk
<1>4. op = Op(f, j, Len(text)) /\ op \in {"a", "c", "d"}
  <2> HIDE DEF text
  <2>1. dels = 0 <=> f = j
    BY <1>1
  <2> QED
    BY <1>2, <2>1 DEF Op
<1>5. (op = "a" <=> f = j) /\ (op = "d" <=> f # j /\ Len(text) = 0) /\ (op = "c" <=> f # j /\ Len(text) # 0)
  <2> HIDE DEF text, op
  <2> QED
    BY <1>4 DEF Op
<1> HIDE DEF op, text
<1>6. h \in DiffLines
  <2>1. /\ (IF op = "a" THEN j - 1 ELSE f) \in Int /\ j - 1 \in Int
        /\ (IF op = "d" THEN right ELSE right + 1) \in Int
        /\ (IF op = "d" THEN right ELSE right + Len(text)) \in Int
    BY <1>1, <1>2
  <2> QED
    BY <1>4, <2>1 DEF DiffLines
<1>7. Heads(h, f, j, right, Len(text))
  BY <1>4, <1>5 DEF Heads
<1>8. dels \in Nat
  BY <1>1
<1> HIDE DEF dels
<1>9. [k |-> "<"] \in DiffLines /\ [k |-> "---"] \in DiffLines
  BY DEF DiffLines
<1>10. \A i \in 1..Len(text) : [k |-> ">", text |-> text[i]] \in DiffLines
  BY <1>2 DEF DiffLines, LineTexts
<1>11. a \in Seq(DiffLines) /\ Len(a) = 1 /\ a[1] = h
  <2> HIDE DEF h
  <2> QED
    BY <1>6
<1>12. b \in Seq(DiffLines) /\ Len(b) = dels /\ \A i \in 1..dels : b[i] = [k |-> "<"]
  BY <1>8, <1>9
<1>13. c \in Seq(DiffLines) /\ Len(c) = Sep(f, j, Len(text)) /\ (Len(c) = 1 => c[1] = [k |-> "---"])
  <2>1. CASE op = "c"
    <3>1. c = <<[k |-> "---"]>>
      BY <2>1
    <3>2. Len(c) = 1 /\ c[1] = [k |-> "---"]
      BY <3>1
    <3>3. c \in Seq(DiffLines)
      BY <3>1, <1>9
    <3>4. Sep(f, j, Len(text)) = 1
      BY <2>1, <1>5 DEF Sep
    <3> QED
      BY <3>2, <3>3, <3>4
  <2>2. CASE op # "c"
    <3>1. c = <<>> /\ Sep(f, j, Len(text)) = 0
      BY <2>2, <1>5 DEF Sep
    <3> QED
      BY <3>1
  <2> QED
    BY <2>1, <2>2
<1>14. d \in Seq(DiffLines) /\ Len(d) = Len(text)
       /\ \A i \in 1..Len(text) : d[i] = [k |-> ">", text |-> text[i]]
  BY <1>2, <1>10
<1> HIDE DEF a, b, c, d, h
<1>15. /\ H \in Seq(DiffLines)
       /\ Len(H) = Len(a) + Len(b) + Len(c) + Len(d)
       /\ \A i \in 1..Len(a) : H[i] = a[i]
       /\ \A i \in 1..Len(b) : H[Len(a) + i] = b[i]
       /\ \A i \in 1..Len(c) : H[Len(a) + Len(b) + i] = c[i]
       /\ \A i \in 1..Len(d) : H[Len(a) + Len(b) + Len(c) + i] = d[i]
  <2>1. a \in Seq(DiffLines) /\ b \in Seq(DiffLines) /\ c \in Seq(DiffLines) /\ d \in Seq(DiffLines)
    BY <1>11, <1>12, <1>13, <1>14
  <2>2. H \in Seq(DiffLines) /\ FourParts(H, a, b, c, d)
    <3>1. a \o b \o c \o d \in Seq(DiffLines) /\ FourParts(a \o b \o c \o d, a, b, c, d)
      BY <2>1, JoinFour
    <3> QED
      BY Zenon, <1>3, <3>1
  <2> QED
    BY Zenon, <2>2 DEF FourParts
<1>16. Sep(f, j, Len(text)) \in Nat
  BY DEF Sep
<1>17. Len(H) = HunkLength(f, j, Len(text))
  BY <1>1, <1>2, <1>8, <1>11, <1>12, <1>13, <1>14, <1>15, <1>16 DEF HunkLength, dels
<1>18. H[0 + 1] = h
  BY <1>11, <1>15
<1>19. ASSUME NEW i \in 1..dels PROVE H[0 + 1 + i].k = "<"
  <2>1. H[1 + i] = b[i]
    BY <1>11, <1>12, <1>15
  <2>2. b[i].k = "<"
    BY <1>12
  <2> QED
    BY <2>1, <2>2
<1>20. Sep(f, j, Len(text)) = 1 => H[0 + 2 + dels].k = "---"
  <2> SUFFICES ASSUME Sep(f, j, Len(text)) = 1 PROVE H[0 + 2 + dels].k = "---"
    OBVIOUS
  <2>1. 1 \in 1..Len(c)
    BY <1>13
  <2>2. H[Len(a) + Len(b) + 1] = c[1]
    BY <2>1, <1>15
  <2>3. Len(a) + Len(b) + 1 = 0 + 2 + dels
    BY <1>8, <1>11, <1>12
  <2>4. c[1].k = "---"
    BY <1>13
  <2> QED
    BY <2>2, <2>3, <2>4
<1>21. ASSUME NEW i \in 1..Len(text)
       PROVE  /\ H[0 + 1 + dels + Sep(f, j, Len(text)) + i].k = ">"
              /\ H[0 + 1 + dels + Sep(f, j, Len(text)) + i].text = text[i]
  <2>1. H[Len(a) + Len(b) + Len(c) + i] = d[i]
    BY <1>14, <1>15
  <2>2. Len(a) + Len(b) + Len(c) + i = 0 + 1 + dels + Sep(f, j, Len(text)) + i
    <3>1. PICK la, lb, lc, s : la = Len(a) /\ lb = Len(b) /\ lc = Len(c) /\ s = Sep(f, j, Len(text))
      OBVIOUS
    <3>2. la = 1 /\ lb = dels /\ lc = s /\ i \in Nat /\ s \in Nat
      BY <3>1, <1>11, <1>12, <1>13, <1>2, <1>16
    <3>3. la + lb + lc + i = 0 + 1 + dels + s + i
      BY <3>2, <1>8
    <3> QED
      BY Zenon, <3>1, <3>3
  <2>3. d[i].k = ">" /\ d[i].text = text[i]
    <3>1. d[i] = [k |-> ">", text |-> text[i]]
      BY <1>14
    <3> QED
      BY <3>1
  <2> QED
    BY <2>1, <2>2, <2>3
<1>22. LaidHunk(H, 0, f, j, right, text)
  BY <1>7, <1>18, <1>19, <1>20, <1>21 DEF LaidHunk, dels
<1> QED
  BY <1>15, <1>17, <1>22 DEF text

\* A hunk somewhere in the output.
LEMMA HunkPlaced ==
  ASSUME NEW H \in Seq(DiffLines), NEW f \in Nat, NEW j \in Nat, f <= j, NEW right, NEW text \in LineTexts,
         Len(H) = HunkLength(f, j, Len(text)), LaidHunk(H, 0, f, j, right, text),
         NEW diff, NEW b \in Nat, \A i \in 1..Len(H) : diff[b + i] = H[i]
  PROVE  LaidHunk(diff, b, f, j, right, text)
<1> DEFINE s == Sep(f, j, Len(text))
           t == Len(text)
<1>1. s \in {0, 1} /\ t \in Nat
  BY DEF Sep, LineTexts
<1> HIDE DEF s, t
<1>2. Len(H) = 1 + (j - f) + s + t
  BY DEF s, t, HunkLength
<1>3. diff[b + 1] = H[0 + 1]
  BY <1>1, <1>2
<1>4. \A i \in 1..(j - f) : diff[b + 1 + i] = H[0 + 1 + i]
  <2> TAKE i \in 1..(j - f)
  <2>1. 1 + i \in 1..Len(H) /\ b + (1 + i) = b + 1 + i /\ 0 + 1 + i = 1 + i
    BY <1>1, <1>2
  <2> QED
    BY <2>1
<1>5. s = 1 => diff[b + 2 + (j - f)] = H[0 + 2 + (j - f)]
  <2> SUFFICES ASSUME s = 1 PROVE diff[b + 2 + (j - f)] = H[0 + 2 + (j - f)]
    OBVIOUS
  <2>1. 2 + (j - f) \in 1..Len(H) /\ b + (2 + (j - f)) = b + 2 + (j - f) /\ 0 + 2 + (j - f) = 2 + (j - f)
    BY <1>1, <1>2
  <2> QED
    BY <2>1
<1>6. \A i \in 1..t : diff[b + 1 + (j - f) + s + i] = H[0 + 1 + (j - f) + s + i]
  <2> TAKE i \in 1..t
  <2>1. /\ 1 + (j - f) + s + i \in 1..Len(H)
        /\ b + (1 + (j - f) + s + i) = b + 1 + (j - f) + s + i
        /\ 0 + 1 + (j - f) + s + i = 1 + (j - f) + s + i
    <3>1. i \in Nat /\ i >= 1 /\ i <= t /\ j - f \in Nat /\ s \in Nat
      BY <1>1

    <3> QED
      BY <3>1, <1>1, <1>2
  <2> QED
    BY <2>1
<1> QED
  BY ZenonT(40), <1>3, <1>4, <1>5, <1>6 DEF LaidHunk, s, t

\* A sequence that grows step by step.
Grows(F, n, S) ==
  /\ F \in [0..n -> Seq(S)]
  /\ \A i \in 1..n : \E t \in Seq(S) : F[i] = F[i - 1] \o t
LEMMA Growing ==
  ASSUME NEW n \in Nat, NEW S, NEW F, Grows(F, n, S)
  PROVE  \A j \in 0..n : \A i \in 0..j :
           Len(F[i]) <= Len(F[j]) /\ \A k \in 1..Len(F[i]) : F[j][k] = F[i][k]
<1> USE DEF Grows
<1> DEFINE Good == {j \in 0..n : \A i \in 0..j :
                      Len(F[i]) <= Len(F[j]) /\ \A k \in 1..Len(F[i]) : F[j][k] = F[i][k]}
<1>1. 0 \in Good
  OBVIOUS
<1>2. ASSUME NEW j \in 1..n, j - 1 \in Good PROVE j \in Good
  <2>1. PICK t \in Seq(S) : F[j] = F[j - 1] \o t
    OBVIOUS
  <2>2. F[j - 1] \in Seq(S) /\ F[j] \in Seq(S) /\ j \in 0..n
    OBVIOUS
  <2>3. Len(F[j - 1]) <= Len(F[j]) /\ \A k \in 1..Len(F[j - 1]) : F[j][k] = F[j - 1][k]
    <3> DEFINE a == F[j - 1]
               b == F[j]
    <3>1. a \in Seq(S) /\ b = a \o t
      BY <2>1, <2>2
    <3> HIDE DEF a, b
    <3>2. Len(a) <= Len(b) /\ \A k \in 1..Len(a) : b[k] = a[k]
      BY <3>1
    <3> QED
      BY <3>2 DEF a, b
  <2>4. ASSUME NEW i \in 0..j
        PROVE  Len(F[i]) <= Len(F[j]) /\ \A k \in 1..Len(F[i]) : F[j][k] = F[i][k]
    <3>1. CASE i = j
      BY <2>2, <3>1
    <3>2. CASE i # j
      <4>1. i \in 0..(j - 1) /\ i \in 0..n
        BY <3>2
      <4>2. F[i] \in Seq(S)
        BY <4>1
      <4>3. Len(F[i]) <= Len(F[j - 1]) /\ \A k \in 1..Len(F[i]) : F[j - 1][k] = F[i][k]
        BY <1>2, <4>1
      <4>4. Len(F[i]) \in Nat /\ Len(F[j - 1]) \in Nat /\ Len(F[j]) \in Nat
        BY <4>2, <2>2
      <4>5. Len(F[i]) <= Len(F[j])
        BY <2>3, <4>3, <4>4
      <4>6. ASSUME NEW k \in 1..Len(F[i]) PROVE F[j][k] = F[i][k]
        <5>1. k \in 1..Len(F[j - 1])
          BY <4>3, <4>4
        <5> QED
          BY <2>3, <4>3, <5>1
      <4> QED
        BY <4>5, <4>6
    <3> QED
      BY <3>1, <3>2
  <2> QED
    BY <2>2, <2>4
<1> HIDE DEF Good
<1>3. \A j \in 0..n : j \in Good
  BY <1>1, <1>2, UpwardInduction
<1> QED
  BY <1>3 DEF Good

-----------------------------------------------------------------------------
(* The whole output.                                                       *)

DiffLoop(old, script) ==
  LET m   == Len(old)
      new == Patched(old, script)
      upto[j \in 0..(m + 1)] ==
        IF j = 0 THEN <<>>
        ELSE upto[j - 1]
             \o (IF HunkAt(script, j) THEN Hunk(script, j, Len(new[j - 1])) ELSE <<>>)
  IN  upto

HunkOrNone(old, script, j) ==
  IF HunkAt(script, j) THEN Hunk(script, j, Len(Patched(old, script)[j - 1])) ELSE <<>>
DiffStep(old, script, j, out) == out \o HunkOrNone(old, script, j)

LEMMA HunkOrNoneIs ==
  ASSUME NEW old \in LineTexts, NEW script, ScriptFor(script, Len(old)), NEW j \in 1..(Len(old) + 1)
  PROVE  /\ HunkOrNone(old, script, j) \in Seq(DiffLines)
         /\ HunkAt(script, j) =>
              /\ Len(HunkOrNone(old, script, j)) =
                   HunkLength(RunStart(script, j), j, Len(script.ins[j]))
              /\ LaidHunk(HunkOrNone(old, script, j), 0, RunStart(script, j), j,
                          Len(Patched(old, script)[j - 1]), script.ins[j])
         /\ ~HunkAt(script, j) => HunkOrNone(old, script, j) = <<>>
<1>1. Len(old) \in Nat /\ j - 1 \in 0..(Len(old) + 1)
  BY DEF LineTexts
<1>2. Patched(old, script)[j - 1] \in LineTexts
  BY <1>1, PatchedIs
<1>3. PICK right : right = Len(Patched(old, script)[j - 1])
  OBVIOUS
<1>4. right \in Nat
  BY <1>2, <1>3 DEF LineTexts
<1>5. CASE HunkAt(script, j)
  <2>1. HunkOrNone(old, script, j) = Hunk(script, j, right)
    BY Zenon, <1>3, <1>5 DEF HunkOrNone
  <2>2. PICK H, f : H = Hunk(script, j, right) /\ f = RunStart(script, j)
    OBVIOUS
  <2>3. /\ H \in Seq(DiffLines) /\ Len(H) = HunkLength(f, j, Len(script.ins[j]))
        /\ LaidHunk(H, 0, f, j, right, script.ins[j])
    BY <1>1, <1>4, <2>2, HunkIs
  <2> QED
    BY Zenon, <1>3, <1>5, <2>1, <2>2, <2>3
<1>6. CASE ~HunkAt(script, j)
  <2>1. HunkOrNone(old, script, j) = <<>>
    BY Zenon, <1>6 DEF HunkOrNone
  <2> QED
    BY <1>6, <2>1
<1> QED
  BY <1>5, <1>6

\* The output, place by place.
LEMMA DiffLoopIs ==
  ASSUME NEW old \in LineTexts, NEW script, ScriptFor(script, Len(old))
  PROVE  /\ DiffLoop(old, script) \in [0..(Len(old) + 1) -> Seq(DiffLines)]
         /\ DiffLoop(old, script)[0] = <<>>
         /\ \A i \in 1..(Len(old) + 1) : DiffLoop(old, script)[i] = DiffStep(old, script, i, DiffLoop(old, script)[i - 1])
<1> DEFINE n == (Len(old) + 1)
           T == Seq(DiffLines)
           base == <<>>
           step == [i \in 1..n |-> [x \in T |-> DiffStep(old, script, i, x)]]
           F == DiffLoop(old, script)
           Body0(f) == [i \in 0..n |-> IF i = 0 THEN base ELSE DiffStep(old, script, i, f[i - 1])]
<1>1. n \in Nat /\ base \in T
  BY DEF LineTexts
<1>2. ASSUME NEW i \in 1..n, NEW x \in T PROVE DiffStep(old, script, i, x) \in T
  <2>1. HunkOrNone(old, script, i) \in Seq(DiffLines)
    BY HunkOrNoneIs
  <2> QED
    BY <2>1 DEF DiffStep

<1>3. step \in [1..n -> [T -> T]]
  BY <1>2
<1>4. \A i \in 1..n : \A x \in T : step[i][x] = DiffStep(old, script, i, x)
  OBVIOUS
<1>5. F = CHOOSE f : f = Body0(f)
  BY Zenon DEF DiffLoop, DiffStep, HunkOrNone
<1> HIDE DEF step, F, base, n, T
<1>6. PICK f : Upward(f, n, T, base, step)
  BY <1>1, <1>3, UpwardRecursion
<1>7. f \in [0..n -> T] /\ f[0] = base /\ \A i \in 1..n : f[i] = step[i][f[i - 1]]
  BY <1>6 DEF Upward
<1>8. f = Body0(f)
  <2>1. ASSUME NEW i \in 0..n
        PROVE  f[i] = IF i = 0 THEN base ELSE DiffStep(old, script, i, f[i - 1])
    <3>1. CASE i = 0
      BY <1>7, <3>1
    <3>2. CASE i # 0
      <4>1. i \in 1..n /\ i - 1 \in 0..n
        BY <1>1, <3>2
      <4>2. f[i - 1] \in T
        BY <1>7, <4>1
      <4>3. f[i] = step[i][f[i - 1]]
        BY <1>7, <4>1
      <4>4. step[i][f[i - 1]] = DiffStep(old, script, i, f[i - 1])
        BY <1>4, <4>1, <4>2
      <4> QED
        BY <4>3, <4>4, <3>2
    <3> QED
      BY <3>1, <3>2
  <2>2. f = [i \in 0..n |-> f[i]]
    BY <1>7
  <2> QED
    BY <2>1, <2>2
<1>9. F = Body0(F)
  BY Zenon, <1>5, <1>8
<1>10. \A i \in 0..n : F[i] = IF i = 0 THEN base ELSE DiffStep(old, script, i, F[i - 1])
  BY Zenon, <1>9
<1>11. DOMAIN F = 0..n /\ F = [i \in 0..n |-> F[i]]
  BY Zenon, <1>9
<1>12. 0 \in 0..n /\ \A i \in 1..n : i \in 0..n /\ i # 0
  BY <1>1
<1>13. F[0] = base /\ \A i \in 1..n : F[i] = DiffStep(old, script, i, F[i - 1])
  BY Zenon, <1>10, <1>12
<1>14. F \in [0..n -> T]
  <2> DEFINE S == {i \in 0..n : F[i] \in T}
  <2>1. 0 \in S
    BY <1>1, <1>12, <1>13
  <2>2. ASSUME NEW i \in 1..n, i - 1 \in S PROVE i \in S
    BY <2>2, <1>2, <1>12, <1>13
  <2> HIDE DEF S
  <2>3. \A i \in 0..n : i \in S
    BY <1>1, <2>1, <2>2, UpwardInduction
  <2>4. \A i \in 0..n : F[i] \in T
    BY <2>3 DEF S
  <2> QED
    BY <1>11, <2>4
<1> QED
  BY <1>13, <1>14 DEF F, n, T, base

\* Where the places of the old file are in the output.
Place(old, script) == [j \in 0..(Len(old) + 1) |-> Len(DiffLoop(old, script)[j])]

Laid(diff, old, script, at) ==
  /\ diff \in Seq(DiffLines)
  /\ at \in [0..(Len(old) + 1) -> Nat] /\ at[0] = 0
  /\ \A j \in 1..(Len(old) + 1) :
       IF HunkAt(script, j)
       THEN /\ at[j] = at[j - 1] + HunkLength(RunStart(script, j), j, Len(script.ins[j]))
            /\ LaidHunk(diff, at[j - 1], RunStart(script, j), j,
                        Len(Patched(old, script)[j - 1]), script.ins[j])
       ELSE at[j] = at[j - 1]
  /\ \A j \in 0..(Len(old) + 1) : \A i \in 0..j : at[i] <= at[j]
  /\ \/ Len(diff) = at[Len(old) + 1]
     \/ Len(diff) = at[Len(old) + 1] + 1 /\ diff[Len(diff)].k = "\\"

LEMMA DiffIsLaid ==
  ASSUME NEW old \in LineTexts, NEW script, ScriptFor(script, Len(old)), NEW noeol,
         NEW diff, diff = DiffOutput(old, script, noeol)
  PROVE  Laid(diff, old, script, Place(old, script))
<1> DEFINE n == Len(old) + 1
           pre == DiffLoop(old, script)
           at == Place(old, script)
           end == IF noeol /\ script.ins[Len(old) + 1] # <<>> THEN <<[k |-> "\\"]>> ELSE <<>>
<1>1. diff = pre[n] \o end
  BY Zenon DEF DiffOutput, DiffLoop
<1>2. n \in Nat /\ n >= 1 /\ Len(old) \in Nat
  BY DEF LineTexts
<1>3. /\ pre \in [0..n -> Seq(DiffLines)] /\ pre[0] = <<>>
      /\ \A j \in 1..n : pre[j] = DiffStep(old, script, j, pre[j - 1])
  BY DiffLoopIs
<1>4. at = [j \in 0..n |-> Len(pre[j])]
  BY DEF Place
<1>5. end \in Seq(DiffLines) /\ (end = <<>> \/ (Len(end) = 1 /\ end[1].k = "\\"))
  <2>1. [k |-> "\\"] \in DiffLines
    BY DEF DiffLines
  <2>2. PICK z : z = [k |-> "\\"]
    OBVIOUS
  <2>3. <<z>> \in Seq(DiffLines) /\ Len(<<z>>) = 1 /\ <<z>>[1] = z /\ z.k = "\\"
    BY <2>1, <2>2
  <2>4. end = <<z>> \/ end = <<>>
    BY Zenon, <2>2
  <2>6. PICK y : y = <<z>>
    OBVIOUS
  <2>7. y \in Seq(DiffLines) /\ Len(y) = 1 /\ y[1].k = "\\"
    BY Zenon, <2>3, <2>6
  <2> HIDE DEF end
  <2>5. <<>> \in Seq(DiffLines)
    OBVIOUS
  <2> QED
    BY <2>4, <2>5, <2>6, <2>7
<1>6. \A j \in 1..n : /\ HunkOrNone(old, script, j) \in Seq(DiffLines)
                     /\ pre[j] = pre[j - 1] \o HunkOrNone(old, script, j)
  BY <1>3, HunkOrNoneIs DEF DiffStep
<1> HIDE DEF pre, at, end
<1>7. /\ at \in [0..n -> Nat] /\ at[0] = 0
      /\ \A j \in 0..n : at[j] = Len(pre[j]) /\ pre[j] \in Seq(DiffLines)
  <2>1. \A j \in 0..n : at[j] = Len(pre[j]) /\ pre[j] \in Seq(DiffLines)
    BY <1>3, <1>4
  <2>2. \A j \in 0..n : Len(pre[j]) \in Nat
    BY <2>1
  <2>3. at[0] = 0
    BY <1>2, <1>3, <2>1
  <2>4. at \in [0..n -> Nat]
    BY <1>4, <2>2
  <2> QED
    BY <2>1, <2>3, <2>4
<1>8. \A j \in 0..n : \A i \in 0..j :
        Len(pre[i]) <= Len(pre[j]) /\ \A k \in 1..Len(pre[i]) : pre[j][k] = pre[i][k]
  <2>1. \A j \in 1..n : \E t \in Seq(DiffLines) : pre[j] = pre[j - 1] \o t
    BY <1>6
  <2>2. pre \in [0..n -> Seq(DiffLines)]
    BY <1>3
  <2> HIDE DEF n
  <2> QED
    <3>1. Grows(pre, n, DiffLines) /\ n \in Nat
      BY Zenon, <1>2, <2>1, <2>2 DEF Grows
    <3> QED
      BY <3>1, Growing
<1>9. /\ diff \in Seq(DiffLines) /\ Len(diff) = Len(pre[n]) + Len(end)
      /\ \A i \in 1..Len(pre[n]) : diff[i] = pre[n][i]
      /\ \A i \in 1..Len(end) : diff[Len(pre[n]) + i] = end[i]
  <2>1. pre[n] \in Seq(DiffLines)
    BY <1>2, <1>7
  <2>2. PICK a : a = pre[n]
    OBVIOUS
  <2>3. a \in Seq(DiffLines) /\ diff = a \o end
    BY <1>1, <2>1, <2>2
  <2>4. /\ diff \in Seq(DiffLines) /\ Len(diff) = Len(a) + Len(end)
        /\ \A i \in 1..Len(a) : diff[i] = a[i]
        /\ \A i \in 1..Len(end) : diff[Len(a) + i] = end[i]
    BY <1>5, <2>3, Joining
  <2> QED
    BY <2>2, <2>4
<1>10. ASSUME NEW j \in 0..n, NEW i \in 1..Len(pre[j]) PROVE diff[i] = pre[j][i]
  <2>1. j \in 0..n /\ n \in 0..n
    BY <1>2
  <2>2. Len(pre[j]) <= Len(pre[n]) /\ pre[n][i] = pre[j][i]
    BY <1>8, <2>1
  <2>3. Len(pre[j]) \in Nat /\ Len(pre[n]) \in Nat
    BY <1>7, <2>1
  <2>4. i \in 1..Len(pre[n])
    BY <2>2, <2>3
  <2> QED
    BY <1>9, <2>2, <2>4
<1>11. ASSUME NEW j \in 1..n, HunkAt(script, j)
       PROVE  /\ at[j] = at[j - 1] + HunkLength(RunStart(script, j), j, Len(script.ins[j]))
              /\ LaidHunk(diff, at[j - 1], RunStart(script, j), j,
                          Len(Patched(old, script)[j - 1]), script.ins[j])
  <2>1. PICK H, f, right, text : /\ H = HunkOrNone(old, script, j) /\ f = RunStart(script, j)
                           /\ right = Len(Patched(old, script)[j - 1]) /\ text = script.ins[j]
    OBVIOUS
  <2>2. /\ H \in Seq(DiffLines) /\ Len(H) = HunkLength(f, j, Len(text))
        /\ LaidHunk(H, 0, f, j, right, text)
    BY Zenon, <1>11, <2>1, HunkOrNoneIs
  <2>3. PICK a, b : a = pre[j - 1] /\ b = pre[j]
    OBVIOUS
  <2>4. j - 1 \in 0..n /\ j \in 0..n
    BY <1>2
  <2>5. /\ a \in Seq(DiffLines) /\ b = a \o H /\ at[j - 1] = Len(a) /\ at[j] = Len(b)
    BY <1>6, <1>7, <2>1, <2>3, <2>4
  <2>6. /\ b \in Seq(DiffLines) /\ Len(b) = Len(a) + Len(H)
        /\ \A i \in 1..Len(H) : b[Len(a) + i] = H[i]
    <3>1. a \in Seq(DiffLines) /\ H \in Seq(DiffLines)
      BY <2>2, <2>5
    <3>2. /\ a \o H \in Seq(DiffLines) /\ Len(a \o H) = Len(a) + Len(H)
          /\ \A i \in 1..Len(H) : (a \o H)[Len(a) + i] = H[i]
      BY <3>1, Joining
    <3> QED
      BY <2>5, <3>2
  <2>7. \A i \in 1..Len(b) : diff[i] = b[i]
    BY <1>10, <2>3, <2>4
  <2>8. \A i \in 1..Len(H) : diff[Len(a) + i] = H[i]
    <3> TAKE i \in 1..Len(H)
    <3>1. Len(a) + i \in 1..Len(b) /\ b[Len(a) + i] = H[i]
      BY <2>2, <2>5, <2>6
    <3> QED
      BY <2>7, <3>1
  <2>9. f \in Nat /\ j \in Nat /\ f <= j /\ text \in LineTexts /\ Len(a) \in Nat
    <3>1. f \in 1..j
      BY <1>2, <2>1, RunStartIs
    <3>2. text \in LineTexts
      BY <2>1 DEF ScriptFor
    <3> QED
      BY <3>1, <3>2, <2>5
  <2>10. LaidHunk(diff, Len(a), f, j, right, text)
    BY <2>2, <2>8, <2>9, HunkPlaced
  <2> QED
    BY <2>1, <2>2, <2>5, <2>6, <2>10
<1>12. ASSUME NEW j \in 1..n, ~HunkAt(script, j) PROVE at[j] = at[j - 1]
  <2>1. HunkOrNone(old, script, j) = <<>>
    BY <1>12 DEF HunkOrNone
  <2>2. j - 1 \in 0..n /\ j \in 0..n
    BY <1>2
  <2>3. pre[j] = pre[j - 1] \o <<>> /\ pre[j - 1] \in Seq(DiffLines)
    BY <1>6, <1>7, <2>1, <2>2
  <2>4. pre[j] = pre[j - 1]
    BY <2>3
  <2> QED
    BY <1>7, <2>2, <2>4
<1>13. \A j \in 0..n : \A i \in 0..j : at[i] <= at[j]
  BY <1>2, <1>7, <1>8
<1>14. Len(diff) = at[n] \/ (Len(diff) = at[n] + 1 /\ diff[Len(diff)].k = "\\")
  <2>1. at[n] = Len(pre[n]) /\ Len(pre[n]) \in Nat
    BY <1>2, <1>7
  <2>2. CASE end = <<>>
    BY <1>9, <2>1, <2>2
  <2>3. CASE Len(end) = 1 /\ end[1].k = "\\"
    BY <1>9, <2>1, <2>3
  <2> QED
    BY <1>5, <2>2, <2>3
<1> QED
  BY <1>7, <1>9, <1>11, <1>12, <1>13, <1>14 DEF Laid, at

\* The next hunk after old line q is at j.
NextHunk(script, q, j) == HunkAt(script, j) /\ \A a \in (q + 1)..(j - 1) : ~HunkAt(script, a)
NoHunk(script, q, n) == \A a \in (q + 1)..n : ~HunkAt(script, a)

LEMMA NextOrNone ==
  ASSUME NEW script, NEW m \in Nat, NEW q \in 0..m
  PROVE  NoHunk(script, q, m + 1) \/ \E j \in (q + 1)..(m + 1) : NextHunk(script, q, j)
<1> DEFINE S == {a \in (q + 1)..(m + 1) : HunkAt(script, a)}
<1>1. CASE S = {}
  BY <1>1 DEF NoHunk
<1>2. CASE S # {}
  <2>1. PICK j \in S : \A k \in S : j <= k
    <3>1. S \subseteq Nat
      OBVIOUS
    <3> HIDE DEF S
    <3> QED
      BY <1>2, <3>1, LeastNumber
  <2>2. j \in (q + 1)..(m + 1) /\ HunkAt(script, j)
    OBVIOUS
  <2>3. ASSUME NEW a \in (q + 1)..(j - 1) PROVE ~HunkAt(script, a)
    <3>1. a \in (q + 1)..(m + 1) /\ ~(j <= a)
      BY <2>2
    <3> QED
      BY <2>1, <3>1
  <2> QED
    BY <2>2, <2>3 DEF NextHunk
<1> QED
  BY <1>1, <1>2

\* Nothing is printed between two hunks.
LEMMA SamePlace ==
  ASSUME NEW old \in LineTexts, NEW script, NEW diff, NEW at, Laid(diff, old, script, at),
         NEW i \in 0..(Len(old) + 1), NEW k \in i..(Len(old) + 1), NoHunk(script, i, k)
  PROVE  at[k] = at[i]
<1> DEFINE n == k - i
           Good == {x \in 0..n : at[i + x] = at[i]}
<1>1. n \in Nat /\ Len(old) \in Nat
  BY DEF LineTexts
<1>2. 0 \in Good
  BY <1>1
<1>3. ASSUME NEW x \in 1..n, x - 1 \in Good PROVE x \in Good
  <2>1. i + x \in 1..(Len(old) + 1) /\ i + x \in (i + 1)..k /\ i + x - 1 = i + (x - 1)
    BY <1>1
  <2>2. ~HunkAt(script, i + x)
    BY <2>1 DEF NoHunk
  <2>3. at[i + x] = at[i + x - 1]
    BY <2>1, <2>2 DEF Laid
  <2>4. at[i + (x - 1)] = at[i]
    BY <1>3
  <2> QED
    BY <2>1, <2>3, <2>4
<1> HIDE DEF n, Good
<1>4. \A x \in 0..n : x \in Good
  BY <1>1, <1>2, <1>3, UpwardInduction
<1>5. n \in 0..n /\ i + n = k
  BY <1>1 DEF n
<1>6. n \in Good
  BY <1>4, <1>5
<1> QED
  BY <1>5, <1>6 DEF Good

\* A run of deletions ends with a hunk.
LEMMA RunGoesOn ==
  ASSUME NEW m \in Nat, NEW script, ScriptFor(script, m), NEW x \in script.del,
         NEW k \in x..(m + 1), NoHunk(script, x, k)
  PROVE  \A a \in x..k : a \in script.del
<1> DEFINE n == k - x
           Good == {y \in 0..n : x + y \in script.del}
<1>1. n \in Nat /\ x \in 1..m /\ x \in Nat /\ k \in Nat
  BY DEF ScriptFor
<1>2. 0 \in Good
  BY <1>1
<1>3. ASSUME NEW y \in 1..n, y - 1 \in Good PROVE y \in Good
  <2>1. x + y \in (x + 1)..k /\ x + y - 1 = x + (y - 1) /\ y \in 0..n
    BY <1>1
  <2>2. ~HunkAt(script, x + y)
    BY <2>1 DEF NoHunk
  <2>3. x + (y - 1) \in script.del
    BY <1>3
  <2>4. x + y \in script.del
    <3>1. PICK z : z = x + y
      OBVIOUS
    <3>0. z - 1 = x + (y - 1)
      BY <1>1, <3>1
    <3>2. z - 1 \in script.del
      BY Zenon, <2>3, <3>0
    <3>3. ~HunkAt(script, z)
      BY <2>2, <3>1
    <3>4. z \in script.del
      BY Zenon, <3>2, <3>3 DEF HunkAt
    <3> QED
      BY <3>1, <3>4
  <2> QED
    BY <2>1, <2>4
<1> HIDE DEF n, Good
<1>4. \A y \in 0..n : y \in Good
  BY <1>1, <1>2, <1>3, UpwardInduction
<1>5. ASSUME NEW a \in x..k PROVE a \in script.del
  <2>1. a - x \in 0..n /\ x + (a - x) = a
    BY <1>1 DEF n
  <2>2. a - x \in Good
    BY <1>4, <2>1
  <2> QED
    BY <2>1, <2>2 DEF Good
<1> QED
  BY <1>5

\* What a line before the next hunk is: kept, with nothing before it.
LEMMA BeforeHunk ==
  ASSUME NEW m \in Nat, NEW script, ScriptFor(script, m), NEW q \in 0..m,
         NEW j \in (q + 1)..(m + 1), NextHunk(script, q, j), q + 1 < RunStart(script, j)
  PROVE  q + 1 \notin script.del /\ ~HunkAt(script, q + 1) /\ q + 1 < j
<1> DEFINE f == RunStart(script, j)
<1>1. f \in 1..j /\ (f = 1 \/ f - 1 \notin script.del)
  BY RunStartIs
<1> HIDE DEF f
<1>2. q + 1 < f /\ q + 1 \in (q + 1)..(j - 1) /\ q + 1 < j
  BY <1>1 DEF f
<1>3. ~HunkAt(script, q + 1)
  BY <1>2 DEF NextHunk
<1>4. ASSUME q + 1 \in script.del PROVE FALSE
  <2>1. j - 1 \in (q + 1)..(m + 1) /\ f - 1 \in (q + 1)..(j - 1)
    BY <1>1, <1>2
  <2>2. NoHunk(script, q + 1, j - 1)
    BY <1>2 DEF NextHunk, NoHunk
  <2>3. \A a \in (q + 1)..(j - 1) : a \in script.del
    BY <1>4, <2>1, <2>2, RunGoesOn
  <2>4. f # 1
    BY <1>2
  <2> QED
    BY <1>1, <2>1, <2>3, <2>4
<1> QED
  BY <1>2, <1>3, <1>4 DEF f

LEMMA AfterHunks ==
  ASSUME NEW m \in Nat, NEW script, ScriptFor(script, m), NEW q \in 0..m, NoHunk(script, q, m + 1)
  PROVE  q + 1 \notin script.del /\ script.ins[q + 1] = <<>>
<1>1. q + 1 \in (q + 1)..(m + 1) /\ m + 1 \in (q + 1)..(m + 1) /\ m + 1 \notin script.del
  BY DEF ScriptFor
<1>2. ASSUME q + 1 \in script.del PROVE FALSE
  <2>1. NoHunk(script, q + 1, m + 1)
    BY DEF NoHunk
  <2>2. \A a \in (q + 1)..(m + 1) : a \in script.del
    BY <1>1, <1>2, <2>1, RunGoesOn
  <2> QED
    BY <1>1, <2>2
<1>3. ~HunkAt(script, q + 1)
  BY <1>1 DEF NoHunk
<1> QED
  BY <1>2, <1>3 DEF HunkAt

\* After a hunk the next one is further on.
LEMMA HunksApart ==
  ASSUME NEW m \in Nat, NEW script, ScriptFor(script, m), NEW q \in 0..m,
         q + 1 \notin script.del, NEW j \in (q + 2)..(m + 1)
  PROVE  q + 1 < RunStart(script, j)
<1> DEFINE f == RunStart(script, j)
<1>1. f \in 1..j /\ \A k \in f..(j - 1) : k \in script.del
  BY RunStartIs
<1> HIDE DEF f
<1>2. ~(f <= q + 1)
  BY <1>1
<1> QED
  BY <1>1, <1>2 DEF f

LEMMA PatchedLengths ==
  ASSUME NEW old \in LineTexts, NEW script, ScriptFor(script, Len(old))
  PROVE  /\ \A j \in 0..(Len(old) + 1) : Len(Patched(old, script)[j]) \in Nat
         /\ \A j \in 1..(Len(old) + 1) : Len(script.ins[j]) \in Nat
         /\ \A j \in 1..Len(old) :
              Len(Patched(old, script)[j]) =
                IF j \in script.del THEN Len(Patched(old, script)[j - 1])
                ELSE Len(Patched(old, script)[j - 1]) + Len(script.ins[j]) + 1
<1>1. Len(old) \in Nat
  BY DEF LineTexts
<1>2. \A j \in 0..(Len(old) + 1) : Patched(old, script)[j] \in LineTexts
  BY PatchedIs
<1>3. \A j \in 1..(Len(old) + 1) : script.ins[j] \in LineTexts
  BY DEF ScriptFor
<1>4. ASSUME NEW j \in 1..Len(old)
      PROVE  Len(Patched(old, script)[j]) =
                IF j \in script.del THEN Len(Patched(old, script)[j - 1])
                ELSE Len(Patched(old, script)[j - 1]) + Len(script.ins[j]) + 1
  <2>1. PICK a, b, t, x : /\ a = Patched(old, script)[j - 1] /\ b = Patched(old, script)[j]
                          /\ t = script.ins[j] /\ x = old[j]
    OBVIOUS
  <2>2. a \in LineTexts /\ t \in LineTexts /\ x \in Nat \X Nat
    BY <1>1, <1>2, <1>3, <2>1 DEF LineTexts
  <2>3. (j \in script.del => b = a) /\ (j \notin script.del => b = Append(a \o t, x))
    BY <2>1, PatchedLine
  <2>4. Len(Append(a \o t, x)) = Len(a) + Len(t) + 1
    BY <2>2 DEF LineTexts
  <2> QED
    BY <2>1, <2>3, <2>4
<1>5. ASSUME NEW j \in 0..(Len(old) + 1) PROVE Len(Patched(old, script)[j]) \in Nat
  BY <1>2 DEF LineTexts
<1>6. ASSUME NEW j \in 1..(Len(old) + 1) PROVE Len(script.ins[j]) \in Nat
  BY <1>3 DEF LineTexts
<1> QED
  BY <1>4, <1>5, <1>6

\* The same for the line after line q.
LEMMA NextLength ==
  ASSUME NEW old \in LineTexts, NEW script, ScriptFor(script, Len(old)), NEW q \in 0..Len(old), q # Len(old)
  PROVE  /\ q + 1 \in script.del => Len(Patched(old, script)[q + 1]) = Len(Patched(old, script)[q])
         /\ q + 1 \notin script.del =>
              Len(Patched(old, script)[q + 1]) =
                Len(Patched(old, script)[q]) + Len(script.ins[q + 1]) + 1
<1>1. Len(old) \in Nat
  BY DEF LineTexts
<1>2. PICK j \in 1..Len(old) : j = q + 1 /\ j - 1 = q
  BY <1>1
<1>3. Len(Patched(old, script)[j]) =
        IF j \in script.del THEN Len(Patched(old, script)[j - 1])
        ELSE Len(Patched(old, script)[j - 1]) + Len(script.ins[j]) + 1
  BY PatchedLengths
<1>4. Len(Patched(old, script)[j]) =
        IF j \in script.del THEN Len(Patched(old, script)[q])
        ELSE Len(Patched(old, script)[q]) + Len(script.ins[j]) + 1
  BY <1>2, <1>3
<1> QED
  BY <1>2, <1>4

ReaderStates ==
  [state : {"START", "NOCHANGE", "INSERT", "DELETE", "END"}, in_lineno : Int, out_lineno : Int,
   lines_left : Int, change_left : Int, pos : Int, ok : BOOLEAN, control : Seq({"I", "D", "E"})]

\* A reader by its fields.
Reader(ds, state, in, out, left, change, pos, control) ==
  /\ ds \in ReaderStates /\ ds.ok
  /\ ds.state = state /\ ds.in_lineno = in /\ ds.out_lineno = out
  /\ ds.lines_left = left /\ ds.change_left = change /\ ds.pos = pos /\ ds.control = control

LEMMA ReaderTyped ==
  ASSUME NEW ds, NEW state, NEW in, NEW out, NEW left, NEW change, NEW pos, NEW control,
         Reader(ds, state, in, out, left, change, pos, control)
  PROVE  /\ in \in Int /\ out \in Int /\ left \in Int /\ change \in Int /\ pos \in Int
         /\ control \in Seq({"I", "D", "E"}) /\ ds \in ReaderStates
BY DEF Reader, ReaderStates

LEMMA SetControlIn ==
  ASSUME NEW ds, NEW state, NEW in, NEW out, NEW left, NEW change, NEW pos, NEW control,
         Reader(ds, state, in, out, left, change, pos, control), NEW c \in Seq({"I", "D", "E"}), NEW a \in Int
  PROVE  Reader([ds EXCEPT !.control = c, !.in_lineno = a], state, a, out, left, change, pos, c)
<1> DEFINE e == [ds EXCEPT !.control = c, !.in_lineno = a]
<1>1. ds \in ReaderStates
  BY DEF Reader
<1>2. e \in ReaderStates
  BY <1>1 DEF ReaderStates
<1>3. e.state = ds.state /\ e.in_lineno = a /\ e.out_lineno = ds.out_lineno /\ e.lines_left = ds.lines_left /\ e.change_left = ds.change_left /\ e.pos = ds.pos /\ e.control = c /\ e.ok = ds.ok
  BY <1>1 DEF ReaderStates
<1> HIDE DEF e
<1>4. Reader(e, state, a, out, left, change, pos, c)
  BY <1>2, <1>3 DEF Reader
<1> QED
  BY <1>4 DEF e

LEMMA SetControl ==
  ASSUME NEW ds, NEW state, NEW in, NEW out, NEW left, NEW change, NEW pos, NEW control,
         Reader(ds, state, in, out, left, change, pos, control), NEW c \in Seq({"I", "D", "E"})
  PROVE  Reader([ds EXCEPT !.control = c], state, in, out, left, change, pos, c)
<1> DEFINE e == [ds EXCEPT !.control = c]
<1>1. ds \in ReaderStates
  BY DEF Reader
<1>2. e \in ReaderStates
  BY <1>1 DEF ReaderStates
<1>3. e.state = ds.state /\ e.in_lineno = ds.in_lineno /\ e.out_lineno = ds.out_lineno /\ e.lines_left = ds.lines_left /\ e.change_left = ds.change_left /\ e.pos = ds.pos /\ e.control = c /\ e.ok = ds.ok
  BY <1>1 DEF ReaderStates
<1> HIDE DEF e
<1>4. Reader(e, state, in, out, left, change, pos, c)
  BY <1>2, <1>3 DEF Reader
<1> QED
  BY <1>4 DEF e

LEMMA SetLeft ==
  ASSUME NEW ds, NEW state, NEW in, NEW out, NEW left, NEW change, NEW pos, NEW control,
         Reader(ds, state, in, out, left, change, pos, control), NEW a \in Int
  PROVE  Reader([ds EXCEPT !.lines_left = a], state, in, out, a, change, pos, control)
<1> DEFINE e == [ds EXCEPT !.lines_left = a]
<1>1. ds \in ReaderStates
  BY DEF Reader
<1>2. e \in ReaderStates
  BY <1>1 DEF ReaderStates
<1>3. e.state = ds.state /\ e.in_lineno = ds.in_lineno /\ e.out_lineno = ds.out_lineno /\ e.lines_left = a /\ e.change_left = ds.change_left /\ e.pos = ds.pos /\ e.control = ds.control /\ e.ok = ds.ok
  BY <1>1 DEF ReaderStates
<1> HIDE DEF e
<1>4. Reader(e, state, in, out, a, change, pos, control)
  BY <1>2, <1>3 DEF Reader
<1> QED
  BY <1>4 DEF e

LEMMA SetPos ==
  ASSUME NEW ds, NEW state, NEW in, NEW out, NEW left, NEW change, NEW pos, NEW control,
         Reader(ds, state, in, out, left, change, pos, control), NEW a \in Int
  PROVE  Reader([ds EXCEPT !.pos = a], state, in, out, left, change, a, control)
<1> DEFINE e == [ds EXCEPT !.pos = a]
<1>1. ds \in ReaderStates
  BY DEF Reader
<1>2. e \in ReaderStates
  BY <1>1 DEF ReaderStates
<1>3. e.state = ds.state /\ e.in_lineno = ds.in_lineno /\ e.out_lineno = ds.out_lineno /\ e.lines_left = ds.lines_left /\ e.change_left = ds.change_left /\ e.pos = a /\ e.control = ds.control /\ e.ok = ds.ok
  BY <1>1 DEF ReaderStates
<1> HIDE DEF e
<1>4. Reader(e, state, in, out, left, change, a, control)
  BY <1>2, <1>3 DEF Reader
<1> QED
  BY <1>4 DEF e

LEMMA SetOut ==
  ASSUME NEW ds, NEW state, NEW in, NEW out, NEW left, NEW change, NEW pos, NEW control,
         Reader(ds, state, in, out, left, change, pos, control), NEW a \in Int
  PROVE  Reader([ds EXCEPT !.out_lineno = a], state, in, a, left, change, pos, control)
<1> DEFINE e == [ds EXCEPT !.out_lineno = a]
<1>1. ds \in ReaderStates
  BY DEF Reader
<1>2. e \in ReaderStates
  BY <1>1 DEF ReaderStates
<1>3. e.state = ds.state /\ e.in_lineno = ds.in_lineno /\ e.out_lineno = a /\ e.lines_left = ds.lines_left /\ e.change_left = ds.change_left /\ e.pos = ds.pos /\ e.control = ds.control /\ e.ok = ds.ok
  BY <1>1 DEF ReaderStates
<1> HIDE DEF e
<1>4. Reader(e, state, in, a, left, change, pos, control)
  BY <1>2, <1>3 DEF Reader
<1> QED
  BY <1>4 DEF e

LEMMA SetPosOut ==
  ASSUME NEW ds, NEW state, NEW in, NEW out, NEW left, NEW change, NEW pos, NEW control,
         Reader(ds, state, in, out, left, change, pos, control), NEW a \in Int, NEW b \in Int
  PROVE  Reader([ds EXCEPT !.pos = a, !.out_lineno = b], state, in, b, left, change, a, control)
<1> DEFINE e == [ds EXCEPT !.pos = a, !.out_lineno = b]
<1>1. ds \in ReaderStates
  BY DEF Reader
<1>2. e \in ReaderStates
  BY <1>1 DEF ReaderStates
<1>3. e.state = ds.state /\ e.in_lineno = ds.in_lineno /\ e.out_lineno = b /\ e.lines_left = ds.lines_left /\ e.change_left = ds.change_left /\ e.pos = a /\ e.control = ds.control /\ e.ok = ds.ok
  BY <1>1 DEF ReaderStates
<1> HIDE DEF e
<1>4. Reader(e, state, in, b, left, change, a, control)
  BY <1>2, <1>3 DEF Reader
<1> QED
  BY <1>4 DEF e

LEMMA SetState ==
  ASSUME NEW ds, NEW state, NEW in, NEW out, NEW left, NEW change, NEW pos, NEW control,
         Reader(ds, state, in, out, left, change, pos, control), NEW s \in {"START", "NOCHANGE", "INSERT", "DELETE", "END"}
  PROVE  Reader([ds EXCEPT !.state = s], s, in, out, left, change, pos, control)
<1> DEFINE e == [ds EXCEPT !.state = s]
<1>1. ds \in ReaderStates
  BY DEF Reader
<1>2. e \in ReaderStates
  BY <1>1 DEF ReaderStates
<1>3. e.state = s /\ e.in_lineno = ds.in_lineno /\ e.out_lineno = ds.out_lineno /\ e.lines_left = ds.lines_left /\ e.change_left = ds.change_left /\ e.pos = ds.pos /\ e.control = ds.control /\ e.ok = ds.ok
  BY <1>1 DEF ReaderStates
<1> HIDE DEF e
<1>4. Reader(e, s, in, out, left, change, pos, control)
  BY <1>2, <1>3 DEF Reader
<1> QED
  BY <1>4 DEF e

LEMMA SetStatePos ==
  ASSUME NEW ds, NEW state, NEW in, NEW out, NEW left, NEW change, NEW pos, NEW control,
         Reader(ds, state, in, out, left, change, pos, control), NEW s \in {"START", "NOCHANGE", "INSERT", "DELETE", "END"}, NEW a \in Int
  PROVE  Reader([ds EXCEPT !.state = s, !.pos = a], s, in, out, left, change, a, control)
<1> DEFINE e == [ds EXCEPT !.state = s, !.pos = a]
<1>1. ds \in ReaderStates
  BY DEF Reader
<1>2. e \in ReaderStates
  BY <1>1 DEF ReaderStates
<1>3. e.state = s /\ e.in_lineno = ds.in_lineno /\ e.out_lineno = ds.out_lineno /\ e.lines_left = ds.lines_left /\ e.change_left = ds.change_left /\ e.pos = a /\ e.control = ds.control /\ e.ok = ds.ok
  BY <1>1 DEF ReaderStates
<1> HIDE DEF e
<1>4. Reader(e, s, in, out, left, change, a, control)
  BY <1>2, <1>3 DEF Reader
<1> QED
  BY <1>4 DEF e

LEMMA SetStateLeft ==
  ASSUME NEW ds, NEW state, NEW in, NEW out, NEW left, NEW change, NEW pos, NEW control,
         Reader(ds, state, in, out, left, change, pos, control), NEW s \in {"START", "NOCHANGE", "INSERT", "DELETE", "END"}, NEW a \in Int
  PROVE  Reader([ds EXCEPT !.state = s, !.lines_left = a], s, in, out, a, change, pos, control)
<1> DEFINE e == [ds EXCEPT !.state = s, !.lines_left = a]
<1>1. ds \in ReaderStates
  BY DEF Reader
<1>2. e \in ReaderStates
  BY <1>1 DEF ReaderStates
<1>3. e.state = s /\ e.in_lineno = ds.in_lineno /\ e.out_lineno = ds.out_lineno /\ e.lines_left = a /\ e.change_left = ds.change_left /\ e.pos = ds.pos /\ e.control = ds.control /\ e.ok = ds.ok
  BY <1>1 DEF ReaderStates
<1> HIDE DEF e
<1>4. Reader(e, s, in, out, a, change, pos, control)
  BY <1>2, <1>3 DEF Reader
<1> QED
  BY <1>4 DEF e

LEMMA SetStateLeftChange ==
  ASSUME NEW ds, NEW state, NEW in, NEW out, NEW left, NEW change, NEW pos, NEW control,
         Reader(ds, state, in, out, left, change, pos, control), NEW s \in {"START", "NOCHANGE", "INSERT", "DELETE", "END"}, NEW a \in Int, NEW b \in Int
  PROVE  Reader([ds EXCEPT !.state = s, !.lines_left = a, !.change_left = b], s, in, out, a, b, pos, control)
<1> DEFINE e == [ds EXCEPT !.state = s, !.lines_left = a, !.change_left = b]
<1>1. ds \in ReaderStates
  BY DEF Reader
<1>2. e \in ReaderStates
  BY <1>1 DEF ReaderStates
<1>3. e.state = s /\ e.in_lineno = ds.in_lineno /\ e.out_lineno = ds.out_lineno /\ e.lines_left = a /\ e.change_left = b /\ e.pos = ds.pos /\ e.control = ds.control /\ e.ok = ds.ok
  BY <1>1 DEF ReaderStates
<1> HIDE DEF e
<1>4. Reader(e, s, in, out, a, b, pos, control)
  BY <1>2, <1>3 DEF Reader
<1> QED
  BY <1>4 DEF e

LEMMA SetInsert ==
  ASSUME NEW ds, NEW state, NEW in, NEW out, NEW left, NEW change, NEW pos, NEW control,
         Reader(ds, state, in, out, left, change, pos, control), NEW s \in {"START", "NOCHANGE", "INSERT", "DELETE", "END"}, NEW a \in Int, NEW b \in Int, NEW c \in Int
  PROVE  Reader([ds EXCEPT !.state = s, !.lines_left = a, !.change_left = b, !.pos = c], s, in, out, a, b, c, control)
<1> DEFINE e == [ds EXCEPT !.state = s, !.lines_left = a, !.change_left = b, !.pos = c]
<1>1. ds \in ReaderStates
  BY DEF Reader
<1>2. e \in ReaderStates
  BY <1>1 DEF ReaderStates
<1>3. e.state = s /\ e.in_lineno = ds.in_lineno /\ e.out_lineno = ds.out_lineno /\ e.lines_left = a /\ e.change_left = b /\ e.pos = c /\ e.control = ds.control /\ e.ok = ds.ok
  BY <1>1 DEF ReaderStates
<1> HIDE DEF e
<1>4. Reader(e, s, in, out, a, b, c, control)
  BY <1>2, <1>3 DEF Reader
<1> QED
  BY <1>4 DEF e

\* The parts of process: before, and after, the part that changes the state.
Arrived(ds) ==
  [ds EXCEPT !.control = <<>>, !.in_lineno = IF ds.state # "INSERT" THEN @ + 1 ELSE @]
Counted(t) == [t EXCEPT !.lines_left = @ - 1]
Decided(b, diff) ==
  IF ~b.ok THEN b
  ELSE CASE b.state = "DELETE" ->
              IF NextLineIs(b, diff, "<") THEN [b EXCEPT !.pos = @ + 1]
              ELSE DiffCorrupt(b)
         [] b.state = "INSERT" ->
              IF NextLineIs(b, diff, ">")
              THEN [b EXCEPT !.pos = @ + 1, !.out_lineno = @ + 1]
              ELSE DiffCorrupt(b)
         [] OTHER -> [b EXCEPT !.out_lineno = @ + 1]

LEMMA ProcessIs ==
  ASSUME NEW ds, NEW diff
  PROVE  Process(ds, diff) =
           Decided(IF Arrived(ds).state = "END" THEN Arrived(ds)
                   ELSE Counted(IF Arrived(ds).lines_left = 0 THEN TurnOver(Arrived(ds), diff)
                                ELSE Arrived(ds)), diff)
BY Zenon DEF Process, Arrived, Counted, Decided

LEMMA ArrivedIs ==
  ASSUME NEW ds, NEW state, NEW in, NEW out, NEW left, NEW change, NEW pos, NEW control,
         Reader(ds, state, in, out, left, change, pos, control)
  PROVE  Reader(Arrived(ds), state, IF state # "INSERT" THEN in + 1 ELSE in, out, left, change, pos, <<>>)
<1> DEFINE a == IF state # "INSERT" THEN in + 1 ELSE in
<1>1. in \in Int /\ a \in Int
  BY ReaderTyped
<1>2. Arrived(ds) = [ds EXCEPT !.control = <<>>, !.in_lineno = a]
  BY DEF Arrived, Reader
<1>3. <<>> \in Seq({"I", "D", "E"})
  OBVIOUS
<1> HIDE DEF a
<1>4. Reader([ds EXCEPT !.control = <<>>, !.in_lineno = a], state, a, out, left, change, pos, <<>>)
  BY <1>1, <1>3, SetControlIn
<1> QED
  BY <1>2, <1>4 DEF a

LEMMA CountedIs ==
  ASSUME NEW ds, NEW state, NEW in, NEW out, NEW left, NEW change, NEW pos, NEW control,
         Reader(ds, state, in, out, left, change, pos, control)
  PROVE  Reader(Counted(ds), state, in, out, left - 1, change, pos, control)
<1>1. left \in Int /\ left - 1 \in Int
  BY ReaderTyped
<1>2. Counted(ds) = [ds EXCEPT !.lines_left = left - 1]
  BY DEF Counted, Reader
<1>3. PICK a : a = left - 1
  OBVIOUS
<1>4. Reader([ds EXCEPT !.lines_left = a], state, in, out, a, change, pos, control)
  BY <1>1, <1>3, SetLeft
<1> QED
  BY <1>2, <1>3, <1>4

LEMMA DecidedIs ==
  ASSUME NEW ds, NEW state, NEW in, NEW out, NEW left, NEW change, NEW pos, NEW control,
         Reader(ds, state, in, out, left, change, pos, control), NEW diff \in Seq(DiffLines)
  PROVE  /\ state = "DELETE" /\ pos < Len(diff) /\ diff[pos + 1].k = "<" =>
              Reader(Decided(ds, diff), state, in, out, left, change, pos + 1, control)
         /\ state = "INSERT" /\ pos < Len(diff) /\ diff[pos + 1].k = ">" =>
              Reader(Decided(ds, diff), state, in, out + 1, left, change, pos + 1, control)
         /\ state \notin {"DELETE", "INSERT"} =>
              Reader(Decided(ds, diff), state, in, out + 1, left, change, pos, control)
<1>1. Len(diff) \in Nat /\ pos \in Int
  BY DEF Reader, ReaderStates
<1>2. CASE state = "DELETE" /\ pos < Len(diff) /\ diff[pos + 1].k = "<"
  <2>1. NextLineIs(ds, diff, "<")
    BY <1>1, <1>2 DEF NextLineIs, AtEOF, Reader
  <2>2. Decided(ds, diff) = [ds EXCEPT !.pos = @ + 1]
    BY <1>2, <2>1 DEF Decided, Reader
  <2> QED
    BY <1>2, <2>2 DEF Reader, ReaderStates
<1>3. CASE state = "INSERT" /\ pos < Len(diff) /\ diff[pos + 1].k = ">"
  <2>1. NextLineIs(ds, diff, ">")
    BY <1>1, <1>3 DEF NextLineIs, AtEOF, Reader
  <2>2. Decided(ds, diff) = [ds EXCEPT !.pos = @ + 1, !.out_lineno = @ + 1]
    BY <1>3, <2>1 DEF Decided, Reader
  <2>3. ds.pos + 1 = pos + 1 /\ ds.out_lineno + 1 = out + 1 /\ out \in Int
    BY ReaderTyped DEF Reader
  <2>4. PICK a, b : a = pos + 1 /\ b = out + 1
    OBVIOUS
  <2>5. Reader([ds EXCEPT !.pos = a, !.out_lineno = b], state, in, b, left, change, a, control)
    <3>1. a \in Int /\ b \in Int
      BY <1>1, <2>3, <2>4
    <3> QED
      BY Zenon, <3>1, SetPosOut
  <2>6. Decided(ds, diff) = [ds EXCEPT !.pos = a, !.out_lineno = b]
    BY <2>2, <2>3, <2>4
  <2> QED
    BY <1>3, <2>4, <2>5, <2>6
<1>4. CASE state \notin {"DELETE", "INSERT"}
  <2>1. Decided(ds, diff) = [ds EXCEPT !.out_lineno = @ + 1]
    BY <1>4 DEF Decided, Reader
  <2> QED
    BY SMTT(30), <1>4, <2>1 DEF Reader, ReaderStates
<1> QED
  BY <1>2, <1>3, <1>4

\* The brackets printed when the state changes.
Closing(state) == IF state \in {"DELETE", "INSERT"} THEN <<"E">> ELSE <<>>
Opening(state) ==
  CASE state = "INSERT" -> <<"I">>
    [] state = "DELETE" -> <<"D">>
    [] OTHER -> <<>>

LEMMA TurnOverIs ==
  ASSUME NEW ds, NEW diff, NEW state, NEW in, NEW out, NEW left, NEW change, NEW pos, NEW control,
         Reader(NextState(ds, diff), state, in, out, left, change, pos, control)
  PROVE  Reader(TurnOver(ds, diff), state, in, out, left, change, pos,
                Closing(ds.state) \o Opening(state))
<1> DEFINE next == NextState(ds, diff)
           ctl == Closing(ds.state) \o Opening(state)
<1>1. Closing(ds.state) \in Seq({"I", "D", "E"})
  <2>1. <<"E">> \in Seq({"I", "D", "E"}) /\ <<>> \in Seq({"I", "D", "E"})
    OBVIOUS
  <2>2. Closing(ds.state) = <<"E">> \/ Closing(ds.state) = <<>>
    BY Zenon DEF Closing
  <2> QED
    BY Zenon, <2>1, <2>2
<1>2. Opening(state) \in Seq({"I", "D", "E"})
  <2>1. <<"I">> \in Seq({"I", "D", "E"}) /\ <<"D">> \in Seq({"I", "D", "E"}) /\ <<>> \in Seq({"I", "D", "E"})
    OBVIOUS
  <2>2. Opening(state) = <<"I">> \/ Opening(state) = <<"D">> \/ Opening(state) = <<>>
    BY Zenon DEF Opening
  <2> QED
    BY Zenon, <2>1, <2>2
<1>3. ctl \in Seq({"I", "D", "E"})
  BY <1>1, <1>2
<1>4. Bracket(next) = Opening(state)
  BY DEF Bracket, Opening, Reader
<1>5. TurnOver(ds, diff) = [next EXCEPT !.control = ctl]
  BY Zenon, <1>4 DEF TurnOver, Closing
<1> HIDE DEF next, ctl
<1>6. Reader(next, state, in, out, left, change, pos, control)
  BY DEF next
<1>7. Reader([next EXCEPT !.control = ctl], state, in, out, left, change, pos, ctl)
  BY <1>3, <1>6 DEF Reader, ReaderStates
<1> QED
  BY <1>5, <1>7 DEF ctl

LEMMA EnterHunkIs ==
  ASSUME NEW ds, NEW state, NEW q \in Nat, NEW out \in Nat, NEW left, NEW pos, NEW control,
         Reader(ds, state, q + 1, out, left, 0, pos, control),
         NEW h, NEW j \in Nat, NEW f \in 1..j, NEW right \in Nat, NEW t \in Nat,
         Heads(h, f, j, right, t), q + 1 <= f
  PROVE  /\ q + 1 < f => Reader(EnterHunk(ds, h), "NOCHANGE", q + 1, out, f - 1 - q, 0, pos, control)
         /\ q + 1 = f /\ f = j /\ right = out =>
              Reader(EnterHunk(ds, h), "INSERT", q + 1, out, t, 0, pos, control)
         /\ q + 1 = f /\ f # j /\ right = out =>
              Reader(EnterHunk(ds, h), "DELETE", q + 1, out, j - f, t, pos, control)
<1>1. LinesUntilHunk(ds, h) = f - 1 - q /\ f \in Nat
  BY DEF LinesUntilHunk, Heads, Op, Reader
<1>2. CASE q + 1 < f
  <2>1. PICK a : a = f - 1 - q
    OBVIOUS
  <2>2. LinesUntilHunk(ds, h) > 0 /\ LinesUntilHunk(ds, h) = a /\ a \in Int
    BY <1>1, <1>2, <2>1
  <2>3. EnterHunk(ds, h) = [ds EXCEPT !.state = "NOCHANGE", !.lines_left = a]
    BY Zenon, <2>2 DEF EnterHunk
  <2>4. Reader([ds EXCEPT !.state = "NOCHANGE", !.lines_left = a], "NOCHANGE", q + 1, out, a, 0, pos, control)
    BY <2>2, SetStateLeft
  <2> QED
    BY <1>2, <2>1, <2>3, <2>4
<1>3. CASE q + 1 = f /\ right = out
  <2>1. LinesUntilHunk(ds, h) = 0 /\ ~(LinesUntilHunk(ds, h) > 0)
    BY <1>1, <1>3
  <2>2. HunkReached(ds, h)
    <3>1. h.line3 = IF h.op = "d" THEN out ELSE out + 1
      BY <1>3 DEF Heads, Op
    <3> QED
      BY <2>1, <3>1 DEF HunkReached, Reader
  <2>3. CASE f = j
    <3>1. h.op = "a" /\ h.line4 - h.line3 + 1 = t
      BY <2>3 DEF Heads, Op
    <3>2. EnterHunk(ds, h) = [ds EXCEPT !.state = "INSERT", !.lines_left = t]
      BY Zenon, <2>1, <2>2, <3>1 DEF EnterHunk
    <3>3. Reader([ds EXCEPT !.state = "INSERT", !.lines_left = t], "INSERT", q + 1, out, t, 0, pos, control)
      <4>1. t \in Int /\ "INSERT" \in {"START", "NOCHANGE", "INSERT", "DELETE", "END"}
        OBVIOUS
      <4> QED
        BY Zenon, <4>1, SetStateLeft
    <3> QED
      BY <1>3, <2>3, <3>2, <3>3
  <2>4. CASE f # j
    <3>1. h.op = (IF t = 0 THEN "d" ELSE "c") /\ h.line2 - h.line1 + 1 = j - f
      BY <2>4 DEF Heads, Op
    <3>2. t # 0 => h.line4 - h.line3 + 1 = t
      BY <2>4 DEF Heads, Op
    <3>3. PICK a, b : a = j - f /\ b = IF h.op = "c" THEN h.line4 - h.line3 + 1 ELSE ds.change_left
      OBVIOUS
    <3>4. a \in Int /\ b = t /\ h.line2 - h.line1 + 1 = a
      <4>1. ds.change_left = 0
        BY DEF Reader
      <4> QED
        BY <3>1, <3>2, <3>3, <4>1
    <3>5. h.op # "a"
      BY <3>1
    <3>6. EnterHunk(ds, h) = [ds EXCEPT !.state = "DELETE", !.lines_left = a, !.change_left = b]
      BY Zenon, <2>1, <2>2, <3>3, <3>4, <3>5 DEF EnterHunk
    <3>7. Reader([ds EXCEPT !.state = "DELETE", !.lines_left = a, !.change_left = b],
                 "DELETE", q + 1, out, a, b, pos, control)
      <4>1. a \in Int /\ b \in Int /\ "DELETE" \in {"START", "NOCHANGE", "INSERT", "DELETE", "END"}
        BY <3>4
      <4> QED
        BY Zenon, <4>1, SetStateLeftChange
    <3>8. Reader(EnterHunk(ds, h), "DELETE", q + 1, out, j - f, t, pos, control)
      BY Zenon, <3>3, <3>4, <3>6, <3>7
    <3> QED
      BY <1>3, <2>4, <3>8
  <2> QED
    BY <2>3, <2>4
<1> QED
  BY <1>2, <1>3

\* What process answers in a state: a reader, after the line it decides about.
After(p, diff, state, in, out, left, change, pos, control) ==
  /\ state = "DELETE" /\ pos < Len(diff) /\ diff[pos + 1].k = "<" =>
       Reader(p, state, in, out, left, change, pos + 1, control)
  /\ state = "INSERT" /\ pos < Len(diff) /\ diff[pos + 1].k = ">" =>
       Reader(p, state, in, out + 1, left, change, pos + 1, control)
  /\ state \notin {"DELETE", "INSERT"} =>
       Reader(p, state, in, out + 1, left, change, pos, control)

\* A run goes on.
LEMMA Continued ==
  ASSUME NEW ds, NEW state, NEW in, NEW out, NEW left, NEW change, NEW pos, NEW control,
         Reader(ds, state, in, out, left, change, pos, control), NEW diff \in Seq(DiffLines),
         state # "END", left # 0
  PROVE  After(Process(ds, diff), diff, state, IF state # "INSERT" THEN in + 1 ELSE in, out, left - 1,
               change, pos, <<>>)
<1> DEFINE a == Arrived(ds)
           i == IF state # "INSERT" THEN in + 1 ELSE in
<1>1. Reader(a, state, i, out, left, change, pos, <<>>)
  BY Zenon, ArrivedIs
<1> HIDE DEF i
<1>2. Reader(Counted(a), state, i, out, left - 1, change, pos, <<>>)
  BY Zenon, <1>1, CountedIs
<1>3. a.state # "END" /\ a.lines_left # 0
  BY <1>1 DEF Reader
<1>4. Process(ds, diff) = Decided(Counted(a), diff)
  BY Zenon, <1>3, ProcessIs
<1> HIDE DEF a
<1> DEFINE b == Counted(a)
<1>5. Reader(b, state, i, out, left - 1, change, pos, <<>>)
  BY <1>2
<1> HIDE DEF b
<1>6. After(Decided(b, diff), diff, state, i, out, left - 1, change, pos, <<>>)
  BY Zenon, <1>5, DecidedIs DEF After
<1> QED
  BY Zenon, <1>4, <1>6 DEF b, i

\* A run ends.
LEMMA Turned ==
  ASSUME NEW ds, NEW state, NEW in, NEW out, NEW change, NEW pos, NEW control,
         Reader(ds, state, in, out, 0, change, pos, control), NEW diff \in Seq(DiffLines),
         state # "END",
         NEW st, NEW in2, NEW out2, NEW left2, NEW change2, NEW pos2, NEW control2,
         Reader(NextState(Arrived(ds), diff), st, in2, out2, left2, change2, pos2, control2)
  PROVE  After(Process(ds, diff), diff, st, in2, out2, left2 - 1, change2, pos2,
               Closing(state) \o Opening(st))
<1> DEFINE a == Arrived(ds)
           i == IF state # "INSERT" THEN in + 1 ELSE in
           ctl == Closing(state) \o Opening(st)
<1>1. Reader(a, state, i, out, 0, change, pos, <<>>)
  BY Zenon, ArrivedIs
<1>2. Reader(NextState(a, diff), st, in2, out2, left2, change2, pos2, control2)
  OBVIOUS
<1>3. a.state = state /\ a.state # "END" /\ a.lines_left = 0
  <2> HIDE DEF i
  <2> QED
    BY <1>1 DEF Reader
<1>4. Process(ds, diff) = Decided(Counted(TurnOver(a, diff)), diff)
  BY Zenon, <1>3, ProcessIs
<1> HIDE DEF a
<1> DEFINE b == TurnOver(a, diff)
           d == Counted(b)
<1>5. Reader(b, st, in2, out2, left2, change2, pos2, ctl)
  BY Zenon, <1>2, <1>3, TurnOverIs
<1> HIDE DEF b, ctl
<1>6. Reader(d, st, in2, out2, left2 - 1, change2, pos2, ctl)
  BY Zenon, <1>5, CountedIs
<1> HIDE DEF d
<1>7. After(Decided(d, diff), diff, st, in2, out2, left2 - 1, change2, pos2, ctl)
  BY Zenon, <1>6, DecidedIs DEF After
<1> QED
  BY Zenon, <1>4, <1>7 DEF b, d, ctl

\* The end of the output was reached before.
LEMMA Ended ==
  ASSUME NEW ds, NEW in, NEW out, NEW left, NEW change, NEW pos, NEW control,
         Reader(ds, "END", in, out, left, change, pos, control), NEW diff \in Seq(DiffLines)
  PROVE  Reader(Process(ds, diff), "END", in + 1, out + 1, left, change, pos, <<>>)
<1> DEFINE a == Arrived(ds)
           i == IF "END" # "INSERT" THEN in + 1 ELSE in
<1>1. Reader(a, "END", i, out, left, change, pos, <<>>)
  BY Zenon, ArrivedIs
<1>2. i = in + 1
  OBVIOUS
<1> HIDE DEF i
<1>3. a.state = "END"
  BY <1>1 DEF Reader
<1>4. Process(ds, diff) = Decided(a, diff)
  BY Zenon, <1>3, ProcessIs
<1> HIDE DEF a
<1>5. "END" \notin {"DELETE", "INSERT"}
  OBVIOUS
<1>6. Reader(Decided(a, diff), "END", i, out + 1, left, change, pos, <<>>)
  BY Zenon, <1>1, <1>5, DecidedIs
<1> QED
  BY Zenon, <1>2, <1>4, <1>6 DEF a

-----------------------------------------------------------------------------
(* The reader of the output of diff, among the lines of the old file: it   *)
(* has decided about the first q of them, and about c lines inserted       *)
(* before the next one.                                                    *)

Context(old, script, diff, at) ==
  old \in LineTexts /\ ScriptFor(script, Len(old)) /\ Laid(diff, old, script, at)

Starting(ds, q, c) == q = 0 /\ c = 0 /\ Reader(ds, "START", 0, 0, 0, 0, 0, ds.control)
Keeping(ds, old, script, at, q, c) ==
  /\ c = 0
  /\ \E j \in (q + 1)..(Len(old) + 1) :
       /\ NextHunk(script, q, j) /\ q < RunStart(script, j)
       /\ Reader(ds, "NOCHANGE", q, Len(Patched(old, script)[q]), RunStart(script, j) - 1 - q, 0,
                 at[j - 1] + 1, ds.control)
Deleting(ds, old, script, at, q, c) ==
  /\ c = 0
  /\ \E j \in (q + 1)..(Len(old) + 1) :
       /\ NextHunk(script, q, j) /\ RunStart(script, j) <= q
       /\ Reader(ds, "DELETE", q, Len(Patched(old, script)[q]), j - 1 - q, Len(script.ins[j]),
                 at[j - 1] + 1 + (q - RunStart(script, j) + 1), ds.control)
\* The place in the output of line c of the text after old line q.
TextPlace(script, at, q, c) ==
  at[q] + 1 + (q + 1 - RunStart(script, q + 1))
  + Sep(RunStart(script, q + 1), q + 1, Len(script.ins[q + 1])) + c
Adding(ds, old, script, at, q, c) ==
  /\ HunkAt(script, q + 1) /\ c \in 1..Len(script.ins[q + 1])
  /\ Reader(ds, "INSERT", q + 1, Len(Patched(old, script)[q]) + c, Len(script.ins[q + 1]) - c, 0,
            TextPlace(script, at, q, c), ds.control)
Ending(ds, old, script, diff, q, c) ==
  /\ c = 0 /\ NoHunk(script, q, Len(old) + 1)
  /\ Reader(ds, "END", q, Len(Patched(old, script)[q]), ds.lines_left, 0, Len(diff), ds.control)

ReaderAt(ds, old, script, diff, at, q, c) ==
  /\ q \in 0..Len(old)
  /\ \/ Starting(ds, q, c)
     \/ Keeping(ds, old, script, at, q, c)
     \/ Deleting(ds, old, script, at, q, c)
     \/ Adding(ds, old, script, at, q, c)
     \/ Ending(ds, old, script, diff, q, c)

\* What process may answer: the next line of the text to insert; that the next old line
\* is deleted; or that it is kept, or there is none.
Answers(p, old, script, diff, at, q, c) ==
  \/ /\ p.state = "INSERT" /\ c < Len(script.ins[q + 1])
     /\ InsertLine(p, diff) = script.ins[q + 1][c + 1]
     /\ ReaderAt(p, old, script, diff, at, q, c + 1)
  \/ /\ p.state = "DELETE" /\ q < Len(old) /\ q + 1 \in script.del /\ c = 0
     /\ ReaderAt(p, old, script, diff, at, q + 1, 0)
  \/ /\ p.state \in {"NOCHANGE", "END"} /\ q + 1 \notin script.del /\ c = Len(script.ins[q + 1])
     /\ q < Len(old) => ReaderAt(p, old, script, diff, at, q + 1, 0)
     /\ q = Len(old) => p.pos = Len(diff)

LEMMA LaidText ==
  ASSUME NEW diff, NEW b, NEW f, NEW j, NEW right, NEW text, LaidHunk(diff, b, f, j, right, text),
         NEW i \in 1..Len(text)
  PROVE  /\ diff[b + 1 + (j - f) + Sep(f, j, Len(text)) + i].k = ">"
         /\ diff[b + 1 + (j - f) + Sep(f, j, Len(text)) + i].text = text[i]
BY Zenon DEF LaidHunk

LEMMA KeptHere ==
  ASSUME NEW old, NEW script, NEW diff, NEW at, Context(old, script, diff, at),
         NEW q \in 0..Len(old), NEW c, c = Len(script.ins[q + 1]), q + 1 \notin script.del,
         NEW j \in (q + 2)..(Len(old) + 1), NextHunk(script, q + 1, j), NEW p,
         Reader(p, "NOCHANGE", q + 1, Len(Patched(old, script)[q]) + c + 1,
                RunStart(script, j) - 1 - q - 1, 0, at[j - 1] + 1, p.control)
  PROVE  Answers(p, old, script, diff, at, q, c)
<1>1. Len(old) \in Nat /\ old \in LineTexts /\ ScriptFor(script, Len(old))
  BY DEF Context, LineTexts
<1>2. q < Len(old) /\ q + 1 \in 1..Len(old) /\ q + 1 \in 0..Len(old) /\ q + 1 - 1 = q
      /\ j \in (q + 1 + 1)..(Len(old) + 1)
  BY <1>1
<1>3. Len(Patched(old, script)[q + 1]) = Len(Patched(old, script)[q]) + c + 1
  <2>1. q # Len(old)
    BY <1>1, <1>2
  <2> QED
    BY Zenon, <1>1, <2>1, NextLength
<1>4. q + 1 < RunStart(script, j)
  BY <1>1, HunksApart
<1>5. RunStart(script, j) - 1 - q - 1 = RunStart(script, j) - 1 - (q + 1)
  <2>1. RunStart(script, j) \in 1..j
    BY <1>1, RunStartIs
  <2> QED
    BY <2>1, <1>1
<1>6. Keeping(p, old, script, at, q + 1, 0)
  BY Zenon, <1>2, <1>3, <1>4, <1>5 DEF Keeping
<1>7. ReaderAt(p, old, script, diff, at, q + 1, 0)
  BY Zenon, <1>2, <1>6 DEF ReaderAt
<1>8. p.state = "NOCHANGE" /\ q # Len(old)
  BY <1>1, <1>2 DEF Reader
<1> QED
  BY <1>7, <1>8 DEF Answers

LEMMA EndHere ==
  ASSUME NEW old, NEW script, NEW diff, NEW at, Context(old, script, diff, at),
         NEW q \in 0..Len(old), NEW c, c = Len(script.ins[q + 1]), q + 1 \notin script.del,
         NoHunk(script, q + 1, Len(old) + 1), NEW p, NEW left,
         Reader(p, "END", q + 1, Len(Patched(old, script)[q]) + c + 1, left, 0, Len(diff), p.control)
  PROVE  Answers(p, old, script, diff, at, q, c)
<1>1. Len(old) \in Nat /\ old \in LineTexts /\ ScriptFor(script, Len(old))
  BY DEF Context, LineTexts
<1>2. p.state = "END" /\ p.pos = Len(diff) /\ p.lines_left = left
  BY DEF Reader
<1>3. CASE q = Len(old)
  BY <1>2, <1>3, <1>1 DEF Answers
<1>4. CASE q # Len(old)
  <2>1. q + 1 \in 0..Len(old) /\ q + 1 \in 1..Len(old) /\ q + 1 - 1 = q
    BY <1>1, <1>4
  <2>2. Len(Patched(old, script)[q + 1]) = Len(Patched(old, script)[q]) + c + 1
    BY Zenon, <1>1, <1>4, NextLength
  <2>3. Ending(p, old, script, diff, q + 1, 0)
    BY Zenon, <1>2, <2>2 DEF Ending
  <2>4. ReaderAt(p, old, script, diff, at, q + 1, 0)
    BY Zenon, <2>1, <2>3 DEF ReaderAt
  <2> QED
    BY <1>2, <1>4, <2>4 DEF Answers
<1> QED
  BY <1>3, <1>4

LEMMA DeletedHere ==
  ASSUME NEW old, NEW script, NEW diff, NEW at, Context(old, script, diff, at),
         NEW q \in 0..Len(old), q + 1 \in script.del,
         NEW j \in (q + 2)..(Len(old) + 1), NextHunk(script, q + 1, j),
         RunStart(script, j) <= q + 1, NEW p,
         Reader(p, "DELETE", q + 1, Len(Patched(old, script)[q]), j - 1 - q - 1, Len(script.ins[j]),
                at[j - 1] + 1 + (q + 1 - RunStart(script, j) + 1), p.control)
  PROVE  Answers(p, old, script, diff, at, q, 0)
<1>1. Len(old) \in Nat /\ old \in LineTexts /\ ScriptFor(script, Len(old))
  BY DEF Context, LineTexts
<1>2. q < Len(old) /\ q + 1 \in 1..Len(old) /\ q + 1 \in 0..Len(old) /\ q + 1 - 1 = q
      /\ j \in (q + 1 + 1)..(Len(old) + 1) /\ j - 1 - q - 1 = j - 1 - (q + 1)
  BY <1>1
<1>3. Len(Patched(old, script)[q + 1]) = Len(Patched(old, script)[q])
  <2>1. q # Len(old)
    BY <1>1, <1>2
  <2> QED
    BY Zenon, <1>1, <2>1, NextLength
<1>4. j - 1 - q - 1 = j - 1 - (q + 1)
  BY <1>1
<1>6. Deleting(p, old, script, at, q + 1, 0)
  <2>1. Reader(p, "DELETE", q + 1, Len(Patched(old, script)[q + 1]), j - 1 - (q + 1), Len(script.ins[j]),
                at[j - 1] + 1 + (q + 1 - RunStart(script, j) + 1), p.control)
    BY Zenon, <1>3, <1>4
  <2>2. j \in (q + 1 + 1)..(Len(old) + 1)
    BY <1>2
  <2> QED
    <3>1. PICK y : y = q + 1
      OBVIOUS
    <3>2. /\ j \in (y + 1)..(Len(old) + 1) /\ NextHunk(script, y, j) /\ RunStart(script, j) <= y
          /\ Reader(p, "DELETE", y, Len(Patched(old, script)[y]), j - 1 - y, Len(script.ins[j]),
                    at[j - 1] + 1 + (y - RunStart(script, j) + 1), p.control)
      <4>1. j \in (y + 1)..(Len(old) + 1)
        BY <2>2, <3>1
      <4>2. NextHunk(script, y, j)
        BY <3>1
      <4>3. RunStart(script, j) <= y
        BY <3>1
      <4>4. Reader(p, "DELETE", y, Len(Patched(old, script)[y]), j - 1 - y, Len(script.ins[j]),
                    at[j - 1] + 1 + (y - RunStart(script, j) + 1), p.control)
        <5>1. q + 1 \in Int /\ j - 1 \in 0..(Len(old) + 1)
          BY <1>1
        <5>2. at[j - 1] \in Int
          <6>1. at \in [0..(Len(old) + 1) -> Nat]
            BY Zenon DEF Context, Laid
          <6> QED
            BY <5>1, <6>1
        <5>3. RunStart(script, j) \in Int
          <6>1. j \in 1..(Len(old) + 1)
            BY <1>1
          <6>2. RunStart(script, j) \in 1..j
            BY <1>1, <6>1, RunStartIs
          <6> QED
            BY <6>1, <6>2
        <5>4. PICK u, v : u = at[j - 1] /\ v = RunStart(script, j)
          OBVIOUS
        <5>5. u + 1 + (y - v + 1) = u + 1 + (q + 1 - v + 1) /\ j - 1 - y = j - 1 - (q + 1)
          BY <3>1, <5>1, <5>2, <5>3, <5>4
        <5>6. Len(Patched(old, script)[y]) = Len(Patched(old, script)[q + 1])
          BY Zenon, <3>1
        <5> QED
          BY Zenon, <2>1, <3>1, <5>4, <5>5, <5>6
      <4> QED
        BY <4>1, <4>2, <4>3, <4>4
    <3>3. Deleting(p, old, script, at, y, 0)
      BY Zenon, <3>2 DEF Deleting
    <3> QED
      BY <3>1, <3>3
<1>7. ReaderAt(p, old, script, diff, at, q + 1, 0)
  BY Zenon, <1>2, <1>6 DEF ReaderAt
<1>8. p.state = "DELETE"
  BY DEF Reader
<1> QED
  BY <1>2, <1>7, <1>8 DEF Answers

LEMMA AddedHere ==
  ASSUME NEW old, NEW script, NEW diff, NEW at, Context(old, script, diff, at),
         NEW q \in 0..Len(old), NEW c \in Nat, c < Len(script.ins[q + 1]), HunkAt(script, q + 1), NEW p,
         Reader(p, "INSERT", q + 1, Len(Patched(old, script)[q]) + c + 1,
                Len(script.ins[q + 1]) - c - 1, 0, TextPlace(script, at, q, c) + 1, p.control)
  PROVE  Answers(p, old, script, diff, at, q, c)
<1>1. Len(old) \in Nat /\ old \in LineTexts /\ ScriptFor(script, Len(old)) /\ Laid(diff, old, script, at)
  BY DEF Context, LineTexts
<1> DEFINE t == Len(script.ins[q + 1])
           f == RunStart(script, q + 1)
           s == Sep(f, q + 1, t)
           L == Len(Patched(old, script)[q])
<1>2. q + 1 \in 1..(Len(old) + 1) /\ q + 1 - 1 = q /\ q \in 0..(Len(old) + 1)
  BY <1>1
<1>3. t \in Nat /\ L \in Nat
  BY <1>1, <1>2, PatchedLengths
<1>4. f \in 1..(q + 1) /\ s \in Nat
  BY <1>1, <1>2, RunStartIs DEF Sep
<1>5. at[q] \in Nat
  BY <1>1, <1>2 DEF Laid
<1> HIDE DEF t, f, s, L
<1>6. c + 1 \in 1..t /\ L + c + 1 = L + (c + 1) /\ t - c - 1 = t - (c + 1)
  BY <1>3 DEF t
<1>7. TextPlace(script, at, q, c) + 1 = TextPlace(script, at, q, c + 1)
  <2>1. /\ TextPlace(script, at, q, c) = at[q] + 1 + (q + 1 - f) + s + c
        /\ TextPlace(script, at, q, c + 1) = at[q] + 1 + (q + 1 - f) + s + (c + 1)
    BY DEF TextPlace, f, s, t
  <2>2. at[q] + 1 + (q + 1 - f) + s + c + 1 = at[q] + 1 + (q + 1 - f) + s + (c + 1)
    <3>1. PICK x : x = at[q] + 1 + (q + 1 - f) + s
      OBVIOUS
    <3>2. x \in Int
      BY <1>1, <1>4, <1>5, <3>1
    <3> QED
      BY <3>1, <3>2
  <2> QED
    BY <2>1, <2>2
<1>8. Adding(p, old, script, at, q, c + 1)
  BY Zenon, <1>6, <1>7 DEF Adding, t, L
<1>9. ReaderAt(p, old, script, diff, at, q, c + 1)
  BY Zenon, <1>8 DEF ReaderAt
<1>10. InsertLine(p, diff) = script.ins[q + 1][c + 1]
  <2>1. LaidHunk(diff, at[q], f, q + 1, L, script.ins[q + 1])
    <3>1. PICK j \in 1..(Len(old) + 1) : j = q + 1 /\ j - 1 = q
      BY <1>2
    <3>2. HunkAt(script, j)
      BY <3>1
    <3>3. LaidHunk(diff, at[j - 1], RunStart(script, j), j, Len(Patched(old, script)[j - 1]), script.ins[j])
      BY Zenon, <1>1, <3>2 DEF Laid
    <3>4. LaidHunk(diff, at[q], RunStart(script, j), j, Len(Patched(old, script)[q]), script.ins[j])
      BY <3>1, <3>3
    <3> QED
      BY <3>1, <3>4 DEF f, L
  <2>2. diff[at[q] + 1 + (q + 1 - f) + s + (c + 1)].text = script.ins[q + 1][c + 1]
    <3>1. \A i \in 1..t : diff[at[q] + 1 + (q + 1 - f) + s + i].text = script.ins[q + 1][i]
      <4>1. PICK text, j : text = script.ins[q + 1] /\ j = q + 1
        OBVIOUS
      <4>2. LaidHunk(diff, at[q], f, j, L, text) /\ t = Len(text) /\ s = Sep(f, j, Len(text))
        BY <2>1, <4>1 DEF s, t
      <4>3. \A i \in 1..Len(text) : diff[at[q] + 1 + (j - f) + Sep(f, j, Len(text)) + i].text = text[i]
        BY <4>2 DEF LaidHunk
      <4> QED
        <5>1. Sep(f, j, Len(text)) \in Int /\ s \in Int /\ j - f \in Int /\ q + 1 - f \in Int /\ j - f = q + 1 - f
          BY <1>4, <4>1, <4>2
        <5>2. ASSUME NEW i \in 1..t PROVE diff[at[q] + 1 + (q + 1 - f) + s + i].text = script.ins[q + 1][i]
          <6>1. i \in 1..Len(text)
            BY <4>2
          <6>2. diff[at[q] + 1 + (j - f) + Sep(f, j, Len(text)) + i].text = text[i]
            BY <4>3, <6>1
          <6>3. PICK x, z : x = at[q] + 1 + (q + 1 - f) + s + i
                            /\ z = at[q] + 1 + (j - f) + Sep(f, j, Len(text)) + i
            OBVIOUS
          <6>4. x = z
            BY <5>1, <1>5, <4>2, <6>3
          <6> QED
            BY Zenon, <4>1, <6>2, <6>3, <6>4
        <5> QED
          BY <5>2
    <3> QED
      BY Zenon, <1>6, <3>1
  <2>3. p.pos = TextPlace(script, at, q, c + 1)
    BY <1>7 DEF Reader
  <2>4. TextPlace(script, at, q, c + 1) = at[q] + 1 + (q + 1 - f) + s + (c + 1)
    BY DEF TextPlace, f, s, t
  <2> QED
    BY <2>2, <2>3, <2>4 DEF InsertLine
<1>11. p.state = "INSERT"
  BY DEF Reader
<1> QED
  BY <1>9, <1>10, <1>11 DEF Answers

LEMMA ContextIs ==
  ASSUME NEW old, NEW script, NEW diff, NEW at, Context(old, script, diff, at)
  PROVE  /\ Len(old) \in Nat /\ old \in LineTexts /\ ScriptFor(script, Len(old))
         /\ Laid(diff, old, script, at) /\ diff \in Seq(DiffLines) /\ Len(diff) \in Nat
         /\ at \in [0..(Len(old) + 1) -> Nat] /\ at[0] = 0
         /\ \A j \in 0..(Len(old) + 1) : at[j] \in Nat /\ at[j] <= Len(diff)
<1>1. old \in LineTexts /\ ScriptFor(script, Len(old)) /\ Laid(diff, old, script, at)
  BY Zenon DEF Context
<1>2. /\ diff \in Seq(DiffLines) /\ at \in [0..(Len(old) + 1) -> Nat] /\ at[0] = 0
      /\ \A j \in 0..(Len(old) + 1) : \A i \in 0..j : at[i] <= at[j]
      /\ Len(diff) = at[Len(old) + 1] \/ Len(diff) = at[Len(old) + 1] + 1
  BY Zenon, <1>1 DEF Laid
<1>3. Len(old) \in Nat /\ Len(diff) \in Nat
  BY <1>1, <1>2 DEF LineTexts
<1>4. Len(old) + 1 \in 0..(Len(old) + 1) /\ at[Len(old) + 1] \in Nat /\ at[Len(old) + 1] <= Len(diff)
  BY <1>2, <1>3
<1>5. ASSUME NEW j \in 0..(Len(old) + 1) PROVE at[j] \in Nat /\ at[j] <= Len(diff)
  <2>1. at[j] <= at[Len(old) + 1] /\ at[j] \in Nat
    BY <1>2, <1>3, <1>4
  <2> QED
    BY <1>3, <1>4, <2>1
<1> QED
  BY <1>1, <1>2, <1>3, <1>5

\* All about the hunk before line j, which comes after line q.
HunkThere(old, script, diff, at, q, j, f, t, s) ==
  /\ f \in 1..j /\ j \in 1..(Len(old) + 1) /\ t \in Nat /\ s \in {0, 1} /\ s = Sep(f, j, t)
  /\ at[q] \in Nat /\ at[j] = at[q] + 1 + (j - f) + s + t /\ at[j] <= Len(diff)
  /\ LaidHunk(diff, at[q], f, j, Len(Patched(old, script)[q]), script.ins[j])
  /\ t = Len(script.ins[j])
  /\ Len(Patched(old, script)[q]) \in Nat
  /\ f = j => t > 0
  /\ j \notin script.del
  /\ \A k \in f..q : k \in script.del
  /\ TextPlace(script, at, q, 0) = at[q] + 1 + (j - f) + s
  /\ TextPlace(script, at, q, t) = at[j]

SumsAgree(y, j, f, s, t) == y + (1 + (j - f) + s + t) = y + 1 + (j - f) + s + t

LEMMA SumOfLengths ==
  ASSUME NEW y \in Nat, NEW j \in Int, NEW f \in Int, NEW s \in Int, NEW t \in Nat
  PROVE  SumsAgree(y, j, f, s, t)
BY DEF SumsAgree

LEMMA HunkFacts ==
  ASSUME NEW old, NEW script, NEW diff, NEW at, Context(old, script, diff, at),
         NEW q \in 0..Len(old), NEW j, j = q + 1, HunkAt(script, j),
         NEW f, f = RunStart(script, j), NEW t, t = Len(script.ins[j]), NEW s, s = Sep(f, j, t)
  PROVE  HunkThere(old, script, diff, at, q, j, f, t, s)
<1>1. /\ Len(old) \in Nat /\ old \in LineTexts /\ ScriptFor(script, Len(old)) /\ Laid(diff, old, script, at)
      /\ \A i \in 0..(Len(old) + 1) : at[i] \in Nat /\ at[i] <= Len(diff)
  BY ContextIs
<1>2. j \in 1..(Len(old) + 1) /\ j \in 0..(Len(old) + 1) /\ q \in 0..(Len(old) + 1) /\ j - 1 = q
  BY <1>1
<1>3. /\ f \in 1..j /\ \A k \in f..(j - 1) : k \in script.del
      /\ (f = 1 \/ f - 1 \notin script.del)
  BY <1>1, <1>2, RunStartIs
<1>4. script.ins[j] \in LineTexts /\ script.del \subseteq 1..Len(old)
  BY <1>1, <1>2 DEF ScriptFor
<1>5. t \in Nat /\ (t = 0 => script.ins[j] = <<>>)
  BY <1>4 DEF LineTexts
<1>6. s \in {0, 1}
  BY DEF Sep
<1>7. /\ at[j] = at[j - 1] + HunkLength(f, j, t)
      /\ LaidHunk(diff, at[j - 1], f, j, Len(Patched(old, script)[j - 1]), script.ins[j])
  BY Zenon, <1>1, <1>2 DEF Laid
<1>8. /\ at[j] = at[q] + HunkLength(f, j, t)
      /\ LaidHunk(diff, at[q], f, j, Len(Patched(old, script)[q]), script.ins[j])
  BY <1>2, <1>7
<1>9. at[j] = at[q] + 1 + (j - f) + s + t
  <2>1. HunkLength(f, j, t) = 1 + (j - f) + s + t
    BY Zenon DEF HunkLength
  <2>2. at[q] \in Nat
    BY <1>1, <1>2
  <2> QED
    <3>1. at[j] = at[q] + (1 + (j - f) + s + t)
      BY Zenon, <1>8, <2>1
    <3>2. j \in Int
      BY <1>2
    <3>3. f \in Int
      BY <1>3
    <3>4. s \in Int
      BY <1>6
    <3>5. SumsAgree(at[q], j, f, s, t)
      BY Zenon, <1>5, <2>2, <3>2, <3>3, <3>4, SumOfLengths
    <3> QED
      BY Zenon, <3>1, <3>5 DEF SumsAgree
<1>10. j \notin script.del /\ (script.ins[j] # <<>> \/ j - 1 \in script.del)
  BY Zenon DEF HunkAt
<1>11. f = j => t > 0
  <2> SUFFICES ASSUME f = j PROVE t > 0
    OBVIOUS
  <2>1. j - 1 \notin script.del
    <3>1. CASE j = 1
      <4>1. 0 \notin script.del /\ j - 1 = 0
        BY <1>4, <3>1
      <4> QED
        BY <4>1
    <3>2. CASE j # 1
      BY <1>3, <3>2
    <3> QED
      BY <3>1, <3>2
  <2>2. script.ins[j] # <<>>
    BY <1>10, <2>1
  <2> QED
    BY <1>5, <2>2
<1>12. Len(Patched(old, script)[q]) \in Nat
  BY <1>1, <1>2, PatchedLengths
<1>a. RunStart(script, q + 1) = f /\ Len(script.ins[q + 1]) = t /\ q + 1 = j
  OBVIOUS
<1>b. Sep(f, q + 1, t) = s
  BY <1>a
<1>c. at[q] \in Nat /\ s \in Int /\ j - f \in Int /\ q + 1 - f = j - f
  BY <1>1, <1>2, <1>3, <1>6
<1>d. ASSUME NEW c \in Nat PROVE TextPlace(script, at, q, c) = at[q] + 1 + (j - f) + s + c
  BY <1>a, <1>b, <1>c DEF TextPlace
<1>13. TextPlace(script, at, q, 0) = at[q] + 1 + (j - f) + s
  BY <1>c, <1>d
<1>14. TextPlace(script, at, q, t) = at[j]
  BY <1>5, <1>9, <1>d
<1>15. \A k \in f..q : k \in script.del
  BY <1>2, <1>3
<1>16. at[q] \in Nat /\ at[j] <= Len(diff)
  BY <1>1, <1>2
<1> QED
  BY Zenon, <1>2, <1>3, <1>5, <1>6, <1>8, <1>9, <1>10, <1>11, <1>12, <1>13, <1>14, <1>15, <1>16
     DEF HunkThere

\* What the reader finds when it fetches the next line of the output.
Fetches(d, old, script, diff, at, e, state, in, out, left, control) ==
  /\ NoHunk(script, e, Len(old) + 1) =>
       Reader(NextState(d, diff), "END", in, out, left, 0, Len(diff), control)
  /\ \A j \in (e + 1)..(Len(old) + 1) : NextHunk(script, e, j) =>
       \E x : /\ Reader(x, state, in, out, left, 0, at[j - 1] + 1, control)
              /\ NextState(d, diff) = EnterHunk(x, diff[at[j - 1] + 1])

\* The next line of the output is fetched after the hunks up to line e.
LEMMA Fetched ==
  ASSUME NEW old, NEW script, NEW diff, NEW at, Context(old, script, diff, at),
         NEW e \in 0..(Len(old) + 1), NEW d, NEW state, NEW in, NEW out, NEW left, NEW control,
         Reader(d, state, in, out, left, 0, at[e], control), state # "NOCHANGE"
  PROVE  Fetches(d, old, script, diff, at, e, state, in, out, left, control)
<1>1. /\ Len(old) \in Nat /\ old \in LineTexts /\ ScriptFor(script, Len(old)) /\ Laid(diff, old, script, at)
      /\ Len(diff) \in Nat
      /\ \A i \in 0..(Len(old) + 1) : at[i] \in Nat /\ at[i] <= Len(diff)
  BY ContextIs
<1>2. d.pos = at[e] /\ d.change_left = 0 /\ d.state # "NOCHANGE" /\ at[e] \in Nat /\ at[e] <= Len(diff)
  BY <1>1 DEF Reader
<1>3. ~(d.state = "DELETE" /\ d.change_left # 0)
  BY <1>2
<1>4. ASSUME NoHunk(script, e, Len(old) + 1)
      PROVE  Reader(NextState(d, diff), "END", in, out, left, 0, Len(diff), control)
  <2>1. at[Len(old) + 1] = at[e]
    BY <1>1, <1>4, SamePlace
  <2>2. Len(diff) = at[e] \/ (Len(diff) = at[e] + 1 /\ diff[Len(diff)].k = "\\")
    BY Zenon, <1>1, <2>1 DEF Laid
  <2>3. CASE Len(diff) = at[e]
    <3>1. AtEOF(d, diff)
      BY <1>2, <2>3 DEF AtEOF
    <3>2. NextState(d, diff) = [d EXCEPT !.state = "END"]
      BY Zenon, <1>2, <1>3, <3>1 DEF NextState
    <3>3. "END" \in {"START", "NOCHANGE", "INSERT", "DELETE", "END"}
      OBVIOUS
    <3>4. Reader([d EXCEPT !.state = "END"], "END", in, out, left, 0, at[e], control)
      BY Zenon, <3>3, SetState
    <3> QED
      BY Zenon, <2>3, <3>2, <3>4
  <2>4. CASE Len(diff) = at[e] + 1 /\ diff[Len(diff)].k = "\\"
    <3>1. PICK a : a = d.pos + 1
      OBVIOUS
    <3>2. a = Len(diff) /\ a \in Int /\ ~AtEOF(d, diff) /\ d.pos + 1 = Len(diff)
      BY <1>2, <2>4, <3>1 DEF AtEOF
    <3>3. NextLineIs(d, diff, "\\")
      <4>1. diff[d.pos + 1].k = "\\"
        BY <2>4, <3>2
      <4> QED
        BY <3>2, <4>1 DEF NextLineIs
    <3>4. NextState(d, diff) = [d EXCEPT !.state = "END", !.pos = a]
      BY Zenon, <1>2, <1>3, <3>1, <3>2, <3>3 DEF NextState
    <3>5. "END" \in {"START", "NOCHANGE", "INSERT", "DELETE", "END"}
      OBVIOUS
    <3>6. Reader([d EXCEPT !.state = "END", !.pos = a], "END", in, out, left, 0, a, control)
      BY Zenon, <3>2, <3>5, SetStatePos
    <3> QED
      BY Zenon, <3>2, <3>4, <3>6
  <2> QED
    BY <2>2, <2>3, <2>4
<1>5. ASSUME NEW j \in (e + 1)..(Len(old) + 1), NextHunk(script, e, j)
      PROVE  \E x : /\ Reader(x, state, in, out, left, 0, at[j - 1] + 1, control)
                    /\ NextState(d, diff) = EnterHunk(x, diff[at[j - 1] + 1])
  <2>1. j - 1 \in e..(Len(old) + 1) /\ j - 1 \in 0..Len(old) /\ j = j - 1 + 1
    BY <1>1
  <2>2. NoHunk(script, e, j - 1) /\ HunkAt(script, j)
    BY Zenon, <1>5 DEF NextHunk, NoHunk
  <2>3. at[j - 1] = at[e]
    BY <1>1, <2>1, <2>2, SamePlace
  <2>4. PICK q, f, t, s : q = j - 1 /\ f = RunStart(script, j) /\ t = Len(script.ins[j]) /\ s = Sep(f, j, t)
    OBVIOUS
  <2>5. q \in 0..Len(old) /\ j = q + 1
    BY <2>1, <2>4
  <2>6. /\ f \in 1..j /\ t \in Nat /\ s \in {0, 1}
        /\ at[q] \in Nat /\ at[j] = at[q] + 1 + (j - f) + s + t /\ at[j] <= Len(diff)
        /\ LaidHunk(diff, at[q], f, j, Len(Patched(old, script)[q]), script.ins[j])
    <3>1. HunkThere(old, script, diff, at, q, j, f, t, s)
      BY Zenon, <2>2, <2>4, <2>5, HunkFacts
    <3> QED
      BY Zenon, <3>1 DEF HunkThere
  <2>7. diff[at[q] + 1].k = "hunk"
    BY Zenon, <2>6 DEF LaidHunk, Heads
  <2>8. at[q] = at[e] /\ at[e] < Len(diff)
    <3>1. at[q] = at[e]
      BY Zenon, <2>3, <2>4
    <3>2. PICK x, y, n : x = at[q] /\ y = at[j] /\ n = j - f
      OBVIOUS
    <3>3. n \in Nat /\ x \in Nat /\ y <= Len(diff)
      BY <2>6, <3>2
    <3>4. y = x + 1 + n + s + t
      BY Zenon, <2>6, <3>2
    <3>5. x < y /\ y \in Int
      BY <2>6, <3>3, <3>4
    <3>6. x < Len(diff)
      BY <1>1, <3>3, <3>5
    <3> QED
      BY Zenon, <3>1, <3>2, <3>6
  <2>9. PICK a : a = d.pos + 1
    OBVIOUS
  <2>10. a = at[q] + 1 /\ a \in Int /\ ~AtEOF(d, diff) /\ d.pos + 1 = a
    BY <1>1, <1>2, <2>8, <2>9 DEF AtEOF
  <2>11. NextLineIs(d, diff, "hunk") /\ ~NextLineIs(d, diff, "\\")
    <3>1. diff[d.pos + 1].k = "hunk"
      BY Zenon, <2>7, <2>10
    <3> QED
      BY <2>10, <3>1 DEF NextLineIs
  <2>12. NextState(d, diff) = EnterHunk([d EXCEPT !.pos = a], diff[a])
    BY Zenon, <1>2, <1>3, <2>9, <2>10, <2>11 DEF NextState
  <2>13. Reader([d EXCEPT !.pos = a], state, in, out, left, 0, a, control)
    BY Zenon, <2>10, SetPos
  <2>14. a = at[j - 1] + 1
    BY <2>4, <2>10
  <2> QED
    BY Zenon, <2>12, <2>13, <2>14
<1> QED
  BY <1>4, <1>5 DEF Fetches

\* The reader turns to the hunk before line j: x is the state in which it reads the
\* header.
Turning(ds, x, old, script, diff, at, q, j, state, out) ==
  /\ q \in 0..Len(old) /\ j \in (q + 1)..(Len(old) + 1) /\ HunkAt(script, j)
  /\ state # "END" /\ out \in Nat
  /\ \E in, left, change, pos, control :
       left = 0 /\ Reader(ds, state, in, out, left, change, pos, control)
  /\ Reader(x, state, q + 1, out, 0, 0, at[j - 1] + 1, <<>>)
  /\ NextState(Arrived(ds), diff) = EnterHunk(x, diff[at[j - 1] + 1])

LEMMA HunkTurned ==
  ASSUME NEW old, NEW script, NEW diff, NEW at, Context(old, script, diff, at),
         NEW ds, NEW x, NEW q, NEW j, NEW state, NEW out,
         Turning(ds, x, old, script, diff, at, q, j, state, out),
         NEW st, NEW left, NEW change,
         Reader(EnterHunk(x, diff[at[j - 1] + 1]), st, q + 1, out, left, change, at[j - 1] + 1, <<>>)
  PROVE  After(Process(ds, diff), diff, st, q + 1, out, left - 1, change, at[j - 1] + 1,
               Closing(state) \o Opening(st))
<1>1. PICK in, left0, change0, pos0, control0 :
        left0 = 0 /\ Reader(ds, state, in, out, left0, change0, pos0, control0)
  BY Zenon DEF Turning
<1>2. Reader(ds, state, in, out, 0, change0, pos0, control0) /\ state # "END"
  BY Zenon, <1>1 DEF Turning
<1>3. diff \in Seq(DiffLines)
  BY Zenon, ContextIs
<1>4. Reader(NextState(Arrived(ds), diff), st, q + 1, out, left, change, at[j - 1] + 1, <<>>)
  BY Zenon DEF Turning
<1> QED
  BY Zenon, <1>2, <1>3, <1>4, Turned

LEMMA HeaderRead ==
  ASSUME NEW old, NEW script, NEW diff, NEW at, Context(old, script, diff, at),
         NEW ds, NEW x, NEW q, NEW j, NEW state, NEW out,
         Turning(ds, x, old, script, diff, at, q, j, state, out),
         NEW k, k = j - 1, NEW f, f = RunStart(script, j), NEW t, t = Len(script.ins[j]),
         NEW s, s = Sep(f, j, t), q + 1 <= f, NEW h, h = diff[at[j - 1] + 1]
  PROVE  /\ HunkThere(old, script, diff, at, k, j, f, t, s)
         /\ q + 1 < f => Reader(EnterHunk(x, h), "NOCHANGE", q + 1, out, f - 1 - q, 0, at[j - 1] + 1, <<>>)
         /\ q + 1 = f /\ f = j /\ out = Len(Patched(old, script)[k]) =>
              Reader(EnterHunk(x, h), "INSERT", q + 1, out, t, 0, at[j - 1] + 1, <<>>)
         /\ q + 1 = f /\ f # j /\ out = Len(Patched(old, script)[k]) =>
              Reader(EnterHunk(x, h), "DELETE", q + 1, out, j - f, t, at[j - 1] + 1, <<>>)
<1>1. Len(old) \in Nat
  BY ContextIs
<1>2. /\ q \in 0..Len(old) /\ j \in (q + 1)..(Len(old) + 1) /\ HunkAt(script, j) /\ out \in Nat
      /\ Reader(x, state, q + 1, out, 0, 0, at[j - 1] + 1, <<>>)
  BY Zenon DEF Turning
<1>3. k \in 0..Len(old) /\ j = k + 1 /\ q \in Nat /\ j \in Nat
  BY <1>1, <1>2
<1>4. HunkThere(old, script, diff, at, k, j, f, t, s)
  BY Zenon, <1>2, <1>3, HunkFacts
<1>5. PICK right : right = Len(Patched(old, script)[k])
  OBVIOUS
<1>6. Heads(diff[at[k] + 1], f, j, right, t) /\ f \in 1..j /\ right \in Nat /\ t \in Nat
  BY Zenon, <1>4, <1>5 DEF HunkThere, LaidHunk
<1>7. Heads(h, f, j, right, t)
  BY <1>6
<1>8. /\ q + 1 < f => Reader(EnterHunk(x, h), "NOCHANGE", q + 1, out, f - 1 - q, 0, at[j - 1] + 1, <<>>)
      /\ q + 1 = f /\ f = j /\ right = out =>
           Reader(EnterHunk(x, h), "INSERT", q + 1, out, t, 0, at[j - 1] + 1, <<>>)
      /\ q + 1 = f /\ f # j /\ right = out =>
           Reader(EnterHunk(x, h), "DELETE", q + 1, out, j - f, t, at[j - 1] + 1, <<>>)
  BY Zenon, <1>2, <1>3, <1>6, <1>7, EnterHunkIs
<1> QED
  BY Zenon, <1>4, <1>5, <1>8

\* What the reader answers, with the brackets it prints.
Answered(p, ds, old, script, diff, at, q, c) ==
  /\ Answers(p, old, script, diff, at, q, c)
  /\ p \in ReaderStates /\ p.ok
  /\ p.control = IF p.state = ds.state THEN <<>> ELSE Closing(ds.state) \o Opening(p.state)

LEMMA TurnKept ==
  ASSUME NEW old, NEW script, NEW diff, NEW at, Context(old, script, diff, at),
         NEW ds, NEW x, NEW q, NEW j, NEW state, NEW out,
         Turning(ds, x, old, script, diff, at, q, j, state, out),
         q + 1 < RunStart(script, j), q + 1 \notin script.del, NEW c, c = Len(script.ins[q + 1]),
         out = Len(Patched(old, script)[q]) + c, NextHunk(script, q + 1, j), state # "NOCHANGE"
  PROVE  Answered(Process(ds, diff), ds, old, script, diff, at, q, c)
<1> DEFINE p == Process(ds, diff)
<1>1. PICK k, f, t, s, h : /\ k = j - 1 /\ f = RunStart(script, j) /\ t = Len(script.ins[j])
                        /\ s = Sep(f, j, t) /\ h = diff[at[j - 1] + 1]
  OBVIOUS
<1>2. /\ q \in 0..Len(old) /\ j \in (q + 1)..(Len(old) + 1) /\ out \in Nat
      /\ Len(old) \in Nat /\ ds.state = state
  <2>1. ds.state = state
    BY DEF Turning, Reader
  <2> QED
    BY Zenon, <2>1, ContextIs DEF Turning
<1>3. q + 1 < f /\ f \in 1..j
  <2>1. ScriptFor(script, Len(old)) /\ j \in 1..(Len(old) + 1)
    BY <1>2, ContextIs
  <2> QED
    BY <1>1, <1>2, <2>1, RunStartIs
<1>4. q + 1 <= f
  BY <1>2, <1>3
<1>5. Reader(EnterHunk(x, h), "NOCHANGE", q + 1, out, f - 1 - q, 0, at[j - 1] + 1, <<>>)
  BY Zenon, <1>1, <1>3, <1>4, HeaderRead
<1>6. Reader(EnterHunk(x, diff[at[j - 1] + 1]), "NOCHANGE", q + 1, out, f - 1 - q, 0, at[j - 1] + 1, <<>>)
  BY Zenon, <1>1, <1>5
<1>7. After(p, diff, "NOCHANGE", q + 1, out, f - 1 - q - 1, 0, at[j - 1] + 1,
            Closing(state) \o Opening("NOCHANGE"))
  BY Zenon, <1>6, HunkTurned
<1>8. "NOCHANGE" \notin {"DELETE", "INSERT"}
  OBVIOUS
<1>9. Reader(p, "NOCHANGE", q + 1, out + 1, f - 1 - q - 1, 0, at[j - 1] + 1,
             Closing(state) \o Opening("NOCHANGE"))
  BY Zenon, <1>7, <1>8 DEF After
<1> HIDE DEF p
<1>10. p.state = "NOCHANGE" /\ p \in ReaderStates /\ p.ok
       /\ p.control = Closing(state) \o Opening("NOCHANGE")
  BY Zenon, <1>9 DEF Reader
<1>11. Reader(p, "NOCHANGE", q + 1, Len(Patched(old, script)[q]) + c + 1,
              RunStart(script, j) - 1 - q - 1, 0, at[j - 1] + 1, p.control)
  BY Zenon, <1>1, <1>9, <1>10
<1>12. j \in (q + 2)..(Len(old) + 1)
  BY <1>2, <1>3
<1>13. Answers(p, old, script, diff, at, q, c)
  BY Zenon, <1>2, <1>11, <1>12, KeptHere
<1>14. p.state # ds.state
  BY Zenon, <1>2, <1>10
<1>15. p.control = IF p.state = ds.state THEN <<>> ELSE Closing(ds.state) \o Opening(p.state)
  BY Zenon, <1>2, <1>10, <1>14
<1> QED
  BY Zenon, <1>10, <1>13, <1>15 DEF Answered, p

LEMMA TurnAdded ==
  ASSUME NEW old, NEW script, NEW diff, NEW at, Context(old, script, diff, at),
         NEW ds, NEW x, NEW q, NEW j, NEW state, NEW out,
         Turning(ds, x, old, script, diff, at, q, j, state, out),
         q + 1 = RunStart(script, j), j = q + 1,
         out = Len(Patched(old, script)[q]), state # "INSERT"
  PROVE  Answered(Process(ds, diff), ds, old, script, diff, at, q, 0)
<1> DEFINE p == Process(ds, diff)
<1>1. PICK k, f, t, s, h : /\ k = j - 1 /\ f = RunStart(script, j) /\ t = Len(script.ins[j])
                        /\ s = Sep(f, j, t) /\ h = diff[at[j - 1] + 1]
  OBVIOUS
<1>2. /\ q \in 0..Len(old) /\ j \in (q + 1)..(Len(old) + 1) /\ out \in Nat /\ HunkAt(script, j)
      /\ Len(old) \in Nat /\ ds.state = state
  <2>1. ds.state = state
    BY DEF Turning, Reader
  <2> QED
    BY Zenon, <2>1, ContextIs DEF Turning
<1>3. q + 1 = f /\ f = j /\ q + 1 <= f /\ k = q /\ j - 1 = q
  BY <1>1, <1>2
<1>4. out = Len(Patched(old, script)[k])
  BY Zenon, <1>3
<1>5. /\ HunkThere(old, script, diff, at, k, j, f, t, s)
      /\ Reader(EnterHunk(x, h), "INSERT", q + 1, out, t, 0, at[j - 1] + 1, <<>>)
  <2>0. q + 1 <= f
    BY <1>3
  <2>1. /\ HunkThere(old, script, diff, at, k, j, f, t, s)
        /\ q + 1 = f /\ f = j /\ out = Len(Patched(old, script)[k]) =>
             Reader(EnterHunk(x, h), "INSERT", q + 1, out, t, 0, at[j - 1] + 1, <<>>)
    BY ZenonT(40), <1>1, <2>0, HeaderRead
  <2> QED
    BY Zenon, <1>3, <1>4, <2>1
<1>6. Reader(EnterHunk(x, diff[at[j - 1] + 1]), "INSERT", q + 1, out, t, 0, at[j - 1] + 1, <<>>)
  BY Zenon, <1>1, <1>5
<1>7. After(p, diff, "INSERT", q + 1, out, t - 1, 0, at[j - 1] + 1, Closing(state) \o Opening("INSERT"))
  BY Zenon, <1>6, HunkTurned
<1>8. HunkThere(old, script, diff, at, q, j, f, t, s)
  BY Zenon, <1>3, <1>5
<1>9. /\ at[q] \in Nat /\ t \in Nat /\ t > 0 /\ s \in {0, 1} /\ s = Sep(f, j, t)
      /\ at[j] = at[q] + 1 + (j - f) + s + t /\ at[j] <= Len(diff)
      /\ LaidHunk(diff, at[q], f, j, Len(Patched(old, script)[q]), script.ins[j])
      /\ t = Len(script.ins[j])
      /\ TextPlace(script, at, q, 0) = at[q] + 1 + (j - f) + s
  BY Zenon, <1>3, <1>8 DEF HunkThere
<1>10. s = 0 /\ j - f = 0 /\ Len(diff) \in Nat
  <2>1. Len(diff) \in Nat
    BY ContextIs
  <2> QED
    BY <1>2, <1>3, <1>9, <2>1 DEF Sep
<1>11. TextPlace(script, at, q, 0) = at[j - 1] + 1 /\ at[j - 1] = at[q]
  BY <1>3, <1>9, <1>10
<1>12. at[j - 1] + 1 < Len(diff)
  <2>1. PICK y, z : y = at[q] /\ z = at[j]
    OBVIOUS
  <2>2. z = y + 1 + 0 + 0 + t
    BY Zenon, <1>9, <1>10, <2>1
  <2> QED
    BY <1>9, <1>10, <1>11, <2>1, <2>2
<1>13. diff[at[j - 1] + 1 + 1].k = ">"
  <2>1. \A i \in 1..t : diff[at[q] + 1 + (j - f) + s + i].k = ">"
    BY Zenon, <1>9 DEF LaidHunk
  <2>2. diff[at[q] + 1 + (j - f) + s + 1].k = ">"
    BY <1>9, <2>1
  <2>3. at[q] + 1 + (j - f) + s + 1 = at[j - 1] + 1 + 1
    BY <1>9, <1>10, <1>11
  <2> QED
    BY Zenon, <2>2, <2>3
<1>14. Reader(p, "INSERT", q + 1, out + 1, t - 1, 0, at[j - 1] + 1 + 1, Closing(state) \o Opening("INSERT"))
  BY Zenon, <1>7, <1>12, <1>13 DEF After
<1> HIDE DEF p
<1>15. p.state = "INSERT" /\ p \in ReaderStates /\ p.ok
       /\ p.control = Closing(state) \o Opening("INSERT")
  BY Zenon, <1>14 DEF Reader
<1>16. Reader(p, "INSERT", q + 1, Len(Patched(old, script)[q]) + 0 + 1, Len(script.ins[q + 1]) - 0 - 1, 0,
              TextPlace(script, at, q, 0) + 1, p.control)
  <2>1. out + 1 = Len(Patched(old, script)[q]) + 0 + 1
    BY <1>2
  <2>2. t - 1 = Len(script.ins[q + 1]) - 0 - 1
    BY <1>9
  <2> QED
    BY Zenon, <1>11, <1>14, <1>15, <2>1, <2>2
<1>17. 0 \in Nat /\ 0 < Len(script.ins[q + 1]) /\ HunkAt(script, q + 1)
  BY <1>2, <1>9
<1>18. Answers(p, old, script, diff, at, q, 0)
  BY Zenon, <1>2, <1>16, <1>17, AddedHere
<1>19. p.state # ds.state
  BY Zenon, <1>2, <1>15
<1>20. p.control = IF p.state = ds.state THEN <<>> ELSE Closing(ds.state) \o Opening(p.state)
  BY Zenon, <1>2, <1>15, <1>19
<1> QED
  BY Zenon, <1>15, <1>18, <1>20 DEF Answered, p

LEMMA TurnDeleted ==
  ASSUME NEW old, NEW script, NEW diff, NEW at, Context(old, script, diff, at),
         NEW ds, NEW x, NEW q, NEW j, NEW state, NEW out,
         Turning(ds, x, old, script, diff, at, q, j, state, out),
         q + 1 = RunStart(script, j), q + 1 < j, NextHunk(script, q + 1, j),
         out = Len(Patched(old, script)[q]), state # "DELETE"
  PROVE  Answered(Process(ds, diff), ds, old, script, diff, at, q, 0)
<1> DEFINE p == Process(ds, diff)
<1>1. PICK k, f, t, s, h : /\ k = j - 1 /\ f = RunStart(script, j) /\ t = Len(script.ins[j])
                        /\ s = Sep(f, j, t) /\ h = diff[at[j - 1] + 1]
  OBVIOUS
<1>2. /\ q \in 0..Len(old) /\ j \in (q + 1)..(Len(old) + 1) /\ out \in Nat /\ HunkAt(script, j)
      /\ Len(old) \in Nat /\ ds.state = state
  <2>1. ds.state = state
    BY DEF Turning, Reader
  <2> QED
    BY Zenon, <2>1, ContextIs DEF Turning
<1>3. q + 1 = f /\ f # j /\ f \in 1..(j - 1) /\ j \in Nat /\ j \in 1..(Len(old) + 1)
  BY <1>1, <1>2
<1>4. q + 1 <= f
  BY <1>2, <1>3
<1>5. ScriptFor(script, Len(old)) /\ old \in LineTexts
  BY Zenon, ContextIs
<1>6. out = Len(Patched(old, script)[k]) /\ q + 1 \in script.del
  <2>1. \A i \in (RunStart(script, j) - 1)..(j - 1) :
           Patched(old, script)[i] = Patched(old, script)[RunStart(script, j) - 1]
    BY Zenon, <1>3, <1>5, RunAddsNothing
  <2>2. f - 1 = q /\ k \in (f - 1)..(j - 1)
    BY <1>1, <1>2, <1>3
  <2>3. Patched(old, script)[k] = Patched(old, script)[q]
    BY Zenon, <1>1, <2>1, <2>2
  <2>4. \A i \in RunStart(script, j)..(j - 1) : i \in script.del
    BY Zenon, <1>2, <1>3, <1>5, RunStartIs
  <2>5. f \in f..(j - 1)
    BY <1>3
  <2>6. f \in script.del
    BY Zenon, <1>1, <2>4, <2>5
  <2> QED
    BY Zenon, <1>3, <2>3, <2>6
<1>7. /\ HunkThere(old, script, diff, at, k, j, f, t, s)
      /\ Reader(EnterHunk(x, h), "DELETE", q + 1, out, j - f, t, at[j - 1] + 1, <<>>)
  <2>1. /\ HunkThere(old, script, diff, at, k, j, f, t, s)
        /\ q + 1 = f /\ f # j /\ out = Len(Patched(old, script)[k]) =>
             Reader(EnterHunk(x, h), "DELETE", q + 1, out, j - f, t, at[j - 1] + 1, <<>>)
    BY Zenon, <1>1, <1>4, HeaderRead
  <2> QED
    BY Zenon, <1>3, <1>6, <2>1
<1>8. Reader(EnterHunk(x, diff[at[j - 1] + 1]), "DELETE", q + 1, out, j - f, t, at[j - 1] + 1, <<>>)
  BY Zenon, <1>1, <1>7
<1>9. After(p, diff, "DELETE", q + 1, out, j - f - 1, t, at[j - 1] + 1, Closing(state) \o Opening("DELETE"))
  BY Zenon, <1>8, HunkTurned
<1>10. /\ at[k] \in Nat /\ t \in Nat /\ s \in {0, 1}
       /\ at[j] = at[k] + 1 + (j - f) + s + t /\ at[j] <= Len(diff)
       /\ \A i \in 1..(j - f) : diff[at[k] + 1 + i].k = "<"
  BY Zenon, <1>7 DEF HunkThere, LaidHunk
<1>11. Len(diff) \in Nat
  BY ContextIs
<1>12. PICK y, z : y = at[k] /\ z = at[j]
  OBVIOUS
<1>13. at[j - 1] = y /\ y \in Nat /\ z = y + 1 + (j - f) + s + t /\ z <= Len(diff)
  BY Zenon, <1>1, <1>10, <1>12
<1>14. y + 1 < Len(diff) /\ 1 \in 1..(j - f)
  BY SMTT(30), <1>3, <1>10, <1>11, <1>13
<1>15. diff[y + 1 + 1].k = "<"
  BY Zenon, <1>10, <1>12, <1>14
<1>16. After(p, diff, "DELETE", q + 1, out, j - f - 1, t, y + 1, Closing(state) \o Opening("DELETE"))
  BY Zenon, <1>9, <1>13
<1>17. Reader(p, "DELETE", q + 1, out, j - f - 1, t, y + 1 + 1, Closing(state) \o Opening("DELETE"))
  BY Zenon, <1>14, <1>15, <1>16 DEF After
<1> HIDE DEF p
<1>18. p.state = "DELETE" /\ p \in ReaderStates /\ p.ok
       /\ p.control = Closing(state) \o Opening("DELETE")
  BY Zenon, <1>17 DEF Reader
<1>19. Reader(p, "DELETE", q + 1, Len(Patched(old, script)[q]), j - 1 - q - 1, Len(script.ins[j]),
              at[j - 1] + 1 + (q + 1 - RunStart(script, j) + 1), p.control)
  <2>1. j - f - 1 = j - 1 - q - 1 /\ q + 1 - f + 1 = 1
    BY <1>2, <1>3
  <2> QED
    BY Zenon, <1>1, <1>13, <1>17, <1>18, <2>1
<1>20. j \in (q + 2)..(Len(old) + 1) /\ RunStart(script, j) <= q + 1
  BY <1>2, <1>3
<1>21. Answers(p, old, script, diff, at, q, 0)
  BY Zenon, <1>2, <1>6, <1>19, <1>20, DeletedHere
<1>22. p.state # ds.state
  BY Zenon, <1>2, <1>18
<1>23. p.control = IF p.state = ds.state THEN <<>> ELSE Closing(ds.state) \o Opening(p.state)
  BY Zenon, <1>2, <1>18, <1>22
<1> QED
  BY Zenon, <1>18, <1>21, <1>23 DEF Answered, p

\* The three together: the next hunk is at j, and what it does to line q + 1.
LEMMA TurnAny ==
  ASSUME NEW old, NEW script, NEW diff, NEW at, Context(old, script, diff, at),
         NEW ds, NEW x, NEW q, NEW j, NEW state, NEW out,
         Turning(ds, x, old, script, diff, at, q, j, state, out),
         NextHunk(script, q, j), q + 1 <= RunStart(script, j), state \in {"START", "NOCHANGE"},
         state = "NOCHANGE" => q + 1 = RunStart(script, j),
         out = Len(Patched(old, script)[q])
  PROVE  Answered(Process(ds, diff), ds, old, script, diff, at, q, 0)
<1>1. /\ q \in 0..Len(old) /\ j \in (q + 1)..(Len(old) + 1) /\ out \in Nat /\ HunkAt(script, j)
      /\ Len(old) \in Nat /\ ScriptFor(script, Len(old))
  BY Zenon, ContextIs DEF Turning
<1>2. PICK f : f = RunStart(script, j)
  OBVIOUS
<1>3. f \in 1..j
  BY <1>1, <1>2, RunStartIs
<1>4. q + 1 < f \/ (q + 1 = f /\ j = q + 1) \/ (q + 1 = f /\ q + 1 < j)
  BY <1>1, <1>2, <1>3
<1>5. q + 1 < j => NextHunk(script, q + 1, j)
  BY <1>1 DEF NextHunk
<1>6. CASE q + 1 < f
  <2>1. state # "NOCHANGE"
    BY <1>1, <1>2, <1>6
  <2>2. q + 1 \notin script.del /\ ~HunkAt(script, q + 1) /\ q + 1 < j
    BY <1>1, <1>2, <1>6, BeforeHunk
  <2>3. script.ins[q + 1] = <<>>
    BY Zenon, <2>2 DEF HunkAt
  <2>4. PICK c : c = Len(script.ins[q + 1])
    OBVIOUS
  <2>5. c = 0
    BY <2>3, <2>4
  <2>6. out = Len(Patched(old, script)[q]) + c
    BY <1>1, <2>5
  <2>7. Answered(Process(ds, diff), ds, old, script, diff, at, q, c)
    BY Zenon, <1>2, <1>5, <1>6, <2>1, <2>2, <2>4, <2>6, TurnKept
  <2> QED
    BY Zenon, <2>5, <2>7
<1>7. CASE q + 1 = f /\ j = q + 1
  <2>1. state # "INSERT" /\ q + 1 = RunStart(script, j) /\ j = q + 1
    BY Zenon, <1>2, <1>7
  <2> QED
    BY Zenon, <2>1, TurnAdded
<1>8. CASE q + 1 = f /\ q + 1 < j
  <2>1. state # "DELETE" /\ q + 1 = RunStart(script, j) /\ q + 1 < j /\ NextHunk(script, q + 1, j)
    BY Zenon, <1>2, <1>5, <1>8
  <2> QED
    BY Zenon, <2>1, TurnDeleted
<1> QED
  BY Zenon, <1>4, <1>6, <1>7, <1>8

\* The reader meets the end of the output.
LEMMA TurnEnd ==
  ASSUME NEW old, NEW script, NEW diff, NEW at, Context(old, script, diff, at),
         NEW ds, NEW state, NEW in, NEW out, NEW change, NEW pos, NEW control,
         Reader(ds, state, in, out, 0, change, pos, control), state # "END", out \in Nat,
         NEW q \in 0..Len(old), NEW left \in Int,
         Reader(NextState(Arrived(ds), diff), "END", q + 1, out, left, 0, Len(diff), <<>>),
         NEW c, c = Len(script.ins[q + 1]), q + 1 \notin script.del,
         NoHunk(script, q + 1, Len(old) + 1), out = Len(Patched(old, script)[q]) + c
  PROVE  Answered(Process(ds, diff), ds, old, script, diff, at, q, c)
<1> DEFINE p == Process(ds, diff)
<1>1. After(p, diff, "END", q + 1, out, left - 1, 0, Len(diff), Closing(state) \o Opening("END"))
  BY Zenon, ContextIs, Turned
<1>2. "END" \notin {"DELETE", "INSERT"}
  OBVIOUS
<1>3. Reader(p, "END", q + 1, out + 1, left - 1, 0, Len(diff), Closing(state) \o Opening("END"))
  BY Zenon, <1>1, <1>2 DEF After
<1> HIDE DEF p
<1>4. p.state = "END" /\ p \in ReaderStates /\ p.ok /\ p.control = Closing(state) \o Opening("END")
  BY Zenon, <1>3 DEF Reader
<1>5. ds.state = state
  BY Zenon DEF Reader
<1>6. Reader(p, "END", q + 1, Len(Patched(old, script)[q]) + c + 1, left - 1, 0, Len(diff), p.control)
  BY Zenon, <1>3, <1>4
<1>7. Answers(p, old, script, diff, at, q, c)
  BY Zenon, <1>6, EndHere
<1>8. p.state # ds.state
  BY Zenon, <1>4, <1>5
<1>9. p.control = IF p.state = ds.state THEN <<>> ELSE Closing(ds.state) \o Opening(p.state)
  BY Zenon, <1>4, <1>5, <1>8
<1> QED
  BY Zenon, <1>4, <1>7, <1>9 DEF Answered, p

\* A hunk is behind the reader.
LEMMA AfterHunk ==
  ASSUME NEW old, NEW script, NEW diff, NEW at, Context(old, script, diff, at),
         NEW ds, NEW state \in {"DELETE", "INSERT"}, NEW in, NEW out, NEW pos, NEW control,
         Reader(ds, state, in, out, 0, 0, pos, control), out \in Nat,
         NEW q \in 0..Len(old), HunkAt(script, q + 1), pos = at[q + 1],
         Reader(Arrived(ds), state, q + 1, out, 0, 0, pos, <<>>),
         NEW c, c = Len(script.ins[q + 1]), out = Len(Patched(old, script)[q]) + c
  PROVE  Answered(Process(ds, diff), ds, old, script, diff, at, q, c)
<1>1. /\ Len(old) \in Nat /\ ScriptFor(script, Len(old)) /\ diff \in Seq(DiffLines)
  BY Zenon, ContextIs
<1>2. PICK e : e = q + 1
  OBVIOUS
<1>3. /\ e \in 0..(Len(old) + 1) /\ q + 1 \in 0..(Len(old) + 1) /\ q \in Nat
      /\ (e + 1)..(Len(old) + 1) = (q + 2)..(Len(old) + 1)
  BY <1>1, <1>2
<1>4. state # "NOCHANGE" /\ state # "END"
  OBVIOUS
<1>5. Reader(Arrived(ds), state, q + 1, out, 0, 0, at[e], <<>>)
  BY Zenon, <1>2
<1>a. Fetches(Arrived(ds), old, script, diff, at, e, state, q + 1, out, 0, <<>>)
  BY Zenon, <1>3, <1>4, <1>5, Fetched
<1>6. /\ NoHunk(script, e, Len(old) + 1) =>
              Reader(NextState(Arrived(ds), diff), "END", q + 1, out, 0, 0, Len(diff), <<>>)
      /\ \A j \in (e + 1)..(Len(old) + 1) : NextHunk(script, e, j) =>
              \E x : /\ Reader(x, state, q + 1, out, 0, 0, at[j - 1] + 1, <<>>)
                     /\ NextState(Arrived(ds), diff) = EnterHunk(x, diff[at[j - 1] + 1])
  BY Zenon, <1>a DEF Fetches
<1>7. q + 1 \notin script.del
  BY Zenon DEF HunkAt
<1>8. CASE NoHunk(script, e, Len(old) + 1)
  <2>1. Reader(NextState(Arrived(ds), diff), "END", q + 1, out, 0, 0, Len(diff), <<>>)
    BY Zenon, <1>6, <1>8
  <2>2. NoHunk(script, q + 1, Len(old) + 1)
    BY Zenon, <1>2, <1>8
  <2>3. 0 \in Int
    OBVIOUS
  <2> QED
    BY Zenon, <1>4, <1>7, <2>1, <2>2, <2>3, TurnEnd
<1>9. CASE e \in 0..Len(old) /\ ~NoHunk(script, e, Len(old) + 1)
  <2>1. PICK j \in (e + 1)..(Len(old) + 1) : NextHunk(script, e, j)
    BY Zenon, <1>1, <1>9, NextOrNone
  <2>2. PICK x : /\ Reader(x, state, q + 1, out, 0, 0, at[j - 1] + 1, <<>>)
                 /\ NextState(Arrived(ds), diff) = EnterHunk(x, diff[at[j - 1] + 1])
    BY Zenon, <1>6, <2>1
  <2>3. j \in (q + 1)..(Len(old) + 1) /\ j \in (q + 2)..(Len(old) + 1)
    BY <1>1, <1>2, <2>1
  <2>4. HunkAt(script, j) /\ NextHunk(script, q + 1, j)
    BY Zenon, <1>2, <2>1 DEF NextHunk
  <2>5. Turning(ds, x, old, script, diff, at, q, j, state, out)
    BY Zenon, <1>4, <2>2, <2>3, <2>4 DEF Turning
  <2>6. q + 1 < RunStart(script, j)
    BY Zenon, <1>1, <1>7, <2>3, HunksApart
  <2> QED
    BY Zenon, <1>4, <1>7, <2>4, <2>5, <2>6, TurnKept
<1>10. e \in 0..Len(old) \/ NoHunk(script, e, Len(old) + 1)
  BY <1>1, <1>3 DEF NoHunk
<1> QED
  BY Zenon, <1>8, <1>9, <1>10

\* The first call.
LEMMA StepFirst ==
  ASSUME NEW old, NEW script, NEW diff, NEW at, Context(old, script, diff, at),
         NEW ds, NEW q, NEW c, Starting(ds, q, c)
  PROVE  Answered(Process(ds, diff), ds, old, script, diff, at, q, c)
<1>1. /\ Len(old) \in Nat /\ ScriptFor(script, Len(old)) /\ diff \in Seq(DiffLines)
      /\ at[0] = 0 /\ old \in LineTexts
  BY Zenon, ContextIs
<1>2. q = 0 /\ c = 0 /\ Reader(ds, "START", 0, 0, 0, 0, 0, ds.control)
  BY Zenon DEF Starting
<1>3. /\ q \in 0..Len(old) /\ 0 \in 0..(Len(old) + 1) /\ 0 \in 0..Len(old)
      /\ (0 + 1)..(Len(old) + 1) = (q + 1)..(Len(old) + 1)
  BY <1>1, <1>2
<1>4. Reader(Arrived(ds), "START", q + 1, 0, 0, 0, 0, <<>>)
  <2>1. Reader(Arrived(ds), "START", IF "START" # "INSERT" THEN 0 + 1 ELSE 0, 0, 0, 0, 0, <<>>)
    BY Zenon, <1>2, ArrivedIs
  <2>2. (IF "START" # "INSERT" THEN 0 + 1 ELSE 0) = q + 1
    BY <1>2
  <2> QED
    BY Zenon, <2>1, <2>2
<1>5. Len(Patched(old, script)[q]) = 0
  BY <1>1, <1>2, PatchedIs
<1>6. /\ NoHunk(script, 0, Len(old) + 1) =>
              Reader(NextState(Arrived(ds), diff), "END", q + 1, 0, 0, 0, Len(diff), <<>>)
      /\ \A j \in (0 + 1)..(Len(old) + 1) : NextHunk(script, 0, j) =>
              \E x : /\ Reader(x, "START", q + 1, 0, 0, 0, at[j - 1] + 1, <<>>)
                     /\ NextState(Arrived(ds), diff) = EnterHunk(x, diff[at[j - 1] + 1])
  <2>1. Fetches(Arrived(ds), old, script, diff, at, 0, "START", q + 1, 0, 0, <<>>)
    <3>1. Reader(Arrived(ds), "START", q + 1, 0, 0, 0, at[0], <<>>) /\ "START" # "NOCHANGE"
      BY Zenon, <1>1, <1>4
    <3> QED
      BY Zenon, <1>3, <3>1, Fetched
  <2> QED
    BY Zenon, <2>1 DEF Fetches
<1>7. CASE NoHunk(script, 0, Len(old) + 1)
  <2>1. Reader(NextState(Arrived(ds), diff), "END", q + 1, 0, 0, 0, Len(diff), <<>>)
    BY Zenon, <1>6, <1>7
  <2>2. NoHunk(script, q + 1, Len(old) + 1) /\ NoHunk(script, q, Len(old) + 1)
    BY <1>1, <1>2, <1>7 DEF NoHunk
  <2>3. q + 1 \notin script.del /\ script.ins[q + 1] = <<>>
    BY Zenon, <1>1, <1>3, <2>2, AfterHunks
  <2>4. c = Len(script.ins[q + 1]) /\ 0 \in Int /\ 0 \in Nat
    BY <1>2, <2>3
  <2>5. 0 = Len(Patched(old, script)[q]) + c
    BY <1>2, <1>5
  <2>6. "START" # "END"
    OBVIOUS
  <2> QED
    BY Zenon, <1>2, <1>3, <2>1, <2>2, <2>3, <2>4, <2>5, <2>6, TurnEnd
<1>8. CASE ~NoHunk(script, 0, Len(old) + 1)
  <2>1. PICK j \in (0 + 1)..(Len(old) + 1) : NextHunk(script, 0, j)
    BY Zenon, <1>1, <1>3, <1>8, NextOrNone
  <2>2. PICK x : /\ Reader(x, "START", q + 1, 0, 0, 0, at[j - 1] + 1, <<>>)
                 /\ NextState(Arrived(ds), diff) = EnterHunk(x, diff[at[j - 1] + 1])
    BY Zenon, <1>6, <2>1
  <2>3. j \in (q + 1)..(Len(old) + 1) /\ j \in 1..(Len(old) + 1)
    BY <1>1, <1>2, <2>1
  <2>4. HunkAt(script, j) /\ NextHunk(script, q, j)
    BY Zenon, <1>2, <2>1 DEF NextHunk
  <2>5. Turning(ds, x, old, script, diff, at, q, j, "START", 0)
    <3>1. "START" # "END" /\ 0 \in Nat
      OBVIOUS
    <3> QED
      BY Zenon, <1>2, <1>3, <2>2, <2>3, <2>4, <3>1 DEF Turning
  <2>6. q + 1 <= RunStart(script, j)
    BY <1>1, <1>2, <2>3, RunStartIs
  <2>7. "START" \in {"START", "NOCHANGE"} /\ "START" # "NOCHANGE"
    OBVIOUS
  <2>8. Answered(Process(ds, diff), ds, old, script, diff, at, q, 0)
    BY Zenon, <1>5, <2>4, <2>5, <2>6, <2>7, TurnAny
  <2> QED
    BY Zenon, <1>2, <2>8
<1> QED
  BY Zenon, <1>7, <1>8

\* The reader stays in its state and prints nothing.
LEMMA StaysPut ==
  ASSUME NEW old, NEW script, NEW diff, NEW at, NEW q, NEW c, NEW ds, NEW p, NEW state,
         ds.state = state, NEW in, NEW out, NEW left, NEW change, NEW pos,
         Reader(p, state, in, out, left, change, pos, <<>>),
         Answers(p, old, script, diff, at, q, c)
  PROVE  Answered(p, ds, old, script, diff, at, q, c)
<1>1. p.state = state /\ p \in ReaderStates /\ p.ok /\ p.control = <<>>
  BY Zenon DEF Reader
<1> QED
  BY Zenon, <1>1 DEF Answered

LEMMA StepEnd ==
  ASSUME NEW old, NEW script, NEW diff, NEW at, Context(old, script, diff, at),
         NEW q \in 0..Len(old), NEW ds, NEW c, Ending(ds, old, script, diff, q, c)
  PROVE  Answered(Process(ds, diff), ds, old, script, diff, at, q, c)
<1> DEFINE p == Process(ds, diff)
<1>1. /\ Len(old) \in Nat /\ ScriptFor(script, Len(old)) /\ diff \in Seq(DiffLines) /\ old \in LineTexts
  BY Zenon, ContextIs
<1>2. PICK left, out : left = ds.lines_left /\ out = Len(Patched(old, script)[q])
  OBVIOUS
<1>3. /\ c = 0 /\ NoHunk(script, q, Len(old) + 1)
      /\ Reader(ds, "END", q, out, left, 0, Len(diff), ds.control)
  BY Zenon, <1>2 DEF Ending
<1>4. Reader(p, "END", q + 1, out + 1, left, 0, Len(diff), <<>>)
  BY Zenon, <1>1, <1>3, Ended
<1> HIDE DEF p
<1>5. q + 1 \notin script.del /\ script.ins[q + 1] = <<>>
  BY Zenon, <1>1, <1>3, AfterHunks
<1>6. c = Len(script.ins[q + 1])
  BY <1>3, <1>5
<1>7. NoHunk(script, q + 1, Len(old) + 1)
  BY <1>1, <1>3 DEF NoHunk
<1>8. ds.state = "END" /\ p.control = <<>> /\ out \in Int
  <2>1. out \in Int
    BY Zenon, <1>3, ReaderTyped
  <2> QED
    BY Zenon, <1>3, <1>4, <2>1 DEF Reader
<1>9. out + 1 = out + c + 1
  BY <1>3, <1>8
<1>10. Reader(p, "END", q + 1, Len(Patched(old, script)[q]) + c + 1, left, 0, Len(diff), p.control)
  BY Zenon, <1>2, <1>4, <1>8, <1>9
<1>11. Answers(p, old, script, diff, at, q, c)
  BY Zenon, <1>5, <1>6, <1>7, <1>10, EndHere
<1>12. Answered(p, ds, old, script, diff, at, q, c)
  BY Zenon, <1>4, <1>8, <1>11, StaysPut
<1> QED
  BY Zenon, <1>12 DEF p

LEMMA StepKeep ==
  ASSUME NEW old, NEW script, NEW diff, NEW at, Context(old, script, diff, at),
         NEW q \in 0..Len(old), NEW ds, NEW c, Keeping(ds, old, script, at, q, c)
  PROVE  Answered(Process(ds, diff), ds, old, script, diff, at, q, c)
<1> DEFINE p == Process(ds, diff)
<1>1. /\ Len(old) \in Nat /\ ScriptFor(script, Len(old)) /\ diff \in Seq(DiffLines) /\ old \in LineTexts
  BY Zenon, ContextIs
<1>2. PICK j \in (q + 1)..(Len(old) + 1) :
       /\ NextHunk(script, q, j) /\ q < RunStart(script, j)
       /\ Reader(ds, "NOCHANGE", q, Len(Patched(old, script)[q]), RunStart(script, j) - 1 - q, 0,
                 at[j - 1] + 1, ds.control)
  BY Zenon DEF Keeping
<1>3. PICK f, out, left, pos :
        /\ f = RunStart(script, j) /\ out = Len(Patched(old, script)[q])
        /\ left = RunStart(script, j) - 1 - q /\ pos = at[j - 1] + 1
  OBVIOUS
<1>4. Reader(ds, "NOCHANGE", q, out, left, 0, pos, ds.control) /\ ds.state = "NOCHANGE"
  BY Zenon, <1>2, <1>3 DEF Reader
<1>5. f \in 1..j /\ c = 0 /\ q + 1 <= f /\ left = f - 1 - q /\ j \in 1..(Len(old) + 1)
  <2>1. c = 0
    BY Zenon DEF Keeping
  <2>2. j \in 1..(Len(old) + 1)
    BY <1>1
  <2> QED
    BY <1>1, <1>2, <1>3, <2>1, <2>2, RunStartIs
<1>6. out \in Nat
  BY <1>1, <1>3, PatchedLengths
<1>7. CASE q + 1 < f
  <2>1. left # 0 /\ "NOCHANGE" # "END"
    BY <1>5, <1>7
  <2>2. After(p, diff, "NOCHANGE", IF "NOCHANGE" # "INSERT" THEN q + 1 ELSE q, out, left - 1, 0, pos, <<>>)
    BY Zenon, <1>1, <1>4, <2>1, Continued
  <2>3. "NOCHANGE" \notin {"DELETE", "INSERT"} /\ "NOCHANGE" # "INSERT"
    OBVIOUS
  <2>4. Reader(p, "NOCHANGE", q + 1, out + 1, left - 1, 0, pos, <<>>)
    BY Zenon, <2>2, <2>3 DEF After
  <2> HIDE DEF p
  <2>5. q + 1 \notin script.del /\ ~HunkAt(script, q + 1) /\ q + 1 < j
    BY <1>1, <1>2, <1>3, <1>7, BeforeHunk
  <2>6. script.ins[q + 1] = <<>>
    BY Zenon, <2>5 DEF HunkAt
  <2>7. c = Len(script.ins[q + 1])
    BY <1>5, <2>6
  <2>8. j \in (q + 2)..(Len(old) + 1) /\ NextHunk(script, q + 1, j)
    BY <1>1, <1>2, <2>5 DEF NextHunk
  <2>9. p.control = <<>> /\ out + 1 = out + c + 1
    <3>1. p.control = <<>>
      BY Zenon, <2>4 DEF Reader
    <3> QED
      BY <1>5, <1>6, <3>1
  <2>10. Reader(p, "NOCHANGE", q + 1, Len(Patched(old, script)[q]) + c + 1,
                RunStart(script, j) - 1 - q - 1, 0, at[j - 1] + 1, p.control)
    BY Zenon, <1>3, <2>4, <2>9
  <2>11. Answers(p, old, script, diff, at, q, c)
    BY Zenon, <2>5, <2>7, <2>8, <2>10, KeptHere
  <2>12. Answered(p, ds, old, script, diff, at, q, c)
    BY Zenon, <1>4, <2>4, <2>11, StaysPut
  <2> QED
    BY Zenon, <2>12 DEF p
<1>8. CASE q + 1 = f
  <2>1. left = 0
    BY <1>5, <1>8
  <2>2. PICK x : x = Arrived(ds)
    OBVIOUS
  <2>3. Reader(x, "NOCHANGE", IF "NOCHANGE" # "INSERT" THEN q + 1 ELSE q, out, left, 0, pos, <<>>)
    BY Zenon, <1>4, <2>2, ArrivedIs
  <2>4. Reader(x, "NOCHANGE", q + 1, out, 0, 0, at[j - 1] + 1, <<>>)
    <3>1. "NOCHANGE" # "INSERT"
      OBVIOUS
    <3> QED
      BY Zenon, <1>3, <2>1, <2>3, <3>1
  <2>5. x.state = "NOCHANGE" /\ x.pos = at[j - 1] + 1
    BY Zenon, <2>4 DEF Reader
  <2>6. NextState(x, diff) = EnterHunk(x, diff[x.pos])
    <3>1. x.state # "DELETE"
      BY <2>5
    <3> QED
      BY Zenon, <2>5, <3>1 DEF NextState
  <2>7. "NOCHANGE" # "END" /\ HunkAt(script, j)
    BY <1>2 DEF NextHunk
  <2>8. Turning(ds, x, old, script, diff, at, q, j, "NOCHANGE", out)
    BY Zenon, <1>4, <1>6, <2>1, <2>2, <2>4, <2>5, <2>6, <2>7 DEF Turning
  <2>9. "NOCHANGE" \in {"START", "NOCHANGE"} /\ q + 1 = RunStart(script, j) /\ q + 1 <= RunStart(script, j)
    BY <1>3, <1>5, <1>8
  <2>10. Answered(p, ds, old, script, diff, at, q, 0)
    BY Zenon, <1>2, <1>3, <2>8, <2>9, TurnAny
  <2> QED
    BY Zenon, <1>5, <2>10 DEF p
<1> QED
  <2>1. q + 1 < f \/ q + 1 = f
    BY <1>5
  <2> QED
    BY Zenon, <2>1, <1>7, <1>8

LEMMA TextPlaceIs ==
  ASSUME NEW script, NEW at, NEW q, NEW f, f = RunStart(script, q + 1),
         NEW t, t = Len(script.ins[q + 1]), NEW s, s = Sep(f, q + 1, t), NEW b, b = at[q], NEW c
  PROVE  TextPlace(script, at, q, c) = b + 1 + (q + 1 - f) + s + c
BY Zenon DEF TextPlace

LEMMA StepAdd ==
  ASSUME NEW old, NEW script, NEW diff, NEW at, Context(old, script, diff, at),
         NEW q \in 0..Len(old), NEW ds, NEW c, Adding(ds, old, script, at, q, c)
  PROVE  Answered(Process(ds, diff), ds, old, script, diff, at, q, c)
<1> DEFINE p == Process(ds, diff)
<1>1. /\ Len(old) \in Nat /\ ScriptFor(script, Len(old)) /\ diff \in Seq(DiffLines) /\ old \in LineTexts
      /\ Len(diff) \in Nat
  BY Zenon, ContextIs
<1>2. PICK j, f, t, s, out, left, pos, b :
        /\ j = q + 1 /\ f = RunStart(script, j) /\ t = Len(script.ins[j]) /\ s = Sep(f, j, t)
        /\ out = Len(Patched(old, script)[q]) + c /\ left = Len(script.ins[q + 1]) - c
        /\ pos = TextPlace(script, at, q, c) /\ b = at[q]
  OBVIOUS
<1>3. /\ HunkAt(script, q + 1) /\ c \in 1..Len(script.ins[q + 1])
      /\ Reader(ds, "INSERT", q + 1, out, left, 0, pos, ds.control)
  BY Zenon, <1>2 DEF Adding
<1>4. HunkThere(old, script, diff, at, q, j, f, t, s)
  BY Zenon, <1>2, <1>3, HunkFacts
<1>5. /\ f \in 1..j /\ j \in 1..(Len(old) + 1) /\ t \in Nat /\ s \in {0, 1}
      /\ b \in Nat /\ at[j] = b + 1 + (j - f) + s + t /\ at[j] <= Len(diff)
      /\ LaidHunk(diff, b, f, j, Len(Patched(old, script)[q]), script.ins[j])
      /\ Len(Patched(old, script)[q]) \in Nat /\ TextPlace(script, at, q, t) = at[j]
  BY Zenon, <1>2, <1>4 DEF HunkThere
<1>6. pos = b + 1 + (j - f) + s + c /\ c \in 1..t /\ left = t - c /\ out \in Nat
  <2>1. pos = b + 1 + (j - f) + s + c
    <3>1. f = RunStart(script, q + 1) /\ t = Len(script.ins[q + 1]) /\ s = Sep(f, q + 1, t)
      BY Zenon, <1>2
    <3>2. TextPlace(script, at, q, c) = b + 1 + (q + 1 - f) + s + c
      <4>1. b = at[q]
        BY Zenon, <1>2
      <4> QED
        BY <3>1, <4>1 DEF TextPlace
    <3>3. PICK w : w = q + 1 - f
      OBVIOUS
    <3>4. w = j - f
      <4>1. j = q + 1 /\ w = q + 1 - f
        BY Zenon, <1>2, <3>3
      <4>2. q \in Int /\ f \in Int
        BY <1>1, <1>5
      <4> QED
        BY <4>1, <4>2
    <3> QED
      BY Zenon, <1>2, <3>2, <3>3, <3>4
  <2>2. c \in 1..t
    BY Zenon, <1>2, <1>3
  <2>3. left = t - c
    BY Zenon, <1>2
  <2>4. out \in Nat
    <3>1. PICK n : n = Len(Patched(old, script)[q])
      OBVIOUS
    <3>2. out = n + c /\ n \in Nat
      BY Zenon, <1>2, <1>5, <3>1
    <3> QED
      BY <1>5, <2>2, <3>2
  <2> QED
    BY Zenon, <2>1, <2>2, <2>3, <2>4
<1>7. ds.state = "INSERT"
  BY Zenon, <1>3 DEF Reader
<1>8. CASE c < t
  <2>1. left # 0 /\ "INSERT" # "END" /\ ~("INSERT" # "INSERT")
    BY <1>5, <1>6, <1>8
  <2>2. After(p, diff, "INSERT", IF "INSERT" # "INSERT" THEN q + 1 + 1 ELSE q + 1, out, left - 1, 0, pos, <<>>)
    BY Zenon, <1>1, <1>3, <2>1, Continued
  <2>3. After(p, diff, "INSERT", q + 1, out, left - 1, 0, pos, <<>>)
    BY Zenon, <2>1, <2>2
  <2>4. PICK z : z = at[j]
    OBVIOUS
  <2>5. z = b + 1 + (j - f) + s + t /\ z <= Len(diff)
    BY Zenon, <1>5, <2>4
  <2>6. pos < Len(diff) /\ c + 1 \in 1..t /\ pos + 1 = b + 1 + (j - f) + s + (c + 1)
    BY <1>1, <1>5, <1>6, <1>8, <2>5
  <2>7. diff[b + 1 + (j - f) + s + (c + 1)].k = ">"
    <3>1. c + 1 \in 1..Len(script.ins[j])
      BY Zenon, <1>2, <2>6
    <3>2. diff[b + 1 + (j - f) + Sep(f, j, Len(script.ins[j])) + (c + 1)].k = ">"
      BY Zenon, <1>5, <3>1 DEF LaidHunk
    <3> QED
      BY Zenon, <1>2, <3>2
  <2>8. diff[pos + 1].k = ">"
    BY Zenon, <2>6, <2>7
  <2>9. Reader(p, "INSERT", q + 1, out + 1, left - 1, 0, pos + 1, <<>>)
    BY Zenon, <2>3, <2>6, <2>8 DEF After
  <2> HIDE DEF p
  <2>10. p.control = <<>>
    BY Zenon, <2>9 DEF Reader
  <2>11. Reader(p, "INSERT", q + 1, Len(Patched(old, script)[q]) + c + 1,
                Len(script.ins[q + 1]) - c - 1, 0, TextPlace(script, at, q, c) + 1, p.control)
    BY Zenon, <1>2, <2>9, <2>10
  <2>12. c \in Nat /\ c < Len(script.ins[q + 1])
    <3>1. c \in Nat
      BY <1>6
    <3> QED
      BY Zenon, <1>2, <1>8, <3>1
  <2>13. Answers(p, old, script, diff, at, q, c)
    BY Zenon, <1>3, <2>11, <2>12, AddedHere
  <2>14. Answered(p, ds, old, script, diff, at, q, c)
    BY Zenon, <1>7, <2>9, <2>13, StaysPut
  <2> QED
    BY Zenon, <2>14 DEF p
<1>9. CASE c = t
  <2>1. left = 0 /\ "INSERT" \in {"DELETE", "INSERT"} /\ ~("INSERT" # "INSERT")
    BY <1>5, <1>6, <1>9
  <2>2. pos = at[q + 1] /\ c = Len(script.ins[q + 1]) /\ out = Len(Patched(old, script)[q]) + c
    BY Zenon, <1>2, <1>5, <1>9
  <2>3. Reader(ds, "INSERT", q + 1, out, 0, 0, pos, ds.control)
    BY Zenon, <1>3, <2>1
  <2>4. Reader(Arrived(ds), "INSERT", IF "INSERT" # "INSERT" THEN q + 1 + 1 ELSE q + 1, out, 0, 0, pos, <<>>)
    BY Zenon, <2>3, ArrivedIs
  <2>5. Reader(Arrived(ds), "INSERT", q + 1, out, 0, 0, pos, <<>>)
    BY Zenon, <2>1, <2>4
  <2> QED
    BY Zenon, <1>3, <1>6, <2>1, <2>2, <2>3, <2>5, AfterHunk
<1> QED
  <2>1. c < t \/ c = t
    BY <1>5, <1>6
  <2> QED
    BY Zenon, <2>1, <1>8, <1>9

\* The insertions of a hunk follow its deletions.
Changing(ds, old, script, at, q, j, f, out, t, pos) ==
  /\ j = q + 1 /\ HunkAt(script, j) /\ f = RunStart(script, j) /\ f # j
  /\ out = Len(Patched(old, script)[q]) /\ t = Len(script.ins[j]) /\ t # 0
  /\ pos = at[q] + 1 + (j - f) /\ Reader(ds, "DELETE", q, out, 0, t, pos, ds.control)

LEMMA TurnChanged ==
  ASSUME NEW old, NEW script, NEW diff, NEW at, Context(old, script, diff, at),
         NEW ds, NEW q \in 0..Len(old), NEW j, NEW f, NEW out, NEW t, NEW pos,
         Changing(ds, old, script, at, q, j, f, out, t, pos)
  PROVE  Answered(Process(ds, diff), ds, old, script, diff, at, q, 0)
<1> DEFINE p == Process(ds, diff)
<1>1. /\ Len(old) \in Nat /\ ScriptFor(script, Len(old)) /\ diff \in Seq(DiffLines) /\ old \in LineTexts
      /\ Len(diff) \in Nat
  BY Zenon, ContextIs
<1>0. /\ j = q + 1 /\ HunkAt(script, j) /\ f = RunStart(script, j) /\ f # j
      /\ out = Len(Patched(old, script)[q]) /\ t = Len(script.ins[j]) /\ t # 0
      /\ pos = at[q] + 1 + (j - f) /\ Reader(ds, "DELETE", q, out, 0, t, pos, ds.control)
  BY Zenon DEF Changing
<1>2. PICK s, b, x, z : s = Sep(f, j, t) /\ b = at[q] /\ x = Arrived(ds) /\ z = at[j]
  OBVIOUS
<1>3. HunkThere(old, script, diff, at, q, j, f, t, s)
  BY Zenon, <1>0, <1>2, HunkFacts
<1>4. /\ f \in 1..j /\ j \in 1..(Len(old) + 1) /\ t \in Nat
      /\ b \in Nat /\ z = b + 1 + (j - f) + s + t /\ z <= Len(diff)
      /\ LaidHunk(diff, b, f, j, Len(Patched(old, script)[q]), script.ins[j])
      /\ out \in Nat /\ TextPlace(script, at, q, 0) = b + 1 + (j - f) + s
  BY Zenon, <1>0, <1>2, <1>3 DEF HunkThere
<1>5. s = 1 /\ Sep(f, j, Len(script.ins[j])) = 1
  BY Zenon, <1>0, <1>2 DEF Sep
<1>6. pos = b + 1 + (j - f) /\ t # 0 /\ f # j
  BY Zenon, <1>0, <1>2
<1>a. /\ f \in 1..j /\ j \in 1..(Len(old) + 1) /\ t \in Nat
      /\ b \in Nat /\ z = b + 1 + (j - f) + s + t /\ z <= Len(diff) /\ out \in Nat
      /\ TextPlace(script, at, q, 0) = b + 1 + (j - f) + s
  BY Zenon, <1>4
<1>7. /\ pos \in Int /\ pos < Len(diff) /\ pos + 1 < Len(diff) /\ pos + 1 = b + 2 + (j - f)
      /\ pos + 1 + 1 = b + 1 + (j - f) + 1 + 1 /\ pos + 1 \in Int /\ 1 \in 1..t
      /\ TextPlace(script, at, q, 0) = pos + 1
  BY <1>1, <1>5, <1>6, <1>a
<1>8. diff[pos + 1].k = "---" /\ diff[pos + 1 + 1].k = ">"
  <2>1. diff[b + 2 + (j - f)].k = "---"
    BY Zenon, <1>4, <1>5 DEF LaidHunk
  <2>2. 1 \in 1..Len(script.ins[j])
    BY Zenon, <1>0, <1>7
  <2>3. diff[b + 1 + (j - f) + Sep(f, j, Len(script.ins[j])) + 1].k = ">"
    BY Zenon, <1>4, <2>2 DEF LaidHunk
  <2> QED
    BY Zenon, <1>5, <1>7, <2>1, <2>3
<1>9. Reader(x, "DELETE", q + 1, out, 0, t, pos, <<>>)
  <2>1. Reader(x, "DELETE", IF "DELETE" # "INSERT" THEN q + 1 ELSE q, out, 0, t, pos, <<>>)
    BY Zenon, <1>0, <1>2, ArrivedIs
  <2>2. "DELETE" # "INSERT"
    OBVIOUS
  <2> QED
    BY Zenon, <2>1, <2>2
<1>10. x.state = "DELETE" /\ x.change_left = t /\ x.pos = pos
  BY Zenon, <1>9 DEF Reader
<1>11. NextLineIs(x, diff, "---")
  <2>1. ~AtEOF(x, diff)
    BY <1>1, <1>7, <1>10 DEF AtEOF
  <2>2. diff[x.pos + 1].k = "---"
    BY Zenon, <1>8, <1>10
  <2> QED
    BY Zenon, <2>1, <2>2 DEF NextLineIs
<1>12. NextState(x, diff) = [x EXCEPT !.state = "INSERT", !.lines_left = t, !.change_left = 0, !.pos = pos + 1]
  BY Zenon, <1>6, <1>10, <1>11 DEF NextState
<1>13. Reader(NextState(x, diff), "INSERT", q + 1, out, t, 0, pos + 1, <<>>)
  <2>1. "INSERT" \in {"START", "NOCHANGE", "INSERT", "DELETE", "END"} /\ t \in Int /\ 0 \in Int
    BY <1>a
  <2>2. Reader([x EXCEPT !.state = "INSERT", !.lines_left = t, !.change_left = 0, !.pos = pos + 1],
               "INSERT", q + 1, out, t, 0, pos + 1, <<>>)
    BY Zenon, <1>7, <1>9, <2>1, SetInsert
  <2> QED
    BY Zenon, <1>12, <2>2
<1>14. After(p, diff, "INSERT", q + 1, out, t - 1, 0, pos + 1, Closing("DELETE") \o Opening("INSERT"))
  <2>1. "DELETE" # "END" /\ Reader(NextState(Arrived(ds), diff), "INSERT", q + 1, out, t, 0, pos + 1, <<>>)
    BY Zenon, <1>2, <1>13
  <2> QED
    BY Zenon, <1>0, <1>1, <2>1, Turned
<1>15. Reader(p, "INSERT", q + 1, out + 1, t - 1, 0, pos + 1 + 1, Closing("DELETE") \o Opening("INSERT"))
  BY Zenon, <1>7, <1>8, <1>14 DEF After
<1> HIDE DEF p
<1>16. p.state = "INSERT" /\ p \in ReaderStates /\ p.ok /\ p.control = Closing("DELETE") \o Opening("INSERT")
       /\ ds.state = "DELETE"
  BY Zenon, <1>0, <1>15 DEF Reader
<1>17. out + 1 = out + 0 + 1 /\ t - 1 = t - 0 - 1 /\ 0 \in Nat /\ 0 < t
  BY <1>6, <1>a
<1>18. Reader(p, "INSERT", q + 1, Len(Patched(old, script)[q]) + 0 + 1, Len(script.ins[q + 1]) - 0 - 1, 0,
              TextPlace(script, at, q, 0) + 1, p.control)
  <2>1. out = Len(Patched(old, script)[q]) /\ t = Len(script.ins[q + 1])
    BY Zenon, <1>0
  <2> QED
    BY Zenon, <1>7, <1>15, <1>16, <1>17, <2>1
<1>19. 0 < Len(script.ins[q + 1]) /\ HunkAt(script, q + 1)
  BY Zenon, <1>0, <1>17
<1>20. Answers(p, old, script, diff, at, q, 0)
  BY Zenon, <1>17, <1>18, <1>19, AddedHere
<1>21. p.state # ds.state
  BY Zenon, <1>16
<1>22. p.control = IF p.state = ds.state THEN <<>> ELSE Closing(ds.state) \o Opening(p.state)
  BY Zenon, <1>16, <1>21
<1> QED
  BY Zenon, <1>16, <1>20, <1>22 DEF Answered, p

LEMMA StepDelete ==
  ASSUME NEW old, NEW script, NEW diff, NEW at, Context(old, script, diff, at),
         NEW q \in 0..Len(old), NEW ds, NEW c, Deleting(ds, old, script, at, q, c)
  PROVE  Answered(Process(ds, diff), ds, old, script, diff, at, q, c)
<1> DEFINE p == Process(ds, diff)
<1>1. /\ Len(old) \in Nat /\ ScriptFor(script, Len(old)) /\ diff \in Seq(DiffLines) /\ old \in LineTexts
      /\ Len(diff) \in Nat
  BY Zenon, ContextIs
<1>2. PICK j \in (q + 1)..(Len(old) + 1) :
       /\ NextHunk(script, q, j) /\ RunStart(script, j) <= q
       /\ Reader(ds, "DELETE", q, Len(Patched(old, script)[q]), j - 1 - q, Len(script.ins[j]),
                 at[j - 1] + 1 + (q - RunStart(script, j) + 1), ds.control)
  BY Zenon DEF Deleting
<1>3. PICK k, f, t, s, out, left, pos, b, z :
        /\ k = j - 1 /\ f = RunStart(script, j) /\ t = Len(script.ins[j]) /\ s = Sep(f, j, t)
        /\ out = Len(Patched(old, script)[q]) /\ left = j - 1 - q
        /\ pos = at[j - 1] + 1 + (q - RunStart(script, j) + 1) /\ b = at[k] /\ z = at[j]
  OBVIOUS
<1>4. Reader(ds, "DELETE", q, out, left, t, pos, ds.control) /\ ds.state = "DELETE" /\ HunkAt(script, j)
  BY Zenon, <1>2, <1>3 DEF Reader, NextHunk
<1>5. /\ f \in 1..j /\ c = 0 /\ f <= q /\ left = j - 1 - q /\ j \in 1..(Len(old) + 1) /\ q \in Nat
      /\ k \in 0..Len(old) /\ j = k + 1 /\ k = j - 1
  <2>1. c = 0
    BY Zenon DEF Deleting
  <2>2. j \in 1..(Len(old) + 1)
    BY <1>1
  <2>3. f <= q
    BY Zenon, <1>2, <1>3
  <2> QED
    BY <1>1, <1>3, <2>1, <2>2, <2>3, RunStartIs
<1>6. out \in Nat
  BY <1>1, <1>3, PatchedLengths
<1>7. HunkThere(old, script, diff, at, k, j, f, t, s)
  BY Zenon, <1>3, <1>4, <1>5, HunkFacts
<1>8. /\ t \in Nat /\ s \in {0, 1} /\ b \in Nat /\ z = b + 1 + (j - f) + s + t /\ z <= Len(diff)
      /\ \A i \in f..k : i \in script.del
      /\ LaidHunk(diff, b, f, j, Len(Patched(old, script)[k]), script.ins[j])
  BY Zenon, <1>3, <1>7 DEF HunkThere
<1>9. pos = b + 1 + (q - f + 1)
  BY Zenon, <1>3
<1>a. /\ b \in Nat /\ z = b + 1 + (j - f) + s + t /\ z <= Len(diff) /\ s \in {0, 1} /\ t \in Nat
      /\ pos = b + 1 + (q - f + 1)
  BY Zenon, <1>8, <1>9
<1>10. CASE q + 1 < j
  <2>1. left # 0 /\ "DELETE" # "END" /\ "DELETE" # "INSERT"
    BY <1>5, <1>10
  <2>2. After(p, diff, "DELETE", IF "DELETE" # "INSERT" THEN q + 1 ELSE q, out, left - 1, t, pos, <<>>)
    BY Zenon, <1>1, <1>4, <2>1, Continued
  <2>3. After(p, diff, "DELETE", q + 1, out, left - 1, t, pos, <<>>)
    BY Zenon, <2>1, <2>2
  <2>4. /\ pos < Len(diff) /\ q - f + 2 \in 1..(j - f) /\ pos + 1 = b + 1 + (q - f + 2)
        /\ q + 1 \in f..k
    <3>1. /\ pos \in Int /\ pos + 1 = b + 1 + (q - f + 2) /\ q - f + 2 \in 1..(j - f)
          /\ q + 1 \in f..k
      BY <1>5, <1>a, <1>10
    <3>2. pos < z /\ z \in Int
      BY <1>5, <1>a, <1>10
    <3>3. pos < Len(diff)
      BY <1>1, <1>a, <3>1, <3>2
    <3> QED
      BY Zenon, <3>1, <3>3
  <2>5. diff[b + 1 + (q - f + 2)].k = "<"
    BY Zenon, <1>8, <2>4 DEF LaidHunk
  <2>6. diff[pos + 1].k = "<" /\ q + 1 \in script.del
    BY Zenon, <1>8, <2>4, <2>5
  <2>7. Reader(p, "DELETE", q + 1, out, left - 1, t, pos + 1, <<>>)
    BY Zenon, <2>3, <2>4, <2>6 DEF After
  <2> HIDE DEF p
  <2>8. p.control = <<>>
    BY Zenon, <2>7 DEF Reader
  <2>9. pos + 1 = b + 1 + (q + 1 - f + 1) /\ left - 1 = j - 1 - q - 1
    BY <1>5, <1>a
  <2>10. Reader(p, "DELETE", q + 1, Len(Patched(old, script)[q]), j - 1 - q - 1, Len(script.ins[j]),
                at[j - 1] + 1 + (q + 1 - RunStart(script, j) + 1), p.control)
    BY Zenon, <1>3, <2>7, <2>8, <2>9
  <2>11. j \in (q + 2)..(Len(old) + 1) /\ NextHunk(script, q + 1, j)
    BY <1>1, <1>2, <1>5, <1>10 DEF NextHunk
  <2>12. RunStart(script, j) <= q + 1
    <3>1. f <= q + 1
      BY <1>5
    <3> QED
      BY Zenon, <1>3, <3>1
  <2>13. Answers(p, old, script, diff, at, q, 0)
    BY Zenon, <2>6, <2>10, <2>11, <2>12, DeletedHere
  <2>14. Answered(p, ds, old, script, diff, at, q, 0)
    BY Zenon, <1>4, <2>7, <2>13, StaysPut
  <2> QED
    BY Zenon, <1>5, <2>14 DEF p
<1>11. CASE q + 1 = j
  <2>1. left = 0 /\ k = q /\ j = q + 1 /\ q + 1 = j /\ q - f + 1 = j - f /\ f # j
    BY <1>5, <1>11
  <2>2. b = at[q] /\ pos = b + 1 + (j - f)
    BY Zenon, <1>3, <1>9, <2>1
  <2>3. Reader(ds, "DELETE", q, out, 0, t, pos, ds.control)
    BY Zenon, <1>4, <2>1
  <2>4. CASE t # 0
    <3>1. Changing(ds, old, script, at, q, j, f, out, t, pos)
      BY Zenon, <1>3, <1>4, <2>1, <2>2, <2>3, <2>4 DEF Changing
    <3>2. Answered(p, ds, old, script, diff, at, q, 0)
      BY Zenon, <3>1, TurnChanged
    <3> QED
      BY Zenon, <1>5, <3>2
  <2>5. CASE t = 0
    <3>1. s = 0
      BY Zenon, <1>3, <2>5 DEF Sep
    <3>2. pos = z /\ 0 = t /\ "DELETE" \in {"DELETE", "INSERT"} /\ "DELETE" # "INSERT"
      BY <1>5, <1>8, <2>2, <2>5, <3>1
    <3>3. pos = at[q + 1] /\ 0 = Len(script.ins[q + 1]) /\ HunkAt(script, q + 1)
      BY Zenon, <1>3, <1>4, <2>1, <3>2
    <3>4. Reader(ds, "DELETE", q, out, 0, 0, pos, ds.control)
      BY Zenon, <2>3, <2>5
    <3>5. Reader(Arrived(ds), "DELETE", IF "DELETE" # "INSERT" THEN q + 1 ELSE q, out, 0, 0, pos, <<>>)
      BY Zenon, <3>4, ArrivedIs
    <3>6. Reader(Arrived(ds), "DELETE", q + 1, out, 0, 0, pos, <<>>)
      BY Zenon, <3>2, <3>5
    <3>7. out = out + 0
      BY <1>6
    <3>8. out = Len(Patched(old, script)[q]) + 0
      BY Zenon, <1>3, <3>7
    <3>9. Answered(p, ds, old, script, diff, at, q, 0)
      BY Zenon, <1>6, <3>2, <3>3, <3>4, <3>6, <3>8, AfterHunk
    <3> QED
      BY Zenon, <1>5, <3>9
  <2> QED
    BY Zenon, <2>4, <2>5
<1> QED
  <2>1. q + 1 < j \/ q + 1 = j
    BY <1>5
  <2> QED
    BY Zenon, <2>1, <1>10, <1>11

\* Wherever the reader is in the output of diff, it answers for the next line of the
\* new body as the edit script says.
LEMMA ReaderSteps ==
  ASSUME NEW old, NEW script, NEW diff, NEW at, Context(old, script, diff, at),
         NEW ds, NEW q, NEW c, ReaderAt(ds, old, script, diff, at, q, c)
  PROVE  Answered(Process(ds, diff), ds, old, script, diff, at, q, c)
<1>1. q \in 0..Len(old)
  BY Zenon DEF ReaderAt
<1>2. CASE Starting(ds, q, c)
  BY Zenon, <1>2, StepFirst
<1>3. CASE Keeping(ds, old, script, at, q, c)
  BY Zenon, <1>1, <1>3, StepKeep
<1>4. CASE Deleting(ds, old, script, at, q, c)
  BY Zenon, <1>1, <1>4, StepDelete
<1>5. CASE Adding(ds, old, script, at, q, c)
  BY Zenon, <1>1, <1>5, StepAdd
<1>6. CASE Ending(ds, old, script, diff, q, c)
  BY Zenon, <1>1, <1>6, StepEnd
<1> QED
  BY Zenon, <1>2, <1>3, <1>4, <1>5, <1>6 DEF ReaderAt

LEMMA ReaderStarts ==
  ASSUME NEW old, NEW script, NEW diff, NEW at, Context(old, script, diff, at)
  PROVE  ReaderAt(NewDiffState, old, script, diff, at, 0, 0)
<1>1. NewDiffState \in ReaderStates
  BY DEF NewDiffState, ReaderStates
<1>2. Starting(NewDiffState, 0, 0)
  BY <1>1 DEF NewDiffState, Starting, Reader
<1>3. 0 \in 0..Len(old)
  BY ContextIs
<1> QED
  BY Zenon, <1>2, <1>3 DEF ReaderAt

=============================================================================
