---------------------------- MODULE WeaveProofs ----------------------------
(***************************************************************************)
(* What holds of the weave, for every use of a history file, every bound   *)
(* and every edit.  The invariant IInv says that the body is a weave of    *)
(* the current deltas: its brackets nest by age, each is closed, and one   *)
(* stands within the insertion of another delta only if its own delta      *)
(* depends on that one.  Of a check-in in progress it says that            *)
(*   - seq_state has open the brackets that are open at this place;        *)
(*   - diff_state is at the place of the edit script that the scanner has  *)
(*     reached;                                                            *)
(*   - what has been written gives every old version as before, and what   *)
(*     has been made of the new one to whoever includes the new delta.     *)
(*                                                                         *)
(* The sections follow the data: bodies and versions, what get reads, what *)
(* rmdel leaves, the delta table, the new body, the scanner's steps, the   *)
(* end of a check-in, and the steps of the file.  What diff prints, and    *)
(* what diff_state makes of it, is in OperatorProofs.                      *)
(***************************************************************************)
EXTENDS Weave, OperatorProofs

-----------------------------------------------------------------------------
LEMMA Constants == MaxDeltas \in Nat /\ MaxDeltas >= 1 /\ MaxHunkText \in Nat
BY WeaveAssumption

-----------------------------------------------------------------------------
(* A body, seen as a weave.  The brackets that are open after its first i  *)
(* lines depend on no version.                                             *)

Line == [k : {"text"}, text : Nat \X Nat] \cup [k : {"I", "D", "E"}, seq : 1..MaxDeltas]

\* Delta n has opened a bracket and not closed it.
Opened(lines, i, letter, n) ==
  \E a \in 1..i :
    /\ lines[a].k = letter /\ lines[a].seq = n
    /\ \A b \in (a + 1)..i : ~(lines[b].k = "E" /\ lines[b].seq = n)

OpenI(lines, i) == {n \in 1..MaxDeltas : Opened(lines, i, "I", n)}
OpenD(lines, i) == {n \in 1..MaxDeltas : Opened(lines, i, "D", n)}

LEMMA LineIs ==
  ASSUME NEW x \in Line
  PROVE  \/ x.k = "text" /\ x.text \in Nat \X Nat /\ ~IsControl(x) /\ x.text[1] \in Nat
         \/ x.k \in {"I", "D", "E"} /\ x.seq \in 1..MaxDeltas /\ IsControl(x)
BY DEF Line, IsControl

LEMMA NothingOpen ==
  ASSUME NEW lines
  PROVE  OpenI(lines, 0) = {} /\ OpenD(lines, 0) = {}
BY DEF OpenI, OpenD, Opened

LEMMA OpenedStep ==
  ASSUME NEW lines \in Seq(Line), NEW i \in 1..Len(lines), NEW n \in 1..MaxDeltas,
         NEW letter \in {"I", "D"}
  PROVE  Opened(lines, i, letter, n) <=>
           \/ lines[i].k = letter /\ lines[i].seq = n
           \/ Opened(lines, i - 1, letter, n) /\ ~(lines[i].k = "E" /\ lines[i].seq = n)
<1>1. CASE Opened(lines, i - 1, letter, n) /\ ~(lines[i].k = "E" /\ lines[i].seq = n)
  <2>1. PICK a \in 1..(i - 1) : /\ lines[a].k = letter /\ lines[a].seq = n
                                /\ \A b \in (a + 1)..(i - 1) : ~(lines[b].k = "E" /\ lines[b].seq = n)
    BY <1>1 DEF Opened
  <2>2. a \in 1..i /\ \A b \in (a + 1)..i : b = i \/ b \in (a + 1)..(i - 1)
    OBVIOUS
  <2>3. Opened(lines, i, letter, n)
    BY <2>1, <2>2, <1>1 DEF Opened
  <2> QED
    BY <2>3, <1>1
<1>2. CASE lines[i].k = letter /\ lines[i].seq = n
  <2>1. i \in 1..i /\ \A b \in (i + 1)..i : FALSE
    OBVIOUS
  <2> QED
    BY <1>2, <2>1 DEF Opened
<1>3. CASE Opened(lines, i, letter, n) /\ ~(lines[i].k = letter /\ lines[i].seq = n)
  <2>1. PICK a \in 1..i : /\ lines[a].k = letter /\ lines[a].seq = n
                          /\ \A b \in (a + 1)..i : ~(lines[b].k = "E" /\ lines[b].seq = n)
    BY <1>3 DEF Opened
  <2>2. a # i
    BY <2>1, <1>3
  <2>3. a \in 1..(i - 1) /\ i \in (a + 1)..i /\ \A b \in (a + 1)..(i - 1) : b \in (a + 1)..i
    BY <2>2
  <2>4. Opened(lines, i - 1, letter, n)
    BY <2>1, <2>3 DEF Opened
  <2>5. ~(lines[i].k = "E" /\ lines[i].seq = n)
    BY <2>1, <2>3
  <2> QED
    BY <1>3, <2>4, <2>5
<1> QED
  BY <1>1, <1>2, <1>3

\* What a line does to the open brackets.
LEMMA OpenStep ==
  ASSUME NEW lines \in Seq(Line), NEW i \in 1..Len(lines)
  PROVE  /\ OpenI(lines, i) = CASE lines[i].k = "I" -> OpenI(lines, i - 1) \cup {lines[i].seq}
                                [] lines[i].k = "E" -> OpenI(lines, i - 1) \ {lines[i].seq}
                                [] OTHER -> OpenI(lines, i - 1)
         /\ OpenD(lines, i) = CASE lines[i].k = "D" -> OpenD(lines, i - 1) \cup {lines[i].seq}
                                [] lines[i].k = "E" -> OpenD(lines, i - 1) \ {lines[i].seq}
                                [] OTHER -> OpenD(lines, i - 1)
<1>1. lines[i] \in Line
  OBVIOUS
<1>2. lines[i].k = "text" \/ (lines[i].k \in {"I", "D", "E"} /\ lines[i].seq \in 1..MaxDeltas)
  BY <1>1, LineIs
<1>3. \A n \in 1..MaxDeltas : Opened(lines, i, "I", n) <=>
           \/ lines[i].k = "I" /\ lines[i].seq = n
           \/ Opened(lines, i - 1, "I", n) /\ ~(lines[i].k = "E" /\ lines[i].seq = n)
  BY OpenedStep
<1>4. \A n \in 1..MaxDeltas : Opened(lines, i, "D", n) <=>
           \/ lines[i].k = "D" /\ lines[i].seq = n
           \/ Opened(lines, i - 1, "D", n) /\ ~(lines[i].k = "E" /\ lines[i].seq = n)
  BY OpenedStep
<1>5. CASE lines[i].k = "text"
  BY <1>5, <1>3, <1>4 DEF OpenI, OpenD
<1>6. CASE lines[i].k = "I"
  BY <1>6, <1>2, <1>3, <1>4 DEF OpenI, OpenD
<1>7. CASE lines[i].k = "D"
  BY <1>7, <1>2, <1>3, <1>4 DEF OpenI, OpenD
<1>8. CASE lines[i].k = "E"
  BY <1>8, <1>2, <1>3, <1>4 DEF OpenI, OpenD
<1> QED
  BY <1>2, <1>5, <1>6, <1>7, <1>8

\* Only the lines that have been read matter.
LEMMA OpenPrefix ==
  ASSUME NEW a, NEW b, NEW i \in Nat, \A j \in 1..i : a[j] = b[j]
  PROVE  OpenI(a, i) = OpenI(b, i) /\ OpenD(a, i) = OpenD(b, i)
<1>1. ASSUME NEW letter, NEW n PROVE Opened(a, i, letter, n) <=> Opened(b, i, letter, n)
  <2>1. \A x \in 1..i : \A y \in (x + 1)..i : y \in 1..i
    OBVIOUS
  <2> QED
    BY <2>1 DEF Opened
<1> QED
  BY <1>1 DEF OpenI, OpenD


-----------------------------------------------------------------------------
(* The text of a version.                                                  *)

\* Text line i belongs to the version made of the deltas U: its inserter does, and
\* no younger delta of U deletes it.
Belongs(lines, i, U) ==
  /\ lines[i].k = "text"
  /\ lines[i].text[1] \in U
  /\ \A d \in OpenD(lines, i - 1) \cap U : d <= lines[i].text[1]

Emit(lines, U, i, out) == IF Belongs(lines, i, U) THEN Append(out, lines[i].text) ELSE out

Outputs(lines, U) ==
  LET out[i \in 0..Len(lines)] == IF i = 0 THEN <<>> ELSE Emit(lines, U, i, out[i - 1])
  IN  out

\* The version, after each line.
LEMMA OutputsAre ==
  ASSUME NEW lines \in Seq(Line), NEW U
  PROVE  /\ Outputs(lines, U) \in [0..Len(lines) -> LineTexts]
         /\ Outputs(lines, U)[0] = <<>>
         /\ \A i \in 1..Len(lines) : Outputs(lines, U)[i] = Emit(lines, U, i, Outputs(lines, U)[i - 1])
<1> DEFINE n == Len(lines)
           T == LineTexts
           base == <<>>
           step == [i \in 1..n |-> [x \in T |-> Emit(lines, U, i, x)]]
           F == Outputs(lines, U)
           Body0(f) == [i \in 0..n |-> IF i = 0 THEN base ELSE Emit(lines, U, i, f[i - 1])]
<1>1. n \in Nat /\ base \in T
  BY DEF LineTexts
<1>2. ASSUME NEW i \in 1..n, NEW x \in T PROVE Emit(lines, U, i, x) \in T
  <2>1. lines[i] \in Line
    OBVIOUS
  <2>2. lines[i].k = "text" => lines[i].text \in Nat \X Nat
    BY <2>1 DEF Line
  <2> QED
    BY <2>2 DEF Emit, Belongs, LineTexts
<1>3. step \in [1..n -> [T -> T]]
  BY <1>2
<1>4. \A i \in 1..n : \A x \in T : step[i][x] = Emit(lines, U, i, x)
  OBVIOUS
<1>5. F = CHOOSE f : f = Body0(f)
  BY Zenon DEF Outputs
<1> HIDE DEF step, F, base, n, T
<1>6. PICK f : Upward(f, n, T, base, step)
  BY <1>1, <1>3, UpwardRecursion
<1>7. f \in [0..n -> T] /\ f[0] = base /\ \A i \in 1..n : f[i] = step[i][f[i - 1]]
  BY <1>6 DEF Upward
<1>8. f = Body0(f)
  <2>1. ASSUME NEW i \in 0..n
        PROVE  f[i] = IF i = 0 THEN base ELSE Emit(lines, U, i, f[i - 1])
    <3>1. CASE i = 0
      BY <1>7, <3>1
    <3>2. CASE i # 0
      <4>1. i \in 1..n /\ i - 1 \in 0..n
        BY <1>1, <3>2
      <4>2. f[i - 1] \in T
        BY <1>7, <4>1
      <4>3. f[i] = step[i][f[i - 1]]
        BY <1>7, <4>1
      <4>4. step[i][f[i - 1]] = Emit(lines, U, i, f[i - 1])
        BY <1>4, <4>1, <4>2
      <4> QED
        BY <4>3, <4>4, <3>2
    <3> QED
      BY <3>1, <3>2
  <2>2. f = [i \in 0..n |-> f[i]]
    BY <1>7
  <2> QED
    BY <2>1, <2>2
<1>9. F = Body0(F)
  BY Zenon, <1>5, <1>8
<1>10. \A i \in 0..n : F[i] = IF i = 0 THEN base ELSE Emit(lines, U, i, F[i - 1])
  BY Zenon, <1>9
<1>11. DOMAIN F = 0..n /\ F = [i \in 0..n |-> F[i]]
  BY Zenon, <1>9
<1>12. 0 \in 0..n /\ \A i \in 1..n : i \in 0..n /\ i # 0
  BY <1>1
<1>13. F[0] = base /\ \A i \in 1..n : F[i] = Emit(lines, U, i, F[i - 1])
  BY Zenon, <1>10, <1>12
<1>14. F \in [0..n -> T]
  <2> DEFINE S == {i \in 0..n : F[i] \in T}
  <2>1. 0 \in S
    BY <1>1, <1>12, <1>13
  <2>2. ASSUME NEW i \in 1..n, i - 1 \in S PROVE i \in S
    BY <2>2, <1>2, <1>12, <1>13
  <2> HIDE DEF S
  <2>3. \A i \in 0..n : i \in S
    BY <1>1, <2>1, <2>2, UpwardInduction
  <2>4. \A i \in 0..n : F[i] \in T
    BY <2>3 DEF S
  <2> QED
    BY <1>11, <2>4
<1> QED
  BY <1>13, <1>14 DEF F, n, T, base

\* The version of a text depends on what has been read.
LEMMA OutputsPrefix ==
  ASSUME NEW a \in Seq(Line), NEW b \in Seq(Line), NEW U, NEW n \in Nat,
         n <= Len(a), n <= Len(b), \A j \in 1..n : a[j] = b[j]
  PROVE  Outputs(a, U)[n] = Outputs(b, U)[n]
<1> DEFINE S == {i \in 0..n : Outputs(a, U)[i] = Outputs(b, U)[i]}
<1>1. 0 \in S
  BY OutputsAre
<1>2. ASSUME NEW i \in 1..n, i - 1 \in S PROVE i \in S
  <2>1. i - 1 \in Nat /\ \A j \in 1..(i - 1) : a[j] = b[j]
    OBVIOUS
  <2>2. OpenD(a, i - 1) = OpenD(b, i - 1)
    BY <2>1, OpenPrefix
  <2>3. a[i] = b[i] /\ i \in 1..Len(a) /\ i \in 1..Len(b)
    OBVIOUS
  <2>4. Belongs(a, i, U) <=> Belongs(b, i, U)
    BY <2>2, <2>3 DEF Belongs
  <2>5. Outputs(a, U)[i] = Emit(a, U, i, Outputs(a, U)[i - 1])
    BY <2>3, OutputsAre
  <2>6. Outputs(b, U)[i] = Emit(b, U, i, Outputs(b, U)[i - 1])
    BY <2>3, OutputsAre
  <2>7. Outputs(a, U)[i - 1] = Outputs(b, U)[i - 1]
    BY <1>2
  <2>8. Outputs(a, U)[i] = Outputs(b, U)[i]
    BY <2>3, <2>4, <2>5, <2>6, <2>7 DEF Emit
  <2> QED
    BY <2>8
<1> HIDE DEF S
<1>3. \A i \in 0..n : i \in S
  BY <1>1, <1>2, UpwardInduction
<1> QED
  BY <1>3 DEF S

\* The version that the whole of a body gives.
Version(lines, U) == Outputs(lines, U)[Len(lines)]

LEMMA VersionAppend ==
  ASSUME NEW lines \in Seq(Line), NEW x \in Line, NEW U
  PROVE  /\ Version(lines, U) \in LineTexts
         /\ Version(Append(lines, x), U) =
              IF x.k = "text" /\ x.text[1] \in U
                 /\ \A d \in OpenD(lines, Len(lines)) \cap U : d <= x.text[1]
              THEN Append(Version(lines, U), x.text) ELSE Version(lines, U)
<1> DEFINE n == Len(lines)
           new == Append(lines, x)
<1>1. /\ new \in Seq(Line) /\ Len(new) = n + 1 /\ n \in Nat
      /\ \A i \in 1..n : new[i] = lines[i]
      /\ new[n + 1] = x
  BY Appending
<1> HIDE DEF new, n
<1>2. n <= Len(new) /\ n + 1 \in 1..Len(new) /\ (n + 1) - 1 = n
  BY <1>1
<1>3. Outputs(new, U)[n] = Outputs(lines, U)[n]
  BY <1>1, <1>2, OutputsPrefix DEF n
<1>4. Outputs(new, U)[n + 1] = Emit(new, U, n + 1, Outputs(new, U)[(n + 1) - 1])
  BY <1>1, <1>2, OutputsAre
<1>5. Outputs(new, U)[n + 1] = Emit(new, U, n + 1, Outputs(lines, U)[n])
  BY <1>2, <1>3, <1>4
<1>6. OpenD(new, n) = OpenD(lines, n)
  BY <1>1, OpenPrefix
<1>7. Belongs(new, n + 1, U) <=>
        x.k = "text" /\ x.text[1] \in U /\ \A d \in OpenD(lines, n) \cap U : d <= x.text[1]
  BY <1>1, <1>2, <1>6 DEF Belongs
<1>8. Outputs(lines, U)[n] \in LineTexts
  <2>1. Outputs(lines, U) \in [0..n -> LineTexts]
    BY OutputsAre DEF n
  <2>2. n \in 0..n
    BY <1>1
  <2> QED
    BY <2>1, <2>2
<1>9. Version(new, U) = Outputs(new, U)[n + 1] /\ Version(lines, U) = Outputs(lines, U)[n]
  BY <1>1 DEF Version, n
<1> QED
  BY <1>1, <1>5, <1>7, <1>8, <1>9 DEF new, n, Emit

\* A version is read in order: what the first lines give is its beginning.
LEMMA OutputsGrow ==
  ASSUME NEW lines \in Seq(Line), NEW U, NEW i \in 0..Len(lines), NEW j \in i..Len(lines)
  PROVE  /\ Outputs(lines, U)[i] \in LineTexts /\ Outputs(lines, U)[j] \in LineTexts
         /\ Len(Outputs(lines, U)[i]) <= Len(Outputs(lines, U)[j])
         /\ \A k \in 1..Len(Outputs(lines, U)[i]) : Outputs(lines, U)[j][k] = Outputs(lines, U)[i][k]
<1> DEFINE n == Len(lines)
           F == Outputs(lines, U)
           S == {d \in 0..(n - i) : /\ Len(F[i]) <= Len(F[i + d])
                                    /\ \A k \in 1..Len(F[i]) : F[i + d][k] = F[i][k]}
<1>1. n \in Nat /\ F \in [0..n -> LineTexts] /\ \A k \in 1..n : F[k] = Emit(lines, U, k, F[k - 1])
  BY OutputsAre
<1>2. F[i] \in LineTexts /\ Len(F[i]) \in Nat
  BY <1>1 DEF LineTexts
<1>3. 0 \in S
  <2>1. i + 0 = i /\ 0 \in 0..(n - i)
    BY <1>1
  <2> HIDE DEF F
  <2> QED
    BY <2>1, <1>2
<1>4. ASSUME NEW d \in 1..(n - i), d - 1 \in S PROVE d \in S
  <2> HIDE DEF F
  <2>1. i + d \in 1..n /\ (i + d) - 1 \in 0..n /\ i + (d - 1) = (i + d) - 1 /\ d \in 0..(n - i)
    BY <1>1
  <2>2. /\ Len(F[i]) <= Len(F[(i + d) - 1])
        /\ \A k \in 1..Len(F[i]) : F[(i + d) - 1][k] = F[i][k]
    BY <1>4, <2>1
  <2> DEFINE old == F[(i + d) - 1]
  <2>3. F[i + d] = Emit(lines, U, i + d, old)
    BY <1>1, <2>1
  <2>4. old \in LineTexts
    BY <1>1, <2>1
  <2>5. F[i + d] = old \/ (F[i + d] = Append(old, lines[i + d].text) /\ lines[i + d].text \in Nat \X Nat)
    <3>1. lines[i + d] \in Line
      BY <2>1 DEF n
    <3>2. lines[i + d].k = "text" => lines[i + d].text \in Nat \X Nat
      BY <3>1 DEF Line
    <3>3. Belongs(lines, i + d, U) => lines[i + d].text \in Nat \X Nat
      BY <3>2 DEF Belongs
    <3>4. F[i + d] = IF Belongs(lines, i + d, U) THEN Append(old, lines[i + d].text) ELSE old
      BY Zenon, <2>3 DEF Emit
    <3> HIDE DEF old
    <3> QED
      BY Zenon, <3>3, <3>4
  <2>9. old = F[(i + d) - 1]
    OBVIOUS
  <2>11. F[i + d] \in LineTexts
    BY <1>1, <2>1
  <2> HIDE DEF old
  <2>6. Len(F[i + d]) >= Len(old) /\ \A k \in 1..Len(old) : F[i + d][k] = old[k]
    <3>1. CASE F[i + d] = old
      BY <2>4, <3>1 DEF LineTexts
    <3>2. CASE F[i + d] = Append(old, lines[i + d].text) /\ lines[i + d].text \in Nat \X Nat
      <4>1. Len(old) \in Nat
        BY <2>4 DEF LineTexts
      <4> QED
        BY <2>4, <3>2, <4>1, Appending DEF LineTexts
    <3> QED
      BY <2>5, <3>1, <3>2
  <2>8. Len(old) \in Nat /\ Len(F[i + d]) \in Nat
    BY <2>4, <2>11 DEF LineTexts
  <2>10. Len(F[i]) <= Len(old) /\ \A k \in 1..Len(F[i]) : old[k] = F[i][k]
    BY <2>2, <2>9
  <2>7. Len(F[i]) <= Len(F[i + d]) /\ \A k \in 1..Len(F[i]) : F[i + d][k] = F[i][k]
    <3>1. \A k \in 1..Len(F[i]) : k \in 1..Len(old)
      BY <2>8, <2>10, <1>2
    <3> QED
      BY <2>6, <2>8, <2>10, <1>2, <3>1
  <2> QED
    BY <2>1, <2>7
<1>5. n - i \in Nat /\ j - i \in 0..(n - i) /\ i + (j - i) = j
  BY <1>1
<1> HIDE DEF S, F, n
<1>6. \A d \in 0..(n - i) : d \in S
  BY <1>3, <1>4, <1>5, UpwardInduction
<1>7. j - i \in S
  BY <1>5, <1>6
<1>8. Len(F[i]) <= Len(F[j]) /\ \A k \in 1..Len(F[i]) : F[j][k] = F[i][k]
  BY <1>5, <1>7 DEF S
<1>9. F[j] \in LineTexts
  BY <1>1 DEF n
<1> QED
  BY <1>2, <1>8, <1>9 DEF F

-----------------------------------------------------------------------------
(* What get reads.                                                         *)

SeqStates ==
  [last : Nat, included : SUBSET Nat, excluded : SUBSET Nat, ignored : SUBSET Nat,
   explicit : SUBSET Nat, inserts : SUBSET Nat, deletes : SUBSET Nat]

WithOpen(ss, I, D) == [ss EXCEPT !.inserts = I, !.deletes = D]

LEMMA WithOpenIs ==
  ASSUME NEW ss \in SeqStates, NEW I \in SUBSET Nat, NEW D \in SUBSET Nat
  PROVE  /\ WithOpen(ss, I, D) \in SeqStates
         /\ WithOpen(ss, I, D).inserts = I /\ WithOpen(ss, I, D).deletes = D
         /\ WithOpen(ss, I, D).included = ss.included
         /\ WithOpen(ss, I, D).ignored = ss.ignored
         /\ WithOpen(ss, I, D).last = ss.last
BY DEF SeqStates, WithOpen

LEMMA Following ==
  ASSUME NEW ss \in SeqStates, NEW n \in Nat
  PROVE  /\ Start(ss, n, "I") = WithOpen(ss, ss.inserts \cup {n}, ss.deletes)
         /\ Start(ss, n, "D") = WithOpen(ss, ss.inserts, ss.deletes \cup {n})
         /\ End(ss, n) = WithOpen(ss, ss.inserts \ {n}, ss.deletes \ {n})
BY DEF SeqStates, WithOpen, Start, End

\* A line is where it may be: a line of text among the lines its delta inserted, with
\* no younger insertion around it; a bracket opened once, an insertion within older
\* ones; and closed when it is open.
Fits(lines, i) ==
  /\ lines[i].k = "text" => /\ lines[i].text[1] \in OpenI(lines, i - 1)
                            /\ \A n \in OpenI(lines, i - 1) : n <= lines[i].text[1]
  /\ lines[i].k \in {"I", "D"} => lines[i].seq \notin OpenI(lines, i - 1) \cup OpenD(lines, i - 1)
  /\ lines[i].k = "I" => \A n \in OpenI(lines, i - 1) : n < lines[i].seq
  /\ lines[i].k = "E" => lines[i].seq \in OpenI(lines, i - 1) \cup OpenD(lines, i - 1)

Woven(lines) == \A i \in 1..Len(lines) : Fits(lines, i)

\* The deltas whose brackets the body has.
Owners(lines) == {lines[i].seq : i \in {j \in 1..Len(lines) : IsControl(lines[j])}}

LEMMA WovenAppend ==
  ASSUME NEW lines \in Seq(Line), NEW x \in Line, Woven(lines),
         x.k = "text" => /\ x.text[1] \in OpenI(lines, Len(lines))
                         /\ \A n \in OpenI(lines, Len(lines)) : n <= x.text[1],
         x.k \in {"I", "D"} => x.seq \notin OpenI(lines, Len(lines)) \cup OpenD(lines, Len(lines)),
         x.k = "I" => \A n \in OpenI(lines, Len(lines)) : n < x.seq,
         x.k = "E" => x.seq \in OpenI(lines, Len(lines)) \cup OpenD(lines, Len(lines))
  PROVE  Woven(Append(lines, x))
<1> DEFINE n == Len(lines)
           new == Append(lines, x)
<1>1. /\ new \in Seq(Line) /\ Len(new) = n + 1 /\ n \in Nat
      /\ \A i \in 1..n : new[i] = lines[i]
      /\ new[n + 1] = x
  BY Appending
<1> HIDE DEF new
<1>2. ASSUME NEW i \in 1..(n + 1)
      PROVE  OpenI(new, i - 1) = OpenI(lines, i - 1) /\ OpenD(new, i - 1) = OpenD(lines, i - 1)
  <2>1. i - 1 \in Nat /\ \A j \in 1..(i - 1) : new[j] = lines[j]
    BY <1>1
  <2> QED
    BY <2>1, OpenPrefix
<1>3. ASSUME NEW i \in 1..n PROVE Fits(new, i)
  <2>1. Fits(lines, i)
    BY DEF Woven
  <2>2. new[i] = lines[i] /\ OpenI(new, i - 1) = OpenI(lines, i - 1) /\ OpenD(new, i - 1) = OpenD(lines, i - 1)
    BY <1>1, <1>2
  <2> QED
    BY <2>1, <2>2 DEF Fits
<1>4. Fits(new, n + 1)
  <2>1. n + 1 \in 1..(n + 1) /\ (n + 1) - 1 = n
    BY <1>1
  <2>2. new[n + 1] = x /\ OpenI(new, (n + 1) - 1) = OpenI(lines, n) /\ OpenD(new, (n + 1) - 1) = OpenD(lines, n)
    BY <1>1, <1>2, <2>1
  <2> QED
    BY <2>2 DEF Fits
<1> QED
  BY <1>1, <1>3, <1>4 DEF Woven, new

\* The brackets after one more line.
LEMMA OpenAppend ==
  ASSUME NEW lines \in Seq(Line), NEW x \in Line
  PROVE  /\ Append(lines, x) \in Seq(Line) /\ Len(Append(lines, x)) = Len(lines) + 1
         /\ \A i \in 0..Len(lines) : /\ OpenI(Append(lines, x), i) = OpenI(lines, i)
                                     /\ OpenD(Append(lines, x), i) = OpenD(lines, i)
         /\ OpenI(Append(lines, x), Len(lines) + 1) =
              CASE x.k = "I" -> OpenI(lines, Len(lines)) \cup {x.seq}
                [] x.k = "E" -> OpenI(lines, Len(lines)) \ {x.seq}
                [] OTHER -> OpenI(lines, Len(lines))
         /\ OpenD(Append(lines, x), Len(lines) + 1) =
              CASE x.k = "D" -> OpenD(lines, Len(lines)) \cup {x.seq}
                [] x.k = "E" -> OpenD(lines, Len(lines)) \ {x.seq}
                [] OTHER -> OpenD(lines, Len(lines))
<1> DEFINE n == Len(lines)
           new == Append(lines, x)
<1>1. /\ new \in Seq(Line) /\ Len(new) = n + 1 /\ n \in Nat
      /\ \A i \in 1..n : new[i] = lines[i]
      /\ new[n + 1] = x
  BY Appending
<1> HIDE DEF new, n
<1>2. ASSUME NEW i \in 0..n
      PROVE  OpenI(new, i) = OpenI(lines, i) /\ OpenD(new, i) = OpenD(lines, i)
  <2>1. i \in Nat /\ \A j \in 1..i : new[j] = lines[j]
    BY <1>1
  <2> QED
    BY <2>1, OpenPrefix
<1>3. n + 1 \in 1..Len(new) /\ (n + 1) - 1 = n /\ n \in 0..n
  BY <1>1
<1>4. /\ OpenI(new, n + 1) = CASE new[n + 1].k = "I" -> OpenI(new, n) \cup {new[n + 1].seq}
                                [] new[n + 1].k = "E" -> OpenI(new, n) \ {new[n + 1].seq}
                                [] OTHER -> OpenI(new, n)
      /\ OpenD(new, n + 1) = CASE new[n + 1].k = "D" -> OpenD(new, n) \cup {new[n + 1].seq}
                                [] new[n + 1].k = "E" -> OpenD(new, n) \ {new[n + 1].seq}
                                [] OTHER -> OpenD(new, n)
  BY ZenonT(40), <1>1, <1>3, OpenStep
<1>5. OpenI(new, n) = OpenI(lines, n) /\ OpenD(new, n) = OpenD(lines, n)
  BY <1>2, <1>3
<1>6. /\ OpenI(new, n + 1) = CASE x.k = "I" -> OpenI(lines, n) \cup {x.seq}
                                [] x.k = "E" -> OpenI(lines, n) \ {x.seq}
                                [] OTHER -> OpenI(lines, n)
      /\ OpenD(new, n + 1) = CASE x.k = "D" -> OpenD(lines, n) \cup {x.seq}
                                [] x.k = "E" -> OpenD(lines, n) \ {x.seq}
                                [] OTHER -> OpenD(lines, n)
  BY Zenon, <1>1, <1>4, <1>5
<1> QED
  BY <1>1, <1>2, <1>6 DEF new, n

\* What get knows after i lines of a body.
Who(out) == [k \in 1..Len(out) |-> out[k][1]]
ReadUpTo(lines, ss, i) ==
  [ss |-> WithOpen(ss, OpenI(lines, i), OpenD(lines, i)),
   out |-> Outputs(lines, ss.included)[i], who |-> Who(Outputs(lines, ss.included)[i]),
   ok |-> TRUE]

\* The reader is at a place of the weave: its open brackets are those of the place.
LEMMA AtPlace ==
  ASSUME NEW lines \in Seq(Line), NEW i \in 1..Len(lines), Fits(lines, i),
         NEW ss \in SeqStates, ss.ignored = {},
         ss.inserts = OpenI(lines, i - 1), ss.deletes = OpenD(lines, i - 1)
  PROVE  /\ lines[i].k = "text" => /\ IncludeLine(ss) <=> Belongs(lines, i, ss.included)
                                   /\ IncludeLine(ss) => ActiveSeq(ss) = lines[i].text[1]
         /\ IsControl(lines[i]) =>
              \A h \in Nat : lines[i].seq <= h /\ h <= ss.last => BracketOK(ss, lines[i], h)
         /\ IsControl(lines[i]) =>
              Follow(ss, lines[i]) = WithOpen(ss, OpenI(lines, i), OpenD(lines, i))
<1> DEFINE I == OpenI(lines, i - 1)
           D == OpenD(lines, i - 1)
           x == lines[i]
<1>1. x \in Line
  OBVIOUS
<1>2. I \subseteq 1..MaxDeltas /\ D \subseteq 1..MaxDeltas
  BY DEF OpenI, OpenD
<1>3. I \in SUBSET Nat /\ D \in SUBSET Nat
  BY <1>2, WeaveAssumption
<1>4. /\ OpenI(lines, i) = CASE x.k = "I" -> I \cup {x.seq} [] x.k = "E" -> I \ {x.seq} [] OTHER -> I
      /\ OpenD(lines, i) = CASE x.k = "D" -> D \cup {x.seq} [] x.k = "E" -> D \ {x.seq} [] OTHER -> D
  BY OpenStep
<1>5. /\ x.k = "text" => x.text[1] \in I /\ \A n \in I : n <= x.text[1]
      /\ x.k \in {"I", "D"} => x.seq \notin I \cup D
      /\ x.k = "E" => x.seq \in I \cup D
  BY DEF Fits
<1>6. Belongs(lines, i, ss.included) <=>
        x.k = "text" /\ x.text[1] \in ss.included /\ \A d \in D \cap ss.included : d <= x.text[1]
  BY DEF Belongs
<1>7. ss.inserts = I /\ ss.deletes = D
  OBVIOUS
<1> HIDE DEF I, D, x
<1>11. \A n \in Nat : /\ Start(ss, n, "I") = WithOpen(ss, I \cup {n}, D)
                      /\ Start(ss, n, "D") = WithOpen(ss, I, D \cup {n})
                      /\ End(ss, n) = WithOpen(ss, I \ {n}, D \ {n})
  BY Zenon, <1>7, Following
<1>8. CASE x.k = "text"
  <2>1. ~IsControl(x)
    BY <1>8 DEF IsControl
  <2>2. x.text[1] \in I /\ x.text[1] > 0 /\ x.text[1] \in Nat
    <3>1. \A n \in 1..MaxDeltas : n > 0 /\ n \in Nat
      BY Constants
    <3>2. x.text[1] \in I
      BY <1>5, <1>8
    <3> QED
      BY <1>2, <3>1, <3>2
  <2>3. ASSUME NEW j \in I PROVE Unsuperseded(ss, j) => j = x.text[1]
    <3>1. j \in Nat
      BY <1>3
    <3> QED
      BY <1>5, <1>8, <2>2, <3>1 DEF Unsuperseded, I
  <2>4. Unsuperseded(ss, x.text[1]) <=> Belongs(lines, i, ss.included)
    BY <1>5, <1>6, <1>8, <2>2 DEF Unsuperseded, I, D
  <2>5. IncludeLine(ss) <=> Belongs(lines, i, ss.included)
    BY <2>2, <2>3, <2>4 DEF IncludeLine, I
  <2>6. IncludeLine(ss) => ActiveSeq(ss) = x.text[1]
    <3>1. IncludeLine(ss) => \E j \in I : Unsuperseded(ss, j)
      BY DEF IncludeLine, I
    <3> QED
      BY <2>3, <3>1 DEF ActiveSeq, I
  <2> QED
    BY <1>8, <2>1, <2>5, <2>6 DEF x
<1>9. CASE x.k \in {"I", "D", "E"}
  <2>1. x.seq \in 1..MaxDeltas /\ x.seq \in Nat
    BY <1>1, <1>9, LineIs, Constants
  <2>2. ASSUME NEW h \in Nat, x.seq <= h, h <= ss.last PROVE BracketOK(ss, x, h)
    <3>1. ss.last \in Nat /\ x.seq <= ss.last /\ x.seq \in 1..h
      BY <2>1, <2>2 DEF SeqStates
    <3>2. ActiveBrackets(ss) = I \cup D
      BY DEF ActiveBrackets, I, D
    <3> QED
      BY <1>5, <1>9, <3>1, <3>2 DEF BracketOK, CanStart, CanEnd
  <2>3. Follow(ss, x) = WithOpen(ss, OpenI(lines, i), OpenD(lines, i))
    <3>1. CASE x.k = "E"
      BY <1>4, <1>11, <2>1, <3>1 DEF Follow
    <3>2. CASE x.k = "I"
      <4>1. Follow(ss, x) = Start(ss, x.seq, "I")
        BY <3>2 DEF Follow
      <4> QED
        BY <1>4, <1>11, <2>1, <3>2, <4>1
    <3>3. CASE x.k = "D"
      <4>1. Follow(ss, x) = Start(ss, x.seq, "D")
        BY <3>3 DEF Follow
      <4> QED
        BY <1>4, <1>11, <2>1, <3>3, <4>1
    <3> QED
      BY <1>9, <3>1, <3>2, <3>3
  <2>4. x.k # "text"
    BY <1>9
  <2> QED
    BY <2>2, <2>3, <2>4 DEF x
<1> QED
  BY <1>1, <1>8, <1>9, LineIs

LEMMA OtherState ==
  ASSUME NEW g, NEW a, NEW b, NEW c, NEW d, NEW y, g = [ss |-> a, out |-> b, who |-> c, ok |-> d]
  PROVE  [g EXCEPT !.ss = y] = [ss |-> y, out |-> b, who |-> c, ok |-> d]
OBVIOUS

\* One line read.
LEMMA LineIsRead ==
  ASSUME NEW lines \in Seq(Line), NEW i \in 1..Len(lines), Fits(lines, i),
         NEW ss \in SeqStates, ss.ignored = {}, NEW h \in Nat, h <= ss.last,
         IsControl(lines[i]) => lines[i].seq <= h
  PROVE  GetLine(ReadUpTo(lines, ss, i - 1), lines[i], h) = ReadUpTo(lines, ss, i)
<1> DEFINE g == ReadUpTo(lines, ss, i - 1)
           U == ss.included
           before == Outputs(lines, U)[i - 1]
           after == Outputs(lines, U)[i]
           I == OpenI(lines, i - 1)
           D == OpenD(lines, i - 1)
           now == WithOpen(ss, I, D)
           x == lines[i]
<1>1. g = [ss |-> now, out |-> before, who |-> Who(before), ok |-> TRUE]
  BY DEF ReadUpTo
<1>2. I \in SUBSET Nat /\ D \in SUBSET Nat
  BY Constants DEF OpenI, OpenD
<1>3. /\ now \in SeqStates /\ now.inserts = I /\ now.deletes = D /\ now.included = U
      /\ now.ignored = {} /\ now.last = ss.last
  BY <1>2, WithOpenIs
<1>4. after = IF Belongs(lines, i, U) THEN Append(before, x.text) ELSE before
  BY OutputsAre DEF Emit
<1>5. x \in Line /\ before \in LineTexts
  <2>1. i - 1 \in 0..Len(lines) /\ Outputs(lines, U) \in [0..Len(lines) -> LineTexts]
    BY OutputsAre
  <2> QED
    BY <2>1
<1>6. WithOpen(now, OpenI(lines, i), OpenD(lines, i)) = WithOpen(ss, OpenI(lines, i), OpenD(lines, i))
  BY DEF WithOpen, SeqStates
<1>7. /\ x.k = "text" => /\ IncludeLine(now) <=> Belongs(lines, i, U)
                         /\ IncludeLine(now) => ActiveSeq(now) = x.text[1]
      /\ IsControl(x) =>
           \A b \in Nat : x.seq <= b /\ b <= now.last => BracketOK(now, x, b)
      /\ IsControl(x) => Follow(now, x) = WithOpen(now, OpenI(lines, i), OpenD(lines, i))
  <2> HIDE DEF now
  <2> QED
    BY <1>3, AtPlace
<1>8. ReadUpTo(lines, ss, i) = [ss |-> WithOpen(ss, OpenI(lines, i), OpenD(lines, i)),
                                out |-> after, who |-> Who(after), ok |-> TRUE]
  BY DEF ReadUpTo
<1>9. x.k = "text" => OpenI(lines, i) = I /\ OpenD(lines, i) = D
  BY OpenStep
<1>10. ~IsControl(x) => x.k = "text"
  BY <1>5, LineIs
<1>13. IsControl(x) => x.k # "text"
  BY <1>5, LineIs
<1> HIDE DEF now, I, D, before, after, g, U
<1>11. CASE IsControl(x)
  <2>1. BracketOK(now, x, h)
    BY <1>3, <1>7, <1>11
  <2>2. after = before
    BY <1>4, <1>11, <1>13 DEF Belongs
  <2>3. GetLine(g, x, h) = [g EXCEPT !.ss = Follow(@, x)]
    <3>1. g.ok /\ g.ss = now
      BY <1>1
    <3>2. BracketOK(g.ss, x, h)
      BY Zenon, <2>1, <3>1
    <3> QED
      BY <1>11, <3>1, <3>2 DEF GetLine
  <2>4. [g EXCEPT !.ss = Follow(@, x)] =
          [ss |-> Follow(now, x), out |-> before, who |-> Who(before), ok |-> TRUE]
    <3>1. g.ss = now
      BY <1>1
    <3>2. PICK d : d = TRUE
      OBVIOUS
    <3>3. g = [ss |-> now, out |-> before, who |-> Who(before), ok |-> d]
      BY Zenon, <1>1, <3>2
    <3>4. [g EXCEPT !.ss = Follow(now, x)] =
            [ss |-> Follow(now, x), out |-> before, who |-> Who(before), ok |-> d]
      BY <3>3, OtherState
    <3>5. [g EXCEPT !.ss = Follow(now, x)] =
            [ss |-> Follow(now, x), out |-> before, who |-> Who(before), ok |-> TRUE]
      BY Zenon, <3>2, <3>4
    <3> QED
      BY Zenon, <3>1, <3>5
  <2> QED
    BY <1>6, <1>7, <1>8, <1>11, <2>2, <2>3, <2>4 DEF g, x
<1>12. CASE ~IsControl(x)
  <2>1. GetLine(g, x, h) = IF IncludeLine(now)
                           THEN [g EXCEPT !.out = Append(@, x.text), !.who = Append(@, ActiveSeq(now))]
                           ELSE g
    BY <1>1, <1>12 DEF GetLine
  <2>2. WithOpen(ss, OpenI(lines, i), OpenD(lines, i)) = now
    BY <1>9, <1>10, <1>12 DEF now
  <2>3. CASE IncludeLine(now)
    <3>1. after = Append(before, x.text) /\ ActiveSeq(now) = x.text[1] /\ x.text \in Nat \X Nat
      BY <1>4, <1>5, <1>7, <1>10, <1>12, <2>3, LineIs
    <3>2. GetLine(g, x, h) = [ss |-> now, out |-> Append(before, x.text),
                              who |-> Append(Who(before), ActiveSeq(now)), ok |-> TRUE]
      BY <1>1, <2>1, <2>3
    <3>3. Append(Who(before), x.text[1]) = Who(Append(before, x.text))
      BY <1>5, <3>1 DEF Who, LineTexts
    <3> QED
      BY <1>8, <2>2, <3>1, <3>2, <3>3 DEF g, x
  <2>4. CASE ~IncludeLine(now)
    <3>1. after = before
      BY <1>4, <1>7, <1>10, <1>12, <2>4
    <3> QED
      BY <1>1, <1>8, <2>1, <2>2, <2>4, <3>1 DEF g, x
  <2> QED
    BY <2>3, <2>4
<1> QED
  BY <1>11, <1>12

GetLoop(lines, ss, highest) ==
  LET upto[i \in 0..Len(lines)] ==
        IF i = 0
        THEN [ss |-> ss, out |-> <<>>, who |-> <<>>,
              ok |-> lines # <<>> /\ lines[1].k = "I"]
        ELSE GetLine(upto[i - 1], lines[i], highest)
  IN  upto

\* get accepts a woven body, and its answer is the version.
LEMMA BodyIsRead ==
  ASSUME NEW lines \in Seq(Line), Woven(lines), lines # <<>>, lines[1].k = "I",
         NEW ss \in SeqStates, ss.ignored = {}, ss.inserts = {}, ss.deletes = {},
         NEW h \in Nat, h <= ss.last,
         \A i \in 1..Len(lines) : IsControl(lines[i]) => lines[i].seq <= h
  PROVE  GetBody(lines, ss, h) = ReadUpTo(lines, ss, Len(lines))
<1> DEFINE n == Len(lines)
           base == [ss |-> ss, out |-> <<>>, who |-> <<>>, ok |-> lines # <<>> /\ lines[1].k = "I"]
           F == GetLoop(lines, ss, h)
           Body0(f) == [i \in 0..n |-> IF i = 0 THEN base ELSE GetLine(f[i - 1], lines[i], h)]
           f == [i \in 0..n |-> ReadUpTo(lines, ss, i)]
<1>1. F = CHOOSE g : g = Body0(g)
  BY Zenon DEF GetLoop
<1>2. ReadUpTo(lines, ss, 0) = base
  <2>1. Outputs(lines, ss.included)[0] = <<>>
    BY OutputsAre
  <2>2. WithOpen(ss, OpenI(lines, 0), OpenD(lines, 0)) = ss
    <3>1. OpenI(lines, 0) = {} /\ OpenD(lines, 0) = {}
      BY NothingOpen
    <3>2. WithOpen(ss, {}, {}) = ss
      BY DEF WithOpen, SeqStates
    <3> QED
      BY <3>1, <3>2
  <2>3. Who(<<>>) = <<>>
    BY DEF Who
  <2>4. base.ok = TRUE
    OBVIOUS
  <2> QED
    BY <2>1, <2>2, <2>3, <2>4 DEF ReadUpTo
<1>3. n \in Nat
  OBVIOUS
<1>4. \A i \in 1..n : ReadUpTo(lines, ss, i) = GetLine(ReadUpTo(lines, ss, i - 1), lines[i], h)
  BY LineIsRead DEF Woven
<1> HIDE DEF F, base, n
<1>5. f = Body0(f)
  <2>1. ASSUME NEW i \in 0..n
        PROVE  f[i] = IF i = 0 THEN base ELSE GetLine(f[i - 1], lines[i], h)
    <3>1. CASE i = 0
      BY <1>2, <3>1
    <3>2. CASE i # 0
      <4>1. i \in 1..n /\ i - 1 \in 0..n
        BY <1>3, <3>2
      <4>2. f[i - 1] = ReadUpTo(lines, ss, i - 1) /\ f[i] = ReadUpTo(lines, ss, i)
        BY <4>1
      <4> QED
        BY Zenon, <1>4, <4>1, <4>2, <3>2
    <3> QED
      BY <3>1, <3>2
  <2> QED
    BY Zenon, <2>1
<1>6. F = Body0(F)
  <2> HIDE DEF f
  <2> QED
    BY Zenon, <1>1, <1>5
<1>7. \A i \in 0..n : F[i] = IF i = 0 THEN base ELSE GetLine(F[i - 1], lines[i], h)
  BY Zenon, <1>6
<1> DEFINE S == {i \in 0..n : F[i] = ReadUpTo(lines, ss, i)}
<1>8. 0 \in S
  BY <1>2, <1>3, <1>7
<1>9. ASSUME NEW i \in 1..n, i - 1 \in S PROVE i \in S
  <2>1. i \in 0..n /\ i # 0 /\ F[i - 1] = ReadUpTo(lines, ss, i - 1)
    BY <1>9
  <2>2. F[i] = GetLine(F[i - 1], lines[i], h)
    BY <1>7, <2>1
  <2>3. F[i] = ReadUpTo(lines, ss, i)
    BY <1>4, <2>1, <2>2
  <2> QED
    BY <2>1, <2>3
<1> HIDE DEF S
<1>10. \A i \in 0..n : i \in S
  BY <1>3, <1>8, <1>9, UpwardInduction
<1>11. F[n] = ReadUpTo(lines, ss, n)
  BY <1>3, <1>10 DEF S
<1>12. GetBody(lines, ss, h) = F[n]
  BY Zenon DEF GetBody, GetLoop, F, n
<1> QED
  BY <1>11, <1>12 DEF n

-----------------------------------------------------------------------------
(* A bracket inside an insertion.                                          *)

\* A bracket of delta t stands within the lines that delta s inserted.
Encloses(lines, s, t) ==
  \E i \in 1..Len(lines) :
    IsControl(lines[i]) /\ lines[i].seq = t /\ s \in OpenI(lines, i - 1) /\ s # t

LEMMA EnclosesAppend ==
  ASSUME NEW lines \in Seq(Line), NEW x \in Line, NEW s, NEW t
  PROVE  Encloses(Append(lines, x), s, t) <=>
           \/ Encloses(lines, s, t)
           \/ IsControl(x) /\ x.seq = t /\ s \in OpenI(lines, Len(lines)) /\ s # t
<1> DEFINE n == Len(lines)
           new == Append(lines, x)
<1>1. /\ new \in Seq(Line) /\ Len(new) = n + 1 /\ n \in Nat
      /\ \A i \in 1..n : new[i] = lines[i]
      /\ new[n + 1] = x
  BY Appending
<1>2. \A i \in 0..n : OpenI(new, i) = OpenI(lines, i)
  BY OpenAppend
<1> HIDE DEF new, n
<1>3. \A i \in 1..(n + 1) : i - 1 \in 0..n /\ (i = n + 1 \/ i \in 1..n)
  BY <1>1
<1>4. n + 1 \in 1..(n + 1) /\ (n + 1) - 1 = n /\ \A i \in 1..n : i \in 1..(n + 1)
  BY <1>1
<1>5. ASSUME NEW i \in 1..n
      PROVE  /\ IsControl(new[i]) <=> IsControl(lines[i])
             /\ new[i].seq = lines[i].seq /\ OpenI(new, i - 1) = OpenI(lines, i - 1)
  BY <1>1, <1>2, <1>3, <1>4
<1>6. new[n + 1] = x /\ OpenI(new, (n + 1) - 1) = OpenI(lines, n)
  <2>1. n \in 0..n
    BY <1>1
  <2> QED
    BY <1>1, <1>2, <1>4, <2>1
<1>7. ASSUME Encloses(new, s, t)
      PROVE  Encloses(lines, s, t) \/ (IsControl(x) /\ x.seq = t /\ s \in OpenI(lines, n) /\ s # t)
  <2>1. PICK i \in 1..(n + 1) : IsControl(new[i]) /\ new[i].seq = t /\ s \in OpenI(new, i - 1) /\ s # t
    BY <1>1, <1>7 DEF Encloses
  <2>2. CASE i = n + 1
    BY <1>6, <2>1, <2>2
  <2>3. CASE i \in 1..n
    BY <1>5, <2>1, <2>3 DEF Encloses, n
  <2> QED
    BY <1>3, <2>2, <2>3
<1>8. ASSUME Encloses(lines, s, t) PROVE Encloses(new, s, t)
  <2>1. PICK i \in 1..n : IsControl(lines[i]) /\ lines[i].seq = t /\ s \in OpenI(lines, i - 1) /\ s # t
    BY <1>8 DEF Encloses, n
  <2> QED
    BY <1>1, <1>4, <1>5, <2>1 DEF Encloses
<1>9. ASSUME IsControl(x), x.seq = t, s \in OpenI(lines, n), s # t PROVE Encloses(new, s, t)
  BY <1>1, <1>4, <1>6, <1>9 DEF Encloses
<1> QED
  BY <1>7, <1>8, <1>9 DEF new, n

LEMMA OwnersAppend ==
  ASSUME NEW lines \in Seq(Line), NEW x \in Line
  PROVE  Owners(Append(lines, x)) =
           IF IsControl(x) THEN Owners(lines) \cup {x.seq} ELSE Owners(lines)
<1> DEFINE n == Len(lines)
           new == Append(lines, x)
<1>1. /\ Len(new) = n + 1 /\ n \in Nat
      /\ \A i \in 1..n : new[i] = lines[i]
      /\ new[n + 1] = x
  BY Appending
<1> HIDE DEF new, n
<1>2. n + 1 \in 1..(n + 1) /\ \A i \in 1..(n + 1) : i = n + 1 \/ i \in 1..n
  BY <1>1
<1>3. \A i \in 1..n : i \in 1..(n + 1)
  BY <1>1
<1>4. Owners(new) = {new[i].seq : i \in {j \in 1..(n + 1) : IsControl(new[j])}}
  BY <1>1 DEF Owners
<1>5. Owners(lines) = {lines[i].seq : i \in {j \in 1..n : IsControl(lines[j])}}
  BY DEF Owners, n
<1> QED
  BY <1>1, <1>2, <1>3, <1>4, <1>5 DEF new

-----------------------------------------------------------------------------
(* What rmdel leaves of a body.                                            *)

RemovalStates == [state : {"COPY", "INSERT", "DELETE", "bad"}, out : Seq(Line), ok : BOOLEAN]

RemoveLoop(lines, seq) ==
  LET upto[i \in 0..Len(lines)] ==
        IF i = 0 THEN [state |-> "COPY", out |-> <<>>, ok |-> TRUE]
        ELSE RemoveLine(upto[i - 1], lines[i], seq)
  IN  upto

\* The removal, after each line.
LEMMA RemoveLoopIs ==
  ASSUME NEW lines \in Seq(Line), NEW seq
  PROVE  /\ RemoveLoop(lines, seq) \in [0..Len(lines) -> RemovalStates]
         /\ RemoveLoop(lines, seq)[0] = [state |-> "COPY", out |-> <<>>, ok |-> TRUE]
         /\ \A i \in 1..Len(lines) : RemoveLoop(lines, seq)[i] = RemoveLine(RemoveLoop(lines, seq)[i - 1], lines[i], seq)
<1> DEFINE n == Len(lines)
           T == RemovalStates
           base == [state |-> "COPY", out |-> <<>>, ok |-> TRUE]
           step == [i \in 1..n |-> [x \in T |-> RemoveLine(x, lines[i], seq)]]
           F == RemoveLoop(lines, seq)
           Body0(f) == [i \in 0..n |-> IF i = 0 THEN base ELSE RemoveLine(f[i - 1], lines[i], seq)]
<1>1. n \in Nat /\ base \in T
  BY DEF RemovalStates
<1>2. ASSUME NEW i \in 1..n, NEW x \in T PROVE RemoveLine(x, lines[i], seq) \in T
  <2>1. lines[i] \in Line
    OBVIOUS
  <2>2. RemovalState(x.state, lines[i].k) \in {"COPY", "INSERT", "DELETE", "bad"}
    BY DEF RemovalState
  <2>3. Append(x.out, lines[i]) \in Seq(Line)
    BY <2>1 DEF RemovalStates
  <2> QED
    BY <2>2, <2>3 DEF RemoveLine, RemovalStates
<1>3. step \in [1..n -> [T -> T]]
  BY <1>2
<1>4. \A i \in 1..n : \A x \in T : step[i][x] = RemoveLine(x, lines[i], seq)
  OBVIOUS
<1>5. F = CHOOSE f : f = Body0(f)
  BY Zenon DEF RemoveLoop
<1> HIDE DEF step, F, base, n, T
<1>6. PICK f : Upward(f, n, T, base, step)
  BY <1>1, <1>3, UpwardRecursion
<1>7. f \in [0..n -> T] /\ f[0] = base /\ \A i \in 1..n : f[i] = step[i][f[i - 1]]
  BY <1>6 DEF Upward
<1>8. f = Body0(f)
  <2>1. ASSUME NEW i \in 0..n
        PROVE  f[i] = IF i = 0 THEN base ELSE RemoveLine(f[i - 1], lines[i], seq)
    <3>1. CASE i = 0
      BY <1>7, <3>1
    <3>2. CASE i # 0
      <4>1. i \in 1..n /\ i - 1 \in 0..n
        BY <1>1, <3>2
      <4>2. f[i - 1] \in T
        BY <1>7, <4>1
      <4>3. f[i] = step[i][f[i - 1]]
        BY <1>7, <4>1
      <4>4. step[i][f[i - 1]] = RemoveLine(f[i - 1], lines[i], seq)
        BY <1>4, <4>1, <4>2
      <4> QED
        BY <4>3, <4>4, <3>2
    <3> QED
      BY <3>1, <3>2
  <2>2. f = [i \in 0..n |-> f[i]]
    BY <1>7
  <2> QED
    BY <2>1, <2>2
<1>9. F = Body0(F)
  BY Zenon, <1>5, <1>8
<1>10. \A i \in 0..n : F[i] = IF i = 0 THEN base ELSE RemoveLine(F[i - 1], lines[i], seq)
  BY Zenon, <1>9
<1>11. DOMAIN F = 0..n /\ F = [i \in 0..n |-> F[i]]
  BY Zenon, <1>9
<1>12. 0 \in 0..n /\ \A i \in 1..n : i \in 0..n /\ i # 0
  BY <1>1
<1>13. F[0] = base /\ \A i \in 1..n : F[i] = RemoveLine(F[i - 1], lines[i], seq)
  BY Zenon, <1>10, <1>12
<1>14. F \in [0..n -> T]
  <2> DEFINE S == {i \in 0..n : F[i] \in T}
  <2>1. 0 \in S
    BY <1>1, <1>12, <1>13
  <2>2. ASSUME NEW i \in 1..n, i - 1 \in S PROVE i \in S
    BY <2>2, <1>2, <1>12, <1>13
  <2> HIDE DEF S
  <2>3. \A i \in 0..n : i \in S
    BY <1>1, <2>1, <2>2, UpwardInduction
  <2>4. \A i \in 0..n : F[i] \in T
    BY <2>3 DEF S
  <2> QED
    BY <1>11, <2>4
<1> QED
  BY <1>13, <1>14 DEF F, n, T, base

\* What is left of the first i lines when the brackets of delta s, and the lines it
\* inserted, are taken out.
Reduced(lines, s, i, r) ==
  /\ r.ok
  /\ r.state \in {"COPY", "INSERT", "DELETE"}
  /\ r.state = "INSERT" <=> s \in OpenI(lines, i)
  /\ r.state = "DELETE" <=> s \in OpenD(lines, i)
  /\ s \in OpenI(lines, i) => \A n \in OpenI(lines, i) : n <= s
  /\ r.out \in Seq(Line)
  /\ Woven(r.out)
  /\ OpenI(r.out, Len(r.out)) = OpenI(lines, i) \ {s}
  /\ OpenD(r.out, Len(r.out)) = OpenD(lines, i) \ {s}
  /\ Owners(r.out) \subseteq Owners(lines) \ {s}
  /\ \A a, b : Encloses(r.out, a, b) => Encloses(lines, a, b)
  /\ \A U \in SUBSET Nat : s \notin U => Version(r.out, U) = Outputs(lines, U)[i]
  /\ i = 0 => r.out = <<>>
  /\ i >= 1 /\ IsControl(lines[1]) /\ lines[1].seq # s => r.out # <<>> /\ r.out[1] = lines[1]

LEMMA ReducedStart ==
  ASSUME NEW lines \in Seq(Line), NEW s
  PROVE  Reduced(lines, s, 0, [state |-> "COPY", out |-> <<>>, ok |-> TRUE])
<1>1. <<>> \in Seq(Line) /\ Len(<<>>) = 0
  OBVIOUS
<1>2. OpenI(<<>>, 0) = {} /\ OpenD(<<>>, 0) = {} /\ OpenI(lines, 0) = {} /\ OpenD(lines, 0) = {}
  BY NothingOpen
<1>3. Woven(<<>>) /\ Owners(<<>>) = {} /\ \A a, b : ~Encloses(<<>>, a, b)
  BY DEF Woven, Owners, Encloses
<1>4. \A U : Version(<<>>, U) = <<>> /\ Outputs(lines, U)[0] = <<>>
  BY <1>1, OutputsAre DEF Version
<1>5. ~(0 >= 1)
  OBVIOUS
<1> QED
  BY <1>1, <1>2, <1>3, <1>4, <1>5 DEF Reduced

\* A line of text.
LEMMA ReducedText ==
  ASSUME NEW lines \in Seq(Line), Woven(lines), NEW s, NEW i \in 1..Len(lines), NEW r,
         Reduced(lines, s, i - 1, r), r \in RemovalStates,
         r = [state |-> r.state, out |-> r.out, ok |-> TRUE], lines[i].k = "text"
  PROVE  Reduced(lines, s, i, RemoveLine(r, lines[i], s))
<1> DEFINE x == lines[i]
           O == r.out
           I == OpenI(lines, i - 1)
           D == OpenD(lines, i - 1)
<1>1. x \in Line /\ ~IsControl(x) /\ x.k = "text" /\ Fits(lines, i)
  BY DEF Woven, IsControl
<1>2. x.text[1] \in I /\ \A n \in I : n <= x.text[1]
  BY <1>1 DEF Fits
<1>3. OpenI(lines, i) = I /\ OpenD(lines, i) = D
  BY OpenStep
<1>4. /\ r.ok /\ O \in Seq(Line) /\ Woven(O)
      /\ OpenI(O, Len(O)) = I \ {s} /\ OpenD(O, Len(O)) = D \ {s}
      /\ s \in I => \A n \in I : n <= s
      /\ r.state = "INSERT" <=> s \in I
      /\ r.state = "DELETE" <=> s \in D
  BY DEF Reduced
<1>5. \A U : Outputs(lines, U)[i] =
               IF x.text[1] \in U /\ \A d \in D \cap U : d <= x.text[1]
               THEN Append(Outputs(lines, U)[i - 1], x.text) ELSE Outputs(lines, U)[i - 1]
  BY <1>1, OutputsAre DEF Emit, Belongs
<1>9. i = 1 => x.k = "text" /\ ~IsControl(lines[1])
  BY <1>1
<1>10. i # 1 => i - 1 >= 1
  OBVIOUS
<1> HIDE DEF x, O, I, D
<1>6. CASE r.state = "INSERT"
  <2>1. RemoveLine(r, x, s) = r
    BY <1>1, <1>4, <1>6 DEF RemoveLine
  <2>2. x.text[1] = s
    <3>1. s <= x.text[1] /\ x.text[1] <= s /\ s \in Nat /\ x.text[1] \in Nat
      <4>1. s \in I /\ I \subseteq Nat
        BY <1>4, <1>6, Constants DEF I, OpenI
      <4> QED
        BY <4>1, <1>2, <1>4
    <3> QED
      BY <3>1
  <2>3. \A U : s \notin U => Outputs(lines, U)[i] = Outputs(lines, U)[i - 1]
    BY <1>5, <2>2
  <2>4. \A U \in SUBSET Nat : s \notin U => Version(r.out, U) = Outputs(lines, U)[i]
    BY <2>3 DEF Reduced
  <2>5. i >= 1 /\ IsControl(lines[1]) /\ lines[1].seq # s => r.out # <<>> /\ r.out[1] = lines[1]
    BY <1>9, <1>10 DEF Reduced
  <2>6. Reduced(lines, s, i, r)
    BY <1>3, <2>4, <2>5 DEF Reduced, I, D
  <2> QED
    BY <2>1, <2>6 DEF x
<1>7. CASE r.state # "INSERT"
  <2> DEFINE new == Append(O, x)
  <2>1. RemoveLine(r, x, s) = [state |-> r.state, out |-> new, ok |-> TRUE]
    BY <1>1, <1>4, <1>7 DEF RemoveLine, O
  <2>2. x.text[1] \in I \ {s} /\ \A n \in I \ {s} : n <= x.text[1]
    BY <1>2, <1>4, <1>7
  <2>3. Woven(new)
    BY <1>1, <1>4, <2>2, WovenAppend
  <2>4. /\ new \in Seq(Line) /\ Len(new) = Len(O) + 1
        /\ OpenI(new, Len(O) + 1) = I \ {s} /\ OpenD(new, Len(O) + 1) = D \ {s}
    BY <1>1, <1>4, OpenAppend
  <2>5. Owners(new) = Owners(O)
    BY <1>1, <1>4, OwnersAppend
  <2>6. \A a, b : Encloses(new, a, b) <=> Encloses(O, a, b)
    BY <1>1, <1>4, EnclosesAppend
  <2>7. ASSUME NEW U \in SUBSET Nat, s \notin U PROVE Version(new, U) = Outputs(lines, U)[i]
    <3>1. Version(O, U) = Outputs(lines, U)[i - 1]
      BY <2>7 DEF Reduced, O
    <3>2. (D \ {s}) \cap U = D \cap U
      BY <2>7
    <3>3. Version(new, U) = IF x.text[1] \in U /\ \A d \in OpenD(O, Len(O)) \cap U : d <= x.text[1]
                            THEN Append(Version(O, U), x.text) ELSE Version(O, U)
      BY <1>1, <1>4, VersionAppend
    <3> HIDE DEF new
    <3> QED
      BY Zenon, <1>4, <1>5, <3>1, <3>2, <3>3
  <2>8. \A j \in 1..Len(O) : new[j] = O[j]
    BY <1>1, <1>4
  <2>9. i >= 1 /\ IsControl(lines[1]) /\ lines[1].seq # s => new # <<>> /\ new[1] = lines[1]
    <3>1. ASSUME IsControl(lines[1]), lines[1].seq # s PROVE new # <<>> /\ new[1] = lines[1]
      <4>1. O # <<>> /\ O[1] = lines[1]
        BY <1>9, <1>10, <3>1 DEF Reduced, O
      <4>2. Len(O) >= 1 /\ 1 \in 1..Len(O)
        BY <1>4, <4>1
      <4> QED
        BY <2>4, <2>8, <4>1, <4>2
    <3> QED
      BY <3>1
  <2>10. /\ Owners(O) \subseteq Owners(lines) \ {s}
         /\ \A a, b : Encloses(O, a, b) => Encloses(lines, a, b)
         /\ r.state \in {"COPY", "INSERT", "DELETE"}
    BY DEF Reduced, O
  <2> DEFINE q == [state |-> r.state, out |-> new, ok |-> TRUE]
  <2>11. q.state = r.state /\ q.out = new /\ q.ok = TRUE
    OBVIOUS
  <2> HIDE DEF new, q
  <2>12. Reduced(lines, s, i, q)
    BY <1>3, <1>4, <2>3, <2>4, <2>5, <2>6, <2>7, <2>9, <2>10, <2>11 DEF Reduced, I, D
  <2> QED
    BY <2>1, <2>12 DEF x, q
<1> QED
  BY <1>6, <1>7

\* A bracket of delta s itself.
LEMMA ReducedOwn ==
  ASSUME NEW lines \in Seq(Line), Woven(lines), NEW s, NEW i \in 1..Len(lines), NEW r,
         Reduced(lines, s, i - 1, r), r \in RemovalStates,
         IsControl(lines[i]), lines[i].seq = s
  PROVE  Reduced(lines, s, i, RemoveLine(r, lines[i], s))
<1> DEFINE x == lines[i]
           I == OpenI(lines, i - 1)
           D == OpenD(lines, i - 1)
           next == RemovalState(r.state, x.k)
<1>1. x \in Line /\ x.k \in {"I", "D", "E"} /\ x.k # "text" /\ s \in Nat /\ Fits(lines, i)
  <2>1. s \in 1..MaxDeltas /\ x.k \in {"I", "D", "E"}
    BY LineIs
  <2> QED
    BY <2>1, Constants DEF Woven
<1>2. /\ x.k \in {"I", "D"} => s \notin I /\ s \notin D
      /\ x.k = "I" => \A n \in I : n < s
      /\ x.k = "E" => s \in I \/ s \in D
  BY <1>1 DEF Fits
<1>3. /\ r.ok /\ r.state \in {"COPY", "INSERT", "DELETE"}
      /\ r.state = "INSERT" <=> s \in I
      /\ r.state = "DELETE" <=> s \in D
  BY DEF Reduced
<1>4. /\ OpenI(lines, i) = CASE x.k = "I" -> I \cup {s} [] x.k = "E" -> I \ {s} [] OTHER -> I
      /\ OpenD(lines, i) = CASE x.k = "D" -> D \cup {s} [] x.k = "E" -> D \ {s} [] OTHER -> D
  BY OpenStep
<1>5. I \subseteq Nat
  BY Constants DEF OpenI
<1> HIDE DEF I, D
<1>6. next \in {"COPY", "INSERT", "DELETE"}
  BY <1>1, <1>2, <1>3 DEF RemovalState
<1>7. next = "INSERT" <=> s \in OpenI(lines, i)
  BY <1>1, <1>2, <1>3, <1>4 DEF RemovalState
<1>8. next = "DELETE" <=> s \in OpenD(lines, i)
  BY <1>1, <1>2, <1>3, <1>4 DEF RemovalState
<1>9. s \in OpenI(lines, i) => \A n \in OpenI(lines, i) : n <= s
  <2>1. CASE x.k = "I"
    BY <1>1, <1>2, <1>4, <1>5, <2>1
  <2>2. CASE x.k = "D"
    BY <1>2, <1>4, <2>2
  <2>3. CASE x.k = "E"
    BY <1>4, <2>3
  <2> QED
    BY <1>1, <2>1, <2>2, <2>3
<1>10. OpenI(lines, i) \ {s} = I \ {s} /\ OpenD(lines, i) \ {s} = D \ {s}
  <2>1. CASE x.k = "I"
    BY <1>4, <2>1
  <2>2. CASE x.k = "D"
    BY <1>4, <2>2
  <2>3. CASE x.k = "E"
    BY <1>4, <2>3
  <2> QED
    BY <1>1, <2>1, <2>2, <2>3
<1>11. \A U : Outputs(lines, U)[i] = Outputs(lines, U)[i - 1]
  BY <1>1, OutputsAre DEF Emit, Belongs
<1>12. IsControl(lines[1]) /\ lines[1].seq # s => i - 1 >= 1
  OBVIOUS
<1> DEFINE q == [r EXCEPT !.state = next]
<1>13. q.state = next /\ q.out = r.out /\ q.ok = r.ok
  BY DEF RemovalStates
<1>14. RemoveLine(r, x, s) = q
  <2>1. next # "bad"
    BY <1>6
  <2> QED
    BY <1>3, <2>1 DEF RemoveLine
<1> HIDE DEF q, next, x
<1>15. Reduced(lines, s, i, q)
  BY <1>3, <1>6, <1>7, <1>8, <1>9, <1>10, <1>11, <1>12, <1>13 DEF Reduced, I, D
<1> QED
  BY <1>14, <1>15 DEF x

\* A bracket of another delta.
LEMMA ReducedOther ==
  ASSUME NEW lines \in Seq(Line), Woven(lines), NEW s, \A t : ~Encloses(lines, s, t),
         NEW i \in 1..Len(lines), NEW r,
         Reduced(lines, s, i - 1, r), r \in RemovalStates,
         IsControl(lines[i]), lines[i].seq # s
  PROVE  Reduced(lines, s, i, RemoveLine(r, lines[i], s))
<1> DEFINE x == lines[i]
           O == r.out
           I == OpenI(lines, i - 1)
           D == OpenD(lines, i - 1)
<1>1. x \in Line /\ x.k \in {"I", "D", "E"} /\ x.k # "text" /\ IsControl(x) /\ Fits(lines, i)
  BY LineIs DEF Woven
<1>2. /\ x.k \in {"I", "D"} => x.seq \notin I /\ x.seq \notin D
      /\ x.k = "I" => \A n \in I : n < x.seq
      /\ x.k = "E" => x.seq \in I \/ x.seq \in D
  BY <1>1 DEF Fits
<1>3. s \notin I
  BY DEF Encloses
<1>4. /\ r.ok /\ O \in Seq(Line) /\ Woven(O)
      /\ OpenI(O, Len(O)) = I \ {s} /\ OpenD(O, Len(O)) = D \ {s}
      /\ r.state \in {"COPY", "INSERT", "DELETE"}
      /\ r.state = "INSERT" <=> s \in I
      /\ r.state = "DELETE" <=> s \in D
  BY DEF Reduced
<1>5. /\ OpenI(lines, i) = CASE x.k = "I" -> I \cup {x.seq} [] x.k = "E" -> I \ {x.seq} [] OTHER -> I
      /\ OpenD(lines, i) = CASE x.k = "D" -> D \cup {x.seq} [] x.k = "E" -> D \ {x.seq} [] OTHER -> D
  BY OpenStep
<1>6. \A U : Outputs(lines, U)[i] = Outputs(lines, U)[i - 1]
  BY <1>1, OutputsAre DEF Emit, Belongs
<1>7. x.seq # s /\ x.seq \in Owners(lines)
  BY DEF Owners
<1>8. i = 1 => x = lines[1]
  OBVIOUS
<1>9. i # 1 => i - 1 >= 1
  OBVIOUS
<1>10. \A a, b : b = x.seq /\ a \in I /\ a # b => Encloses(lines, a, b)
  BY DEF Encloses
<1>16. x.seq # s
  OBVIOUS
<1> DEFINE new == Append(O, x)
           q == [r EXCEPT !.out = new]
<1>11. q.state = r.state /\ q.out = new /\ q.ok = r.ok
  BY DEF RemovalStates
<1>12. RemoveLine(r, x, s) = q
  BY <1>1, <1>3, <1>4, <1>7 DEF RemoveLine, O
<1> HIDE DEF x, O, I, D
<1>13. Woven(new)
  BY <1>1, <1>2, <1>4, <1>7, WovenAppend
<1>14. /\ new \in Seq(Line) /\ Len(new) = Len(O) + 1
       /\ OpenI(new, Len(O) + 1) = CASE x.k = "I" -> (I \ {s}) \cup {x.seq}
                                     [] x.k = "E" -> (I \ {s}) \ {x.seq}
                                     [] OTHER -> I \ {s}
       /\ OpenD(new, Len(O) + 1) = CASE x.k = "D" -> (D \ {s}) \cup {x.seq}
                                     [] x.k = "E" -> (D \ {s}) \ {x.seq}
                                     [] OTHER -> D \ {s}
  <2>1. /\ Append(O, x) \in Seq(Line) /\ Len(Append(O, x)) = Len(O) + 1
        /\ OpenI(Append(O, x), Len(O) + 1) = CASE x.k = "I" -> OpenI(O, Len(O)) \cup {x.seq}
                                     [] x.k = "E" -> OpenI(O, Len(O)) \ {x.seq}
                                     [] OTHER -> OpenI(O, Len(O))
        /\ OpenD(Append(O, x), Len(O) + 1) = CASE x.k = "D" -> OpenD(O, Len(O)) \cup {x.seq}
                                     [] x.k = "E" -> OpenD(O, Len(O)) \ {x.seq}
                                     [] OTHER -> OpenD(O, Len(O))
    BY Zenon, <1>1, <1>4, OpenAppend
  <2> QED
    BY Zenon, <2>1, <1>4 DEF new
<1>15. OpenI(new, Len(new)) = OpenI(lines, i) \ {s} /\ OpenD(new, Len(new)) = OpenD(lines, i) \ {s}
  <2>1. CASE x.k = "I"
    BY <1>5, <1>7, <1>14, <2>1
  <2>2. CASE x.k = "D"
    BY <1>5, <1>7, <1>14, <2>2
  <2>3. CASE x.k = "E"
    BY <1>5, <1>7, <1>14, <2>3
  <2> QED
    BY <1>1, <2>1, <2>2, <2>3
<1>17. (s \in OpenI(lines, i) <=> s \in I) /\ (s \in OpenD(lines, i) <=> s \in D)
  <2>1. CASE x.k = "I"
    BY <1>5, <1>7, <2>1
  <2>2. CASE x.k = "D"
    BY <1>5, <1>7, <2>2
  <2>3. CASE x.k = "E"
    BY <1>5, <1>7, <2>3
  <2> QED
    BY <1>1, <2>1, <2>2, <2>3
<1>18. Owners(new) \subseteq Owners(lines) \ {s}
  <2>1. Owners(new) = Owners(O) \cup {x.seq}
    BY <1>1, <1>4, OwnersAppend
  <2>2. Owners(O) \subseteq Owners(lines) \ {s}
    BY DEF Reduced, O
  <2> QED
    BY <1>7, <2>1, <2>2
<1>19. ASSUME NEW a, NEW b, Encloses(new, a, b) PROVE Encloses(lines, a, b)
  <2>1. Encloses(O, a, b) \/ (x.seq = b /\ a \in OpenI(O, Len(O)) /\ a # b)
    BY <1>1, <1>4, <1>19, EnclosesAppend
  <2>2. Encloses(O, a, b) => Encloses(lines, a, b)
    BY DEF Reduced, O
  <2> QED
    BY <1>4, <1>10, <2>1, <2>2
<1>20. ASSUME NEW U \in SUBSET Nat, s \notin U PROVE Version(new, U) = Outputs(lines, U)[i]
  <2>1. Version(O, U) = Outputs(lines, U)[i - 1]
    BY <1>20 DEF Reduced, O
  <2>2. Version(new, U) = Version(O, U)
    BY <1>1, <1>4, VersionAppend
  <2> QED
    BY <1>6, <2>1, <2>2
<1>21. ASSUME IsControl(lines[1]), lines[1].seq # s PROVE new # <<>> /\ new[1] = lines[1]
  <2>1. \A j \in 1..Len(O) : new[j] = O[j]
    BY <1>1, <1>4
  <2>2. CASE i = 1
    <3>1. O = <<>>
      BY <2>2 DEF Reduced, O
    <3> QED
      BY <1>1, <1>8, <2>2, <3>1 DEF new
  <2>3. CASE i # 1
    <3>1. O # <<>> /\ O[1] = lines[1]
      BY <1>9, <1>21, <2>3 DEF Reduced, O
    <3>2. Len(O) >= 1 /\ 1 \in 1..Len(O)
      BY <1>4, <3>1
    <3> QED
      BY <1>14, <2>1, <3>1, <3>2
  <2> QED
    BY <2>2, <2>3
<1> HIDE DEF q, new
<1>22. Reduced(lines, s, i, q)
  BY <1>3, <1>4, <1>11, <1>13, <1>14, <1>15, <1>17, <1>18, <1>19, <1>20, <1>21 DEF Reduced
<1> QED
  BY <1>12, <1>22 DEF x

\* rmdel may take out the brackets of a delta that encloses no other's.
LEMMA BodyIsReduced ==
  ASSUME NEW lines \in Seq(Line), Woven(lines), NEW s, \A t : ~Encloses(lines, s, t),
         OpenI(lines, Len(lines)) = {}, OpenD(lines, Len(lines)) = {}
  PROVE  /\ RemoveBody(lines, s).ok
         /\ \E r : Reduced(lines, s, Len(lines), r) /\ RemoveBody(lines, s).out = r.out
<1> DEFINE n == Len(lines)
           F == RemoveLoop(lines, s)
           Good == {i \in 0..n : Reduced(lines, s, i, F[i])}
<1>1. /\ n \in Nat /\ F \in [0..n -> RemovalStates]
      /\ F[0] = [state |-> "COPY", out |-> <<>>, ok |-> TRUE]
      /\ \A i \in 1..n : F[i] = RemoveLine(F[i - 1], lines[i], s)
  BY RemoveLoopIs
<1> HIDE DEF F
<1>2. 0 \in Good
  <2>1. Reduced(lines, s, 0, F[0])
    BY Zenon, <1>1, ReducedStart
  <2>2. 0 \in 0..n
    BY <1>1
  <2> QED
    BY Zenon, <2>1, <2>2
<1>3. ASSUME NEW i \in 1..n, i - 1 \in Good PROVE i \in Good
  <2>1. i \in 0..n /\ i - 1 \in 0..n /\ Reduced(lines, s, i - 1, F[i - 1]) /\ F[i - 1] \in RemovalStates
    BY <1>1, <1>3
  <2> DEFINE r == F[i - 1]
  <2>2. F[i] = RemoveLine(r, lines[i], s)
    BY <1>1
  <2>3. r \in RemovalStates /\ Reduced(lines, s, i - 1, r)
    BY <2>1
  <2> HIDE DEF r
  <2>4. r = [state |-> r.state, out |-> r.out, ok |-> TRUE]
    <3>1. r.ok
      BY <2>3 DEF Reduced
    <3>2. r.ok = TRUE
      BY <2>3, <3>1 DEF RemovalStates
    <3>3. r = [state |-> r.state, out |-> r.out, ok |-> r.ok]
      BY <2>3 DEF RemovalStates
    <3> QED
      BY Zenon, <3>2, <3>3
  <2>8. Reduced(lines, s, i, RemoveLine(r, lines[i], s))
    <3>1. lines[i] \in Line
      OBVIOUS
    <3>2. lines[i].k = "text" \/ IsControl(lines[i])
      BY <3>1, LineIs
    <3>3. CASE lines[i].k = "text"
      BY Zenon, <2>3, <2>4, <3>3, ReducedText
    <3>4. CASE IsControl(lines[i]) /\ lines[i].seq = s
      BY Zenon, <2>3, <3>4, ReducedOwn
    <3>5. CASE IsControl(lines[i]) /\ lines[i].seq # s
      BY Zenon, <2>3, <3>5, ReducedOther
    <3> QED
      BY Zenon, <3>2, <3>3, <3>4, <3>5
  <2> QED
    BY <2>1, <2>2, <2>8
<1> HIDE DEF Good
<1>4. \A i \in 0..n : i \in Good
  BY <1>1, <1>2, <1>3, UpwardInduction
<1>5. Reduced(lines, s, n, F[n])
  BY <1>1, <1>4 DEF Good
<1>6. F[n].ok /\ F[n].state = "COPY"
  BY <1>5 DEF Reduced
<1>7. RemoveBody(lines, s) = [out |-> F[n].out, ok |-> F[n].ok /\ F[n].state = "COPY"]
  <2>1. RemoveBody(lines, s) =
          [out |-> RemoveLoop(lines, s)[Len(lines)].out,
           ok |-> RemoveLoop(lines, s)[Len(lines)].ok /\ RemoveLoop(lines, s)[Len(lines)].state = "COPY"]
    BY DEF RemoveBody, RemoveLoop
  <2> QED
    BY Zenon, <2>1 DEF F, n
<1>8. RemoveBody(lines, s).ok /\ RemoveBody(lines, s).out = F[n].out
  <2> DEFINE both == F[n].ok /\ F[n].state = "COPY"
  <2>1. RemoveBody(lines, s) = [out |-> F[n].out, ok |-> both]
    BY Zenon, <1>7
  <2>2. both
    BY <1>6
  <2> HIDE DEF both, F
  <2>3. RemoveBody(lines, s).ok = both /\ RemoveBody(lines, s).out = F[n].out
    BY <2>1
  <2> QED
    BY Zenon, <2>2, <2>3
<1> QED
  BY <1>5, <1>8 DEF n

-----------------------------------------------------------------------------
(* The delta table.                                                        *)

DeltaEntries ==
  [type : {"D", "R"}, prev : Nat, incl : SUBSET Nat, excl : SUBSET Nat, ignd : SUBSET Nat,
   inserted : Nat, deleted : Nat, unchanged : Nat]

\* A table in which every delta comes after the deltas it depends on.
Ordered(tab) ==
  /\ tab \in Seq(DeltaEntries)
  /\ \A s \in 1..Len(tab) : /\ tab[s].prev \in 0..(s - 1)
                            /\ tab[s].incl \subseteq 1..(s - 1)
                            /\ tab[s].excl \subseteq 1..(s - 1)
                            /\ tab[s].ignd = {}

LEMMA EntryIs ==
  ASSUME NEW tab, Ordered(tab), NEW s \in 1..Len(tab)
  PROVE  /\ tab[s] \in DeltaEntries /\ tab[s].prev \in Nat /\ tab[s].incl \in SUBSET Nat
         /\ tab[s].excl \in SUBSET Nat
<1>1. tab[s] \in DeltaEntries
  BY DEF Ordered
<1> QED
  BY <1>1 DEF DeltaEntries

\* A set that has, with a delta, its predecessor and what it includes.
Closed(tab, S) ==
  0 \in S /\ \A u \in S \cap (1..Len(tab)) : tab[u].prev \in S /\ tab[u].incl \subseteq S

\* The ancestors of a delta: what every set has that has the delta and, with a delta,
\* its predecessor.
Lineage(tab, S) == 0 \in S /\ \A u \in S \cap (1..Len(tab)) : tab[u].prev \in S
Ancestors(tab, s) ==
  {z \in 0..Len(tab) : \A S \in SUBSET (0..Len(tab)) : s \in S /\ Lineage(tab, S) => z \in S}

LEMMA AncestorsAre ==
  ASSUME NEW tab, Ordered(tab)
  PROVE  /\ Ancestors(tab, 0) = {0}
         /\ \A s \in 1..Len(tab) :
              Ancestors(tab, s) = {s} \cup Ancestors(tab, tab[s].prev)
<1>0. Len(tab) \in Nat
  BY DEF Ordered
<1>1. Ancestors(tab, 0) = {0}
  <2>1. {0} \in SUBSET (0..Len(tab)) /\ Lineage(tab, {0})
    BY <1>0 DEF Lineage
  <2>2. \A z \in Ancestors(tab, 0) : z \in {0}
    BY <2>1 DEF Ancestors
  <2>3. 0 \in Ancestors(tab, 0)
    BY <1>0 DEF Ancestors
  <2> QED
    BY <2>2, <2>3
<1>2. ASSUME NEW s \in 1..Len(tab)
      PROVE  Ancestors(tab, s) = {s} \cup Ancestors(tab, tab[s].prev)
  <2> DEFINE p == tab[s].prev
  <2>1. s \in 0..Len(tab) /\ p \in 0..Len(tab)
    BY <1>0 DEF Ordered
  <2>2. ASSUME NEW z \in {s} \cup Ancestors(tab, p) PROVE z \in Ancestors(tab, s)
    <3>1. ASSUME NEW S \in SUBSET (0..Len(tab)), s \in S, Lineage(tab, S) PROVE z \in S
      <4>1. p \in S
        BY <3>1 DEF Lineage
      <4> QED
        BY <2>2, <3>1, <4>1 DEF Ancestors
    <3>2. z \in 0..Len(tab)
      BY <2>1, <2>2 DEF Ancestors
    <3> QED
      BY <3>1, <3>2 DEF Ancestors
  <2>3. ASSUME NEW z \in Ancestors(tab, s), z # s PROVE z \in Ancestors(tab, p)
    <3>1. ASSUME NEW S \in SUBSET (0..Len(tab)), p \in S, Lineage(tab, S) PROVE z \in S
      <4>1. S \cup {s} \in SUBSET (0..Len(tab)) /\ s \in S \cup {s}
        BY <2>1
      <4>2. Lineage(tab, S \cup {s})
        BY <3>1 DEF Lineage
      <4>3. z \in S \cup {s}
        BY <4>1, <4>2 DEF Ancestors
      <4> QED
        BY <2>3, <4>3
    <3>2. z \in 0..Len(tab)
      BY DEF Ancestors
    <3> QED
      BY <3>1, <3>2 DEF Ancestors
  <2> QED
    BY <2>2, <2>3
<1> QED
  BY <1>1, <1>2

AncestryLoop(tab, seq) ==
  LET anc[y \in 0..seq] ==
        IF y = 0 THEN {0} ELSE {y} \cup anc[tab[y].prev]
  IN  anc

\* The walk to the root finds the ancestors.
LEMMA AncestryIs ==
  ASSUME NEW tab, Ordered(tab), NEW seq \in 0..Len(tab)
  PROVE  Ancestry(tab, seq) = Ancestors(tab, seq)
<1> DEFINE F == AncestryLoop(tab, seq)
           Body0(f) == [y \in 0..seq |-> IF y = 0 THEN {0} ELSE {y} \cup f[tab[y].prev]]
           f == [y \in 0..seq |-> Ancestors(tab, y)]
<1>0. Len(tab) \in Nat /\ seq \in Nat /\ \A y \in 1..seq : y \in 1..Len(tab)
  BY DEF Ordered
<1>1. F = CHOOSE g : g = Body0(g)
  BY Zenon DEF AncestryLoop
<1> HIDE DEF F
<1>2. \A y \in 1..seq : tab[y].prev \in 0..(y - 1)
  BY <1>0 DEF Ordered
<1>3. f = Body0(f)
  <2>1. ASSUME NEW y \in 0..seq
        PROVE  f[y] = IF y = 0 THEN {0} ELSE {y} \cup f[tab[y].prev]
    <3>1. CASE y = 0
      BY <3>1, AncestorsAre
    <3>2. CASE y # 0
      <4>1. y \in 1..seq
        BY <1>0, <3>2
      <4>2. tab[y].prev \in 0..seq
        BY <1>0, <1>2, <4>1
      <4>3. f[tab[y].prev] = Ancestors(tab, tab[y].prev) /\ f[y] = Ancestors(tab, y)
        BY <4>2
      <4>4. Ancestors(tab, y) = {y} \cup Ancestors(tab, tab[y].prev)
        BY <1>0, <4>1, AncestorsAre
      <4> QED
        BY Zenon, <3>2, <4>3, <4>4
    <3> QED
      BY <3>1, <3>2
  <2> QED
    BY Zenon, <2>1
<1>4. F = Body0(F)
  <2> HIDE DEF f
  <2> QED
    BY Zenon, <1>1, <1>3
<1>5. \A y \in 0..seq : F[y] = IF y = 0 THEN {0} ELSE {y} \cup F[tab[y].prev]
  BY Zenon, <1>4
<1> DEFINE Bad == {y \in 0..seq : F[y] # Ancestors(tab, y)}
<1>6. Bad = {}
  <2>1. SUFFICES ASSUME Bad # {} PROVE FALSE
    OBVIOUS
  <2>2. PICK y \in Bad : \A z \in Bad : y <= z
    <3>1. Bad \subseteq Nat
      OBVIOUS
    <3> HIDE DEF Bad
    <3> QED
      BY <2>1, <3>1, LeastNumber
  <2>3. y # 0
    BY <1>5, AncestorsAre
  <2>4. y \in 1..seq
    BY <1>0, <2>3
  <2>5. tab[y].prev \in 0..seq /\ tab[y].prev < y
    BY <1>0, <1>2, <2>4
  <2>6. F[tab[y].prev] = Ancestors(tab, tab[y].prev)
    BY <2>2, <2>5
  <2>7. F[y] = {y} \cup F[tab[y].prev]
    BY <1>5, <2>3, <2>4
  <2>8. Ancestors(tab, y) = {y} \cup Ancestors(tab, tab[y].prev)
    BY <1>0, <2>4, AncestorsAre
  <2>9. F[y] # Ancestors(tab, y)
    OBVIOUS
  <2> QED
    BY Zenon, <2>6, <2>7, <2>8, <2>9
<1>7. F[seq] = Ancestors(tab, seq)
  BY <1>0, <1>6
<1>8. Ancestry(tab, seq) = F[seq]
  BY Zenon DEF Ancestry, AncestryLoop, F
<1> QED
  BY <1>7, <1>8

-----------------------------------------------------------------------------
(* The preparation of a version.                                           *)

Included(x, tab, y) == IF y \in x.included THEN SetIncluded(x, tab[y].incl \ {y}) ELSE x
Excluded(x, tab, y) == IF y \in x.included THEN SetExcluded(x, tab[y].excl \ {y}) ELSE x

InclusionLoop(ss, tab, seq) ==
  LET upto[y \in 1..(seq + 1)] ==
        IF y = seq + 1 THEN ss ELSE Included(upto[y + 1], tab, y)
  IN  upto

ExclusionLoop(ss, tab, seq) ==
  LET upto[y \in 0..seq] ==
        IF y = 0 THEN ss ELSE Excluded(upto[y - 1], tab, y)
  IN  upto

IgnoreLoop(ss, tab, seq) ==
  LET upto[y \in 1..(seq + 1)] ==
        IF y = seq + 1 THEN ss
        ELSE LET t == upto[y + 1] IN
             IF y \in t.included THEN SetIgnored(t, tab[y].ignd \ {y}) ELSE t
  IN  upto

LEMMA SettersTyped ==
  ASSUME NEW ss \in SeqStates, NEW S \in SUBSET Nat
  PROVE  /\ SetIncluded(ss, S) \in SeqStates /\ SetExcluded(ss, S) \in SeqStates
         /\ SetIgnored(ss, S) \in SeqStates
BY DEF SeqStates, SetIncluded, SetExcluded, SetIgnored

\* The inclusions, delta by delta.
LEMMA InclusionsAre ==
  ASSUME NEW tab, Ordered(tab), NEW seq \in 0..Len(tab), NEW ss \in SeqStates
  PROVE  /\ InclusionLoop(ss, tab, seq) \in [1..(seq + 1) -> SeqStates]
         /\ InclusionLoop(ss, tab, seq)[seq + 1] = ss
         /\ \A i \in 1..seq : InclusionLoop(ss, tab, seq)[i] = Included(InclusionLoop(ss, tab, seq)[i + 1], tab, i)
<1> DEFINE n == seq
           T == SeqStates
           base == ss
           step == [i \in 1..n |-> [x \in T |-> Included(x, tab, i)]]
           F == InclusionLoop(ss, tab, seq)
           Body0(f) == [i \in 1..(n + 1) |-> IF i = n + 1 THEN base ELSE Included(f[i + 1], tab, i)]
<1>1. n \in Nat /\ base \in T
  BY DEF Ordered
<1>2. ASSUME NEW i \in 1..n, NEW x \in T PROVE Included(x, tab, i) \in T
  <2>3. i \in 1..Len(tab)
    BY DEF Ordered
  <2>1. tab[i].incl \in SUBSET Nat
    BY <2>3, EntryIs
  <2>2. tab[i].incl \ {i} \in SUBSET Nat
    BY <2>1
  <2> QED
    BY <2>2, SettersTyped DEF Included
<1>3. step \in [1..n -> [T -> T]]
  BY <1>2
<1>4. \A i \in 1..n : \A x \in T : step[i][x] = Included(x, tab, i)
  OBVIOUS
<1>5. F = CHOOSE f : f = Body0(f)
  BY Zenon DEF InclusionLoop
<1> HIDE DEF step, F, base, n, T
<1>6. PICK f : Downward(f, n, T, base, step)
  BY <1>1, <1>3, DownwardRecursion
<1>7. f \in [1..(n + 1) -> T] /\ f[n + 1] = base /\ \A i \in 1..n : f[i] = step[i][f[i + 1]]
  BY <1>6 DEF Downward
<1>8. f = Body0(f)
  <2>1. ASSUME NEW i \in 1..(n + 1)
        PROVE  f[i] = IF i = n + 1 THEN base ELSE Included(f[i + 1], tab, i)
    <3>1. CASE i = n + 1
      BY <1>7, <3>1
    <3>2. CASE i # n + 1
      <4>1. i \in 1..n /\ i + 1 \in 1..(n + 1)
        BY <1>1, <3>2
      <4>2. f[i + 1] \in T
        BY <1>7, <4>1
      <4>3. f[i] = step[i][f[i + 1]]
        BY <1>7, <4>1
      <4>4. step[i][f[i + 1]] = Included(f[i + 1], tab, i)
        BY <1>4, <4>1, <4>2
      <4> QED
        BY <4>3, <4>4, <3>2
    <3> QED
      BY <3>1, <3>2
  <2>2. f = [i \in 1..(n + 1) |-> f[i]]
    BY <1>7
  <2> QED
    BY <2>1, <2>2
<1>9. F = Body0(F)
  BY Zenon, <1>5, <1>8
<1>10. \A i \in 1..(n + 1) : F[i] = IF i = n + 1 THEN base ELSE Included(F[i + 1], tab, i)
  BY Zenon, <1>9
<1>11. DOMAIN F = 1..(n + 1) /\ F = [i \in 1..(n + 1) |-> F[i]]
  BY Zenon, <1>9
<1>12. n + 1 \in 1..(n + 1) /\ \A i \in 1..n : i \in 1..(n + 1) /\ i # n + 1
  BY <1>1
<1>13. F[n + 1] = base /\ \A i \in 1..n : F[i] = Included(F[i + 1], tab, i)
  BY Zenon, <1>10, <1>12
<1>14. F \in [1..(n + 1) -> T]
  <2> DEFINE Good == {i \in 1..(n + 1) : F[i] \in T}
  <2>1. n + 1 \in Good
    BY <1>1, <1>12, <1>13
  <2>2. ASSUME NEW i \in 1..n, i + 1 \in Good PROVE i \in Good
    BY <2>2, <1>2, <1>12, <1>13
  <2> HIDE DEF Good
  <2>3. \A i \in 1..(n + 1) : i \in Good
    BY <1>1, <2>1, <2>2, DownwardInduction
  <2>4. \A i \in 1..(n + 1) : F[i] \in T
    BY <2>3 DEF Good
  <2> QED
    BY <1>11, <2>4
<1> QED
  BY <1>13, <1>14 DEF F, n, T, base

\* The exclusions, delta by delta.
LEMMA ExclusionsAre ==
  ASSUME NEW tab, Ordered(tab), NEW seq \in 0..Len(tab), NEW ss \in SeqStates
  PROVE  /\ ExclusionLoop(ss, tab, seq) \in [0..seq -> SeqStates]
         /\ ExclusionLoop(ss, tab, seq)[0] = ss
         /\ \A i \in 1..seq : ExclusionLoop(ss, tab, seq)[i] = Excluded(ExclusionLoop(ss, tab, seq)[i - 1], tab, i)
<1> DEFINE n == seq
           T == SeqStates
           base == ss
           step == [i \in 1..n |-> [x \in T |-> Excluded(x, tab, i)]]
           F == ExclusionLoop(ss, tab, seq)
           Body0(f) == [i \in 0..n |-> IF i = 0 THEN base ELSE Excluded(f[i - 1], tab, i)]
<1>1. n \in Nat /\ base \in T
  BY DEF Ordered
<1>2. ASSUME NEW i \in 1..n, NEW x \in T PROVE Excluded(x, tab, i) \in T
  <2>3. i \in 1..Len(tab)
    BY DEF Ordered
  <2>1. tab[i].excl \in SUBSET Nat
    BY <2>3, EntryIs
  <2>2. tab[i].excl \ {i} \in SUBSET Nat
    BY <2>1
  <2> QED
    BY <2>2, SettersTyped DEF Excluded
<1>3. step \in [1..n -> [T -> T]]
  BY <1>2
<1>4. \A i \in 1..n : \A x \in T : step[i][x] = Excluded(x, tab, i)
  OBVIOUS
<1>5. F = CHOOSE f : f = Body0(f)
  BY Zenon DEF ExclusionLoop
<1> HIDE DEF step, F, base, n, T
<1>6. PICK f : Upward(f, n, T, base, step)
  BY <1>1, <1>3, UpwardRecursion
<1>7. f \in [0..n -> T] /\ f[0] = base /\ \A i \in 1..n : f[i] = step[i][f[i - 1]]
  BY <1>6 DEF Upward
<1>8. f = Body0(f)
  <2>1. ASSUME NEW i \in 0..n
        PROVE  f[i] = IF i = 0 THEN base ELSE Excluded(f[i - 1], tab, i)
    <3>1. CASE i = 0
      BY <1>7, <3>1
    <3>2. CASE i # 0
      <4>1. i \in 1..n /\ i - 1 \in 0..n
        BY <1>1, <3>2
      <4>2. f[i - 1] \in T
        BY <1>7, <4>1
      <4>3. f[i] = step[i][f[i - 1]]
        BY <1>7, <4>1
      <4>4. step[i][f[i - 1]] = Excluded(f[i - 1], tab, i)
        BY <1>4, <4>1, <4>2
      <4> QED
        BY <4>3, <4>4, <3>2
    <3> QED
      BY <3>1, <3>2
  <2>2. f = [i \in 0..n |-> f[i]]
    BY <1>7
  <2> QED
    BY <2>1, <2>2
<1>9. F = Body0(F)
  BY Zenon, <1>5, <1>8
<1>10. \A i \in 0..n : F[i] = IF i = 0 THEN base ELSE Excluded(F[i - 1], tab, i)
  BY Zenon, <1>9
<1>11. DOMAIN F = 0..n /\ F = [i \in 0..n |-> F[i]]
  BY Zenon, <1>9
<1>12. 0 \in 0..n /\ \A i \in 1..n : i \in 0..n /\ i # 0
  BY <1>1
<1>13. F[0] = base /\ \A i \in 1..n : F[i] = Excluded(F[i - 1], tab, i)
  BY Zenon, <1>10, <1>12
<1>14. F \in [0..n -> T]
  <2> DEFINE S == {i \in 0..n : F[i] \in T}
  <2>1. 0 \in S
    BY <1>1, <1>12, <1>13
  <2>2. ASSUME NEW i \in 1..n, i - 1 \in S PROVE i \in S
    BY <2>2, <1>2, <1>12, <1>13
  <2> HIDE DEF S
  <2>3. \A i \in 0..n : i \in S
    BY <1>1, <2>1, <2>2, UpwardInduction
  <2>4. \A i \in 0..n : F[i] \in T
    BY <2>3 DEF S
  <2> QED
    BY <1>11, <2>4
<1> QED
  BY <1>13, <1>14 DEF F, n, T, base

LEMMA IgnoringNothing ==
  ASSUME NEW ss \in SeqStates, ss.ignored = {}
  PROVE  SetIgnored(ss, {}) = ss
BY DEF SeqStates, SetIgnored

\* No delta ignores another.
LEMMA IgnoresAre ==
  ASSUME NEW tab, Ordered(tab), NEW seq \in 0..Len(tab), NEW ss \in SeqStates, ss.ignored = {}
  PROVE  ApplyIgnores(ss, tab, seq) = ss
<1> DEFINE F == IgnoreLoop(ss, tab, seq)
           Body0(g) == [y \in 1..(seq + 1) |->
                          IF y = seq + 1 THEN ss
                          ELSE LET t == g[y + 1] IN
                               IF y \in t.included THEN SetIgnored(t, tab[y].ignd \ {y}) ELSE t]
           f == [y \in 1..(seq + 1) |-> ss]
<1>1. F = CHOOSE g : g = Body0(g)
  BY Zenon DEF IgnoreLoop
<1>2. seq \in Nat /\ \A y \in 1..seq : tab[y].ignd \ {y} = {} /\ y + 1 \in 1..(seq + 1)
  BY DEF Ordered
<1>3. SetIgnored(ss, {}) = ss
  BY IgnoringNothing
<1> HIDE DEF F
<1>4. f = Body0(f)
  <2>1. ASSUME NEW y \in 1..(seq + 1)
        PROVE  ss = IF y = seq + 1 THEN ss
                    ELSE LET t == f[y + 1] IN
                         IF y \in t.included THEN SetIgnored(t, tab[y].ignd \ {y}) ELSE t
    <3>1. CASE y = seq + 1
      BY <3>1
    <3>2. CASE y # seq + 1
      <4>1. y \in 1..seq
        BY <1>2, <3>2
      <4>2. f[y + 1] = ss /\ tab[y].ignd \ {y} = {}
        BY <1>2, <4>1
      <4> QED
        BY Zenon, <1>3, <3>2, <4>2
    <3> QED
      BY <3>1, <3>2
  <2> QED
    BY Zenon, <2>1
<1>5. F = Body0(F)
  <2> HIDE DEF f
  <2> QED
    BY Zenon, <1>1, <1>4
<1>6. \A y \in 1..(seq + 1) : F[y] = IF y = seq + 1 THEN ss
                    ELSE LET t == F[y + 1] IN
                         IF y \in t.included THEN SetIgnored(t, tab[y].ignd \ {y}) ELSE t
  BY Zenon, <1>5
<1> DEFINE Good == {y \in 1..(seq + 1) : F[y] = ss}
<1>7. seq + 1 \in Good
  <2>1. seq + 1 \in 1..(seq + 1)
    BY <1>2
  <2> QED
    BY <1>6, <2>1
<1>8. ASSUME NEW y \in 1..seq, y + 1 \in Good PROVE y \in Good
  <2>1. y \in 1..(seq + 1) /\ y # seq + 1
    BY <1>2
  <2>2. F[y + 1] = ss /\ tab[y].ignd \ {y} = {}
    BY <1>2, <1>8
  <2>3. F[y] = ss
    BY Zenon, <1>3, <1>6, <2>1, <2>2
  <2> QED
    BY <2>1, <2>3
<1> HIDE DEF Good
<1>9. \A y \in 1..(seq + 1) : y \in Good
  BY <1>2, <1>7, <1>8, DownwardInduction
<1>10. F[1] = ss
  BY <1>2, <1>9 DEF Good
<1>11. ApplyIgnores(ss, tab, seq) = F[1]
  BY Zenon DEF ApplyIgnores, IgnoreLoop, F
<1> QED
  BY <1>10, <1>11

\* What the preparation leaves alone.
Frame(ss, x) ==
  /\ x \in SeqStates /\ x.last = ss.last /\ x.inserts = ss.inserts /\ x.deletes = ss.deletes
  /\ x.ignored = {} /\ x.explicit = ss.explicit

LEMMA IncludedFrame ==
  ASSUME NEW ss, NEW x, Frame(ss, x), NEW S \in SUBSET Nat
  PROVE  /\ Frame(ss, SetIncluded(x, S)) /\ Frame(ss, SetExcluded(x, S))
         /\ SetIncluded(x, S).included = x.included \cup S
         /\ SetIncluded(x, S).excluded = x.excluded \ S
         /\ SetExcluded(x, S).included = x.included \ S
         /\ SetExcluded(x, S).excluded = x.excluded \cup S
BY DEF Frame, SeqStates, SetIncluded, SetExcluded

\* Nothing is tagged.
Fresh(ss) == ss \in SeqStates /\ Frame(ss, ss) /\ ss.included = {} /\ ss.excluded = {}

LEMMA NewSeqStateIs ==
  ASSUME NEW last \in Nat
  PROVE  /\ Fresh(NewSeqState(last))
         /\ NewSeqState(last) \in SeqStates /\ Frame(NewSeqState(last), NewSeqState(last))
         /\ NewSeqState(last).last = last
         /\ NewSeqState(last).included = {} /\ NewSeqState(last).excluded = {}
         /\ NewSeqState(last).inserts = {} /\ NewSeqState(last).deletes = {}
         /\ NewSeqState(last).explicit = {} /\ NewSeqState(last).ignored = {}
BY DEF NewSeqState, SeqStates, Frame, Fresh

\* The three loops by name.
Start1(ss, tab, seq) == SetIncluded(ss, Ancestors(tab, seq))
After1(ss, tab, seq) == InclusionLoop(Start1(ss, tab, seq), tab, seq)[1]

LEMMA PreparedIs ==
  ASSUME NEW tab, Ordered(tab), NEW seq \in 0..Len(tab), NEW ss, Fresh(ss)
  PROVE  /\ Frame(ss, Start1(ss, tab, seq))
         /\ Start1(ss, tab, seq).included = Ancestors(tab, seq)
         /\ Start1(ss, tab, seq).excluded = {}
         /\ InclusionLoop(Start1(ss, tab, seq), tab, seq)[seq + 1] = Start1(ss, tab, seq)
         /\ \A y \in 1..seq : InclusionLoop(Start1(ss, tab, seq), tab, seq)[y] =
                               Included(InclusionLoop(Start1(ss, tab, seq), tab, seq)[y + 1], tab, y)
         /\ ExclusionLoop(After1(ss, tab, seq), tab, seq)[0] = After1(ss, tab, seq)
         /\ \A y \in 1..seq : ExclusionLoop(After1(ss, tab, seq), tab, seq)[y] =
                               Excluded(ExclusionLoop(After1(ss, tab, seq), tab, seq)[y - 1], tab, y)
         /\ \A y \in 1..(seq + 1) : Frame(ss, InclusionLoop(Start1(ss, tab, seq), tab, seq)[y])
         /\ \A y \in 0..seq : Frame(ss, ExclusionLoop(After1(ss, tab, seq), tab, seq)[y])
         /\ PrepareSeqstate1(ss, tab, seq) = ExclusionLoop(After1(ss, tab, seq), tab, seq)[seq]
<1> DEFINE a == Start1(ss, tab, seq)
           F == InclusionLoop(a, tab, seq)
           b == After1(ss, tab, seq)
           G == ExclusionLoop(b, tab, seq)
<1>0. seq \in Nat /\ \A y \in 1..seq : y \in 1..Len(tab) /\ tab[y].incl \in SUBSET Nat /\ tab[y].excl \in SUBSET Nat
  <2>1. seq \in Nat /\ \A y \in 1..seq : y \in 1..Len(tab)
    BY DEF Ordered
  <2> QED
    BY <2>1, EntryIs
<1>1. Frame(ss, a) /\ a.included = Ancestors(tab, seq) /\ a.excluded = {}
  <2>1. Ancestors(tab, seq) \in SUBSET Nat
    BY DEF Ancestors, Ordered
  <2>3. Frame(ss, ss)
    BY DEF Fresh
  <2>4. a = SetIncluded(ss, Ancestors(tab, seq))
    BY DEF Start1
  <2> HIDE DEF a
  <2>2. /\ Frame(ss, a) /\ a.included = ss.included \cup Ancestors(tab, seq)
        /\ a.excluded = ss.excluded \ Ancestors(tab, seq)
    BY <2>1, <2>3, <2>4, IncludedFrame
  <2> QED
    BY <2>2 DEF Fresh
<1>2. a \in SeqStates
  BY <1>1 DEF Frame
<1> HIDE DEF a
<1>3. /\ F \in [1..(seq + 1) -> SeqStates] /\ F[seq + 1] = a
      /\ \A y \in 1..seq : F[y] = Included(F[y + 1], tab, y)
  BY <1>2, InclusionsAre
<1>4. b = F[1]
  BY DEF After1, a
<1> HIDE DEF F
<1> DEFINE Good == {y \in 1..(seq + 1) : Frame(ss, F[y])}
<1>5. seq + 1 \in Good
  <2>1. seq + 1 \in 1..(seq + 1)
    BY <1>0
  <2> QED
    BY <1>1, <1>3, <2>1
<1>6. ASSUME NEW y \in 1..seq, y + 1 \in Good PROVE y \in Good
  <2>1. y \in 1..(seq + 1) /\ Frame(ss, F[y + 1])
    BY <1>0, <1>6
  <2>2. tab[y].incl \ {y} \in SUBSET Nat
    BY <1>0
  <2>3. Frame(ss, SetIncluded(F[y + 1], tab[y].incl \ {y}))
    BY <2>1, <2>2, IncludedFrame
  <2>4. Frame(ss, F[y])
    BY <1>3, <2>1, <2>3 DEF Included
  <2> QED
    BY <2>1, <2>4
<1> HIDE DEF Good
<1>7. \A y \in 1..(seq + 1) : y \in Good
  BY <1>0, <1>5, <1>6, DownwardInduction
<1>8. \A y \in 1..(seq + 1) : Frame(ss, F[y])
  BY <1>7 DEF Good
<1>9. Frame(ss, b) /\ b \in SeqStates
  <2>1. 1 \in 1..(seq + 1)
    BY <1>0
  <2> QED
    BY <1>4, <1>8, <2>1 DEF Frame
<1> HIDE DEF b
<1>10. /\ G \in [0..seq -> SeqStates] /\ G[0] = b
       /\ \A y \in 1..seq : G[y] = Excluded(G[y - 1], tab, y)
  BY <1>9, ExclusionsAre
<1> HIDE DEF G
<1> DEFINE Fine == {y \in 0..seq : Frame(ss, G[y])}
<1>11. 0 \in Fine
  BY <1>0, <1>9, <1>10
<1>12. ASSUME NEW y \in 1..seq, y - 1 \in Fine PROVE y \in Fine
  <2>1. y \in 0..seq /\ Frame(ss, G[y - 1])
    BY <1>0, <1>12
  <2>2. tab[y].excl \ {y} \in SUBSET Nat
    BY <1>0
  <2>3. Frame(ss, SetExcluded(G[y - 1], tab[y].excl \ {y}))
    BY <2>1, <2>2, IncludedFrame
  <2>4. Frame(ss, G[y])
    BY <1>10, <2>1, <2>3 DEF Excluded
  <2> QED
    BY <2>1, <2>4
<1> HIDE DEF Fine
<1>13. \A y \in 0..seq : y \in Fine
  BY <1>0, <1>11, <1>12, UpwardInduction
<1>14. \A y \in 0..seq : Frame(ss, G[y])
  BY <1>13 DEF Fine
<1>15. PrepareSeqstate1(ss, tab, seq) = G[seq]
  <2>1. Ancestry(tab, seq) = Ancestors(tab, seq)
    BY AncestryIs
  <2>2. ApplyInclusions(a, tab, seq) = F[1]
    BY Zenon DEF ApplyInclusions, InclusionLoop, Included, F
  <2>3. ApplyExclusions(b, tab, seq) = G[seq]
    BY Zenon DEF ApplyExclusions, ExclusionLoop, Excluded, G
  <2>4. G[seq] \in SeqStates /\ G[seq].ignored = {}
    BY <1>0, <1>14 DEF Frame
  <2>5. ApplyIgnores(G[seq], tab, seq) = G[seq]
    BY <2>4, IgnoresAre
  <2>6. PrepareSeqstate1(ss, tab, seq) =
          ApplyIgnores(ApplyExclusions(ApplyInclusions(a, tab, seq), tab, seq), tab, seq)
    BY Zenon, <2>1 DEF PrepareSeqstate1, a, Start1
  <2> QED
    BY Zenon, <1>4, <2>2, <2>3, <2>5, <2>6
<1> QED
  BY <1>1, <1>3, <1>8, <1>10, <1>14, <1>15 DEF a, F, b, G

\* A version has only what the requested delta depends on.
LEMMA PreparedWithin ==
  ASSUME NEW tab, Ordered(tab), NEW seq \in 0..Len(tab), NEW ss, Fresh(ss)
  PROVE  \A S \in SUBSET Nat : Closed(tab, S) /\ seq \in S =>
           /\ After1(ss, tab, seq).included \subseteq S
           /\ PrepareSeqstate1(ss, tab, seq).included \subseteq S
<1> DEFINE a == Start1(ss, tab, seq)
           F == InclusionLoop(a, tab, seq)
           b == After1(ss, tab, seq)
           G == ExclusionLoop(b, tab, seq)
<1>0. seq \in Nat /\ \A y \in 1..seq : y \in 1..Len(tab) /\ tab[y].incl \in SUBSET Nat /\ tab[y].excl \in SUBSET Nat
  <2>1. seq \in Nat /\ \A y \in 1..seq : y \in 1..Len(tab)
    BY DEF Ordered
  <2> QED
    BY <2>1, EntryIs
<1>1. /\ Frame(ss, a) /\ a.included = Ancestors(tab, seq)
      /\ F[seq + 1] = a /\ \A y \in 1..seq : F[y] = Included(F[y + 1], tab, y)
      /\ G[0] = b /\ \A y \in 1..seq : G[y] = Excluded(G[y - 1], tab, y)
      /\ \A y \in 1..(seq + 1) : Frame(ss, F[y])
      /\ \A y \in 0..seq : Frame(ss, G[y])
      /\ PrepareSeqstate1(ss, tab, seq) = G[seq]
  <2>1. Frame(ss, a)
    BY PreparedIs
  <2>6. a.included = Ancestors(tab, seq)
    BY PreparedIs
  <2>2. F[seq + 1] = a /\ \A y \in 1..seq : F[y] = Included(F[y + 1], tab, y)
    BY PreparedIs
  <2>3. G[0] = b /\ \A y \in 1..seq : G[y] = Excluded(G[y - 1], tab, y)
    BY PreparedIs
  <2>4. \A y \in 1..(seq + 1) : Frame(ss, F[y])
    BY PreparedIs
  <2>5. (\A y \in 0..seq : Frame(ss, G[y])) /\ PrepareSeqstate1(ss, tab, seq) = G[seq]
    BY PreparedIs
  <2> QED
    BY Zenon, <2>1, <2>2, <2>3, <2>4, <2>5, <2>6
<1> SUFFICES ASSUME NEW S \in SUBSET Nat, Closed(tab, S), seq \in S
             PROVE  b.included \subseteq S /\ G[seq].included \subseteq S
  BY <1>1
<1>2. Ancestors(tab, seq) \subseteq S
  <2> DEFINE T == S \cap (0..Len(tab))
  <2>1. seq \in T /\ T \in SUBSET (0..Len(tab))
    OBVIOUS
  <2>2. Lineage(tab, T)
    <3>1. ASSUME NEW u \in T \cap (1..Len(tab)) PROVE tab[u].prev \in T
      <4>1. tab[u].prev \in S
        BY DEF Closed
      <4>2. tab[u].prev \in 0..Len(tab)
        BY DEF Ordered
      <4> QED
        BY <4>1, <4>2
    <3>2. 0 \in T
      BY DEF Closed, Ordered
    <3> QED
      BY <3>1, <3>2 DEF Lineage
  <2> QED
    BY <2>1, <2>2 DEF Ancestors
<1>3. a.included \subseteq S
  BY <1>1, <1>2
<1>5. b = F[1]
  BY DEF After1
<1> HIDE DEF a
<1> HIDE DEF F
<1> DEFINE Good == {y \in 1..(seq + 1) : F[y].included \subseteq S}
<1>7. seq + 1 \in Good
  BY <1>0, <1>1, <1>3
<1>8. ASSUME NEW y \in 1..seq, y + 1 \in Good PROVE y \in Good
  <2>1. y \in 1..(seq + 1) /\ y + 1 \in 1..(seq + 1) /\ F[y + 1].included \subseteq S /\ Frame(ss, F[y + 1])
    BY <1>0, <1>1, <1>8
  <2>2. tab[y].incl \ {y} \in SUBSET Nat
    BY <1>0
  <2>3. SetIncluded(F[y + 1], tab[y].incl \ {y}).included = F[y + 1].included \cup (tab[y].incl \ {y})
    BY <2>1, <2>2, IncludedFrame
  <2>4. y \in F[y + 1].included => tab[y].incl \subseteq S
    BY <1>0, <2>1 DEF Closed
  <2>5. F[y].included \subseteq S
    BY <1>1, <2>1, <2>3, <2>4 DEF Included
  <2> QED
    BY <2>1, <2>5
<1> HIDE DEF Good
<1>9. \A y \in 1..(seq + 1) : y \in Good
  BY <1>0, <1>7, <1>8, DownwardInduction
<1>10. b.included \subseteq S
  BY <1>0, <1>5, <1>9 DEF Good
<1> HIDE DEF b
<1> HIDE DEF G
<1> DEFINE Fine == {y \in 0..seq : G[y].included \subseteq S}
<1>13. 0 \in Fine
  BY <1>0, <1>1, <1>10
<1>14. ASSUME NEW y \in 1..seq, y - 1 \in Fine PROVE y \in Fine
  <2>1. y \in 0..seq /\ y - 1 \in 0..seq /\ G[y - 1].included \subseteq S /\ Frame(ss, G[y - 1])
    BY <1>0, <1>1, <1>14
  <2>2. tab[y].excl \ {y} \in SUBSET Nat
    BY <1>0
  <2>3. SetExcluded(G[y - 1], tab[y].excl \ {y}).included = G[y - 1].included \ (tab[y].excl \ {y})
    BY <2>1, <2>2, IncludedFrame
  <2>4. G[y].included \subseteq S
    BY <1>1, <2>1, <2>3 DEF Excluded
  <2> QED
    BY <2>1, <2>4
<1> HIDE DEF Fine
<1>15. \A y \in 0..seq : y \in Fine
  BY <1>0, <1>13, <1>14, UpwardInduction
<1>16. G[seq].included \subseteq S
  BY <1>0, <1>15 DEF Fine
<1> QED
  BY <1>10, <1>16

\* The loops as sets: I are the deltas included, from the youngest to the oldest; J
\* those that remain and X those excluded, from the oldest to the youngest.
Loops(tab, seq, I, J, X) ==
  /\ I \in [1..(seq + 1) -> SUBSET Nat]
  /\ J \in [0..seq -> SUBSET Nat] /\ X \in [0..seq -> SUBSET Nat]
  /\ I[seq + 1] = Ancestors(tab, seq)
  /\ \A y \in 1..seq : I[y] = I[y + 1] \cup (IF y \in I[y + 1] THEN tab[y].incl ELSE {})
  /\ J[0] = I[1] /\ X[0] = {}
  /\ \A y \in 1..seq : /\ J[y] = J[y - 1] \ (IF y \in J[y - 1] THEN tab[y].excl ELSE {})
                       /\ X[y] = X[y - 1] \cup (IF y \in J[y - 1] THEN tab[y].excl ELSE {})

LEMMA LoopSteps ==
  ASSUME NEW tab, Ordered(tab), NEW y \in 1..Len(tab), NEW ss, NEW x, Frame(ss, x)
  PROVE  /\ Included(x, tab, y).included = x.included \cup (IF y \in x.included THEN tab[y].incl ELSE {})
         /\ Included(x, tab, y).excluded = x.excluded \ (IF y \in x.included THEN tab[y].incl ELSE {})
         /\ Excluded(x, tab, y).included = x.included \ (IF y \in x.included THEN tab[y].excl ELSE {})
         /\ Excluded(x, tab, y).excluded = x.excluded \cup (IF y \in x.included THEN tab[y].excl ELSE {})
<1>1. y \in Nat /\ tab[y].incl \subseteq 1..(y - 1) /\ tab[y].excl \subseteq 1..(y - 1)
  BY DEF Ordered
<1>2. tab[y].incl \ {y} = tab[y].incl /\ tab[y].excl \ {y} = tab[y].excl
  BY <1>1
<1>3. tab[y].incl \in SUBSET Nat /\ tab[y].excl \in SUBSET Nat
  BY EntryIs
<1>4. CASE y \in x.included
  <2>1. Included(x, tab, y) = SetIncluded(x, tab[y].incl) /\ Excluded(x, tab, y) = SetExcluded(x, tab[y].excl)
    BY Zenon, <1>2, <1>4 DEF Included, Excluded
  <2>2. /\ SetIncluded(x, tab[y].incl).included = x.included \cup tab[y].incl
        /\ SetIncluded(x, tab[y].incl).excluded = x.excluded \ tab[y].incl
    BY <1>3, IncludedFrame
  <2>3. /\ SetExcluded(x, tab[y].excl).included = x.included \ tab[y].excl
        /\ SetExcluded(x, tab[y].excl).excluded = x.excluded \cup tab[y].excl
    BY <1>3, IncludedFrame
  <2> QED
    BY Zenon, <1>4, <2>1, <2>2, <2>3
<1>5. CASE y \notin x.included
  <2>1. Included(x, tab, y) = x /\ Excluded(x, tab, y) = x
    BY Zenon, <1>5 DEF Included, Excluded
  <2>2. \A S : S \cup {} = S /\ S \ {} = S
    OBVIOUS
  <2> QED
    BY Zenon, <1>5, <2>1, <2>2
<1> QED
  BY <1>4, <1>5

LEMMA VersionLoops ==
  ASSUME NEW tab, Ordered(tab), NEW seq \in 0..Len(tab), NEW ss, Fresh(ss)
  PROVE  /\ Frame(ss, PrepareSeqstate1(ss, tab, seq))
         /\ \E I, J, X : /\ Loops(tab, seq, I, J, X)
                         /\ PrepareSeqstate1(ss, tab, seq).included = J[seq]
                         /\ PrepareSeqstate1(ss, tab, seq).excluded = X[seq]
<1> DEFINE a == Start1(ss, tab, seq)
           F == InclusionLoop(a, tab, seq)
           b == After1(ss, tab, seq)
           G == ExclusionLoop(b, tab, seq)
<1>0. seq \in Nat /\ \A y \in 1..seq : y \in 1..Len(tab)
  BY DEF Ordered
<1>1. F[seq + 1] = a /\ \A y \in 1..seq : F[y] = Included(F[y + 1], tab, y)
  BY PreparedIs
<1>2. G[0] = b /\ \A y \in 1..seq : G[y] = Excluded(G[y - 1], tab, y)
  BY PreparedIs
<1>3. \A y \in 1..(seq + 1) : Frame(ss, F[y])
  BY PreparedIs
<1>4. (\A y \in 0..seq : Frame(ss, G[y])) /\ PrepareSeqstate1(ss, tab, seq) = G[seq]
  BY PreparedIs
<1>5. a.included = Ancestors(tab, seq)
  BY PreparedIs
<1>6. a.excluded = {}
  BY PreparedIs
<1>7. b = F[1]
  BY DEF After1
<1> HIDE DEF a, b, F, G
<1> DEFINE I == [y \in 1..(seq + 1) |-> F[y].included]
           J == [y \in 0..seq |-> G[y].included]
           X == [y \in 0..seq |-> G[y].excluded]
           Good == {y \in 1..(seq + 1) : F[y].excluded = {}}
<1>8. \A x : Frame(ss, x) => x.included \in SUBSET Nat /\ x.excluded \in SUBSET Nat
  BY DEF Frame, SeqStates
<1>9. I \in [1..(seq + 1) -> SUBSET Nat] /\ J \in [0..seq -> SUBSET Nat] /\ X \in [0..seq -> SUBSET Nat]
  BY <1>3, <1>4, <1>8
<1>10. ASSUME NEW y \in 1..seq
       PROVE  /\ F[y].included = F[y + 1].included \cup (IF y \in F[y + 1].included THEN tab[y].incl ELSE {})
              /\ F[y].excluded = F[y + 1].excluded \ (IF y \in F[y + 1].included THEN tab[y].incl ELSE {})
  <2>1. y + 1 \in 1..(seq + 1) /\ y \in 1..Len(tab)
    BY <1>0
  <2>2. Frame(ss, F[y + 1]) /\ F[y] = Included(F[y + 1], tab, y)
    BY <1>1, <1>3, <2>1
  <2> QED
    BY <2>1, <2>2, LoopSteps
<1>11. ASSUME NEW y \in 1..seq
       PROVE  /\ G[y].included = G[y - 1].included \ (IF y \in G[y - 1].included THEN tab[y].excl ELSE {})
              /\ G[y].excluded = G[y - 1].excluded \cup (IF y \in G[y - 1].included THEN tab[y].excl ELSE {})
  <2>1. y - 1 \in 0..seq /\ y \in 1..Len(tab)
    BY <1>0
  <2>2. Frame(ss, G[y - 1]) /\ G[y] = Excluded(G[y - 1], tab, y)
    BY <1>2, <1>4, <2>1
  <2> QED
    BY <2>1, <2>2, LoopSteps
<1>12. seq + 1 \in Good
  BY <1>0, <1>1, <1>6
<1>13. ASSUME NEW y \in 1..seq, y + 1 \in Good PROVE y \in Good
  <2>1. F[y + 1].excluded = {} /\ y \in 1..(seq + 1)
    BY <1>0, <1>13
  <2> QED
    BY <1>10, <2>1
<1> HIDE DEF Good
<1>14. \A y \in 1..(seq + 1) : y \in Good
  BY <1>0, <1>12, <1>13, DownwardInduction
<1>15. F[1].excluded = {}
  BY <1>0, <1>14 DEF Good
<1>16. Loops(tab, seq, I, J, X)
  <2>1. I[seq + 1] = Ancestors(tab, seq)
    BY <1>0, <1>1, <1>5
  <2>2. ASSUME NEW y \in 1..seq
        PROVE  I[y] = I[y + 1] \cup (IF y \in I[y + 1] THEN tab[y].incl ELSE {})
    <3>1. I[y] = F[y].included /\ I[y + 1] = F[y + 1].included
      BY <1>0
    <3> QED
      BY Zenon, <3>1, <1>10
  <2>3. J[0] = I[1] /\ X[0] = {}
    BY <1>0, <1>2, <1>7, <1>15
  <2>4. ASSUME NEW y \in 1..seq
        PROVE  /\ J[y] = J[y - 1] \ (IF y \in J[y - 1] THEN tab[y].excl ELSE {})
               /\ X[y] = X[y - 1] \cup (IF y \in J[y - 1] THEN tab[y].excl ELSE {})
    <3>1. J[y] = G[y].included /\ J[y - 1] = G[y - 1].included /\ X[y] = G[y].excluded /\ X[y - 1] = G[y - 1].excluded
      BY <1>0
    <3> HIDE DEF J, X, I
    <3> QED
      BY Zenon, <3>1, <1>11
  <2> HIDE DEF I, J, X
  <2> QED
    BY <1>9, <2>1, <2>2, <2>3, <2>4 DEF Loops
<1>17. PrepareSeqstate1(ss, tab, seq).included = J[seq] /\ PrepareSeqstate1(ss, tab, seq).excluded = X[seq]
  BY <1>0, <1>4
<1>18. Frame(ss, PrepareSeqstate1(ss, tab, seq))
  BY <1>0, <1>4
<1> HIDE DEF I, J, X
<1> QED
  BY <1>16, <1>17, <1>18

\* The loops stay among the deltas that come before the requested one.
LEMMA LoopsBelow ==
  ASSUME NEW tab, Ordered(tab), NEW seq \in 0..Len(tab), NEW I, NEW J, NEW X, Loops(tab, seq, I, J, X)
  PROVE  /\ \A y \in 1..(seq + 1) : I[y] \subseteq 0..seq
         /\ \A y \in 0..seq : J[y] \subseteq 0..seq /\ X[y] \subseteq X[seq]
<1>0. seq \in Nat /\ \A y \in 1..seq : y \in 1..Len(tab)
  BY DEF Ordered
<1>1. Ancestors(tab, seq) \subseteq 0..seq
  <2>1. 0..seq \in SUBSET (0..Len(tab)) /\ seq \in 0..seq
    BY <1>0 DEF Ordered
  <2>2. Lineage(tab, 0..seq)
    BY <1>0 DEF Lineage, Ordered
  <2> QED
    BY <2>1, <2>2 DEF Ancestors
<1> DEFINE Good == {y \in 1..(seq + 1) : I[y] \subseteq 0..seq}
           Fine == {y \in 0..seq : J[y] \subseteq 0..seq}
<1>2. seq + 1 \in Good
  BY <1>0, <1>1 DEF Loops
<1>3. ASSUME NEW y \in 1..seq, y + 1 \in Good PROVE y \in Good
  <2>1. y \in 1..(seq + 1) /\ I[y + 1] \subseteq 0..seq
    BY <1>0, <1>3
  <2>2. tab[y].incl \subseteq 0..seq
    BY <1>0 DEF Ordered
  <2>3. I[y] = I[y + 1] \cup (IF y \in I[y + 1] THEN tab[y].incl ELSE {})
    BY DEF Loops
  <2> QED
    BY <2>1, <2>2, <2>3
<1> HIDE DEF Good
<1>4. \A y \in 1..(seq + 1) : y \in Good
  BY <1>0, <1>2, <1>3, DownwardInduction
<1>5. \A y \in 1..(seq + 1) : I[y] \subseteq 0..seq
  BY <1>4 DEF Good
<1>6. 0 \in Fine
  BY <1>0, <1>5 DEF Loops
<1>7. ASSUME NEW y \in 1..seq, y - 1 \in Fine PROVE y \in Fine
  BY <1>0, <1>7 DEF Loops
<1> HIDE DEF Fine
<1>8. \A y \in 0..seq : y \in Fine
  BY <1>0, <1>6, <1>7, UpwardInduction
<1>9. \A y \in 0..seq : J[y] \subseteq 0..seq
  BY <1>8 DEF Fine
<1> DEFINE Ex == {y \in 1..(seq + 1) : X[y - 1] \subseteq X[seq]}
<1>10. seq + 1 \in Ex
  BY <1>0
<1>11. ASSUME NEW y \in 1..seq, y + 1 \in Ex PROVE y \in Ex
  <2>1. y \in 1..(seq + 1) /\ X[y] \subseteq X[seq]
    BY <1>0, <1>11
  <2>2. X[y - 1] \subseteq X[y]
    BY DEF Loops
  <2> QED
    BY <2>1, <2>2
<1> HIDE DEF Ex
<1>12. \A y \in 1..(seq + 1) : y \in Ex
  BY <1>0, <1>10, <1>11, DownwardInduction
<1>13. \A y \in 0..seq : X[y] \subseteq X[seq]
  <2> TAKE y \in 0..seq
  <2>1. y + 1 \in Ex
    BY <1>0, <1>12
  <2> QED
    BY <1>0, <2>1 DEF Ex
<1> QED
  BY <1>5, <1>9, <1>13

\* Two tables have the same deltas up to one of them, for all that matters to a version.
Agree(tab, old, n) ==
  \A y \in 1..n : /\ tab[y].prev = old[y].prev /\ tab[y].incl = old[y].incl
                  /\ tab[y].excl = old[y].excl

LEMMA SameAncestors ==
  ASSUME NEW tab, NEW old, Ordered(tab), Ordered(old),
         NEW n \in 0..Len(tab), n \in 0..Len(old), Agree(tab, old, n)
  PROVE  \A y \in 0..n : Ancestors(tab, y) = Ancestors(old, y)
<1>0. n \in Nat /\ \A y \in 1..n : y \in 1..Len(tab) /\ y \in 1..Len(old)
  BY DEF Ordered
<1> DEFINE Bad == {y \in 0..n : Ancestors(tab, y) # Ancestors(old, y)}
<1>1. SUFFICES ASSUME Bad # {} PROVE FALSE
  OBVIOUS
<1>2. PICK y \in Bad : \A z \in Bad : y <= z
  <2>1. Bad \subseteq Nat
    OBVIOUS
  <2> HIDE DEF Bad
  <2> QED
    BY <1>1, <2>1, LeastNumber
<1>3. y \in 0..n /\ Ancestors(tab, y) # Ancestors(old, y)
  OBVIOUS
<1>4. y # 0
  BY <1>3, AncestorsAre
<1>5. y \in 1..n
  BY <1>0, <1>3, <1>4
<1>6. tab[y].prev = old[y].prev /\ tab[y].prev \in 0..(y - 1)
  BY <1>0, <1>5 DEF Agree, Ordered
<1>7. tab[y].prev \in 0..n /\ ~(y <= tab[y].prev)
  BY <1>0, <1>5, <1>6
<1>8. Ancestors(tab, tab[y].prev) = Ancestors(old, tab[y].prev)
  BY <1>2, <1>7
<1>9. /\ Ancestors(tab, y) = {y} \cup Ancestors(tab, tab[y].prev)
      /\ Ancestors(old, y) = {y} \cup Ancestors(old, old[y].prev)
  BY <1>0, <1>5, AncestorsAre
<1> QED
  BY Zenon, <1>3, <1>6, <1>8, <1>9

\* A version does not depend on the deltas that came later.
LEMMA SameVersion ==
  ASSUME NEW tab, NEW old, Ordered(tab), Ordered(old),
         NEW n \in 0..Len(tab), n \in 0..Len(old), Agree(tab, old, n),
         NEW ss, NEW st, Fresh(ss), Fresh(st)
  PROVE  /\ PrepareSeqstate1(ss, tab, n).included = PrepareSeqstate1(st, old, n).included
         /\ PrepareSeqstate1(ss, tab, n).excluded = PrepareSeqstate1(st, old, n).excluded
<1>0. n \in Nat
  BY DEF Ordered
<1>1. PICK I, J, X : /\ Loops(tab, n, I, J, X)
                     /\ PrepareSeqstate1(ss, tab, n).included = J[n]
                     /\ PrepareSeqstate1(ss, tab, n).excluded = X[n]
  BY VersionLoops
<1>2. PICK I2, J2, X2 : /\ Loops(old, n, I2, J2, X2)
                        /\ PrepareSeqstate1(st, old, n).included = J2[n]
                        /\ PrepareSeqstate1(st, old, n).excluded = X2[n]
  BY VersionLoops
<1> DEFINE Good == {y \in 1..(n + 1) : I[y] = I2[y]}
           Fine == {y \in 0..n : J[y] = J2[y] /\ X[y] = X2[y]}
<1>3. n + 1 \in Good
  <2>1. Ancestors(tab, n) = Ancestors(old, n)
    BY <1>0, SameAncestors
  <2> QED
    BY <1>0, <1>1, <1>2, <2>1 DEF Loops
<1>4. ASSUME NEW y \in 1..n, y + 1 \in Good PROVE y \in Good
  <2>1. I[y] = I[y + 1] \cup (IF y \in I[y + 1] THEN tab[y].incl ELSE {})
    BY <1>1 DEF Loops
  <2>2. I2[y] = I2[y + 1] \cup (IF y \in I2[y + 1] THEN old[y].incl ELSE {})
    BY <1>2 DEF Loops
  <2>3. tab[y].incl = old[y].incl /\ I[y + 1] = I2[y + 1] /\ y \in 1..(n + 1)
    BY <1>0, <1>4 DEF Agree
  <2>4. I[y] = I2[y]
    BY Zenon, <2>1, <2>2, <2>3
  <2> QED
    BY <2>3, <2>4
<1> HIDE DEF Good
<1>5. \A y \in 1..(n + 1) : y \in Good
  BY <1>0, <1>3, <1>4, DownwardInduction
<1>6. I[1] = I2[1]
  BY <1>0, <1>5 DEF Good
<1>7. 0 \in Fine
  <2>1. J[0] = I[1] /\ X[0] = {}
    BY <1>1 DEF Loops
  <2>2. J2[0] = I2[1] /\ X2[0] = {}
    BY <1>2 DEF Loops
  <2>3. J[0] = J2[0] /\ X[0] = X2[0]
    BY Zenon, <1>6, <2>1, <2>2
  <2>4. 0 \in 0..n
    BY <1>0
  <2> QED
    BY Zenon, <2>3, <2>4
<1>8. ASSUME NEW y \in 1..n, y - 1 \in Fine PROVE y \in Fine
  <2>1. /\ J[y] = J[y - 1] \ (IF y \in J[y - 1] THEN tab[y].excl ELSE {})
        /\ X[y] = X[y - 1] \cup (IF y \in J[y - 1] THEN tab[y].excl ELSE {})
    BY <1>1 DEF Loops
  <2>2. /\ J2[y] = J2[y - 1] \ (IF y \in J2[y - 1] THEN old[y].excl ELSE {})
        /\ X2[y] = X2[y - 1] \cup (IF y \in J2[y - 1] THEN old[y].excl ELSE {})
    BY <1>2 DEF Loops
  <2>3. tab[y].excl = old[y].excl /\ J[y - 1] = J2[y - 1] /\ X[y - 1] = X2[y - 1] /\ y \in 0..n
    BY <1>0, <1>8 DEF Agree
  <2>4. J[y] = J2[y] /\ X[y] = X2[y]
    BY Zenon, <2>1, <2>2, <2>3
  <2> QED
    BY <2>3, <2>4
<1> HIDE DEF Fine
<1>9. \A y \in 0..n : y \in Fine
  BY <1>0, <1>7, <1>8, UpwardInduction
<1>10. J[n] = J2[n] /\ X[n] = X2[n]
  BY <1>0, <1>9 DEF Fine
<1> QED
  BY <1>1, <1>2, <1>10

\* The version of a delta is that of its predecessor, with the lists of its own: as
\* long as what it includes has no lists and was not excluded there.
LEMMA VersionStep ==
  ASSUME NEW tab, Ordered(tab), NEW s \in 1..Len(tab), NEW ss, Fresh(ss),
         \A u \in tab[s].incl : /\ tab[u].incl = {} /\ tab[u].excl = {}
                                /\ u \notin PrepareSeqstate1(ss, tab, tab[s].prev).excluded
  PROVE  /\ PrepareSeqstate1(ss, tab, s).included =
              (PrepareSeqstate1(ss, tab, tab[s].prev).included \cup {s} \cup tab[s].incl) \ tab[s].excl
         /\ PrepareSeqstate1(ss, tab, s).excluded =
              PrepareSeqstate1(ss, tab, tab[s].prev).excluded \cup tab[s].excl
<1> DEFINE p == tab[s].prev
           inc == tab[s].incl
           Top(y) == IF y > p THEN p + 1 ELSE y
           Bot(y) == IF y > p THEN p ELSE y
<1>0. /\ s \in Nat /\ s \in 0..Len(tab) /\ p \in Nat /\ p \in 0..Len(tab) /\ p <= s - 1
      /\ inc \subseteq 1..(s - 1)
      /\ \A y \in 1..s : tab[y].incl \subseteq 1..(y - 1) /\ tab[y].excl \subseteq 1..(y - 1)
  BY DEF Ordered
<1>1. PICK I, J, X : /\ Loops(tab, p, I, J, X)
                     /\ PrepareSeqstate1(ss, tab, p).included = J[p]
                     /\ PrepareSeqstate1(ss, tab, p).excluded = X[p]
  BY <1>0, VersionLoops
<1>2. PICK I2, J2, X2 : /\ Loops(tab, s, I2, J2, X2)
                        /\ PrepareSeqstate1(ss, tab, s).included = J2[s]
                        /\ PrepareSeqstate1(ss, tab, s).excluded = X2[s]
  BY <1>0, VersionLoops
<1>3. /\ \A y \in 1..(p + 1) : I[y] \subseteq 0..p
      /\ \A y \in 0..p : J[y] \subseteq 0..p /\ X[y] \subseteq X[p]
  BY <1>0, <1>1, LoopsBelow
<1>4. \A u \in inc : tab[u].incl = {} /\ tab[u].excl = {} /\ u \notin X[p]
  BY <1>1
<1>5. ASSUME NEW y \in 1..s
      PROVE  I2[y] = I2[y + 1] \cup (IF y \in I2[y + 1] THEN tab[y].incl ELSE {})
  BY <1>2 DEF Loops
<1>6. ASSUME NEW y \in 1..p
      PROVE  I[y] = I[y + 1] \cup (IF y \in I[y + 1] THEN tab[y].incl ELSE {})
  BY <1>1 DEF Loops
<1>7. I2[s + 1] = {s} \cup I[p + 1]
  <2>1. I2[s + 1] = Ancestors(tab, s) /\ I[p + 1] = Ancestors(tab, p)
    BY <1>1, <1>2 DEF Loops
  <2> QED
    BY <2>1, AncestorsAre
<1>8. I2[s] = I[p + 1] \cup {s} \cup inc
  BY SMTT(30), <1>0, <1>5, <1>7
<1> DEFINE Good == {y \in 1..s : I2[y] = I[Top(y)] \cup {s} \cup inc}
<1> HIDE DEF inc, p
<1>9. (s - 1) + 1 \in Good
  BY <1>0, <1>8
<1>10. ASSUME NEW y \in 1..(s - 1), y + 1 \in Good PROVE y \in Good
  <2>1. y \in 1..s /\ I2[y + 1] = I[Top(y + 1)] \cup {s} \cup inc
    BY <1>0, <1>10
  <2>2. I2[y] = I2[y + 1] \cup (IF y \in I2[y + 1] THEN tab[y].incl ELSE {})
    BY <1>5, <2>1
  <2>3. CASE y > p
    <3>1. Top(y + 1) = p + 1 /\ Top(y) = p + 1 /\ y # s /\ p + 1 \in 1..(p + 1)
      BY <1>0, <2>1, <2>3
    <3>2. y \notin I[p + 1]
      BY <1>3, <2>3, <3>1, <1>0
    <3>3. y \in I2[y + 1] => tab[y].incl = {}
      BY <1>4, <2>1, <3>1, <3>2
    <3>4. I2[y] = I2[y + 1]
      BY <2>2, <3>3
    <3> QED
      BY <2>1, <3>1, <3>4
  <2>4. CASE ~(y > p)
    <3>1. Top(y) = y /\ y \in 1..p /\ y + 1 \in 1..(p + 1) /\ Top(y + 1) = y + 1 /\ y # s
      BY <1>0, <2>1, <2>4
    <3>2. I[y] = I[y + 1] \cup (IF y \in I[y + 1] THEN tab[y].incl ELSE {})
      BY <1>6, <3>1
    <3>3. y \in inc => tab[y].incl = {}
      BY <1>4
    <3>4. I2[y + 1] = I[y + 1] \cup {s} \cup inc
      BY <2>1, <3>1
    <3>5. I2[y] = I[y] \cup {s} \cup inc
      BY <2>2, <3>1, <3>2, <3>3, <3>4
    <3> QED
      BY <2>1, <3>1, <3>5
  <2> QED
    BY <2>3, <2>4
<1> HIDE DEF Good
<1>11. \A y \in 1..((s - 1) + 1) : y \in Good
  <2>1. s - 1 \in Nat
    BY <1>0
  <2> QED
    BY <1>9, <1>10, <2>1, DownwardInduction
<1>12. I2[1] = I[1] \cup {s} \cup inc
  BY <1>0, <1>11 DEF Good
<1> DEFINE Fine == {y \in 0..(s - 1) : J2[y] = J[Bot(y)] \cup {s} \cup inc /\ X2[y] = X[Bot(y)]}
<1>13. 0 \in Fine
  <2>1. J[0] = I[1] /\ X[0] = {}
    BY <1>1 DEF Loops
  <2>2. J2[0] = I2[1] /\ X2[0] = {}
    BY <1>2 DEF Loops
  <2>3. Bot(0) = 0 /\ 0 \in 0..(s - 1)
    BY <1>0
  <2> QED
    BY <1>12, <2>1, <2>2, <2>3
<1>14. ASSUME NEW y \in 1..s
       PROVE  /\ J2[y] = J2[y - 1] \ (IF y \in J2[y - 1] THEN tab[y].excl ELSE {})
              /\ X2[y] = X2[y - 1] \cup (IF y \in J2[y - 1] THEN tab[y].excl ELSE {})
  BY <1>2 DEF Loops
<1>15. ASSUME NEW y \in 1..p
       PROVE  /\ J[y] = J[y - 1] \ (IF y \in J[y - 1] THEN tab[y].excl ELSE {})
              /\ X[y] = X[y - 1] \cup (IF y \in J[y - 1] THEN tab[y].excl ELSE {})
  BY <1>1 DEF Loops
<1>16. ASSUME NEW y \in 1..(s - 1), y - 1 \in Fine PROVE y \in Fine
  <2>1. /\ y \in 1..s /\ y \in 0..(s - 1) /\ y # s
        /\ J2[y - 1] = J[Bot(y - 1)] \cup {s} \cup inc /\ X2[y - 1] = X[Bot(y - 1)]
    BY <1>0, <1>16
  <2>2. /\ J2[y] = J2[y - 1] \ (IF y \in J2[y - 1] THEN tab[y].excl ELSE {})
        /\ X2[y] = X2[y - 1] \cup (IF y \in J2[y - 1] THEN tab[y].excl ELSE {})
    BY <1>14, <2>1
  <2>3. y \in inc => tab[y].excl = {}
    BY <1>4
  <2>4. CASE y > p
    <3>1. Bot(y - 1) = p /\ Bot(y) = p /\ p \in 0..p
      BY <1>0, <2>1, <2>4
    <3>2. y \notin J[p]
      BY <1>3, <1>0, <2>4, <3>1
    <3>3. J2[y - 1] = J[p] \cup {s} \cup inc
      BY <2>1, <3>1
    <3>4. y \in J2[y - 1] => tab[y].excl = {}
      BY <2>1, <2>3, <3>2, <3>3
    <3>5. J2[y] = J2[y - 1] /\ X2[y] = X2[y - 1]
      BY <2>2, <3>4
    <3> QED
      BY <2>1, <3>1, <3>5
  <2>5. CASE ~(y > p)
    <3>1. Bot(y) = y /\ y \in 1..p /\ y \in 0..p /\ Bot(y - 1) = y - 1
      BY <1>0, <2>1, <2>5
    <3>2. /\ J[y] = J[y - 1] \ (IF y \in J[y - 1] THEN tab[y].excl ELSE {})
          /\ X[y] = X[y - 1] \cup (IF y \in J[y - 1] THEN tab[y].excl ELSE {})
      BY <1>15, <3>1
    <3>3. y \in J[y - 1] => tab[y].excl \subseteq X[p]
      BY <1>3, <3>1, <3>2
    <3>4. y \in J[y - 1] => tab[y].excl \cap ({s} \cup inc) = {}
      BY <1>0, <1>4, <2>1, <3>3
    <3>5. J2[y - 1] = J[y - 1] \cup {s} \cup inc /\ X2[y - 1] = X[y - 1]
      BY <2>1, <3>1
    <3>6. CASE y \in J[y - 1]
      <4>1. J2[y] = J2[y - 1] \ tab[y].excl /\ X2[y] = X2[y - 1] \cup tab[y].excl
        BY <2>2, <3>5, <3>6
      <4>2. J[y] = J[y - 1] \ tab[y].excl /\ X[y] = X[y - 1] \cup tab[y].excl
        BY <3>2, <3>6
      <4>3. J2[y] = J[y] \cup {s} \cup inc /\ X2[y] = X[y]
        BY <3>4, <3>5, <3>6, <4>1, <4>2
      <4> QED
        BY <2>1, <3>1, <4>3
    <3>7. CASE y \notin J[y - 1]
      <4>1. y \in J2[y - 1] => tab[y].excl = {}
        BY <2>1, <2>3, <3>5, <3>7
      <4>2. J2[y] = J2[y - 1] /\ X2[y] = X2[y - 1]
        BY <2>2, <4>1
      <4>3. J[y] = J[y - 1] /\ X[y] = X[y - 1]
        BY <3>2, <3>7
      <4> QED
        BY <2>1, <3>1, <3>5, <4>2, <4>3
    <3> QED
      BY <3>6, <3>7
  <2> QED
    BY <2>4, <2>5
<1> HIDE DEF Fine
<1>17. \A y \in 0..(s - 1) : y \in Fine
  <2>1. s - 1 \in Nat
    BY <1>0
  <2> QED
    BY <1>13, <1>16, <2>1, UpwardInduction
<1>18. J2[s - 1] = J[p] \cup {s} \cup inc /\ X2[s - 1] = X[p]
  <2>1. s - 1 \in 0..(s - 1) /\ Bot(s - 1) = p
    BY <1>0
  <2> QED
    BY <1>17, <2>1 DEF Fine
<1>19. /\ J2[s] = J2[s - 1] \ (IF s \in J2[s - 1] THEN tab[s].excl ELSE {})
       /\ X2[s] = X2[s - 1] \cup (IF s \in J2[s - 1] THEN tab[s].excl ELSE {})
  BY <1>0, <1>14
<1>20. s \in J2[s - 1]
  BY <1>18
<1>21. J2[s] = (J[p] \cup {s} \cup inc) \ tab[s].excl /\ X2[s] = X[p] \cup tab[s].excl
  BY <1>18, <1>19, <1>20
<1> QED
  BY <1>1, <1>2, <1>21 DEF p, inc

\* The deltas whose text a version has, and those its lists exclude.
VersionOf(tab, s) == PrepareSeqstate1(NewSeqState(Len(tab)), tab, s).included
ExcludedBy(tab, s) == PrepareSeqstate1(NewSeqState(Len(tab)), tab, s).excluded

LEMMA CurrentIs ==
  ASSUME NEW tab, Ordered(tab)
  PROVE  /\ Len(tab) \in Nat /\ DOMAIN tab = 1..Len(tab)
         /\ Deltas(tab) = 1..Len(tab)
         /\ Current(tab) \subseteq 1..Len(tab)
         /\ \A s \in 1..Len(tab) : s \in Current(tab) <=> tab[s].type = "D"
BY DEF Ordered, Current, Deltas

LEMMA VersionTyped ==
  ASSUME NEW tab, Ordered(tab), NEW s \in 0..Len(tab)
  PROVE  /\ VersionOf(tab, s) \subseteq 0..s
         /\ VersionOf(tab, s) \in SUBSET Nat /\ ExcludedBy(tab, s) \in SUBSET Nat
         /\ VersionOf(tab, 0) = {0}
<1>0. Len(tab) \in Nat /\ s \in Nat /\ 0 \in 0..Len(tab)
  BY DEF Ordered
<1>1. Fresh(NewSeqState(Len(tab)))
  BY <1>0, NewSeqStateIs
<1>2. PICK I, J, X : /\ Loops(tab, s, I, J, X)
                     /\ VersionOf(tab, s) = J[s] /\ ExcludedBy(tab, s) = X[s]
  BY <1>1, VersionLoops DEF VersionOf, ExcludedBy
<1>3. J[s] \subseteq 0..s /\ X[s] \in SUBSET Nat
  <2>1. s \in 0..s
    BY <1>0
  <2>2. J[s] \subseteq 0..s
    BY <1>2, <2>1, LoopsBelow
  <2>3. X \in [0..s -> SUBSET Nat]
    BY <1>2 DEF Loops
  <2> QED
    BY <2>1, <2>2, <2>3
<1>4. PICK I2, J2, X2 : Loops(tab, 0, I2, J2, X2) /\ VersionOf(tab, 0) = J2[0]
  BY <1>0, <1>1, VersionLoops DEF VersionOf
<1>5. J2[0] = I2[0 + 1] /\ I2[0 + 1] = Ancestors(tab, 0)
  BY <1>4 DEF Loops
<1>6. VersionOf(tab, 0) = {0}
  BY <1>4, <1>5, AncestorsAre
<1> QED
  BY <1>0, <1>2, <1>3, <1>6

\* The lists of the command line.
ListsPrepared(ss, tab, pred, incl, excl) ==
  /\ ss \in SeqStates /\ ss.last = Len(tab)
  /\ ss.inserts = {} /\ ss.deletes = {} /\ ss.ignored = {}
  /\ ss.included = (VersionOf(tab, pred) \cup incl) \ excl
  /\ ss.explicit \cap ss.included \subseteq incl
  /\ ss.explicit \cap ss.excluded \subseteq excl

LEMMA PreparedLists ==
  ASSUME NEW tab, Ordered(tab), NEW pred \in 1..Len(tab),
         NEW include \in SUBSET Current(tab), NEW exclude \in SUBSET Current(tab),
         include \cap exclude = {}
  PROVE  ListsPrepared(PrepareSeqstate(tab, pred, include, exclude, {}), tab, pred, include, exclude)
<1> DEFINE x == PrepareSeqstate(tab, pred, include, exclude, {})
           new == NewSeqState(Len(tab))
           a == PrepareSeqstate1(new, tab, pred)
           b == SetIncluded(a, include)
           b2 == SetExplicitlyIncluded(a, include)
           c == SetExcluded(b2, exclude)
           c2 == SetExplicitlyExcluded(b2, exclude)
<1>0. Len(tab) \in Nat /\ pred \in 0..Len(tab) /\ include \in SUBSET Nat /\ exclude \in SUBSET Nat
  BY SMTT(30), CurrentIs DEF Ordered
<1>1. /\ Fresh(new) /\ new.last = Len(tab) /\ new.inserts = {} /\ new.deletes = {}
      /\ new.explicit = {} /\ new.ignored = {}
  BY <1>0, NewSeqStateIs
<1>2. Frame(new, a) /\ a.included = VersionOf(tab, pred)
  BY <1>0, <1>1, VersionLoops DEF VersionOf
<1>3. x = SetExcluded(c2, {})
  <2>1. include \cap Current(tab) = include /\ (exclude \cap Current(tab)) \ include = exclude
    OBVIOUS
  <2>2. ({} \cap Current(tab)) \ (include \cup exclude) = {}
    OBVIOUS
  <2> QED
    BY <2>1, <2>2 DEF PrepareSeqstate, PrepareSeqstate2
<1> HIDE DEF x
<1>4. /\ a \in SeqStates /\ a.last = Len(tab) /\ a.inserts = {} /\ a.deletes = {} /\ a.ignored = {}
      /\ a.explicit = {}
  BY <1>1, <1>2 DEF Frame
<1> HIDE DEF a, new
<1>5. /\ b2 \in SeqStates /\ b2.last = a.last /\ b2.inserts = a.inserts /\ b2.deletes = a.deletes
      /\ b2.ignored = a.ignored \ include /\ b2.included = a.included \cup include
      /\ b2.excluded = a.excluded \ include /\ b2.explicit = a.explicit \cup (include \ a.included)
  BY <1>0, <1>4 DEF SetExplicitlyIncluded, SetIncluded, SeqStates
<1> HIDE DEF b2
<1>6. /\ c2 \in SeqStates /\ c2.last = b2.last /\ c2.inserts = b2.inserts /\ c2.deletes = b2.deletes
      /\ c2.ignored = b2.ignored \ exclude /\ c2.included = b2.included \ exclude
      /\ c2.excluded = b2.excluded \cup exclude /\ c2.explicit = b2.explicit \cup exclude
  BY <1>0, <1>5 DEF SetExplicitlyExcluded, SetExcluded, SeqStates
<1> HIDE DEF c2
<1>7. /\ x \in SeqStates /\ x.last = c2.last /\ x.inserts = c2.inserts /\ x.deletes = c2.deletes
      /\ x.ignored = c2.ignored \ {} /\ x.included = c2.included \ {}
      /\ x.excluded = c2.excluded \cup {} /\ x.explicit = c2.explicit
  BY <1>3, <1>6 DEF SetExcluded, SeqStates
<1>8. x \in SeqStates /\ x.last = Len(tab) /\ x.inserts = {} /\ x.deletes = {}
  BY Zenon, <1>4, <1>5, <1>6, <1>7
<1>9. x.ignored = {}
  BY <1>4, <1>5, <1>6, <1>7
<1>10. x.included = (VersionOf(tab, pred) \cup include) \ exclude
  BY <1>2, <1>5, <1>6, <1>7
<1>11. x.explicit = (include \ a.included) \cup exclude
  BY <1>4, <1>5, <1>6, <1>7
<1>12. x.excluded = (a.excluded \ include) \cup exclude
  BY <1>5, <1>6, <1>7
<1>13. x.explicit \cap x.included \subseteq include
  BY <1>10, <1>11
<1>14. x.explicit \cap x.excluded \subseteq exclude
  BY <1>11, <1>12
<1> QED
  <2>1. ListsPrepared(x, tab, pred, include, exclude)
    BY Zenon, <1>8, <1>9, <1>10, <1>13, <1>14 DEF ListsPrepared
  <2> QED
    BY Zenon, <2>1 DEF x

\* No list, and perhaps a cutoff.
CutoffPrepared(ss, tab, s, newer) ==
  /\ ss \in SeqStates /\ ss.last = Len(tab)
  /\ ss.inserts = {} /\ ss.deletes = {} /\ ss.ignored = {}
  /\ ss.included = VersionOf(tab, s) \ (newer \cap Current(tab))

LEMMA PreparedCutoff ==
  ASSUME NEW tab, Ordered(tab), NEW s \in 1..Len(tab), NEW newer \in SUBSET (1..Len(tab))
  PROVE  CutoffPrepared(PrepareSeqstate(tab, s, {}, {}, newer), tab, s, newer)
<1> DEFINE x == PrepareSeqstate(tab, s, {}, {}, newer)
           new == NewSeqState(Len(tab))
           a == PrepareSeqstate1(new, tab, s)
           b2 == SetExplicitlyIncluded(a, {})
           c2 == SetExplicitlyExcluded(b2, {})
           cut == newer \cap Current(tab)
<1>0. Len(tab) \in Nat /\ s \in 0..Len(tab) /\ cut \in SUBSET Nat
  BY CurrentIs DEF Ordered
<1>1. /\ Fresh(new) /\ new.last = Len(tab) /\ new.inserts = {} /\ new.deletes = {}
      /\ new.explicit = {} /\ new.ignored = {}
  BY <1>0, NewSeqStateIs
<1>2. Frame(new, a) /\ a.included = VersionOf(tab, s)
  BY <1>0, <1>1, VersionLoops DEF VersionOf
<1>3. x = SetExcluded(c2, cut)
  <2>1. {} \cap Current(tab) = {} /\ ({} \cap Current(tab)) \ {} = {}
    OBVIOUS
  <2>2. cut \ ({} \cup {}) = cut
    OBVIOUS
  <2> QED
    BY <2>1, <2>2 DEF PrepareSeqstate, PrepareSeqstate2
<1> HIDE DEF x
<1>4. /\ a \in SeqStates /\ a.last = Len(tab) /\ a.inserts = {} /\ a.deletes = {} /\ a.ignored = {}
      /\ a.explicit = {}
  BY <1>1, <1>2 DEF Frame
<1> HIDE DEF a, new, cut
<1>5. /\ b2 \in SeqStates /\ b2.last = a.last /\ b2.inserts = a.inserts /\ b2.deletes = a.deletes
      /\ b2.ignored = a.ignored \ {} /\ b2.included = a.included \cup {}
  BY <1>4 DEF SetExplicitlyIncluded, SetIncluded, SeqStates
<1> HIDE DEF b2
<1>6. /\ c2 \in SeqStates /\ c2.last = b2.last /\ c2.inserts = b2.inserts /\ c2.deletes = b2.deletes
      /\ c2.ignored = b2.ignored \ {} /\ c2.included = b2.included \ {}
  BY <1>5 DEF SetExplicitlyExcluded, SetExcluded, SeqStates
<1> HIDE DEF c2
<1>7. /\ x \in SeqStates /\ x.last = c2.last /\ x.inserts = c2.inserts /\ x.deletes = c2.deletes
      /\ x.ignored = c2.ignored \ cut /\ x.included = c2.included \ cut
  BY <1>0, <1>3, <1>6 DEF SetExcluded, SeqStates
<1>8. x \in SeqStates /\ x.last = Len(tab) /\ x.inserts = {} /\ x.deletes = {}
  BY Zenon, <1>4, <1>5, <1>6, <1>7
<1>9. x.ignored = {}
  BY <1>4, <1>5, <1>6, <1>7
<1>10. x.included = VersionOf(tab, s) \ cut
  BY <1>2, <1>5, <1>6, <1>7
<1> QED
  <2>1. CutoffPrepared(x, tab, s, newer)
    BY Zenon, <1>8, <1>9, <1>10 DEF cut, CutoffPrepared
  <2> QED
    BY Zenon, <2>1 DEF x

LEMMA VersionWithin ==
  ASSUME NEW tab, Ordered(tab), NEW s \in 0..Len(tab), NEW S \in SUBSET Nat, Closed(tab, S), s \in S
  PROVE  VersionOf(tab, s) \subseteq S
<1>1. Fresh(NewSeqState(Len(tab)))
  BY NewSeqStateIs DEF Ordered
<1> QED
  BY <1>1, PreparedWithin DEF VersionOf

LEMMA VersionGrows ==
  ASSUME NEW tab, Ordered(tab), NEW s \in 1..Len(tab),
         \A u \in tab[s].incl : /\ tab[u].incl = {} /\ tab[u].excl = {}
                                /\ u \notin ExcludedBy(tab, tab[s].prev)
  PROVE  /\ VersionOf(tab, s) = (VersionOf(tab, tab[s].prev) \cup {s} \cup tab[s].incl) \ tab[s].excl
         /\ ExcludedBy(tab, s) = ExcludedBy(tab, tab[s].prev) \cup tab[s].excl
<1>1. Fresh(NewSeqState(Len(tab)))
  BY NewSeqStateIs DEF Ordered
<1> QED
  BY <1>1, VersionStep DEF VersionOf, ExcludedBy

LEMMA VersionKept ==
  ASSUME NEW tab, NEW old, Ordered(tab), Ordered(old),
         NEW n \in 0..Len(tab), n \in 0..Len(old), Agree(tab, old, n)
  PROVE  VersionOf(tab, n) = VersionOf(old, n) /\ ExcludedBy(tab, n) = ExcludedBy(old, n)
<1>1. Fresh(NewSeqState(Len(tab))) /\ Fresh(NewSeqState(Len(old)))
  BY NewSeqStateIs DEF Ordered
<1> QED
  BY <1>1, SameVersion DEF VersionOf, ExcludedBy

\* Without lists a version has the ancestors of its delta.
LEMMA VersionPlain ==
  ASSUME NEW tab, Ordered(tab), \A y \in 1..Len(tab) : tab[y].incl = {} /\ tab[y].excl = {}
  PROVE  \A s \in 0..Len(tab) : VersionOf(tab, s) = Ancestors(tab, s)
<1>0. Len(tab) \in Nat
  BY DEF Ordered
<1> DEFINE Bad == {y \in 0..Len(tab) : VersionOf(tab, y) # Ancestors(tab, y)}
<1>1. SUFFICES ASSUME Bad # {} PROVE FALSE
  OBVIOUS
<1>2. PICK y \in Bad : \A z \in Bad : y <= z
  <2>1. Bad \subseteq Nat
    OBVIOUS
  <2> HIDE DEF Bad
  <2> QED
    BY <1>1, <2>1, LeastNumber
<1>3. y \in 0..Len(tab) /\ VersionOf(tab, y) # Ancestors(tab, y)
  OBVIOUS
<1>4. y # 0
  BY <1>0, <1>3, AncestorsAre, VersionTyped
<1>5. y \in 1..Len(tab)
  BY <1>0, <1>3, <1>4
<1>6. tab[y].prev \in 0..Len(tab) /\ ~(y <= tab[y].prev)
  BY <1>0, <1>5 DEF Ordered
<1>7. VersionOf(tab, tab[y].prev) = Ancestors(tab, tab[y].prev)
  BY <1>2, <1>6
<1>8. Ancestors(tab, y) = {y} \cup Ancestors(tab, tab[y].prev)
  BY <1>5, AncestorsAre
<1>9. VersionOf(tab, y) = (VersionOf(tab, tab[y].prev) \cup {y} \cup tab[y].incl) \ tab[y].excl
  BY <1>5, VersionGrows
<1>10. VersionOf(tab, y) = VersionOf(tab, tab[y].prev) \cup {y}
  BY <1>5, <1>9
<1>11. VersionOf(tab, y) = Ancestors(tab, y)
  BY <1>7, <1>8, <1>10
<1> QED
  BY <1>3, <1>11

\* The ancestors of an ancestor.
LEMMA AncestorsSplit ==
  ASSUME NEW tab, Ordered(tab)
  PROVE  \A s \in 0..Len(tab) : \A a \in Ancestors(tab, s) :
           Ancestors(tab, s) \cap (0..a) = Ancestors(tab, a)
<1>0. Len(tab) \in Nat
  BY DEF Ordered
<1>1. \A s \in 0..Len(tab) : Ancestors(tab, s) \subseteq 0..s
  <2> TAKE s \in 0..Len(tab)
  <2>1. 0..s \in SUBSET (0..Len(tab)) /\ s \in 0..s
    BY <1>0 
  <2>2. Lineage(tab, 0..s)
    BY <1>0 DEF Lineage, Ordered
  <2> QED
    BY <2>1, <2>2 DEF Ancestors
<1> DEFINE Fine(s) == \A a \in Ancestors(tab, s) : Ancestors(tab, s) \cap (0..a) = Ancestors(tab, a)
           Bad == {y \in 0..Len(tab) : ~Fine(y)}
<1>2. SUFFICES ASSUME Bad # {} PROVE FALSE
  OBVIOUS
<1>3. PICK y \in Bad : \A z \in Bad : y <= z
  <2>1. Bad \subseteq Nat
    OBVIOUS
  <2> HIDE DEF Bad
  <2> QED
    BY <1>2, <2>1, LeastNumber
<1>4. y \in 0..Len(tab) /\ ~Fine(y)
  OBVIOUS
<1>5. y # 0
  <2>1. Ancestors(tab, 0) = {0}
    BY AncestorsAre
  <2>2. Fine(0)
    BY <2>1
  <2> QED
    BY <1>4, <2>2
<1>6. y \in 1..Len(tab)
  BY <1>0, <1>4, <1>5
<1> DEFINE p == tab[y].prev
<1>7. p \in 0..Len(tab) /\ ~(y <= p) /\ p <= y - 1
  BY <1>0, <1>6 DEF Ordered
<1>8. Fine(p)
  BY <1>3, <1>7
<1>9. Ancestors(tab, y) = {y} \cup Ancestors(tab, p) /\ Ancestors(tab, p) \subseteq 0..p /\ Ancestors(tab, y) \subseteq 0..y
  BY <1>1, <1>4, <1>6, <1>7, AncestorsAre
<1> HIDE DEF p
<1>10. ASSUME NEW a \in Ancestors(tab, y)
       PROVE  Ancestors(tab, y) \cap (0..a) = Ancestors(tab, a)
  <2>1. CASE a = y
    BY <1>9, <2>1
  <2>2. CASE a # y
    <3>1. a \in Ancestors(tab, p) /\ a \in 0..p
      BY <1>9, <2>2
    <3>2. Ancestors(tab, p) \cap (0..a) = Ancestors(tab, a)
      BY <1>8, <3>1
    <3>3. y \notin 0..a
      BY <1>0, <1>6, <1>7, <3>1
    <3> QED
      BY <1>9, <3>2, <3>3
  <2> QED
    BY <2>1, <2>2
<1> QED
  BY <1>4, <1>10

LEMMA DropTwo ==
  ASSUME NEW S, NEW a \in S, NEW b \in S, NEW t \in Seq(S), NEW L, L = <<a, b>> \o t
  PROVE  L[1] = a /\ L[2] = b /\ SubSeq(L, 3, Len(L)) = t
<1> DEFINE p == <<a, b>>
<1>1. p \in Seq(S) /\ Len(p) = 2 /\ p[1] = a /\ p[2] = b
  OBVIOUS
<1> HIDE DEF p
<1>2. L \in Seq(S) /\ Len(L) = 2 + Len(t) /\ \A i \in 1..Len(p) : L[i] = p[i]
  BY <1>1, Joining DEF p
<1>3. \A i \in 1..Len(t) : L[Len(p) + i] = t[i]
  BY <1>1, Joining DEF p
<1>4. L[1] = a /\ L[2] = b
  BY <1>1, <1>2
<1>5. \A i \in 3..Len(L) : L[i] \in S
  BY <1>2
<1> DEFINE u == SubSeq(L, 3, Len(L))
<1>6. /\ u \in Seq(S) /\ Len(u) = IF 3 <= Len(L) THEN Len(L) - 3 + 1 ELSE 0
      /\ \A i \in 1..(Len(L) - 3 + 1) : u[i] = L[3 + i - 1]
  BY <1>2, <1>5, SubSeqProperties
<1> HIDE DEF u
<1>7. Len(u) = Len(t) /\ Len(t) \in Nat
  BY <1>2, <1>6
<1>8. ASSUME NEW i \in 1..Len(u) PROVE u[i] = t[i]
  <2>1. i \in 1..(Len(L) - 3 + 1) /\ 3 + i - 1 = Len(p) + i
    BY <1>1, <1>2, <1>7
  <2>2. u[i] = L[Len(p) + i]
    BY <1>6, <2>1
  <2> QED
    BY <1>3, <1>7, <2>2
<1>9. u = t
  BY <1>6, <1>7, <1>8, Equal
<1> QED
  BY <1>4, <1>9 DEF u

LEMMA DropOne ==
  ASSUME NEW S, NEW a \in S, NEW t \in Seq(S)
  PROVE  Head(<<a>> \o t) = a /\ Tail(<<a>> \o t) = t
<1> DEFINE p == <<a>>
           L == p \o t
<1>1. p \in Seq(S) /\ Len(p) = 1 /\ p[1] = a
  OBVIOUS
<1> HIDE DEF p
<1>2. L \in Seq(S) /\ Len(L) = 1 + Len(t) /\ (\A i \in 1..Len(p) : L[i] = p[i])
      /\ \A i \in 1..Len(t) : L[Len(p) + i] = t[i]
  BY <1>1, Joining
<1> HIDE DEF L
<1>3. Head(L) = a
  BY <1>1, <1>2
<1>4. L # <<>>
  BY <1>2
<1>5. Tail(L) \in Seq(S) /\ Len(Tail(L)) = Len(L) - 1 /\ \A i \in 1..Len(Tail(L)) : Tail(L)[i] = L[i + 1]
  BY <1>2, <1>4, HeadTailProperties
<1>6. Len(Tail(L)) = Len(t)
  BY <1>2, <1>5
<1>7. \A i \in 1..Len(Tail(L)) : Tail(L)[i] = t[i]
  BY <1>1, <1>2, <1>5, <1>6
<1>8. Tail(L) = t
  BY <1>5, <1>6, <1>7, Equal
<1> QED
  BY <1>3, <1>8 DEF L, p

LEMMA CapTyped ==
  ASSUME NEW n \in Nat
  PROVE  Cap5(n) \in Nat /\ Cap5(n) <= n /\ (n <= 99999 => Cap5(n) = n)
BY DEF Cap5

\* A list is read when its line comes next, and left empty when there is none.
LEMMA ListIsRead ==
  ASSUME NEW S, NEW letter \in {"i", "x", "g"}, NEW seqs, PrintSeqs(letter, seqs) \in Seq(S),
         NEW t \in Seq(S), t # <<>>, t[1].k # letter
  PROVE  /\ seqs # {} => /\ Head(PrintSeqs(letter, seqs) \o t).k = letter
                         /\ Head(PrintSeqs(letter, seqs) \o t).seqs = seqs
                         /\ Tail(PrintSeqs(letter, seqs) \o t) = t
         /\ seqs = {} => PrintSeqs(letter, seqs) \o t = t /\ Head(t).k # letter
<1>1. CASE seqs # {}
  <2> DEFINE a == [k |-> letter, seqs |-> seqs]
  <2>1. PrintSeqs(letter, seqs) = <<a>> /\ a.k = letter /\ a.seqs = seqs
    BY <1>1 DEF PrintSeqs
  <2> HIDE DEF a
  <2>2. a \in S
    BY <2>1
  <2>3. Head(<<a>> \o t) = a /\ Tail(<<a>> \o t) = t
    BY <2>2, DropOne
  <2> QED
    BY Zenon, <1>1, <2>1, <2>3
<1>2. CASE seqs = {}
  <2>1. PrintSeqs(letter, seqs) = <<>>
    BY <1>2 DEF PrintSeqs
  <2>2. <<>> \o t = t
    BY ConcatEmptySeq
  <2>3. Head(t) = t[1]
    OBVIOUS
  <2> QED
    BY Zenon, <1>2, <2>1, <2>2, <2>3
<1> QED
  BY <1>1, <1>2

\* An entry is read as it was written, but for counts that are too long.
LEMMA EntryIsReread ==
  ASSUME NEW d \in DeltaEntries, d.ignd = {}
  PROVE  ReadDelta(WriteDelta(d)) =
           [type |-> d.type, prev |-> d.prev, incl |-> d.incl, excl |-> d.excl, ignd |-> {},
            inserted |-> Cap5(d.inserted), deleted |-> Cap5(d.deleted),
            unchanged |-> Cap5(d.unchanged)]
<1> DEFINE a == [k |-> "s", inserted |-> Cap5(d.inserted), deleted |-> Cap5(d.deleted),
                 unchanged |-> Cap5(d.unchanged)]
           b == [k |-> "d", type |-> d.type, prev |-> d.prev]
           i == [k |-> "i", seqs |-> d.incl]
           x == [k |-> "x", seqs |-> d.excl]
           e == [k |-> "e"]
           S == {a, b, i, x, e}
           P == PrintSeqs("i", d.incl)
           Q == PrintSeqs("x", d.excl)
           E == <<e>>
           L == WriteDelta(d)
           rest == SubSeq(L, 3, Len(L))
           none == [i |-> {}, x |-> {}, g |-> {}, rest |-> rest]
           r == ReadList(ReadList(ReadList(none, "i"), "x"), "g")
<1>1. L = <<a, b>> \o P \o Q \o <<>> \o E
  BY DEF WriteDelta, PrintSeqs
<1>2. a.inserted = Cap5(d.inserted) /\ a.deleted = Cap5(d.deleted) /\ a.unchanged = Cap5(d.unchanged)
  OBVIOUS
<1>3. b.type = d.type /\ b.prev = d.prev
  OBVIOUS
<1>4. i.k = "i" /\ x.k = "x" /\ e.k = "e"
  OBVIOUS
<1>5. P \in Seq(S) /\ Q \in Seq(S) /\ E \in Seq(S) /\ <<a, b>> \in Seq(S) /\ a \in S /\ b \in S
  <2>1. P = (IF d.incl = {} THEN <<>> ELSE <<i>>) /\ Q = (IF d.excl = {} THEN <<>> ELSE <<x>>)
    BY DEF PrintSeqs
  <2> HIDE DEF a, b, i, x, e, P, Q
  <2>5. <<>> \in Seq(S) /\ <<i>> \in Seq(S) /\ <<x>> \in Seq(S)
    OBVIOUS
  <2> HIDE DEF S
  <2>2. P \in Seq(S)
    BY Zenon, <2>1, <2>5
  <2>3. Q \in Seq(S)
    BY Zenon, <2>1, <2>5
  <2>4. <<e>> \in Seq(S) /\ <<a, b>> \in Seq(S) /\ a \in S /\ b \in S
    BY DEF S
  <2> QED
    BY Zenon, <2>2, <2>3, <2>4
<1>6. ReadDelta(L) =
        [type |-> IF Head(r.rest).k = "e" THEN L[2].type ELSE "corrupt",
         prev |-> L[2].prev, incl |-> r.i, excl |-> r.x, ignd |-> r.g,
         inserted |-> L[1].inserted, deleted |-> L[1].deleted, unchanged |-> L[1].unchanged]
  BY DEF ReadDelta
<1>7. E # <<>> /\ E[1].k = "e" /\ Head(E) = e
  OBVIOUS
<1>8. Q = <<>> \/ Q[1].k = "x"
  BY DEF PrintSeqs
<1> HIDE DEF a, b, i, x, e, L, S, P, Q, E
<1>9. L = <<a, b>> \o (P \o (Q \o E))
  <2>1. <<a, b>> \o P \in Seq(S) /\ Q \o E \in Seq(S) /\ <<a, b>> \o P \o Q \in Seq(S)
    BY <1>5
  <2>2. <<a, b>> \o P \o Q \o <<>> = <<a, b>> \o P \o Q
    BY <2>1, ConcatEmptySeq
  <2>3. (<<a, b>> \o P) \o Q \o E = (<<a, b>> \o P) \o (Q \o E)
    BY SMTT(30), <1>5, <2>1, ConcatAssociative
  <2>4. (<<a, b>> \o P) \o (Q \o E) = <<a, b>> \o (P \o (Q \o E))
    BY SMTT(30), <1>5, <2>1, ConcatAssociative
  <2> QED
    BY Zenon, <1>1, <2>2, <2>3, <2>4
<1>10. P \o (Q \o E) \in Seq(S) /\ Q \o E \in Seq(S)
  BY <1>5
<1>11. L[1] = a /\ L[2] = b /\ rest = P \o (Q \o E)
  BY <1>5, <1>9, <1>10, DropTwo
<1>12. Q \o E # <<>> /\ (Q \o E)[1].k # "i"
  <2>1. Len(E) >= 1
    BY <1>5, <1>7
  <2>2. Len(Q \o E) = Len(Q) + Len(E)
    BY <1>5
  <2>3. CASE Q = <<>>
    <3>1. Q \o E = E
      BY <1>5, <2>3, ConcatEmptySeq
    <3> QED
      BY <1>7, <3>1
  <2>4. CASE Q # <<>>
    <3>1. 1 \in 1..Len(Q)
      BY <1>5, <2>4
    <3>2. (Q \o E)[1] = Q[1]
      BY <1>5, <3>1, Joining
    <3>3. Q \o E # <<>>
      BY <1>5, <2>1, <2>2
    <3> QED
      BY <1>8, <2>4, <3>2, <3>3
  <2> QED
    BY <2>3, <2>4
<1> HIDE DEF rest
<1> DEFINE n1 == [i |-> d.incl, x |-> {}, g |-> {}, rest |-> Q \o E]
           n2 == [i |-> d.incl, x |-> d.excl, g |-> {}, rest |-> E]
<1>13. ReadList(none, "i") = n1
  <2>1. /\ d.incl # {} => Head(P \o (Q \o E)).k = "i" /\ Head(P \o (Q \o E)).seqs = d.incl /\ Tail(P \o (Q \o E)) = Q \o E
        /\ d.incl = {} => P \o (Q \o E) = Q \o E /\ Head(Q \o E).k # "i"
    <3> HIDE DEF n1, n2
    <3>1. PICK R : R = Q \o E
      OBVIOUS
    <3>2. R \in Seq(S) /\ R # <<>> /\ R[1].k # "i" /\ PrintSeqs("i", d.incl) \in Seq(S)
      BY <1>5, <1>10, <1>12, <3>1 DEF P
    <3>3. "i" \in {"i", "x", "g"}
      OBVIOUS
    <3>4. /\ d.incl # {} => /\ Head(PrintSeqs("i", d.incl) \o R).k = "i"
                            /\ Head(PrintSeqs("i", d.incl) \o R).seqs = d.incl
                            /\ Tail(PrintSeqs("i", d.incl) \o R) = R
          /\ d.incl = {} => PrintSeqs("i", d.incl) \o R = R /\ Head(R).k # "i"
      BY <3>2, <3>3, ListIsRead
    <3> QED
      BY Zenon, <3>1, <3>4 DEF P
  <2>2. CASE d.incl # {}
    <3>1. Head(rest).k = "i" /\ Head(rest).seqs = d.incl /\ Tail(rest) = Q \o E
      BY Zenon, <1>11, <2>1, <2>2
    <3> QED
      BY <3>1 DEF ReadList
  <2>3. CASE d.incl = {}
    <3>1. rest = Q \o E /\ Head(rest).k # "i"
      BY Zenon, <1>11, <2>1, <2>3
    <3> QED
      BY <3>1, <2>3 DEF ReadList
  <2> QED
    BY <2>2, <2>3
<1>14. ReadList(n1, "x") = n2
  <2>1. /\ d.excl # {} => Head(Q \o E).k = "x" /\ Head(Q \o E).seqs = d.excl /\ Tail(Q \o E) = E
        /\ d.excl = {} => Q \o E = E /\ Head(E).k # "x"
    <3>1. E \in Seq(S) /\ E # <<>> /\ E[1].k # "x" /\ PrintSeqs("x", d.excl) \in Seq(S)
      BY <1>5, <1>7 DEF Q
    <3>2. "x" \in {"i", "x", "g"}
      OBVIOUS
    <3> HIDE DEF n1, n2
    <3>3. /\ d.excl # {} => /\ Head(PrintSeqs("x", d.excl) \o E).k = "x"
                           /\ Head(PrintSeqs("x", d.excl) \o E).seqs = d.excl
                           /\ Tail(PrintSeqs("x", d.excl) \o E) = E
          /\ d.excl = {} => PrintSeqs("x", d.excl) \o E = E /\ Head(E).k # "x"
      BY <3>1, <3>2, ListIsRead
    <3> QED
      BY Zenon, <3>3 DEF Q
  <2>2. CASE d.excl # {}
    BY <2>1, <2>2 DEF ReadList
  <2>3. CASE d.excl = {}
    BY <2>1, <2>3 DEF ReadList
  <2> QED
    BY <2>2, <2>3
<1>15. ReadList(n2, "g") = n2
  BY <1>4, <1>7 DEF ReadList
<1>16. r = n2
  BY Zenon, <1>13, <1>14, <1>15
<1> HIDE DEF r
<1>17. r.i = d.incl /\ r.x = d.excl /\ r.g = {} /\ Head(r.rest).k = "e"
  BY <1>4, <1>7, <1>16
<1> QED
  BY <1>2, <1>3, <1>6, <1>11, <1>17 DEF L

Capped(d) == [type |-> d.type, prev |-> d.prev, incl |-> d.incl, excl |-> d.excl, ignd |-> {},
              inserted |-> Cap5(d.inserted), deleted |-> Cap5(d.deleted),
              unchanged |-> Cap5(d.unchanged)]

LEMMA CappedIs ==
  ASSUME NEW d \in DeltaEntries
  PROVE  /\ Capped(d) \in DeltaEntries
         /\ Capped(d).type = d.type /\ Capped(d).prev = d.prev /\ Capped(d).incl = d.incl
         /\ Capped(d).excl = d.excl /\ Capped(d).ignd = {}
         /\ Capped(d).inserted = Cap5(d.inserted) /\ Capped(d).deleted = Cap5(d.deleted)
         /\ Capped(d).unchanged = Cap5(d.unchanged)
<1>1. d.inserted \in Nat /\ d.deleted \in Nat /\ d.unchanged \in Nat
  BY DEF DeltaEntries
<1>2. Cap5(d.inserted) \in Nat
  BY <1>1, CapTyped
<1>3. Cap5(d.deleted) \in Nat
  BY <1>1, CapTyped
<1>4. Cap5(d.unchanged) \in Nat
  BY <1>1, CapTyped
<1> QED
  BY <1>2, <1>3, <1>4 DEF DeltaEntries, Capped

\* The table that the next command reads.
IgnoresNone(tab) == \A s \in 1..Len(tab) : tab[s].ignd = {}

LEMMA RereadIs ==
  ASSUME NEW tab \in Seq(DeltaEntries), IgnoresNone(tab)
  PROVE  /\ Reread(tab) \in Seq(DeltaEntries) /\ Len(Reread(tab)) = Len(tab)
         /\ \A s \in 1..Len(tab) :
              /\ Reread(tab)[s].type = tab[s].type /\ Reread(tab)[s].prev = tab[s].prev
              /\ Reread(tab)[s].incl = tab[s].incl /\ Reread(tab)[s].excl = tab[s].excl
              /\ Reread(tab)[s].ignd = {}
              /\ Reread(tab)[s].inserted = Cap5(tab[s].inserted)
              /\ Reread(tab)[s].deleted = Cap5(tab[s].deleted)
              /\ Reread(tab)[s].unchanged = Cap5(tab[s].unchanged)
<1> DEFINE R == Reread(tab)
           D(d) == Capped(d)
<1>1. ASSUME NEW d \in DeltaEntries
      PROVE  /\ D(d) \in DeltaEntries
             /\ D(d).type = d.type /\ D(d).prev = d.prev /\ D(d).incl = d.incl /\ D(d).excl = d.excl
             /\ D(d).ignd = {} /\ D(d).inserted = Cap5(d.inserted) /\ D(d).deleted = Cap5(d.deleted)
             /\ D(d).unchanged = Cap5(d.unchanged)
  BY CappedIs DEF Capped
<1>2. R = [s \in 1..Len(tab) |-> ReadDelta(WriteDelta(tab[s]))]
  BY DEF Reread
<1>3. ASSUME NEW s \in 1..Len(tab) PROVE tab[s] \in DeltaEntries /\ R[s] = D(tab[s])
  <2>1. tab[s] \in DeltaEntries
    OBVIOUS
  <2>2. R[s] = ReadDelta(WriteDelta(tab[s]))
    BY <1>2
  <2>3. ReadDelta(WriteDelta(tab[s])) = D(tab[s])
    BY <2>1, EntryIsReread DEF IgnoresNone, Capped
  <2> HIDE DEF D
  <2> QED
    BY Zenon, <2>1, <2>2, <2>3
<1> HIDE DEF D
<1>4. \A s \in 1..Len(tab) : R[s] \in DeltaEntries
  BY <1>1, <1>3
<1>5. R \in Seq(DeltaEntries) /\ Len(R) = Len(tab)
  <2>1. R = [s \in 1..Len(tab) |-> R[s]] /\ Len(tab) \in Nat
    BY <1>2
  <2> HIDE DEF R
  <2> QED
    BY <1>4, <2>1
<1> QED
  BY <1>1, <1>3, <1>5

\* The table that a check-in leaves: tab, the null deltas and the new delta.
NullDeltas(tab, pred, nulls) ==
  [i \in 1..nulls |-> NewDelta(IF i = 1 THEN pred ELSE Len(tab) + i - 1, {}, {}, 0, 0, 0)]

\* A table and what a check-in made of it.
Grown(tab2, tab, pred, nulls, incl, excl) ==
  /\ Ordered(tab2) /\ Len(tab2) = Len(tab) + nulls + 1
  /\ \A s \in 1..Len(tab) :
       /\ tab2[s].type = tab[s].type /\ tab2[s].prev = tab[s].prev
       /\ tab2[s].incl = tab[s].incl /\ tab2[s].excl = tab[s].excl
  /\ \A i \in 1..nulls :
       /\ tab2[Len(tab) + i].type = "D"
       /\ tab2[Len(tab) + i].prev = (IF i = 1 THEN pred ELSE Len(tab) + i - 1)
       /\ tab2[Len(tab) + i].incl = {} /\ tab2[Len(tab) + i].excl = {}
  /\ tab2[Len(tab) + nulls + 1].type = "D"
  /\ tab2[Len(tab) + nulls + 1].prev = (IF nulls = 0 THEN pred ELSE Len(tab) + nulls)
  /\ tab2[Len(tab) + nulls + 1].incl = incl /\ tab2[Len(tab) + nulls + 1].excl = excl

\* The table that a check-in writes and the next command reads, and its counts.
NewTable(tab, pred, nulls, incl, excl, i, d, u) ==
  Reread(tab \o NullDeltas(tab, pred, nulls)
         \o <<NewDelta(IF nulls = 0 THEN pred ELSE Len(tab) + nulls, incl, excl, i, d, u)>>)

CountsGrown(tab2, tab, nulls, i, d, u) ==
  /\ \A s \in 1..Len(tab) : /\ tab2[s].inserted = Cap5(tab[s].inserted)
                            /\ tab2[s].deleted = Cap5(tab[s].deleted)
                            /\ tab2[s].unchanged = Cap5(tab[s].unchanged)
  /\ \A k \in 1..nulls : /\ tab2[Len(tab) + k].inserted = 0
                         /\ tab2[Len(tab) + k].deleted = 0
                         /\ tab2[Len(tab) + k].unchanged = 0
  /\ tab2[Len(tab) + nulls + 1].inserted = Cap5(i)
  /\ tab2[Len(tab) + nulls + 1].deleted = Cap5(d)
  /\ tab2[Len(tab) + nulls + 1].unchanged = Cap5(u)

LEMMA GrownIs ==
  ASSUME NEW tab, Ordered(tab), NEW pred \in 1..Len(tab), NEW nulls \in Nat,
         NEW incl \in SUBSET (1..Len(tab)), NEW excl \in SUBSET (1..Len(tab)),
         NEW i \in Nat, NEW d \in Nat, NEW u \in Nat,
         NEW tab2, tab2 = NewTable(tab, pred, nulls, incl, excl, i, d, u)
  PROVE  Grown(tab2, tab, pred, nulls, incl, excl) /\ CountsGrown(tab2, tab, nulls, i, d, u)
<1> DEFINE n == Len(tab)
           np == IF nulls = 0 THEN pred ELSE Len(tab) + nulls
           mid == NullDeltas(tab, pred, nulls)
           last == NewDelta(np, incl, excl, i, d, u)
           end == <<last>>
           t1 == tab \o mid
           t2 == t1 \o end
<1>0. n \in Nat /\ n = Len(tab) /\ tab \in Seq(DeltaEntries) /\ np \in Nat /\ np <= n + nulls
      /\ incl \in SUBSET Nat /\ excl \in SUBSET Nat
  BY DEF Ordered
<1>0a. np = (IF nulls = 0 THEN pred ELSE n + nulls)
  OBVIOUS
<1>0b. tab2 = Reread(t2)
  BY Zenon DEF NewTable
<1> HIDE DEF np
<1>1. \A k \in 1..nulls : /\ mid[k] \in DeltaEntries /\ mid[k].type = "D"
                          /\ mid[k].prev = (IF k = 1 THEN pred ELSE n + k - 1)
                          /\ mid[k].incl = {} /\ mid[k].excl = {} /\ mid[k].ignd = {}
                          /\ mid[k].inserted = 0 /\ mid[k].deleted = 0 /\ mid[k].unchanged = 0
  <2> TAKE k \in 1..nulls
  <2> DEFINE p == IF k = 1 THEN pred ELSE n + k - 1
  <2>1. p \in Nat
    BY <1>0
  <2>2. mid[k] = NewDelta(p, {}, {}, 0, 0, 0)
    BY DEF NullDeltas
  <2> HIDE DEF p, mid
  <2>3. {} \in SUBSET Nat /\ 0 \in Nat
    OBVIOUS
  <2>4. /\ mid[k] \in DeltaEntries /\ mid[k].type = "D" /\ mid[k].prev = p
        /\ mid[k].incl = {} /\ mid[k].excl = {} /\ mid[k].ignd = {}
        /\ mid[k].inserted = 0 /\ mid[k].deleted = 0 /\ mid[k].unchanged = 0
    BY <2>1, <2>2, <2>3 DEF NewDelta, DeltaEntries
  <2> QED
    BY Zenon, <2>4 DEF p
<1>2. mid \in Seq(DeltaEntries) /\ Len(mid) = nulls
  <2>1. mid = [k \in 1..nulls |-> mid[k]]
    BY DEF NullDeltas
  <2> HIDE DEF mid
  <2> QED
    BY <1>1, <2>1
<1>3. /\ last \in DeltaEntries /\ last.type = "D" /\ last.prev = np /\ last.incl = incl
      /\ last.excl = excl /\ last.ignd = {} /\ last.inserted = i /\ last.deleted = d
      /\ last.unchanged = u
  BY <1>0 DEF NewDelta, DeltaEntries
<1> HIDE DEF last, mid, n
<1>4. end \in Seq(DeltaEntries) /\ Len(end) = 1 /\ end[1] = last
  BY <1>3
<1> HIDE DEF end
<1>5. /\ t1 \in Seq(DeltaEntries) /\ Len(t1) = n + nulls
      /\ (\A k \in 1..n : t1[k] = tab[k]) /\ \A k \in 1..nulls : t1[n + k] = mid[k]
  <2>1. Len(t1) = n + Len(mid) /\ t1 \in Seq(DeltaEntries) /\ \A k \in 1..n : t1[k] = tab[k]
    BY <1>0, <1>2, Joining
  <2>2. \A k \in 1..Len(mid) : t1[n + k] = mid[k]
    BY <1>0, <1>2, Joining
  <2> QED
    BY <1>2, <2>1, <2>2
<1> HIDE DEF t1
<1>6. /\ t2 \in Seq(DeltaEntries) /\ Len(t2) = n + nulls + 1
      /\ (\A k \in 1..(n + nulls) : t2[k] = t1[k]) /\ t2[n + nulls + 1] = last
  <2>0. t1 \in Seq(DeltaEntries) /\ end \in Seq(DeltaEntries)
    BY <1>4, <1>5
  <2>1. Len(t2) = Len(t1) + Len(end) /\ t2 \in Seq(DeltaEntries) /\ \A k \in 1..Len(t1) : t2[k] = t1[k]
    BY <2>0, Joining
  <2>2. \A k \in 1..Len(end) : t2[Len(t1) + k] = end[k]
    BY <2>0, Joining
  <2> HIDE DEF t2
  <2>3. 1 \in 1..Len(end)
    BY <1>4
  <2>4. t2[Len(t1) + 1] = last
    BY <1>4, <2>2, <2>3
  <2> QED
    BY <1>4, <1>5, <2>1, <2>4
<1> HIDE DEF t2
<1>7. \A k \in 1..n : t2[k] = tab[k]
  BY <1>0, <1>5, <1>6
<1>8. \A k \in 1..nulls : t2[n + k] = mid[k]
  <2> TAKE k \in 1..nulls
  <2>1. n + k \in 1..(n + nulls)
    BY <1>0
  <2> QED
    BY <1>5, <1>6, <2>1
<1>9. IgnoresNone(t2)
  <2> SUFFICES \A k \in 1..Len(t2) : t2[k].ignd = {}
    BY DEF IgnoresNone
  <2> TAKE k \in 1..Len(t2)
  <2>1. CASE k \in 1..n
    <3>1. tab[k].ignd = {}
      BY <2>1 DEF Ordered, n
    <3> QED
      BY <1>7, <2>1, <3>1
  <2>2. CASE k \in (n + 1)..(n + nulls)
    <3>1. k - n \in 1..nulls /\ k = n + (k - n)
      BY <1>0, <2>2
    <3>2. t2[k] = mid[k - n]
      BY <1>8, <3>1
    <3> QED
      BY <1>1, <3>1, <3>2
  <2>3. CASE k = n + nulls + 1
    BY <1>3, <1>6, <2>3
  <2>4. k \in 1..n \/ k \in (n + 1)..(n + nulls) \/ k = n + nulls + 1
    BY SMTT(30), <1>0, <1>6
  <2> QED
    BY Zenon, <2>1, <2>2, <2>3, <2>4
<1>10. tab2 = Reread(t2)
  BY Zenon, <1>0b DEF t2, t1, end, mid, last, n
<1> HIDE DEF n
<1>11. /\ tab2 \in Seq(DeltaEntries) /\ Len(tab2) = n + nulls + 1
       /\ \A s \in 1..(n + nulls + 1) :
            /\ tab2[s].type = t2[s].type /\ tab2[s].prev = t2[s].prev
            /\ tab2[s].incl = t2[s].incl /\ tab2[s].excl = t2[s].excl
            /\ tab2[s].ignd = {}
            /\ tab2[s].inserted = Cap5(t2[s].inserted)
            /\ tab2[s].deleted = Cap5(t2[s].deleted)
            /\ tab2[s].unchanged = Cap5(t2[s].unchanged)
  <2>1. t2 \in Seq(DeltaEntries) /\ Len(t2) = n + nulls + 1
    BY <1>6
  <2>2. Reread(t2) \in Seq(DeltaEntries) /\ Len(Reread(t2)) = Len(t2)
    BY <1>9, <2>1, RereadIs
  <2>3. \A s \in 1..Len(t2) :
            /\ Reread(t2)[s].type = t2[s].type /\ Reread(t2)[s].prev = t2[s].prev
            /\ Reread(t2)[s].incl = t2[s].incl /\ Reread(t2)[s].excl = t2[s].excl
            /\ Reread(t2)[s].ignd = {}
            /\ Reread(t2)[s].inserted = Cap5(t2[s].inserted)
            /\ Reread(t2)[s].deleted = Cap5(t2[s].deleted)
            /\ Reread(t2)[s].unchanged = Cap5(t2[s].unchanged)
    BY <1>9, <2>1, RereadIs
  <2> QED
    BY Zenon, <1>10, <2>1, <2>2, <2>3
<1>12. \A s \in 1..n :
            /\ tab2[s].type = tab[s].type /\ tab2[s].prev = tab[s].prev
            /\ tab2[s].incl = tab[s].incl /\ tab2[s].excl = tab[s].excl
            /\ tab2[s].inserted = Cap5(tab[s].inserted)
            /\ tab2[s].deleted = Cap5(tab[s].deleted)
            /\ tab2[s].unchanged = Cap5(tab[s].unchanged)
  <2> TAKE s \in 1..n
  <2>1. s \in 1..(n + nulls + 1)
    BY <1>0
  <2>2. t2[s] = tab[s]
    BY <1>7
  <2> QED
    BY <1>11, <2>1, <2>2
<1>13. \A k \in 1..nulls :
            /\ tab2[n + k].type = "D" /\ tab2[n + k].prev = (IF k = 1 THEN pred ELSE n + k - 1)
            /\ tab2[n + k].incl = {} /\ tab2[n + k].excl = {}
            /\ tab2[n + k].inserted = 0 /\ tab2[n + k].deleted = 0 /\ tab2[n + k].unchanged = 0
  <2> TAKE k \in 1..nulls
  <2>1. n + k \in 1..(n + nulls + 1)
    BY <1>0
  <2>2. Cap5(0) = 0
    BY DEF Cap5
  <2>3. mid[k] = t2[n + k]
    BY <1>8
  <2>4. /\ tab2[n + k].type = mid[k].type /\ tab2[n + k].prev = mid[k].prev
        /\ tab2[n + k].incl = mid[k].incl /\ tab2[n + k].excl = mid[k].excl
        /\ tab2[n + k].inserted = Cap5(mid[k].inserted)
        /\ tab2[n + k].deleted = Cap5(mid[k].deleted)
        /\ tab2[n + k].unchanged = Cap5(mid[k].unchanged)
    BY Zenon, <1>11, <2>1, <2>3
  <2> QED
    BY Zenon, <1>1, <2>2, <2>4
<1>14. /\ tab2[n + nulls + 1].type = "D" /\ tab2[n + nulls + 1].prev = np
       /\ tab2[n + nulls + 1].incl = incl /\ tab2[n + nulls + 1].excl = excl
       /\ tab2[n + nulls + 1].inserted = Cap5(i) /\ tab2[n + nulls + 1].deleted = Cap5(d)
       /\ tab2[n + nulls + 1].unchanged = Cap5(u)
  <2>1. n + nulls + 1 \in 1..(n + nulls + 1)
    BY <1>0
  <2> QED
    BY <1>3, <1>6, <1>11, <2>1
<1>15. Ordered(tab2)
  <2> SUFFICES ASSUME NEW s \in 1..(n + nulls + 1)
               PROVE  /\ tab2[s].prev \in 0..(s - 1) /\ tab2[s].incl \subseteq 1..(s - 1)
                      /\ tab2[s].excl \subseteq 1..(s - 1)
    BY <1>11 DEF Ordered
  <2>1. CASE s \in 1..n
    <3>1. tab[s].prev \in 0..(s - 1) /\ tab[s].incl \subseteq 1..(s - 1) /\ tab[s].excl \subseteq 1..(s - 1)
      BY <2>1 DEF Ordered, n
    <3> QED
      BY Zenon, <1>12, <2>1, <3>1
  <2>2. CASE s \in (n + 1)..(n + nulls)
    <3>1. PICK k \in 1..nulls : s = n + k
      <4>1. s - n \in 1..nulls /\ s = n + (s - n)
        BY <1>0, <2>2
      <4> QED
        BY <4>1
    <3>3. s - 1 = n + k - 1 /\ k \in Nat /\ k >= 1
      BY <1>0, <3>1
    <3>4. tab2[s].prev = IF k = 1 THEN pred ELSE n + k - 1
      BY Zenon, <1>13, <3>1
    <3>5. pred \in 1..n
      BY DEF n
    <3>2. tab2[s].prev \in 0..(s - 1)
      BY <1>0, <3>1, <3>3, <3>4, <3>5
    <3> QED
      BY <1>13, <3>1, <3>2
  <2>3. CASE s = n + nulls + 1
    <3>1. incl \subseteq 1..n /\ excl \subseteq 1..n
      BY DEF n
    <3>2. s - 1 = n + nulls
      BY <1>0, <2>3
    <3>3. incl \subseteq 1..(s - 1) /\ excl \subseteq 1..(s - 1) /\ np \in 0..(s - 1)
      BY <1>0, <3>1, <3>2
    <3> QED
      BY Zenon, <1>14, <2>3, <3>3
  <2>4. s \in 1..n \/ s \in (n + 1)..(n + nulls) \/ s = n + nulls + 1
    BY <1>0
  <2> QED
    BY Zenon, <2>1, <2>2, <2>3, <2>4
<1>16. Grown(tab2, tab, pred, nulls, incl, excl)
  BY Zenon, <1>11, <1>12, <1>13, <1>14, <1>15, <1>0a DEF Grown, n
<1> QED
  BY Zenon, <1>12, <1>13, <1>14, <1>16 DEF n, CountsGrown

\* A current delta depends on current deltas, and only the first has no predecessor.
Sound(tab) ==
  /\ Ordered(tab)
  /\ \A s \in Current(tab) : /\ tab[s].prev \in Current(tab) \cup {0}
                             /\ tab[s].prev = 0 => s = 1
                             /\ tab[s].incl \cup tab[s].excl \subseteq Current(tab)

\* What a delta includes can be included without its lists and its exclusions mattering.
Plainly(tab, pred, incl) ==
  \A u \in incl : tab[u].incl = {} /\ tab[u].excl = {} /\ u \notin ExcludedBy(tab, pred)

LEMMA GrownKeeps ==
  ASSUME NEW tab, NEW tab2, Ordered(tab), NEW pred \in 1..Len(tab), NEW nulls \in Nat,
         NEW incl \in SUBSET (1..Len(tab)), NEW excl \in SUBSET (1..Len(tab)),
         Grown(tab2, tab, pred, nulls, incl, excl)
  PROVE  /\ Agree(tab2, tab, Len(tab))
         /\ Len(tab2) \in Nat /\ Len(tab2) = Len(tab) + nulls + 1
         /\ \A s \in 0..Len(tab) : VersionOf(tab2, s) = VersionOf(tab, s)
                                   /\ ExcludedBy(tab2, s) = ExcludedBy(tab, s)
         /\ Current(tab2) = Current(tab) \cup ((Len(tab) + 1)..Len(tab2))
<1> DEFINE n == Len(tab)
           q == Len(tab2)
<1>0. n \in Nat /\ n = Len(tab) /\ q \in Nat /\ q = n + nulls + 1 /\ q = Len(tab2) /\ Ordered(tab2)
  BY DEF Ordered, Grown
<1>1. Agree(tab2, tab, n)
  BY DEF Agree, Grown
<1>2. \A s \in 0..n : VersionOf(tab2, s) = VersionOf(tab, s) /\ ExcludedBy(tab2, s) = ExcludedBy(tab, s)
  <2> TAKE s \in 0..n
  <2>1. Agree(tab2, tab, s)
    BY <1>0, <1>1 DEF Agree
  <2>2. s \in 0..q
    BY <1>0
  <2> QED
    BY <1>0, <2>1, <2>2, VersionKept
<1> HIDE DEF n, q
<1>3. \A s \in 1..n : tab2[s].type = tab[s].type
  BY DEF Grown, n
<1>4. \A s \in (n + 1)..q : tab2[s].type = "D"
  <2> TAKE s \in (n + 1)..q
  <2>1. CASE s = n + nulls + 1
    BY <2>1 DEF Grown, n
  <2>2. CASE s # n + nulls + 1
    <3>1. s - n \in 1..nulls /\ s = n + (s - n)
      BY <1>0, <2>2
    <3>2. \A i \in 1..nulls : tab2[n + i].type = "D"
      BY DEF Grown, n
    <3>3. tab2[n + (s - n)].type = "D"
      BY <3>1, <3>2
    <3> QED
      BY Zenon, <3>1, <3>3
  <2> QED
    BY <2>1, <2>2
<1>5. ASSUME NEW s PROVE s \in Current(tab2) <=> s \in Current(tab) \cup ((n + 1)..q)
  <2>1. s \in Current(tab2) <=> s \in 1..q /\ tab2[s].type = "D"
    BY <1>0, CurrentIs
  <2>2. s \in Current(tab) <=> s \in 1..n /\ tab[s].type = "D"
    BY <1>0, CurrentIs
  <2>3. s \in 1..q <=> s \in 1..n \/ s \in (n + 1)..q
    BY <1>0
  <2>4. ~(s \in 1..n /\ s \in (n + 1)..q)
    BY <1>0
  <2> QED
    BY <1>3, <1>4, <2>1, <2>2, <2>3, <2>4
<1> QED
  BY <1>0, <1>1, <1>2, <1>5 DEF n, q

\* What the new delta depends on.
LEMMA GrownClosed ==
  ASSUME NEW tab, NEW tab2, Ordered(tab), NEW pred \in 1..Len(tab), NEW nulls \in Nat,
         NEW incl \in SUBSET (1..Len(tab)), NEW excl \in SUBSET (1..Len(tab)),
         Grown(tab2, tab, pred, nulls, incl, excl),
         NEW S, Closed(tab2, S)
  PROVE  /\ Closed(tab, S)
         /\ Len(tab2) \in S => pred \in S /\ incl \subseteq S
<1> DEFINE n == Len(tab)
           q == Len(tab2)
<1>0. n \in Nat /\ n = Len(tab) /\ q \in Nat /\ q = n + nulls + 1 /\ q = Len(tab2)
  BY DEF Ordered, Grown
<1>1. Closed(tab, S)
  <2>1. \A u \in 1..n : u \in 1..q /\ tab2[u].prev = tab[u].prev /\ tab2[u].incl = tab[u].incl
    BY <1>0 DEF Grown
  <2> QED
    BY <2>1 DEF Closed
<1>2. \A u \in S \cap (1..q) : tab2[u].prev \in S /\ tab2[u].incl \subseteq S
  BY DEF Closed
<1>3. ASSUME q \in S PROVE pred \in S /\ incl \subseteq S
  <2> HIDE DEF n, q
  <2>1. q \in 1..q
    BY <1>0
  <2>2. /\ tab2[q].prev = (IF nulls = 0 THEN pred ELSE n + nulls) /\ tab2[q].incl = incl
    BY <1>0 DEF Grown
  <2>3. incl \subseteq S /\ tab2[q].prev \in S
    BY <1>2, <1>3, <2>1, <2>2
  <2>4. CASE nulls = 0
    BY <2>2, <2>3, <2>4
  <2>5. CASE nulls # 0
    <3>1. n + nulls \in S /\ nulls - 1 \in Nat
      BY <2>2, <2>3, <2>5
    <3> DEFINE Good == {k \in 1..nulls : n + k \in S}
    <3>2. (nulls - 1) + 1 \in Good
      BY <3>1
    <3>3. ASSUME NEW k \in 1..(nulls - 1), k + 1 \in Good PROVE k \in Good
      <4>1. n + (k + 1) \in S /\ n + (k + 1) \in 1..q /\ k + 1 \in 1..nulls /\ k + 1 # 1
        BY <1>0, <3>3
      <4>2. tab2[n + (k + 1)].prev = IF k + 1 = 1 THEN pred ELSE n + (k + 1) - 1
        BY <1>0, <4>1 DEF Grown
      <4>3. n + (k + 1) - 1 = n + k
        BY <1>0
      <4>4. tab2[n + (k + 1)].prev = n + k
        BY Zenon, <4>1, <4>2, <4>3
      <4>5. n + k \in S
        BY <1>2, <4>1, <4>4
      <4> QED
        BY <4>5, <3>3
    <3> HIDE DEF Good
    <3>4. \A k \in 1..((nulls - 1) + 1) : k \in Good
      BY <3>1, <3>2, <3>3, DownwardInduction
    <3>5. n + 1 \in S /\ n + 1 \in 1..q /\ 1 \in 1..nulls
      BY <1>0, <3>1, <3>4 DEF Good
    <3>6. tab2[n + 1].prev = pred
      BY <1>0, <3>5 DEF Grown
    <3> QED
      BY <1>2, <2>3, <3>5, <3>6
  <2> QED
    BY <2>4, <2>5
<1> QED
  BY <1>1, <1>3

\* The versions of the new deltas.
VersionsAdded(tab2, tab, pred, nulls, incl, excl) ==
  /\ \A k \in 1..nulls :
       VersionOf(tab2, Len(tab) + k) =
         VersionOf(tab, pred) \cup ((Len(tab) + 1)..(Len(tab) + k))
  /\ VersionOf(tab2, Len(tab2)) =
       ((VersionOf(tab, pred) \cup incl) \ excl) \cup ((Len(tab) + 1)..Len(tab2))

LEMMA GrownVersions ==
  ASSUME NEW tab, NEW tab2, Ordered(tab), NEW pred \in 1..Len(tab), NEW nulls \in Nat,
         NEW incl \in SUBSET (1..Len(tab)), NEW excl \in SUBSET (1..Len(tab)),
         Grown(tab2, tab, pred, nulls, incl, excl), Plainly(tab, pred, incl)
  PROVE  VersionsAdded(tab2, tab, pred, nulls, incl, excl)
<1> DEFINE n == Len(tab)
           q == Len(tab2)
           Newest(k) == IF k = 0 THEN pred ELSE n + k
           Good == {k \in 0..nulls : /\ VersionOf(tab2, Newest(k)) = VersionOf(tab, pred) \cup ((n + 1)..(n + k))
                                     /\ ExcludedBy(tab2, Newest(k)) = ExcludedBy(tab, pred)}
<1>0. n \in Nat /\ n = Len(tab) /\ q \in Nat /\ q = n + nulls + 1 /\ q = Len(tab2) /\ Ordered(tab2)
      /\ pred \in 1..n /\ incl \subseteq 1..n /\ excl \subseteq 1..n
  BY DEF Ordered, Grown
<1>1. VersionOf(tab2, pred) = VersionOf(tab, pred) /\ ExcludedBy(tab2, pred) = ExcludedBy(tab, pred)
  <2>1. pred \in 0..n
    BY <1>0
  <2> QED
    BY <2>1, GrownKeeps
<1>2. \A k \in 1..nulls : /\ tab2[n + k].prev = (IF k = 1 THEN pred ELSE n + k - 1)
                          /\ tab2[n + k].incl = {} /\ tab2[n + k].excl = {}
  BY DEF Grown
<1>3. /\ tab2[q].prev = (IF nulls = 0 THEN pred ELSE n + nulls) /\ tab2[q].incl = incl /\ tab2[q].excl = excl
  BY <1>0 DEF Grown
<1>4. \A u \in 1..n : tab2[u].incl = tab[u].incl /\ tab2[u].excl = tab[u].excl
  BY DEF Grown
<1> HIDE DEF n, q
<1>5. 0 \in Good
  <2>1. (n + 1)..(n + 0) = {}
    BY <1>0
  <2> QED
    BY <1>1, <2>1
<1>6. ASSUME NEW k \in 1..nulls, k - 1 \in Good PROVE k \in Good
  <2>1. /\ VersionOf(tab2, Newest(k - 1)) = VersionOf(tab, pred) \cup ((n + 1)..(n + (k - 1)))
        /\ ExcludedBy(tab2, Newest(k - 1)) = ExcludedBy(tab, pred)
    BY <1>6
  <2>2. n + k \in 1..q /\ n + k - 1 = n + (k - 1) /\ k # 0 /\ k \in 0..nulls
    BY <1>0
  <2>3. tab2[n + k].prev = Newest(k - 1)
    BY <1>2, <2>2
  <2>4. \A u \in tab2[n + k].incl : tab2[u].incl = {} /\ tab2[u].excl = {} /\ u \notin ExcludedBy(tab2, tab2[n + k].prev)
    BY <1>2
  <2>5. /\ VersionOf(tab2, n + k) = (VersionOf(tab2, tab2[n + k].prev) \cup {n + k} \cup tab2[n + k].incl) \ tab2[n + k].excl
        /\ ExcludedBy(tab2, n + k) = ExcludedBy(tab2, tab2[n + k].prev) \cup tab2[n + k].excl
    BY <1>0, <2>2, <2>4, VersionGrows
  <2>6. /\ VersionOf(tab2, n + k) = VersionOf(tab2, Newest(k - 1)) \cup {n + k}
        /\ ExcludedBy(tab2, n + k) = ExcludedBy(tab2, Newest(k - 1))
    <3> HIDE DEF Newest
    <3> QED
      BY <1>2, <2>3, <2>5
  <2>7. (n + 1)..(n + k) = ((n + 1)..(n + (k - 1))) \cup {n + k}
    BY <1>0
  <2>8. VersionOf(tab2, n + k) = VersionOf(tab, pred) \cup ((n + 1)..(n + k))
    BY <2>1, <2>6, <2>7
  <2>9. Newest(k) = n + k
    BY <2>2
  <2> HIDE DEF Newest
  <2> QED
    BY <2>1, <2>2, <2>6, <2>8, <2>9
<1> HIDE DEF Good
<1>7. \A k \in 0..nulls : k \in Good
  BY <1>5, <1>6, UpwardInduction
<1>8. ASSUME NEW k \in 1..nulls
      PROVE  VersionOf(tab2, n + k) = VersionOf(tab, pred) \cup ((n + 1)..(n + k))
  <2>1. k \in 0..nulls /\ Newest(k) = n + k
    OBVIOUS
  <2> QED
    BY <1>7, <2>1 DEF Good
<1>9. /\ VersionOf(tab2, Newest(nulls)) = VersionOf(tab, pred) \cup ((n + 1)..(n + nulls))
      /\ ExcludedBy(tab2, Newest(nulls)) = ExcludedBy(tab, pred)
  BY <1>7 DEF Good
<1>10. tab2[q].prev = Newest(nulls)
  BY <1>3
<1> HIDE DEF Newest
<1>11. \A u \in tab2[q].incl : tab2[u].incl = {} /\ tab2[u].excl = {} /\ u \notin ExcludedBy(tab2, tab2[q].prev)
  <2> TAKE u \in tab2[q].incl
  <2>1. u \in incl /\ u \in 1..n
    BY <1>0, <1>3
  <2>2. tab[u].incl = {} /\ tab[u].excl = {} /\ u \notin ExcludedBy(tab, pred)
    BY <2>1 DEF Plainly
  <2> QED
    BY Zenon, <1>4, <1>9, <1>10, <2>1, <2>2
<1>12. VersionOf(tab2, q) = (VersionOf(tab2, tab2[q].prev) \cup {q} \cup tab2[q].incl) \ tab2[q].excl
  <2>1. q \in 1..Len(tab2)
    BY <1>0
  <2> QED
    BY <1>0, <1>11, <2>1, VersionGrows
<1>13. (n + 1)..q = ((n + 1)..(n + nulls)) \cup {q} /\ ((n + 1)..q) \cap excl = {}
  BY <1>0
<1>14. VersionOf(tab2, q) = ((VersionOf(tab, pred) \cup incl) \ excl) \cup ((n + 1)..q)
  <2>1. VersionOf(tab2, q) = ((VersionOf(tab, pred) \cup ((n + 1)..(n + nulls))) \cup {q} \cup incl) \ excl
    BY <1>3, <1>9, <1>10, <1>12
  <2> QED
    BY <1>13, <2>1
<1> QED
  BY Zenon, <1>8, <1>14 DEF n, q, VersionsAdded

LEMMA GrownSound ==
  ASSUME NEW tab, NEW tab2, Sound(tab), NEW pred \in Current(tab), NEW nulls \in Nat,
         NEW incl \in SUBSET Current(tab), NEW excl \in SUBSET Current(tab),
         Grown(tab2, tab, pred, nulls, incl, excl)
  PROVE  Sound(tab2)
<1> DEFINE n == Len(tab)
           q == Len(tab2)
<1>0. n \in Nat /\ n = Len(tab) /\ q \in Nat /\ q = n + nulls + 1 /\ q = Len(tab2) /\ Ordered(tab2)
      /\ Ordered(tab)
  BY DEF Ordered, Grown, Sound
<1>1. Current(tab) \subseteq 1..n
  BY <1>0, CurrentIs
<1>2. Current(tab2) = Current(tab) \cup ((n + 1)..q)
  <2>1. pred \in 1..Len(tab) /\ incl \in SUBSET (1..Len(tab)) /\ excl \in SUBSET (1..Len(tab))
    BY <1>0, <1>1
  <2> QED
    BY <1>0, <2>1, GrownKeeps
<1> SUFFICES ASSUME NEW s \in Current(tab2)
             PROVE  /\ tab2[s].prev \in Current(tab2) \cup {0}
                    /\ tab2[s].prev = 0 => s = 1
                    /\ tab2[s].incl \cup tab2[s].excl \subseteq Current(tab2)
  BY <1>0 DEF Sound
<1>3. \A u \in 1..n : tab2[u].prev = tab[u].prev /\ tab2[u].incl = tab[u].incl /\ tab2[u].excl = tab[u].excl
  BY DEF Grown
<1>4. \A k \in 1..nulls : /\ tab2[n + k].prev = (IF k = 1 THEN pred ELSE n + k - 1)
                          /\ tab2[n + k].incl = {} /\ tab2[n + k].excl = {}
  BY DEF Grown
<1>5. /\ tab2[q].prev = (IF nulls = 0 THEN pred ELSE n + nulls) /\ tab2[q].incl = incl /\ tab2[q].excl = excl
  BY <1>0 DEF Grown
<1> HIDE DEF n, q
<1>6. CASE s \in Current(tab)
  <2>1. s \in 1..n
    BY <1>1, <1>6
  <2>2. /\ tab[s].prev \in Current(tab) \cup {0} /\ (tab[s].prev = 0 => s = 1)
        /\ tab[s].incl \cup tab[s].excl \subseteq Current(tab)
    BY <1>6 DEF Sound
  <2>3. tab2[s].prev = tab[s].prev /\ tab2[s].incl = tab[s].incl /\ tab2[s].excl = tab[s].excl
    BY <1>3, <2>1
  <2> QED
    BY <1>2, <2>2, <2>3
<1>7. CASE s \in (n + 1)..(n + nulls)
  <2>1. PICK k \in 1..nulls : s = n + k
    <3>1. s - n \in 1..nulls /\ s = n + (s - n)
      BY <1>0, <1>7
    <3> QED
      BY <3>1
  <2>2. tab2[s].prev = (IF k = 1 THEN pred ELSE n + k - 1) /\ tab2[s].incl = {} /\ tab2[s].excl = {}
    BY Zenon, <1>4, <2>1
  <2>3. k # 1 => n + k - 1 \in (n + 1)..q
    BY <1>0
  <2>4. tab2[s].prev \in Current(tab2)
    BY <1>2, <2>2, <2>3
  <2>5. 0 \notin Current(tab2)
    BY <1>0, <1>1, <1>2
  <2> QED
    BY <2>2, <2>4, <2>5
<1>8. CASE s = q
  <2>1. nulls # 0 => n + nulls \in (n + 1)..q
    BY <1>0
  <2>2. tab2[s].prev \in Current(tab2)
    BY <1>2, <1>5, <1>8, <2>1
  <2>3. 0 \notin Current(tab2)
    BY <1>0, <1>1, <1>2
  <2> QED
    BY <1>2, <1>5, <1>8, <2>2, <2>3
<1>9. s \in Current(tab) \/ s \in (n + 1)..(n + nulls) \/ s = q
  BY <1>0, <1>2
<1> QED
  BY <1>6, <1>7, <1>8, <1>9

\* No current delta depends on s.
Unused(tab, s) ==
  /\ s \in Current(tab)
  /\ \A t \in Current(tab) : tab[t].prev # s /\ s \notin tab[t].incl \cup tab[t].excl

LEMMA UnusedIs ==
  ASSUME NEW tab, Sound(tab), NEW s, Unused(tab, s)
  PROVE  /\ Closed(tab, (Current(tab) \cup {0}) \ {s})
         /\ \A t \in Current(tab) \ {s} : s \notin VersionOf(tab, t)
<1>0. Ordered(tab) /\ Len(tab) \in Nat /\ Current(tab) \subseteq 1..Len(tab)
  BY CurrentIs DEF Sound
<1> DEFINE S == (Current(tab) \cup {0}) \ {s}
<1>1. S \in SUBSET Nat /\ 0 \in S
  BY <1>0 DEF Unused
<1>2. Closed(tab, S)
  <2>1. ASSUME NEW u \in S \cap (1..Len(tab)) PROVE tab[u].prev \in S /\ tab[u].incl \subseteq S
    <3>1. u \in Current(tab)
      BY <2>1
    <3>2. tab[u].prev \in Current(tab) \cup {0} /\ tab[u].incl \subseteq Current(tab)
      BY <3>1 DEF Sound
    <3>3. tab[u].prev # s /\ s \notin tab[u].incl
      BY <3>1 DEF Unused
    <3> QED
      BY <3>2, <3>3
  <2> QED
    BY <1>1, <2>1 DEF Closed
<1>3. \A t \in Current(tab) \ {s} : s \notin VersionOf(tab, t)
  <2> TAKE t \in Current(tab) \ {s}
  <2>1. t \in S /\ t \in 0..Len(tab)
    BY <1>0
  <2>2. VersionOf(tab, t) \subseteq S
    BY <1>0, <1>1, <1>2, <2>1, VersionWithin
  <2> QED
    BY <2>2
<1> QED
  BY <1>2, <1>3

\* The table after a removal.
DeltaRemoved(tab2, tab, s) ==
  /\ Sound(tab2) /\ Len(tab2) = Len(tab)
  /\ Current(tab2) = Current(tab) \ {s}
  /\ \A t \in 0..Len(tab) : VersionOf(tab2, t) = VersionOf(tab, t)
  /\ \A S : Closed(tab2, S) => Closed(tab, S)
  /\ \A t \in 1..Len(tab) :
       /\ tab2[t].prev = tab[t].prev /\ tab2[t].incl = tab[t].incl /\ tab2[t].excl = tab[t].excl
       /\ tab2[t].inserted = Cap5(tab[t].inserted)
       /\ tab2[t].deleted = Cap5(tab[t].deleted)
       /\ tab2[t].unchanged = Cap5(tab[t].unchanged)

LEMMA RemovedIs ==
  ASSUME NEW tab, Sound(tab), NEW s, Unused(tab, s),
         NEW tab2, tab2 = Reread([tab EXCEPT ![s].type = "R"])
  PROVE  DeltaRemoved(tab2, tab, s)
<1> DEFINE m == [tab EXCEPT ![s].type = "R"]
           n == Len(tab)
<1>0. Ordered(tab) /\ n \in Nat /\ n = Len(tab) /\ Current(tab) \subseteq 1..n /\ s \in Current(tab) /\ s \in 1..n
      /\ tab \in Seq(DeltaEntries)
  BY CurrentIs DEF Sound, Unused, Ordered
<1>1. \A t \in 1..n : /\ m[t].prev = tab[t].prev /\ m[t].incl = tab[t].incl /\ m[t].excl = tab[t].excl
                      /\ m[t].ignd = tab[t].ignd /\ m[t].inserted = tab[t].inserted
                      /\ m[t].deleted = tab[t].deleted /\ m[t].unchanged = tab[t].unchanged
                      /\ m[t].type = (IF t = s THEN "R" ELSE tab[t].type)
                      /\ m[t] \in DeltaEntries
  <2> TAKE t \in 1..n
  <2>0. tab[t] \in DeltaEntries
    BY <1>0
  <2>1. CASE t = s
    <3>1. m[t] = [tab[t] EXCEPT !.type = "R"]
      BY <1>0, <2>1
    <3> HIDE DEF m
    <3> QED
      BY <2>0, <2>1, <3>1 DEF DeltaEntries
  <2>2. CASE t # s
    <3>1. m[t] = tab[t]
      BY <1>0, <2>2
    <3> HIDE DEF m
    <3> QED
      BY <2>0, <2>2, <3>1
  <2> QED
    BY <2>1, <2>2
<1>2. m \in Seq(DeltaEntries) /\ Len(m) = n
  <2>1. m = [t \in 1..n |-> m[t]]
    BY SMTT(30), <1>0
  <2> HIDE DEF m
  <2> QED
    BY <1>0, <1>1, <2>1
<1>3. tab2 = Reread(m)
  OBVIOUS
<1> HIDE DEF m
<1>4. \A t \in 1..n : /\ tab[t].ignd = {} /\ tab[t].prev \in 0..(t - 1)
                      /\ tab[t].incl \subseteq 1..(t - 1) /\ tab[t].excl \subseteq 1..(t - 1)
  BY <1>0 DEF Ordered
<1> HIDE DEF n
<1>5. IgnoresNone(m)
  BY <1>1, <1>2, <1>4 DEF IgnoresNone
<1>6. Reread(m) \in Seq(DeltaEntries) /\ Len(Reread(m)) = Len(m)
  BY <1>2, <1>5, RereadIs
<1>7. \A t \in 1..Len(m) :
            /\ Reread(m)[t].type = m[t].type /\ Reread(m)[t].prev = m[t].prev
            /\ Reread(m)[t].incl = m[t].incl /\ Reread(m)[t].excl = m[t].excl
            /\ Reread(m)[t].ignd = {}
            /\ Reread(m)[t].inserted = Cap5(m[t].inserted)
            /\ Reread(m)[t].deleted = Cap5(m[t].deleted)
            /\ Reread(m)[t].unchanged = Cap5(m[t].unchanged)
  BY <1>2, <1>5, RereadIs
<1>8. tab2 \in Seq(DeltaEntries) /\ Len(tab2) = n
  BY Zenon, <1>2, <1>3, <1>6
<1>9. \A t \in 1..n :
            /\ tab2[t].type = (IF t = s THEN "R" ELSE tab[t].type) /\ tab2[t].prev = tab[t].prev
            /\ tab2[t].incl = tab[t].incl /\ tab2[t].excl = tab[t].excl
            /\ tab2[t].ignd = {}
            /\ tab2[t].inserted = Cap5(tab[t].inserted)
            /\ tab2[t].deleted = Cap5(tab[t].deleted)
            /\ tab2[t].unchanged = Cap5(tab[t].unchanged)
  <2> TAKE t \in 1..n
  <2>1. t \in 1..Len(m)
    BY <1>2
  <2>2. /\ tab2[t].type = m[t].type /\ tab2[t].prev = m[t].prev
        /\ tab2[t].incl = m[t].incl /\ tab2[t].excl = m[t].excl
        /\ tab2[t].ignd = {}
        /\ tab2[t].inserted = Cap5(m[t].inserted)
        /\ tab2[t].deleted = Cap5(m[t].deleted)
        /\ tab2[t].unchanged = Cap5(m[t].unchanged)
    BY Zenon, <1>3, <1>7, <2>1
  <2>3. /\ m[t].prev = tab[t].prev /\ m[t].incl = tab[t].incl /\ m[t].excl = tab[t].excl
        /\ m[t].inserted = tab[t].inserted
        /\ m[t].deleted = tab[t].deleted /\ m[t].unchanged = tab[t].unchanged
        /\ m[t].type = (IF t = s THEN "R" ELSE tab[t].type)
    BY <1>1
  <2> QED
    BY Zenon, <2>2, <2>3
<1>10. Ordered(tab2)
  <2>1. \A t \in 1..n : /\ tab2[t].prev \in 0..(t - 1) /\ tab2[t].incl \subseteq 1..(t - 1)
                        /\ tab2[t].excl \subseteq 1..(t - 1) /\ tab2[t].ignd = {}
    BY Zenon, <1>4, <1>9
  <2> QED
    BY <1>8, <2>1 DEF Ordered
<1>11. ASSUME NEW t PROVE t \in Current(tab2) <=> t \in Current(tab) \ {s}
  <2>1. t \in Current(tab2) <=> t \in 1..n /\ tab2[t].type = "D"
    BY <1>8, <1>10, CurrentIs
  <2>2. t \in Current(tab) <=> t \in 1..n /\ tab[t].type = "D"
    BY <1>0, CurrentIs
  <2>3. t \in 1..n => tab2[t].type = (IF t = s THEN "R" ELSE tab[t].type)
    BY <1>9
  <2> QED
    BY <2>1, <2>2, <2>3
<1>12. Current(tab2) = Current(tab) \ {s}
  BY <1>11
<1>13. Sound(tab2)
  <2> SUFFICES ASSUME NEW t \in Current(tab2)
               PROVE  /\ tab2[t].prev \in Current(tab2) \cup {0}
                      /\ tab2[t].prev = 0 => t = 1
                      /\ tab2[t].incl \cup tab2[t].excl \subseteq Current(tab2)
    BY <1>10 DEF Sound
  <2>1. t \in Current(tab) /\ t # s /\ t \in 1..n
    BY <1>0, <1>12
  <2>2. /\ tab[t].prev \in Current(tab) \cup {0} /\ (tab[t].prev = 0 => t = 1)
        /\ tab[t].incl \cup tab[t].excl \subseteq Current(tab)
    BY <2>1 DEF Sound
  <2>3. tab[t].prev # s /\ s \notin tab[t].incl \cup tab[t].excl
    BY <2>1 DEF Unused
  <2>4. tab2[t].prev = tab[t].prev /\ tab2[t].incl = tab[t].incl /\ tab2[t].excl = tab[t].excl
    BY <1>9, <2>1
  <2> QED
    BY <1>12, <2>2, <2>3, <2>4
<1>14. \A t \in 0..n : VersionOf(tab2, t) = VersionOf(tab, t)
  <2> TAKE t \in 0..n
  <2>2. \A y \in 1..t : y \in 1..n
    BY <1>0
  <2>1. Agree(tab2, tab, t)
    BY Zenon, <2>2, <1>9 DEF Agree
  <2> QED
    BY <1>0, <1>8, <1>10, <2>1, VersionKept
<1>15. ASSUME NEW S, Closed(tab2, S) PROVE Closed(tab, S)
  <2>1. \A u \in 1..n : tab2[u].prev = tab[u].prev /\ tab2[u].incl = tab[u].incl
    BY <1>9
  <2> QED
    BY <1>0, <1>8, <1>15, <2>1 DEF Closed
<1> QED
  BY <1>8, <1>9, <1>12, <1>13, <1>14, <1>15 DEF n, DeltaRemoved

\* The first delta is current as long as any is.
LEMMA FirstIsCurrent ==
  ASSUME NEW tab, Sound(tab), Current(tab) # {}
  PROVE  1 \in Current(tab)
<1>1. Ordered(tab) /\ Current(tab) \subseteq 1..Len(tab) /\ Len(tab) \in Nat
  BY CurrentIs DEF Sound
<1>2. PICK s \in Current(tab) : \A t \in Current(tab) : s <= t
  <2>1. Current(tab) \subseteq Nat
    BY <1>1
  <2> QED
    BY <2>1, LeastNumber
<1>3. tab[s].prev \in 0..(s - 1) /\ s \in Nat
  BY <1>1 DEF Ordered
<1>4. tab[s].prev \notin Current(tab)
  BY <1>2, <1>3
<1>5. tab[s].prev = 0
  BY <1>4 DEF Sound
<1> QED
  BY <1>5 DEF Sound

-----------------------------------------------------------------------------
(* The lines of a new delta.                                              *)

LEMMA NewTextIs ==
  ASSUME NEW n \in Nat, NEW c \in Nat
  PROVE  /\ NewText(n, c) \in LineTexts /\ Len(NewText(n, c)) = c
         /\ \A k \in 1..c : NewText(n, c)[k] = <<n, k>>
BY DEF NewText, LineTexts

LEMMA ScriptsAre ==
  ASSUME NEW n \in Nat, NEW m \in Nat, NEW script \in Scripts(n, m)
  PROVE  /\ ScriptFor(script, m)
         /\ \A j \in 1..(m + 1) : \A k \in 1..Len(script.ins[j]) : script.ins[j][k] \in {n} \X Nat
<1>1. PICK at \in 1..(m + 1), c \in 0..MaxHunkText :
        script.ins = [j \in 1..(m + 1) |-> IF j = at THEN NewText(n, c) ELSE <<>>]
  BY DEF Scripts
<1>2. script.del \in SUBSET (1..m) /\ ScriptOK(script, m)
  BY DEF Scripts
<1>3. c \in Nat
  BY Constants
<1>4. /\ NewText(n, c) \in LineTexts /\ Len(NewText(n, c)) = c
      /\ \A k \in 1..c : NewText(n, c)[k] = <<n, k>>
  BY <1>3, NewTextIs
<1>5. <<>> \in LineTexts
  BY DEF LineTexts
<1>6. script.ins \in [1..(m + 1) -> LineTexts]
  BY <1>1, <1>4, <1>5
<1>7. ASSUME NEW j \in 1..(m + 1), NEW k \in 1..Len(script.ins[j])
      PROVE  script.ins[j][k] \in {n} \X Nat
  <2>1. j = at
    BY <1>1
  <2>2. script.ins[j] = NewText(n, c) /\ k \in 1..c
    BY <1>1, <1>4, <2>1
  <2>3. script.ins[j][k] = <<n, k>> /\ k \in Nat
    BY <1>4, <2>2, <1>3
  <2> QED
    BY <2>3
<1>8. \A j \in 1..(m + 1) : j \in script.del => script.ins[j] = <<>>
  BY <1>2 DEF ScriptOK
<1> QED
  BY <1>2, <1>6, <1>7, <1>8 DEF ScriptFor

-----------------------------------------------------------------------------
(* The new body.                                                           *)

\* Open brackets are there.
LEMMA OpenAreOwners ==
  ASSUME NEW lines \in Seq(Line), NEW i \in 0..Len(lines)
  PROVE  /\ OpenI(lines, i) \subseteq Owners(lines) /\ OpenD(lines, i) \subseteq Owners(lines)
         /\ OpenI(lines, i) \subseteq 1..MaxDeltas /\ OpenD(lines, i) \subseteq 1..MaxDeltas
<1>1. ASSUME NEW n \in 1..MaxDeltas, NEW letter \in {"I", "D"}, Opened(lines, i, letter, n)
      PROVE  n \in Owners(lines)
  <2>1. PICK a \in 1..i : lines[a].k = letter /\ lines[a].seq = n
    BY <1>1 DEF Opened
  <2>2. a \in 1..Len(lines)
    OBVIOUS
  <2>3. IsControl(lines[a])
    BY <2>1 DEF IsControl
  <2> QED
    BY <2>1, <2>2, <2>3 DEF Owners
<1> QED
  BY <1>1 DEF OpenI, OpenD

\* Insertions are nested: the older of two open ones encloses the younger.
LEMMA Nesting ==
  ASSUME NEW lines \in Seq(Line), Woven(lines), NEW i \in 0..Len(lines),
         NEW s \in OpenI(lines, i), NEW w \in OpenI(lines, i), s < w
  PROVE  Encloses(lines, s, w)
<1>1. s \in 1..MaxDeltas /\ w \in 1..MaxDeltas /\ MaxDeltas \in Nat
  BY Constants DEF OpenI
<1>2. PICK a \in 1..i : /\ lines[a].k = "I" /\ lines[a].seq = s
                        /\ \A b \in (a + 1)..i : ~(lines[b].k = "E" /\ lines[b].seq = s)
  BY DEF OpenI, Opened
<1>3. PICK d \in 1..i : /\ lines[d].k = "I" /\ lines[d].seq = w
                        /\ \A b \in (d + 1)..i : ~(lines[b].k = "E" /\ lines[b].seq = w)
  BY DEF OpenI, Opened
<1>4. a # d /\ a \in 1..Len(lines) /\ d \in 1..Len(lines)
  BY <1>1, <1>2, <1>3
<1>5. CASE a < d
  <2>1. a \in 1..(d - 1) /\ \A b \in (a + 1)..(d - 1) : ~(lines[b].k = "E" /\ lines[b].seq = s)
    BY <1>2, <1>4, <1>5
  <2>2. Opened(lines, d - 1, "I", s)
    BY <1>2, <2>1 DEF Opened
  <2>3. s \in OpenI(lines, d - 1)
    BY <1>1, <2>2 DEF OpenI
  <2>4. IsControl(lines[d]) /\ s # w
    BY <1>1, <1>3 DEF IsControl
  <2> QED
    BY <1>3, <1>4, <2>3, <2>4 DEF Encloses
<1>6. CASE d < a
  <2>1. d \in 1..(a - 1) /\ \A b \in (d + 1)..(a - 1) : ~(lines[b].k = "E" /\ lines[b].seq = w)
    BY <1>3, <1>4, <1>6
  <2>2. Opened(lines, a - 1, "I", w)
    BY <1>3, <2>1 DEF Opened
  <2>3. w \in OpenI(lines, a - 1)
    BY <1>1, <2>2 DEF OpenI
  <2>4. Fits(lines, a)
    BY <1>4 DEF Woven
  <2>5. w < s
    BY <1>2, <2>3, <2>4 DEF Fits
  <2> QED
    BY <1>1, <2>5
<1> QED
  BY <1>4, <1>5, <1>6

\* Only the deltas whose brackets the body has matter to a version.
LEMMA SameOwners ==
  ASSUME NEW lines \in Seq(Line), Woven(lines), NEW U, NEW V,
         \A x \in Owners(lines) : x \in U <=> x \in V
  PROVE  /\ \A i \in 1..Len(lines) : Belongs(lines, i, U) <=> Belongs(lines, i, V)
         /\ \A i \in 0..Len(lines) : Outputs(lines, U)[i] = Outputs(lines, V)[i]
         /\ Version(lines, U) = Version(lines, V)
<1>1. ASSUME NEW i \in 1..Len(lines)
      PROVE  Belongs(lines, i, U) <=> Belongs(lines, i, V)
  <2>1. Fits(lines, i) /\ i - 1 \in 0..Len(lines)
    BY DEF Woven
  <2>2. OpenI(lines, i - 1) \subseteq Owners(lines) /\ OpenD(lines, i - 1) \subseteq Owners(lines)
    BY <2>1, OpenAreOwners
  <2>3. lines[i].k = "text" => (lines[i].text[1] \in U <=> lines[i].text[1] \in V)
    BY <2>1, <2>2 DEF Fits
  <2>4. \A d \in OpenD(lines, i - 1) : d \in U <=> d \in V
    BY <2>2
  <2> QED
    BY <2>3, <2>4 DEF Belongs
<1> DEFINE Bad == {i \in 0..Len(lines) : Outputs(lines, U)[i] # Outputs(lines, V)[i]}
<1>2. Bad = {}
  <2>1. SUFFICES ASSUME Bad # {} PROVE FALSE
    OBVIOUS
  <2>2. Bad \subseteq Nat
    OBVIOUS
  <2>3. PICK i \in Bad : \A j \in Bad : i <= j
    <3> HIDE DEF Bad
    <3> QED
      BY <2>1, <2>2, LeastNumber
  <2>4. i \in 0..Len(lines) /\ Outputs(lines, U)[i] # Outputs(lines, V)[i]
    OBVIOUS
  <2>5. i # 0
    BY <2>4, OutputsAre
  <2>6. i \in 1..Len(lines) /\ i - 1 \in 0..Len(lines) /\ i - 1 \notin Bad
    <3>1. i \in 1..Len(lines) /\ i - 1 \in 0..Len(lines) /\ ~(i <= i - 1)
      BY <2>4, <2>5
    <3> HIDE DEF Bad
    <3> QED
      BY Zenon, <2>3, <3>1
  <2>7. Outputs(lines, U)[i - 1] = Outputs(lines, V)[i - 1]
    BY <2>6
  <2>8. Emit(lines, U, i, Outputs(lines, U)[i - 1]) = Emit(lines, V, i, Outputs(lines, V)[i - 1])
    BY Zenon, <1>1, <2>6, <2>7 DEF Emit
  <2>9. /\ Outputs(lines, U)[i] = Emit(lines, U, i, Outputs(lines, U)[i - 1])
        /\ Outputs(lines, V)[i] = Emit(lines, V, i, Outputs(lines, V)[i - 1])
    BY <2>6, OutputsAre
  <2> QED
    BY Zenon, <2>4, <2>8, <2>9
<1>3. \A i \in 0..Len(lines) : Outputs(lines, U)[i] = Outputs(lines, V)[i]
  BY <1>2
<1>4. Len(lines) \in 0..Len(lines)
  OBVIOUS
<1>5. Version(lines, U) = Version(lines, V)
  BY Zenon, <1>3, <1>4 DEF Version
<1> QED
  BY <1>1, <1>3, <1>5

\* A line of a version is the next line of its text.
LEMMA NextOfVersion ==
  ASSUME NEW lines \in Seq(Line), NEW U, NEW i \in 1..Len(lines), Belongs(lines, i, U),
         NEW q, q = Len(Outputs(lines, U)[i - 1])
  PROVE  /\ q \in 0..Len(Version(lines, U)) /\ q < Len(Version(lines, U))
         /\ Version(lines, U)[q + 1] = lines[i].text
         /\ Len(Outputs(lines, U)[i]) = q + 1
<1>1. /\ i - 1 \in 0..Len(lines) /\ i \in (i - 1)..Len(lines) /\ i \in 0..Len(lines)
      /\ Len(lines) \in i..Len(lines)
  OBVIOUS
<1>2. Outputs(lines, U)[i] = Append(Outputs(lines, U)[i - 1], lines[i].text)
  BY OutputsAre DEF Emit
<1>3. Outputs(lines, U)[i - 1] \in LineTexts /\ Outputs(lines, U)[i] \in LineTexts
  BY <1>1, OutputsGrow
<1>4. lines[i].text \in Nat \X Nat
  BY LineIs DEF Belongs
<1>5. /\ Version(lines, U) \in LineTexts /\ Len(Outputs(lines, U)[i]) <= Len(Version(lines, U))
      /\ \A k \in 1..Len(Outputs(lines, U)[i]) : Version(lines, U)[k] = Outputs(lines, U)[i][k]
  BY <1>1, OutputsGrow DEF Version
<1> DEFINE a == Outputs(lines, U)[i - 1]
           b == Outputs(lines, U)[i]
           v == Version(lines, U)
<1>6. /\ a \in Seq(Nat \X Nat) /\ b = Append(a, lines[i].text) /\ q = Len(a) /\ v \in Seq(Nat \X Nat)
      /\ Len(b) <= Len(v) /\ \A k \in 1..Len(b) : v[k] = b[k]
  BY <1>2, <1>3, <1>5 DEF LineTexts
<1> HIDE DEF a, b, v
<1>7. Len(b) = q + 1 /\ b[q + 1] = lines[i].text /\ q \in Nat
  BY <1>4, <1>6
<1>8. Len(v) \in Nat
  BY <1>6
<1>9. q \in 0..Len(v) /\ q < Len(v) /\ v[q + 1] = lines[i].text
  <2>1. q + 1 \in 1..Len(b) /\ Len(b) <= Len(v)
    BY <1>6, <1>7
  <2>2. v[q + 1] = b[q + 1]
    BY <1>6, <2>1
  <2>3. q \in 0..Len(v) /\ q < Len(v)
    BY <1>7, <1>8, <2>1
  <2> QED
    BY <1>7, <2>2, <2>3
<1> QED
  BY Zenon, <1>7, <1>9 DEF v, b

LEMMA NotOfVersion ==
  ASSUME NEW lines \in Seq(Line), NEW U, NEW i \in 1..Len(lines), ~Belongs(lines, i, U)
  PROVE  Outputs(lines, U)[i] = Outputs(lines, U)[i - 1]
BY OutputsAre DEF Emit

LEMMA PlaceOfVersion ==
  ASSUME NEW lines \in Seq(Line), NEW U, NEW i \in 0..Len(lines)
  PROVE  Len(Outputs(lines, U)[i]) \in 0..Len(Version(lines, U))
<1>1. Len(lines) \in i..Len(lines)
  OBVIOUS
<1>2. /\ Outputs(lines, U)[i] \in LineTexts /\ Version(lines, U) \in LineTexts
      /\ Len(Outputs(lines, U)[i]) <= Len(Version(lines, U))
  BY Zenon, <1>1, OutputsGrow DEF Version
<1> QED
  BY <1>2 DEF LineTexts

\* The new body, out, holds the first i lines of the old one and the brackets and the
\* lines of delta n: I and D say which of its brackets is open.  Its brackets stand
\* within the insertions of the deltas H only, and a version without delta n is what it was.
Weaving(out, lines, i, n, I, D, H) ==
  /\ out \in Seq(Line) /\ Woven(out)
  /\ OpenI(out, Len(out)) = OpenI(lines, i) \cup I
  /\ OpenD(out, Len(out)) = OpenD(lines, i) \cup D
  /\ Owners(out) \subseteq Owners(lines) \cup {n}
  /\ \A s, t : Encloses(out, s, t) => Encloses(lines, s, t) \/ (t = n /\ s \in H)
  /\ \A U \in SUBSET Nat : n \notin U => Version(out, U) = Outputs(lines, U)[i]
  /\ i = 0 => out = <<>>
  /\ i >= 1 => out # <<>> /\ out[1] = lines[1]

\* An old body, and a delta younger than all of its own.
Younger(lines, n) ==
  /\ lines \in Seq(Line) /\ Woven(lines) /\ n \in 1..MaxDeltas
  /\ \A x \in Owners(lines) : x < n /\ x \in Nat

LEMMA WeaveStart ==
  ASSUME NEW lines, NEW n, Younger(lines, n), NEW H
  PROVE  Weaving(<<>>, lines, 0, n, {}, {}, H)
<1>1. <<>> \in Seq(Line) /\ Len(<<>>) = 0 /\ Woven(<<>>) /\ lines \in Seq(Line)
  BY DEF Woven, Younger
<1>2. OpenI(<<>>, 0) = {} /\ OpenD(<<>>, 0) = {} /\ OpenI(lines, 0) = {} /\ OpenD(lines, 0) = {}
  BY NothingOpen
<1>3. Owners(<<>>) = {} /\ \A s, t : ~Encloses(<<>>, s, t)
  BY DEF Owners, Encloses
<1>4. ASSUME NEW U PROVE Version(<<>>, U) = Outputs(lines, U)[0]
  <2>1. Outputs(<<>>, U)[0] = <<>> /\ Outputs(lines, U)[0] = <<>>
    BY <1>1, OutputsAre
  <2> QED
    BY <1>1, <2>1 DEF Version
<1>5. ~(0 >= 1)
  OBVIOUS
<1> HIDE DEF Woven
<1> QED
  BY <1>1, <1>2, <1>3, <1>4, <1>5 DEF Weaving

\* The first line stays.
LEMMA FirstStays ==
  ASSUME NEW out \in Seq(Line), NEW x \in Line, out # <<>>
  PROVE  Append(out, x) # <<>> /\ Append(out, x)[1] = out[1]
OBVIOUS

\* A line of the old body is copied.
LEMMA WeaveOld ==
  ASSUME NEW lines, NEW n, Younger(lines, n), NEW i \in 1..Len(lines), NEW out,
         NEW D \in SUBSET {n}, NEW H, Weaving(out, lines, i - 1, n, {}, D, H)
  PROVE  Weaving(Append(out, lines[i]), lines, i, n, {}, D, H)
<1> DEFINE x == lines[i]
           I0 == OpenI(lines, i - 1)
           D0 == OpenD(lines, i - 1)
           new == Append(out, x)
<1>1. /\ lines \in Seq(Line) /\ Woven(lines) /\ n \in 1..MaxDeltas
      /\ \A y \in Owners(lines) : y < n /\ y \in Nat
  BY Zenon DEF Younger
<1>2. x \in Line /\ Fits(lines, i) /\ i - 1 \in 0..Len(lines) /\ n \in Nat
  BY <1>1, Constants DEF Woven
<1>3. /\ out \in Seq(Line) /\ Woven(out) /\ OpenI(out, Len(out)) = I0 /\ OpenD(out, Len(out)) = D0 \cup D
      /\ Owners(out) \subseteq Owners(lines) \cup {n}
  BY DEF Weaving
<1>4. n \notin I0 /\ n \notin D0 /\ \A y \in I0 \cup D0 : y < n /\ y \in Nat
  <2>1. I0 \subseteq Owners(lines) /\ D0 \subseteq Owners(lines)
    BY <1>1, <1>2, OpenAreOwners
  <2> QED
    BY <1>1, <1>2, <2>1
<1>5. \/ x.k = "text" /\ ~IsControl(x)
      \/ x.k \in {"I", "D", "E"} /\ IsControl(x) /\ x.seq \in Owners(lines) /\ x.seq < n /\ x.seq # n
  <2>1. IsControl(x) => x.seq \in Owners(lines)
    BY DEF Owners
  <2> QED
    BY <1>1, <1>2, <2>1, LineIs
<1>6. /\ x.k = "text" => /\ x.text[1] \in I0 /\ \A y \in I0 : y <= x.text[1]
      /\ x.k \in {"I", "D"} => x.seq \notin I0 \cup D0
      /\ x.k = "I" => \A y \in I0 : y < x.seq
      /\ x.k = "E" => x.seq \in I0 \cup D0
  BY <1>2 DEF Fits
<1>7. /\ OpenI(lines, i) = CASE x.k = "I" -> I0 \cup {x.seq} [] x.k = "E" -> I0 \ {x.seq} [] OTHER -> I0
      /\ OpenD(lines, i) = CASE x.k = "D" -> D0 \cup {x.seq} [] x.k = "E" -> D0 \ {x.seq} [] OTHER -> D0
  BY <1>1, OpenStep
<1>8. /\ new \in Seq(Line) /\ Len(new) = Len(out) + 1
      /\ OpenI(new, Len(out) + 1) = CASE x.k = "I" -> I0 \cup {x.seq} [] x.k = "E" -> I0 \ {x.seq} [] OTHER -> I0
      /\ OpenD(new, Len(out) + 1) = CASE x.k = "D" -> (D0 \cup D) \cup {x.seq}
                                      [] x.k = "E" -> (D0 \cup D) \ {x.seq} [] OTHER -> D0 \cup D
  <2>1. /\ Append(out, x) \in Seq(Line) /\ Len(Append(out, x)) = Len(out) + 1
        /\ OpenI(Append(out, x), Len(out) + 1) = CASE x.k = "I" -> OpenI(out, Len(out)) \cup {x.seq}
                                     [] x.k = "E" -> OpenI(out, Len(out)) \ {x.seq}
                                     [] OTHER -> OpenI(out, Len(out))
        /\ OpenD(Append(out, x), Len(out) + 1) = CASE x.k = "D" -> OpenD(out, Len(out)) \cup {x.seq}
                                     [] x.k = "E" -> OpenD(out, Len(out)) \ {x.seq}
                                     [] OTHER -> OpenD(out, Len(out))
    BY Zenon, <1>2, <1>3, OpenAppend
  <2> QED
    BY Zenon, <2>1, <1>3
<1>9. \A a, b : IsControl(x) /\ b = x.seq /\ a \in I0 /\ a # b => Encloses(lines, a, b)
  BY DEF Encloses
<1>10. D \subseteq {n}
  OBVIOUS
<1> HIDE DEF I0, D0, x
<1>11. Woven(new)
  <2>1. x.k \in {"I", "D"} => x.seq \notin I0 \cup (D0 \cup D)
    BY <1>5, <1>6, <1>10
  <2>2. x.k = "E" => x.seq \in I0 \cup (D0 \cup D)
    BY <1>6
  <2> QED
    BY <1>2, <1>3, <1>6, <2>1, <2>2, WovenAppend
<1> HIDE DEF new
<1>12. OpenI(new, Len(new)) = OpenI(lines, i) \cup {} /\ OpenD(new, Len(new)) = OpenD(lines, i) \cup D
  <2>1. CASE x.k = "I"
    BY <1>7, <1>8, <2>1
  <2>2. CASE x.k = "D"
    BY <1>7, <1>8, <2>2
  <2>3. CASE x.k = "E"
    <3>1. x.seq \notin D
      BY <1>5, <1>10, <2>3
    <3> QED
      BY <1>7, <1>8, <2>3, <3>1
  <2>4. CASE x.k = "text"
    BY <1>7, <1>8, <2>4
  <2> QED
    BY <1>5, <2>1, <2>2, <2>3, <2>4
<1>13. Owners(new) \subseteq Owners(lines) \cup {n}
  <2>1. Owners(new) = IF IsControl(x) THEN Owners(out) \cup {x.seq} ELSE Owners(out)
    BY Zenon, <1>2, <1>3, OwnersAppend DEF new
  <2> QED
    BY <1>3, <1>5, <2>1
<1>14. ASSUME NEW a, NEW b, Encloses(new, a, b) PROVE Encloses(lines, a, b) \/ (b = n /\ a \in H)
  <2>1. Encloses(out, a, b) \/ (IsControl(x) /\ x.seq = b /\ a \in OpenI(out, Len(out)) /\ a # b)
    BY <1>2, <1>3, <1>14, EnclosesAppend DEF new
  <2>2. Encloses(out, a, b) => Encloses(lines, a, b) \/ (b = n /\ a \in H)
    BY Zenon DEF Weaving
  <2> QED
    BY <1>3, <1>9, <2>1, <2>2
<1>15. ASSUME NEW U \in SUBSET Nat, n \notin U PROVE Version(new, U) = Outputs(lines, U)[i]
  <2>1. Version(out, U) = Outputs(lines, U)[i - 1]
    BY <1>15 DEF Weaving
  <2>2. Version(new, U) = IF x.k = "text" /\ x.text[1] \in U
                 /\ \A d \in OpenD(out, Len(out)) \cap U : d <= x.text[1]
              THEN Append(Version(out, U), x.text) ELSE Version(out, U)
    BY Zenon, <1>2, <1>3, VersionAppend DEF new
  <2>3. (D0 \cup D) \cap U = D0 \cap U
    BY <1>10, <1>15
  <2>4. Outputs(lines, U)[i] = Emit(lines, U, i, Outputs(lines, U)[i - 1])
    BY <1>1, OutputsAre
  <2>5. Belongs(lines, i, U) <=> x.k = "text" /\ x.text[1] \in U /\ \A d \in D0 \cap U : d <= x.text[1]
    BY DEF Belongs, x, D0
  <2>6. Emit(lines, U, i, Outputs(lines, U)[i - 1]) =
          IF x.k = "text" /\ x.text[1] \in U /\ \A d \in D0 \cap U : d <= x.text[1]
          THEN Append(Outputs(lines, U)[i - 1], x.text) ELSE Outputs(lines, U)[i - 1]
    BY Zenon, <2>5 DEF Emit, x
  <2> QED
    BY Zenon, <1>3, <2>1, <2>2, <2>3, <2>4, <2>6
<1>16. new # <<>> /\ new[1] = lines[1]
  <2>1. CASE i = 1
    <3>1. out = <<>>
      BY <2>1 DEF Weaving
    <3>2. x = lines[1]
      BY <2>1 DEF x
    <3> QED
      BY <1>2, <3>1, <3>2 DEF new
  <2>2. CASE i # 1
    <3>1. i - 1 >= 1
      BY <2>2
    <3>2. out # <<>> /\ out[1] = lines[1]
      BY <3>1 DEF Weaving
    <3> QED
      BY <1>2, <1>3, <3>2, FirstStays DEF new
  <2> QED
    BY <2>1, <2>2
<1>17. i # 0
  OBVIOUS
<1>18. Weaving(new, lines, i, n, {}, D, H)
  BY Zenon, <1>8, <1>11, <1>12, <1>13, <1>14, <1>15, <1>16, <1>17 DEF Weaving
<1> QED
  BY Zenon, <1>18 DEF new, x

\* A line of delta n itself.
OwnLine(x, n) == x \in Line /\ ((IsControl(x) /\ x.seq = n) \/ (x.k = "text" /\ ~IsControl(x) /\ x.text[1] = n))

LEMMA OwnControl ==
  ASSUME NEW n \in 1..MaxDeltas, NEW letter \in {"I", "D", "E"}
  PROVE  /\ OwnLine(Control(letter, n), n) /\ IsControl(Control(letter, n))
         /\ Control(letter, n).k = letter /\ Control(letter, n).seq = n
BY DEF OwnLine, Control, IsControl, Line

LEMMA OwnText ==
  ASSUME NEW n \in 1..MaxDeltas, NEW t \in {n} \X Nat
  PROVE  OwnLine(Text(t), n) /\ Text(t).k = "text" /\ Text(t).text = t /\ t[1] = n /\ ~IsControl(Text(t))
<1>1. n \in Nat /\ t \in Nat \X Nat /\ t[1] = n
  BY Constants
<1> QED
  BY <1>1 DEF OwnLine, Text, IsControl, Line

\* The new body and a line of delta n at its end.
LEMMA WeaveOwnLine ==
  ASSUME NEW lines, NEW n, Younger(lines, n), NEW i \in 1..Len(lines), NEW out,
         NEW I, NEW D, NEW H, Weaving(out, lines, i, n, I, D, H), OpenI(lines, i) \subseteq H,
         I \subseteq {n}, NEW x, OwnLine(x, n), NEW new, new = Append(out, x), Woven(new), NEW J, NEW E,
         OpenI(new, Len(new)) = OpenI(lines, i) \cup J, OpenD(new, Len(new)) = OpenD(lines, i) \cup E
  PROVE  Weaving(new, lines, i, n, J, E, H)
<1>1. lines \in Seq(Line) /\ n \in 1..MaxDeltas
  BY Zenon DEF Younger
<1>2. /\ out \in Seq(Line) /\ OpenI(out, Len(out)) = OpenI(lines, i) \cup I
      /\ Owners(out) \subseteq Owners(lines) \cup {n}
  BY Zenon DEF Weaving
<1>3. x \in Line /\ ((IsControl(x) /\ x.seq = n) \/ (x.k = "text" /\ ~IsControl(x) /\ x.text[1] = n))
  BY DEF OwnLine
<1>4. new \in Seq(Line)
  BY <1>2, <1>3
<1>5. Owners(new) \subseteq Owners(lines) \cup {n}
  <2>1. Owners(new) = IF IsControl(x) THEN Owners(out) \cup {x.seq} ELSE Owners(out)
    BY Zenon, <1>2, <1>3, OwnersAppend
  <2> QED
    BY <1>2, <1>3, <2>1
<1>6. ASSUME NEW a, NEW b, Encloses(new, a, b) PROVE Encloses(lines, a, b) \/ (b = n /\ a \in H)
  <2>1. Encloses(out, a, b) \/ (IsControl(x) /\ x.seq = b /\ a \in OpenI(out, Len(out)) /\ a # b)
    BY <1>2, <1>3, <1>6, EnclosesAppend
  <2>2. Encloses(out, a, b) => Encloses(lines, a, b) \/ (b = n /\ a \in H)
    BY Zenon DEF Weaving
  <2> QED
    BY <1>2, <1>3, <2>1, <2>2
<1>7. ASSUME NEW U \in SUBSET Nat, n \notin U PROVE Version(new, U) = Outputs(lines, U)[i]
  <2>1. Version(out, U) = Outputs(lines, U)[i]
    BY Zenon, <1>7 DEF Weaving
  <2>2. Version(new, U) = IF x.k = "text" /\ x.text[1] \in U
                 /\ \A d \in OpenD(out, Len(out)) \cap U : d <= x.text[1]
              THEN Append(Version(out, U), x.text) ELSE Version(out, U)
    BY Zenon, <1>2, <1>3, VersionAppend
  <2>3. ~(x.k = "text" /\ x.text[1] \in U)
    BY <1>3, <1>7 DEF IsControl
  <2> QED
    BY Zenon, <2>1, <2>2, <2>3
<1>8. new # <<>> /\ new[1] = lines[1]
  <2>1. out # <<>> /\ out[1] = lines[1]
    BY DEF Weaving
  <2>2. Append(out, x) # <<>> /\ Append(out, x)[1] = out[1]
    BY Zenon, <1>2, <1>3, <2>1, FirstStays
  <2> QED
    BY Zenon, <2>1, <2>2
<1>9. i # 0
  OBVIOUS
<1> QED
  BY Zenon, <1>4, <1>5, <1>6, <1>7, <1>8, <1>9 DEF Weaving

\* What is open in the new body where a bracket of delta n is opened or closed.
WeavingFacts(lines, n, i, out, I, D) ==
  /\ lines \in Seq(Line) /\ n \in 1..MaxDeltas /\ n \in Nat
  /\ out \in Seq(Line) /\ Woven(out) /\ Len(out) \in Nat
  /\ OpenI(out, Len(out)) = OpenI(lines, i) \cup I /\ OpenD(out, Len(out)) = OpenD(lines, i) \cup D
  /\ \A y \in OpenI(lines, i) \cup OpenD(lines, i) : y < n /\ y \in Nat /\ y \in Owners(lines)
  /\ n \notin OpenI(lines, i) /\ n \notin OpenD(lines, i)

LEMMA WeavingIs ==
  ASSUME NEW lines, NEW n, Younger(lines, n), NEW i \in 0..Len(lines), NEW out,
         NEW I, NEW D, NEW H, Weaving(out, lines, i, n, I, D, H)
  PROVE  WeavingFacts(lines, n, i, out, I, D)
<1>1. /\ lines \in Seq(Line) /\ n \in 1..MaxDeltas /\ \A y \in Owners(lines) : y < n /\ y \in Nat
  BY Zenon DEF Younger
<1>2. n \in Nat
  BY <1>1, Constants
<1>3. /\ out \in Seq(Line) /\ Woven(out)
      /\ OpenI(out, Len(out)) = OpenI(lines, i) \cup I /\ OpenD(out, Len(out)) = OpenD(lines, i) \cup D
  BY Zenon DEF Weaving
<1>4. Len(out) \in Nat
  BY <1>3
<1>5. OpenI(lines, i) \subseteq Owners(lines) /\ OpenD(lines, i) \subseteq Owners(lines)
  BY <1>1, OpenAreOwners
<1> QED
  BY <1>1, <1>2, <1>3, <1>4, <1>5 DEF WeavingFacts

LEMMA WeaveOpen ==
  ASSUME NEW lines, NEW n, Younger(lines, n), NEW i \in 1..Len(lines), NEW out,
         NEW H, Weaving(out, lines, i, n, {}, {}, H), OpenI(lines, i) \subseteq H
  PROVE  /\ Weaving(Append(out, Control("I", n)), lines, i, n, {n}, {}, H)
         /\ Weaving(Append(out, Control("D", n)), lines, i, n, {}, {n}, H)
<1>1. i \in 0..Len(lines)
  OBVIOUS
<1>2. /\ n \in 1..MaxDeltas /\ n \in Nat /\ out \in Seq(Line) /\ Woven(out) /\ Len(out) \in Nat
      /\ OpenI(out, Len(out)) = OpenI(lines, i) \cup {} /\ OpenD(out, Len(out)) = OpenD(lines, i) \cup {}
      /\ \A y \in OpenI(lines, i) \cup OpenD(lines, i) : y < n /\ y \in Nat
      /\ n \notin OpenI(lines, i) /\ n \notin OpenD(lines, i)
  <2>1. WeavingFacts(lines, n, i, out, {}, {})
    BY Zenon, <1>1, WeavingIs
  <2> QED
    BY <2>1 DEF WeavingFacts
<1>3. ASSUME NEW letter \in {"I", "D"}, NEW x, x = Control(letter, n), NEW new, new = Append(out, x)
      PROVE  /\ OwnLine(x, n) /\ Woven(new)
             /\ OpenI(new, Len(new)) = OpenI(lines, i) \cup (IF letter = "I" THEN {n} ELSE {})
             /\ OpenD(new, Len(new)) = OpenD(lines, i) \cup (IF letter = "D" THEN {n} ELSE {})
  <2>1. OwnLine(x, n) /\ IsControl(x) /\ x.k = letter /\ x.seq = n
    BY <1>2, <1>3, OwnControl
  <2>2. x \in Line
    BY <2>1 DEF OwnLine
  <2>3. Woven(new)
    <3>1. x.k \in {"I", "D"} => x.seq \notin OpenI(out, Len(out)) \cup OpenD(out, Len(out))
      BY <1>2, <2>1
    <3>2. x.k = "I" => \A y \in OpenI(out, Len(out)) : y < x.seq
      BY <1>2, <2>1
    <3>3. x.k # "text" /\ x.k # "E"
      BY <2>1
    <3>4. Woven(Append(out, x))
      BY <1>2, <2>2, <3>1, <3>2, <3>3, WovenAppend
    <3> QED
      BY <1>3, <3>4
  <2>4. /\ Len(new) = Len(out) + 1
        /\ OpenI(new, Len(out) + 1) = CASE x.k = "I" -> OpenI(out, Len(out)) \cup {x.seq}
                                       [] x.k = "E" -> OpenI(out, Len(out)) \ {x.seq}
                                       [] OTHER -> OpenI(out, Len(out))
        /\ OpenD(new, Len(out) + 1) = CASE x.k = "D" -> OpenD(out, Len(out)) \cup {x.seq}
                                       [] x.k = "E" -> OpenD(out, Len(out)) \ {x.seq}
                                       [] OTHER -> OpenD(out, Len(out))
    BY Zenon, <1>2, <1>3, <2>2, OpenAppend
  <2>5. CASE letter = "I"
    BY <1>2, <2>1, <2>3, <2>4, <2>5
  <2>6. CASE letter = "D"
    BY <1>2, <2>1, <2>3, <2>4, <2>6
  <2> QED
    BY <2>5, <2>6
<1>4. ASSUME NEW letter \in {"I", "D"}, NEW J, J = (IF letter = "I" THEN {n} ELSE {}),
             NEW E, E = (IF letter = "D" THEN {n} ELSE {})
      PROVE  Weaving(Append(out, Control(letter, n)), lines, i, n, J, E, H)
  <2>1. PICK x, new : x = Control(letter, n) /\ new = Append(out, x)
    OBVIOUS
  <2>2. /\ OwnLine(x, n) /\ Woven(new)
        /\ OpenI(new, Len(new)) = OpenI(lines, i) \cup J /\ OpenD(new, Len(new)) = OpenD(lines, i) \cup E
    BY Zenon, <1>3, <1>4, <2>1
  <2>3. PICK I : I = {}
    OBVIOUS
  <2>4. I \subseteq {n} /\ Weaving(out, lines, i, n, I, I, H)
    BY Zenon, <2>3
  <2>5. Weaving(new, lines, i, n, J, E, H)
    BY Zenon, <2>1, <2>2, <2>4, WeaveOwnLine
  <2> QED
    BY Zenon, <2>1, <2>5
<1>5. /\ "I" \in {"I", "D"} /\ "D" \in {"I", "D"} /\ {n} = (IF "I" = "I" THEN {n} ELSE {})
      /\ {} = (IF "I" = "D" THEN {n} ELSE {}) /\ {} = (IF "D" = "I" THEN {n} ELSE {})
      /\ {n} = (IF "D" = "D" THEN {n} ELSE {})
  OBVIOUS
<1> QED
  BY Zenon, <1>4, <1>5

LEMMA WeaveClose ==
  ASSUME NEW lines, NEW n, Younger(lines, n), NEW i \in 1..Len(lines), NEW out,
         NEW I, NEW D, NEW H, Weaving(out, lines, i, n, I, D, H), OpenI(lines, i) \subseteq H,
         I \subseteq {n}, D \subseteq {n}, n \in I \cup D
  PROVE  Weaving(Append(out, Control("E", n)), lines, i, n, {}, {}, H)
<1>1. i \in 0..Len(lines)
  OBVIOUS
<1>2. /\ n \in 1..MaxDeltas /\ n \in Nat /\ out \in Seq(Line) /\ Woven(out) /\ Len(out) \in Nat
      /\ OpenI(out, Len(out)) = OpenI(lines, i) \cup I /\ OpenD(out, Len(out)) = OpenD(lines, i) \cup D
      /\ n \notin OpenI(lines, i) /\ n \notin OpenD(lines, i)
  <2>1. WeavingFacts(lines, n, i, out, I, D)
    BY Zenon, <1>1, WeavingIs
  <2> QED
    BY <2>1 DEF WeavingFacts
<1>3. PICK x, new : x = Control("E", n) /\ new = Append(out, x)
  OBVIOUS
<1>4. OwnLine(x, n) /\ IsControl(x) /\ x.k = "E" /\ x.seq = n
  BY <1>2, <1>3, OwnControl
<1>5. x \in Line
  BY <1>4 DEF OwnLine
<1>6. Woven(new)
  <2>1. x.seq \in OpenI(out, Len(out)) \cup OpenD(out, Len(out))
    BY <1>2, <1>4
  <2>2. x.k # "text" /\ x.k \notin {"I", "D"} /\ x.k # "I"
    BY <1>4
  <2>3. Woven(Append(out, x))
    BY <1>2, <1>5, <2>1, <2>2, WovenAppend
  <2> QED
    BY <1>3, <2>3
<1>7. /\ Len(new) = Len(out) + 1
      /\ OpenI(new, Len(out) + 1) = CASE x.k = "I" -> OpenI(out, Len(out)) \cup {x.seq}
                                     [] x.k = "E" -> OpenI(out, Len(out)) \ {x.seq}
                                     [] OTHER -> OpenI(out, Len(out))
      /\ OpenD(new, Len(out) + 1) = CASE x.k = "D" -> OpenD(out, Len(out)) \cup {x.seq}
                                     [] x.k = "E" -> OpenD(out, Len(out)) \ {x.seq}
                                     [] OTHER -> OpenD(out, Len(out))
  BY Zenon, <1>2, <1>3, <1>5, OpenAppend
<1>8. OpenI(new, Len(new)) = OpenI(lines, i) \cup {} /\ OpenD(new, Len(new)) = OpenD(lines, i) \cup {}
  BY ZenonT(40), <1>2, <1>4, <1>7
<1>9. Weaving(new, lines, i, n, {}, {}, H)
  BY Zenon, <1>3, <1>4, <1>6, <1>8, WeaveOwnLine
<1> QED
  BY Zenon, <1>3, <1>9

LEMMA WeaveText ==
  ASSUME NEW lines, NEW n, Younger(lines, n), NEW i \in 1..Len(lines), NEW out,
         NEW H, Weaving(out, lines, i, n, {n}, {}, H), OpenI(lines, i) \subseteq H, NEW t \in {n} \X Nat
  PROVE  Weaving(Append(out, Text(t)), lines, i, n, {n}, {}, H)
<1>1. i \in 0..Len(lines) /\ {n} \subseteq {n}
  OBVIOUS
<1>2. /\ n \in 1..MaxDeltas /\ n \in Nat /\ out \in Seq(Line) /\ Woven(out) /\ Len(out) \in Nat
      /\ OpenI(out, Len(out)) = OpenI(lines, i) \cup {n} /\ OpenD(out, Len(out)) = OpenD(lines, i) \cup {}
      /\ \A y \in OpenI(lines, i) \cup OpenD(lines, i) : y < n /\ y \in Nat
  <2>1. WeavingFacts(lines, n, i, out, {n}, {})
    BY Zenon, <1>1, WeavingIs
  <2> QED
    BY <2>1 DEF WeavingFacts
<1>3. PICK x, new : x = Text(t) /\ new = Append(out, x)
  OBVIOUS
<1>4. OwnLine(x, n) /\ x.k = "text" /\ x.text[1] = n
  BY <1>2, <1>3, OwnText
<1>5. x \in Line
  BY <1>4 DEF OwnLine
<1>6. Woven(new)
  <2>1. x.text[1] \in OpenI(out, Len(out)) /\ \A y \in OpenI(out, Len(out)) : y <= x.text[1]
    BY <1>2, <1>4
  <2>2. x.k \notin {"I", "D"} /\ x.k # "I" /\ x.k # "E"
    BY <1>4
  <2>3. Woven(Append(out, x))
    BY <1>2, <1>5, <2>1, <2>2, WovenAppend
  <2> QED
    BY <1>3, <2>3
<1>7. /\ Len(new) = Len(out) + 1
      /\ OpenI(new, Len(out) + 1) = CASE x.k = "I" -> OpenI(out, Len(out)) \cup {x.seq}
                                     [] x.k = "E" -> OpenI(out, Len(out)) \ {x.seq}
                                     [] OTHER -> OpenI(out, Len(out))
      /\ OpenD(new, Len(out) + 1) = CASE x.k = "D" -> OpenD(out, Len(out)) \cup {x.seq}
                                     [] x.k = "E" -> OpenD(out, Len(out)) \ {x.seq}
                                     [] OTHER -> OpenD(out, Len(out))
  BY Zenon, <1>2, <1>3, <1>5, OpenAppend
<1>8. OpenI(new, Len(new)) = OpenI(lines, i) \cup {n} /\ OpenD(new, Len(new)) = OpenD(lines, i) \cup {}
  BY <1>2, <1>4, <1>7
<1>9. Weaving(new, lines, i, n, {n}, {}, H)
  BY Zenon, <1>1, <1>3, <1>4, <1>6, <1>8, WeaveOwnLine
<1> QED
  BY Zenon, <1>3, <1>9

\* The brackets that the reader prints.
Brackets(control, n) == [i \in 1..Len(control) |-> Control(control[i], n)]

LEMMA BracketsAre ==
  ASSUME NEW n \in 1..MaxDeltas, NEW out \in Seq(Line), NEW a \in {"I", "D", "E"}, NEW b \in {"I", "D", "E"}
  PROVE  /\ out \o Brackets(<<>>, n) = out
         /\ out \o Brackets(<<a>>, n) = Append(out, Control(a, n))
         /\ out \o Brackets(<<a, b>>, n) = Append(Append(out, Control(a, n)), Control(b, n))
<1>1. Control(a, n) \in Line /\ Control(b, n) \in Line
  BY OwnControl DEF OwnLine
<1>2. Brackets(<<>>, n) = <<>>
  BY DEF Brackets
<1>3. Brackets(<<a>>, n) = <<Control(a, n)>>
  BY DEF Brackets
<1>4. Brackets(<<a, b>>, n) = <<Control(a, n), Control(b, n)>>
  <2> DEFINE x == Control(a, n)
             y == Control(b, n)
  <2>1. Len(<<a, b>>) = 2 /\ <<a, b>>[1] = a /\ <<a, b>>[2] = b
    OBVIOUS
  <2>2. Brackets(<<a, b>>, n) = [i \in 1..2 |-> IF i = 1 THEN x ELSE y]
    BY <2>1 DEF Brackets
  <2> HIDE DEF x, y
  <2>3. [i \in 1..2 |-> IF i = 1 THEN x ELSE y] = <<x, y>>
    OBVIOUS
  <2> QED
    BY <2>2, <2>3 DEF x, y
<1>5. PICK x \in Line, y \in Line : x = Control(a, n) /\ y = Control(b, n)
  BY <1>1
<1>6. out \o <<>> = out /\ out \o <<x>> = Append(out, x) /\ out \o <<x, y>> = Append(Append(out, x), y)
  OBVIOUS
<1> QED
  BY Zenon, <1>2, <1>3, <1>4, <1>5, <1>6

Own(state, which, n) == IF state = which THEN {n} ELSE {}

States == {"START", "NOCHANGE", "INSERT", "DELETE", "END"}

\* The first bracket closes what was open.
LEMMA WeaveClosing ==
  ASSUME NEW lines, NEW n, Younger(lines, n), NEW i \in 1..Len(lines), NEW out, NEW H,
         OpenI(lines, i) \subseteq H, NEW st \in States,
         Weaving(out, lines, i, n, Own(st, "INSERT", n), Own(st, "DELETE", n), H)
  PROVE  /\ st \in {"INSERT", "DELETE"} =>
              Weaving(Append(out, Control("E", n)), lines, i, n, {}, {}, H)
         /\ st \notin {"INSERT", "DELETE"} => Weaving(out, lines, i, n, {}, {}, H)
<1>1. CASE st \in {"INSERT", "DELETE"}
  <2>1. PICK I, D : I = Own(st, "INSERT", n) /\ D = Own(st, "DELETE", n)
    OBVIOUS
  <2>2. I \subseteq {n} /\ D \subseteq {n} /\ n \in I \cup D
    BY <1>1, <2>1 DEF Own
  <2>3. Weaving(out, lines, i, n, I, D, H)
    BY Zenon, <2>1
  <2> QED
    BY Zenon, <1>1, <2>2, <2>3, WeaveClose
<1>2. CASE st \notin {"INSERT", "DELETE"}
  <2>1. Own(st, "INSERT", n) = {} /\ Own(st, "DELETE", n) = {}
    BY <1>2 DEF Own
  <2> QED
    BY Zenon, <1>2, <2>1
<1> QED
  BY Zenon, <1>1, <1>2

LEMMA WeaveOpening ==
  ASSUME NEW lines, NEW n, Younger(lines, n), NEW i \in 1..Len(lines), NEW out, NEW H,
         OpenI(lines, i) \subseteq H, NEW st \in States, Weaving(out, lines, i, n, {}, {}, H)
  PROVE  /\ st = "INSERT" =>
              Weaving(Append(out, Control("I", n)), lines, i, n, Own(st, "INSERT", n), Own(st, "DELETE", n), H)
         /\ st = "DELETE" =>
              Weaving(Append(out, Control("D", n)), lines, i, n, Own(st, "INSERT", n), Own(st, "DELETE", n), H)
         /\ st \notin {"INSERT", "DELETE"} =>
              Weaving(out, lines, i, n, Own(st, "INSERT", n), Own(st, "DELETE", n), H)
<1>1. /\ Weaving(Append(out, Control("I", n)), lines, i, n, {n}, {}, H)
      /\ Weaving(Append(out, Control("D", n)), lines, i, n, {}, {n}, H)
  BY Zenon, WeaveOpen
<1>2. Own(st, "INSERT", n) = (IF st = "INSERT" THEN {n} ELSE {})
      /\ Own(st, "DELETE", n) = (IF st = "DELETE" THEN {n} ELSE {})
  BY DEF Own
<1>3. /\ st = "INSERT" => Own(st, "INSERT", n) = {n} /\ Own(st, "DELETE", n) = {}
      /\ st = "DELETE" => Own(st, "INSERT", n) = {} /\ Own(st, "DELETE", n) = {n}
      /\ st \notin {"INSERT", "DELETE"} => Own(st, "INSERT", n) = {} /\ Own(st, "DELETE", n) = {}
  BY <1>2
<1> QED
  BY Zenon, <1>1, <1>3

LEMMA TwoTuples ==
  ASSUME NEW a, NEW b
  PROVE  <<a>> \o <<b>> = <<a, b>> /\ <<a>> \o <<>> = <<a>> /\ <<>> \o <<b>> = <<b>> /\ <<>> \o <<>> = <<>>
<1>1. <<a>> \o <<b>> = <<a, b>>
  <2>1. <<a>> \o <<b>> = Append(<<a>>, b)
    <3>1. <<a>> \in Seq({a, b}) /\ b \in {a, b}
      OBVIOUS
    <3> QED
      BY <3>1
  <2>2. Append(<<a>>, b) = <<a, b>>
    <3>1. PICK S : S = {a, b}
      OBVIOUS
    <3>2. a \in S /\ b \in S
      BY <3>1
    <3>3. <<a>> \in Seq(S) /\ Len(<<a>>) = 1 /\ <<a>>[1] = a
      BY <3>2
    <3>4. <<a, b>> \in Seq(S) /\ Len(<<a, b>>) = 2 /\ <<a, b>>[1] = a /\ <<a, b>>[2] = b
      BY <3>2
    <3>5. /\ Append(<<a>>, b) \in Seq(S) /\ Len(Append(<<a>>, b)) = 2
          /\ Append(<<a>>, b)[1] = a /\ Append(<<a>>, b)[2] = b
      <4>1. PICK s \in Seq(S) : s = <<a>>
        BY <3>3
      <4>2. Append(s, b) \in Seq(S) /\ Len(Append(s, b)) = Len(s) + 1
            /\ (\A i \in 1..Len(s) : Append(s, b)[i] = s[i]) /\ Append(s, b)[Len(s) + 1] = b
        BY <3>2, Appending
      <4>3. Len(s) = 1 /\ s[1] = a
        BY <3>3, <4>1
      <4>4. 1 \in 1..Len(s) /\ Len(s) + 1 = 2
        BY <4>3
      <4> QED
        BY Zenon, <4>1, <4>2, <4>3, <4>4
    <3>6. PICK s \in Seq(S), t \in Seq(S) : s = Append(<<a>>, b) /\ t = <<a, b>>
      BY <3>4, <3>5
    <3>7. Len(s) = Len(t) /\ \A i \in 1..Len(s) : s[i] = t[i]
      <4>1. Len(s) = 2 /\ Len(t) = 2 /\ s[1] = t[1] /\ s[2] = t[2]
        BY Zenon, <3>4, <3>5, <3>6
      <4> QED
        BY <4>1
    <3>8. s = t
      BY Zenon, <3>7, Equal
    <3> QED
      BY Zenon, <3>6, <3>8
  <2> QED
    BY Zenon, <2>1, <2>2
<1>2. <<a>> \o <<>> = <<a>>
  OBVIOUS
<1>3. <<>> \o <<b>> = <<b>>
  OBVIOUS
<1>4. <<>> \o <<>> = <<>>
  OBVIOUS
<1> QED
  BY Zenon, <1>1, <1>2, <1>3, <1>4

Turns(st, st2, control) == control = IF st2 = st THEN <<>> ELSE Closing(st) \o Opening(st2)

WovenIn(out, lines, i, n, st, H) ==
  Weaving(out, lines, i, n, Own(st, "INSERT", n), Own(st, "DELETE", n), H)

TurnedTo(new, out, lines, i, n, st2, H) ==
  WovenIn(new, lines, i, n, st2, H) /\ \A U : Version(new, U) = Version(out, U)

\* The reader goes from state st to state st2.
LEMMA WeaveTurn ==
  ASSUME NEW lines, NEW n, Younger(lines, n), NEW i \in 1..Len(lines), NEW out, NEW H,
         OpenI(lines, i) \subseteq H, NEW st \in States, NEW st2 \in States,
         WovenIn(out, lines, i, n, st, H), NEW control, Turns(st, st2, control)
  PROVE  TurnedTo(out \o Brackets(control, n), out, lines, i, n, st2, H)
<1>9. control = IF st2 = st THEN <<>> ELSE Closing(st) \o Opening(st2)
  BY Zenon DEF Turns
<1>10. PICK new : new = out \o Brackets(control, n)
  OBVIOUS
<1>11. Weaving(out, lines, i, n, Own(st, "INSERT", n), Own(st, "DELETE", n), H)
  BY Zenon DEF WovenIn
<1>1. n \in 1..MaxDeltas /\ out \in Seq(Line)
  BY Zenon, <1>11 DEF Younger, Weaving
<1>2. PICK mid : mid = IF st \in {"INSERT", "DELETE"} THEN Append(out, Control("E", n)) ELSE out
  OBVIOUS
<1>3. ASSUME NEW o \in Seq(Line), NEW letter \in {"I", "D", "E"}, NEW U
      PROVE  /\ Append(o, Control(letter, n)) \in Seq(Line)
             /\ Version(Append(o, Control(letter, n)), U) = Version(o, U)
  <2>1. PICK x : x = Control(letter, n)
    OBVIOUS
  <2>2. x \in Line /\ x.k = letter
    BY <1>1, <2>1, OwnControl DEF OwnLine
  <2>3. Append(o, x) \in Seq(Line)
    BY <2>2
  <2>4. x.k # "text"
    BY <2>2
  <2>5. Version(Append(o, x), U) = Version(o, U)
    BY <2>2, <2>4, VersionAppend
  <2> QED
    BY Zenon, <2>1, <2>3, <2>5
<1>4. Weaving(mid, lines, i, n, {}, {}, H) /\ mid \in Seq(Line) /\ \A U : Version(mid, U) = Version(out, U)
  <2>1. /\ st \in {"INSERT", "DELETE"} => Weaving(Append(out, Control("E", n)), lines, i, n, {}, {}, H)
        /\ st \notin {"INSERT", "DELETE"} => Weaving(out, lines, i, n, {}, {}, H)
    BY Zenon, <1>11, WeaveClosing
  <2>2. "E" \in {"I", "D", "E"}
    OBVIOUS
  <2>3. CASE st \in {"INSERT", "DELETE"}
    BY Zenon, <1>1, <1>2, <1>3, <2>1, <2>2, <2>3
  <2>4. CASE st \notin {"INSERT", "DELETE"}
    BY Zenon, <1>1, <1>2, <2>1, <2>4
  <2> QED
    BY Zenon, <2>3, <2>4
<1>5. PICK end : end = IF st2 = "INSERT" THEN Append(mid, Control("I", n))
                      ELSE IF st2 = "DELETE" THEN Append(mid, Control("D", n)) ELSE mid
  OBVIOUS
<1>6. /\ Weaving(end, lines, i, n, Own(st2, "INSERT", n), Own(st2, "DELETE", n), H)
      /\ \A U : Version(end, U) = Version(out, U)
  <2>1. /\ st2 = "INSERT" =>
              Weaving(Append(mid, Control("I", n)), lines, i, n, Own(st2, "INSERT", n), Own(st2, "DELETE", n), H)
        /\ st2 = "DELETE" =>
              Weaving(Append(mid, Control("D", n)), lines, i, n, Own(st2, "INSERT", n), Own(st2, "DELETE", n), H)
        /\ st2 \notin {"INSERT", "DELETE"} =>
              Weaving(mid, lines, i, n, Own(st2, "INSERT", n), Own(st2, "DELETE", n), H)
    BY Zenon, <1>4, WeaveOpening
  <2>2. "I" \in {"I", "D", "E"} /\ "D" \in {"I", "D", "E"} /\ "INSERT" # "DELETE"
        /\ "INSERT" \in {"INSERT", "DELETE"} /\ "DELETE" \in {"INSERT", "DELETE"}
    OBVIOUS
  <2>3. CASE st2 = "INSERT"
    <3>1. end = Append(mid, Control("I", n))
      BY Zenon, <1>5, <2>3
    <3>2. \A U : Version(Append(mid, Control("I", n)), U) = Version(mid, U)
      BY Zenon, <1>3, <1>4, <2>2
    <3>3. Weaving(Append(mid, Control("I", n)), lines, i, n, Own(st2, "INSERT", n), Own(st2, "DELETE", n), H)
      BY Zenon, <2>1, <2>3
    <3> QED
      BY Zenon, <1>4, <3>1, <3>2, <3>3
  <2>4. CASE st2 = "DELETE"
    <3>1. end = Append(mid, Control("D", n))
      BY Zenon, <1>5, <2>2, <2>4
    <3>2. \A U : Version(Append(mid, Control("D", n)), U) = Version(mid, U)
      BY Zenon, <1>3, <1>4, <2>2
    <3>3. Weaving(Append(mid, Control("D", n)), lines, i, n, Own(st2, "INSERT", n), Own(st2, "DELETE", n), H)
      BY Zenon, <2>1, <2>4
    <3> QED
      BY Zenon, <1>4, <3>1, <3>2, <3>3
  <2>5. CASE st2 \notin {"INSERT", "DELETE"}
    <3>1. end = mid
      BY Zenon, <1>5, <2>2, <2>5
    <3>2. Weaving(mid, lines, i, n, Own(st2, "INSERT", n), Own(st2, "DELETE", n), H)
      BY Zenon, <2>1, <2>5
    <3> QED
      BY Zenon, <1>4, <3>1, <3>2
  <2>6. st2 = "INSERT" \/ st2 = "DELETE" \/ st2 \notin {"INSERT", "DELETE"}
    OBVIOUS
  <2> QED
    BY Zenon, <2>3, <2>4, <2>5, <2>6
<1>7. CASE st2 = st
  <2>1. control = <<>>
    BY <1>7, <1>9
  <2>2. new = out
    <3>1. "I" \in {"I", "D", "E"}
      OBVIOUS
    <3>2. out \o Brackets(<<>>, n) = out
      BY Zenon, <1>1, <3>1, BracketsAre
    <3> QED
      BY Zenon, <1>10, <2>1, <3>2
  <2> QED
    BY Zenon, <1>7, <1>10, <1>11, <2>2 DEF TurnedTo, WovenIn
<1>8. CASE st2 # st
  <2>1. control = Closing(st) \o Opening(st2)
    BY <1>8, <1>9
  <2>2. /\ Closing(st) = IF st \in {"INSERT", "DELETE"} THEN <<"E">> ELSE <<>>
        /\ st2 = "INSERT" => Opening(st2) = <<"I">>
        /\ st2 = "DELETE" => Opening(st2) = <<"D">>
        /\ st2 \notin {"INSERT", "DELETE"} => Opening(st2) = <<>>
    BY DEF Closing, Opening
  <2>3. /\ <<"E">> \o <<"I">> = <<"E", "I">> /\ <<"E">> \o <<"D">> = <<"E", "D">> /\ <<"E">> \o <<>> = <<"E">>
        /\ <<>> \o <<"I">> = <<"I">> /\ <<>> \o <<"D">> = <<"D">> /\ <<>> \o <<>> = <<>>
    BY Zenon, TwoTuples
  <2>4. new = end
    <3>1. /\ out \o Brackets(<<>>, n) = out
          /\ \A a \in {"I", "D", "E"} : out \o Brackets(<<a>>, n) = Append(out, Control(a, n))
          /\ \A a, b \in {"I", "D", "E"} :
               out \o Brackets(<<a, b>>, n) = Append(Append(out, Control(a, n)), Control(b, n))
      BY ZenonT(40), <1>1, BracketsAre
    <3>2. "I" \in {"I", "D", "E"} /\ "D" \in {"I", "D", "E"} /\ "E" \in {"I", "D", "E"}
      OBVIOUS
    <3>3. /\ out \o Brackets(<<>>, n) = out
          /\ out \o Brackets(<<"E">>, n) = Append(out, Control("E", n))
          /\ out \o Brackets(<<"I">>, n) = Append(out, Control("I", n))
          /\ out \o Brackets(<<"D">>, n) = Append(out, Control("D", n))
          /\ out \o Brackets(<<"E", "I">>, n) = Append(Append(out, Control("E", n)), Control("I", n))
          /\ out \o Brackets(<<"E", "D">>, n) = Append(Append(out, Control("E", n)), Control("D", n))
      BY Zenon, <3>1, <3>2
    <3>4. "INSERT" # "DELETE" /\ "INSERT" \in {"INSERT", "DELETE"} /\ "DELETE" \in {"INSERT", "DELETE"}
      OBVIOUS
    <3>5. st2 = "INSERT" \/ st2 = "DELETE" \/ st2 \notin {"INSERT", "DELETE"}
      OBVIOUS
    <3>6. CASE st \in {"INSERT", "DELETE"}
      <4>1. mid = Append(out, Control("E", n)) /\ Closing(st) = <<"E">>
        BY Zenon, <1>2, <2>2, <3>6
      <4>2. CASE st2 = "INSERT"
        BY Zenon, <1>5, <1>10, <2>1, <2>2, <2>3, <3>3, <3>4, <4>1, <4>2
      <4>3. CASE st2 = "DELETE"
        BY Zenon, <1>5, <1>10, <2>1, <2>2, <2>3, <3>3, <3>4, <4>1, <4>3
      <4>4. CASE st2 \notin {"INSERT", "DELETE"}
        BY Zenon, <1>5, <1>10, <2>1, <2>2, <2>3, <3>3, <3>4, <4>1, <4>4
      <4> QED
        BY Zenon, <3>5, <4>2, <4>3, <4>4
    <3>7. CASE st \notin {"INSERT", "DELETE"}
      <4>1. mid = out /\ Closing(st) = <<>>
        BY Zenon, <1>2, <2>2, <3>7
      <4>2. CASE st2 = "INSERT"
        BY Zenon, <1>5, <1>10, <2>1, <2>2, <2>3, <3>3, <3>4, <4>1, <4>2
      <4>3. CASE st2 = "DELETE"
        BY Zenon, <1>5, <1>10, <2>1, <2>2, <2>3, <3>3, <3>4, <4>1, <4>3
      <4>4. CASE st2 \notin {"INSERT", "DELETE"}
        BY Zenon, <1>5, <1>10, <2>1, <2>2, <2>3, <3>3, <3>4, <4>1, <4>4
      <4> QED
        BY Zenon, <3>5, <4>2, <4>3, <4>4
    <3> QED
      BY Zenon, <3>6, <3>7
  <2> QED
    BY Zenon, <1>6, <1>10, <2>4 DEF TurnedTo, WovenIn
<1> QED
  BY Zenon, <1>7, <1>8

\* A version that has delta n, and otherwise the deltas that U has.
Adds(lines, n, U, V) == n \in V /\ \A y \in Owners(lines) : y \in V <=> y \in U

LEMMA OldLineVersion ==
  ASSUME NEW lines, NEW n, Younger(lines, n), NEW i \in 1..Len(lines), NEW out,
         NEW D \in SUBSET {n}, NEW H, Weaving(out, lines, i - 1, n, {}, D, H),
         NEW U, NEW V, Adds(lines, n, U, V)
  PROVE  Version(Append(out, lines[i]), V) =
           IF Belongs(lines, i, U) /\ D = {} THEN Append(Version(out, V), lines[i].text) ELSE Version(out, V)
<1>1. lines \in Seq(Line) /\ Woven(lines) /\ n \in 1..MaxDeltas /\ n \in Nat /\ Len(lines) \in Nat
  BY Constants DEF Younger
<1>2. /\ i - 1 \in 0..Len(lines) /\ lines[i] \in Line
  BY <1>1
<1>3. WeavingFacts(lines, n, i - 1, out, {}, D)
  BY Zenon, <1>2, WeavingIs
<1>4. /\ out \in Seq(Line) /\ OpenD(out, Len(out)) = OpenD(lines, i - 1) \cup D
      /\ \A y \in OpenI(lines, i - 1) \cup OpenD(lines, i - 1) : y < n /\ y \in Nat /\ y \in Owners(lines)
  BY Zenon, <1>3 DEF WeavingFacts
<1>5. PICK x \in Line : x = lines[i]
  BY <1>2
<1>6. Version(Append(out, x), V) =
        IF x.k = "text" /\ x.text[1] \in V /\ \A d \in OpenD(out, Len(out)) \cap V : d <= x.text[1]
        THEN Append(Version(out, V), x.text) ELSE Version(out, V)
  BY <1>4, VersionAppend
<1>7. ASSUME x.k = "text" PROVE x.text[1] \in OpenI(lines, i - 1) /\ x.text[1] \in Nat
  <2>1. x.text[1] \in OpenI(lines, i - 1)
    BY Zenon, <1>1, <1>5, <1>7 DEF Woven, Fits
  <2> QED
    BY Zenon, <1>4, <2>1
<1>8. (x.k = "text" /\ x.text[1] \in V /\ \A d \in OpenD(out, Len(out)) \cap V : d <= x.text[1])
      <=> (Belongs(lines, i, U) /\ D = {})
  <2>1. CASE x.k # "text"
    BY Zenon, <1>5, <2>1 DEF Belongs
  <2>2. CASE x.k = "text"
    <3>1. PICK w \in Nat : w = x.text[1]
      BY <1>7, <2>2
    <3>2. w \in Owners(lines) /\ w < n
      BY Zenon, <1>4, <1>7, <2>2, <3>1
    <3>3. w \in V <=> w \in U
      BY Zenon, <3>2 DEF Adds
    <3>4. \A d \in OpenD(lines, i - 1) : d \in V <=> d \in U
      BY Zenon, <1>4 DEF Adds
    <3>5. (\A d \in OpenD(lines, i - 1) \cap V : d <= w) <=> (\A d \in OpenD(lines, i - 1) \cap U : d <= w)
      BY Zenon, <3>4
    <3>6. Belongs(lines, i, U) <=> w \in U /\ \A d \in OpenD(lines, i - 1) \cap U : d <= w
      BY Zenon, <1>5, <2>2, <3>1 DEF Belongs
    <3>7. CASE D = {}
      <4>1. OpenD(out, Len(out)) = OpenD(lines, i - 1)
        BY <1>4, <3>7
      <4> QED
        BY Zenon, <2>2, <3>1, <3>3, <3>5, <3>6, <3>7, <4>1
    <3>8. CASE D # {}
      <4>1. n \in OpenD(out, Len(out)) /\ n \in V
        BY <1>4, <3>8 DEF Adds
      <4>2. ~(n <= w)
        BY <1>1, <3>2
      <4> QED
        BY Zenon, <3>1, <3>8, <4>1, <4>2
    <3> QED
      BY Zenon, <3>7, <3>8
  <2> QED
    BY Zenon, <2>1, <2>2
<1> QED
  BY Zenon, <1>5, <1>6, <1>8

TextOf(t, n) == t \in {n} \X Nat

LEMMA NewLineVersion ==
  ASSUME NEW lines, NEW n, Younger(lines, n), NEW i \in 1..Len(lines), NEW out,
         NEW H, WovenIn(out, lines, i, n, "INSERT", H), NEW t, TextOf(t, n),
         NEW V, n \in V
  PROVE  Version(Append(out, Text(t)), V) = Append(Version(out, V), t)
<1>1. lines \in Seq(Line) /\ Woven(lines) /\ n \in 1..MaxDeltas /\ n \in Nat /\ Len(lines) \in Nat
  BY Constants DEF Younger
<1>2. i \in 0..Len(lines)
  BY <1>1
<1>3. PICK I, D : I = {n} /\ D = {}
  OBVIOUS
<1>4. WeavingFacts(lines, n, i, out, I, D)
  <2>1. Own("INSERT", "INSERT", n) = I /\ Own("INSERT", "DELETE", n) = D
    BY <1>3 DEF Own
  <2>2. Weaving(out, lines, i, n, I, D, H)
    BY Zenon, <2>1 DEF WovenIn
  <2> QED
    BY Zenon, <1>2, <2>2, WeavingIs
<1>5. /\ out \in Seq(Line) /\ OpenD(out, Len(out)) = OpenD(lines, i) \cup D
      /\ \A y \in OpenI(lines, i) \cup OpenD(lines, i) : y < n /\ y \in Nat /\ y \in Owners(lines)
  BY Zenon, <1>4 DEF WeavingFacts
<1>6. PICK x : x = Text(t)
  OBVIOUS
<1>7. x \in Line /\ x.k = "text" /\ x.text = t /\ t[1] = n
  BY <1>1, <1>6, OwnText DEF OwnLine, TextOf
<1>8. \A d \in OpenD(out, Len(out)) : d <= n
  BY <1>1, <1>3, <1>5
<1>9. Version(Append(out, x), V) =
        IF x.k = "text" /\ x.text[1] \in V /\ \A d \in OpenD(out, Len(out)) \cap V : d <= x.text[1]
        THEN Append(Version(out, V), x.text) ELSE Version(out, V)
  BY <1>5, <1>7, VersionAppend
<1>10. x.text[1] = n
  BY Zenon, <1>7
<1>11. x.k = "text" /\ x.text[1] \in V /\ \A d \in OpenD(out, Len(out)) \cap V : d <= x.text[1]
  BY Zenon, <1>7, <1>8, <1>10
<1> QED
  BY Zenon, <1>6, <1>7, <1>9, <1>11

\* What has been made of the new file: what comes from the first q old lines, and c
\* lines inserted after them.
Made(old, script, q, c) == Patched(old, script)[q] \o SubSeq(script.ins[q + 1], 1, c)

LEMMA Slice ==
  ASSUME NEW S, NEW s \in Seq(S)
  PROVE  /\ SubSeq(s, 1, 0) = <<>> /\ SubSeq(s, 1, Len(s)) = s
         /\ \A c \in 0..Len(s) : SubSeq(s, 1, c) \in Seq(S) /\ Len(SubSeq(s, 1, c)) = c
         /\ \A c \in 0..(Len(s) - 1) : SubSeq(s, 1, c + 1) = Append(SubSeq(s, 1, c), s[c + 1])
<1>1. SubSeq(s, 1, 0) = <<>>
  OBVIOUS
<1>2. SubSeq(s, 1, Len(s)) = s
  OBVIOUS
<1>3. \A c \in 0..Len(s) : SubSeq(s, 1, c) \in Seq(S) /\ Len(SubSeq(s, 1, c)) = c
  OBVIOUS
<1>4. ASSUME NEW c \in 0..(Len(s) - 1)
      PROVE SubSeq(s, 1, c + 1) = Append(SubSeq(s, 1, c), s[c + 1])
  <2>1. c \in 0..Len(s) /\ c + 1 \in 0..Len(s) /\ c + 1 \in 1..Len(s) /\ s[c + 1] \in S
    OBVIOUS
  <2>2. PICK a \in Seq(S), b \in Seq(S), x \in S :
          a = SubSeq(s, 1, c + 1) /\ b = SubSeq(s, 1, c) /\ x = s[c + 1]
    BY <1>3, <2>1
  <2>3. Len(a) = c + 1 /\ Len(b) = c
    BY Zenon, <1>3, <2>1, <2>2
  <2>4. \A k \in 1..(c + 1) : a[k] = s[k]
    BY <2>1, <2>2
  <2>5. \A k \in 1..c : b[k] = s[k]
    BY <2>1, <2>2
  <2>6. PICK d \in Seq(S) : d = Append(b, x)
    BY <2>2
  <2>7. Len(d) = c + 1 /\ (\A k \in 1..c : d[k] = b[k]) /\ d[c + 1] = x
    BY <2>3, <2>6, Appending
  <2>8. \A k \in 1..Len(a) : a[k] = d[k]
    <3>1. ASSUME NEW k \in 1..(c + 1) PROVE a[k] = d[k]
      <4>1. k \in 1..c \/ k = c + 1
        BY <2>1
      <4>2. CASE k \in 1..c
        BY Zenon, <2>4, <2>5, <2>7, <4>2
      <4>3. CASE k = c + 1
        BY Zenon, <2>2, <2>4, <2>7, <4>3
      <4> QED
        BY Zenon, <4>1, <4>2, <4>3
    <3> QED
      BY Zenon, <2>3, <3>1
  <2>9. a = d
    BY Zenon, <2>3, <2>7, <2>8, Equal
  <2> QED
    BY Zenon, <2>2, <2>6, <2>9
<1> QED
  BY Zenon, <1>1, <1>2, <1>3, <1>4

\* An edit script, the place of a line and what may be inserted before it.
LEMMA MadeTyped ==
  ASSUME NEW old \in LineTexts, NEW script, ScriptFor(script, Len(old)), NEW q \in 0..Len(old)
  PROVE  /\ Len(old) \in Nat /\ q + 1 \in 1..(Len(old) + 1) /\ q \in Nat
         /\ script.ins[q + 1] \in LineTexts /\ Patched(old, script)[q] \in LineTexts
         /\ Len(script.ins[q + 1]) \in Nat
         /\ \A c \in 0..Len(script.ins[q + 1]) :
              /\ Made(old, script, q, c) \in LineTexts
              /\ Len(Made(old, script, q, c)) = Len(Patched(old, script)[q]) + c
<1>1. Len(old) \in Nat
  BY DEF LineTexts
<1>2. q + 1 \in 1..(Len(old) + 1) /\ q \in Nat /\ q \in 0..(Len(old) + 1)
  BY <1>1
<1>3. script.ins[q + 1] \in LineTexts
  BY <1>2 DEF ScriptFor
<1>4. Patched(old, script)[q] \in LineTexts
  BY <1>2, PatchedIs
<1>5. PICK s \in Seq(Nat \X Nat), p \in Seq(Nat \X Nat) : s = script.ins[q + 1] /\ p = Patched(old, script)[q]
  BY <1>3, <1>4 DEF LineTexts
<1>6. \A c \in 0..Len(s) : SubSeq(s, 1, c) \in Seq(Nat \X Nat) /\ Len(SubSeq(s, 1, c)) = c
  BY Zenon, Slice
<1>7. ASSUME NEW c \in 0..Len(s)
      PROVE p \o SubSeq(s, 1, c) \in Seq(Nat \X Nat) /\ Len(p \o SubSeq(s, 1, c)) = Len(p) + c
  <2>1. PICK t \in Seq(Nat \X Nat) : t = SubSeq(s, 1, c) /\ Len(t) = c
    BY Zenon, <1>6
  <2>2. p \o t \in Seq(Nat \X Nat) /\ Len(p \o t) = Len(p) + Len(t)
    BY Zenon, Joining
  <2> QED
    BY Zenon, <2>1, <2>2
<1>8. Len(s) \in Nat
  OBVIOUS
<1> QED
  BY Zenon, <1>1, <1>2, <1>3, <1>4, <1>5, <1>7, <1>8 DEF Made, LineTexts

LEMMA JoinNothing ==
  ASSUME NEW S, NEW s \in Seq(S)
  PROVE  s \o <<>> = s /\ <<>> \o s = s
OBVIOUS

LEMMA MadeStart ==
  ASSUME NEW old \in LineTexts, NEW script, ScriptFor(script, Len(old))
  PROVE  Made(old, script, 0, 0) = <<>>
<1>1. 0 \in 0..Len(old)
  BY DEF LineTexts
<1>2. script.ins[0 + 1] \in LineTexts
  BY Zenon, <1>1, MadeTyped
<1>3. SubSeq(script.ins[0 + 1], 1, 0) = <<>>
  BY Zenon, <1>2, Slice DEF LineTexts
<1>4. Patched(old, script)[0] = <<>>
  BY Zenon, PatchedIs
<1>5. <<>> \o <<>> = <<>>
  BY Zenon, TwoTuples
<1> QED
  BY Zenon, <1>3, <1>4, <1>5 DEF Made

LEMMA JoinAppend ==
  ASSUME NEW S, NEW p \in Seq(S), NEW t \in Seq(S), NEW x \in S,
         NEW u, u = Append(t, x), NEW v, v = p \o t
  PROVE  p \o u = Append(v, x)
<1>9. u \in Seq(S)
  BY Appending
<1>10. v \in Seq(S)
  BY Joining
<1>11. PICK a \in Seq(S) : a = p \o u
  BY <1>9, Joining
<1>12. PICK b \in Seq(S) : b = Append(v, x)
  BY <1>10, Appending
<1>1. u = Append(t, x) /\ v = p \o t /\ a = p \o u /\ b = Append(v, x)
  BY <1>9, <1>10, <1>11, <1>12
<1>2. Len(u) = Len(t) + 1 /\ (\A i \in 1..Len(t) : u[i] = t[i]) /\ u[Len(t) + 1] = x
  BY Appending
<1>3. Len(v) = Len(p) + Len(t) /\ (\A i \in 1..Len(p) : v[i] = p[i])
      /\ (\A i \in 1..Len(t) : v[Len(p) + i] = t[i])
  BY Joining
<1>4. Len(a) = Len(p) + Len(u) /\ (\A i \in 1..Len(p) : a[i] = p[i])
      /\ (\A i \in 1..Len(u) : a[Len(p) + i] = u[i])
  BY <1>1, <1>9, Joining
<1>5. Len(b) = Len(v) + 1 /\ (\A i \in 1..Len(v) : b[i] = v[i]) /\ b[Len(v) + 1] = x
  BY <1>1, <1>10, Appending
<1>6. Len(a) = Len(b) /\ Len(p) \in Nat /\ Len(t) \in Nat /\ Len(a) = Len(p) + Len(t) + 1
  BY <1>2, <1>3, <1>4, <1>5
<1>7. ASSUME NEW i \in 1..Len(a) PROVE a[i] = b[i]
  <2>1. i \in 1..Len(p) \/ (i - Len(p) \in 1..Len(t)) \/ i = Len(p) + (Len(t) + 1)
    <3>1. PICK P \in Nat, T \in Nat, A \in Nat : P = Len(p) /\ T = Len(t) /\ A = Len(a) /\ A = P + T + 1
      BY <1>6
    <3>2. i \in 1..A
      BY Zenon, <3>1
    <3>3. i \in 1..P \/ (i - P \in 1..T) \/ i = P + (T + 1)
      BY <3>1, <3>2
    <3> QED
      BY Zenon, <3>1, <3>3
  <2>2. CASE i \in 1..Len(p)
    <3>1. i \in 1..Len(v)
      BY <1>3, <2>2
    <3> QED
      BY Zenon, <1>3, <1>4, <1>5, <2>2, <3>1
  <2>3. CASE i - Len(p) \in 1..Len(t)
    <3>1. PICK k \in 1..Len(t) : k = i - Len(p)
      BY <2>3
    <3>2. i = Len(p) + k /\ k \in 1..Len(u) /\ i \in 1..Len(v)
      BY <1>2, <1>3, <3>1
    <3>3. a[Len(p) + k] = u[k] /\ u[k] = t[k] /\ v[Len(p) + k] = t[k] /\ b[i] = v[i]
      BY Zenon, <1>2, <1>3, <1>4, <1>5, <3>2
    <3> QED
      BY Zenon, <3>2, <3>3
  <2>4. CASE i = Len(p) + (Len(t) + 1)
    <3>1. PICK k : k = Len(t) + 1
      OBVIOUS
    <3>2. k \in 1..Len(u) /\ i = Len(v) + 1 /\ i = Len(p) + k
      BY <1>2, <1>3, <2>4, <3>1
    <3> QED
      BY ZenonT(40), <1>2, <1>4, <1>5, <3>1, <3>2
  <2> QED
    BY Zenon, <2>1, <2>2, <2>3, <2>4
<1>8. a = b
  <2>1. \A i \in 1..Len(a) : a[i] = b[i]
    BY Zenon, <1>7
  <2> QED
    BY Zenon, <1>6, <2>1, Equal
<1> QED
  BY Zenon, <1>1, <1>8

LEMMA MadeInsert ==
  ASSUME NEW old \in LineTexts, NEW script, ScriptFor(script, Len(old)), NEW q \in 0..Len(old),
         NEW c \in Nat, c < Len(script.ins[q + 1])
  PROVE  Made(old, script, q, c + 1) = Append(Made(old, script, q, c), script.ins[q + 1][c + 1])
<1>1. script.ins[q + 1] \in LineTexts /\ Patched(old, script)[q] \in LineTexts
  BY Zenon, MadeTyped
<1>2. PICK S : LineTexts = Seq(S)
  BY DEF LineTexts
<1>3. PICK u \in Seq(S), p \in Seq(S) : u = script.ins[q + 1] /\ p = Patched(old, script)[q]
  BY Zenon, <1>1, <1>2
<1>4. c \in 0..(Len(u) - 1) /\ c \in 0..Len(u) /\ c + 1 \in 1..Len(u)
  BY <1>3
<1>5. SubSeq(u, 1, c + 1) = Append(SubSeq(u, 1, c), u[c + 1]) /\ SubSeq(u, 1, c) \in Seq(S)
  BY Zenon, <1>4, Slice
<1>6. u[c + 1] \in S
  BY <1>4
<1>7. p \o Append(SubSeq(u, 1, c), u[c + 1]) = Append(p \o SubSeq(u, 1, c), u[c + 1])
  <2>1. PICK t \in Seq(S), x \in S : t = SubSeq(u, 1, c) /\ x = u[c + 1]
    BY Zenon, <1>5, <1>6
  <2>2. PICK v, w : v = Append(t, x) /\ w = p \o t
    OBVIOUS
  <2>3. v = Append(t, x) /\ w = p \o t
    BY <2>2
  <2>4. p \o v = Append(w, x)
    BY <2>3, JoinAppend
  <2> QED
    BY Zenon, <2>1, <2>2, <2>4
<1> QED
  BY Zenon, <1>3, <1>5, <1>7 DEF Made

LEMMA MadeNone ==
  ASSUME NEW old \in LineTexts, NEW script, ScriptFor(script, Len(old)), NEW q \in 0..Len(old)
  PROVE  Made(old, script, q, 0) = Patched(old, script)[q]
<1>1. script.ins[q + 1] \in LineTexts /\ Patched(old, script)[q] \in LineTexts
  BY Zenon, MadeTyped
<1>2. SubSeq(script.ins[q + 1], 1, 0) = <<>>
  BY Zenon, <1>1, Slice DEF LineTexts
<1>3. Patched(old, script)[q] \o <<>> = Patched(old, script)[q]
  BY Zenon, <1>1, JoinNothing DEF LineTexts
<1> QED
  BY Zenon, <1>2, <1>3 DEF Made

LEMMA MadeAll ==
  ASSUME NEW old \in LineTexts, NEW script, ScriptFor(script, Len(old)), NEW q \in 0..Len(old),
         NEW c, c = Len(script.ins[q + 1])
  PROVE  Made(old, script, q, c) = Patched(old, script)[q] \o script.ins[q + 1]
<1>1. script.ins[q + 1] \in LineTexts
  BY Zenon, MadeTyped
<1>2. SubSeq(script.ins[q + 1], 1, Len(script.ins[q + 1])) = script.ins[q + 1]
  BY Zenon, <1>1, Slice DEF LineTexts
<1> QED
  BY Zenon, <1>2 DEF Made

\* An old line is deleted or kept.
DropsOrKeeps(old, script, q, c) ==
  /\ q + 1 \in script.del /\ c = 0 => Made(old, script, q + 1, 0) = Made(old, script, q, c)
  /\ q + 1 \notin script.del /\ c = Len(script.ins[q + 1]) =>
       Made(old, script, q + 1, 0) = Append(Made(old, script, q, c), old[q + 1])

LEMMA MadeOld ==
  ASSUME NEW old \in LineTexts, NEW script, ScriptFor(script, Len(old)), NEW q \in 0..Len(old), q < Len(old),
         NEW c
  PROVE  DropsOrKeeps(old, script, q, c)
<1>1. Len(old) \in Nat
  BY DEF LineTexts
<1>2. PICK j : j = q + 1
  OBVIOUS
<1>3. j \in 1..Len(old) /\ j \in 0..Len(old) /\ j - 1 = q
  BY <1>1, <1>2
<1>4. /\ j \in script.del => Patched(old, script)[j] = Patched(old, script)[j - 1]
      /\ j \notin script.del =>
           Patched(old, script)[j] = Append(Patched(old, script)[j - 1] \o script.ins[j], old[j])
  BY Zenon, <1>3, PatchedLine
<1>5. Made(old, script, j, 0) = Patched(old, script)[j] /\ Made(old, script, q, 0) = Patched(old, script)[q]
  BY Zenon, <1>3, MadeNone
<1>6. c = Len(script.ins[q + 1]) => Made(old, script, q, c) = Patched(old, script)[q] \o script.ins[q + 1]
  BY Zenon, MadeAll
<1>7. CASE j \in script.del
  BY Zenon, <1>2, <1>3, <1>4, <1>5, <1>7 DEF DropsOrKeeps
<1>8. CASE j \notin script.del
  BY Zenon, <1>2, <1>3, <1>4, <1>5, <1>6, <1>8 DEF DropsOrKeeps
<1> QED
  BY Zenon, <1>7, <1>8

LEMMA MadeEnd ==
  ASSUME NEW old \in LineTexts, NEW script, ScriptFor(script, Len(old)), NEW c, NEW q, q = Len(old),
         c = Len(script.ins[q + 1])
  PROVE  Made(old, script, q, c) = Patch(old, script)
<1>1. q \in 0..Len(old)
  BY DEF LineTexts
<1>2. Made(old, script, q, c) = Patched(old, script)[q] \o script.ins[q + 1]
  BY Zenon, <1>1, MadeAll
<1> QED
  BY Zenon, <1>2, PatchedEnd

\* The deltas whose insertions may enclose what is added to version W.
Hosts(lines, W) == W \cup {s \in Nat : \E w \in W : Encloses(lines, s, w)}

\* The version that a body gives, and an edit script for it that delta n brings.
Job(lines, n, L, W, script, diff, at) ==
  /\ Younger(lines, n) /\ n \in Nat /\ L \in Nat /\ L < n /\ lines # <<>>
  /\ \A x \in Owners(lines) : x <= L
  /\ OpenI(lines, Len(lines)) = {} /\ OpenD(lines, Len(lines)) = {}
  /\ W \in SUBSET Nat
  /\ Context(Version(lines, W), script, diff, at)
  /\ \A j \in 1..(Len(Version(lines, W)) + 1) :
       \A k \in 1..Len(script.ins[j]) : script.ins[j][k] \in {n} \X Nat

\* What the scanner knows after i lines of the body.
Reading(ss, L, W, lines, i) ==
  /\ ss \in SeqStates /\ ss.last = L /\ ss.ignored = {} /\ ss.included = W
  /\ ss.inserts = OpenI(lines, i) /\ ss.deletes = OpenD(lines, i)

\* How many lines of the version the first i lines of the body have.
SoFar(lines, W, i) == Len(Outputs(lines, W)[i])

\* The scanner has copied i lines of the body, and inserted c lines since.
Progress(lines, n, L, W, script, diff, at, i, c, ss, ds, out) ==
  /\ i \in 0..Len(lines)
  /\ Reading(ss, L, W, lines, i)
  /\ ReaderAt(ds, Version(lines, W), script, diff, at, SoFar(lines, W, i), c)
  /\ ds.state = "INSERT" => i = Len(lines) \/ Belongs(lines, i + 1, W)
  /\ Weaving(out, lines, i, n, Own(ds.state, "INSERT", n), Own(ds.state, "DELETE", n), Hosts(lines, W))
  /\ \A V : Adds(lines, n, W, V) =>
       Version(out, V) = Made(Version(lines, W), script, SoFar(lines, W, i), c)

LEMMA JobIs ==
  ASSUME NEW lines, NEW n, NEW L, NEW W, NEW script, NEW diff, NEW at, Job(lines, n, L, W, script, diff, at)
  PROVE  /\ Younger(lines, n) /\ lines \in Seq(Line) /\ Woven(lines) /\ Len(lines) \in Nat
         /\ n \in 1..MaxDeltas /\ n \in Nat /\ L \in Nat /\ L < n /\ Len(lines) >= 1
         /\ Context(Version(lines, W), script, diff, at)
         /\ Version(lines, W) \in LineTexts /\ ScriptFor(script, Len(Version(lines, W)))
<1>1. Younger(lines, n) /\ n \in Nat /\ L \in Nat /\ L < n /\ lines # <<>>
      /\ Context(Version(lines, W), script, diff, at)
  BY Zenon DEF Job
<1>2. lines \in Seq(Line) /\ Woven(lines) /\ n \in 1..MaxDeltas
  BY Zenon, <1>1 DEF Younger
<1>3. Len(lines) \in Nat /\ Len(lines) >= 1
  BY <1>1, <1>2
<1>4. Version(lines, W) \in LineTexts /\ ScriptFor(script, Len(Version(lines, W)))
  BY Zenon, <1>1 DEF Context
<1> QED
  BY Zenon, <1>1, <1>2, <1>3, <1>4

LEMMA ReaderAtIs ==
  ASSUME NEW ds, NEW old, NEW script, NEW diff, NEW at, NEW q, NEW c, ReaderAt(ds, old, script, diff, at, q, c),
         Context(old, script, diff, at)
  PROVE  /\ ds \in ReaderStates /\ ds.state \in States /\ ds.ok
         /\ q \in 0..Len(old) /\ c \in Nat
         /\ ds.state # "INSERT" => c = 0
         /\ c \in 0..Len(script.ins[q + 1])
<1>1. q \in 0..Len(old)
  BY Zenon DEF ReaderAt
<1>2. Len(script.ins[q + 1]) \in Nat
  BY Zenon, <1>1, MadeTyped DEF Context
<1>3. /\ ds \in ReaderStates /\ ds.ok
      /\ c = 0 \/ (ds.state = "INSERT" /\ c \in 1..Len(script.ins[q + 1]))
  <2>1. CASE Starting(ds, q, c)
    BY Zenon, <2>1 DEF Starting, Reader
  <2>2. CASE Keeping(ds, old, script, at, q, c)
    BY Zenon, <2>2 DEF Keeping, Reader
  <2>3. CASE Deleting(ds, old, script, at, q, c)
    BY Zenon, <2>3 DEF Deleting, Reader
  <2>4. CASE Adding(ds, old, script, at, q, c)
    BY Zenon, <2>4 DEF Adding, Reader
  <2>5. CASE Ending(ds, old, script, diff, q, c)
    BY Zenon, <2>5 DEF Ending, Reader
  <2> QED
    BY Zenon, <2>1, <2>2, <2>3, <2>4, <2>5 DEF ReaderAt
<1>4. ds.state \in States
  BY <1>3 DEF ReaderStates, States
<1>5. c \in 0..Len(script.ins[q + 1]) /\ c \in Nat
  BY <1>2, <1>3
<1> QED
  BY Zenon, <1>1, <1>3, <1>4, <1>5

\* A line of the body that is not one of the version is copied.
LEMMA CopyOther ==
  ASSUME NEW lines, NEW n, NEW L, NEW W, NEW script, NEW diff, NEW at, Job(lines, n, L, W, script, diff, at),
         NEW i, NEW c, NEW ss, NEW ds, NEW out,
         Progress(lines, n, L, W, script, diff, at, i, c, ss, ds, out), i < Len(lines),
         NEW k, k = i + 1, ~Belongs(lines, k, W), NEW ss2, Reading(ss2, L, W, lines, k)
  PROVE  /\ Progress(lines, n, L, W, script, diff, at, k, c, ss2, ds, Append(out, lines[k]))
         /\ SoFar(lines, W, k) = SoFar(lines, W, i)
<1>1. /\ i \in 0..Len(lines)
      /\ ReaderAt(ds, Version(lines, W), script, diff, at, SoFar(lines, W, i), c)
      /\ ds.state = "INSERT" => i = Len(lines) \/ Belongs(lines, i + 1, W)
      /\ Weaving(out, lines, i, n, Own(ds.state, "INSERT", n), Own(ds.state, "DELETE", n), Hosts(lines, W))
      /\ \A V : Adds(lines, n, W, V) =>
           Version(out, V) = Made(Version(lines, W), script, SoFar(lines, W, i), c)
  BY Zenon DEF Progress
<1>2. Younger(lines, n) /\ lines \in Seq(Line) /\ Len(lines) \in Nat
  BY Zenon, JobIs
<1>3. k \in 1..Len(lines) /\ k \in 0..Len(lines) /\ k - 1 = i /\ i # Len(lines)
  BY <1>1, <1>2
<1>4. ds.state # "INSERT"
  BY Zenon, <1>1, <1>3
<1>5. PICK D, H : D = Own(ds.state, "DELETE", n) /\ H = Hosts(lines, W)
  OBVIOUS
<1>6. Own(ds.state, "INSERT", n) = {} /\ D \in SUBSET {n}
  BY <1>4, <1>5 DEF Own
<1>7. Weaving(out, lines, k - 1, n, {}, D, H)
  BY Zenon, <1>1, <1>3, <1>5, <1>6
<1>8. Weaving(Append(out, lines[k]), lines, k, n, {}, D, H)
  BY Zenon, <1>2, <1>3, <1>6, <1>7, WeaveOld
<1>9. Outputs(lines, W)[k] = Outputs(lines, W)[k - 1]
  BY Zenon, <1>2, <1>3, NotOfVersion
<1>10. SoFar(lines, W, k) = SoFar(lines, W, i)
  BY Zenon, <1>3, <1>9 DEF SoFar
<1>11. ASSUME NEW V, Adds(lines, n, W, V)
       PROVE  Version(Append(out, lines[k]), V) = Version(out, V)
  <2>1. Version(Append(out, lines[k]), V) =
          IF Belongs(lines, k, W) /\ D = {} THEN Append(Version(out, V), lines[k].text) ELSE Version(out, V)
    <3>1. D \in SUBSET {n} /\ k \in 1..Len(lines) /\ Younger(lines, n)
      BY Zenon, <1>2, <1>3, <1>6
    <3> QED
      BY <1>7, <1>11, <3>1, OldLineVersion
  <2> QED
    BY Zenon, <2>1
<1>12. \A V : Adds(lines, n, W, V) =>
         Version(Append(out, lines[k]), V) = Made(Version(lines, W), script, SoFar(lines, W, k), c)
  BY Zenon, <1>1, <1>10, <1>11
<1>13. Weaving(Append(out, lines[k]), lines, k, n, Own(ds.state, "INSERT", n), Own(ds.state, "DELETE", n), Hosts(lines, W))
  BY Zenon, <1>5, <1>6, <1>8
<1>14. ReaderAt(ds, Version(lines, W), script, diff, at, SoFar(lines, W, k), c)
  BY Zenon, <1>1, <1>10
<1> QED
  BY Zenon, <1>3, <1>4, <1>10, <1>12, <1>13, <1>14 DEF Progress

\* The brackets of the old body are obeyed where they stand.
LEMMA StepControl ==
  ASSUME NEW lines, NEW n, NEW L, NEW W, NEW script, NEW diff, NEW at, Job(lines, n, L, W, script, diff, at),
         NEW i, NEW c, NEW ss, NEW ds, NEW out,
         Progress(lines, n, L, W, script, diff, at, i, c, ss, ds, out), i < Len(lines),
         NEW k, k = i + 1, NEW x, x = lines[k], IsControl(x)
  PROVE  /\ Progress(lines, n, L, W, script, diff, at, k, c, Follow(ss, x), ds, Append(out, x))
         /\ SoFar(lines, W, k) = SoFar(lines, W, i)
         /\ \A h \in Nat : L <= h => BracketOK(ss, x, h)
<1>1. i \in 0..Len(lines) /\ Reading(ss, L, W, lines, i)
  BY Zenon DEF Progress
<1>2. /\ lines \in Seq(Line) /\ Woven(lines) /\ Len(lines) \in Nat /\ L \in Nat
      /\ \A y \in Owners(lines) : y <= L
  BY Zenon, JobIs DEF Job
<1>3. k \in 1..Len(lines) /\ k \in 0..Len(lines) /\ k - 1 = i
  BY <1>1, <1>2
<1>4. Fits(lines, k) /\ lines[k] \in Line
  BY <1>2, <1>3 DEF Woven
<1>5. /\ ss \in SeqStates /\ ss.last = L /\ ss.ignored = {} /\ ss.included = W
      /\ ss.inserts = OpenI(lines, k - 1) /\ ss.deletes = OpenD(lines, k - 1)
  BY Zenon, <1>1, <1>3 DEF Reading
<1>6. /\ \A h \in Nat : lines[k].seq <= h /\ h <= ss.last => BracketOK(ss, lines[k], h)
      /\ Follow(ss, lines[k]) = WithOpen(ss, OpenI(lines, k), OpenD(lines, k))
  BY Zenon, <1>2, <1>3, <1>4, <1>5, AtPlace
<1>7. x.seq \in Owners(lines) /\ x.seq \in 1..MaxDeltas
  <2>1. lines[k].seq \in Owners(lines)
    BY <1>3 DEF Owners
  <2>2. x.seq \in 1..MaxDeltas
    BY <1>4, LineIs DEF IsControl
  <2> QED
    BY Zenon, <2>1, <2>2
<1>8. x.seq <= L /\ L <= ss.last
  BY <1>2, <1>5, <1>7
<1>9. ASSUME NEW h \in Nat, L <= h PROVE BracketOK(ss, x, h)
  <2>1. BracketOK(ss, x, L)
    BY Zenon, <1>2, <1>6, <1>8
  <2>2. x.seq \in 1..L /\ (x.seq \in 1..h)
    BY <1>2, <1>7, <1>8, <1>9
  <2> QED
    BY Zenon, <2>1, <2>2 DEF BracketOK
<1>10. Reading(Follow(ss, x), L, W, lines, k)
  <2>1. OpenI(lines, k) \in SUBSET Nat /\ OpenD(lines, k) \in SUBSET Nat
    BY Constants DEF OpenI, OpenD
  <2>2. PICK I \in SUBSET Nat, D \in SUBSET Nat : I = OpenI(lines, k) /\ D = OpenD(lines, k)
    BY Zenon, <2>1
  <2>3. PICK f : f = WithOpen(ss, I, D)
    OBVIOUS
  <2>4. /\ f \in SeqStates /\ f.inserts = I /\ f.deletes = D
        /\ f.included = ss.included /\ f.ignored = ss.ignored /\ f.last = ss.last
    BY <1>5, <2>3, WithOpenIs
  <2>5. Follow(ss, x) = f
    BY Zenon, <1>6, <2>2, <2>3
  <2>6. Reading(f, L, W, lines, k)
    BY Zenon, <1>5, <2>2, <2>4 DEF Reading
  <2> QED
    BY Zenon, <2>5, <2>6
<1>11. ~Belongs(lines, k, W)
  <2>1. x.k # "text"
    BY DEF IsControl
  <2> QED
    BY Zenon, <2>1 DEF Belongs
<1>12. /\ Progress(lines, n, L, W, script, diff, at, k, c, Follow(ss, x), ds, Append(out, lines[k]))
       /\ SoFar(lines, W, k) = SoFar(lines, W, i)
  <2>1. PICK f : f = Follow(ss, x)
    OBVIOUS
  <2>2. Reading(f, L, W, lines, k)
    BY Zenon, <1>10, <2>1
  <2>3. /\ Progress(lines, n, L, W, script, diff, at, k, c, f, ds, Append(out, lines[k]))
        /\ SoFar(lines, W, k) = SoFar(lines, W, i)
    BY <1>11, <2>2, CopyOther
  <2> QED
    BY Zenon, <2>1, <2>3
<1> QED
  BY Zenon, <1>9, <1>12

\* A line of text, of the version or not.
LEMMA TextHere ==
  ASSUME NEW lines, NEW n, NEW L, NEW W, NEW script, NEW diff, NEW at, Job(lines, n, L, W, script, diff, at),
         NEW i, NEW c, NEW ss, NEW ds, NEW out,
         Progress(lines, n, L, W, script, diff, at, i, c, ss, ds, out), i < Len(lines),
         NEW k, k = i + 1, ~IsControl(lines[k])
  PROVE  /\ IncludeLine(ss) <=> Belongs(lines, k, W)
         /\ lines[k].k = "text"
         /\ Reading(ss, L, W, lines, k)
         /\ k \in 1..Len(lines)
<1>1. i \in 0..Len(lines) /\ Reading(ss, L, W, lines, i)
  BY Zenon DEF Progress
<1>2. lines \in Seq(Line) /\ Woven(lines) /\ Len(lines) \in Nat /\ L \in Nat
  BY Zenon, JobIs
<1>3. k \in 1..Len(lines) /\ k \in 0..Len(lines) /\ k - 1 = i
  BY <1>1, <1>2
<1>4. Fits(lines, k) /\ lines[k] \in Line
  BY <1>2, <1>3 DEF Woven
<1>5. /\ ss \in SeqStates /\ ss.last = L /\ ss.ignored = {} /\ ss.included = W
      /\ ss.inserts = OpenI(lines, k - 1) /\ ss.deletes = OpenD(lines, k - 1)
  BY Zenon, <1>1, <1>3 DEF Reading
<1>6. lines[k].k = "text"
  BY Zenon, <1>4, LineIs
<1>7. IncludeLine(ss) <=> Belongs(lines, k, W)
  BY Zenon, <1>2, <1>3, <1>4, <1>5, <1>6, AtPlace
<1>8. OpenI(lines, k) = OpenI(lines, k - 1) /\ OpenD(lines, k) = OpenD(lines, k - 1)
  <2>1. /\ OpenI(lines, k) = CASE lines[k].k = "I" -> OpenI(lines, k - 1) \cup {lines[k].seq}
                               [] lines[k].k = "E" -> OpenI(lines, k - 1) \ {lines[k].seq}
                               [] OTHER -> OpenI(lines, k - 1)
        /\ OpenD(lines, k) = CASE lines[k].k = "D" -> OpenD(lines, k - 1) \cup {lines[k].seq}
                               [] lines[k].k = "E" -> OpenD(lines, k - 1) \ {lines[k].seq}
                               [] OTHER -> OpenD(lines, k - 1)
    BY Zenon, <1>2, <1>3, OpenStep
  <2>2. lines[k].k # "I" /\ lines[k].k # "D" /\ lines[k].k # "E"
    BY <1>6
  <2> QED
    BY Zenon, <2>1, <2>2
<1>9. Reading(ss, L, W, lines, k)
  BY Zenon, <1>5, <1>8 DEF Reading
<1> QED
  BY Zenon, <1>3, <1>6, <1>7, <1>9

\* What encloses the place of an insertion.
LEMMA HostsHere ==
  ASSUME NEW lines \in Seq(Line), Woven(lines), OpenI(lines, Len(lines)) = {}, NEW W,
         NEW i \in 0..Len(lines), i = Len(lines) \/ Belongs(lines, i + 1, W)
  PROVE  OpenI(lines, i) \subseteq Hosts(lines, W)
<1>1. CASE i = Len(lines)
  BY <1>1
<1>2. CASE i # Len(lines)
  <2>1. PICK k : k = i + 1
    OBVIOUS
  <2>2. k \in 1..Len(lines) /\ k - 1 = i
    BY <1>2, <2>1
  <2>3. Belongs(lines, k, W) /\ Fits(lines, k)
    BY Zenon, <1>2, <2>1, <2>2 DEF Woven
  <2>4. PICK w : w = lines[k].text[1]
    OBVIOUS
  <2>5. w \in W /\ w \in OpenI(lines, i) /\ \A s \in OpenI(lines, i) : s <= w
    BY Zenon, <2>2, <2>3, <2>4 DEF Belongs, Fits
  <2>6. ASSUME NEW s \in OpenI(lines, i) PROVE s \in Hosts(lines, W)
    <3>1. OpenI(lines, i) \subseteq Nat
      BY Constants DEF OpenI
    <3>2. s = w \/ s < w
      BY <2>5, <3>1
    <3>3. CASE s = w
      BY <2>5, <3>3 DEF Hosts
    <3>4. CASE s < w
      <4>1. Encloses(lines, s, w)
        BY Zenon, <2>5, <3>4, Nesting
      <4>2. s \in Nat
        BY <3>1
      <4>3. PICK E : E = {x \in Nat : \E y \in W : Encloses(lines, x, y)}
        OBVIOUS
      <4>4. s \in E
        BY <2>5, <4>1, <4>2, <4>3
      <4> QED
        BY <4>3, <4>4 DEF Hosts
    <3> QED
      BY Zenon, <3>2, <3>3, <3>4
  <2> QED
    BY Zenon, <2>6
<1> QED
  BY Zenon, <1>1, <1>2

\* The reader has answered p, and its brackets are printed.
Deciding(lines, n, L, W, script, diff, at, i, c, q, ss, p, new) ==
  /\ i \in 1..Len(lines) /\ q = SoFar(lines, W, i) /\ Reading(ss, L, W, lines, i)
  /\ q \in 0..Len(Version(lines, W)) /\ c \in Nat /\ c \in 0..Len(script.ins[q + 1])
  /\ i = Len(lines) => q = Len(Version(lines, W))
  /\ i = Len(lines) \/ Belongs(lines, i + 1, W)
  /\ p \in ReaderStates /\ p.ok /\ p.state \in States
  /\ Answers(p, Version(lines, W), script, diff, at, q, c)
  /\ OpenI(lines, i) \subseteq Hosts(lines, W)
  /\ Weaving(new, lines, i, n, Own(p.state, "INSERT", n), Own(p.state, "DELETE", n), Hosts(lines, W))
  /\ \A V : Adds(lines, n, W, V) => Version(new, V) = Made(Version(lines, W), script, q, c)

LEMMA DecidingHere ==
  ASSUME NEW lines, NEW n, NEW L, NEW W, NEW script, NEW diff, NEW at, Job(lines, n, L, W, script, diff, at),
         NEW i, NEW c, NEW ss, NEW ds, NEW out,
         Progress(lines, n, L, W, script, diff, at, i, c, ss, ds, out),
         i = Len(lines) \/ Belongs(lines, i + 1, W),
         NEW q, q = SoFar(lines, W, i), NEW p, p = Process(ds, diff),
         NEW new, new = out \o Brackets(p.control, n)
  PROVE  Deciding(lines, n, L, W, script, diff, at, i, c, q, ss, p, new)
<1>1. /\ i \in 0..Len(lines) /\ Reading(ss, L, W, lines, i)
      /\ ReaderAt(ds, Version(lines, W), script, diff, at, q, c)
      /\ Weaving(out, lines, i, n, Own(ds.state, "INSERT", n), Own(ds.state, "DELETE", n), Hosts(lines, W))
      /\ \A V : Adds(lines, n, W, V) => Version(out, V) = Made(Version(lines, W), script, q, c)
  BY Zenon DEF Progress
<1>2. /\ Younger(lines, n) /\ lines \in Seq(Line) /\ Woven(lines) /\ Len(lines) \in Nat /\ Len(lines) >= 1
      /\ OpenI(lines, Len(lines)) = {} /\ Context(Version(lines, W), script, diff, at)
  BY Zenon, JobIs DEF Job
<1>3. /\ ds \in ReaderStates /\ ds.state \in States /\ q \in 0..Len(Version(lines, W)) /\ c \in Nat
      /\ c \in 0..Len(script.ins[q + 1])
  BY Zenon, <1>1, <1>2, ReaderAtIs
<1>4. Answered(p, ds, Version(lines, W), script, diff, at, q, c)
  <2>1. PICK old : old = Version(lines, W)
    OBVIOUS
  <2>2. Context(old, script, diff, at) /\ ReaderAt(ds, old, script, diff, at, q, c)
    BY Zenon, <1>1, <1>2, <2>1
  <2>3. Answered(Process(ds, diff), ds, old, script, diff, at, q, c)
    BY Zenon, <2>2, ReaderSteps
  <2> QED
    BY Zenon, <2>1, <2>3
<1>5. /\ Answers(p, Version(lines, W), script, diff, at, q, c) /\ p \in ReaderStates /\ p.ok
      /\ p.control = IF p.state = ds.state THEN <<>> ELSE Closing(ds.state) \o Opening(p.state)
  BY Zenon, <1>4 DEF Answered
<1>6. p.state \in States
  BY <1>5 DEF ReaderStates, States
<1>7. i \in 1..Len(lines)
  <2>1. CASE i = Len(lines)
    BY <1>2, <2>1
  <2>2. CASE i # Len(lines)
    <3>1. PICK k : k = i + 1
      OBVIOUS
    <3>2. k \in 1..Len(lines) /\ k - 1 = i
      BY <1>1, <1>2, <2>2, <3>1
    <3>3. Belongs(lines, k, W) /\ Fits(lines, k)
      BY Zenon, <1>2, <2>2, <3>1, <3>2 DEF Woven
    <3>4. lines[k].text[1] \in OpenI(lines, i)
      BY Zenon, <3>2, <3>3 DEF Belongs, Fits
    <3>5. i # 0
      <4>1. OpenI(lines, 0) = {}
        BY Zenon, NothingOpen
      <4> QED
        BY <3>4, <4>1
    <3> QED
      BY <1>1, <1>2, <3>5
  <2> QED
    BY Zenon, <2>1, <2>2
<1>8. OpenI(lines, i) \subseteq Hosts(lines, W)
  BY Zenon, <1>1, <1>2, HostsHere
<1>9. PICK H, st, st2, control : H = Hosts(lines, W) /\ st = ds.state /\ st2 = p.state /\ control = p.control
  OBVIOUS
<1>10. /\ st \in States /\ st2 \in States /\ OpenI(lines, i) \subseteq H
       /\ WovenIn(out, lines, i, n, st, H) /\ Turns(st, st2, control)
       /\ new = out \o Brackets(control, n)
  BY Zenon, <1>1, <1>3, <1>5, <1>6, <1>8, <1>9 DEF WovenIn, Turns
<1>11. /\ Weaving(new, lines, i, n, Own(st2, "INSERT", n), Own(st2, "DELETE", n), H)
       /\ \A U : Version(new, U) = Version(out, U)
  <2>1. Younger(lines, n)
    BY Zenon, <1>2
  <2> QED
    <3>1. TurnedTo(out \o Brackets(control, n), out, lines, i, n, st2, H)
      BY Zenon, <1>7, <1>10, <2>1, WeaveTurn
    <3> QED
      BY Zenon, <1>10, <3>1 DEF TurnedTo, WovenIn
<1>12. i = Len(lines) => q = Len(Version(lines, W))
  BY Zenon DEF SoFar, Version
<1>13. \A V : Adds(lines, n, W, V) => Version(new, V) = Made(Version(lines, W), script, q, c)
  BY Zenon, <1>1, <1>11
<1>14. Weaving(new, lines, i, n, Own(p.state, "INSERT", n), Own(p.state, "DELETE", n), Hosts(lines, W))
  BY Zenon, <1>9, <1>11
<1> QED
  BY Zenon, <1>1, <1>3, <1>5, <1>6, <1>7, <1>8, <1>12, <1>13, <1>14 DEF Deciding

\* A line is inserted.
LEMMA StepInsert ==
  ASSUME NEW lines, NEW n, NEW L, NEW W, NEW script, NEW diff, NEW at, Job(lines, n, L, W, script, diff, at),
         NEW i, NEW c, NEW q, NEW ss, NEW p, NEW new,
         Deciding(lines, n, L, W, script, diff, at, i, c, q, ss, p, new), p.state = "INSERT",
         NEW t, t = InsertLine(p, diff)
  PROVE  /\ Progress(lines, n, L, W, script, diff, at, i, c + 1, ss, p, Append(new, Text(t)))
         /\ c + 1 \in 0..Len(script.ins[q + 1]) /\ t \in {n} \X Nat
<1>1. PICK old : old = Version(lines, W)
  OBVIOUS
<1>2. /\ Younger(lines, n) /\ Context(old, script, diff, at) /\ old \in LineTexts /\ ScriptFor(script, Len(old))
      /\ lines \in Seq(Line) /\ Len(lines) \in Nat /\ n \in 1..MaxDeltas
  BY Zenon, <1>1, JobIs
<1>3. /\ i \in 1..Len(lines) /\ q = SoFar(lines, W, i) /\ Reading(ss, L, W, lines, i)
      /\ q \in 0..Len(old) /\ c \in Nat /\ c \in 0..Len(script.ins[q + 1])
      /\ i = Len(lines) \/ Belongs(lines, i + 1, W)
      /\ p \in ReaderStates /\ p.ok /\ p.state \in States
      /\ Answers(p, old, script, diff, at, q, c)
      /\ OpenI(lines, i) \subseteq Hosts(lines, W)
      /\ Weaving(new, lines, i, n, Own(p.state, "INSERT", n), Own(p.state, "DELETE", n), Hosts(lines, W))
      /\ \A V : Adds(lines, n, W, V) => Version(new, V) = Made(old, script, q, c)
  BY Zenon, <1>1 DEF Deciding
<1>4. /\ c < Len(script.ins[q + 1]) /\ InsertLine(p, diff) = script.ins[q + 1][c + 1]
      /\ ReaderAt(p, old, script, diff, at, q, c + 1)
  <2>1. p.state # "DELETE" /\ p.state \notin {"NOCHANGE", "END"}
    OBVIOUS
  <2> QED
    BY Zenon, <1>3, <2>1 DEF Answers
<1>5. Len(script.ins[q + 1]) \in Nat /\ q + 1 \in 1..(Len(old) + 1)
  BY Zenon, <1>2, <1>3, MadeTyped
<1>6. c + 1 \in 1..Len(script.ins[q + 1]) /\ c + 1 \in 0..Len(script.ins[q + 1])
  BY <1>3, <1>4, <1>5
<1>7. t = script.ins[q + 1][c + 1]
  BY Zenon, <1>4
<1>8. t \in {n} \X Nat
  BY Zenon, <1>1, <1>5, <1>6, <1>7 DEF Job
<1>9. PICK I, D, H : I = {n} /\ D = {} /\ H = Hosts(lines, W)
  OBVIOUS
<1>10. Own(p.state, "INSERT", n) = I /\ Own(p.state, "DELETE", n) = D
  BY <1>9 DEF Own
<1>11. Weaving(new, lines, i, n, I, D, H)
  BY Zenon, <1>3, <1>9, <1>10
<1>12. Weaving(new, lines, i, n, {n}, {}, H)
  BY Zenon, <1>9, <1>11
<1>13. PICK o : o = Append(new, Text(t))
  OBVIOUS
<1>14. Weaving(o, lines, i, n, {n}, {}, H)
  <2>1. OpenI(lines, i) \subseteq H
    BY Zenon, <1>3, <1>9
  <2>2. Weaving(Append(new, Text(t)), lines, i, n, {n}, {}, H)
    BY <1>2, <1>3, <1>8, <1>12, <2>1, WeaveText
  <2> QED
    BY Zenon, <1>13, <2>2
<1>15. ASSUME NEW V, Adds(lines, n, W, V) PROVE Version(o, V) = Made(old, script, q, c + 1)
  <2>1. n \in V
    BY <1>15 DEF Adds
  <2>2. Version(Append(new, Text(t)), V) = Append(Version(new, V), t)
    <3>1. Younger(lines, n) /\ i \in 1..Len(lines)
      BY Zenon, <1>2, <1>3
    <3>2. TextOf(t, n)
      BY Zenon, <1>8 DEF TextOf
    <3>3. WovenIn(new, lines, i, n, "INSERT", H)
      BY Zenon, <1>3, <1>9 DEF WovenIn
    <3> QED
      BY <2>1, <3>1, <3>2, <3>3, NewLineVersion
  <2>3. Made(old, script, q, c + 1) = Append(Made(old, script, q, c), script.ins[q + 1][c + 1])
    BY Zenon, <1>2, <1>3, <1>4, MadeInsert
  <2>4. Version(new, V) = Made(old, script, q, c)
    BY Zenon, <1>3, <1>15
  <2> QED
    BY Zenon, <1>7, <1>13, <2>2, <2>3, <2>4
<1>16. Weaving(o, lines, i, n, Own(p.state, "INSERT", n), Own(p.state, "DELETE", n), Hosts(lines, W))
  BY Zenon, <1>9, <1>10, <1>14
<1>17. i \in 0..Len(lines)
  BY <1>2, <1>3
<1>18. Progress(lines, n, L, W, script, diff, at, i, c + 1, ss, p, o)
  BY Zenon, <1>1, <1>3, <1>4, <1>15, <1>16, <1>17 DEF Progress
<1> QED
  BY Zenon, <1>6, <1>8, <1>13, <1>18

LEMMA TextLeavesOpen ==
  ASSUME NEW lines \in Seq(Line), NEW k \in 1..Len(lines), lines[k].k = "text",
         NEW ss, NEW L, NEW W, Reading(ss, L, W, lines, k - 1)
  PROVE  Reading(ss, L, W, lines, k)
<1>1. OpenI(lines, k) = OpenI(lines, k - 1) /\ OpenD(lines, k) = OpenD(lines, k - 1)
  <2>1. /\ OpenI(lines, k) = CASE lines[k].k = "I" -> OpenI(lines, k - 1) \cup {lines[k].seq}
                               [] lines[k].k = "E" -> OpenI(lines, k - 1) \ {lines[k].seq}
                               [] OTHER -> OpenI(lines, k - 1)
        /\ OpenD(lines, k) = CASE lines[k].k = "D" -> OpenD(lines, k - 1) \cup {lines[k].seq}
                               [] lines[k].k = "E" -> OpenD(lines, k - 1) \ {lines[k].seq}
                               [] OTHER -> OpenD(lines, k - 1)
    BY Zenon, OpenStep
  <2>2. lines[k].k # "I" /\ lines[k].k # "D" /\ lines[k].k # "E"
    OBVIOUS
  <2> QED
    BY Zenon, <2>1, <2>2
<1> QED
  BY Zenon, <1>1 DEF Reading

\* An old line is deleted or kept.
LEMMA StepOld ==
  ASSUME NEW lines, NEW n, NEW L, NEW W, NEW script, NEW diff, NEW at, Job(lines, n, L, W, script, diff, at),
         NEW i, NEW c, NEW q, NEW ss, NEW p, NEW new,
         Deciding(lines, n, L, W, script, diff, at, i, c, q, ss, p, new), p.state # "INSERT", i # Len(lines),
         NEW k, k = i + 1, NEW old, old = Version(lines, W)
  PROVE  /\ Progress(lines, n, L, W, script, diff, at, k, 0, ss, p, Append(new, lines[k]))
         /\ SoFar(lines, W, k) = q + 1 /\ q < Len(old)
         /\ p.state = "DELETE" => Made(old, script, q + 1, 0) = Made(old, script, q, c)
         /\ p.state # "DELETE" =>
              Made(old, script, q + 1, 0) = Append(Made(old, script, q, c), lines[k].text)
<1>2. /\ Younger(lines, n) /\ Context(old, script, diff, at) /\ old \in LineTexts /\ ScriptFor(script, Len(old))
      /\ lines \in Seq(Line) /\ Len(lines) \in Nat /\ n \in 1..MaxDeltas
  BY Zenon, JobIs
<1>3. /\ i \in 1..Len(lines) /\ q = SoFar(lines, W, i) /\ Reading(ss, L, W, lines, i)
      /\ q \in 0..Len(old) /\ c \in Nat
      /\ i = Len(lines) \/ Belongs(lines, i + 1, W)
      /\ p \in ReaderStates /\ p.ok /\ p.state \in States
      /\ Answers(p, old, script, diff, at, q, c)
      /\ Weaving(new, lines, i, n, Own(p.state, "INSERT", n), Own(p.state, "DELETE", n), Hosts(lines, W))
      /\ \A V : Adds(lines, n, W, V) => Version(new, V) = Made(old, script, q, c)
  BY Zenon DEF Deciding
<1>4. k \in 1..Len(lines) /\ k \in 0..Len(lines) /\ k - 1 = i
  BY <1>2, <1>3
<1>5. Belongs(lines, k, W)
  BY Zenon, <1>3
<1>6. /\ q < Len(old) /\ old[q + 1] = lines[k].text /\ SoFar(lines, W, k) = q + 1
  <2>1. q = Len(Outputs(lines, W)[k - 1])
    BY Zenon, <1>3, <1>4 DEF SoFar
  <2>2. /\ q < Len(Version(lines, W)) /\ Version(lines, W)[q + 1] = lines[k].text
        /\ Len(Outputs(lines, W)[k]) = q + 1
    BY SMTT(30), <1>2, <1>4, <1>5, <2>1, NextOfVersion
  <2> QED
    BY Zenon, <2>2 DEF SoFar
<1>7. /\ ReaderAt(p, old, script, diff, at, q + 1, 0)
      /\ p.state = "DELETE" => q + 1 \in script.del /\ c = 0
      /\ p.state # "DELETE" => q + 1 \notin script.del /\ c = Len(script.ins[q + 1])
  <2>1. \/ /\ p.state = "DELETE" /\ q < Len(old) /\ q + 1 \in script.del /\ c = 0
           /\ ReaderAt(p, old, script, diff, at, q + 1, 0)
        \/ /\ p.state \in {"NOCHANGE", "END"} /\ q + 1 \notin script.del /\ c = Len(script.ins[q + 1])
           /\ q < Len(old) => ReaderAt(p, old, script, diff, at, q + 1, 0)
    BY Zenon, <1>3 DEF Answers
  <2>2. p.state \in {"NOCHANGE", "END"} => p.state # "DELETE"
    OBVIOUS
  <2> QED
    BY Zenon, <1>6, <2>1, <2>2
<1>8. /\ p.state = "DELETE" => Made(old, script, q + 1, 0) = Made(old, script, q, c)
      /\ p.state # "DELETE" => Made(old, script, q + 1, 0) = Append(Made(old, script, q, c), lines[k].text)
  <2>1. /\ q + 1 \in script.del /\ c = 0 => Made(old, script, q + 1, 0) = Made(old, script, q, c)
        /\ q + 1 \notin script.del /\ c = Len(script.ins[q + 1]) =>
             Made(old, script, q + 1, 0) = Append(Made(old, script, q, c), old[q + 1])
    <3>1. q \in 0..Len(old) /\ q < Len(old)
      BY Zenon, <1>3, <1>6
    <3>2. DropsOrKeeps(old, script, q, c)
      BY Zenon, <1>2, <3>1, MadeOld
    <3> QED
      BY Zenon, <3>2 DEF DropsOrKeeps
  <2> QED
    BY Zenon, <1>6, <1>7, <2>1
<1>9. lines[k].k = "text"
  BY Zenon, <1>5 DEF Belongs
<1>10. Reading(ss, L, W, lines, k)
  <2>1. Reading(ss, L, W, lines, k - 1)
    BY Zenon, <1>3, <1>4
  <2> QED
    BY Zenon, <1>2, <1>4, <1>9, <2>1, TextLeavesOpen
<1>11. PICK D, H : D = Own(p.state, "DELETE", n) /\ H = Hosts(lines, W)
  OBVIOUS
<1>12. Own(p.state, "INSERT", n) = {} /\ D \in SUBSET {n}
  BY <1>11 DEF Own
<1>13. Weaving(new, lines, k - 1, n, {}, D, H)
  BY Zenon, <1>3, <1>4, <1>11, <1>12
<1>14. Weaving(Append(new, lines[k]), lines, k, n, {}, D, H)
  BY <1>2, <1>4, <1>12, <1>13, WeaveOld
<1>15. ASSUME NEW V, Adds(lines, n, W, V)
       PROVE  Version(Append(new, lines[k]), V) = Made(old, script, q + 1, 0)
  <2>1. Version(Append(new, lines[k]), V) =
          IF Belongs(lines, k, W) /\ D = {} THEN Append(Version(new, V), lines[k].text) ELSE Version(new, V)
    <3>1. D \in SUBSET {n} /\ k \in 1..Len(lines) /\ Younger(lines, n)
      BY Zenon, <1>2, <1>4, <1>12
    <3> QED
      BY <1>13, <1>15, <3>1, OldLineVersion
  <2>2. Version(new, V) = Made(old, script, q, c)
    BY Zenon, <1>3, <1>15
  <2>3. D = {} <=> p.state # "DELETE"
    BY <1>11 DEF Own
  <2> QED
    BY Zenon, <1>5, <1>8, <2>1, <2>2, <2>3
<1>16. Weaving(Append(new, lines[k]), lines, k, n, Own(p.state, "INSERT", n), Own(p.state, "DELETE", n), Hosts(lines, W))
  BY Zenon, <1>11, <1>12, <1>14
<1>17. Progress(lines, n, L, W, script, diff, at, k, 0, ss, p, Append(new, lines[k]))
  BY Zenon, <1>4, <1>6, <1>7, <1>10, <1>15, <1>16 DEF Progress
<1> QED
  BY Zenon, <1>6, <1>8, <1>17

\* The end of the body.
LEMMA StepFinish ==
  ASSUME NEW lines, NEW n, NEW L, NEW W, NEW script, NEW diff, NEW at, Job(lines, n, L, W, script, diff, at),
         NEW i, NEW c, NEW q, NEW ss, NEW p, NEW new,
         Deciding(lines, n, L, W, script, diff, at, i, c, q, ss, p, new), p.state # "INSERT", i = Len(lines),
         NEW old, old = Version(lines, W)
  PROVE  /\ p.pos = Len(diff) /\ q = Len(old)
         /\ Weaving(new, lines, i, n, {}, {}, Hosts(lines, W))
         /\ Made(old, script, q, c) = Patch(old, script)
         /\ \A V : Adds(lines, n, W, V) => Version(new, V) = Patch(old, script)
<1>2. /\ Context(old, script, diff, at) /\ old \in LineTexts /\ ScriptFor(script, Len(old))
      /\ lines \in Seq(Line) /\ Len(lines) \in Nat
  BY Zenon, JobIs
<1>3. /\ q = Len(old) /\ Answers(p, old, script, diff, at, q, c)
      /\ Weaving(new, lines, i, n, Own(p.state, "INSERT", n), Own(p.state, "DELETE", n), Hosts(lines, W))
      /\ \A V : Adds(lines, n, W, V) => Version(new, V) = Made(old, script, q, c)
  BY Zenon DEF Deciding
<1>4. ~(q < Len(old))
  BY <1>2, <1>3 DEF LineTexts
<1>5. p.state \in {"NOCHANGE", "END"} /\ c = Len(script.ins[q + 1]) /\ p.pos = Len(diff)
  BY Zenon, <1>3, <1>4 DEF Answers
<1>6. Own(p.state, "INSERT", n) = {} /\ Own(p.state, "DELETE", n) = {}
  BY <1>5 DEF Own
<1>7. Weaving(new, lines, i, n, {}, {}, Hosts(lines, W))
  BY Zenon, <1>3, <1>6
<1>8. Made(old, script, q, c) = Patch(old, script)
  BY ZenonT(40), <1>2, <1>3, <1>5, MadeEnd
<1> QED
  BY Zenon, <1>3, <1>5, <1>7, <1>8

\* The scanner starts.
LEMMA StepStart ==
  ASSUME NEW lines, NEW n, NEW L, NEW W, NEW script, NEW diff, NEW at, Job(lines, n, L, W, script, diff, at),
         NEW ss, Reading(ss, L, W, lines, 0), NEW i, i = 0, NEW ds, ds = NewDiffState, NEW o, o = <<>>
  PROVE  /\ Progress(lines, n, L, W, script, diff, at, i, 0, ss, ds, o)
         /\ SoFar(lines, W, i) = 0 /\ Made(Version(lines, W), script, 0, 0) = <<>>
<1>1. PICK old : old = Version(lines, W)
  OBVIOUS
<1>2. /\ Context(old, script, diff, at) /\ old \in LineTexts /\ ScriptFor(script, Len(old))
      /\ lines \in Seq(Line) /\ Len(lines) \in Nat /\ Younger(lines, n) /\ n \in 1..MaxDeltas
  BY Zenon, <1>1, JobIs
<1>3. Outputs(lines, W)[0] = <<>>
  BY Zenon, <1>2, OutputsAre
<1>4. SoFar(lines, W, 0) = 0
  BY <1>3 DEF SoFar
<1>5. ReaderAt(NewDiffState, old, script, diff, at, 0, 0)
  BY Zenon, <1>2, ReaderStarts
<1>6. NewDiffState.state # "INSERT" /\ NewDiffState.state # "DELETE"
  BY DEF NewDiffState
<1>7. Own(NewDiffState.state, "INSERT", n) = {} /\ Own(NewDiffState.state, "DELETE", n) = {}
  BY <1>6 DEF Own
<1>8. Weaving(<<>>, lines, 0, n, {}, {}, Hosts(lines, W))
  BY Zenon, <1>2, WeaveStart
<1>9. Made(old, script, 0, 0) = <<>>
  BY Zenon, <1>2, MadeStart
<1>10. ASSUME NEW V PROVE Version(<<>>, V) = <<>>
  <2>1. <<>> \in Seq(Line) /\ Len(<<>>) = 0
    OBVIOUS
  <2> QED
    BY Zenon, <2>1, OutputsAre DEF Version
<1>11. 0 \in 0..Len(lines)
  BY <1>2
<1>12. PICK q : q = SoFar(lines, W, 0)
  OBVIOUS
<1>13. ReaderAt(ds, Version(lines, W), script, diff, at, q, 0)
  BY Zenon, <1>1, <1>4, <1>5, <1>12
<1>14. ds.state # "INSERT"
  BY Zenon, <1>6, <1>12
<1>15. Weaving(o, lines, 0, n, Own(ds.state, "INSERT", n), Own(ds.state, "DELETE", n), Hosts(lines, W))
  BY Zenon, <1>7, <1>8, <1>12
<1>16. \A V : Adds(lines, n, W, V) => Version(o, V) = Made(Version(lines, W), script, q, 0)
  BY Zenon, <1>1, <1>4, <1>9, <1>10, <1>12
<1>18. Progress(lines, n, L, W, script, diff, at, i, 0, ss, ds, o)
  <2>1. i \in 0..Len(lines) /\ Reading(ss, L, W, lines, i)
    BY Zenon, <1>11
  <2>2. ReaderAt(ds, Version(lines, W), script, diff, at, SoFar(lines, W, i), 0)
    BY Zenon, <1>12, <1>13
  <2>3. Weaving(o, lines, i, n, Own(ds.state, "INSERT", n), Own(ds.state, "DELETE", n), Hosts(lines, W))
    BY Zenon, <1>15
  <2>4. \A V : Adds(lines, n, W, V) =>
          Version(o, V) = Made(Version(lines, W), script, SoFar(lines, W, i), 0)
    BY Zenon, <1>12, <1>16
  <2> QED
    BY Zenon, <1>14, <2>1, <2>2, <2>3, <2>4 DEF Progress
<1>19. SoFar(lines, W, i) = 0
  BY Zenon, <1>4
<1>20. Made(Version(lines, W), script, 0, 0) = <<>>
  BY Zenon, <1>1, <1>9
<1> QED
  BY Zenon, <1>18, <1>19, <1>20

-----------------------------------------------------------------------------
(* The record of a check-in in progress.                                   *)

ScanFields ==
  {"pc", "pos", "ss", "ds", "diff", "out", "inserted", "deleted", "unchanged", "gfile",
   "seq", "pred", "nulls", "incl", "excl"}

\* A check-in in progress, and its counters.
Recorded(sc) ==
  /\ DOMAIN sc = ScanFields /\ sc.pc = "scan"
  /\ sc.pos \in Nat /\ sc.inserted \in Nat /\ sc.deleted \in Nat /\ sc.unchanged \in Nat

\* What does not change while the body is scanned.
SamePlan(sc2, sc) ==
  /\ sc2.diff = sc.diff /\ sc2.gfile = sc.gfile /\ sc2.seq = sc.seq /\ sc2.pred = sc.pred
  /\ sc2.nulls = sc.nulls /\ sc2.incl = sc.incl /\ sc2.excl = sc.excl

Moved(sc2, sc, pos, ss, ds, out, i, d, u) ==
  /\ Recorded(sc2) /\ SamePlan(sc2, sc)
  /\ sc2.pos = pos /\ sc2.ss = ss /\ sc2.ds = ds /\ sc2.out = out
  /\ sc2.inserted = i /\ sc2.deleted = d /\ sc2.unchanged = u

LEMMA MovedControl ==
  ASSUME NEW sc, Recorded(sc), NEW ss, NEW out, NEW sc2,
         sc2 = [sc EXCEPT !.ss = ss, !.pos = @ + 1, !.out = out]
  PROVE  Moved(sc2, sc, sc.pos + 1, ss, sc.ds, out, sc.inserted, sc.deleted, sc.unchanged)
BY DEF Moved, SamePlan, Recorded, ScanFields

LEMMA MovedOther ==
  ASSUME NEW sc, Recorded(sc), NEW out, NEW sc2,
         sc2 = [sc EXCEPT !.pos = @ + 1, !.out = out]
  PROVE  Moved(sc2, sc, sc.pos + 1, sc.ss, sc.ds, out, sc.inserted, sc.deleted, sc.unchanged)
BY DEF Moved, SamePlan, Recorded, ScanFields

LEMMA MovedInsert ==
  ASSUME NEW sc, Recorded(sc), NEW p, NEW out, NEW sc2,
         sc2 = [sc EXCEPT !.ds = p, !.inserted = @ + 1, !.out = out]
  PROVE  Moved(sc2, sc, sc.pos, sc.ss, p, out, sc.inserted + 1, sc.deleted, sc.unchanged)
BY DEF Moved, SamePlan, Recorded, ScanFields

LEMMA MovedText ==
  ASSUME NEW sc, Recorded(sc), NEW p, NEW out, NEW sc2,
         sc2 = [sc EXCEPT !.ds = p, !.pos = @ + 1, !.out = out]
  PROVE  Moved(sc2, sc, sc.pos + 1, sc.ss, p, out, sc.inserted, sc.deleted, sc.unchanged)
BY DEF Moved, SamePlan, Recorded, ScanFields

LEMMA MovedOld ==
  ASSUME NEW sc, Recorded(sc), NEW p, NEW out, NEW deleted \in BOOLEAN, NEW sc2,
         sc2 = [CountOld(sc, deleted) EXCEPT !.ds = p, !.pos = @ + 1, !.out = out]
  PROVE  Moved(sc2, sc, sc.pos + 1, sc.ss, p, out, sc.inserted,
               IF deleted THEN sc.deleted + 1 ELSE sc.deleted,
               IF deleted THEN sc.unchanged ELSE sc.unchanged + 1)
<1>1. CASE deleted
  <2>1. CountOld(sc, deleted) = [sc EXCEPT !.deleted = @ + 1]
    BY <1>1 DEF CountOld
  <2>2. PICK a : a = [sc EXCEPT !.deleted = @ + 1]
    OBVIOUS
  <2>3. /\ Recorded(a) /\ SamePlan(a, sc) /\ a.pos = sc.pos /\ a.ss = sc.ss
        /\ a.inserted = sc.inserted /\ a.deleted = sc.deleted + 1 /\ a.unchanged = sc.unchanged
    BY <2>2 DEF Recorded, SamePlan, ScanFields
  <2>4. sc2 = [a EXCEPT !.ds = p, !.pos = @ + 1, !.out = out]
    BY Zenon, <2>1, <2>2
  <2>5. Moved(sc2, a, a.pos + 1, a.ss, p, out, a.inserted, a.deleted, a.unchanged)
    BY Zenon, <2>3, <2>4, MovedText
  <2> QED
    BY <1>1, <2>3, <2>5 DEF Moved, SamePlan
<1>2. CASE ~deleted
  <2>1. CountOld(sc, deleted) = [sc EXCEPT !.unchanged = @ + 1]
    BY <1>2 DEF CountOld
  <2>2. PICK a : a = [sc EXCEPT !.unchanged = @ + 1]
    OBVIOUS
  <2>3. /\ Recorded(a) /\ SamePlan(a, sc) /\ a.pos = sc.pos /\ a.ss = sc.ss
        /\ a.inserted = sc.inserted /\ a.deleted = sc.deleted /\ a.unchanged = sc.unchanged + 1
    BY <2>2 DEF Recorded, SamePlan, ScanFields
  <2>4. sc2 = [a EXCEPT !.ds = p, !.pos = @ + 1, !.out = out]
    BY Zenon, <2>1, <2>2
  <2>5. Moved(sc2, a, a.pos + 1, a.ss, p, out, a.inserted, a.deleted, a.unchanged)
    BY Zenon, <2>3, <2>4, MovedText
  <2> QED
    BY <1>2, <2>3, <2>5 DEF Moved, SamePlan
<1> QED
  BY Zenon, <1>1, <1>2

-----------------------------------------------------------------------------
(* A check-in in progress.                                                 *)

\* What the check-in was given: it compares with the version W of its predecessor, with
\* the lists.
Planned(sc, tab, W, lists) ==
  /\ sc.nulls \in Nat /\ sc.seq = Len(tab) + sc.nulls + 1 /\ sc.seq \in 1..MaxDeltas
  /\ sc.pred \in Current(tab)
  /\ sc.incl \in SUBSET Current(tab) /\ sc.excl \in SUBSET Current(tab)
  /\ W = (VersionOf(tab, sc.pred) \cup sc.incl) \ sc.excl
  /\ lists \in {"none", "disciplined"} => Plainly(tab, sc.pred, sc.incl)

\* What the counters of the ^As line add up to: made lines of the new version and old
\* lines of the old one are behind the scanner.
Counting(inserted, deleted, unchanged, made, old) ==
  /\ inserted \in Nat /\ deleted \in Nat /\ unchanged \in Nat
  /\ inserted + unchanged = made /\ deleted + unchanged = old

MadeSoFar(lines, W, script, i, c) == Len(Made(Version(lines, W), script, SoFar(lines, W, i), c))

\* The check-in has read i lines of the body, and inserted c lines after the last one.
ScanAt(sc, tab, lines, lists, W, script, at, i, c) ==
  /\ Recorded(sc) /\ Planned(sc, tab, W, lists)
  /\ Job(lines, sc.seq, Len(tab), W, script, sc.diff, at)
  /\ sc.gfile = Patch(Version(lines, W), script)
  /\ sc.pos = i + 1
  /\ Progress(lines, sc.seq, Len(tab), W, script, sc.diff, at, i, c, sc.ss, sc.ds, sc.out)
  /\ Counting(sc.inserted, sc.deleted, sc.unchanged, MadeSoFar(lines, W, script, i, c),
              SoFar(lines, W, i))

LEMMA ScanMoves ==
  ASSUME NEW sc, NEW tab, NEW lines, NEW lists, NEW W, NEW script, NEW at, NEW i, NEW c,
         ScanAt(sc, tab, lines, lists, W, script, at, i, c),
         NEW sc2, NEW pos, NEW ss, NEW ds, NEW out, NEW a, NEW d, NEW u,
         Moved(sc2, sc, pos, ss, ds, out, a, d, u), NEW j, NEW e, pos = j + 1,
         Progress(lines, sc.seq, Len(tab), W, script, sc.diff, at, j, e, ss, ds, out),
         Counting(a, d, u, MadeSoFar(lines, W, script, j, e), SoFar(lines, W, j))
  PROVE  ScanAt(sc2, tab, lines, lists, W, script, at, j, e)
<1>1. Recorded(sc2) /\ SamePlan(sc2, sc)
  BY Zenon DEF Moved
<1>2. /\ sc2.pos = j + 1 /\ sc2.ss = ss /\ sc2.ds = ds /\ sc2.out = out
      /\ sc2.inserted = a /\ sc2.deleted = d /\ sc2.unchanged = u
  BY Zenon DEF Moved
<1>3. /\ sc2.diff = sc.diff /\ sc2.gfile = sc.gfile /\ sc2.seq = sc.seq /\ sc2.pred = sc.pred
      /\ sc2.nulls = sc.nulls /\ sc2.incl = sc.incl /\ sc2.excl = sc.excl
  BY Zenon, <1>1 DEF SamePlan
<1>4. Planned(sc2, tab, W, lists)
  <2>1. Planned(sc, tab, W, lists)
    BY Zenon DEF ScanAt
  <2> QED
    BY Zenon, <1>3, <2>1 DEF Planned
<1>5. Job(lines, sc2.seq, Len(tab), W, script, sc2.diff, at) /\ sc2.gfile = Patch(Version(lines, W), script)
  BY Zenon, <1>3 DEF ScanAt
<1>6. Progress(lines, sc2.seq, Len(tab), W, script, sc2.diff, at, j, e, sc2.ss, sc2.ds, sc2.out)
  BY Zenon, <1>2, <1>3
<1>7. Counting(sc2.inserted, sc2.deleted, sc2.unchanged, MadeSoFar(lines, W, script, j, e), SoFar(lines, W, j))
  BY Zenon, <1>2
<1> QED
  BY Zenon, <1>1, <1>2, <1>4, <1>5, <1>6, <1>7 DEF ScanAt

\* What every step starts from.
LEMMA ScanAtIs ==
  ASSUME NEW sc, NEW tab, NEW lines, NEW lists, NEW W, NEW script, NEW at, NEW i, NEW c,
         ScanAt(sc, tab, lines, lists, W, script, at, i, c)
  PROVE  /\ Recorded(sc) /\ Job(lines, sc.seq, Len(tab), W, script, sc.diff, at)
         /\ Progress(lines, sc.seq, Len(tab), W, script, sc.diff, at, i, c, sc.ss, sc.ds, sc.out)
         /\ Counting(sc.inserted, sc.deleted, sc.unchanged, MadeSoFar(lines, W, script, i, c),
                     SoFar(lines, W, i))
         /\ i \in 0..Len(lines) /\ i \in Nat /\ Len(lines) \in Nat /\ sc.pos = i + 1 /\ sc.pos \in Nat
         /\ sc.pos > Len(lines) <=> i = Len(lines)
<1>1. /\ Recorded(sc) /\ Job(lines, sc.seq, Len(tab), W, script, sc.diff, at)
      /\ Progress(lines, sc.seq, Len(tab), W, script, sc.diff, at, i, c, sc.ss, sc.ds, sc.out)
      /\ Counting(sc.inserted, sc.deleted, sc.unchanged, MadeSoFar(lines, W, script, i, c),
                  SoFar(lines, W, i))
      /\ sc.pos = i + 1
  BY Zenon DEF ScanAt
<1>2. i \in 0..Len(lines)
  BY Zenon, <1>1 DEF Progress
<1>3. Len(lines) \in Nat
  BY Zenon, <1>1, JobIs
<1>4. i \in Nat /\ sc.pos \in Nat /\ (sc.pos > Len(lines) <=> i = Len(lines))
  BY <1>1, <1>2, <1>3
<1> QED
  BY Zenon, <1>1, <1>2, <1>3, <1>4

\* ScanControl.
LEMMA NextControl ==
  ASSUME NEW sc, NEW tab, NEW lines, NEW lists, NEW W, NEW script, NEW at, NEW i, NEW c,
         ScanAt(sc, tab, lines, lists, W, script, at, i, c), i < Len(lines),
         NEW k, k = i + 1, NEW x, x = lines[k], IsControl(x), NEW sc2,
         sc2 = [sc EXCEPT !.ss = Follow(@, x), !.pos = @ + 1, !.out = Append(@, x)]
  PROVE  /\ ScanAt(sc2, tab, lines, lists, W, script, at, k, c)
         /\ \A h \in Nat : Len(tab) <= h => BracketOK(sc.ss, x, h)
<1>1. /\ Recorded(sc) /\ Job(lines, sc.seq, Len(tab), W, script, sc.diff, at)
      /\ Progress(lines, sc.seq, Len(tab), W, script, sc.diff, at, i, c, sc.ss, sc.ds, sc.out)
      /\ Counting(sc.inserted, sc.deleted, sc.unchanged, MadeSoFar(lines, W, script, i, c),
                  SoFar(lines, W, i))
      /\ sc.pos = i + 1
  BY Zenon, ScanAtIs
<1>2. PICK ss, out : ss = Follow(sc.ss, x) /\ out = Append(sc.out, x)
  OBVIOUS
<1>3. /\ Progress(lines, sc.seq, Len(tab), W, script, sc.diff, at, k, c, Follow(sc.ss, x), sc.ds, Append(sc.out, x))
      /\ SoFar(lines, W, k) = SoFar(lines, W, i)
      /\ \A h \in Nat : Len(tab) <= h => BracketOK(sc.ss, x, h)
  BY <1>1, StepControl
<1>4. Progress(lines, sc.seq, Len(tab), W, script, sc.diff, at, k, c, ss, sc.ds, out)
  BY Zenon, <1>2, <1>3
<1>5. Moved(sc2, sc, sc.pos + 1, ss, sc.ds, out, sc.inserted, sc.deleted, sc.unchanged)
  <2>1. sc2 = [sc EXCEPT !.ss = ss, !.pos = @ + 1, !.out = out]
    BY <1>2
  <2> QED
    BY Zenon, <1>1, <2>1, MovedControl
<1>6. Counting(sc.inserted, sc.deleted, sc.unchanged, MadeSoFar(lines, W, script, k, c), SoFar(lines, W, k))
  BY Zenon, <1>1, <1>3 DEF MadeSoFar
<1>7. PICK pos : pos = sc.pos + 1
  OBVIOUS
<1>8. pos = k + 1
  BY Zenon, <1>1, <1>7
<1>9. Moved(sc2, sc, pos, ss, sc.ds, out, sc.inserted, sc.deleted, sc.unchanged)
  BY Zenon, <1>5, <1>7
<1>10. ScanAt(sc2, tab, lines, lists, W, script, at, k, c)
  BY <1>4, <1>6, <1>8, <1>9, ScanMoves
<1> QED
  BY Zenon, <1>3, <1>10

\* ScanOtherText.
LEMMA NextOther ==
  ASSUME NEW sc, NEW tab, NEW lines, NEW lists, NEW W, NEW script, NEW at, NEW i, NEW c,
         ScanAt(sc, tab, lines, lists, W, script, at, i, c), i < Len(lines),
         NEW k, k = i + 1, NEW x, x = lines[k], ~IsControl(x), ~IncludeLine(sc.ss), NEW sc2,
         sc2 = [sc EXCEPT !.pos = @ + 1, !.out = Append(@, x)]
  PROVE  ScanAt(sc2, tab, lines, lists, W, script, at, k, c)
<1>1. /\ Recorded(sc) /\ Job(lines, sc.seq, Len(tab), W, script, sc.diff, at)
      /\ Progress(lines, sc.seq, Len(tab), W, script, sc.diff, at, i, c, sc.ss, sc.ds, sc.out)
      /\ Counting(sc.inserted, sc.deleted, sc.unchanged, MadeSoFar(lines, W, script, i, c),
                  SoFar(lines, W, i))
      /\ sc.pos = i + 1
  BY Zenon, ScanAtIs
<1>2. PICK out : out = Append(sc.out, x)
  OBVIOUS
<1>3. ~Belongs(lines, k, W) /\ Reading(sc.ss, Len(tab), W, lines, k)
  BY <1>1, TextHere
<1>4. /\ Progress(lines, sc.seq, Len(tab), W, script, sc.diff, at, k, c, sc.ss, sc.ds, Append(sc.out, lines[k]))
      /\ SoFar(lines, W, k) = SoFar(lines, W, i)
  BY <1>1, <1>3, CopyOther
<1>5. Progress(lines, sc.seq, Len(tab), W, script, sc.diff, at, k, c, sc.ss, sc.ds, out)
  BY Zenon, <1>2, <1>4
<1>6. Moved(sc2, sc, sc.pos + 1, sc.ss, sc.ds, out, sc.inserted, sc.deleted, sc.unchanged)
  <2>1. sc2 = [sc EXCEPT !.pos = @ + 1, !.out = out]
    BY <1>2
  <2> QED
    BY Zenon, <1>1, <2>1, MovedOther
<1>7. Counting(sc.inserted, sc.deleted, sc.unchanged, MadeSoFar(lines, W, script, k, c), SoFar(lines, W, k))
  BY Zenon, <1>1, <1>4 DEF MadeSoFar
<1>8. PICK pos : pos = sc.pos + 1
  OBVIOUS
<1>9. pos = k + 1
  BY Zenon, <1>1, <1>8
<1>10. Moved(sc2, sc, pos, sc.ss, sc.ds, out, sc.inserted, sc.deleted, sc.unchanged)
  BY Zenon, <1>6, <1>8
<1> QED
  BY <1>5, <1>7, <1>9, <1>10, ScanMoves

\* The scanner asks the reader.
Asks(sc, lines) ==
  sc.pos > Len(lines) \/ (~IsControl(lines[sc.pos]) /\ IncludeLine(sc.ss))

LEMMA AskingHere ==
  ASSUME NEW sc, NEW tab, NEW lines, NEW lists, NEW W, NEW script, NEW at, NEW i, NEW c,
         ScanAt(sc, tab, lines, lists, W, script, at, i, c), Asks(sc, lines),
         NEW q, q = SoFar(lines, W, i), NEW p, p = Process(sc.ds, sc.diff),
         NEW new, new = sc.out \o Brackets(p.control, sc.seq)
  PROVE  Deciding(lines, sc.seq, Len(tab), W, script, sc.diff, at, i, c, q, sc.ss, p, new)
<1>1. /\ Recorded(sc) /\ Job(lines, sc.seq, Len(tab), W, script, sc.diff, at)
      /\ Progress(lines, sc.seq, Len(tab), W, script, sc.diff, at, i, c, sc.ss, sc.ds, sc.out)
      /\ i \in 0..Len(lines) /\ i \in Nat /\ Len(lines) \in Nat /\ sc.pos = i + 1
      /\ sc.pos > Len(lines) <=> i = Len(lines)
  BY Zenon, ScanAtIs
<1>2. i = Len(lines) \/ Belongs(lines, i + 1, W)
  <2>1. SUFFICES ASSUME i # Len(lines) PROVE Belongs(lines, i + 1, W)
    OBVIOUS
  <2>2. ~IsControl(lines[i + 1]) /\ IncludeLine(sc.ss)
    BY Zenon, <1>1, <2>1 DEF Asks
  <2>3. i < Len(lines)
    BY <1>1, <2>1
  <2>4. PICK k : k = i + 1
    OBVIOUS
  <2>5. ~IsControl(lines[k])
    BY Zenon, <2>2, <2>4
  <2>6. IncludeLine(sc.ss) <=> Belongs(lines, k, W)
    BY <1>1, <2>3, <2>4, <2>5, TextHere
  <2> QED
    BY Zenon, <2>2, <2>4, <2>6
<1> QED
  BY <1>1, <1>2, DecidingHere

LEMMA DecidingIs ==
  ASSUME NEW lines, NEW n, NEW L, NEW W, NEW script, NEW diff, NEW at, Job(lines, n, L, W, script, diff, at),
         NEW i, NEW c, NEW q, NEW ss, NEW p, NEW new,
         Deciding(lines, n, L, W, script, diff, at, i, c, q, ss, p, new),
         NEW old, old = Version(lines, W)
  PROVE  /\ old \in LineTexts /\ ScriptFor(script, Len(old)) /\ q \in 0..Len(old) /\ q = SoFar(lines, W, i)
         /\ c \in Nat /\ c \in 0..Len(script.ins[q + 1])
         /\ Len(Made(old, script, q, c)) \in Nat /\ Made(old, script, q, c) \in LineTexts
         /\ p.ok
<1>1. old \in LineTexts /\ ScriptFor(script, Len(old))
  BY Zenon, JobIs
<1>2. q \in 0..Len(old) /\ c \in Nat /\ c \in 0..Len(script.ins[q + 1]) /\ q = SoFar(lines, W, i) /\ p.ok
  BY Zenon DEF Deciding
<1>3. Made(old, script, q, c) \in LineTexts
  BY Zenon, <1>1, <1>2, MadeTyped
<1>4. Len(Made(old, script, q, c)) \in Nat
  BY <1>3 DEF LineTexts
<1> QED
  BY Zenon, <1>1, <1>2, <1>3, <1>4

\* ScanInsert.
LEMMA NextInsert ==
  ASSUME NEW sc, NEW tab, NEW lines, NEW lists, NEW W, NEW script, NEW at, NEW i, NEW c,
         ScanAt(sc, tab, lines, lists, W, script, at, i, c), Asks(sc, lines),
         NEW p, p = Process(sc.ds, sc.diff), NEW new, new = sc.out \o Brackets(p.control, sc.seq),
         p.state = "INSERT", NEW sc2,
         sc2 = [sc EXCEPT !.ds = p, !.inserted = @ + 1, !.out = Append(new, Text(InsertLine(p, sc.diff)))]
  PROVE  ScanAt(sc2, tab, lines, lists, W, script, at, i, c + 1)
<1>1. /\ Recorded(sc) /\ Job(lines, sc.seq, Len(tab), W, script, sc.diff, at)
      /\ Counting(sc.inserted, sc.deleted, sc.unchanged, MadeSoFar(lines, W, script, i, c),
                  SoFar(lines, W, i))
      /\ sc.pos = i + 1
  BY Zenon, ScanAtIs
<1>2. PICK q : q = SoFar(lines, W, i)
  OBVIOUS
<1>3. Deciding(lines, sc.seq, Len(tab), W, script, sc.diff, at, i, c, q, sc.ss, p, new)
  BY <1>2, AskingHere
<1>4. PICK t, old : t = InsertLine(p, sc.diff) /\ old = Version(lines, W)
  OBVIOUS
<1>5. PICK out : out = Append(new, Text(t))
  OBVIOUS
<1>6. /\ Progress(lines, sc.seq, Len(tab), W, script, sc.diff, at, i, c + 1, sc.ss, p, Append(new, Text(t)))
      /\ c + 1 \in 0..Len(script.ins[q + 1])
  BY <1>1, <1>3, <1>4, StepInsert
<1>7. Progress(lines, sc.seq, Len(tab), W, script, sc.diff, at, i, c + 1, sc.ss, p, out)
  BY Zenon, <1>5, <1>6
<1>8. Moved(sc2, sc, sc.pos, sc.ss, p, out, sc.inserted + 1, sc.deleted, sc.unchanged)
  <2>1. sc2 = [sc EXCEPT !.ds = p, !.inserted = @ + 1, !.out = out]
    BY <1>4, <1>5
  <2> QED
    BY Zenon, <1>1, <2>1, MovedInsert
<1>9. /\ old \in LineTexts /\ ScriptFor(script, Len(old)) /\ q \in 0..Len(old)
      /\ c \in Nat /\ c \in 0..Len(script.ins[q + 1])
  BY <1>1, <1>3, <1>4, DecidingIs
<1>10. MadeSoFar(lines, W, script, i, c + 1) = MadeSoFar(lines, W, script, i, c) + 1
  <2>1. /\ Len(Patched(old, script)[q]) \in Nat
        /\ Len(Made(old, script, q, c)) = Len(Patched(old, script)[q]) + c
        /\ Len(Made(old, script, q, c + 1)) = Len(Patched(old, script)[q]) + (c + 1)
    <3>1. Patched(old, script)[q] \in LineTexts
      BY Zenon, <1>9, MadeTyped
    <3>2. Len(Patched(old, script)[q]) \in Nat
      BY <3>1 DEF LineTexts
    <3>3. Len(Made(old, script, q, c)) = Len(Patched(old, script)[q]) + c
      BY Zenon, <1>9, MadeTyped
    <3>4. Len(Made(old, script, q, c + 1)) = Len(Patched(old, script)[q]) + (c + 1)
      BY Zenon, <1>6, <1>9, MadeTyped
    <3> QED
      BY Zenon, <3>2, <3>3, <3>4
  <2>2. /\ MadeSoFar(lines, W, script, i, c) = Len(Made(old, script, q, c))
        /\ MadeSoFar(lines, W, script, i, c + 1) = Len(Made(old, script, q, c + 1))
    BY Zenon, <1>2, <1>4 DEF MadeSoFar
  <2> QED
    BY <1>9, <2>1, <2>2
<1>11. Counting(sc.inserted + 1, sc.deleted, sc.unchanged, MadeSoFar(lines, W, script, i, c + 1), SoFar(lines, W, i))
  BY <1>1, <1>10 DEF Counting
<1> QED
  BY <1>1, <1>7, <1>8, <1>11, ScanMoves

OldScanned(sc, p, new, x) ==
  [CountOld(sc, p.state = "DELETE") EXCEPT !.ds = p, !.pos = @ + 1, !.out = Append(new, x)]

\* ScanOldText.
LEMMA NextOld ==
  ASSUME NEW sc, NEW tab, NEW lines, NEW lists, NEW W, NEW script, NEW at, NEW i, NEW c,
         ScanAt(sc, tab, lines, lists, W, script, at, i, c), Asks(sc, lines), i # Len(lines),
         NEW p, p = Process(sc.ds, sc.diff), NEW new, new = sc.out \o Brackets(p.control, sc.seq),
         p.state # "INSERT", NEW k, k = i + 1, NEW x, x = lines[k], NEW sc2,
         sc2 = OldScanned(sc, p, new, x)
  PROVE  ScanAt(sc2, tab, lines, lists, W, script, at, k, 0)
<1>1. /\ Recorded(sc) /\ Job(lines, sc.seq, Len(tab), W, script, sc.diff, at)
      /\ Counting(sc.inserted, sc.deleted, sc.unchanged, MadeSoFar(lines, W, script, i, c),
                  SoFar(lines, W, i))
      /\ sc.pos = i + 1
  BY Zenon, ScanAtIs
<1>2. PICK q : q = SoFar(lines, W, i)
  OBVIOUS
<1>3. Deciding(lines, sc.seq, Len(tab), W, script, sc.diff, at, i, c, q, sc.ss, p, new)
  BY <1>2, AskingHere
<1>4. PICK old, del : old = Version(lines, W) /\ del = (p.state = "DELETE")
  OBVIOUS
<1>5. PICK out, pos : out = Append(new, x) /\ pos = sc.pos + 1
  OBVIOUS
<1>6. /\ Progress(lines, sc.seq, Len(tab), W, script, sc.diff, at, k, 0, sc.ss, p, Append(new, lines[k]))
      /\ SoFar(lines, W, k) = q + 1
      /\ p.state = "DELETE" => Made(old, script, q + 1, 0) = Made(old, script, q, c)
      /\ p.state # "DELETE" =>
           Made(old, script, q + 1, 0) = Append(Made(old, script, q, c), lines[k].text)
  BY <1>1, <1>3, <1>4, StepOld
<1>7. Progress(lines, sc.seq, Len(tab), W, script, sc.diff, at, k, 0, sc.ss, p, out)
  BY Zenon, <1>5, <1>6
<1>8. PICK d, u : /\ d = (IF p.state = "DELETE" THEN sc.deleted + 1 ELSE sc.deleted)
                  /\ u = (IF p.state = "DELETE" THEN sc.unchanged ELSE sc.unchanged + 1)
  OBVIOUS
<1>9. Moved(sc2, sc, pos, sc.ss, p, out, sc.inserted, d, u)
  <2>1. PICK b \in BOOLEAN : b = (p.state = "DELETE")
    OBVIOUS
  <2>2. sc2 = [CountOld(sc, b) EXCEPT !.ds = p, !.pos = @ + 1, !.out = out]
    BY Zenon, <1>5, <2>1 DEF OldScanned
  <2>3. Moved(sc2, sc, sc.pos + 1, sc.ss, p, out, sc.inserted,
               IF b THEN sc.deleted + 1 ELSE sc.deleted,
               IF b THEN sc.unchanged ELSE sc.unchanged + 1)
    BY Zenon, <1>1, <2>2, MovedOld
  <2> QED
    BY Zenon, <1>5, <1>8, <2>1, <2>3
<1>10. pos = k + 1
  BY Zenon, <1>1, <1>5
<1>11. /\ Made(old, script, q, c) \in LineTexts /\ Len(Made(old, script, q, c)) \in Nat /\ q \in Nat
  <2>1. /\ Made(old, script, q, c) \in LineTexts /\ Len(Made(old, script, q, c)) \in Nat
        /\ old \in LineTexts /\ q \in 0..Len(old)
    BY <1>1, <1>3, <1>4, DecidingIs
  <2> QED
    BY <2>1
<1>12. /\ MadeSoFar(lines, W, script, i, c) = Len(Made(old, script, q, c))
       /\ MadeSoFar(lines, W, script, k, 0) = Len(Made(old, script, q + 1, 0))
  BY Zenon, <1>2, <1>4, <1>6 DEF MadeSoFar
<1>13. Counting(sc.inserted, d, u, MadeSoFar(lines, W, script, k, 0), SoFar(lines, W, k))
  <2>1. CASE p.state = "DELETE"
    <3>1. MadeSoFar(lines, W, script, k, 0) = MadeSoFar(lines, W, script, i, c)
      BY Zenon, <1>6, <1>12, <2>1
    <3>2. d = sc.deleted + 1 /\ u = sc.unchanged
      BY Zenon, <1>8, <2>1
    <3> QED
      BY <1>1, <1>2, <1>6, <1>11, <3>1, <3>2 DEF Counting
  <2>2. CASE p.state # "DELETE"
    <3>1. Made(old, script, q + 1, 0) = Append(Made(old, script, q, c), lines[k].text)
      BY Zenon, <1>6, <2>2
    <3>2. Len(Append(Made(old, script, q, c), lines[k].text)) = Len(Made(old, script, q, c)) + 1
      BY <1>11 DEF LineTexts
    <3>3. MadeSoFar(lines, W, script, k, 0) = MadeSoFar(lines, W, script, i, c) + 1
      BY Zenon, <1>12, <3>1, <3>2
    <3>4. d = sc.deleted /\ u = sc.unchanged + 1
      BY Zenon, <1>8, <2>2
    <3>5. SoFar(lines, W, k) = SoFar(lines, W, i) + 1
      BY Zenon, <1>2, <1>6
    <3>6. SoFar(lines, W, i) \in Nat /\ MadeSoFar(lines, W, script, i, c) \in Nat
      BY Zenon, <1>2, <1>11, <1>12
    <3>7. \A a, b, e, m, o : Counting(a, b, e, m, o) /\ m \in Nat /\ o \in Nat =>
            Counting(a, b, e + 1, m + 1, o + 1)
      BY DEF Counting
    <3> QED
      BY Zenon, <1>1, <3>3, <3>4, <3>5, <3>6, <3>7
  <2> QED
    BY Zenon, <2>1, <2>2
<1> QED
  BY <1>7, <1>9, <1>10, <1>13, ScanMoves

-----------------------------------------------------------------------------
(* The parts of the inductive invariant.                                   *)

TableOK(tab, texts) ==
  /\ Sound(tab) /\ Len(tab) \in 1..MaxDeltas
  /\ texts \in Seq(LineTexts) /\ Len(texts) = Len(tab)

\* Delta s is there whenever delta t is: t depends on it.
Below(tab, s, t) == \A S \in SUBSET Nat : Closed(tab, S) /\ t \in S => s \in S

\* The body has brackets of current deltas only, all of them closed at its end; a bracket
\* stands within the insertion of a delta only if its own delta depends on that one.
BodyOK(lines, tab) ==
  /\ lines \in Seq(Line) /\ Woven(lines)
  /\ OpenI(lines, Len(lines)) = {} /\ OpenD(lines, Len(lines)) = {}
  /\ Owners(lines) \subseteq Current(tab)
  /\ \A s, t : Encloses(lines, s, t) => Below(tab, s, t)
  /\ 1 \in Current(tab) => lines # <<>> /\ lines[1] = Control("I", 1)

\* get redoes what the check-ins saw: the lists were disciplined, or there are none.
Steady(tab, lists) ==
  lists \in {"none", "disciplined"} \/ \A s \in 1..Len(tab) : tab[s].incl = {} /\ tab[s].excl = {}

TextsKept(lines, tab, texts) ==
  \A s \in Current(tab) : Version(lines, VersionOf(tab, s)) = texts[s]

\* The counts of the ^As line are right where they have at most five digits: what is
\* inserted and unchanged is the new version, of n lines; what is deleted and unchanged
\* is the old one, of o lines.
NewCount(i, d, u, n) == i + d + u > 0 /\ n <= 99999 => i + u = n
OldCount(i, d, u, o) == i + d + u > 0 /\ o <= 99999 => d + u = o

ListsNothing(d) == d.incl = {} /\ d.excl = {} /\ d.prev # 0
CountsKept(tab, texts) ==
  \A s \in 1..Len(tab) :
    /\ NewCount(tab[s].inserted, tab[s].deleted, tab[s].unchanged, Len(texts[s]))
    /\ ListsNothing(tab[s]) =>
         OldCount(tab[s].inserted, tab[s].deleted, tab[s].unchanged, Len(texts[tab[s].prev]))

-----------------------------------------------------------------------------
(* ScanFinish.                                                             *)

TextsGrown(b, a, p, m, g) ==
  /\ Len(b) = Len(a) + m + 1
  /\ \A s \in 1..Len(a) : b[s] = a[s]
  /\ \A k \in 1..m : b[Len(a) + k] = a[p]
  /\ b[Len(a) + m + 1] = g

LEMMA GrownTexts ==
  ASSUME NEW S, NEW a \in Seq(S), NEW p \in 1..Len(a), NEW m \in Nat, NEW g \in S,
         NEW b, b = a \o [i \in 1..m |-> a[p]] \o <<g>>
  PROVE  b \in Seq(S) /\ TextsGrown(b, a, p, m, g)
<1>1. PICK f : f = [i \in 1..m |-> a[p]]
  OBVIOUS
<1>2. a[p] \in S
  OBVIOUS
<1>3. f \in Seq(S) /\ Len(f) = m /\ \A k \in 1..m : f[k] = a[p]
  BY <1>1, <1>2
<1>4. PICK h : h = a \o f
  OBVIOUS
<1>5. /\ h \in Seq(S) /\ Len(h) = Len(a) + m
      /\ \A s \in 1..Len(a) : h[s] = a[s]
      /\ \A k \in 1..m : h[Len(a) + k] = a[p]
  <2>1. /\ a \o f \in Seq(S) /\ Len(a \o f) = Len(a) + Len(f)
        /\ \A i \in 1..Len(a) : (a \o f)[i] = a[i]
        /\ \A i \in 1..Len(f) : (a \o f)[Len(a) + i] = f[i]
    <3>1. \A t \in Seq(S) :
            /\ a \o t \in Seq(S) /\ Len(a \o t) = Len(a) + Len(t)
            /\ \A i \in 1..Len(a) : (a \o t)[i] = a[i]
            /\ \A i \in 1..Len(t) : (a \o t)[Len(a) + i] = t[i]
      BY Joining
    <3> QED
      BY Zenon, <1>3, <3>1
  <2> QED
    BY Zenon, <1>3, <1>4, <2>1
<1>6. b = Append(h, g)
  BY <1>1, <1>4, <1>5
<1>7. Len(a) \in Nat
  OBVIOUS
<1>8. /\ b \in Seq(S) /\ Len(b) = Len(a) + m + 1
      /\ \A s \in 1..Len(a) : b[s] = a[s]
      /\ \A k \in 1..m : b[Len(a) + k] = a[p]
      /\ b[Len(a) + m + 1] = g
  BY <1>5, <1>6, <1>7
<1> QED
  BY Zenon, <1>8 DEF TextsGrown

\* The end of a check-in.
Finishing(sc, tab, lines, lists, W, script, at, i, c, q, p, new) ==
  /\ ScanAt(sc, tab, lines, lists, W, script, at, i, c) /\ i = Len(lines)
  /\ q = SoFar(lines, W, i)
  /\ Deciding(lines, sc.seq, Len(tab), W, script, sc.diff, at, i, c, q, sc.ss, p, new)
  /\ p.state # "INSERT"

LEMMA FinishIs ==
  ASSUME NEW sc, NEW tab, NEW lines, NEW lists, NEW W, NEW script, NEW at, NEW i, NEW c, NEW q,
         NEW p, NEW new, Finishing(sc, tab, lines, lists, W, script, at, i, c, q, p, new)
  PROVE  /\ Weaving(new, lines, Len(lines), sc.seq, {}, {}, Hosts(lines, W))
         /\ \A V : Adds(lines, sc.seq, W, V) => Version(new, V) = sc.gfile
         /\ sc.gfile \in LineTexts /\ p.pos = Len(sc.diff)
         /\ Counting(sc.inserted, sc.deleted, sc.unchanged, Len(sc.gfile), Len(Version(lines, W)))
         /\ Len(sc.gfile) \in Nat /\ Len(Version(lines, W)) \in Nat
<1>1. /\ ScanAt(sc, tab, lines, lists, W, script, at, i, c) /\ i = Len(lines)
      /\ q = SoFar(lines, W, i)
      /\ Deciding(lines, sc.seq, Len(tab), W, script, sc.diff, at, i, c, q, sc.ss, p, new)
      /\ p.state # "INSERT"
  BY Zenon DEF Finishing
<1>2. /\ Job(lines, sc.seq, Len(tab), W, script, sc.diff, at)
      /\ Counting(sc.inserted, sc.deleted, sc.unchanged, MadeSoFar(lines, W, script, i, c),
                  SoFar(lines, W, i))
  BY Zenon, <1>1, ScanAtIs
<1>3. sc.gfile = Patch(Version(lines, W), script)
  BY Zenon, <1>1 DEF ScanAt
<1>4. PICK old : old = Version(lines, W)
  OBVIOUS
<1>5. /\ p.pos = Len(sc.diff) /\ q = Len(old)
      /\ Weaving(new, lines, i, sc.seq, {}, {}, Hosts(lines, W))
      /\ Made(old, script, q, c) = Patch(old, script)
      /\ \A V : Adds(lines, sc.seq, W, V) => Version(new, V) = Patch(old, script)
  BY <1>1, <1>2, <1>4, StepFinish
<1>6. Made(old, script, q, c) \in LineTexts /\ Len(Made(old, script, q, c)) \in Nat /\ q \in 0..Len(old) /\ old \in LineTexts
  BY <1>1, <1>2, <1>4, DecidingIs
<1>7. Len(old) \in Nat
  BY <1>6 DEF LineTexts
<1>8. sc.gfile = Made(old, script, q, c)
  BY Zenon, <1>3, <1>4, <1>5
<1>9. MadeSoFar(lines, W, script, i, c) = Len(sc.gfile) /\ SoFar(lines, W, i) = Len(Version(lines, W))
  BY Zenon, <1>1, <1>4, <1>5, <1>8 DEF MadeSoFar
<1>10. Counting(sc.inserted, sc.deleted, sc.unchanged, Len(sc.gfile), Len(Version(lines, W)))
  BY Zenon, <1>2, <1>9
<1>11. Weaving(new, lines, Len(lines), sc.seq, {}, {}, Hosts(lines, W))
  BY Zenon, <1>1, <1>5
<1>12. \A V : Adds(lines, sc.seq, W, V) => Version(new, V) = sc.gfile
  BY Zenon, <1>5, <1>8
<1>13. sc.gfile \in LineTexts /\ Len(sc.gfile) \in Nat /\ Len(Version(lines, W)) \in Nat
  BY Zenon, <1>4, <1>6, <1>7, <1>8
<1> QED
  BY Zenon, <1>5, <1>10, <1>11, <1>12, <1>13

\* What the check-in adds to the table.
Added(sc, tab, tab2) == Grown(tab2, tab, sc.pred, sc.nulls, sc.incl, sc.excl)

\* A check-in that ends, and the table it found.
Ready(sc, tab, texts, lines, lists, W) ==
  /\ TableOK(tab, texts) /\ BodyOK(lines, tab) /\ Planned(sc, tab, W, lists)

LEMMA ReadyIs ==
  ASSUME NEW sc, NEW tab, NEW texts, NEW lines, NEW lists, NEW W,
         Ready(sc, tab, texts, lines, lists, W)
  PROVE  /\ Sound(tab) /\ Ordered(tab) /\ Len(tab) \in Nat /\ Len(tab) \in 1..MaxDeltas
         /\ Current(tab) \subseteq 1..Len(tab)
         /\ sc.pred \in Current(tab) /\ sc.pred \in 1..Len(tab) /\ sc.nulls \in Nat
         /\ sc.incl \in SUBSET Current(tab) /\ sc.excl \in SUBSET Current(tab)
         /\ sc.incl \in SUBSET (1..Len(tab)) /\ sc.excl \in SUBSET (1..Len(tab))
         /\ sc.seq = Len(tab) + sc.nulls + 1 /\ sc.seq \in Nat /\ sc.seq <= MaxDeltas
         /\ W = (VersionOf(tab, sc.pred) \cup sc.incl) \ sc.excl
         /\ lines \in Seq(Line) /\ Woven(lines) /\ Owners(lines) \subseteq Current(tab)
         /\ texts \in Seq(LineTexts) /\ Len(texts) = Len(tab)
<1>1. Sound(tab) /\ Len(tab) \in 1..MaxDeltas /\ texts \in Seq(LineTexts) /\ Len(texts) = Len(tab)
  BY Zenon DEF Ready, TableOK
<1>2. Ordered(tab)
  BY Zenon, <1>1 DEF Sound
<1>3. Len(tab) \in Nat /\ Current(tab) \subseteq 1..Len(tab)
  BY Zenon, <1>2, CurrentIs
<1>4. lines \in Seq(Line) /\ Woven(lines) /\ Owners(lines) \subseteq Current(tab)
  BY Zenon DEF Ready, BodyOK
<1>5. /\ sc.nulls \in Nat /\ sc.seq = Len(tab) + sc.nulls + 1 /\ sc.seq \in 1..MaxDeltas
      /\ sc.pred \in Current(tab)
      /\ sc.incl \in SUBSET Current(tab) /\ sc.excl \in SUBSET Current(tab)
      /\ W = (VersionOf(tab, sc.pred) \cup sc.incl) \ sc.excl
  BY Zenon DEF Ready, Planned
<1>6. sc.seq \in Nat /\ sc.seq <= MaxDeltas
  BY <1>5, Constants
<1>7. sc.pred \in 1..Len(tab) /\ sc.incl \in SUBSET (1..Len(tab)) /\ sc.excl \in SUBSET (1..Len(tab))
  BY Zenon, <1>3, <1>5
<1> QED
  BY Zenon, <1>1, <1>2, <1>3, <1>4, <1>5, <1>6, <1>7

\* The new body is as it should be for the new table.
LEMMA FinishBody ==
  ASSUME NEW sc, NEW tab, NEW texts, NEW lines, NEW lists, NEW W,
         Ready(sc, tab, texts, lines, lists, W), lines # <<>>, NEW tab2, Added(sc, tab, tab2),
         NEW new, Weaving(new, lines, Len(lines), sc.seq, {}, {}, Hosts(lines, W))
  PROVE  BodyOK(new, tab2)
<1>1. /\ Sound(tab) /\ Ordered(tab) /\ Len(tab) \in Nat /\ Current(tab) \subseteq 1..Len(tab)
      /\ sc.pred \in Current(tab) /\ sc.pred \in 1..Len(tab) /\ sc.nulls \in Nat
      /\ sc.incl \in SUBSET (1..Len(tab)) /\ sc.excl \in SUBSET (1..Len(tab))
      /\ sc.seq = Len(tab) + sc.nulls + 1
      /\ W = (VersionOf(tab, sc.pred) \cup sc.incl) \ sc.excl
      /\ lines \in Seq(Line) /\ Owners(lines) \subseteq Current(tab)
  BY Zenon, ReadyIs
<1>2. /\ OpenI(lines, Len(lines)) = {} /\ OpenD(lines, Len(lines)) = {}
      /\ \A s, t : Encloses(lines, s, t) => Below(tab, s, t)
      /\ 1 \in Current(tab) => lines[1] = Control("I", 1)
  BY Zenon DEF Ready, BodyOK
<1>3. Grown(tab2, tab, sc.pred, sc.nulls, sc.incl, sc.excl)
  BY Zenon DEF Added
<1>4. /\ Len(tab2) = Len(tab) + sc.nulls + 1
      /\ Current(tab2) = Current(tab) \cup ((Len(tab) + 1)..Len(tab2))
  BY Zenon, <1>1, <1>3, GrownKeeps
<1>5. Len(tab2) = sc.seq /\ sc.seq \in Current(tab2)
  BY <1>1, <1>4
<1>6. /\ new \in Seq(Line) /\ Woven(new)
      /\ OpenI(new, Len(new)) = {} /\ OpenD(new, Len(new)) = {}
  <2>1. /\ new \in Seq(Line) /\ Woven(new)
        /\ OpenI(new, Len(new)) = OpenI(lines, Len(lines)) \cup {}
        /\ OpenD(new, Len(new)) = OpenD(lines, Len(lines)) \cup {}
    BY Zenon DEF Weaving
  <2> QED
    BY Zenon, <1>2, <2>1
<1>7. Owners(new) \subseteq Current(tab2)
  <2>1. Owners(new) \subseteq Owners(lines) \cup {sc.seq}
    BY Zenon DEF Weaving
  <2> QED
    BY Zenon, <1>1, <1>4, <1>5, <2>1
<1>8. ASSUME NEW s, NEW t, Encloses(new, s, t) PROVE Below(tab2, s, t)
  <2>1. SUFFICES ASSUME NEW S \in SUBSET Nat, Closed(tab2, S), t \in S PROVE s \in S
    BY Zenon DEF Below
  <2>2. Closed(tab, S) /\ (Len(tab2) \in S => sc.pred \in S /\ sc.incl \subseteq S)
    BY Zenon, <1>1, <1>3, <2>1, GrownClosed
  <2>3. \A x, y : Encloses(lines, x, y) /\ y \in S => x \in S
    BY Zenon, <1>2, <2>2 DEF Below
  <2>4. Encloses(lines, s, t) \/ (t = sc.seq /\ s \in Hosts(lines, W))
    BY Zenon, <1>8 DEF Weaving
  <2>5. CASE Encloses(lines, s, t)
    BY Zenon, <2>1, <2>3, <2>5
  <2>6. CASE t = sc.seq /\ s \in Hosts(lines, W)
    <3>1. sc.pred \in S /\ sc.incl \subseteq S
      BY Zenon, <1>5, <2>1, <2>2, <2>6
    <3>2. VersionOf(tab, sc.pred) \subseteq S
      <4>1. PICK x : x = sc.pred
        OBVIOUS
      <4>2. x \in 0..Len(tab) /\ x \in S
        BY <1>1, <3>1, <4>1
      <4>3. VersionOf(tab, x) \subseteq S
        BY Zenon, <1>1, <2>1, <2>2, <4>2, VersionWithin
      <4> QED
        BY Zenon, <4>1, <4>3
    <3>3. W \subseteq S
      BY Zenon, <1>1, <3>1, <3>2
    <3>4. s \in W \/ \E w \in W : Encloses(lines, s, w)
      BY Zenon, <2>6 DEF Hosts
    <3> QED
      BY Zenon, <2>3, <3>3, <3>4
  <2> QED
    BY Zenon, <2>4, <2>5, <2>6
<1>9. new # <<>> /\ new[1] = Control("I", 1)
  <2>1. 1 \in Current(tab)
    BY Zenon, <1>1, FirstIsCurrent
  <2>2. Len(lines) >= 1
    BY <1>1
  <2>3. new # <<>> /\ new[1] = lines[1]
    BY Zenon, <2>2 DEF Weaving
  <2> QED
    BY Zenon, <1>2, <2>1, <2>3
<1> QED
  BY Zenon, <1>6, <1>7, <1>8, <1>9 DEF BodyOK

\* The texts after the check-in.
TextsAdded(sc, texts, texts2) ==
  /\ texts2 \in Seq(LineTexts) /\ Len(texts2) = Len(texts) + sc.nulls + 1
  /\ \A s \in 1..Len(texts) : texts2[s] = texts[s]
  /\ \A k \in 1..sc.nulls : texts2[Len(texts) + k] = texts[sc.pred]
  /\ texts2[Len(texts) + sc.nulls + 1] = sc.gfile

\* A delta of the new table: an old one, a null delta or the new one.
LEMMA ThreeKinds ==
  ASSUME NEW a \in Nat, NEW m \in Nat, NEW s \in 1..(a + m + 1)
  PROVE  \/ s \in 1..a
         \/ \E k \in 1..m : s = a + k
         \/ s = a + m + 1
<1>1. SUFFICES ASSUME s \notin 1..a, s # a + m + 1 PROVE \E k \in 1..m : s = a + k
  OBVIOUS
<1>2. s - a \in 1..m /\ s = a + (s - a)
  BY <1>1
<1> QED
  BY Zenon, <1>2

LEMMA FinishTable ==
  ASSUME NEW sc, NEW tab, NEW texts, NEW lines, NEW lists, NEW W,
         Ready(sc, tab, texts, lines, lists, W), NEW tab2, Added(sc, tab, tab2),
         NEW texts2, TextsAdded(sc, texts, texts2)
  PROVE  TableOK(tab2, texts2)
<1>1. /\ Sound(tab) /\ Ordered(tab) /\ Len(tab) \in Nat /\ sc.pred \in Current(tab)
      /\ sc.pred \in 1..Len(tab) /\ sc.nulls \in Nat
      /\ sc.incl \in SUBSET Current(tab) /\ sc.excl \in SUBSET Current(tab)
      /\ sc.incl \in SUBSET (1..Len(tab)) /\ sc.excl \in SUBSET (1..Len(tab))
      /\ sc.seq = Len(tab) + sc.nulls + 1 /\ sc.seq \in Nat /\ sc.seq <= MaxDeltas
  BY Zenon, ReadyIs
<1>0. Len(texts) = Len(tab)
  BY Zenon, ReadyIs
<1>2. Grown(tab2, tab, sc.pred, sc.nulls, sc.incl, sc.excl)
  BY Zenon DEF Added
<1>3. Sound(tab2)
  BY Zenon, <1>1, <1>2, GrownSound
<1>4. Len(tab2) = Len(tab) + sc.nulls + 1
  BY Zenon, <1>1, <1>2, GrownKeeps
<1>5. Len(tab2) \in 1..MaxDeltas
  BY <1>1, <1>4, Constants
<1>6. texts2 \in Seq(LineTexts) /\ Len(texts2) = Len(tab2)
  BY Zenon, <1>0, <1>1, <1>4 DEF TextsAdded
<1> QED
  BY Zenon, <1>3, <1>5, <1>6 DEF TableOK

LEMMA FinishTexts ==
  ASSUME NEW sc, NEW tab, NEW texts, NEW lines, NEW lists, NEW W,
         Ready(sc, tab, texts, lines, lists, W), NEW tab2, Added(sc, tab, tab2),
         NEW new, Weaving(new, lines, Len(lines), sc.seq, {}, {}, Hosts(lines, W)),
         \A V : Adds(lines, sc.seq, W, V) => Version(new, V) = sc.gfile,
         NEW texts2, TextsAdded(sc, texts, texts2),
         TextsKept(lines, tab, texts), Plainly(tab, sc.pred, sc.incl)
  PROVE  TextsKept(new, tab2, texts2)
<1>1. /\ Ordered(tab) /\ Len(tab) \in Nat /\ Current(tab) \subseteq 1..Len(tab)
      /\ sc.pred \in Current(tab) /\ sc.pred \in 1..Len(tab) /\ sc.nulls \in Nat
      /\ sc.incl \in SUBSET (1..Len(tab)) /\ sc.excl \in SUBSET (1..Len(tab))
      /\ sc.seq = Len(tab) + sc.nulls + 1
      /\ lines \in Seq(Line) /\ Woven(lines) /\ Owners(lines) \subseteq Current(tab)
  BY Zenon, ReadyIs
<1>w. W = (VersionOf(tab, sc.pred) \cup sc.incl) \ sc.excl
  BY Zenon, ReadyIs
<1>0. Len(texts) = Len(tab)
  BY Zenon, ReadyIs
<1>2. Grown(tab2, tab, sc.pred, sc.nulls, sc.incl, sc.excl)
  BY Zenon DEF Added
<1>3. /\ Len(tab2) = Len(tab) + sc.nulls + 1
      /\ \A s \in 0..Len(tab) : VersionOf(tab2, s) = VersionOf(tab, s)
      /\ Current(tab2) = Current(tab) \cup ((Len(tab) + 1)..Len(tab2))
  BY Zenon, <1>1, <1>2, GrownKeeps
<1>4. /\ \A k \in 1..sc.nulls :
           VersionOf(tab2, Len(tab) + k) =
             VersionOf(tab, sc.pred) \cup ((Len(tab) + 1)..(Len(tab) + k))
      /\ VersionOf(tab2, Len(tab2)) =
           ((VersionOf(tab, sc.pred) \cup sc.incl) \ sc.excl) \cup ((Len(tab) + 1)..Len(tab2))
  <2>1. PICK p, m, I, X : p = sc.pred /\ m = sc.nulls /\ I = sc.incl /\ X = sc.excl
    OBVIOUS
  <2>2. /\ p \in 1..Len(tab) /\ m \in Nat /\ I \in SUBSET (1..Len(tab)) /\ X \in SUBSET (1..Len(tab))
        /\ Grown(tab2, tab, p, m, I, X) /\ Plainly(tab, p, I)
    BY Zenon, <1>1, <1>2, <2>1
  <2>3. /\ \A k \in 1..m :
             VersionOf(tab2, Len(tab) + k) =
               VersionOf(tab, p) \cup ((Len(tab) + 1)..(Len(tab) + k))
        /\ VersionOf(tab2, Len(tab2)) =
             ((VersionOf(tab, p) \cup I) \ X) \cup ((Len(tab) + 1)..Len(tab2))
    <3>1. Ordered(tab)
      BY Zenon, <1>1
    <3>2. VersionsAdded(tab2, tab, p, m, I, X)
      BY Zenon, <2>2, <3>1, GrownVersions
    <3> QED
      BY Zenon, <3>2 DEF VersionsAdded
  <2> QED
    BY Zenon, <2>1, <2>3
<1>5. \A U \in SUBSET Nat : sc.seq \notin U => Version(new, U) = Version(lines, U)
  BY Zenon DEF Weaving, Version
<1>6. \A s \in 1..Len(tab) : texts2[s] = texts[s]
  BY Zenon, <1>0, <1>1 DEF TextsAdded
<1>7. \A x \in Owners(lines) : x \in 1..Len(tab)
  BY Zenon, <1>1
<1>8. ASSUME NEW s \in 1..Len(tab), s \in Current(tab2)
      PROVE  Version(new, VersionOf(tab2, s)) = texts2[s]
  <2>1. s \in Current(tab)
    BY <1>1, <1>3, <1>8
  <2>2. s \in 0..Len(tab)
    BY <1>1
  <2>3. VersionOf(tab, s) \subseteq 0..s /\ VersionOf(tab, s) \in SUBSET Nat
    BY Zenon, <1>1, <2>2, VersionTyped
  <2>4. sc.seq \notin 0..s
    BY <1>1
  <2>5. sc.seq \notin VersionOf(tab, s)
    BY Zenon, <2>3, <2>4
  <2>6. Version(new, VersionOf(tab, s)) = Version(lines, VersionOf(tab, s))
    BY Zenon, <1>5, <2>3, <2>5
  <2>7. Version(lines, VersionOf(tab, s)) = texts[s]
    BY Zenon, <2>1 DEF TextsKept
  <2> QED
    BY Zenon, <1>3, <1>6, <2>2, <2>6, <2>7
<1>9. ASSUME NEW k \in 1..sc.nulls
      PROVE  Version(new, VersionOf(tab2, Len(tab) + k)) = texts2[Len(tab) + k]
  <2>1. PICK U, V : /\ U = VersionOf(tab, sc.pred)
                    /\ V = U \cup ((Len(tab) + 1)..(Len(tab) + k))
    OBVIOUS
  <2>2. VersionOf(tab2, Len(tab) + k) = V
    BY Zenon, <1>4, <2>1
  <2>3. sc.pred \in 0..Len(tab)
    BY <1>1
  <2>4. U \subseteq 0..sc.pred /\ U \in SUBSET Nat
    BY Zenon, <1>1, <2>1, <2>3, VersionTyped
  <2>5. V \in SUBSET Nat /\ sc.seq \notin V
    <3>1. (Len(tab) + 1)..(Len(tab) + k) \subseteq Nat /\ sc.seq \notin (Len(tab) + 1)..(Len(tab) + k)
      BY <1>1
    <3>2. sc.seq \notin 0..sc.pred
      BY <1>1
    <3> QED
      BY Zenon, <2>1, <2>4, <3>1, <3>2
  <2>6. \A x \in Owners(lines) : x \in U <=> x \in V
    <3>1. \A x \in 1..Len(tab) : x \notin (Len(tab) + 1)..(Len(tab) + k)
      BY <1>1
    <3> QED
      BY Zenon, <1>7, <2>1, <3>1
  <2>7. Version(lines, U) = Version(lines, V)
    BY ZenonT(40), <1>1, <2>6, SameOwners
  <2>8. Version(new, V) = Version(lines, V)
    BY Zenon, <1>5, <2>5
  <2>9. Version(lines, U) = texts[sc.pred]
    BY Zenon, <1>1, <2>1 DEF TextsKept
  <2>10. texts2[Len(tab) + k] = texts[sc.pred]
    BY Zenon, <1>0, <1>1 DEF TextsAdded
  <2> QED
    BY Zenon, <2>2, <2>7, <2>8, <2>9, <2>10
<1>10. Version(new, VersionOf(tab2, sc.seq)) = texts2[sc.seq]
  <2>1. PICK V : V = W \cup ((Len(tab) + 1)..sc.seq)
    OBVIOUS
  <2>2. VersionOf(tab2, sc.seq) = V
    BY Zenon, <1>w, <1>1, <1>3, <1>4, <2>1
  <2>3. Adds(lines, sc.seq, W, V)
    <3>1. sc.seq \in (Len(tab) + 1)..sc.seq
      BY <1>1
    <3>2. \A x \in 1..Len(tab) : x \notin (Len(tab) + 1)..sc.seq
      BY <1>1
    <3> QED
      BY Zenon, <1>7, <2>1, <3>1, <3>2 DEF Adds
  <2>4. texts2[sc.seq] = sc.gfile
    BY Zenon, <1>0, <1>1 DEF TextsAdded
  <2> QED
    BY Zenon, <2>2, <2>3, <2>4
<1>11. ASSUME NEW s \in Current(tab2) PROVE Version(new, VersionOf(tab2, s)) = texts2[s]
  <2>1. s \in 1..(Len(tab) + sc.nulls + 1)
    BY <1>1, <1>3
  <2>2. \/ s \in 1..Len(tab)
        \/ \E k \in 1..sc.nulls : s = Len(tab) + k
        \/ s = Len(tab) + sc.nulls + 1
    BY <1>1, <2>1, ThreeKinds
  <2> QED
    BY Zenon, <1>1, <1>8, <1>9, <1>10, <2>2
<1> QED
  BY Zenon, <1>11 DEF TextsKept

\* A count written with five digits is the count, if it has no more.
LEMMA CapNewCount ==
  ASSUME NEW i \in Nat, NEW d \in Nat, NEW u \in Nat, NEW n \in Nat, NewCount(i, d, u, n)
  PROVE  NewCount(Cap5(i), Cap5(d), Cap5(u), n)
BY DEF NewCount, Cap5

LEMMA CapOldCount ==
  ASSUME NEW i \in Nat, NEW d \in Nat, NEW u \in Nat, NEW o \in Nat, OldCount(i, d, u, o)
  PROVE  OldCount(Cap5(i), Cap5(d), Cap5(u), o)
BY DEF OldCount, Cap5

LEMMA CountingCounts ==
  ASSUME NEW i, NEW d, NEW u, NEW n \in Nat, NEW o \in Nat, Counting(i, d, u, n, o)
  PROVE  /\ i \in Nat /\ d \in Nat /\ u \in Nat
         /\ NewCount(i, d, u, n) /\ OldCount(i, d, u, o)
BY DEF Counting, NewCount, OldCount

\* Nothing was counted for a null delta.
LEMMA NoCount ==
  ASSUME NEW n
  PROVE  NewCount(0, 0, 0, n) /\ OldCount(0, 0, 0, n)
BY DEF NewCount, OldCount

\* The counts in the new table.
CountsAdded(sc, tab, tab2) ==
  /\ \A s \in 1..Len(tab) : /\ tab2[s].inserted = Cap5(tab[s].inserted)
                            /\ tab2[s].deleted = Cap5(tab[s].deleted)
                            /\ tab2[s].unchanged = Cap5(tab[s].unchanged)
  /\ \A k \in 1..sc.nulls : /\ tab2[Len(tab) + k].inserted = 0
                            /\ tab2[Len(tab) + k].deleted = 0
                            /\ tab2[Len(tab) + k].unchanged = 0
  /\ tab2[Len(tab) + sc.nulls + 1].inserted = Cap5(sc.inserted)
  /\ tab2[Len(tab) + sc.nulls + 1].deleted = Cap5(sc.deleted)
  /\ tab2[Len(tab) + sc.nulls + 1].unchanged = Cap5(sc.unchanged)

\* One delta whose counts are written.
LEMMA CountWritten ==
  ASSUME NEW a, NEW b, a.inserted \in Nat, a.deleted \in Nat, a.unchanged \in Nat,
         b.inserted = Cap5(a.inserted), b.deleted = Cap5(a.deleted), b.unchanged = Cap5(a.unchanged)
  PROVE  /\ \A n \in Nat : NewCount(a.inserted, a.deleted, a.unchanged, n) =>
                             NewCount(b.inserted, b.deleted, b.unchanged, n)
         /\ \A o \in Nat : OldCount(a.inserted, a.deleted, a.unchanged, o) =>
                             OldCount(b.inserted, b.deleted, b.unchanged, o)
<1>1. ASSUME NEW n \in Nat, NewCount(a.inserted, a.deleted, a.unchanged, n)
      PROVE  NewCount(b.inserted, b.deleted, b.unchanged, n)
  <2>1. NewCount(Cap5(a.inserted), Cap5(a.deleted), Cap5(a.unchanged), n)
    BY <1>1, CapNewCount
  <2> QED
    BY Zenon, <2>1
<1>2. ASSUME NEW o \in Nat, OldCount(a.inserted, a.deleted, a.unchanged, o)
      PROVE  OldCount(b.inserted, b.deleted, b.unchanged, o)
  <2>1. OldCount(Cap5(a.inserted), Cap5(a.deleted), Cap5(a.unchanged), o)
    BY <1>2, CapOldCount
  <2> QED
    BY Zenon, <2>1
<1> QED
  BY Zenon, <1>1, <1>2

LEMMA TextLength ==
  ASSUME NEW texts \in Seq(LineTexts), NEW s \in 1..Len(texts)
  PROVE  Len(texts[s]) \in Nat
<1>1. texts[s] \in LineTexts
  OBVIOUS
<1> QED
  BY <1>1 DEF LineTexts

\* The deltas of a table that is written with what it has.
LEMMA CountsWritten ==
  ASSUME NEW tab, NEW texts, TableOK(tab, texts), CountsKept(tab, texts), NEW tab2, NEW texts2,
         NEW s \in 1..Len(tab),
         tab2[s].inserted = Cap5(tab[s].inserted), tab2[s].deleted = Cap5(tab[s].deleted),
         tab2[s].unchanged = Cap5(tab[s].unchanged),
         tab2[s].prev = tab[s].prev, tab2[s].incl = tab[s].incl, tab2[s].excl = tab[s].excl,
         \A t \in 1..Len(tab) : texts2[t] = texts[t]
  PROVE  /\ NewCount(tab2[s].inserted, tab2[s].deleted, tab2[s].unchanged, Len(texts2[s]))
         /\ ListsNothing(tab2[s]) =>
              OldCount(tab2[s].inserted, tab2[s].deleted, tab2[s].unchanged, Len(texts2[tab2[s].prev]))
<1>1. Sound(tab) /\ Ordered(tab) /\ texts \in Seq(LineTexts) /\ Len(texts) = Len(tab) /\ Len(tab) \in Nat
  BY DEF TableOK, Sound
<1>2. tab[s] \in DeltaEntries /\ tab[s].prev \in 0..(s - 1)
  BY <1>1 DEF Ordered
<1>3. tab[s].inserted \in Nat /\ tab[s].deleted \in Nat /\ tab[s].unchanged \in Nat
  BY <1>2 DEF DeltaEntries
<1>4. PICK a, b : a = tab[s] /\ b = tab2[s]
  OBVIOUS
<1>5. /\ \A n \in Nat : NewCount(a.inserted, a.deleted, a.unchanged, n) =>
                          NewCount(b.inserted, b.deleted, b.unchanged, n)
      /\ \A o \in Nat : OldCount(a.inserted, a.deleted, a.unchanged, o) =>
                          OldCount(b.inserted, b.deleted, b.unchanged, o)
  <2>1. /\ a.inserted \in Nat /\ a.deleted \in Nat /\ a.unchanged \in Nat
        /\ b.inserted = Cap5(a.inserted) /\ b.deleted = Cap5(a.deleted) /\ b.unchanged = Cap5(a.unchanged)
    BY Zenon, <1>3, <1>4
  <2> QED
    BY Zenon, <2>1, CountWritten
<1>6. NewCount(b.inserted, b.deleted, b.unchanged, Len(texts2[s]))
  <2>1. Len(texts[s]) \in Nat
    BY <1>1, TextLength
  <2>2. NewCount(a.inserted, a.deleted, a.unchanged, Len(texts[s]))
    BY Zenon, <1>4 DEF CountsKept
  <2>3. NewCount(b.inserted, b.deleted, b.unchanged, Len(texts[s]))
    BY Zenon, <1>5, <2>1, <2>2
  <2> QED
    BY Zenon, <2>3
<1>7. ASSUME ListsNothing(b)
      PROVE  OldCount(b.inserted, b.deleted, b.unchanged, Len(texts2[b.prev]))
  <2>1. /\ b.prev = a.prev /\ b.incl = a.incl /\ b.excl = a.excl
    BY Zenon, <1>4
  <2>2. ListsNothing(a) /\ a.prev # 0
    BY Zenon, <1>7, <2>1 DEF ListsNothing
  <2>3. a.prev \in 1..Len(tab)
    BY <1>1, <1>2, <1>4, <2>2
  <2>4. Len(texts[a.prev]) \in Nat
    BY <1>1, <2>3, TextLength
  <2>5. OldCount(a.inserted, a.deleted, a.unchanged, Len(texts[a.prev]))
    BY Zenon, <1>4, <2>2 DEF CountsKept
  <2>6. OldCount(b.inserted, b.deleted, b.unchanged, Len(texts[a.prev]))
    BY Zenon, <1>5, <2>4, <2>5
  <2>7. texts2[a.prev] = texts[a.prev]
    BY Zenon, <2>3
  <2>8. texts2[b.prev] = texts[a.prev]
    BY Zenon, <2>1, <2>7
  <2> QED
    BY Zenon, <2>6, <2>8
<1> QED
  BY Zenon, <1>4, <1>6, <1>7

LEMMA FinishCounts ==
  ASSUME NEW sc, NEW tab, NEW texts, NEW lines, NEW lists, NEW W,
         Ready(sc, tab, texts, lines, lists, W), NEW tab2, Added(sc, tab, tab2), CountsAdded(sc, tab, tab2),
         NEW texts2, TextsAdded(sc, texts, texts2), sc.gfile \in LineTexts,
         Len(sc.gfile) \in Nat, Len(Version(lines, W)) \in Nat,
         Counting(sc.inserted, sc.deleted, sc.unchanged, Len(sc.gfile), Len(Version(lines, W))),
         TextsKept(lines, tab, texts), CountsKept(tab, texts)
  PROVE  CountsKept(tab2, texts2)
<1>1. /\ Ordered(tab) /\ Len(tab) \in Nat
      /\ sc.pred \in Current(tab) /\ sc.pred \in 1..Len(tab) /\ sc.nulls \in Nat
      /\ texts \in Seq(LineTexts)
  BY Zenon, ReadyIs
<1>2. Len(texts) = Len(tab) /\ TableOK(tab, texts)
  BY Zenon, ReadyIs DEF Ready
<1>3. W = (VersionOf(tab, sc.pred) \cup sc.incl) \ sc.excl
  BY Zenon, ReadyIs
<1>4. Grown(tab2, tab, sc.pred, sc.nulls, sc.incl, sc.excl)
  BY Zenon DEF Added
<1>5. Len(tab2) = Len(tab) + sc.nulls + 1
  BY Zenon, <1>4 DEF Grown
<1>6. \A t \in 1..Len(tab) : texts2[t] = texts[t]
  BY Zenon, <1>2 DEF TextsAdded
<1>7. ASSUME NEW s \in 1..Len(tab)
      PROVE  /\ NewCount(tab2[s].inserted, tab2[s].deleted, tab2[s].unchanged, Len(texts2[s]))
             /\ ListsNothing(tab2[s]) =>
                  OldCount(tab2[s].inserted, tab2[s].deleted, tab2[s].unchanged, Len(texts2[tab2[s].prev]))
  <2>1. tab2[s].prev = tab[s].prev /\ tab2[s].incl = tab[s].incl /\ tab2[s].excl = tab[s].excl
    BY Zenon, <1>4 DEF Grown
  <2>2. /\ tab2[s].inserted = Cap5(tab[s].inserted) /\ tab2[s].deleted = Cap5(tab[s].deleted)
        /\ tab2[s].unchanged = Cap5(tab[s].unchanged)
    BY Zenon DEF CountsAdded
  <2> QED
    BY <1>2, <1>6, <2>1, <2>2, CountsWritten
<1>8. ASSUME NEW k \in 1..sc.nulls, NEW s, s = Len(tab) + k
      PROVE  /\ NewCount(tab2[s].inserted, tab2[s].deleted, tab2[s].unchanged, Len(texts2[s]))
             /\ ListsNothing(tab2[s]) =>
                  OldCount(tab2[s].inserted, tab2[s].deleted, tab2[s].unchanged, Len(texts2[tab2[s].prev]))
  <2>1. tab2[s].inserted = 0 /\ tab2[s].deleted = 0 /\ tab2[s].unchanged = 0
    BY Zenon, <1>8 DEF CountsAdded
  <2> QED
    BY <2>1 DEF NewCount, OldCount
<1>9. ASSUME NEW s, s = Len(tab) + sc.nulls + 1
      PROVE  /\ NewCount(tab2[s].inserted, tab2[s].deleted, tab2[s].unchanged, Len(texts2[s]))
             /\ ListsNothing(tab2[s]) =>
                  OldCount(tab2[s].inserted, tab2[s].deleted, tab2[s].unchanged, Len(texts2[tab2[s].prev]))
  <2>1. /\ tab2[s].inserted = Cap5(sc.inserted) /\ tab2[s].deleted = Cap5(sc.deleted)
        /\ tab2[s].unchanged = Cap5(sc.unchanged)
    BY Zenon, <1>9 DEF CountsAdded
  <2>2. texts2[s] = sc.gfile
    BY Zenon, <1>2, <1>9 DEF TextsAdded
  <2>3. /\ sc.inserted \in Nat /\ sc.deleted \in Nat /\ sc.unchanged \in Nat
        /\ NewCount(sc.inserted, sc.deleted, sc.unchanged, Len(sc.gfile))
        /\ OldCount(sc.inserted, sc.deleted, sc.unchanged, Len(Version(lines, W)))
    BY CountingCounts
  <2>4. /\ \A n \in Nat : NewCount(sc.inserted, sc.deleted, sc.unchanged, n) =>
                            NewCount(tab2[s].inserted, tab2[s].deleted, tab2[s].unchanged, n)
        /\ \A o \in Nat : OldCount(sc.inserted, sc.deleted, sc.unchanged, o) =>
                            OldCount(tab2[s].inserted, tab2[s].deleted, tab2[s].unchanged, o)
    <3>1. PICK b : b = tab2[s]
      OBVIOUS
    <3>2. b.inserted = Cap5(sc.inserted) /\ b.deleted = Cap5(sc.deleted) /\ b.unchanged = Cap5(sc.unchanged)
      BY Zenon, <2>1, <3>1
    <3>3. /\ \A n \in Nat : NewCount(sc.inserted, sc.deleted, sc.unchanged, n) =>
                              NewCount(b.inserted, b.deleted, b.unchanged, n)
          /\ \A o \in Nat : OldCount(sc.inserted, sc.deleted, sc.unchanged, o) =>
                              OldCount(b.inserted, b.deleted, b.unchanged, o)
      BY <2>3, <3>2, CountWritten
    <3> QED
      BY Zenon, <3>1, <3>3
  <2>5. NewCount(tab2[s].inserted, tab2[s].deleted, tab2[s].unchanged, Len(texts2[s]))
    BY Zenon, <2>2, <2>3, <2>4
  <2>6. ASSUME ListsNothing(tab2[s])
        PROVE  OldCount(tab2[s].inserted, tab2[s].deleted, tab2[s].unchanged, Len(texts2[tab2[s].prev]))
    <3>1. sc.incl = {} /\ sc.excl = {}
      BY Zenon, <1>4, <1>9, <2>6 DEF ListsNothing, Grown
    <3>2. W = VersionOf(tab, sc.pred)
      <4>1. PICK U : U = VersionOf(tab, sc.pred)
        OBVIOUS
      <4>2. (U \cup {}) \ {} = U
        BY Zenon
      <4> QED
        BY Zenon, <1>3, <3>1, <4>1, <4>2
    <3>3. Version(lines, W) = texts[sc.pred]
      BY Zenon, <1>1, <3>2 DEF TextsKept
    <3>4. tab2[s].prev = IF sc.nulls = 0 THEN sc.pred ELSE Len(tab) + sc.nulls
      BY Zenon, <1>4, <1>9 DEF Grown
    <3>5. texts2[tab2[s].prev] = texts[sc.pred]
      <4>1. CASE sc.nulls = 0
        <5>1. tab2[s].prev = sc.pred
          BY <3>4, <4>1
        <5>2. texts2[sc.pred] = texts[sc.pred]
          BY Zenon, <1>1, <1>6
        <5> QED
          BY Zenon, <5>1, <5>2
      <4>2. CASE sc.nulls # 0
        <5>1. sc.nulls \in 1..sc.nulls
          BY <1>1, <4>2
        <5>2. texts2[Len(tab) + sc.nulls] = texts[sc.pred]
          BY Zenon, <1>2, <5>1 DEF TextsAdded
        <5> QED
          BY Zenon, <3>4, <4>2, <5>2
      <4> QED
        BY Zenon, <4>1, <4>2
    <3> QED
      BY Zenon, <2>3, <2>4, <3>3, <3>5
  <2> QED
    BY Zenon, <2>5, <2>6
<1>10. ASSUME NEW s \in 1..Len(tab2)
       PROVE  /\ NewCount(tab2[s].inserted, tab2[s].deleted, tab2[s].unchanged, Len(texts2[s]))
              /\ ListsNothing(tab2[s]) =>
                   OldCount(tab2[s].inserted, tab2[s].deleted, tab2[s].unchanged, Len(texts2[tab2[s].prev]))
  <2>1. s \in 1..(Len(tab) + sc.nulls + 1)
    BY Zenon, <1>5
  <2>2. \/ s \in 1..Len(tab)
        \/ \E k \in 1..sc.nulls : s = Len(tab) + k
        \/ s = Len(tab) + sc.nulls + 1
    BY <1>1, <2>1, ThreeKinds
  <2>3. CASE s \in 1..Len(tab)
    BY Zenon, <1>7, <2>3
  <2>4. CASE \E k \in 1..sc.nulls : s = Len(tab) + k
    BY Zenon, <1>8, <2>4
  <2>5. CASE s = Len(tab) + sc.nulls + 1
    BY Zenon, <1>9, <2>5
  <2> QED
    BY Zenon, <2>2, <2>3, <2>4, <2>5
<1> QED
  BY Zenon, <1>10 DEF CountsKept

-----------------------------------------------------------------------------
(* The file that admin -i makes.                                           *)

FirstBody(lines, m) ==
  /\ lines \in Seq(Line) /\ Len(lines) = m + 2
  /\ lines[1] = Control("I", 1) /\ lines[m + 2] = Control("E", 1)
  /\ \A i \in 2..(m + 1) : lines[i] = Text(<<1, i - 1>>)

LEMMA FirstBodyIs ==
  ASSUME NEW m \in Nat, NEW lines,
         lines = <<Control("I", 1)>> \o [i \in 1..m |-> Text(<<1, i>>)] \o <<Control("E", 1)>>
  PROVE  FirstBody(lines, m)
<1>1. PICK a, t, e : a = Control("I", 1) /\ e = Control("E", 1) /\ t = [i \in 1..m |-> Text(<<1, i>>)]
  OBVIOUS
<1>2. 1 \in 1..MaxDeltas
  BY Constants
<1>3. a \in Line /\ e \in Line
  <2>1. OwnLine(Control("I", 1), 1) /\ OwnLine(Control("E", 1), 1)
    BY <1>2, OwnControl
  <2> QED
    BY Zenon, <1>1, <2>1 DEF OwnLine
<1>4. \A i \in 1..m : Text(<<1, i>>) \in Line
  <2> TAKE i \in 1..m
  <2>1. <<1, i>> \in {1} \X Nat
    OBVIOUS
  <2>2. OwnLine(Text(<<1, i>>), 1)
    BY <1>2, <2>1, OwnText
  <2> QED
    BY Zenon, <2>2 DEF OwnLine
<1>5. t \in Seq(Line) /\ Len(t) = m /\ \A i \in 1..m : t[i] = Text(<<1, i>>)
  BY <1>1, <1>4
<1>6. lines = <<a>> \o t \o <<e>>
  BY Zenon, <1>1
<1>7. \A u \in Seq(Line) : Len(u) = m =>
        /\ <<a>> \o u \o <<e>> \in Seq(Line) /\ Len(<<a>> \o u \o <<e>>) = m + 2
        /\ (<<a>> \o u \o <<e>>)[1] = a /\ (<<a>> \o u \o <<e>>)[m + 2] = e
        /\ \A i \in 2..(m + 1) : (<<a>> \o u \o <<e>>)[i] = u[i - 1]
  BY <1>3
<1>8. /\ lines \in Seq(Line) /\ Len(lines) = m + 2 /\ lines[1] = a /\ lines[m + 2] = e
      /\ \A i \in 2..(m + 1) : lines[i] = t[i - 1]
  BY ZenonT(40), <1>5, <1>6, <1>7
<1>9. \A i \in 2..(m + 1) : lines[i] = Text(<<1, i - 1>>)
  <2> TAKE i \in 2..(m + 1)
  <2>1. i - 1 \in 1..m
    OBVIOUS
  <2> QED
    BY Zenon, <1>5, <1>8, <2>1
<1> QED
  BY Zenon, <1>1, <1>8, <1>9 DEF FirstBody

\* Its lines, one by one.
FirstLines(lines, m) ==
  /\ lines \in Seq(Line) /\ Len(lines) = m + 2
  /\ lines[1].k = "I" /\ lines[1].seq = 1
  /\ lines[m + 2].k = "E" /\ lines[m + 2].seq = 1
  /\ \A i \in 2..(m + 1) : lines[i].k = "text" /\ lines[i].text = <<1, i - 1>>
  /\ \A i \in 1..(m + 2) : IsControl(lines[i]) => lines[i].seq = 1
  /\ IsControl(lines[1])

LEMMA FirstLinesAre ==
  ASSUME NEW m \in Nat, NEW lines, FirstBody(lines, m)
  PROVE  FirstLines(lines, m)
<1>1. \A x : Control("I", x).k = "I" /\ Control("I", x).seq = x /\ Control("E", x).k = "E" /\ Control("E", x).seq = x
  BY DEF Control
<1>2. \A t : Text(t).k = "text" /\ Text(t).text = t
  BY DEF Text
<1>3. /\ lines \in Seq(Line) /\ Len(lines) = m + 2
      /\ lines[1].k = "I" /\ lines[1].seq = 1
      /\ lines[m + 2].k = "E" /\ lines[m + 2].seq = 1
      /\ \A i \in 2..(m + 1) : lines[i].k = "text" /\ lines[i].text = <<1, i - 1>>
  <2>1. /\ lines \in Seq(Line) /\ Len(lines) = m + 2
        /\ lines[1] = Control("I", 1) /\ lines[m + 2] = Control("E", 1)
    BY Zenon DEF FirstBody
  <2>2. \A i \in 2..(m + 1) : lines[i] = Text(<<1, i - 1>>)
    BY Zenon DEF FirstBody
  <2>3. ASSUME NEW i \in 2..(m + 1) PROVE lines[i].k = "text" /\ lines[i].text = <<1, i - 1>>
    BY ZenonT(40), <1>2, <2>2
  <2> QED
    BY Zenon, <1>1, <2>1, <2>3
<1>4. \A i \in 1..(m + 2) : IsControl(lines[i]) => lines[i].seq = 1
  <2> SUFFICES ASSUME NEW i \in 1..(m + 2), IsControl(lines[i]) PROVE lines[i].seq = 1
    OBVIOUS
  <2>1. i = 1 \/ i = m + 2 \/ i \in 2..(m + 1)
    OBVIOUS
  <2>2. i \notin 2..(m + 1)
    BY <1>3 DEF IsControl
  <2> QED
    BY Zenon, <1>3, <2>1, <2>2
<1>5. IsControl(lines[1])
  BY <1>3 DEF IsControl
<1> QED
  BY Zenon, <1>3, <1>4, <1>5 DEF FirstLines

LEMMA FirstOpen ==
  ASSUME NEW m \in Nat, NEW lines, FirstLines(lines, m)
  PROVE  /\ \A i \in 1..(m + 1) : OpenI(lines, i) = {1} /\ OpenD(lines, i) = {}
         /\ OpenI(lines, m + 2) = {} /\ OpenD(lines, m + 2) = {}
<1>1. /\ lines \in Seq(Line) /\ Len(lines) = m + 2
      /\ lines[1].k = "I" /\ lines[1].seq = 1
      /\ lines[m + 2].k = "E" /\ lines[m + 2].seq = 1
      /\ \A i \in 2..(m + 1) : lines[i].k = "text"
  BY DEF FirstLines
<1>2. 1 \in 1..MaxDeltas
  BY Constants
<1>3. ASSUME NEW i \in 1..(m + 2), NEW n PROVE ~Opened(lines, i, "D", n)
  <2>1. \A a \in 1..i : lines[a].k # "D"
    <3> TAKE a \in 1..i
    <3>1. a = 1 \/ a = m + 2 \/ a \in 2..(m + 1)
      OBVIOUS
    <3> QED
      BY <1>1, <3>1
  <2> QED
    BY Zenon, <2>1 DEF Opened
<1>4. ASSUME NEW i \in 1..(m + 1), NEW n PROVE Opened(lines, i, "I", n) <=> n = 1
  <2>1. \A a \in 1..i : lines[a].k = "I" => a = 1
    <3> TAKE a \in 1..i
    <3>1. a = 1 \/ a \in 2..(m + 1)
      OBVIOUS
    <3> QED
      BY <1>1, <3>1
  <2>2. \A b \in (1 + 1)..i : lines[b].k # "E"
    BY <1>1
  <2>3. 1 \in 1..i
    OBVIOUS
  <2> QED
    BY Zenon, <1>1, <2>1, <2>2, <2>3 DEF Opened
<1>5. ASSUME NEW n PROVE ~Opened(lines, m + 2, "I", n)
  <2>1. SUFFICES ASSUME NEW a \in 1..(m + 2), lines[a].k = "I", lines[a].seq = n,
                        \A b \in (a + 1)..(m + 2) : ~(lines[b].k = "E" /\ lines[b].seq = n)
                 PROVE  FALSE
    BY Zenon DEF Opened
  <2>2. a = 1 \/ a = m + 2 \/ a \in 2..(m + 1)
    OBVIOUS
  <2>3. a = 1
    BY <1>1, <2>1, <2>2
  <2>4. m + 2 \in (a + 1)..(m + 2)
    BY <2>3
  <2> QED
    BY Zenon, <1>1, <2>1, <2>3, <2>4
<1> QED
  BY <1>2, <1>3, <1>4, <1>5 DEF OpenI, OpenD

LEMMA FirstIsWoven ==
  ASSUME NEW m \in Nat, NEW lines, FirstLines(lines, m)
  PROVE  /\ Woven(lines) /\ Owners(lines) \subseteq {1}
         /\ \A s, t : ~Encloses(lines, s, t)
<1>1. /\ lines \in Seq(Line) /\ Len(lines) = m + 2
      /\ lines[1].k = "I" /\ lines[1].seq = 1
      /\ lines[m + 2].k = "E" /\ lines[m + 2].seq = 1
      /\ \A i \in 2..(m + 1) : lines[i].k = "text" /\ lines[i].text = <<1, i - 1>>
      /\ \A i \in 1..(m + 2) : IsControl(lines[i]) => lines[i].seq = 1
  BY Zenon DEF FirstLines
<1>2. /\ \A i \in 1..(m + 1) : OpenI(lines, i) = {1} /\ OpenD(lines, i) = {}
      /\ OpenI(lines, m + 2) = {} /\ OpenD(lines, m + 2) = {}
  BY Zenon, FirstOpen
<1>3. OpenI(lines, 0) = {} /\ OpenD(lines, 0) = {}
  BY Zenon, NothingOpen
<1>4. ASSUME NEW i \in 1..(m + 2) PROVE Fits(lines, i)
  <2>1. i = 1 \/ i = m + 2 \/ i \in 2..(m + 1)
    OBVIOUS
  <2>2. CASE i = 1
    <3>1. OpenI(lines, i - 1) = {} /\ OpenD(lines, i - 1) = {}
      BY <1>3, <2>2
    <3>2. lines[i].k = "I"
      BY <1>1, <2>2
    <3> QED
      BY <3>1, <3>2 DEF Fits
  <2>3. CASE i = m + 2
    <3>1. OpenI(lines, i - 1) = {1}
      BY <1>2, <2>3
    <3>2. lines[i].k = "E" /\ lines[i].seq = 1
      BY <1>1, <2>3
    <3> QED
      BY <3>1, <3>2 DEF Fits
  <2>4. CASE i \in 2..(m + 1)
    <3>1. OpenI(lines, i - 1) = {1}
      BY <1>2, <2>4
    <3>2. lines[i].k = "text" /\ lines[i].text = <<1, i - 1>>
      BY <1>1, <2>4
    <3>3. lines[i].text[1] = 1
      BY <3>2
    <3> QED
      BY <3>1, <3>2, <3>3 DEF Fits
  <2> QED
    BY Zenon, <2>1, <2>2, <2>3, <2>4
<1>5. Owners(lines) \subseteq {1}
  BY <1>1 DEF Owners
<1>6. ASSUME NEW s, NEW t, Encloses(lines, s, t) PROVE FALSE
  <2>1. PICK i \in 1..(m + 2) : IsControl(lines[i]) /\ lines[i].seq = t /\ s \in OpenI(lines, i - 1) /\ s # t
    BY Zenon, <1>1, <1>6 DEF Encloses
  <2>2. t = 1
    BY Zenon, <1>1, <2>1
  <2>3. i = 1 \/ i - 1 \in 1..(m + 1)
    OBVIOUS
  <2>4. OpenI(lines, i - 1) \subseteq {1}
    BY <1>2, <1>3, <2>3
  <2> QED
    BY Zenon, <2>1, <2>2, <2>4
<1> QED
  BY Zenon, <1>1, <1>4, <1>5, <1>6 DEF Woven

\* Its first i lines hold i - 1 lines of text.
LEMMA FirstVersion ==
  ASSUME NEW m \in Nat, NEW lines, FirstLines(lines, m), NEW U, 1 \in U
  PROVE  Version(lines, U) = NewText(1, m)
<1>1. /\ lines \in Seq(Line) /\ Len(lines) = m + 2
      /\ lines[1].k = "I" /\ lines[m + 2].k = "E"
      /\ \A i \in 2..(m + 1) : lines[i].k = "text" /\ lines[i].text = <<1, i - 1>>
  BY Zenon DEF FirstLines
<1>2. \A i \in 1..(m + 1) : OpenD(lines, i) = {}
  BY Zenon, FirstOpen
<1>3. PICK out : out = Outputs(lines, U)
  OBVIOUS
<1>4. /\ out[0] = <<>> /\ \A i \in 1..(m + 2) : out[i] = Emit(lines, U, i, out[i - 1])
  <2>1. /\ Outputs(lines, U)[0] = <<>>
        /\ \A i \in 1..Len(lines) : Outputs(lines, U)[i] = Emit(lines, U, i, Outputs(lines, U)[i - 1])
    BY Zenon, <1>1, OutputsAre
  <2> QED
    BY Zenon, <1>1, <1>3, <2>1
<1> DEFINE S == {c \in 0..m : out[c + 1] = NewText(1, c)}
<1>5. 0 \in S
  <2>1. ~Belongs(lines, 1, U)
    BY <1>1 DEF Belongs
  <2>2. out[1] = out[0]
    <3>1. out[1] = Emit(lines, U, 1, out[1 - 1])
      BY <1>4
    <3>2. 1 - 1 = 0
      OBVIOUS
    <3> QED
      BY Zenon, <2>1, <3>1, <3>2 DEF Emit
  <2>3. NewText(1, 0) = <<>>
    BY DEF NewText
  <2>4. 0 + 1 = 1 /\ 0 \in 0..m
    OBVIOUS
  <2> QED
    BY <1>4, <2>2, <2>3, <2>4
<1>6. ASSUME NEW c \in 1..m, c - 1 \in S PROVE c \in S
  <2>1. out[c] = NewText(1, c - 1)
    <3>1. (c - 1) + 1 = c
      OBVIOUS
    <3> QED
      BY <1>6, <3>1
  <2>2. PICK i : i = c + 1
    OBVIOUS
  <2>3. i \in 2..(m + 1) /\ i \in 1..(m + 2) /\ i - 1 = c /\ i - 1 \in 1..(m + 1)
    BY <2>2
  <2>4. lines[i].k = "text" /\ lines[i].text = <<1, c>>
    BY Zenon, <1>1, <2>3
  <2>5. lines[i].text[1] = 1
    BY <2>4
  <2>6. OpenD(lines, i - 1) = {}
    BY Zenon, <1>2, <2>3
  <2>7. Belongs(lines, i, U)
    BY Zenon, <2>4, <2>5, <2>6 DEF Belongs
  <2>8. out[i] = Append(out[c], <<1, c>>)
    <3>1. out[i] = Emit(lines, U, i, out[c])
      BY Zenon, <1>4, <2>3
    <3>2. Emit(lines, U, i, out[c]) = Append(out[c], lines[i].text)
      BY Zenon, <2>7 DEF Emit
    <3> QED
      BY Zenon, <2>4, <3>1, <3>2
  <2>9. Append(NewText(1, c - 1), <<1, c>>) = NewText(1, c)
    BY DEF NewText
  <2>10. out[c + 1] = NewText(1, c)
    BY Zenon, <2>1, <2>2, <2>8, <2>9
  <2> QED
    BY <2>10
<1> HIDE DEF S
<1>7. m \in S
  <2>1. \A c \in 0..m : c \in S
    BY <1>5, <1>6, UpwardInduction
  <2> QED
    BY <2>1
<1>8. out[m + 1] = NewText(1, m)
  BY <1>7 DEF S
<1>9. out[m + 2] = out[m + 1]
  <2>1. ~Belongs(lines, m + 2, U)
    BY <1>1 DEF Belongs
  <2>2. m + 2 \in 1..(m + 2) /\ (m + 2) - 1 = m + 1
    OBVIOUS
  <2>3. out[m + 2] = Emit(lines, U, m + 2, out[m + 1])
    BY Zenon, <1>4, <2>2
  <2> QED
    BY Zenon, <2>1, <2>3 DEF Emit
<1> QED
  BY Zenon, <1>1, <1>3, <1>8, <1>9 DEF Version

\* Its table.
LEMMA FirstTable ==
  ASSUME NEW m \in Nat, NEW tab, tab = <<NewDelta(0, {}, {}, m, 0, 0)>>
  PROVE  /\ Sound(tab) /\ Len(tab) = 1 /\ Current(tab) = {1} /\ 1 \in VersionOf(tab, 1)
         /\ tab[1].inserted = m /\ tab[1].deleted = 0 /\ tab[1].unchanged = 0 /\ tab[1].prev = 0
<1>1. PICK d : d = NewDelta(0, {}, {}, m, 0, 0)
  OBVIOUS
<1>2. /\ d \in DeltaEntries /\ d.type = "D" /\ d.prev = 0 /\ d.incl = {} /\ d.excl = {} /\ d.ignd = {}
      /\ d.inserted = m /\ d.deleted = 0 /\ d.unchanged = 0
  BY <1>1 DEF NewDelta, DeltaEntries
<1>3. tab \in Seq(DeltaEntries) /\ Len(tab) = 1 /\ tab[1] = d
  BY <1>1, <1>2
<1>4. Ordered(tab)
  BY <1>2, <1>3 DEF Ordered
<1>5. Current(tab) = {1}
  <2>1. /\ Current(tab) \subseteq 1..1
        /\ \A s \in 1..1 : s \in Current(tab) <=> tab[s].type = "D"
    BY <1>3, <1>4, CurrentIs
  <2>2. tab[1].type = "D"
    BY Zenon, <1>2, <1>3
  <2> QED
    BY <2>1, <2>2
<1>6. Sound(tab)
  <2>1. tab[1].prev = 0 /\ tab[1].incl \cup tab[1].excl = {}
    BY Zenon, <1>2, <1>3
  <2> QED
    BY Zenon, <1>4, <1>5, <2>1 DEF Sound
<1>7. 1 \in VersionOf(tab, 1)
  <2>1. \A y \in 1..Len(tab) : tab[y].incl = {} /\ tab[y].excl = {}
    BY <1>2, <1>3
  <2>2. 1 \in 0..Len(tab) /\ 1 \in 1..Len(tab)
    BY <1>3
  <2>3. VersionOf(tab, 1) = Ancestors(tab, 1)
    BY Zenon, <1>4, <2>1, <2>2, VersionPlain
  <2>4. Ancestors(tab, 1) = {1} \cup Ancestors(tab, tab[1].prev)
    BY Zenon, <1>4, <2>2, AncestorsAre
  <2> QED
    BY Zenon, <2>3, <2>4
<1> QED
  BY Zenon, <1>2, <1>3, <1>5, <1>6, <1>7

-----------------------------------------------------------------------------
(* The inductive invariant.                                                *)

\* The file between two operations, or during one.
Kept(tab, lines, texts, lists) ==
  /\ TableOK(tab, texts) /\ BodyOK(lines, tab)
  /\ Steady(tab, lists) => TextsKept(lines, tab, texts) /\ CountsKept(tab, texts)

\* The check-in in progress has read some of the body, and inserted some lines.
Busy(sc, tab, lines, lists) ==
  \E W, script, at, i, c : ScanAt(sc, tab, lines, lists, W, script, at, i, c)

IInv ==
  /\ use \in Uses
  /\ Kept(table, body, checkedIn, use.lists)
  /\ scan = Idle \/ Busy(scan, table, body, use.lists)

LEMMA UseIs ==
  ASSUME use \in Uses
  PROVE  use.lines \in Nat /\ use.nulls \in Nat
BY WeaveAssumption DEF WeaveAssumption

LEMMA FirstKept ==
  ASSUME NEW m \in Nat, NEW tab, tab = <<NewDelta(0, {}, {}, m, 0, 0)>>,
         NEW lines, FirstBody(lines, m), NEW texts, texts = <<NewText(1, m)>>, NEW lists
  PROVE  Kept(tab, lines, texts, lists)
<1>1. /\ Sound(tab) /\ Len(tab) = 1 /\ Current(tab) = {1} /\ 1 \in VersionOf(tab, 1)
      /\ tab[1].inserted = m /\ tab[1].deleted = 0 /\ tab[1].unchanged = 0 /\ tab[1].prev = 0
  BY FirstTable
<1>2. NewText(1, m) \in LineTexts /\ Len(NewText(1, m)) = m
  BY NewTextIs
<1>3. texts \in Seq(LineTexts) /\ Len(texts) = 1 /\ texts[1] = NewText(1, m)
  BY <1>2
<1>4. FirstLines(lines, m)
  BY FirstLinesAre
<1>5. TableOK(tab, texts)
  <2>1. Len(tab) \in 1..MaxDeltas
    BY <1>1, Constants
  <2> QED BY <2>1, <1>1, <1>3 DEF TableOK
<1>6. BodyOK(lines, tab)
  <2>1. Woven(lines) /\ Owners(lines) \subseteq {1} /\ (\A s, t : ~Encloses(lines, s, t))
    BY <1>4, FirstIsWoven
  <2>2. lines \in Seq(Line) /\ Len(lines) = m + 2 /\ lines[1] = Control("I", 1)
    BY DEF FirstBody
  <2>3. OpenI(lines, m + 2) = {} /\ OpenD(lines, m + 2) = {}
    BY <1>4, FirstOpen
  <2>4. lines # <<>>
    BY <2>2
  <2> QED BY <2>1, <2>2, <2>3, <2>4, <1>1 DEF BodyOK
<1>7. TextsKept(lines, tab, texts)
  <2>1. Version(lines, VersionOf(tab, 1)) = NewText(1, m)
    BY <1>1, <1>4, FirstVersion
  <2> QED BY <2>1, <1>1, <1>3 DEF TextsKept
<1>8. CountsKept(tab, texts)
  <2>1. NewCount(m, 0, 0, m)
    BY DEF NewCount
  <2>2. ~ListsNothing(tab[1])
    BY <1>1 DEF ListsNothing
  <2> QED BY <2>1, <2>2, <1>1, <1>2, <1>3 DEF CountsKept
<1> QED BY <1>5, <1>6, <1>7, <1>8 DEF Kept

LEMMA InitHolds == Init => IInv
<1> SUFFICES ASSUME Init PROVE IInv
  OBVIOUS
<1>1. use \in Uses /\ use.lines \in Nat
  BY UseIs DEF Init
<1>2. FirstBody(body, use.lines)
  BY <1>1, FirstBodyIs DEF Init
<1>3. Kept(table, body, checkedIn, use.lists)
  BY <1>1, <1>2, FirstKept DEF Init
<1> QED BY <1>1, <1>3 DEF IInv, Init

\* A file that has a current delta can be read.
LEMMA GotIs ==
  ASSUME NEW tab, NEW texts, NEW lines, TableOK(tab, texts), BodyOK(lines, tab), Current(tab) # {},
         NEW ss \in SeqStates, ss.last = Len(tab), ss.inserts = {}, ss.deletes = {}, ss.ignored = {}
  PROVE  /\ lines # <<>>
         /\ GetBody(lines, ss, Len(tab)) = ReadUpTo(lines, ss, Len(lines))
<1>1. Sound(tab) /\ Ordered(tab)
  BY Zenon DEF TableOK, Sound
<1>1a. Len(tab) \in Nat
  BY DEF TableOK
<1>2. 1 \in Current(tab)
  BY <1>1, FirstIsCurrent
<1>3. lines # <<>> /\ lines[1] = Control("I", 1) /\ lines \in Seq(Line) /\ Woven(lines)
  BY Zenon, <1>2 DEF BodyOK
<1>4. lines[1].k = "I"
  BY <1>3 DEF Control
<1>5. \A i \in 1..Len(lines) : IsControl(lines[i]) => lines[i].seq <= Len(tab)
  <2>1. Owners(lines) \subseteq 1..Len(tab)
    <3>1. Current(tab) \subseteq 1..Len(tab)
      BY Zenon, <1>1, CurrentIs
    <3> QED BY <3>1 DEF BodyOK
  <2>2. \A i \in 1..Len(lines) : IsControl(lines[i]) => lines[i].seq \in Owners(lines)
    BY Zenon DEF Owners
  <2> QED BY <2>1, <2>2, <1>1a
<1>6. Len(tab) <= ss.last
  BY <1>1a
<1> QED BY Zenon, <1>3, <1>4, <1>5, <1>6, <1>1a, BodyIsRead

\* The record of a check-in that starts.
Starts(sc, ss, diff, gfile, n, pred, nulls, incl, excl) ==
  sc = [pc |-> "scan", pos |-> 1, ss |-> ss, ds |-> NewDiffState, diff |-> diff,
        out |-> <<>>, inserted |-> 0, deleted |-> 0, unchanged |-> 0, gfile |-> gfile,
        seq |-> n, pred |-> pred, nulls |-> nulls, incl |-> incl, excl |-> excl]

LEMMA StartsIs ==
  ASSUME NEW sc, NEW ss, NEW diff, NEW gfile, NEW n, NEW pred, NEW nulls, NEW incl, NEW excl,
         Starts(sc, ss, diff, gfile, n, pred, nulls, incl, excl)
  PROVE  /\ Recorded(sc) /\ sc.pos = 1 /\ sc.ss = ss /\ sc.ds = NewDiffState /\ sc.diff = diff
         /\ sc.out = <<>> /\ sc.inserted = 0 /\ sc.deleted = 0 /\ sc.unchanged = 0
         /\ sc.gfile = gfile /\ sc.seq = n /\ sc.pred = pred /\ sc.nulls = nulls
         /\ sc.incl = incl /\ sc.excl = excl
BY DEF Starts, Recorded, ScanFields

LEMMA NothingRead ==
  ASSUME NEW lines \in Seq(Line), NEW W
  PROVE  SoFar(lines, W, 0) = 0
BY OutputsAre DEF SoFar

\* An edit script of delta n over a file of m lines.
ScriptBy(script, n, m) ==
  /\ ScriptFor(script, m)
  /\ \A j \in 1..(m + 1) : \A k \in 1..Len(script.ins[j]) : script.ins[j][k] \in {n} \X Nat

LEMMA ScriptFits ==
  ASSUME NEW n \in Nat, NEW m \in Nat, NEW script \in Scripts(n, m)
  PROVE  ScriptBy(script, n, m)
BY ScriptsAre DEF ScriptBy

\* What a check-in starts from: its lists, and the differences from the version that they
\* make of its predecessor's.
LEMMA CheckInStarts ==
  ASSUME NEW tab, NEW texts, NEW lines, NEW lists, TableOK(tab, texts), BodyOK(lines, tab),
         NEW pred \in Current(tab), NEW nulls \in Nat,
         NEW incl \in SUBSET Current(tab), NEW excl \in SUBSET Current(tab),
         lists \in {"none", "disciplined"} => Plainly(tab, pred, incl),
         NEW W, W = (VersionOf(tab, pred) \cup incl) \ excl,
         NEW n, n = Len(tab) + nulls + 1, n <= MaxDeltas,
         NEW ss \in SeqStates, ss.last = Len(tab), ss.included = W,
         ss.inserts = {}, ss.deletes = {}, ss.ignored = {},
         NEW old, old = Version(lines, W), NEW script \in Scripts(n, Len(old)), NEW noeol,
         NEW diff, diff = DiffOutput(old, script, noeol),
         NEW sc, Starts(sc, ss, diff, Patch(old, script), n, pred, nulls, incl, excl)
  PROVE  Busy(sc, tab, lines, lists)
<1>1. Sound(tab) /\ Ordered(tab)
  BY Zenon DEF TableOK, Sound
<1>2. Len(tab) \in Nat
  BY DEF TableOK
<1>3. n \in Nat /\ Len(tab) < n /\ n \in 1..MaxDeltas
  BY <1>2, Constants
<1>4. lines \in Seq(Line) /\ Woven(lines)
  BY Zenon DEF BodyOK
<1>5. Current(tab) \subseteq 1..Len(tab)
  BY Zenon, <1>1, CurrentIs
<1>6. \A x \in Owners(lines) : x <= Len(tab)
  <2>1. Owners(lines) \subseteq Current(tab)
    BY Zenon DEF BodyOK
  <2> QED BY <2>1, <1>5, <1>2
<1>7. W \in SUBSET Nat
  BY DEF SeqStates
<1>8. old \in LineTexts
  BY <1>4, OutputsAre DEF Version
<1>9. Len(old) \in Nat
  BY <1>8 DEF LineTexts
<1>10. /\ ScriptFor(script, Len(old))
       /\ \A j \in 1..(Len(old) + 1) : \A k \in 1..Len(script.ins[j]) : script.ins[j][k] \in {n} \X Nat
  <2>1. \A m \in Nat : script \in Scripts(n, m) => ScriptBy(script, n, m)
    BY Zenon, <1>3, ScriptFits
  <2>2. ScriptBy(script, n, Len(old))
    BY Zenon, <2>1, <1>9
  <2> QED BY Zenon, <2>2 DEF ScriptBy
<1>11. Laid(diff, old, script, Place(old, script))
  BY <1>8, <1>10, DiffIsLaid
<1>12. Context(old, script, diff, Place(old, script))
  BY Zenon, <1>8, <1>10, <1>11 DEF Context
<1>13. Younger(lines, n)
  <2>1. \A x \in Owners(lines) : x < n /\ x \in Nat
    <3>1. Owners(lines) \subseteq 1..Len(tab)
      BY <1>5 DEF BodyOK
    <3> QED BY <3>1, <1>3, <1>2
  <2> QED BY <2>1, <1>3, <1>4 DEF Younger
<1>14. Current(tab) # {}
  OBVIOUS
<1>15. lines # <<>>
  BY Zenon, <1>14, GotIs
<1>16. Job(lines, n, Len(tab), W, script, diff, Place(old, script))
  <2>1. OpenI(lines, Len(lines)) = {} /\ OpenD(lines, Len(lines)) = {}
    BY Zenon DEF BodyOK
  <2> QED BY <1>2, <1>3, <1>6, <1>7, <1>10, <1>12, <1>13, <1>15, <2>1 DEF Job
<1>17. Reading(ss, Len(tab), W, lines, 0)
  BY NothingOpen DEF Reading
<1>18. /\ Recorded(sc) /\ sc.pos = 1 /\ sc.ss = ss /\ sc.ds = NewDiffState /\ sc.diff = diff
       /\ sc.out = <<>> /\ sc.inserted = 0 /\ sc.deleted = 0 /\ sc.unchanged = 0
       /\ sc.gfile = Patch(old, script) /\ sc.seq = n /\ sc.pred = pred /\ sc.nulls = nulls
       /\ sc.incl = incl /\ sc.excl = excl
  BY StartsIs
<1>19. /\ Progress(lines, n, Len(tab), W, script, diff, Place(old, script), 0, 0, ss, NewDiffState, <<>>)
       /\ SoFar(lines, W, 0) = 0 /\ Made(old, script, 0, 0) = <<>>
  BY <1>16, <1>17, StepStart
<1>20. Planned(sc, tab, W, lists)
  <2>1. n = Len(tab) + sc.nulls + 1
    BY <1>18
  <2> QED BY Zenon, <2>1, <1>3, <1>18 DEF Planned
<1>21. Counting(0, 0, 0, MadeSoFar(lines, W, script, 0, 0), SoFar(lines, W, 0))
  <2>1. MadeSoFar(lines, W, script, 0, 0) = 0
    BY <1>19 DEF MadeSoFar
  <2> QED BY <2>1, <1>19 DEF Counting
<1>22. ScanAt(sc, tab, lines, lists, W, script, Place(old, script), 0, 0)
  <2>1. sc.pos = 0 + 1
    BY <1>18
  <2> QED BY Zenon, <2>1, <1>16, <1>18, <1>19, <1>20, <1>21 DEF ScanAt
<1> QED BY Zenon, <1>22 DEF Busy

\* The lists that get -e may be given.
LEMMA GivenIs ==
  ASSUME NEW pred, NEW l \in GivenLists(pred)
  PROVE  /\ l[1] \in SUBSET Current(table) /\ l[2] \in SUBSET Current(table)
         /\ l[1] \cap l[2] = {}
         /\ use.lists = "none" => l[1] = {}
         /\ use.lists = "disciplined" => Disciplined(pred, l[1])
<1>1. CASE use.lists = "none"
  <2>1. l = <<{}, {}>>
    BY <1>1 DEF GivenLists
  <2> QED BY <2>1, <1>1
<1>2. CASE use.lists # "none"
  BY <1>2 DEF GivenLists
<1> QED BY <1>1, <1>2

\* What CheckIn chooses.
Begun(pred, nulls, incl, excl, n, script, noeol) ==
  LET ss  == PrepareSeqstate(table, pred, incl, excl, {})
      got == GetBody(body, ss, Len(table))
  IN  /\ n = Len(table) + nulls + 1 /\ n <= MaxDeltas
      /\ script \in Scripts(n, Len(got.out))
      /\ Starts(scan', ss, DiffOutput(got.out, script, noeol), Patch(got.out, script), n, pred, nulls,
                (ss.explicit \cap (1..(Len(table) - 1)) \cap ss.included) \cup (incl \cap Current(table)),
                (ss.explicit \cap (1..(Len(table) - 1)) \cap ss.excluded) \cup (excl \cap Current(table)))

LEMMA CheckInIs ==
  ASSUME CheckIn
  PROVE  /\ UNCHANGED <<table, body, checkedIn, use>>
         /\ \E pred \in Current(table), nulls \in 0..use.nulls : \E l \in GivenLists(pred) :
              \E n, script, noeol : Begun(pred, nulls, l[1], l[2], n, script, noeol)
<1>0. PICK pred \in Current(table), nulls \in 0..use.nulls :
        \E l \in GivenLists(pred) : BeginDelta(pred, l[1], l[2], nulls)
  BY Zenon DEF CheckIn
<1>1. PICK l \in GivenLists(pred) : BeginDelta(pred, l[1], l[2], nulls)
  BY Zenon, <1>0
<1> DEFINE ss  == PrepareSeqstate(table, pred, l[1], l[2], {})
           got == GetBody(body, ss, Len(table))
           n == Len(table) + nulls + 1
<1>2. PICK script \in Scripts(n, Len(got.out)), noeol \in {FALSE, use.noeol} :
        Begun(pred, nulls, l[1], l[2], n, script, noeol)
  BY Zenon, <1>1 DEF BeginDelta, Begun, Starts
<1>3. UNCHANGED <<table, body, checkedIn, use>>
  BY Zenon, <1>1 DEF BeginDelta
<1> QED BY Zenon, <1>2, <1>3

LEMMA BegunIsBusy ==
  ASSUME IInv, NEW pred \in Current(table), NEW nulls \in Nat,
         NEW incl \in SUBSET Current(table), NEW excl \in SUBSET Current(table), incl \cap excl = {},
         use.lists = "none" => incl = {}, use.lists = "disciplined" => Disciplined(pred, incl),
         NEW n, NEW script, NEW noeol, Begun(pred, nulls, incl, excl, n, script, noeol)
  PROVE  Busy(scan', table, body, use.lists)
<1>1. TableOK(table, checkedIn) /\ BodyOK(body, table)
  BY Zenon DEF IInv, Kept
<1>2. Sound(table) /\ Ordered(table)
  BY Zenon, <1>1 DEF TableOK, Sound
<1>3. pred \in 1..Len(table)
  BY Zenon, <1>2, CurrentIs
<1>4. PICK ss : ss = PrepareSeqstate(table, pred, incl, excl, {})
  OBVIOUS
<1>5. /\ ss \in SeqStates /\ ss.last = Len(table)
      /\ ss.inserts = {} /\ ss.deletes = {} /\ ss.ignored = {}
      /\ ss.included = (VersionOf(table, pred) \cup incl) \ excl
      /\ ss.explicit \cap ss.included \subseteq incl
      /\ ss.explicit \cap ss.excluded \subseteq excl
  <2>1. ListsPrepared(PrepareSeqstate(table, pred, incl, excl, {}), table, pred, incl, excl)
    BY Zenon, <1>2, <1>3, PreparedLists
  <2>2. ListsPrepared(ss, table, pred, incl, excl)
    BY Zenon, <2>1, <1>4
  <2> QED BY Zenon, <2>2 DEF ListsPrepared
<1>6. Current(table) # {}
  OBVIOUS
<1>7. GetBody(body, ss, Len(table)) = ReadUpTo(body, ss, Len(body))
  BY Zenon, <1>1, <1>5, <1>6, GotIs
<1>8. PICK W : W = ss.included
  OBVIOUS
<1>9. GetBody(body, ss, Len(table)).out = Version(body, W)
  <2>1. ReadUpTo(body, ss, Len(body)).out = Outputs(body, ss.included)[Len(body)]
    BY DEF ReadUpTo
  <2> QED BY Zenon, <2>1, <1>7, <1>8 DEF Version
<1>10. /\ (ss.explicit \cap (1..(Len(table) - 1)) \cap ss.included) \cup (incl \cap Current(table)) = incl
       /\ (ss.explicit \cap (1..(Len(table) - 1)) \cap ss.excluded) \cup (excl \cap Current(table)) = excl
  BY Zenon, <1>5
<1>11. PICK old : old = Version(body, W)
  OBVIOUS
<1>12. /\ n = Len(table) + nulls + 1 /\ n <= MaxDeltas
       /\ script \in Scripts(n, Len(old))
       /\ Starts(scan', ss, DiffOutput(old, script, noeol), Patch(old, script), n, pred, nulls, incl, excl)
  BY Zenon, <1>4, <1>9, <1>10, <1>11 DEF Begun
<1>13. use.lists \in {"none", "disciplined"} => Plainly(table, pred, incl)
  <2>1. use.lists = "none" => Plainly(table, pred, incl)
    BY Zenon DEF Plainly
  <2>2. use.lists = "disciplined" => Plainly(table, pred, incl)
    BY Zenon DEF Plainly, Disciplined, ExcludedBy
  <2> QED BY Zenon, <2>1, <2>2
<1>14. W = (VersionOf(table, pred) \cup incl) \ excl
  BY Zenon, <1>5, <1>8
<1>15. PICK diff : diff = DiffOutput(old, script, noeol)
  OBVIOUS
<1>16. Starts(scan', ss, diff, Patch(old, script), n, pred, nulls, incl, excl)
  BY Zenon, <1>12, <1>15
<1>17. PICK sc : sc = scan'
  OBVIOUS
<1>18. Starts(sc, ss, diff, Patch(old, script), n, pred, nulls, incl, excl)
  BY Zenon, <1>16, <1>17
<1>19. Busy(sc, table, body, use.lists)
  BY <1>1, <1>5, <1>8, <1>11, <1>12, <1>13, <1>14, <1>15, <1>18, CheckInStarts
<1> QED BY Zenon, <1>17, <1>19

LEMMA CheckInHolds ==
  ASSUME IInv, CheckIn
  PROVE  IInv'
<1>1. UNCHANGED <<table, body, checkedIn, use>>
  BY Zenon, CheckInIs
<1>2a. PICK pred \in Current(table), nulls \in 0..use.nulls :
        \E l \in GivenLists(pred) : \E n, script, noeol : Begun(pred, nulls, l[1], l[2], n, script, noeol)
  BY Zenon, CheckInIs
<1>2b. PICK l \in GivenLists(pred) : \E n, script, noeol : Begun(pred, nulls, l[1], l[2], n, script, noeol)
  BY Zenon, <1>2a
<1>2. PICK n, script, noeol : Begun(pred, nulls, l[1], l[2], n, script, noeol)
  BY Zenon, <1>2b
<1>3. nulls \in Nat
  BY UseIs DEF IInv
<1>4. /\ l[1] \in SUBSET Current(table) /\ l[2] \in SUBSET Current(table)
      /\ l[1] \cap l[2] = {}
      /\ use.lists = "none" => l[1] = {}
      /\ use.lists = "disciplined" => Disciplined(pred, l[1])
  BY Zenon, GivenIs
<1>5. Busy(scan', table, body, use.lists)
  BY Zenon, <1>2, <1>3, <1>4, BegunIsBusy
<1> QED BY Zenon, <1>1, <1>5 DEF IInv

\* The check-in in progress.
Here(W, script, at, i, c) == ScanAt(scan, table, body, use.lists, W, script, at, i, c)

LEMMA ScanningIs ==
  ASSUME IInv, Scanning
  PROVE  \E W, script, at, i, c : Here(W, script, at, i, c)
<1>1. scan # Idle
  BY DEF Scanning, Idle
<1> QED BY Zenon, <1>1 DEF IInv, Busy, Here

\* A step that goes on with the check-in.
LEMMA GoesOn ==
  ASSUME IInv, UNCHANGED <<table, body, checkedIn, use>>,
         NEW W, NEW script, NEW at, NEW i, NEW c,
         ScanAt(scan', table, body, use.lists, W, script, at, i, c)
  PROVE  IInv'
<1>1. Busy(scan', table, body, use.lists)
  BY Zenon DEF Busy
<1> QED BY Zenon, <1>1 DEF IInv

LEMMA NotAtEnd ==
  ASSUME NEW W, NEW script, NEW at, NEW i, NEW c, Here(W, script, at, i, c), ~AtEnd
  PROVE  i < Len(body) /\ i # Len(body) /\ scan.pos = i + 1
<1>1. /\ i \in 0..Len(body) /\ i \in Nat /\ Len(body) \in Nat /\ scan.pos = i + 1
      /\ scan.pos > Len(body) <=> i = Len(body)
  BY Zenon, ScanAtIs DEF Here
<1> QED BY <1>1 DEF AtEnd

LEMMA ControlHolds ==
  ASSUME IInv, ScanControl
  PROVE  IInv'
<1>1. PICK W, script, at, i, c : Here(W, script, at, i, c)
  BY Zenon, ScanningIs DEF ScanControl
<1>2. i < Len(body) /\ i # Len(body) /\ scan.pos = i + 1
  BY Zenon, <1>1, NotAtEnd DEF ScanControl
<1>3. PICK k : k = i + 1
  OBVIOUS
<1>4. PICK x : x = body[k]
  OBVIOUS
<1>5. OldLine = x
  BY Zenon, <1>2, <1>3, <1>4 DEF OldLine
<1>6. IsControl(x) /\ scan' = [scan EXCEPT !.ss = Follow(@, x), !.pos = @ + 1, !.out = Append(@, x)]
  BY <1>5 DEF ScanControl
<1>7. PICK sc2 : sc2 = scan'
  OBVIOUS
<1>8. sc2 = [scan EXCEPT !.ss = Follow(@, x), !.pos = @ + 1, !.out = Append(@, x)]
  BY <1>6, <1>7
<1>9. ScanAt(sc2, table, body, use.lists, W, script, at, k, c)
  BY <1>1, <1>2, <1>3, <1>4, <1>6, <1>8, NextControl DEF Here
<1>10. UNCHANGED <<table, body, checkedIn, use>>
  BY Zenon DEF ScanControl
<1>11. ScanAt(scan', table, body, use.lists, W, script, at, k, c)
  BY Zenon, <1>7, <1>9
<1> QED BY Zenon, <1>10, <1>11, GoesOn

LEMMA OtherHolds ==
  ASSUME IInv, ScanOtherText
  PROVE  IInv'
<1>1. PICK W, script, at, i, c : Here(W, script, at, i, c)
  BY Zenon, ScanningIs DEF ScanOtherText
<1>2. i < Len(body) /\ i # Len(body) /\ scan.pos = i + 1
  BY Zenon, <1>1, NotAtEnd DEF ScanOtherText
<1>3. PICK k : k = i + 1
  OBVIOUS
<1>4. PICK x : x = body[k]
  OBVIOUS
<1>5. OldLine = x
  BY Zenon, <1>2, <1>3, <1>4 DEF OldLine
<1>6. /\ ~IsControl(x) /\ ~IncludeLine(scan.ss)
      /\ scan' = [scan EXCEPT !.pos = @ + 1, !.out = Append(@, x)]
  BY <1>5 DEF ScanOtherText
<1>7. PICK sc2 : sc2 = scan'
  OBVIOUS
<1>8. sc2 = [scan EXCEPT !.pos = @ + 1, !.out = Append(@, x)]
  BY <1>6, <1>7
<1>9. ScanAt(sc2, table, body, use.lists, W, script, at, k, c)
  BY <1>1, <1>2, <1>3, <1>4, <1>6, <1>8, NextOther DEF Here
<1>10. UNCHANGED <<table, body, checkedIn, use>>
  BY Zenon DEF ScanOtherText
<1>11. ScanAt(scan', table, body, use.lists, W, script, at, k, c)
  BY Zenon, <1>7, <1>9
<1> QED BY Zenon, <1>10, <1>11, GoesOn

LEMMA AsksHere ==
  ASSUME AsksDiff
  PROVE  Scanning /\ Asks(scan, body)
BY Zenon DEF AsksDiff, Asks, AtEnd, OldLine

LEMMA InsertHolds ==
  ASSUME IInv, AsksDiff, ScanInsert(Processed)
  PROVE  IInv'
<1>1. PICK W, script, at, i, c : Here(W, script, at, i, c)
  BY Zenon, ScanningIs, AsksHere
<1>2. PICK p : p = Process(scan.ds, scan.diff)
  OBVIOUS
<1>3. PICK new : new = scan.out \o Brackets(p.control, scan.seq)
  OBVIOUS
<1>4. WithBrackets(p) = new
  BY Zenon, <1>3 DEF WithBrackets, Brackets
<1>5. ScanInsert(p)
  BY Zenon, <1>2 DEF Processed
<1>6. /\ p.state = "INSERT" /\ UNCHANGED <<table, body, checkedIn, use>>
      /\ scan' = [scan EXCEPT !.ds = p, !.inserted = @ + 1,
                              !.out = Append(new, Text(InsertLine(p, scan.diff)))]
  BY Zenon, <1>4, <1>5 DEF ScanInsert, Inserting
<1>7. PICK sc2 : sc2 = scan'
  OBVIOUS
<1>8. sc2 = [scan EXCEPT !.ds = p, !.inserted = @ + 1,
                         !.out = Append(new, Text(InsertLine(p, scan.diff)))]
  BY <1>6, <1>7
<1>9. Asks(scan, body)
  BY ZenonT(40), AsksHere
<1>10. ScanAt(sc2, table, body, use.lists, W, script, at, i, c + 1)
  BY <1>1, <1>2, <1>3, <1>6, <1>8, <1>9, NextInsert DEF Here
<1>11. ScanAt(scan', table, body, use.lists, W, script, at, i, c + 1)
  BY Zenon, <1>7, <1>10
<1> QED BY Zenon, <1>6, <1>11, GoesOn

LEMMA TooLongHolds ==
  ASSUME IInv, ScanLineTooLong(Processed)
  PROVE  IInv'
BY Zenon DEF IInv, ScanLineTooLong, Idle

LEMMA OldHolds ==
  ASSUME IInv, AsksDiff, ScanOldText(Processed)
  PROVE  IInv'
<1>1. PICK W, script, at, i, c : Here(W, script, at, i, c)
  BY Zenon, ScanningIs, AsksHere
<1>2. PICK p : p = Process(scan.ds, scan.diff)
  OBVIOUS
<1>3. PICK new : new = scan.out \o Brackets(p.control, scan.seq)
  OBVIOUS
<1>4. WithBrackets(p) = new
  BY Zenon, <1>3 DEF WithBrackets, Brackets
<1>5. ScanOldText(p)
  BY Zenon, <1>2 DEF Processed
<1>6. i < Len(body) /\ i # Len(body) /\ scan.pos = i + 1
  <2>1. ~AtEnd
    BY Zenon, <1>5 DEF ScanOldText
  <2> QED BY Zenon, <1>1, <2>1, NotAtEnd
<1>7. PICK k : k = i + 1
  OBVIOUS
<1>8. PICK x : x = body[k]
  OBVIOUS
<1>9. OldLine = x
  BY Zenon, <1>6, <1>7, <1>8 DEF OldLine
<1>10. /\ p.state # "INSERT" /\ UNCHANGED <<table, body, checkedIn, use>>
       /\ scan' = OldScanned(scan, p, new, x)
  BY Zenon, <1>4, <1>5, <1>9 DEF ScanOldText, NotInserting, OldScanned
<1>11. PICK sc2 : sc2 = scan'
  OBVIOUS
<1>12. sc2 = OldScanned(scan, p, new, x)
  BY Zenon, <1>10, <1>11
<1>13. Asks(scan, body)
  BY Zenon, AsksHere
<1>14. ScanAt(sc2, table, body, use.lists, W, script, at, k, 0)
  <2>1. ScanAt(scan, table, body, use.lists, W, script, at, i, c)
    BY Zenon, <1>1 DEF Here
  <2>2. i # Len(body) /\ p.state # "INSERT"
    BY Zenon, <1>6, <1>10
  <2> QED BY <2>1, <2>2, <1>2, <1>3, <1>7, <1>8, <1>12, <1>13, NextOld
<1>15. ScanAt(scan', table, body, use.lists, W, script, at, k, 0)
  BY Zenon, <1>11, <1>14
<1> QED BY Zenon, <1>10, <1>15, GoesOn

\* What the table has without the new deltas is what it had.
LEMMA SteadyBefore ==
  ASSUME NEW sc, NEW tab, NEW tab2, NEW W, NEW lists, Len(tab) \in Nat, Planned(sc, tab, W, lists),
         Added(sc, tab, tab2), Steady(tab2, lists)
  PROVE  Steady(tab, lists) /\ Plainly(tab, sc.pred, sc.incl)
<1>1. CASE lists \in {"none", "disciplined"}
  BY Zenon, <1>1 DEF Steady, Planned
<1>2. CASE \A s \in 1..Len(tab2) : tab2[s].incl = {} /\ tab2[s].excl = {}
  <2>1. /\ Len(tab2) = Len(tab) + sc.nulls + 1
        /\ \A s \in 1..Len(tab) : tab2[s].incl = tab[s].incl /\ tab2[s].excl = tab[s].excl
        /\ tab2[Len(tab) + sc.nulls + 1].incl = sc.incl
    BY Zenon DEF Added, Grown
  <2>2. sc.nulls \in Nat
    BY Zenon DEF Planned
  <2>3. Len(tab2) \in 1..Len(tab2) /\ \A s \in 1..Len(tab) : s \in 1..Len(tab2)
    BY <2>1, <2>2
  <2>4. sc.incl = {}
    BY Zenon, <1>2, <2>1, <2>3
  <2>5. \A s \in 1..Len(tab) : tab[s].incl = {} /\ tab[s].excl = {}
    BY Zenon, <1>2, <2>1, <2>3
  <2> QED BY Zenon, <2>4, <2>5 DEF Steady, Plainly
<1> QED BY Zenon, <1>1, <1>2 DEF Steady

\* What a check-in leaves.
TableAfter(sc, tab) ==
  NewTable(tab, sc.pred, sc.nulls, sc.incl, sc.excl, sc.inserted, sc.deleted, sc.unchanged)
TextsAfter(sc, texts) == texts \o [i \in 1..sc.nulls |-> texts[sc.pred]] \o <<sc.gfile>>

LEMMA FinishGrown ==
  ASSUME NEW sc, NEW tab, NEW texts, NEW lines, NEW lists, NEW W,
         Ready(sc, tab, texts, lines, lists, W),
         sc.inserted \in Nat, sc.deleted \in Nat, sc.unchanged \in Nat,
         NEW tab2, tab2 = TableAfter(sc, tab)
  PROVE  Added(sc, tab, tab2) /\ CountsAdded(sc, tab, tab2)
<1>1. /\ Ordered(tab) /\ sc.pred \in 1..Len(tab) /\ sc.nulls \in Nat
      /\ sc.incl \in SUBSET (1..Len(tab)) /\ sc.excl \in SUBSET (1..Len(tab))
  BY Zenon, ReadyIs
<1>2. \A t : t = TableAfter(sc, tab) =>
              /\ Grown(t, tab, sc.pred, sc.nulls, sc.incl, sc.excl)
              /\ CountsGrown(t, tab, sc.nulls, sc.inserted, sc.deleted, sc.unchanged)
  BY <1>1, GrownIs DEF TableAfter
<1>3. /\ Grown(tab2, tab, sc.pred, sc.nulls, sc.incl, sc.excl)
      /\ CountsGrown(tab2, tab, sc.nulls, sc.inserted, sc.deleted, sc.unchanged)
  BY Zenon, <1>2
<1> QED BY Zenon, <1>3 DEF Added, CountsAdded, CountsGrown

LEMMA FinishTextsAdded ==
  ASSUME NEW sc, NEW tab, NEW texts, NEW lines, NEW lists, NEW W,
         Ready(sc, tab, texts, lines, lists, W), sc.gfile \in LineTexts, NEW texts2,
         texts2 = TextsAfter(sc, texts)
  PROVE  TextsAdded(sc, texts, texts2)
<1>1. /\ sc.pred \in 1..Len(tab) /\ sc.nulls \in Nat /\ texts \in Seq(LineTexts) /\ Len(texts) = Len(tab)
  BY Zenon, ReadyIs
<1>2. sc.pred \in 1..Len(texts)
  BY <1>1
<1>3. texts2 \in Seq(LineTexts) /\ TextsGrown(texts2, texts, sc.pred, sc.nulls, sc.gfile)
  <2>1. PICK p \in 1..Len(texts) : p = sc.pred
    BY Zenon, <1>2
  <2>2. PICK m \in Nat : m = sc.nulls
    BY Zenon, <1>1
  <2>3. PICK g \in LineTexts : g = sc.gfile
    BY Zenon
  <2>4. texts2 = texts \o [i \in 1..m |-> texts[p]] \o <<g>>
    BY Zenon, <2>1, <2>2, <2>3 DEF TextsAfter
  <2>5. texts \in Seq(LineTexts)
    BY Zenon, <1>1
  <2>6. texts2 \in Seq(LineTexts) /\ TextsGrown(texts2, texts, p, m, g)
    BY <2>4, <2>5, GrownTexts
  <2> QED BY Zenon, <2>1, <2>2, <2>3, <2>6
<1> QED BY Zenon, <1>3 DEF TextsAdded, TextsGrown

LEMMA FinishKept ==
  ASSUME NEW sc, NEW tab, NEW texts, NEW lines, NEW lists, NEW W, NEW script, NEW at, NEW i, NEW c, NEW q,
         NEW p, NEW new, Finishing(sc, tab, lines, lists, W, script, at, i, c, q, p, new),
         Kept(tab, lines, texts, lists),
         NEW tab2, tab2 = TableAfter(sc, tab), NEW texts2, texts2 = TextsAfter(sc, texts)
  PROVE  Kept(tab2, new, texts2, lists)
<1>1. /\ Weaving(new, lines, Len(lines), sc.seq, {}, {}, Hosts(lines, W))
      /\ \A V : Adds(lines, sc.seq, W, V) => Version(new, V) = sc.gfile
      /\ sc.gfile \in LineTexts
      /\ Counting(sc.inserted, sc.deleted, sc.unchanged, Len(sc.gfile), Len(Version(lines, W)))
      /\ Len(sc.gfile) \in Nat /\ Len(Version(lines, W)) \in Nat
  BY FinishIs
<1>2. ScanAt(sc, tab, lines, lists, W, script, at, i, c)
  BY Zenon DEF Finishing
<1>3. Planned(sc, tab, W, lists) /\ lines # <<>>
  BY Zenon, <1>2 DEF ScanAt, Job
<1>4. Ready(sc, tab, texts, lines, lists, W)
  BY Zenon, <1>3 DEF Ready, Kept
<1>5. sc.inserted \in Nat /\ sc.deleted \in Nat /\ sc.unchanged \in Nat
  BY Zenon, <1>1 DEF Counting
<1>6. Added(sc, tab, tab2) /\ CountsAdded(sc, tab, tab2)
  BY <1>4, <1>5, FinishGrown
<1>7. TextsAdded(sc, texts, texts2)
  BY <1>1, <1>4, FinishTextsAdded
<1>8. TableOK(tab2, texts2) /\ BodyOK(new, tab2)
  BY Zenon, <1>1, <1>3, <1>4, <1>6, <1>7, FinishTable, FinishBody
<1>9. ASSUME Steady(tab2, lists)
      PROVE  TextsKept(new, tab2, texts2) /\ CountsKept(tab2, texts2)
  <2>1. Len(tab) \in Nat
    BY Zenon, <1>4, ReadyIs
  <2>2. Steady(tab, lists) /\ Plainly(tab, sc.pred, sc.incl)
    BY Zenon, <1>3, <1>6, <1>9, <2>1, SteadyBefore
  <2>3. TextsKept(lines, tab, texts) /\ CountsKept(tab, texts)
    BY Zenon, <2>2 DEF Kept
  <2>4. TextsKept(new, tab2, texts2)
    BY Zenon, <1>1, <1>4, <1>6, <1>7, <2>2, <2>3, FinishTexts
  <2>5. CountsKept(tab2, texts2)
    BY Zenon, <1>1, <1>4, <1>6, <1>7, <2>3, FinishCounts
  <2> QED BY Zenon, <2>4, <2>5
<1> QED BY Zenon, <1>8, <1>9 DEF Kept

LEMMA FinishHolds ==
  ASSUME IInv, AsksDiff, ScanFinish(Processed)
  PROVE  IInv'
<1>1. PICK W, script, at, i, c : Here(W, script, at, i, c)
  BY Zenon, ScanningIs, AsksHere
<1>2. PICK p : p = Process(scan.ds, scan.diff)
  OBVIOUS
<1>3. PICK new : new = scan.out \o Brackets(p.control, scan.seq)
  OBVIOUS
<1>4. WithBrackets(p) = new
  BY Zenon, <1>3 DEF WithBrackets, Brackets
<1>5. ScanFinish(p)
  BY Zenon, <1>2 DEF Processed
<1>6. /\ p.state # "INSERT" /\ AtEnd /\ body' = new /\ scan' = Idle /\ use' = use
      /\ table' = TableAfter(scan, table) /\ checkedIn' = TextsAfter(scan, checkedIn)
  <2>1. /\ p.state # "INSERT" /\ AtEnd /\ body' = new /\ scan' = Idle /\ use' = use
    BY Zenon, <1>4, <1>5 DEF ScanFinish, NotInserting
  <2>2. checkedIn' = TextsAfter(scan, checkedIn)
    BY Zenon, <1>5 DEF ScanFinish, TextsAfter
  <2>3. table' = TableAfter(scan, table)
    BY Zenon, <1>5 DEF ScanFinish, TableAfter, NewTable, NullDeltas, NewPrev
  <2> QED BY Zenon, <2>1, <2>2, <2>3
<1>7. ScanAt(scan, table, body, use.lists, W, script, at, i, c)
  BY Zenon, <1>1 DEF Here
<1>8. i = Len(body)
  <2>1. /\ i \in 0..Len(body) /\ i \in Nat /\ Len(body) \in Nat /\ scan.pos = i + 1
        /\ scan.pos > Len(body) <=> i = Len(body)
    BY Zenon, <1>7, ScanAtIs
  <2> QED BY <2>1, <1>6 DEF AtEnd
<1>9. PICK q : q = SoFar(body, W, i)
  OBVIOUS
<1>10. Asks(scan, body)
  BY Zenon, AsksHere
<1>11. Deciding(body, scan.seq, Len(table), W, script, scan.diff, at, i, c, q, scan.ss, p, new)
  BY <1>2, <1>3, <1>7, <1>9, <1>10, AskingHere
<1>12. Finishing(scan, table, body, use.lists, W, script, at, i, c, q, p, new)
  BY Zenon, <1>6, <1>7, <1>8, <1>9, <1>11 DEF Finishing
<1>13. Kept(table, body, checkedIn, use.lists)
  BY Zenon DEF IInv
<1>14. PICK tab2 : tab2 = table'
  OBVIOUS
<1>15. PICK texts2 : texts2 = checkedIn'
  OBVIOUS
<1>16. tab2 = TableAfter(scan, table) /\ texts2 = TextsAfter(scan, checkedIn)
  BY Zenon, <1>6, <1>14, <1>15
<1>17. Kept(tab2, new, texts2, use.lists)
  BY <1>12, <1>13, <1>16, FinishKept
<1>18. Kept(table', body', checkedIn', use'.lists)
  BY Zenon, <1>6, <1>14, <1>15, <1>17
<1> QED BY Zenon, <1>6, <1>18 DEF IInv
-----------------------------------------------------------------------------
(* rmdel.                                                                  *)

\* rmdel refuses a delta that another one depends on.
LEMMA PermittedIsUnused ==
  ASSUME NEW s, RmdelPermitted(s)
  PROVE  Unused(table, s)
BY Zenon DEF RmdelPermitted, Unused

\* No other current delta's bracket stands within the insertion of such a delta.
LEMMA UnusedEnclosesNone ==
  ASSUME NEW tab, NEW lines, Sound(tab), BodyOK(lines, tab), NEW s, Unused(tab, s)
  PROVE  \A t : ~Encloses(lines, s, t)
<1> SUFFICES ASSUME NEW t, Encloses(lines, s, t) PROVE FALSE
  OBVIOUS
<1>1. s # t /\ t \in Owners(lines)
  BY Zenon DEF Encloses, Owners
<1>2. t \in Current(tab)
  BY Zenon, <1>1 DEF BodyOK
<1>3. Closed(tab, (Current(tab) \cup {0}) \ {s})
  BY Zenon, UnusedIs
<1>4. (Current(tab) \cup {0}) \ {s} \in SUBSET Nat
  <2>1. Current(tab) \subseteq 1..Len(tab)
    BY Zenon, CurrentIs DEF Sound
  <2> QED BY <2>1
<1>5. Below(tab, s, t)
  BY Zenon DEF BodyOK
<1> QED BY Zenon, <1>1, <1>2, <1>3, <1>4, <1>5 DEF Below

\* What rmdel leaves.
LEMMA ReducedBody ==
  ASSUME NEW tab, NEW lines, Sound(tab), BodyOK(lines, tab), NEW s, Unused(tab, s)
  PROVE  /\ RemoveBody(lines, s).ok
         /\ \E r : Reduced(lines, s, Len(lines), r) /\ RemoveBody(lines, s).out = r.out
BY Zenon, UnusedEnclosesNone, BodyIsReduced DEF BodyOK

LEMMA RemovedBody ==
  ASSUME NEW tab, NEW lines, Sound(tab), BodyOK(lines, tab), NEW s, Unused(tab, s),
         NEW tab2, DeltaRemoved(tab2, tab, s), NEW new, NEW r,
         Reduced(lines, s, Len(lines), r), new = r.out
  PROVE  BodyOK(new, tab2)
<1>1. /\ Current(tab2) = Current(tab) \ {s}
      /\ \A S : Closed(tab2, S) => Closed(tab, S)
  BY Zenon DEF DeltaRemoved
<1>2. /\ new \in Seq(Line) /\ Woven(new)
      /\ OpenI(new, Len(new)) = OpenI(lines, Len(lines)) \ {s}
      /\ OpenD(new, Len(new)) = OpenD(lines, Len(lines)) \ {s}
      /\ Owners(new) \subseteq Owners(lines) \ {s}
      /\ \A a, b : Encloses(new, a, b) => Encloses(lines, a, b)
      /\ Len(lines) >= 1 /\ IsControl(lines[1]) /\ lines[1].seq # s => new # <<>> /\ new[1] = lines[1]
  BY Zenon DEF Reduced
<1>3. OpenI(new, Len(new)) = {} /\ OpenD(new, Len(new)) = {}
  BY <1>2 DEF BodyOK
<1>4. Owners(new) \subseteq Current(tab2)
  BY <1>1, <1>2 DEF BodyOK
<1>5. \A a, b : Encloses(new, a, b) => Below(tab2, a, b)
  BY Zenon, <1>1, <1>2 DEF BodyOK, Below
<1>6. ASSUME 1 \in Current(tab2) PROVE new # <<>> /\ new[1] = Control("I", 1)
  <2>1. 1 \in Current(tab) /\ s # 1
    BY Zenon, <1>1, <1>6
  <2>2. lines # <<>> /\ lines[1] = Control("I", 1) /\ lines \in Seq(Line)
    BY Zenon, <2>1 DEF BodyOK
  <2>3. Len(lines) >= 1
    BY <2>2
  <2>4. IsControl(lines[1]) /\ lines[1].seq = 1
    BY <2>2 DEF Control, IsControl
  <2> QED BY Zenon, <1>2, <2>1, <2>2, <2>3, <2>4
<1> QED BY <1>2, <1>3, <1>4, <1>5, <1>6 DEF BodyOK

LEMMA RemovedKept ==
  ASSUME NEW tab, NEW lines, NEW texts, NEW lists, Kept(tab, lines, texts, lists),
         NEW s, Unused(tab, s), NEW tab2, DeltaRemoved(tab2, tab, s), NEW new, NEW r,
         Reduced(lines, s, Len(lines), r), new = r.out
  PROVE  Kept(tab2, new, texts, lists)
<1>0. TableOK(tab, texts) /\ BodyOK(lines, tab)
  BY Zenon DEF Kept
<1>1. Sound(tab) /\ Ordered(tab)
  BY Zenon, <1>0 DEF TableOK, Sound
<1>2. /\ Sound(tab2) /\ Len(tab2) = Len(tab)
      /\ Current(tab2) = Current(tab) \ {s}
      /\ \A t \in 0..Len(tab) : VersionOf(tab2, t) = VersionOf(tab, t)
      /\ \A t \in 1..Len(tab) :
           /\ tab2[t].prev = tab[t].prev /\ tab2[t].incl = tab[t].incl /\ tab2[t].excl = tab[t].excl
           /\ tab2[t].inserted = Cap5(tab[t].inserted)
           /\ tab2[t].deleted = Cap5(tab[t].deleted)
           /\ tab2[t].unchanged = Cap5(tab[t].unchanged)
  BY Zenon DEF DeltaRemoved
<1>3. BodyOK(new, tab2)
  BY <1>0, <1>1, RemovedBody
<1>4. TableOK(tab2, texts)
  BY Zenon, <1>0, <1>2 DEF TableOK
<1>5. Steady(tab2, lists) => Steady(tab, lists)
  BY Zenon, <1>2 DEF Steady
<1>6. ASSUME TextsKept(lines, tab, texts)
      PROVE  TextsKept(new, tab2, texts)
  <2> SUFFICES ASSUME NEW t \in Current(tab2) PROVE Version(new, VersionOf(tab2, t)) = texts[t]
    BY Zenon DEF TextsKept
  <2>1. t \in Current(tab) \ {s} /\ t \in 0..Len(tab) /\ Len(tab) \in Nat
    <3>1. Current(tab) \subseteq 1..Len(tab) /\ Len(tab) \in Nat
      BY Zenon, <1>1, CurrentIs
    <3>2. t \in Current(tab) \ {s}
      BY Zenon, <1>2
    <3> QED BY <3>1, <3>2
  <2>2. VersionOf(tab2, t) = VersionOf(tab, t)
    BY Zenon, <1>2, <2>1
  <2>3. s \notin VersionOf(tab, t)
    BY Zenon, <1>1, <2>1, UnusedIs
  <2>4. VersionOf(tab, t) \in SUBSET Nat
    BY Zenon, <1>1, <2>1, VersionTyped
  <2>5. Version(r.out, VersionOf(tab, t)) = Outputs(lines, VersionOf(tab, t))[Len(lines)]
    BY Zenon, <2>3, <2>4 DEF Reduced
  <2>6. Version(lines, VersionOf(tab, t)) = texts[t]
    BY Zenon, <1>6, <2>1 DEF TextsKept
  <2> QED BY Zenon, <2>2, <2>5, <2>6 DEF Version
<1>7. ASSUME CountsKept(tab, texts)
      PROVE  CountsKept(tab2, texts)
  <2> SUFFICES ASSUME NEW t \in 1..Len(tab)
               PROVE  /\ NewCount(tab2[t].inserted, tab2[t].deleted, tab2[t].unchanged, Len(texts[t]))
                      /\ ListsNothing(tab2[t]) =>
                           OldCount(tab2[t].inserted, tab2[t].deleted, tab2[t].unchanged,
                                    Len(texts[tab2[t].prev]))
    BY Zenon, <1>2 DEF CountsKept
  <2>1. /\ tab2[t].prev = tab[t].prev /\ tab2[t].incl = tab[t].incl /\ tab2[t].excl = tab[t].excl
        /\ tab2[t].inserted = Cap5(tab[t].inserted)
        /\ tab2[t].deleted = Cap5(tab[t].deleted)
        /\ tab2[t].unchanged = Cap5(tab[t].unchanged)
    BY Zenon, <1>2
  <2> QED BY Zenon, <1>0, <1>7, <2>1, CountsWritten
<1> QED BY Zenon, <1>3, <1>4, <1>5, <1>6, <1>7 DEF Kept

LEMMA RmdelHolds ==
  ASSUME IInv, NEW seq, Rmdel(seq)
  PROVE  IInv'
<1>1. /\ RmdelPermitted(seq) /\ scan.pc = "idle"
      /\ table' = Reread([table EXCEPT ![seq].type = "R"])
      /\ body' = RemoveBody(body, seq).out
      /\ UNCHANGED <<scan, checkedIn, use>>
  BY Zenon DEF Rmdel
<1>2. Kept(table, body, checkedIn, use.lists)
  BY Zenon DEF IInv
<1>3. Sound(table) /\ BodyOK(body, table)
  BY Zenon, <1>2 DEF Kept, TableOK
<1>4. Unused(table, seq)
  BY Zenon, <1>1, PermittedIsUnused
<1>5. PICK r : Reduced(body, seq, Len(body), r) /\ RemoveBody(body, seq).out = r.out
  BY Zenon, <1>3, <1>4, ReducedBody
<1>6. DeltaRemoved(table', table, seq)
  BY <1>1, <1>3, <1>4, RemovedIs
<1>7. body' = r.out
  BY Zenon, <1>1, <1>5
<1>8. Kept(table', body', checkedIn, use.lists)
  BY <1>2, <1>4, <1>5, <1>6, <1>7, RemovedKept
<1>9. scan = Idle
  <2>1. ASSUME Busy(scan, table, body, use.lists) PROVE FALSE
    <3>1. PICK W, script, at, i, c : ScanAt(scan, table, body, use.lists, W, script, at, i, c)
      BY Zenon, <2>1 DEF Busy
    <3>2. scan.pc = "scan"
      BY Zenon, <3>1 DEF ScanAt, Recorded
    <3> QED BY <1>1, <3>2
  <2> QED BY Zenon, <2>1 DEF IInv
<1> QED BY Zenon, <1>1, <1>8, <1>9 DEF IInv

LEMMA StepHolds == IInv /\ [Next]_vars => IInv'
<1> SUFFICES ASSUME IInv, [Next]_vars PROVE IInv'
  OBVIOUS
<1>1. CASE CheckIn
  BY Zenon, <1>1, CheckInHolds
<1>2. CASE ScanControl
  BY Zenon, <1>2, ControlHolds
<1>3. CASE ScanOtherText
  BY Zenon, <1>3, OtherHolds
<1>4. CASE ScanDiff
  <2>1. AsksDiff
    BY Zenon, <1>4 DEF ScanDiff
  <2>2. \/ ScanInsert(Processed) \/ ScanLineTooLong(Processed)
        \/ ScanOldText(Processed) \/ ScanFinish(Processed)
    BY <1>4 DEF ScanDiff
  <2>3. CASE ScanInsert(Processed)
    BY Zenon, <2>1, <2>3, InsertHolds
  <2>4. CASE ScanLineTooLong(Processed)
    BY Zenon, <2>4, TooLongHolds
  <2>5. CASE ScanOldText(Processed)
    BY Zenon, <2>1, <2>5, OldHolds
  <2>6. CASE ScanFinish(Processed)
    BY Zenon, <2>1, <2>6, FinishHolds
  <2> QED BY Zenon, <2>2, <2>3, <2>4, <2>5, <2>6
<1>5. CASE RemoveDelta
  BY Zenon, <1>5, RmdelHolds DEF RemoveDelta
<1>6. CASE UNCHANGED vars
  BY Zenon, <1>6 DEF vars, IInv
<1> QED BY Zenon, <1>1, <1>2, <1>3, <1>4, <1>5, <1>6 DEF Next

\* Whatever the lists, and whatever was added or removed, the file is a weave of its
\* current deltas, and a check-in in progress reads it as get would.
THEOREM InvariantHolds == Spec => []IInv
<1>1. Init => IInv
  BY InitHolds
<1>2. IInv /\ [Next]_vars => IInv'
  BY StepHolds
<1> QED BY <1>1, <1>2, PTL DEF Spec

-----------------------------------------------------------------------------
(* The properties.                                                         *)

LEMMA LineTyped == Line \subseteq Lines
<1>1. 1..MaxDeltas \subseteq Nat
  BY Constants
<1> QED BY <1>1 DEF Line, Lines

LEMMA Typed == IInv => TypeOK
<1> SUFFICES ASSUME IInv PROVE TypeOK
  OBVIOUS
<1>1. TableOK(table, checkedIn) /\ BodyOK(body, table)
  BY Zenon DEF IInv, Kept
<1>2. Ordered(table) /\ Len(table) \in 1..MaxDeltas /\ Len(checkedIn) = Len(table)
  BY Zenon, <1>1 DEF TableOK, Sound
<1>3. Deltas(table) = 1..Len(table)
  BY Zenon, <1>2, CurrentIs
<1>4. \A s \in 1..Len(table) :
        /\ table[s].type \in {"D", "R"}
        /\ table[s].prev \in 0..(s - 1)
        /\ table[s].incl \cup table[s].excl \cup table[s].ignd \subseteq 1..(s - 1)
  <2> TAKE s \in 1..Len(table)
  <2>1. table[s] \in DeltaEntries
    BY Zenon, <1>2, EntryIs
  <2>2. table[s].type \in {"D", "R"}
    BY <2>1 DEF DeltaEntries
  <2> QED BY <1>2, <2>2 DEF Ordered
<1>5. \A i \in DOMAIN body : body[i] \in Lines
  <2>1. body \in Seq(Line)
    BY Zenon, <1>1 DEF BodyOK
  <2>2. \A i \in DOMAIN body : body[i] \in Line
    BY <2>1
  <2> QED BY Zenon, <2>2, LineTyped
<1>6. scan.pc \in {"idle", "scan"}
  <2>1. CASE scan = Idle
    BY <2>1 DEF Idle
  <2>2. CASE Busy(scan, table, body, use.lists)
    BY Zenon, <2>2 DEF Busy, ScanAt, Recorded
  <2> QED BY Zenon, <2>1, <2>2 DEF IInv
<1> QED BY Zenon, <1>2, <1>3, <1>4, <1>5, <1>6 DEF TypeOK

LEMMA RemovalWorks == IInv => RemovableDeltaIsTerminal
<1> SUFFICES ASSUME IInv, NEW s, RmdelPermitted(s) PROVE RemoveBody(body, s).ok
  BY Zenon DEF RemovableDeltaIsTerminal
<1>1. Sound(table) /\ BodyOK(body, table)
  BY Zenon DEF IInv, Kept, TableOK
<1> QED BY Zenon, <1>1, PermittedIsUnused, ReducedBody

LEMMA NeverStuck == IInv => ScanNeverStuck
<1> SUFFICES ASSUME IInv, Scanning
             PROVE  /\ ~AtEnd /\ IsControl(OldLine) => BracketOK(scan.ss, OldLine, scan.seq - 1)
                    /\ AtEnd => ActiveBrackets(scan.ss) = {}
                    /\ AsksDiff => \A p \in {Processed} :
                                     p.ok /\ (NotInserting(p) /\ AtEnd => p.pos = Len(scan.diff))
  BY Zenon DEF ScanNeverStuck
<1>1. PICK W, script, at, i, c : Here(W, script, at, i, c)
  BY Zenon, ScanningIs
<1>2. ScanAt(scan, table, body, use.lists, W, script, at, i, c)
  BY Zenon, <1>1 DEF Here
<1>3. /\ Job(body, scan.seq, Len(table), W, script, scan.diff, at)
      /\ Progress(body, scan.seq, Len(table), W, script, scan.diff, at, i, c, scan.ss, scan.ds, scan.out)
      /\ i \in 0..Len(body) /\ i \in Nat /\ Len(body) \in Nat /\ scan.pos = i + 1
      /\ scan.pos > Len(body) <=> i = Len(body)
  BY Zenon, <1>2, ScanAtIs
<1>4. ASSUME ~AtEnd, IsControl(OldLine)
      PROVE  BracketOK(scan.ss, OldLine, scan.seq - 1)
  <2>1. i < Len(body) /\ scan.pos = i + 1
    BY Zenon, <1>1, <1>4, NotAtEnd
  <2>2. PICK k : k = i + 1
    OBVIOUS
  <2>3. PICK x : x = body[k]
    OBVIOUS
  <2>4. OldLine = x
    BY Zenon, <2>1, <2>2, <2>3 DEF OldLine
  <2>6. IsControl(x)
    BY Zenon, <1>4, <2>4
  <2>7. \A h \in Nat : Len(table) <= h => BracketOK(scan.ss, x, h)
    <3>1. i < Len(body)
      BY Zenon, <2>1
    <3>2. /\ Progress(body, scan.seq, Len(table), W, script, scan.diff, at, k, c,
                      Follow(scan.ss, x), scan.ds, Append(scan.out, x))
          /\ SoFar(body, W, k) = SoFar(body, W, i)
          /\ \A h \in Nat : Len(table) <= h => BracketOK(scan.ss, x, h)
      BY <1>3, <3>1, <2>2, <2>3, <2>6, StepControl
    <3> QED BY Zenon, <3>2
  <2>8. scan.seq \in Nat /\ Len(table) \in Nat /\ Len(table) < scan.seq
    BY Zenon, <1>3 DEF Job
  <2>9. scan.seq - 1 \in Nat /\ Len(table) <= scan.seq - 1
    BY <2>8
  <2> QED BY Zenon, <2>4, <2>7, <2>9
<1>5. ASSUME AtEnd PROVE ActiveBrackets(scan.ss) = {}
  <2>1. i = Len(body)
    BY Zenon, <1>3, <1>5 DEF AtEnd
  <2>2. scan.ss.inserts = OpenI(body, i) /\ scan.ss.deletes = OpenD(body, i)
    BY Zenon, <1>3 DEF Progress, Reading
  <2>3. OpenI(body, Len(body)) = {} /\ OpenD(body, Len(body)) = {}
    BY Zenon, <1>3 DEF Job
  <2> QED BY <2>1, <2>2, <2>3 DEF ActiveBrackets
<1>6. ASSUME AsksDiff
      PROVE  /\ Processed.ok
             /\ NotInserting(Processed) /\ AtEnd => Processed.pos = Len(scan.diff)
  <2>1. Asks(scan, body)
    BY Zenon, <1>6, AsksHere
  <2>2. PICK p : p = Process(scan.ds, scan.diff)
    OBVIOUS
  <2>3. PICK new : new = scan.out \o Brackets(p.control, scan.seq)
    OBVIOUS
  <2>4. PICK q : q = SoFar(body, W, i)
    OBVIOUS
  <2>5. Deciding(body, scan.seq, Len(table), W, script, scan.diff, at, i, c, q, scan.ss, p, new)
    BY <1>2, <2>1, <2>2, <2>3, <2>4, AskingHere
  <2>6. p.ok
    BY <1>3, <2>5, DecidingIs
  <2>7. ASSUME NotInserting(p), AtEnd PROVE p.pos = Len(scan.diff)
    <3>1. i = Len(body)
      BY Zenon, <1>3, <2>7 DEF AtEnd
    <3>2. Finishing(scan, table, body, use.lists, W, script, at, i, c, q, p, new)
      BY Zenon, <1>2, <2>4, <2>5, <2>7, <3>1 DEF Finishing, NotInserting
    <3> QED BY <3>2, FinishIs
  <2> QED BY Zenon, <2>2, <2>6, <2>7 DEF Processed
<1> QED BY <1>4, <1>5, <1>6

\* What get answers.
Gives(g, U) == g.ok /\ g.out = Version(body, U) /\ g.who = Who(Version(body, U))

LEMMA GetGives ==
  ASSUME IInv, NEW s \in Current(table), NEW newer \in SUBSET (1..Len(table)),
         NEW U, U = VersionOf(table, s) \ (newer \cap Current(table))
  PROVE  Gives(Get(s, {}, {}, newer), U)
<1>1. TableOK(table, checkedIn) /\ BodyOK(body, table)
  BY Zenon DEF IInv, Kept
<1>2. Ordered(table)
  BY Zenon, <1>1 DEF TableOK, Sound
<1>3. s \in 1..Len(table)
  BY Zenon, <1>2, CurrentIs
<1>4. PICK ss : ss = PrepareSeqstate(table, s, {}, {}, newer)
  OBVIOUS
<1>5. CutoffPrepared(ss, table, s, newer)
  BY Zenon, <1>2, <1>3, <1>4, PreparedCutoff
<1>6. /\ ss \in SeqStates /\ ss.last = Len(table)
      /\ ss.inserts = {} /\ ss.deletes = {} /\ ss.ignored = {} /\ ss.included = U
  BY Zenon, <1>5 DEF CutoffPrepared
<1>7. Current(table) # {}
  OBVIOUS
<1>8. GetBody(body, ss, Len(table)) = ReadUpTo(body, ss, Len(body))
  BY Zenon, <1>1, <1>6, <1>7, GotIs
<1>9. PICK g : g = ReadUpTo(body, ss, Len(body))
  OBVIOUS
<1>10. /\ g.ok /\ g.out = Outputs(body, ss.included)[Len(body)]
       /\ g.who = Who(Outputs(body, ss.included)[Len(body)])
  BY <1>9 DEF ReadUpTo
<1>11. Gives(g, U)
  BY Zenon, <1>6, <1>10 DEF Gives, Version
<1> QED BY Zenon, <1>4, <1>8, <1>9, <1>11 DEF Get

\* ... without a cutoff.
LEMMA GetGivesAll ==
  ASSUME IInv, NEW s \in Current(table)
  PROVE  Gives(Get(s, {}, {}, {}), VersionOf(table, s))
<1>1. PICK U : U = VersionOf(table, s) \ ({} \cap Current(table))
  OBVIOUS
<1>2. U = VersionOf(table, s)
  BY <1>1
<1>3. PICK newer \in SUBSET (1..Len(table)) : newer = {}
  OBVIOUS
<1>4. U = VersionOf(table, s) \ (newer \cap Current(table))
  BY Zenon, <1>1, <1>3
<1>5. Gives(Get(s, {}, {}, newer), U)
  BY <1>4, GetGives
<1> QED BY Zenon, <1>2, <1>3, <1>5

LEMMA VersionIsText ==
  ASSUME IInv, NEW U
  PROVE  Version(body, U) \in LineTexts
<1>1. body \in Seq(Line)
  BY Zenon DEF IInv, Kept, BodyOK
<1> QED BY <1>1, OutputsAre DEF Version

LEMMA Annotated == IInv => AnnotationNamesInserter
<1> SUFFICES ASSUME IInv, NEW s \in Current(table)
             PROVE  LET g == Get(s, {}, {}, {})
                    IN  \A i \in DOMAIN g.out : g.who[i] = g.out[i][1]
  BY Zenon DEF AnnotationNamesInserter
<1>1. PICK g : g = Get(s, {}, {}, {})
  OBVIOUS
<1>2. PICK v : v = Version(body, VersionOf(table, s))
  OBVIOUS
<1>3. v \in LineTexts
  BY Zenon, <1>2, VersionIsText
<1>4. g.out = v /\ g.who = Who(v)
  BY Zenon, <1>1, <1>2, GetGivesAll DEF Gives
<1>5. \A i \in DOMAIN v : Who(v)[i] = v[i][1]
  BY <1>3 DEF Who, LineTexts
<1> QED BY Zenon, <1>1, <1>4, <1>5

LEMMA Retrieved == IInv => (Steady(table, use.lists) => RetrievedIsCheckedIn)
<1> SUFFICES ASSUME IInv, Steady(table, use.lists), NEW s \in Current(table)
             PROVE  LET g == Get(s, {}, {}, {}) IN g.ok /\ g.out = checkedIn[s]
  BY Zenon DEF RetrievedIsCheckedIn
<1>1. TextsKept(body, table, checkedIn)
  BY Zenon DEF IInv, Kept
<1>2. Version(body, VersionOf(table, s)) = checkedIn[s]
  BY Zenon, <1>1 DEF TextsKept
<1> QED BY Zenon, <1>2, GetGivesAll DEF Gives

-----------------------------------------------------------------------------
(* A cutoff.                                                               *)

LEMMA MaxIs ==
  ASSUME NEW c \in Nat, NEW S \in SUBSET (1..c), S # {}
  PROVE  Max(S) \in S /\ \A y \in S : y <= Max(S)
<1> DEFINE Bounds == {u \in Nat : \A y \in S : y <= u}
<1>1. c \in Bounds
  OBVIOUS
<1>2. PICK m \in Bounds : \A k \in Bounds : m <= k
  <2>1. Bounds \subseteq Nat /\ Bounds # {}
    BY <1>1
  <2> HIDE DEF Bounds
  <2> QED BY <2>1, LeastNumber
<1>3. m \in Nat /\ \A y \in S : y <= m
  OBVIOUS
<1>4. m \in S
  <2> SUFFICES ASSUME m \notin S PROVE FALSE
    OBVIOUS
  <2>1. PICK y \in S : TRUE
    OBVIOUS
  <2>2. m - 1 \in Nat
    BY <1>3, <2>1
  <2>3. \A z \in S : z <= m - 1
    BY <1>3
  <2>4. m - 1 \in Bounds
    BY <2>2, <2>3
  <2>5. m <= m - 1
    BY <1>2, <2>4
  <2> QED BY <1>3, <2>5
<1>5. \E x \in S : \A y \in S : x >= y
  BY <1>3, <1>4
<1>6. Max(S) \in S /\ \A y \in S : Max(S) >= y
  BY Zenon, <1>5 DEF Max
<1> QED BY <1>6

\* What a cutoff at delta c leaves of delta s is the version of delta m.
SamePast(tab, s, c, m) ==
  /\ m \in Current(tab)
  /\ \A x \in Current(tab) :
       x \in VersionOf(tab, s) \ ({t \in Deltas(tab) : t > c} \cap Current(tab))
         <=> x \in VersionOf(tab, m)

\* Without lists, the ancestors of a current delta that a cutoff leaves are those of the
\* youngest of them.
LEMMA CutoffIs ==
  ASSUME NEW tab, Sound(tab), \A y \in 1..Len(tab) : tab[y].incl = {} /\ tab[y].excl = {},
         NEW s \in Current(tab), NEW c \in 1..Len(tab),
         NEW anc, anc = Ancestry(tab, s) \cap (1..c), anc # {}, NEW m, m = Max(anc)
  PROVE  SamePast(tab, s, c, m)
<1>1. Ordered(tab)
  BY Zenon DEF Sound
<1>2. Deltas(tab) = 1..Len(tab) /\ Current(tab) \subseteq 1..Len(tab) /\ Len(tab) \in Nat
  BY Zenon, <1>1, CurrentIs
<1>3. s \in 0..Len(tab) /\ s \in 1..Len(tab) /\ c \in Nat
  BY <1>2
<1>4. VersionOf(tab, s) = Ancestors(tab, s) /\ Ancestry(tab, s) = Ancestors(tab, s)
  BY Zenon, <1>1, <1>3, VersionPlain, AncestryIs
<1>5. anc \in SUBSET (1..c) /\ anc = Ancestors(tab, s) \cap (1..c)
  BY Zenon, <1>4
<1>6. m \in anc /\ \A y \in anc : y <= m
  BY Zenon, <1>3, <1>5, MaxIs
<1>7. m \in Ancestors(tab, s) /\ m \in 1..c /\ m \in 1..Len(tab) /\ m \in 0..Len(tab)
  BY <1>2, <1>3, <1>5, <1>6
<1>8. VersionOf(tab, m) = Ancestors(tab, m)
  BY Zenon, <1>1, <1>7, VersionPlain
<1>9. Ancestors(tab, s) \cap (0..m) = Ancestors(tab, m)
  BY Zenon, <1>1, <1>3, <1>7, AncestorsSplit
<1>10. m \in Current(tab)
  <2> DEFINE S == Current(tab) \cup {0}
  <2>1. S \in SUBSET Nat /\ s \in S
    BY <1>2
  <2>2. Closed(tab, S)
    BY <1>2 DEF Closed, Sound
  <2>3. VersionOf(tab, s) \subseteq S
    BY Zenon, <1>1, <1>3, <2>1, <2>2, VersionWithin
  <2> QED BY <1>4, <1>7, <2>3
<1>11. ASSUME NEW x \in Current(tab)
       PROVE  x \in VersionOf(tab, s) \ ({t \in Deltas(tab) : t > c} \cap Current(tab))
                <=> x \in VersionOf(tab, m)
  <2>1. x \in 1..Len(tab) /\ x \in Nat /\ x >= 1
    BY <1>2
  <2>2. x \in VersionOf(tab, s) \ ({t \in Deltas(tab) : t > c} \cap Current(tab))
          <=> x \in Ancestors(tab, s) /\ ~(x > c)
    BY Zenon, <1>2, <1>4, <2>1
  <2>3. x \in Ancestors(tab, m) <=> x \in Ancestors(tab, s) /\ x \in 0..m
    BY Zenon, <1>9
  <2>4. x \in 0..m => ~(x > c)
    BY <1>7, <1>3, <2>1
  <2>5. x \in Ancestors(tab, s) /\ ~(x > c) => x \in 0..m
    <3>1. ASSUME x \in Ancestors(tab, s), ~(x > c) PROVE x \in 0..m
      <4>1. x \in 1..c
        BY <1>3, <2>1, <3>1
      <4>2. x <= m
        BY <1>5, <1>6, <3>1, <4>1
      <4> QED BY <1>7, <2>1, <4>2
    <3> QED BY <3>1
  <2> QED BY Zenon, <1>8, <2>2, <2>3, <2>4, <2>5
<1> QED BY Zenon, <1>10, <1>11 DEF SamePast

LEMMA CutOff == IInv => CutoffGivesAncestor
<1> SUFFICES ASSUME IInv, \A t \in Deltas(table) : table[t].incl \cup table[t].excl = {},
                    NEW s \in Current(table), NEW c \in Deltas(table),
                    NEW anc, anc = Ancestry(table, s) \cap (1..c), anc # {}
             PROVE  Get(s, {}, {}, {t \in Deltas(table) : t > c}).out = checkedIn[Max(anc)]
  BY Zenon DEF CutoffGivesAncestor
<1>1. TableOK(table, checkedIn) /\ BodyOK(body, table)
  BY Zenon DEF IInv, Kept
<1>2. Sound(table) /\ Ordered(table)
  BY Zenon, <1>1 DEF TableOK, Sound
<1>3. Deltas(table) = 1..Len(table) /\ Len(table) \in Nat
  BY Zenon, <1>2, CurrentIs
<1>4. \A y \in 1..Len(table) : table[y].incl = {} /\ table[y].excl = {}
  <2> TAKE y \in 1..Len(table)
  <2>1. table[y].incl \cup table[y].excl = {}
    BY Zenon, <1>3
  <2> QED BY <2>1
<1>5. TextsKept(body, table, checkedIn)
  BY Zenon, <1>4 DEF IInv, Kept, Steady
<1>6. PICK m : m = Max(anc)
  OBVIOUS
<1>7. PICK newer : newer = {t \in Deltas(table) : t > c}
  OBVIOUS
<1>8. newer \in SUBSET (1..Len(table)) /\ c \in 1..Len(table)
  BY <1>3, <1>7
<1>9. PICK U : U = VersionOf(table, s) \ (newer \cap Current(table))
  OBVIOUS
<1>10. /\ m \in Current(table)
       /\ \A x \in Current(table) :
            x \in VersionOf(table, s) \ ({t \in Deltas(table) : t > c} \cap Current(table))
              <=> x \in VersionOf(table, m)
  <2>1. SamePast(table, s, c, m)
    BY <1>2, <1>4, <1>6, <1>8, CutoffIs
  <2> QED BY Zenon, <2>1 DEF SamePast
<1>11. \A x \in Owners(body) : x \in U <=> x \in VersionOf(table, m)
  <2>1. \A x \in Owners(body) : x \in Current(table)
    BY Zenon, <1>1 DEF BodyOK
  <2> QED BY Zenon, <1>7, <1>9, <1>10, <2>1
<1>12. Version(body, U) = Version(body, VersionOf(table, m))
  <2>1. body \in Seq(Line) /\ Woven(body)
    BY Zenon, <1>1 DEF BodyOK
  <2> QED BY <1>11, <2>1, SameOwners
<1>13. Gives(Get(s, {}, {}, newer), U)
  BY <1>8, <1>9, GetGives
<1>14. Version(body, VersionOf(table, m)) = checkedIn[m]
  BY Zenon, <1>5, <1>10 DEF TextsKept
<1> QED BY Zenon, <1>6, <1>7, <1>12, <1>13, <1>14 DEF Gives

\* No version is longer than the five digits of a count can say.
CountsFit == \A s \in Deltas(table) : Len(checkedIn[s]) <= 99999

LEMMA CountsHold == IInv => (Steady(table, use.lists) /\ CountsFit => CountsAddUp)
<1> SUFFICES ASSUME IInv, Steady(table, use.lists), CountsFit, NEW s \in Deltas(table),
                    NEW d, d = table[s], d.inserted + d.deleted + d.unchanged > 0
             PROVE  /\ d.inserted + d.unchanged = Len(checkedIn[s])
                    /\ d.incl \cup d.excl = {} /\ d.prev # 0 =>
                         d.deleted + d.unchanged = Len(checkedIn[d.prev])
  BY Zenon DEF CountsAddUp
<1>1. TableOK(table, checkedIn) /\ CountsKept(table, checkedIn)
  BY Zenon DEF IInv, Kept
<1>2. Ordered(table)
  BY Zenon, <1>1 DEF TableOK, Sound
<1>3. Deltas(table) = 1..Len(table) /\ Len(table) \in Nat
  BY Zenon, <1>2, CurrentIs
<1>4. s \in 1..Len(table) /\ Len(checkedIn[s]) <= 99999
  BY <1>3 DEF CountsFit
<1>5. /\ NewCount(d.inserted, d.deleted, d.unchanged, Len(checkedIn[s]))
      /\ ListsNothing(d) =>
           OldCount(d.inserted, d.deleted, d.unchanged, Len(checkedIn[d.prev]))
  <2>1. s \in 1..Len(table)
    BY <1>4
  <2>2. \A t \in 1..Len(table) :
          /\ NewCount(table[t].inserted, table[t].deleted, table[t].unchanged, Len(checkedIn[t]))
          /\ ListsNothing(table[t]) =>
               OldCount(table[t].inserted, table[t].deleted, table[t].unchanged,
                        Len(checkedIn[table[t].prev]))
    BY Zenon, <1>1 DEF CountsKept
  <2> QED BY <2>1, <2>2
<1>6. d.inserted + d.unchanged = Len(checkedIn[s])
  BY <1>4, <1>5 DEF NewCount
<1>7. ASSUME d.incl \cup d.excl = {}, d.prev # 0
      PROVE  d.deleted + d.unchanged = Len(checkedIn[d.prev])
  <2>1. d.incl = {} /\ d.excl = {}
    BY <1>7
  <2>2. ListsNothing(d)
    BY Zenon, <1>7, <2>1 DEF ListsNothing
  <2>3. d.prev \in 0..(s - 1)
    BY <1>2, <1>4 DEF Ordered
  <2>4. d.prev \in 1..Len(table)
    BY <1>3, <1>4, <1>7, <2>3
  <2>5. Len(checkedIn[d.prev]) <= 99999
    BY <1>3, <2>4 DEF CountsFit
  <2> QED BY <1>5, <2>2, <2>5 DEF OldCount
<1> QED BY Zenon, <1>6, <1>7

-----------------------------------------------------------------------------
(* What holds of every use of a history file.                              *)

\* The delta table and the body keep their form through every check-in and removal:
\* predecessors and lists name earlier deltas, the body has lines that get can read.
THEOREM TypeCorrect == Spec => []TypeOK
<1>1. Spec => []IInv
  BY InvariantHolds
<1>2. IInv => TypeOK
  BY Typed
<1> QED BY <1>1, <1>2, PTL

\* sccs_file::add_delta never stops half way, whatever the lists, the edit and the other
\* deltas: start and end accept every bracket, diff_state reads diff's output to its end.
THEOREM ScanNeverSticks == Spec => []ScanNeverStuck
<1>1. Spec => []IInv
  BY InvariantHolds
<1>2. IInv => ScanNeverStuck
  BY NeverStuck
<1> QED BY <1>1, <1>2, PTL

\* get -m names, beside each line, the delta that inserted it (active_ of seq_state).
THEOREM AnnotationIsRight == Spec => []AnnotationNamesInserter
<1>1. Spec => []IInv
  BY InvariantHolds
<1>2. IInv => AnnotationNamesInserter
  BY Annotated
<1> QED BY <1>1, <1>2, PTL

\* sccs_file::remove never meets a "non-terminal delta" that rmdel's checks let pass.
THEOREM RemovalIsClean == Spec => []RemovableDeltaIsTerminal
<1>1. Spec => []IInv
  BY InvariantHolds
<1>2. IInv => RemovableDeltaIsTerminal
  BY RemovalWorks
<1> QED BY <1>1, <1>2, PTL

\* get -c: in a table without lists the cutoff gives the text of the youngest ancestor
\* that it leaves (sccs_file::prepare_seqstate).
THEOREM CutoffIsAncestor == Spec => []CutoffGivesAncestor
<1>1. Spec => []IInv
  BY InvariantHolds
<1>2. IInv => CutoffGivesAncestor
  BY CutOff
<1> QED BY <1>1, <1>2, PTL

\* What was checked in as a current delta is what get retrieves, as long as the lists
\* were disciplined or no delta of the table has any (add_delta against get).
THEOREM WhatIsCheckedInIsKept ==
  Spec => [](Steady(table, use.lists) => RetrievedIsCheckedIn)
<1>1. Spec => []IInv
  BY InvariantHolds
<1>2. IInv => (Steady(table, use.lists) => RetrievedIsCheckedIn)
  BY Retrieved
<1> QED BY <1>1, <1>2, PTL

\* The counts that sccs_file_body_scanner::delta writes in the ^As line add up, through
\* every later rewriting of the table, for texts that five digits can count.
THEOREM CountsAreRight ==
  Spec => [](Steady(table, use.lists) /\ CountsFit => CountsAddUp)
<1>1. Spec => []IInv
  BY InvariantHolds
<1>2. IInv => (Steady(table, use.lists) /\ CountsFit => CountsAddUp)
  BY CountsHold
<1> QED BY <1>1, <1>2, PTL

=============================================================================
