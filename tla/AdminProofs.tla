---------------------------- MODULE AdminProofs ----------------------------
(***************************************************************************)
(* The header of a history file, whatever options admin and cdc are given: *)
(* its encoded flag and its checksum, for any modulus; and its flags, its  *)
(* users, MRs and comments, for any releases and letters.                  *)
(*                                                                         *)
(* The loops of sccs_file::admin are recursive functions.  Each of them is *)
(* named by the CHOOSE it stands for, shown to exist with UpwardRecursion, *)
(* and followed with UpwardInduction.                                      *)
(***************************************************************************)
EXTENDS Admin, OperatorProofs, FiniteSetTheorems, TLAPS

\* The encoded flag always has a line, which says what the body needs.
HasEncodedLine == "e" \in DOMAIN file.lines /\ file.lines["e"] \in {<<"0">>, <<"1">>}

Summed ==
  file # Absent => HasEncodedLine /\ file.stored = Checksum(file.lines, file.rest)

Marked ==
  file # Absent =>
    /\ HasEncodedLine
    /\ file.body = "encoded" => ReadEncoded(file.lines)
    /\ file.body = "text" => ~ReadEncoded(file.lines)

-----------------------------------------------------------------------------
\* The line of the encoded flag in a header that is written.
LEMMA EncodedLine ==
  ASSUME NEW flags, NEW encoded
  PROVE  /\ "e" \in DOMAIN WriteFlags(flags, encoded)
         /\ WriteFlags(flags, encoded)["e"] = IF encoded THEN <<"1">> ELSE <<"0">>
BY DEF WriteFlags, HasLine, FlagLine, Switches, Texts

\* Adding one to a sum that has been reduced.
LEMMA SumAgain ==
  ASSUME NEW rest \in 0..(SumModulus - 1)
  PROVE  (((rest + 0) % SumModulus) + 1) % SumModulus = (rest + 1) % SumModulus
<1>1. SumModulus \in Nat /\ SumModulus # 0
  BY AdminAssumption
<1>2. (rest + 0) % SumModulus = rest
  BY <1>1
<1> QED
  BY <1>2

\* end_update leaves a right checksum, and the flag as it is meant now.
LEMMA EndUpdateRight ==
  ASSUME NEW flags, NEW encoded, NEW encodedNow, encoded => encodedNow,
         NEW rest \in 0..(SumModulus - 1)
  PROVE  LET end == EndUpdate(WriteFlags(flags, encoded), encodedNow, rest)
         IN  /\ "e" \in DOMAIN end.lines
             /\ end.lines["e"] = IF encodedNow THEN <<"1">> ELSE <<"0">>
             /\ end.stored = Checksum(end.lines, rest)
<1> DEFINE lines == WriteFlags(flags, encoded)
           end == EndUpdate(lines, encodedNow, rest)
<1>1. "e" \in DOMAIN lines /\ lines["e"] = IF encoded THEN <<"1">> ELSE <<"0">>
  BY EncodedLine
<1>2. <<"0">> # <<"1">>
  OBVIOUS
<1> HIDE DEF lines
<1>3. CASE encodedNow /\ ~ReadEncoded(lines)
  <2>1. end = [lines |-> [lines EXCEPT !["e"] = <<"1">>],
               stored |-> (Checksum(lines, rest) + 1) % SumModulus]
    BY <1>3 DEF EndUpdate
  <2>2. "e" \in DOMAIN end.lines /\ end.lines["e"] = <<"1">>
    BY <2>1, <1>1
  <2>3. Checksum(lines, rest) = (rest + 0) % SumModulus
    BY <1>3 DEF Checksum
  <2>4. Checksum(end.lines, rest) = (rest + 1) % SumModulus
    BY <2>2 DEF Checksum, ReadEncoded
  <2>5. end.stored = (Checksum(lines, rest) + 1) % SumModulus
    BY <2>1
  <2>6. end.stored = Checksum(end.lines, rest)
    BY <2>3, <2>4, <2>5, SumAgain
  <2> HIDE DEF end
  <2> QED
    BY <1>3, <2>2, <2>6 DEF end, lines
<1>4. CASE ~(encodedNow /\ ~ReadEncoded(lines))
  <2>1. end = [lines |-> lines, stored |-> Checksum(lines, rest)]
    BY <1>4 DEF EndUpdate
  <2> QED
    BY <1>1, <1>2, <1>4, <2>1 DEF ReadEncoded, lines
<1> QED
  BY <1>3, <1>4

\* A file that is written anew: what its flag says, and its checksum.
LEMMA WrittenRight ==
  ASSUME NEW flags, NEW encoded, NEW encodedNow, encoded => encodedNow,
         NEW rest \in 0..(SumModulus - 1), NEW header,
         file' = Written(flags, encoded, encodedNow, rest, header)
  PROVE  /\ HasEncodedLine'
         /\ ReadEncoded(file'.lines) <=> encodedNow
         /\ file'.stored = Checksum(file'.lines, file'.rest)
         /\ file'.body = header.body
<1> DEFINE end == EndUpdate(WriteFlags(flags, encoded), encodedNow, rest)
<1>1. /\ "e" \in DOMAIN end.lines
      /\ end.lines["e"] = IF encodedNow THEN <<"1">> ELSE <<"0">>
      /\ end.stored = Checksum(end.lines, rest)
  BY EndUpdateRight
<1>2. /\ file'.lines = end.lines /\ file'.stored = end.stored
      /\ file'.rest = rest /\ file'.body = header.body
  BY DEF Written
<1>3. <<"0">> # <<"1">>
  OBVIOUS
<1> HIDE DEF end
<1> QED
  BY <1>1, <1>2, <1>3 DEF HasEncodedLine, ReadEncoded

\* The commands that leave the body alone keep the flag, unless they set it.
LEMMA RewriteRight ==
  ASSUME NEW flags, NEW encoded, NEW header, Rewrite(flags, encoded, header)
  PROVE  /\ HasEncodedLine'
         /\ ReadEncoded(file'.lines) <=> encoded
         /\ file'.stored = Checksum(file'.lines, file'.rest)
         /\ file'.body = header.body
<1>1. PICK rest \in 0..(SumModulus - 1) :
        file' = Written(flags, encoded, encoded, rest, header)
  BY DEF Rewrite
<1> QED
  BY <1>1, WrittenRight

\* admin -n and admin -i set the flag exactly when they encode the body.
LEMMA CreateRight ==
  ASSUME NEW c, NEW n, Create(c, n)
  PROVE  Summed' /\ Marked'
<1> DEFINE new == ChangeFlags(NoFlags, c)
           encoded == Encodes(c.binary, n.input)
           header == [users |-> ChangeUsers(<<>>, c), description |-> Description("", c),
                      mrs |-> n.mrs, comments |-> n.comments,
                      body |-> Body(n.input, encoded)]
<1>1. PICK rest \in 0..(SumModulus - 1) :
        file' = Written(new.flags, c.binary, encoded, rest, header)
  BY DEF Create
<1>2. header.body = IF n.input = "none" THEN "empty"
                    ELSE IF encoded THEN "encoded" ELSE "text"
  BY DEF Body
<1>3. c.binary => encoded
  BY DEF Encodes
<1> HIDE DEF new, encoded, header
<1>4. /\ HasEncodedLine'
      /\ ReadEncoded(file'.lines) <=> encoded
      /\ file'.stored = Checksum(file'.lines, file'.rest)
      /\ file'.body = header.body
  BY <1>1, <1>3, WrittenRight
<1>5. Summed'
  BY <1>4 DEF Summed
<1>6. Marked'
  BY <1>2, <1>4 DEF Marked
<1> QED
  BY <1>5, <1>6

LEMMA SummedNext == Summed /\ [Next]_vars => Summed'
<1> SUFFICES ASSUME Summed, [Next]_vars PROVE Summed'
  OBVIOUS
<1>1. ASSUME NEW c \in Commands, NEW n \in Creations, Create(c, n) PROVE Summed'
  BY <1>1, CreateRight
<1>2. ASSUME NEW flags, NEW encoded, NEW header, Rewrite(flags, encoded, header)
      PROVE  Summed'
  BY <1>2, RewriteRight DEF Summed
<1>3. ASSUME NEW c \in Commands, Change(c) PROVE Summed'
  BY <1>2, <1>3 DEF Change
<1>4. ASSUME FixChecksum PROVE Summed'
  BY <1>2, <1>4 DEF FixChecksum
<1>5. ASSUME NEW c \in Changes, Cdc(c) PROVE Summed'
  BY <1>2, <1>5 DEF Cdc
<1>6. CASE UNCHANGED vars
  BY <1>6 DEF vars, Summed, HasEncodedLine
<1> QED
  BY <1>1, <1>3, <1>4, <1>5, <1>6 DEF Next

LEMMA MarkedNext ==
  ASSUME ~BinaryUpdate
  PROVE  Marked /\ [Next]_vars => Marked'
<1> SUFFICES ASSUME Marked, [Next]_vars PROVE Marked'
  OBVIOUS
<1>1. ASSUME NEW c \in Commands, NEW n \in Creations, Create(c, n) PROVE Marked'
  BY <1>1, CreateRight
<1>2. ASSUME file # Absent, NEW flags, NEW header, header.body = file.body,
             NEW encoded, encoded <=> ReadEncoded(file.lines),
             Rewrite(flags, encoded, header)
      PROVE  Marked'
  <2>1. /\ HasEncodedLine'
        /\ ReadEncoded(file'.lines) <=> encoded
        /\ file'.body = file.body
    BY <1>2, RewriteRight
  <2>2. (file.body = "encoded" => encoded) /\ (file.body = "text" => ~encoded)
    BY <1>2 DEF Marked
  <2> QED
    BY <2>1, <2>2 DEF Marked
<1>3. ASSUME NEW c \in Commands, Change(c) PROVE Marked'
  <2> DEFINE header == [Header EXCEPT !.users = ChangeUsers(file.users, c),
                                      !.description = Description(file.description, c)]
  <2>1. /\ file # Absent
        /\ Rewrite(ChangeFlags(ReadFlags(file.lines), c).flags,
                   c.binary \/ ReadEncoded(file.lines), header)
        /\ (c.binary \/ ReadEncoded(file.lines)) <=> ReadEncoded(file.lines)
    BY <1>3 DEF Change
  <2>2. header.body = file.body
    BY DEF Header
  <2> HIDE DEF header
  <2> QED
    BY <1>2, <2>1, <2>2
<1>4. ASSUME FixChecksum PROVE Marked'
  BY <1>2, <1>4 DEF FixChecksum, Header
<1>5. ASSUME NEW c \in Changes, Cdc(c) PROVE Marked'
  <2> DEFINE header ==
        [Header EXCEPT !.mrs = c.mrs \o KeptMrs(file.mrs, c),
                       !.comments = NewComments(file.mrs, c) \o file.comments]
  <2>1. /\ file # Absent
        /\ Rewrite(ReadFlags(file.lines), ReadEncoded(file.lines), header)
    BY <1>5 DEF Cdc
  <2>2. header.body = file.body
    BY DEF Header
  <2> HIDE DEF header
  <2> QED
    BY <1>2, <2>1, <2>2
<1>6. CASE UNCHANGED vars
  BY <1>6 DEF vars, Marked, HasEncodedLine
<1> QED
  BY <1>1, <1>3, <1>4, <1>5, <1>6 DEF Next

LEMMA MarkedInit == Init => Marked /\ Summed
BY DEF Init, Marked, Summed

-----------------------------------------------------------------------------
\* However often admin and cdc rewrite a file, its encoded flag says how its body is
\* to be read, as long as admin -b is used for creating files only (sccs_file::admin,
\* rehack_encoded_flag).
THEOREM EncodingAlwaysMarked ==
  ASSUME ~BinaryUpdate
  PROVE  Spec => []EncodingIsMarked
<1>1. Marked => EncodingIsMarked
  BY DEF Marked, EncodingIsMarked
<1> QED
  BY MarkedInit, MarkedNext, <1>1, PTL DEF Spec

\* Its first line holds the checksum of the rest, also when the flag was set after the
\* sum had been computed (end_update).
THEOREM ChecksumAlwaysRight == Spec => []ChecksumRight
<1>1. Summed => ChecksumRight
  BY DEF Summed, ChecksumRight
<1> QED
  BY MarkedInit, SummedNext, <1>1, PTL DEF Spec

-----------------------------------------------------------------------------
(* Lists.                                                                  *)

LEMMA SequenceSet ==
  ASSUME NEW T, NEW s \in Seq(T)
  PROVE  /\ Len(s) \in Nat /\ DOMAIN s = 1..Len(s)
         /\ ToSet(s) \subseteq T /\ IsFiniteSet(ToSet(s))
         /\ \A i \in 1..Len(s) : s[i] \in ToSet(s)
<1>1. Len(s) \in Nat /\ DOMAIN s = 1..Len(s) /\ \A i \in 1..Len(s) : s[i] \in T
  OBVIOUS
<1>2. ToSet(s) = {s[i] : i \in 1..Len(s)}
  BY <1>1 DEF ToSet
<1>3. IsFiniteSet(ToSet(s))
  <2> DEFINE D == 1..Len(s)
             f == [i \in D |-> s[i]]
  <2>1. IsFiniteSet(D)
    BY <1>1, FS_Interval
  <2>2. f \in Surjection(D, ToSet(s))
    BY <1>2 DEF Surjection
  <2> HIDE DEF f, D
  <2> QED
    BY <2>1, <2>2, FS_Surjection
<1> QED
  BY <1>1, <1>2, <1>3

LEMMA ConcatSet ==
  ASSUME NEW T, NEW r \in Seq(T), NEW s \in Seq(T)
  PROVE  r \o s \in Seq(T) /\ ToSet(r \o s) = ToSet(r) \cup ToSet(s)
<1>1. /\ r \o s \in Seq(T) /\ Len(r \o s) = Len(r) + Len(s)
      /\ Len(r) \in Nat /\ Len(s) \in Nat
      /\ DOMAIN (r \o s) = 1..(Len(r) + Len(s)) /\ DOMAIN r = 1..Len(r) /\ DOMAIN s = 1..Len(s)
      /\ \A i \in 1..(Len(r) + Len(s)) : (r \o s)[i] = IF i <= Len(r) THEN r[i] ELSE s[i - Len(r)]
  OBVIOUS
<1> DEFINE q == r \o s
<1> HIDE DEF q
<1>2. ASSUME NEW x \in ToSet(q) PROVE x \in ToSet(r) \cup ToSet(s)
  <2>1. PICK i \in 1..(Len(r) + Len(s)) : x = q[i]
    BY <1>1, <1>2 DEF ToSet, q
  <2>2. CASE i <= Len(r)
    <3>1. i \in 1..Len(r) /\ x = r[i]
      BY <1>1, <2>1, <2>2 DEF q
    <3> QED
      BY <1>1, <3>1 DEF ToSet
  <2>3. CASE ~(i <= Len(r))
    <3>1. i - Len(r) \in 1..Len(s) /\ x = s[i - Len(r)]
      BY <1>1, <2>1, <2>3 DEF q
    <3> QED
      BY <1>1, <3>1 DEF ToSet
  <2> QED
    BY <2>2, <2>3
<1>3. ASSUME NEW x \in ToSet(r) PROVE x \in ToSet(q)
  <2>1. PICK i \in 1..Len(r) : x = r[i]
    BY <1>1, <1>3 DEF ToSet
  <2>2. i \in 1..(Len(r) + Len(s)) /\ q[i] = x
    BY <1>1, <2>1 DEF q
  <2> QED
    BY <1>1, <2>2 DEF ToSet, q
<1>4. ASSUME NEW x \in ToSet(s) PROVE x \in ToSet(q)
  <2>1. PICK i \in 1..Len(s) : x = s[i]
    BY <1>1, <1>4 DEF ToSet
  <2>2. Len(r) + i \in 1..(Len(r) + Len(s)) /\ q[Len(r) + i] = x
    BY <1>1, <2>1 DEF q
  <2> QED
    BY <1>1, <2>2 DEF ToSet, q
<1> QED
  BY <1>1, <1>2, <1>3, <1>4 DEF q

LEMMA AppendSet ==
  ASSUME NEW T, NEW s \in Seq(T), NEW x \in T
  PROVE  Append(s, x) \in Seq(T) /\ ToSet(Append(s, x)) = ToSet(s) \cup {x}
<1> DEFINE t == <<x>>
<1>1. Append(s, x) = s \o t /\ t \in Seq(T)
  OBVIOUS
<1>2. DOMAIN t = {1} /\ t[1] = x
  OBVIOUS
<1> HIDE DEF t
<1>3. ToSet(t) = {x}
  BY <1>2 DEF ToSet
<1>4. s \o t \in Seq(T) /\ ToSet(s \o t) = ToSet(s) \cup ToSet(t)
  BY <1>1, ConcatSet
<1> QED
  BY <1>1, <1>3, <1>4

\* The loop of Without.
KeptStep(list, S, i, kept) == IF list[i] \in S THEN kept ELSE Append(kept, list[i])
KeptLoop(list, S) ==
  CHOOSE f : f = [i \in 0..Len(list) |-> IF i = 0 THEN <<>> ELSE KeptStep(list, S, i, f[i - 1])]

LEMMA WithoutIsLoop ==
  ASSUME NEW list, NEW S
  PROVE  Without(list, S) = KeptLoop(list, S)[Len(list)]
BY Zenon DEF Without, KeptLoop, KeptStep

\* Without leaves out what is in the set, and nothing else.
LEMMA WithoutIs ==
  ASSUME NEW T, NEW list \in Seq(T), NEW S
  PROVE  Without(list, S) \in Seq(T) /\ ToSet(Without(list, S)) = ToSet(list) \ S
<1> DEFINE n == Len(list)
           R == Seq(T)
           base == <<>>
           step == [i \in 1..n |-> [kept \in R |-> KeptStep(list, S, i, kept)]]
           F == KeptLoop(list, S)
           Body0(f) == [i \in 0..n |-> IF i = 0 THEN base ELSE KeptStep(list, S, i, f[i - 1])]
<1>1. n \in Nat /\ base \in R /\ DOMAIN list = 1..n /\ \A i \in 1..n : list[i] \in T
  OBVIOUS
<1>2. ASSUME NEW i \in 1..n, NEW kept \in R PROVE KeptStep(list, S, i, kept) \in R
  BY <1>1 DEF KeptStep
<1>3. step \in [1..n -> [R -> R]]
  BY <1>2
<1>4. \A i \in 1..n : \A kept \in R : step[i][kept] = KeptStep(list, S, i, kept)
  OBVIOUS
<1>5. F = CHOOSE f : f = Body0(f)
  BY Zenon DEF KeptLoop
<1> HIDE DEF step, F, base, n, R
<1>6. PICK f : Upward(f, n, R, base, step)
  BY <1>1, <1>3, UpwardRecursion
<1>7. f \in [0..n -> R] /\ f[0] = base /\ \A i \in 1..n : f[i] = step[i][f[i - 1]]
  BY <1>6 DEF Upward
<1>8. f = Body0(f)
  <2>1. ASSUME NEW i \in 0..n
        PROVE  f[i] = IF i = 0 THEN base ELSE KeptStep(list, S, i, f[i - 1])
    <3>1. CASE i = 0
      BY <1>7, <3>1
    <3>2. CASE i # 0
      <4>1. i \in 1..n /\ i - 1 \in 0..n
        BY <1>1, <3>2
      <4> QED
        BY <1>4, <1>7, <3>2, <4>1
    <3> QED
      BY <3>1, <3>2
  <2> QED
    BY <1>7, <2>1
<1>9. F = Body0(F)
  <2> HIDE DEF Body0
  <2> QED
    BY <1>5, <1>8
<1>10. F[0] = base /\ \A i \in 1..n : F[i] = KeptStep(list, S, i, F[i - 1])
  <2>1. \A i \in 0..n : F[i] = IF i = 0 THEN base ELSE KeptStep(list, S, i, F[i - 1])
    BY <1>9
  <2>2. 0 \in 0..n /\ \A i \in 1..n : i \in 0..n /\ i # 0
    BY <1>1
  <2> QED
    BY <2>1, <2>2
<1> HIDE DEF Body0
<1> DEFINE Part(i) == {list[j] : j \in 1..i}
           Right == {i \in 0..n : F[i] \in R /\ ToSet(F[i]) = Part(i) \ S}
<1>11. 0 \in Right
  <2>1. ToSet(<<>>) = {} /\ Part(0) = {}
    BY DEF ToSet
  <2> QED
    BY <1>1, <1>10, <2>1 DEF base
<1>12. ASSUME NEW i \in 1..n, i - 1 \in Right PROVE i \in Right
  <2>1. F[i - 1] \in R /\ ToSet(F[i - 1]) = Part(i - 1) \ S
    BY <1>12
  <2>2. Part(i) = Part(i - 1) \cup {list[i]}
    <3>1. 1..i = (1..(i - 1)) \cup {i}
      BY <1>1
    <3> QED
      BY <3>1
  <2>3. F[i] = IF list[i] \in S THEN F[i - 1] ELSE Append(F[i - 1], list[i])
    BY <1>10 DEF KeptStep
  <2>4. list[i] \in T
    BY <1>1
  <2> HIDE DEF Part
  <2>5. F[i] \in R /\ ToSet(F[i]) = Part(i) \ S
    <3>1. CASE list[i] \in S
      BY <2>1, <2>2, <2>3, <3>1
    <3>2. CASE list[i] \notin S
      <4>1. Append(F[i - 1], list[i]) \in R /\ ToSet(Append(F[i - 1], list[i])) = ToSet(F[i - 1]) \cup {list[i]}
        BY <2>1, <2>4, AppendSet DEF R
      <4> QED
        BY <2>1, <2>2, <2>3, <3>2, <4>1
    <3> QED
      BY <3>1, <3>2
  <2> QED
    BY <1>1, <2>5
<1>13. n \in Right
  <2>1. n \in 0..n
    BY <1>1
  <2> HIDE DEF Right
  <2> QED
    BY <1>1, <1>11, <1>12, <2>1, UpwardInduction
<1>14. Part(n) = ToSet(list)
  BY <1>1 DEF ToSet
<1>15. Without(list, S) = F[n]
  BY WithoutIsLoop DEF F, n
<1> HIDE DEF Part
<1> QED
  BY <1>13, <1>14, <1>15 DEF R


\* The members of a finite set in some order, as the release lists and the set of
\* keyword letters are written.
LEMMA SetToSeqIs ==
  ASSUME NEW S, IsFiniteSet(S)
  PROVE  /\ SetToSeq(S) \in Seq(S)
         /\ ToSet(SetToSeq(S)) = S
<1>1. Cardinality(S) \in Nat
  BY FS_CardinalityType
<1> DEFINE n == Cardinality(S)
           q == SetToSeq(S)
           D == 1..n
<1>2. \E f \in [D -> S] : IsInjective(f)
  <2>1. PICK m \in Nat : ExistsBijection(1..m, S)
    BY FS_NatBijection
  <2>2. m = n
    BY <2>1, FS_CountingElements
  <2>3. PICK f : f \in Bijection(D, S)
    BY <2>1, <2>2 DEF ExistsBijection
  <2>4. f \in [D -> S] /\ IsInjective(f)
    BY <2>3 DEF Bijection, Injection, IsInjective
  <2> QED
    BY <2>4
<1>3. q \in [D -> S] /\ IsInjective(q)
  BY <1>2 DEF SetToSeq
<1>4. IsFiniteSet(D) /\ Cardinality(D) = n
  <2>1. 1 \in Int /\ n \in Int
    BY <1>1
  <2> QED
    BY <1>1, <2>1, FS_Interval
<1> HIDE DEF q
<1>5. q \in Injection(D, S)
  BY <1>3 DEF Injection, IsInjective
<1>6. q \in Surjection(D, S)
  BY <1>4, <1>5, FS_Injection
<1>7. \A x \in S : \E i \in D : q[i] = x
  BY <1>6 DEF Surjection
<1>8. DOMAIN q = D /\ \A i \in D : q[i] \in S
  BY <1>3
<1>9. q \in Seq(S)
  BY <1>1, <1>3
<1>10. ToSet(q) = S
  BY <1>7, <1>8 DEF ToSet
<1> QED
  BY <1>9, <1>10 DEF q

\* With separators between them.
LEMMA SeparatedIs ==
  ASSUME NEW S, NEW s \in Seq(S), s # <<>>
  PROVE  /\ DOMAIN Separated(s) = 1..(2 * Len(s) - 1)
         /\ Separated(s)[1] = s[1] /\ s[1] \in ToSet(s)
         /\ ToSet(s) \subseteq ToSet(Separated(s))
         /\ ToSet(Separated(s)) \subseteq ToSet(s) \cup {" "}
<1> DEFINE q == Separated(s)
           n == Len(s)
<1>1. n \in Nat /\ n >= 1 /\ DOMAIN s = 1..n
  OBVIOUS
<1>2. /\ DOMAIN q = 1..(2 * n - 1)
      /\ \A i \in 1..(2 * n - 1) : q[i] = IF i % 2 = 1 THEN s[(i + 1) \div 2] ELSE " "
  BY DEF Separated
<1> HIDE DEF q, n
<1>3. ToSet(s) = {s[i] : i \in 1..n} /\ ToSet(q) = {q[i] : i \in 1..(2 * n - 1)}
  BY <1>1, <1>2 DEF ToSet
<1>4. ASSUME NEW i \in 1..n
      PROVE  2 * i - 1 \in 1..(2 * n - 1) /\ q[2 * i - 1] = s[i]
  <2>1. 2 * i - 1 \in 1..(2 * n - 1) /\ (2 * i - 1) % 2 = 1 /\ ((2 * i - 1) + 1) \div 2 = i
    BY <1>1
  <2> QED
    BY <1>2, <2>1
<1>5. ASSUME NEW i \in 1..(2 * n - 1) PROVE q[i] \in ToSet(s) \cup {" "}
  <2>1. CASE i % 2 = 1
    <3>1. (i + 1) \div 2 \in 1..n
      BY <1>1, <2>1
    <3> QED
      BY <1>2, <1>3, <2>1, <3>1
  <2> QED
    BY <1>2, <2>1
<1>6. 1 \in 1..n /\ 2 * 1 - 1 = 1
  BY <1>1
<1>7. q[1] = s[1] /\ s[1] \in ToSet(s)
  BY <1>3, <1>4, <1>6
<1>8. ToSet(s) \subseteq ToSet(q)
  BY <1>3, <1>4
<1>9. ToSet(q) \subseteq ToSet(s) \cup {" "}
  BY <1>3, <1>5
<1> QED
  BY <1>2, <1>7, <1>8, <1>9 DEF q, n


-----------------------------------------------------------------------------
(* The flags in memory.                                                    *)

FinitePart(S) == {T \in SUBSET S : IsFiniteSet(T)}
TextArgs == UNION {[D -> Seq(STRING)] : D \in SUBSET Texts}
FlagRecs ==
  [on : SUBSET Switches, ceiling : Releases \cup {"none"}, floor : Releases \cup {"none"},
   default : Releases \cup {"none"}, allLocked : BOOLEAN, locked : FinitePart(Releases),
   text : TextArgs, letters : FinitePart(Letters \cup {" "})]

Settings == [flag : STRING, arg : Seq(STRING)]

LEMMA EmptyText == <<>> \in TextArgs
<1>1. <<>> \in [{} -> Seq(STRING)]
  OBVIOUS
<1> QED
  BY <1>1 DEF TextArgs

LEMMA NoFlagsTyped == NoFlags \in FlagRecs
<1>1. {} \in FinitePart(Releases) /\ {} \in FinitePart(Letters \cup {" "})
  BY FS_EmptySet DEF FinitePart
<1> QED
  BY <1>1, EmptyText DEF NoFlags, FlagRecs

\* The argument of a flag is a list: its members are finitely many.
LEMMA ArgumentSet ==
  ASSUME NEW s \in Settings
  PROVE  /\ s.flag \in STRING /\ s.arg \in Seq(STRING)
         /\ IsFiniteSet(ToSet(s.arg))
         /\ ReleaseList(s.arg) \in FinitePart(Releases)
<1>1. s.arg \in Seq(STRING) /\ s.flag \in STRING
  BY DEF Settings
<1>2. IsFiniteSet(ToSet(s.arg))
  BY <1>1, SequenceSet
<1>3. ReleaseList(s.arg) \subseteq ToSet(s.arg) /\ ReleaseList(s.arg) \subseteq Releases
  BY DEF ReleaseList, ToSet
<1>4. IsFiniteSet(ReleaseList(s.arg))
  BY <1>2, <1>3, FS_Subset
<1> QED
  BY <1>1, <1>2, <1>3, <1>4 DEF FinitePart

LEMMA SetFlagTyped ==
  ASSUME NEW f \in FlagRecs, NEW s \in Settings, ValidSetting(s)
  PROVE  SetFlag(f, s) \in FlagRecs
<1>1. /\ s.flag \in STRING /\ s.arg \in Seq(STRING)
      /\ IsFiniteSet(ToSet(s.arg))
      /\ ReleaseList(s.arg) \in FinitePart(Releases)
  BY ArgumentSet
<1>2. s.flag \in Switches \cup Texts \cup {"c", "d", "f", "l", "y"}
  BY DEF ValidSetting, Switches
<1>3. CASE s.flag \in Switches
  <2>1. SetFlag(f, s) = [f EXCEPT !.on = @ \cup {s.flag}]
    BY <1>3 DEF SetFlag, Switches, Texts
  <2>2. f.on \cup {s.flag} \in SUBSET Switches
    BY <1>3 DEF FlagRecs
  <2> QED
    BY <2>1, <2>2 DEF FlagRecs
<1>4. CASE s.flag \in {"c", "d", "f"}
  <2>1. s.arg[1] \in Releases
    BY <1>4 DEF ValidSetting
  <2>2. \/ SetFlag(f, s) = [f EXCEPT !.ceiling = s.arg[1]]
        \/ SetFlag(f, s) = [f EXCEPT !.floor = s.arg[1]]
        \/ SetFlag(f, s) = [f EXCEPT !.default = s.arg[1]]
    BY <1>4 DEF SetFlag, Switches, Texts
  <2> QED
    BY <2>1, <2>2 DEF FlagRecs
<1>5. CASE s.flag = "l"
  <2>1. {} \in FinitePart(Releases)
    BY FS_EmptySet DEF FinitePart
  <2>2. \/ SetFlag(f, s) = [f EXCEPT !.allLocked = TRUE, !.locked = {}]
        \/ SetFlag(f, s) = [f EXCEPT !.locked = ReleaseList(s.arg)]
    BY <1>5 DEF SetFlag, Switches, Texts
  <2> QED
    BY <1>1, <2>1, <2>2 DEF FlagRecs
<1>6. CASE s.flag = "y"
  <2> DEFINE L == ToSet(s.arg) \ {","}
  <2>1. L \subseteq Letters
    BY <1>6 DEF ValidSetting, Switches
  <2>2. IsFiniteSet(L)
    BY <1>1, FS_Difference
  <2>3. SetFlag(f, s) = [f EXCEPT !.letters = L]
    BY <1>6 DEF SetFlag, Switches, Texts
  <2> HIDE DEF L
  <2>4. L \in FinitePart(Letters \cup {" "})
    BY <2>1, <2>2 DEF FinitePart
  <2> QED
    BY <2>3, <2>4 DEF FlagRecs
<1>7. CASE s.flag \in Texts
  <2> DEFINE t1 == [t \in DOMAIN f.text \cup {s.flag} |->
                      IF t = s.flag THEN s.arg ELSE f.text[t]]
  <2>1. PICK D \in SUBSET Texts : f.text \in [D -> Seq(STRING)]
    BY DEF FlagRecs, TextArgs
  <2>2. t1 \in [D \cup {s.flag} -> Seq(STRING)] /\ D \cup {s.flag} \in SUBSET Texts
    BY <1>1, <1>7, <2>1
  <2>3. SetFlag(f, s) = [f EXCEPT !.text = t1]
    BY <1>7 DEF SetFlag, Switches, Texts
  <2> HIDE DEF t1
  <2>4. t1 \in TextArgs
    BY <2>2 DEF TextArgs
  <2> QED
    BY <2>3, <2>4 DEF FlagRecs
<1> QED
  BY <1>2, <1>3, <1>4, <1>5, <1>6, <1>7

LEMMA UnsetFlagTyped ==
  ASSUME NEW f \in FlagRecs, NEW s \in Settings, UnsetPermitted(f, s)
  PROVE  /\ UnsetFlag(f, s) \in FlagRecs
         /\ UnsetFlag(f, s).allLocked => f.allLocked
         /\ UnsetFlag(f, s).locked \subseteq f.locked
         /\ s.flag = "l" /\ s.arg = <<"a">> =>
              ~UnsetFlag(f, s).allLocked /\ UnsetFlag(f, s).locked = {}
         /\ s.flag = "l" /\ s.arg # <<"a">> =>
              /\ ~UnsetFlag(f, s).allLocked
              /\ UnsetFlag(f, s).locked \cap ReleaseList(s.arg) = {}
<1>1. /\ s.flag \in STRING /\ s.arg \in Seq(STRING)
      /\ IsFiniteSet(ToSet(s.arg))
      /\ ReleaseList(s.arg) \in FinitePart(Releases)
  BY ArgumentSet
<1>2. s.flag \in Switches \cup Texts \cup {"c", "d", "f", "l", "y"}
  BY DEF UnsetPermitted
<1>3. CASE s.flag \in Switches
  <2>1. UnsetFlag(f, s) = [f EXCEPT !.on = @ \ {s.flag}] /\ s.flag # "l"
    BY <1>3 DEF UnsetFlag, Switches, Texts
  <2> QED
    BY <2>1 DEF FlagRecs
<1>4. CASE s.flag \in {"c", "d", "f"}
  <2>2. \/ UnsetFlag(f, s) = [f EXCEPT !.ceiling = "none"]
        \/ UnsetFlag(f, s) = [f EXCEPT !.floor = "none"]
        \/ UnsetFlag(f, s) = [f EXCEPT !.default = "none"]
    BY <1>4 DEF UnsetFlag, Switches, Texts
  <2>3. s.flag # "l"
    BY <1>4
  <2> QED
    BY <2>2, <2>3 DEF FlagRecs
<1>5. CASE s.flag = "l" /\ s.arg = <<"a">>
  <2>1. {} \in FinitePart(Releases)
    BY FS_EmptySet DEF FinitePart
  <2>2. UnsetFlag(f, s) = [f EXCEPT !.allLocked = FALSE, !.locked = {}]
    BY <1>5 DEF UnsetFlag, Switches, Texts
  <2> QED
    BY <1>5, <2>1, <2>2 DEF FlagRecs
<1>6. CASE s.flag = "l" /\ s.arg # <<"a">>
  <2> DEFINE R == ReleaseList(s.arg)
  <2>1. UnsetFlag(f, s) = [f EXCEPT !.locked = @ \ R]
    BY <1>6 DEF UnsetFlag, Switches, Texts
  <2>2. ~f.allLocked
    BY <1>6 DEF UnsetPermitted
  <2>3. f.locked \subseteq Releases /\ IsFiniteSet(f.locked)
    BY DEF FlagRecs, FinitePart
  <2> HIDE DEF R
  <2>4. f.locked \ R \in FinitePart(Releases)
    BY <2>3, FS_Difference DEF FinitePart
  <2>5. UnsetFlag(f, s).locked = f.locked \ R /\ UnsetFlag(f, s).allLocked = f.allLocked
    BY <2>1 DEF FlagRecs
  <2>6. UnsetFlag(f, s) \in FlagRecs
    BY <2>1, <2>4 DEF FlagRecs
  <2> QED
    BY <1>6, <2>2, <2>5, <2>6 DEF R
<1>7. CASE s.flag = "y"
  <2>1. {} \in FinitePart(Letters \cup {" "})
    BY FS_EmptySet DEF FinitePart
  <2>2. UnsetFlag(f, s) = [f EXCEPT !.letters = {}]
    BY <1>7 DEF UnsetFlag, Switches, Texts
  <2> QED
    BY <1>7, <2>1, <2>2 DEF FlagRecs
<1>8. CASE s.flag \in Texts
  <2> DEFINE t1 == [t \in DOMAIN f.text \ {s.flag} |-> f.text[t]]
  <2>1. PICK D \in SUBSET Texts : f.text \in [D -> Seq(STRING)]
    BY DEF FlagRecs, TextArgs
  <2>2. t1 \in [D \ {s.flag} -> Seq(STRING)] /\ D \ {s.flag} \in SUBSET Texts
    BY <2>1
  <2>3. UnsetFlag(f, s) = [f EXCEPT !.text = t1] /\ s.flag # "l"
    BY <1>8 DEF UnsetFlag, Switches, Texts
  <2> HIDE DEF t1
  <2>4. t1 \in TextArgs
    BY <2>2 DEF TextArgs
  <2> QED
    BY <2>3, <2>4 DEF FlagRecs
<1> QED
  BY <1>2, <1>3, <1>4, <1>5, <1>6, <1>7, <1>8


\* A setting that -d has taken back.
Unlocked(f, s) ==
  s.flag = "l" =>
    /\ ~f.allLocked
    /\ s.arg = <<"a">> => f.locked = {}
    /\ f.locked \cap ReleaseList(s.arg) = {}

Outcomes == [ok : BOOLEAN, flags : FlagRecs]

LEMMA TrySetTyped ==
  ASSUME NEW r \in Outcomes, NEW s \in Settings
  PROVE  TrySet(r, s) \in Outcomes
<1>1. r.flags \in FlagRecs
  BY DEF Outcomes
<1>2. CASE r.ok /\ ValidSetting(s)
  <2>1. SetFlag(r.flags, s) \in FlagRecs
    BY <1>1, <1>2, SetFlagTyped
  <2> QED
    BY <1>2, <2>1 DEF TrySet, Outcomes
<1>3. CASE ~(r.ok /\ ValidSetting(s))
  BY <1>3 DEF TrySet, Outcomes
<1> QED
  BY <1>2, <1>3

LEMMA TryUnsetTyped ==
  ASSUME NEW r \in Outcomes, NEW s \in Settings
  PROVE  /\ TryUnset(r, s) \in Outcomes
         /\ TryUnset(r, s).ok => /\ r.ok
                                 /\ Unlocked(TryUnset(r, s).flags, s)
                                 /\ TryUnset(r, s).flags.allLocked => r.flags.allLocked
                                 /\ TryUnset(r, s).flags.locked \subseteq r.flags.locked
<1> DEFINE f == r.flags
           g == UnsetFlag(f, s)
<1>1. f \in FlagRecs
  BY DEF Outcomes
<1>2. CASE r.ok /\ UnsetPermitted(f, s)
  <2>1. /\ g \in FlagRecs
        /\ g.allLocked => f.allLocked
        /\ g.locked \subseteq f.locked
        /\ Unlocked(g, s)
    <3> HIDE DEF f
    <3> QED
      BY <1>1, <1>2, UnsetFlagTyped DEF Unlocked
  <2>2. TryUnset(r, s) = [r EXCEPT !.flags = g]
    BY <1>2 DEF TryUnset
  <2> HIDE DEF g
  <2>3. TryUnset(r, s).flags = g /\ TryUnset(r, s) \in Outcomes
    BY <2>1, <2>2 DEF Outcomes
  <2> QED
    BY <1>2, <2>1, <2>3
<1>3. CASE ~(r.ok /\ UnsetPermitted(f, s))
  <2>1. TryUnset(r, s) = [r EXCEPT !.ok = FALSE]
    BY <1>3 DEF TryUnset
  <2>2. TryUnset(r, s) \in Outcomes /\ ~TryUnset(r, s).ok
    BY <2>1 DEF Outcomes
  <2> QED
    BY <2>2
<1> QED
  BY <1>2, <1>3

\* The loop of ChangeFlags.
ChangeStep(c, i, r) ==
  IF i <= Len(c.set) THEN TrySet(r, c.set[i]) ELSE TryUnset(r, c.unset[i - Len(c.set)])
ChangeLoop(f, c) ==
  CHOOSE g : g = [i \in 0..(Len(c.set) + Len(c.unset)) |->
                    IF i = 0 THEN [ok |-> TRUE, flags |-> f] ELSE ChangeStep(c, i, g[i - 1])]

LEMMA ChangeFlagsIsLoop ==
  ASSUME NEW f, NEW c
  PROVE  ChangeFlags(f, c) = ChangeLoop(f, c)[Len(c.set) + Len(c.unset)]
BY Zenon DEF ChangeFlags, ChangeLoop, ChangeStep

\* admin leaves flags of the right types, and when it refuses nothing, what a -dl names is
\* not locked whatever follows it.
LEMMA ChangeFlagsIs ==
  ASSUME NEW f \in FlagRecs, NEW c, c.set \in Seq(Settings), c.unset \in Seq(Settings)
  PROVE  /\ ChangeFlags(f, c) \in Outcomes
         /\ ChangeFlags(f, c).ok =>
              \A s \in ToSet(c.unset) : Unlocked(ChangeFlags(f, c).flags, s)
<1> DEFINE m == Len(c.set)
           n == m + Len(c.unset)
           base == [ok |-> TRUE, flags |-> f]
           step == [i \in 1..n |-> [r \in Outcomes |-> ChangeStep(c, i, r)]]
           F == ChangeLoop(f, c)
           Body0(g) == [i \in 0..n |-> IF i = 0 THEN base ELSE ChangeStep(c, i, g[i - 1])]
<1>0. ASSUME NEW l \in Seq(Settings)
      PROVE  /\ Len(l) \in Nat /\ DOMAIN l = 1..Len(l)
             /\ \A i \in 1..Len(l) : l[i] \in Settings
  OBVIOUS
<1> DEFINE p == c.set
           q == c.unset
<1> HIDE DEF p, q
<1>p. /\ Len(p) \in Nat /\ DOMAIN p = 1..Len(p)
      /\ \A i \in 1..Len(p) : p[i] \in Settings
  BY <1>0 DEF p
<1>q. /\ Len(q) \in Nat /\ DOMAIN q = 1..Len(q)
      /\ \A i \in 1..Len(q) : q[i] \in Settings
  BY <1>0 DEF q
<1>1. /\ m \in Nat /\ Len(c.unset) \in Nat /\ n \in Nat /\ n = m + Len(c.unset)
      /\ \A i \in 1..m : c.set[i] \in Settings
      /\ \A i \in 1..Len(c.unset) : c.unset[i] \in Settings
      /\ DOMAIN c.unset = 1..Len(c.unset)
  <2>1. m = Len(p) /\ n = m + Len(q)
    BY DEF p, q
  <2>2. m \in Nat /\ Len(q) \in Nat /\ n \in Nat /\ n = m + Len(q)
    BY <1>p, <1>q, <2>1
  <2>3. \A i \in 1..m : p[i] \in Settings
    BY <1>p, <2>1
  <2> HIDE DEF m, n
  <2> QED
    BY Zenon, <1>q, <2>2, <2>3 DEF p, q
<1>2. base \in Outcomes
  BY DEF Outcomes
<1>3. F = CHOOSE g : g = Body0(g)
  BY Zenon DEF ChangeLoop
<1>4. \A i \in 1..n : \A r \in Outcomes : step[i][r] = ChangeStep(c, i, r)
  OBVIOUS
<1>5. ChangeFlags(f, c) = F[n]
  BY ChangeFlagsIsLoop
<1> HIDE DEF m, n, base, F
<1>6. ASSUME NEW i \in 1..n, NEW r \in Outcomes PROVE ChangeStep(c, i, r) \in Outcomes
  <2>1. CASE i <= m
    <3>1. c.set[i] \in Settings
      BY <1>1, <2>1
    <3> QED
      BY <2>1, <3>1, TrySetTyped DEF ChangeStep, m
  <2>2. CASE ~(i <= m)
    <3>1. c.unset[i - m] \in Settings
      BY <1>1, <2>2
    <3> QED
      BY <2>2, <3>1, TryUnsetTyped DEF ChangeStep, m
  <2> QED
    BY <2>1, <2>2
<1>7. step \in [1..n -> [Outcomes -> Outcomes]]
  BY <1>6
<1> HIDE DEF step
<1>8. PICK g : Upward(g, n, Outcomes, base, step)
  BY <1>1, <1>2, <1>7, UpwardRecursion
<1>9. g \in [0..n -> Outcomes] /\ g[0] = base /\ \A i \in 1..n : g[i] = step[i][g[i - 1]]
  BY <1>8 DEF Upward
<1>10. g = Body0(g)
  <2>1. ASSUME NEW i \in 0..n
        PROVE  g[i] = IF i = 0 THEN base ELSE ChangeStep(c, i, g[i - 1])
    <3>1. CASE i = 0
      BY <1>9, <3>1
    <3>2. CASE i # 0
      <4>1. i \in 1..n /\ i - 1 \in 0..n
        BY <1>1, <3>2
      <4> QED
        BY <1>4, <1>9, <3>2, <4>1
    <3> QED
      BY <3>1, <3>2
  <2> QED
    BY <1>9, <2>1
<1>11. F = Body0(F)
  <2> HIDE DEF Body0
  <2> QED
    BY <1>3, <1>10
<1>12. F[0] = base /\ \A i \in 1..n : F[i] = ChangeStep(c, i, F[i - 1])
  <2>1. \A i \in 0..n : F[i] = IF i = 0 THEN base ELSE ChangeStep(c, i, F[i - 1])
    BY <1>11
  <2>2. 0 \in 0..n /\ \A i \in 1..n : i \in 0..n /\ i # 0
    BY <1>1
  <2> QED
    BY <2>1, <2>2
<1> HIDE DEF Body0
<1> DEFINE Right(i) == /\ F[i] \in Outcomes
                       /\ F[i].ok => \A j \in 1..(i - m) : Unlocked(F[i].flags, c.unset[j])
           AllRight == {i \in 0..n : Right(i)}
<1>13. Right(0)
  <2>1. 1..(0 - m) = {}
    BY <1>1
  <2> QED
    BY <1>2, <1>12, <2>1
<1>14. ASSUME NEW i \in 1..n, Right(i - 1) PROVE Right(i)
  <2>1. F[i - 1] \in Outcomes /\ F[i] = ChangeStep(c, i, F[i - 1])
    BY <1>12, <1>14
  <2>2. F[i] \in Outcomes
    BY <1>6, <2>1
  <2>3. CASE i <= m
    <3>1. 1..(i - m) = {}
      BY <1>1, <2>3
    <3> QED
      BY <2>2, <3>1
  <2>4. CASE ~(i <= m)
    <3> DEFINE s == c.unset[i - m]
    <3>1. s \in Settings
      BY <1>1, <2>4
    <3>2. F[i] = TryUnset(F[i - 1], s)
      BY <2>1, <2>4 DEF ChangeStep, m
    <3> HIDE DEF s
    <3>3. F[i].ok => /\ F[i - 1].ok
                     /\ Unlocked(F[i].flags, s)
                     /\ F[i].flags.allLocked => F[i - 1].flags.allLocked
                     /\ F[i].flags.locked \subseteq F[i - 1].flags.locked
      BY <2>1, <3>1, <3>2, TryUnsetTyped
    <3>4. ASSUME F[i].ok, NEW j \in 1..(i - m) PROVE Unlocked(F[i].flags, c.unset[j])
      <4>1. CASE j = i - m
        BY <3>3, <3>4, <4>1 DEF s
      <4>2. CASE j # i - m
        <5>1. j \in 1..((i - 1) - m)
          BY <1>1, <4>2
        <5>2. Unlocked(F[i - 1].flags, c.unset[j])
          BY <1>14, <3>3, <3>4, <5>1
        <5> QED
          BY <3>3, <3>4, <5>2 DEF Unlocked
      <4> QED
        BY <4>1, <4>2
    <3> QED
      BY <2>2, <3>4
  <2> QED
    BY <2>3, <2>4
<1> HIDE DEF Right
<1>15. Right(n)
  <2>1. n \in 0..n /\ 0 \in 0..n /\ \A i \in 1..n : i \in 0..n
    BY <1>1
  <2>2. 0 \in AllRight /\ \A i \in 1..n : i - 1 \in AllRight => i \in AllRight
    BY <1>13, <1>14, <2>1
  <2> HIDE DEF AllRight
  <2>3. n \in AllRight
    BY <1>1, <2>1, <2>2, UpwardInduction
  <2> QED
    BY <2>3 DEF AllRight
<1>16. ASSUME F[n].ok, NEW s \in ToSet(c.unset) PROVE Unlocked(F[n].flags, s)
  <2>1. PICK j \in 1..Len(c.unset) : s = c.unset[j]
    BY <1>1 DEF ToSet
  <2>2. n - m = Len(c.unset)
    BY <1>1
  <2> QED
    BY <1>15, <1>16, <2>1, <2>2 DEF Right
<1> QED
  BY <1>5, <1>15, <1>16 DEF Right


-----------------------------------------------------------------------------
(* The flags on their way through the file.                                *)

FlagNames == Switches \cup Texts \cup {"c", "d", "e", "f", "l", "y"}

\* The lines of a header that say what the flags f say, but for the encoded flag.
LinesOf(lines, f) ==
  /\ DOMAIN lines \subseteq FlagNames
  /\ \A l \in FlagNames : l \in DOMAIN lines <=> HasLine(f, l)
  /\ \A l \in DOMAIN lines : l # "e" => lines[l] = FlagLine(f, TRUE, l)

LEMMA WrittenLines ==
  ASSUME NEW f, NEW encoded, NEW encodedNow, NEW rest
  PROVE  LinesOf(EndUpdate(WriteFlags(f, encoded), encodedNow, rest).lines, f)
<1> DEFINE w == WriteFlags(f, encoded)
           lines == EndUpdate(w, encodedNow, rest).lines
<1>1. /\ DOMAIN w = {l \in FlagNames : HasLine(f, l)}
      /\ \A l \in DOMAIN w : w[l] = FlagLine(f, encoded, l)
  BY DEF WriteFlags, FlagNames
<1>2. ASSUME NEW l \in FlagNames, l # "e"
      PROVE  FlagLine(f, encoded, l) = FlagLine(f, TRUE, l)
  BY <1>2 DEF FlagLine, FlagNames, Switches, Texts
<1> HIDE DEF w
<1>3. lines = w \/ lines = [w EXCEPT !["e"] = <<"1">>]
  BY DEF EndUpdate
<1>4. DOMAIN lines = DOMAIN w /\ \A l \in DOMAIN w : l # "e" => lines[l] = w[l]
  BY <1>3
<1> HIDE DEF lines
<1>5. LinesOf(lines, f)
  BY <1>1, <1>2, <1>4 DEF LinesOf
<1> QED
  BY <1>5 DEF lines, w

\* A list of names that is not empty, as it is written and read.
LEMMA ListLine ==
  ASSUME NEW S, IsFiniteSet(S), S # {}
  PROVE  LET q == Separated(SetToSeq(S)) IN
           /\ S \subseteq ToSet(q) /\ ToSet(q) \subseteq S \cup {" "}
           /\ q[1] \in S
<1> DEFINE s == SetToSeq(S)
<1>1. s \in Seq(S) /\ ToSet(s) = S
  BY SetToSeqIs
<1> HIDE DEF s
<1>2. s # <<>>
  <2>1. ToSet(<<>>) = {}
    BY DEF ToSet
  <2> QED
    BY <1>1, <2>1
<1>3. /\ Separated(s)[1] = s[1] /\ s[1] \in ToSet(s)
      /\ ToSet(s) \subseteq ToSet(Separated(s))
      /\ ToSet(Separated(s)) \subseteq ToSet(s) \cup {" "}
  BY <1>1, <1>2, SeparatedIs
<1> QED
  BY <1>1, <1>3 DEF s


\* What one flag record says and another, as read back, says too.
SameFlags(g, f) ==
  /\ g.on = f.on
  /\ g.ceiling = f.ceiling /\ g.floor = f.floor /\ g.default = f.default
  /\ g.text = f.text
  /\ g.allLocked <=> f.allLocked
  /\ ~f.allLocked => g.locked = f.locked
  /\ f.letters \subseteq g.letters /\ g.letters \subseteq f.letters \cup {" "}
  /\ f.letters = {} => g.letters = {}

LEMMA ReadBack ==
  ASSUME NEW f \in FlagRecs, NEW lines, LinesOf(lines, f)
  PROVE  ReadFlags(lines) \in FlagRecs /\ SameFlags(ReadFlags(lines), f)
<1> DEFINE g == ReadFlags(lines)
<1>1. /\ f.on \subseteq Switches
      /\ f.ceiling \in Releases \cup {"none"} /\ f.floor \in Releases \cup {"none"}
      /\ f.default \in Releases \cup {"none"}
      /\ f.locked \subseteq Releases /\ IsFiniteSet(f.locked)
      /\ f.letters \subseteq Letters \cup {" "} /\ IsFiniteSet(f.letters)
      /\ f.text \in TextArgs
  BY DEF FlagRecs, FinitePart
<1>2. \A l \in FlagNames : l \in DOMAIN lines <=> HasLine(f, l)
  BY DEF LinesOf
<1>3. \A l \in FlagNames : l \in DOMAIN lines /\ l # "e" => lines[l] = FlagLine(f, TRUE, l)
  BY DEF LinesOf
<1>4. /\ g.on = DOMAIN lines \cap Switches
      /\ g.ceiling = ReleaseArg(lines, "c") /\ g.floor = ReleaseArg(lines, "f")
      /\ g.default = ReleaseArg(lines, "d")
      /\ g.allLocked <=> AllLocked(lines)
      /\ g.locked = Tokens(lines, "l") \cap Releases
      /\ g.text = [t \in DOMAIN lines \cap Texts |-> lines[t]]
      /\ g.letters = Tokens(lines, "y")
      /\ g = [on |-> g.on, ceiling |-> g.ceiling, floor |-> g.floor, default |-> g.default,
              allLocked |-> AllLocked(lines), locked |-> g.locked, text |-> g.text,
              letters |-> g.letters]
  BY DEF ReadFlags
<1> HIDE DEF g
<1>5. g.on = f.on
  <2>1. \A l \in Switches : l \in FlagNames /\ (HasLine(f, l) <=> l \in f.on)
    BY DEF HasLine, Switches, Texts, FlagNames
  <2> QED
    BY <1>1, <1>2, <1>4, <2>1
<1>6. g.ceiling = f.ceiling /\ g.floor = f.floor /\ g.default = f.default
  <2>1. /\ HasLine(f, "c") <=> f.ceiling # "none"
        /\ HasLine(f, "f") <=> f.floor # "none"
        /\ HasLine(f, "d") <=> f.default # "none"
    BY DEF HasLine, Switches, Texts
  <2>2. /\ FlagLine(f, TRUE, "c") = <<f.ceiling>>
        /\ FlagLine(f, TRUE, "f") = <<f.floor>>
        /\ FlagLine(f, TRUE, "d") = <<f.default>>
    BY DEF FlagLine, Switches, Texts
  <2>3. {"c", "f", "d"} \subseteq FlagNames
    BY DEF FlagNames
  <2>4. \A x : <<x>>[1] = x
    OBVIOUS
  <2>5. ReleaseArg(lines, "c") = f.ceiling
    BY <1>2, <1>3, <2>1, <2>2, <2>3, <2>4 DEF ReleaseArg
  <2>6. ReleaseArg(lines, "f") = f.floor
    BY <1>2, <1>3, <2>1, <2>2, <2>3, <2>4 DEF ReleaseArg
  <2>7. ReleaseArg(lines, "d") = f.default
    BY <1>2, <1>3, <2>1, <2>2, <2>3, <2>4 DEF ReleaseArg
  <2> QED
    BY <1>4, <2>5, <2>6, <2>7
<1>7. g.text = f.text
  <2>1. PICK D \in SUBSET Texts : f.text \in [D -> Seq(STRING)]
    BY <1>1 DEF TextArgs
  <2>2. \A l \in Texts : l \in FlagNames /\ l # "e" /\ (HasLine(f, l) <=> l \in DOMAIN f.text)
    BY DEF HasLine, Switches, Texts, FlagNames
  <2>3. \A l \in Texts : FlagLine(f, TRUE, l) = f.text[l]
    BY DEF FlagLine, Switches, Texts
  <2>4. DOMAIN f.text = D /\ DOMAIN lines \cap Texts = D
    BY <1>2, <2>1, <2>2
  <2>5. \A t \in D : lines[t] = f.text[t]
    BY <1>3, <2>1, <2>2, <2>3, <2>4
  <2>6. f.text = [t \in D |-> f.text[t]]
    BY <2>1
  <2> QED
    BY <1>4, <2>4, <2>5, <2>6
<1>8. /\ g.allLocked <=> f.allLocked
      /\ g.locked = IF f.allLocked THEN {} ELSE f.locked
  <2>1. HasLine(f, "l") <=> f.allLocked \/ f.locked # {}
    BY DEF HasLine, Switches, Texts
  <2>2. FlagLine(f, TRUE, "l") = IF f.allLocked THEN <<"a">> ELSE Separated(SetToSeq(f.locked))
    BY DEF FlagLine, Switches, Texts
  <2>3. "l" \in FlagNames /\ "a" \notin Releases /\ " " \notin Releases
    BY AdminAssumption DEF FlagNames
  <2>4. ToSet(<<"a">>) = {"a"} /\ <<"a">>[1] = "a"
    <3>1. DOMAIN <<"a">> = {1} /\ <<"a">>[1] = "a"
      OBVIOUS
    <3> QED
      BY <3>1 DEF ToSet
  <2>5. CASE f.allLocked
    <3>1. "l" \in DOMAIN lines /\ lines["l"] = <<"a">>
      BY <1>2, <1>3, <2>1, <2>2, <2>3, <2>5
    <3>2. AllLocked(lines) /\ Tokens(lines, "l") = {"a"}
      BY <2>4, <3>1 DEF AllLocked, Tokens
    <3> QED
      BY <1>4, <2>3, <2>5, <3>2
  <2>6. CASE ~f.allLocked /\ f.locked = {}
    <3>1. "l" \notin DOMAIN lines
      BY <1>2, <2>1, <2>3, <2>6
    <3> QED
      BY <1>4, <2>6, <3>1 DEF AllLocked, Tokens
  <2>7. CASE ~f.allLocked /\ f.locked # {}
    <3> DEFINE q == Separated(SetToSeq(f.locked))
    <3>1. "l" \in DOMAIN lines /\ lines["l"] = q
      BY <1>2, <1>3, <2>1, <2>2, <2>3, <2>7
    <3>2. /\ f.locked \subseteq ToSet(q) /\ ToSet(q) \subseteq f.locked \cup {" "}
          /\ q[1] \in f.locked
      BY <1>1, <2>7, ListLine
    <3> HIDE DEF q
    <3>3. q # <<"a">>
      BY <1>1, <2>3, <2>4, <3>2
    <3>4. ~AllLocked(lines) /\ Tokens(lines, "l") = ToSet(q)
      BY <3>1, <3>3 DEF AllLocked, Tokens
    <3>5. ToSet(q) \cap Releases = f.locked
      BY <1>1, <2>3, <3>2
    <3> QED
      BY <1>4, <2>7, <3>4, <3>5
  <2> QED
    BY <2>5, <2>6, <2>7
<1>9. /\ f.letters \subseteq g.letters /\ g.letters \subseteq f.letters \cup {" "}
      /\ f.letters = {} => g.letters = {}
  <2>1. HasLine(f, "y") <=> f.letters # {}
    BY DEF HasLine, Switches, Texts
  <2>2. FlagLine(f, TRUE, "y") = Separated(SetToSeq(f.letters))
    BY DEF FlagLine, Switches, Texts
  <2>3. "y" \in FlagNames
    BY DEF FlagNames
  <2>4. CASE f.letters = {}
    BY <1>2, <1>4, <2>1, <2>3, <2>4 DEF Tokens
  <2>5. CASE f.letters # {}
    <3> DEFINE q == Separated(SetToSeq(f.letters))
    <3>1. "y" \in DOMAIN lines /\ lines["y"] = q
      BY <1>2, <1>3, <2>1, <2>2, <2>3, <2>5
    <3>2. f.letters \subseteq ToSet(q) /\ ToSet(q) \subseteq f.letters \cup {" "}
      BY <1>1, <2>5, ListLine
    <3> HIDE DEF q
    <3> QED
      BY <1>4, <2>5, <3>1, <3>2 DEF Tokens
  <2> QED
    BY <2>4, <2>5
<1>10. SameFlags(g, f)
  BY <1>5, <1>6, <1>7, <1>8, <1>9 DEF SameFlags
<1>11. g \in FlagRecs
  <2>1. g.locked \in FinitePart(Releases)
    BY <1>1, <1>8, FS_EmptySet DEF FinitePart
  <2>2. g.letters \in FinitePart(Letters \cup {" "})
    <3>1. IsFiniteSet(f.letters \cup {" "})
      BY <1>1, FS_Singleton, FS_Union
    <3>2. IsFiniteSet(g.letters)
      BY <1>9, <3>1, FS_Subset
    <3> QED
      BY <1>1, <1>9, <3>2 DEF FinitePart
  <2>3. AllLocked(lines) \in BOOLEAN
    BY DEF AllLocked
  <2>4. ASSUME NEW on \in SUBSET Switches, NEW ceiling \in Releases \cup {"none"},
               NEW floor \in Releases \cup {"none"}, NEW default \in Releases \cup {"none"},
               NEW allLocked \in BOOLEAN, NEW locked \in FinitePart(Releases),
               NEW text \in TextArgs, NEW letters \in FinitePart(Letters \cup {" "})
        PROVE  [on |-> on, ceiling |-> ceiling, floor |-> floor, default |-> default,
                allLocked |-> allLocked, locked |-> locked, text |-> text,
                letters |-> letters] \in FlagRecs
    BY DEF FlagRecs
  <2>5. /\ g.on \in SUBSET Switches
        /\ g.ceiling \in Releases \cup {"none"} /\ g.floor \in Releases \cup {"none"}
        /\ g.default \in Releases \cup {"none"} /\ g.text \in TextArgs
    BY <1>1, <1>5, <1>6, <1>7
  <2>6. g = [on |-> g.on, ceiling |-> g.ceiling, floor |-> g.floor, default |-> g.default,
             allLocked |-> AllLocked(lines), locked |-> g.locked, text |-> g.text,
             letters |-> g.letters]
    BY <1>4
  <2>7. [on |-> g.on, ceiling |-> g.ceiling, floor |-> g.floor, default |-> g.default,
         allLocked |-> AllLocked(lines), locked |-> g.locked, text |-> g.text,
         letters |-> g.letters] \in FlagRecs
    BY <2>1, <2>2, <2>3, <2>4, <2>5
  <2> QED
    BY Zenon, <2>6, <2>7
<1> QED
  BY <1>10, <1>11 DEF g


-----------------------------------------------------------------------------
(* The invariant: the lines of the file say what the last command meant.   *)

\* The provers do not know that these two words are strings.
Words == STRING \cup {"DELETED", "CHANGED"}
Lists(h) == h.users \in Seq(Words) /\ h.mrs \in Seq(Words) /\ h.comments \in Seq(Words)
Bodies == {"empty", "text", "encoded"}

FlagsInv ==
  /\ meant.flags \in FlagRecs /\ meant.encoded \in BOOLEAN
  /\ file # Absent => /\ LinesOf(file.lines, meant.flags)
                      /\ ReadEncoded(file.lines) <=> meant.encoded
                      /\ file.stored \in 0..(SumModulus - 1)
                      /\ file.body \in Bodies
                      /\ Lists(file)

\* A file that has been written from flags that are right.
LEMMA WrittenFlags ==
  ASSUME NEW flags \in FlagRecs, NEW encoded, NEW encodedNow \in BOOLEAN,
         encoded => encodedNow, NEW rest \in 0..(SumModulus - 1),
         NEW header, header.body \in Bodies, Lists(header),
         file' = Written(flags, encoded, encodedNow, rest, header),
         meant' = [flags |-> flags, encoded |-> encodedNow]
  PROVE  /\ FlagsInv'
         /\ LinesOf(file'.lines, flags)
         /\ file'.users = header.users /\ file'.mrs = header.mrs
         /\ file'.comments = header.comments
<1> DEFINE end == EndUpdate(WriteFlags(flags, encoded), encodedNow, rest)
<1>1. /\ file'.lines = end.lines /\ file'.stored = end.stored /\ file'.rest = rest
      /\ file'.users = header.users /\ file'.mrs = header.mrs
      /\ file'.comments = header.comments /\ file'.body = header.body
  BY DEF Written
<1>2. LinesOf(end.lines, flags)
  BY WrittenLines
<1>3. /\ ReadEncoded(file'.lines) <=> encodedNow
      /\ file'.stored = Checksum(file'.lines, file'.rest)
  BY WrittenRight
<1> HIDE DEF end
<1>4. meant'.flags = flags /\ meant'.encoded = encodedNow
  OBVIOUS
<1>5. file'.stored \in 0..(SumModulus - 1)
  <2>1. SumModulus \in Nat /\ SumModulus # 0
    BY AdminAssumption
  <2>2. \E k \in Int : file'.stored = k % SumModulus
    <3>1. rest + 1 \in Int /\ rest + 0 \in Int
      OBVIOUS
    <3>2. file'.stored = (rest + 1) % SumModulus \/ file'.stored = (rest + 0) % SumModulus
      BY <1>1, <1>3 DEF Checksum
    <3> QED
      BY <3>1, <3>2
  <2> QED
    BY <2>1, <2>2
<1>6. Lists(file)'
  BY <1>1 DEF Lists
<1>7. LinesOf(file'.lines, flags)
  BY <1>1, <1>2
<1>8. FlagsInv'
  BY <1>1, <1>3, <1>4, <1>5, <1>6, <1>7 DEF FlagsInv
<1> QED
  BY <1>1, <1>7, <1>8

LEMMA RewrittenFlags ==
  ASSUME NEW flags \in FlagRecs, NEW encoded \in BOOLEAN,
         NEW header, header.body \in Bodies, Lists(header),
         Rewrite(flags, encoded, header)
  PROVE  /\ FlagsInv'
         /\ LinesOf(file'.lines, flags)
         /\ file'.users = header.users /\ file'.mrs = header.mrs
         /\ file'.comments = header.comments
<1>1. PICK rest \in 0..(SumModulus - 1) :
        file' = Written(flags, encoded, encoded, rest, header)
  BY DEF Rewrite
<1>2. meant' = [flags |-> flags, encoded |-> encoded]
  BY DEF Rewrite
<1> QED
  BY <1>1, <1>2, WrittenFlags

\* What is locked is read back as it was written.
LEMMA LockedReadBack ==
  ASSUME NEW f \in FlagRecs, NEW lines, LinesOf(lines, f), NEW r
  PROVE  Locked(ReadFlags(lines), r) <=> Locked(f, r)
<1>1. SameFlags(ReadFlags(lines), f)
  BY ReadBack
<1> QED
  BY <1>1 DEF SameFlags, Locked


\* The lists that the commands are given.
LEMMA GivenWords ==
  /\ \A c \in Commands : c.add \in Seq(Words)
  /\ \A n \in Creations : n.mrs \in Seq(Words) /\ n.comments \in Seq(Words)
  /\ \A c \in Changes : c.mrs \in Seq(Words) /\ c.comments \in Seq(Words)
<1>1. ASSUME NEW S, NEW T, S \subseteq T, NEW s \in Seq(S) PROVE s \in Seq(T)
  BY <1>1
<1>2. STRING \subseteq Words
  BY DEF Words
<1>3. \A s \in Seq(STRING) : s \in Seq(Words)
  BY <1>1, <1>2
<1> QED
  BY Zenon, <1>3, AdminAssumption

\* process_mrs: the MRs that are kept, and those that go, which the comments name.
LEMMA CdcLists ==
  ASSUME NEW mrs \in Seq(Words), NEW c \in Changes
  PROVE  /\ c.mrs \o KeptMrs(mrs, c) \in Seq(Words)
         /\ ToSet(mrs) \ c.delete \subseteq ToSet(c.mrs \o KeptMrs(mrs, c))
         /\ NewComments(mrs, c) \in Seq(Words)
         /\ ToSet(mrs) \cap c.delete \subseteq ToSet(NewComments(mrs, c))
<1> DEFINE kept == KeptMrs(mrs, c)
           gone == DeletedMrs(mrs, c)
           note == DeletionComment(mrs, c)
           changed == IF c.comments = <<>> THEN <<>> ELSE <<"CHANGED">>
           given == c.mrs
           said == c.comments
<1>0. ASSUME NEW T, NEW x \in T PROVE <<x>> \in Seq(T) /\ <<>> \in Seq(T)
  OBVIOUS
<1>s. "DELETED" \in Words /\ "CHANGED" \in Words
  BY DEF Words
<1>1. given \in Seq(Words) /\ said \in Seq(Words)
  BY GivenWords
<1>2. kept \in Seq(Words) /\ ToSet(kept) = ToSet(mrs) \ c.delete
  BY WithoutIs DEF KeptMrs
<1>3. gone \in Seq(Words) /\ ToSet(gone) = ToSet(mrs) \cap c.delete
  <2>1. gone \in Seq(Words) /\ ToSet(gone) = ToSet(mrs) \ (ToSet(mrs) \ c.delete)
    BY WithoutIs DEF DeletedMrs
  <2> QED
    BY <2>1
<1>4. changed \in Seq(Words)
  <2>1. <<>> \in Seq(Words) /\ <<"CHANGED">> \in Seq(Words)
    BY Zenon, <1>0, <1>s
  <2> QED
    BY <2>1
<1>5. NewComments(mrs, c) = said \o note \o changed
  BY DEF NewComments
<1>6. note = IF gone = <<>> THEN <<>> ELSE <<"DELETED">> \o gone
  BY DEF DeletionComment
<1> HIDE DEF kept, gone, note, changed, given, said
<1>7. note \in Seq(Words) /\ ToSet(gone) \subseteq ToSet(note)
  <2> DEFINE d == <<"DELETED">>
  <2>1. d \in Seq(Words)
    BY Zenon, <1>0, <1>s
  <2> HIDE DEF d
  <2>2. d \o gone \in Seq(Words) /\ ToSet(d \o gone) = ToSet(d) \cup ToSet(gone)
    BY <1>3, <2>1, ConcatSet
  <2>3. CASE gone = <<>>
    BY <1>3, <1>6, <2>3
  <2>4. CASE gone # <<>>
    BY <1>6, <2>2, <2>4 DEF d
  <2> QED
    BY <2>3, <2>4
<1>8. said \o note \in Seq(Words) /\ ToSet(said \o note) = ToSet(said) \cup ToSet(note)
  BY <1>1, <1>7, ConcatSet
<1>9. /\ (said \o note) \o changed \in Seq(Words)
      /\ ToSet((said \o note) \o changed) = ToSet(said \o note) \cup ToSet(changed)
  <2> DEFINE p == said \o note
  <2>0. p \in Seq(Words)
    BY <1>8
  <2> HIDE DEF p
  <2>1. p \o changed \in Seq(Words) /\ ToSet(p \o changed) = ToSet(p) \cup ToSet(changed)
    BY <1>4, <2>0, ConcatSet
  <2> QED
    BY <2>1 DEF p
<1>10. given \o kept \in Seq(Words) /\ ToSet(given \o kept) = ToSet(given) \cup ToSet(kept)
  BY <1>1, <1>2, ConcatSet
<1>11. ToSet(mrs) \ c.delete \subseteq ToSet(given \o kept)
  BY <1>2, <1>10
<1>12. ToSet(mrs) \cap c.delete \subseteq ToSet(NewComments(mrs, c))
  BY <1>3, <1>5, <1>7, <1>8, <1>9
<1> QED
  BY <1>5, <1>9, <1>10, <1>11, <1>12 DEF given, kept

\* A list before another: what was put in front, and what is behind.
LEMMA InFront ==
  ASSUME NEW T, NEW r \in Seq(T), NEW s \in Seq(T)
  PROVE  /\ IsSuffix(s, r \o s)
         /\ SubSeq(r \o s, 1, Len(r \o s) - Len(s)) = r
<1> DEFINE q == r \o s
<1>1. /\ q \in Seq(T) /\ Len(q) = Len(r) + Len(s) /\ Len(r) \in Nat /\ Len(s) \in Nat
      /\ \A i \in 1..Len(q) : q[i] = IF i <= Len(r) THEN r[i] ELSE s[i - Len(r)]
  OBVIOUS
<1> HIDE DEF q
<1>2. SubSeq(q, 1, Len(q) - Len(s)) = r
  <2>1. Len(q) - Len(s) = Len(r)
    BY <1>1
  <2>2. SubSeq(q, 1, Len(r)) = [i \in 1..Len(r) |-> q[i]]
    BY <1>1
  <2>3. r = [i \in 1..Len(r) |-> r[i]]
    OBVIOUS
  <2>4. \A i \in 1..Len(r) : q[i] = r[i]
    BY <1>1
  <2> QED
    BY <2>1, <2>2, <2>3, <2>4
<1>3. IsSuffix(s, q)
  <2> DEFINE a == Reverse(s)
             b == Reverse(q)
  <2>1. /\ a = [i \in 1..Len(s) |-> s[(Len(s) - i) + 1]]
        /\ b = [i \in 1..Len(q) |-> q[(Len(q) - i) + 1]]
    BY DEF Reverse
  <2>2. a \in Seq(T) /\ Len(a) = Len(s)
    <3>1. \A i \in 1..Len(s) : s[(Len(s) - i) + 1] \in T
      BY <1>1
    <3> QED
      BY <1>1, <2>1, <3>1
  <2>3. b \in Seq(T) /\ Len(b) = Len(q)
    <3>1. \A i \in 1..Len(q) : q[(Len(q) - i) + 1] \in T
      BY <1>1
    <3> QED
      BY <1>1, <2>1, <3>1
  <2>4. ASSUME NEW i \in 1..Len(s) PROVE a[i] = b[i]
    <3>1. /\ (Len(q) - i) + 1 \in 1..Len(q) /\ ~((Len(q) - i) + 1 <= Len(r))
          /\ ((Len(q) - i) + 1) - Len(r) = (Len(s) - i) + 1
          /\ i \in 1..Len(q)
      BY <1>1
    <3> QED
      BY <1>1, <2>1, <3>1
  <2> HIDE DEF a, b
  <2>5. SubSeq(a, 1, Len(s)) = [i \in 1..Len(s) |-> a[i]]
    BY <1>1, <2>2
  <2>6. SubSeq(b, 1, Len(s)) = [i \in 1..Len(s) |-> b[i]]
    BY <1>1, <2>3
  <2>7. SubSeq(a, 1, Len(a)) = SubSeq(b, 1, Len(a)) /\ Len(a) <= Len(b)
    BY <1>1, <2>2, <2>3, <2>4, <2>5, <2>6
  <2> QED
    BY <2>7 DEF IsSuffix, IsPrefix, a, b
<1> QED
  BY <1>2, <1>3 DEF q


\* What a step must not forget.
NoneForgotten ==
  file # Absent =>
    /\ IsSuffix(file.comments, file'.comments)
    /\ \A m \in ToSet(file.mrs) \ ToSet(file'.mrs) :
         m \in ToSet(SubSeq(file'.comments, 1, Len(file'.comments) - Len(file.comments)))

LEMMA SameListsRemembered ==
  ASSUME file.comments \in Seq(Words), file'.comments = file.comments, file'.mrs = file.mrs
  PROVE  NoneForgotten
<1> DEFINE s == file.comments
<1>1. <<>> \o s = s /\ <<>> \in Seq(Words)
  OBVIOUS
<1>2. IsSuffix(s, <<>> \o s)
  BY <1>1, InFront
<1> QED
  BY <1>1, <1>2 DEF NoneForgotten

\* The users after admin.
LEMMA ChangeUsersIs ==
  ASSUME NEW users \in Seq(Words), NEW c \in Commands
  PROVE  /\ ChangeUsers(users, c) \in Seq(Words)
         /\ (c.erase \ ToSet(c.add)) \cap ToSet(ChangeUsers(users, c)) = {}
<1> DEFINE left == Without(users, c.erase)
           added == c.add
<1>1. added \in Seq(Words)
  BY GivenWords
<1>2. left \in Seq(Words) /\ ToSet(left) = ToSet(users) \ c.erase
  BY WithoutIs
<1>3. ChangeUsers(users, c) = added \o left
  BY DEF ChangeUsers
<1> HIDE DEF left, added
<1>4. added \o left \in Seq(Words) /\ ToSet(added \o left) = ToSet(added) \cup ToSet(left)
  BY <1>1, <1>2, ConcatSet
<1> QED
  BY <1>2, <1>3, <1>4 DEF added

\* What the -dl options of a successful command name is not locked.
LEMMA TakenBackUnlocked ==
  ASSUME NEW f \in FlagRecs, NEW c \in Commands, ChangeFlags(f, c).ok,
         NEW r \in TakenBack(c).releases
  PROVE  ~Locked(ChangeFlags(f, c).flags, r)
<1> DEFINE g == ChangeFlags(f, c).flags
<1>1. c.set \in Seq(Settings) /\ c.unset \in Seq(Settings)
  BY AdminAssumption DEF Settings
<1>2. \A s \in ToSet(c.unset) : Unlocked(g, s)
  BY <1>1, ChangeFlagsIs
<1>3. TakenBack(c).releases =
        UNION {IF s.arg = <<"a">> THEN Releases ELSE ReleaseList(s.arg) :
                 s \in {t \in ToSet(c.unset) : t.flag = "l"}}
  BY DEF TakenBack
<1>4. PICK s \in ToSet(c.unset) :
        s.flag = "l" /\ r \in IF s.arg = <<"a">> THEN Releases ELSE ReleaseList(s.arg)
  BY <1>3
<1> HIDE DEF g
<1>5. ~g.allLocked /\ (s.arg = <<"a">> => g.locked = {}) /\ g.locked \cap ReleaseList(s.arg) = {}
  BY <1>2, <1>4 DEF Unlocked
<1>6. ~Locked(g, r)
  BY <1>4, <1>5 DEF Locked
<1> QED
  BY <1>6 DEF g

LEMMA CreateKeeps ==
  ASSUME NEW c \in Commands, NEW n \in Creations, Create(c, n)
  PROVE  FlagsInv' /\ TakenBackIsGone' /\ NoneForgotten
<1> DEFINE new == ChangeFlags(NoFlags, c)
           encoded == Encodes(c.binary, n.input)
           header == [users |-> ChangeUsers(<<>>, c), description |-> Description("", c),
                      mrs |-> n.mrs, comments |-> n.comments,
                      body |-> Body(n.input, encoded)]
<1>1. /\ file = Absent /\ new.ok
      /\ \E rest \in 0..(SumModulus - 1) :
           file' = Written(new.flags, c.binary, encoded, rest, header)
      /\ meant' = [flags |-> new.flags, encoded |-> encoded]
      /\ undone' = TakenBack(c)
  BY DEF Create
<1>2. NoFlags \in FlagRecs
  BY NoFlagsTyped
<1>3. new.flags \in FlagRecs
  <2>1. c.set \in Seq(Settings) /\ c.unset \in Seq(Settings)
    BY AdminAssumption DEF Settings
  <2>2. new \in Outcomes
    BY <1>2, <2>1, ChangeFlagsIs
  <2> HIDE DEF new
  <2> QED
    BY <2>2 DEF Outcomes
<1>4. <<>> \in Seq(Words)
  OBVIOUS
<1>5. /\ ChangeUsers(<<>>, c) \in Seq(Words)
      /\ (c.erase \ ToSet(c.add)) \cap ToSet(ChangeUsers(<<>>, c)) = {}
  BY <1>4, ChangeUsersIs
<1>6. /\ header.users = ChangeUsers(<<>>, c) /\ header.mrs = n.mrs
      /\ header.comments = n.comments /\ header.body = Body(n.input, encoded)
  OBVIOUS
<1>7. Body(n.input, encoded) \in Bodies
  BY DEF Body, Bodies
<1>8. encoded \in BOOLEAN /\ (c.binary => encoded)
  BY DEF Encodes
<1> HIDE DEF encoded, header
<1>9. Lists(header)
  BY <1>5, <1>6, GivenWords DEF Lists
<1>10. header.body \in Bodies
  BY <1>6, <1>7
<1>11. PICK rest \in 0..(SumModulus - 1) :
         file' = Written(new.flags, c.binary, encoded, rest, header)
  BY <1>1
<1>12. /\ FlagsInv'
       /\ LinesOf(file'.lines, new.flags)
       /\ file'.users = header.users
  <2> HIDE DEF new
  <2> QED
    BY <1>1, <1>3, <1>8, <1>9, <1>10, <1>11, WrittenFlags
<1>13. ASSUME NEW r \in undone'.releases PROVE ~Locked(ReadFlags(file'.lines), r)
  <2>1. ~Locked(new.flags, r)
    BY <1>1, <1>2, <1>13, TakenBackUnlocked
  <2> HIDE DEF new
  <2> QED
    BY <1>3, <1>12, <2>1, LockedReadBack
<1>14. undone'.users \cap ToSet(file'.users) = {}
  BY <1>1, <1>5, <1>6, <1>12 DEF TakenBack
<1>15. TakenBackIsGone'
  BY <1>13, <1>14 DEF TakenBackIsGone
<1> QED
  BY <1>1, <1>12, <1>15 DEF NoneForgotten

LEMMA ChangeKeeps ==
  ASSUME FlagsInv, NEW c \in Commands, Change(c)
  PROVE  FlagsInv' /\ TakenBackIsGone' /\ NoneForgotten
<1> DEFINE f == ReadFlags(file.lines)
           new == ChangeFlags(f, c)
           users == ChangeUsers(file.users, c)
           encoded == c.binary \/ ReadEncoded(file.lines)
           header == [Header EXCEPT !.users = users,
                                    !.description = Description(file.description, c)]
<1>1. /\ file # Absent /\ new.ok
      /\ Rewrite(new.flags, encoded, header)
      /\ undone' = TakenBack(c)
  BY DEF Change
<1>2. /\ meant.flags \in FlagRecs /\ LinesOf(file.lines, meant.flags)
      /\ file.body \in Bodies /\ Lists(file)
  BY <1>1 DEF FlagsInv
<1>3. f \in FlagRecs
  BY <1>2, ReadBack
<1>4. /\ users \in Seq(Words)
      /\ (c.erase \ ToSet(c.add)) \cap ToSet(users) = {}
  BY <1>2, ChangeUsersIs DEF Lists
<1>5. /\ header.users = users /\ header.mrs = file.mrs
      /\ header.comments = file.comments /\ header.body = file.body
  BY DEF Header
<1>6. encoded \in BOOLEAN
  BY DEF ReadEncoded
<1> HIDE DEF f, users, encoded, header
<1>7. new.flags \in FlagRecs
  <2>1. c.set \in Seq(Settings) /\ c.unset \in Seq(Settings)
    BY AdminAssumption DEF Settings
  <2>2. new \in Outcomes
    BY <1>3, <2>1, ChangeFlagsIs
  <2> HIDE DEF new
  <2> QED
    BY <2>2 DEF Outcomes
<1>8. Lists(header) /\ header.body \in Bodies
  BY <1>2, <1>4, <1>5 DEF Lists
<1>9. /\ FlagsInv'
      /\ LinesOf(file'.lines, new.flags)
      /\ file'.users = header.users /\ file'.mrs = header.mrs
      /\ file'.comments = header.comments
  <2> HIDE DEF new
  <2> QED
    BY <1>1, <1>6, <1>7, <1>8, RewrittenFlags
<1>10. ASSUME NEW r \in undone'.releases PROVE ~Locked(ReadFlags(file'.lines), r)
  <2>1. ~Locked(new.flags, r)
    BY <1>1, <1>3, <1>10, TakenBackUnlocked
  <2> HIDE DEF new
  <2> QED
    BY <1>7, <1>9, <2>1, LockedReadBack
<1>11. undone'.users \cap ToSet(file'.users) = {}
  BY <1>1, <1>4, <1>5, <1>9 DEF TakenBack
<1>12. TakenBackIsGone'
  BY <1>10, <1>11 DEF TakenBackIsGone
<1>13. NoneForgotten
  BY <1>2, <1>5, <1>9, SameListsRemembered DEF Lists
<1> QED
  BY <1>9, <1>12, <1>13

\* A command that rewrites the file with the flags it read leaves what was taken back
\* gone.
LEMMA RewrittenAsRead ==
  ASSUME FlagsInv, TakenBackIsGone, file # Absent, NEW header,
         header.users = file.users, header.body = file.body, Lists(header),
         Rewrite(ReadFlags(file.lines), ReadEncoded(file.lines), header),
         undone' = undone
  PROVE  /\ FlagsInv' /\ TakenBackIsGone'
         /\ file'.mrs = header.mrs /\ file'.comments = header.comments
<1> DEFINE f == ReadFlags(file.lines)
           encoded == ReadEncoded(file.lines)
<1>1. meant.flags \in FlagRecs /\ LinesOf(file.lines, meant.flags) /\ file.body \in Bodies
  BY DEF FlagsInv
<1>2. f \in FlagRecs
  BY <1>1, ReadBack
<1>3. encoded \in BOOLEAN
  BY DEF ReadEncoded
<1>4. header.body \in Bodies
  BY <1>1
<1>5. Rewrite(f, encoded, header)
  OBVIOUS
<1>6. \A r \in undone.releases : ~Locked(f, r)
  BY DEF TakenBackIsGone
<1>7. undone.users \cap ToSet(file.users) = {}
  BY DEF TakenBackIsGone
<1> HIDE DEF f, encoded
<1>8. /\ FlagsInv'
      /\ LinesOf(file'.lines, f)
      /\ file'.users = header.users /\ file'.mrs = header.mrs
      /\ file'.comments = header.comments
  BY <1>2, <1>3, <1>4, <1>5, RewrittenFlags
<1>9. \A r \in undone'.releases : ~Locked(ReadFlags(file'.lines), r)
  BY <1>2, <1>6, <1>8, LockedReadBack
<1>10. undone'.users \cap ToSet(file'.users) = {}
  BY <1>7, <1>8
<1>11. TakenBackIsGone'
  BY <1>9, <1>10 DEF TakenBackIsGone
<1> QED
  BY <1>8, <1>11

LEMMA FixChecksumKeeps ==
  ASSUME FlagsInv, TakenBackIsGone, FixChecksum
  PROVE  FlagsInv' /\ TakenBackIsGone' /\ NoneForgotten
<1>1. /\ file # Absent /\ undone' = undone
      /\ Rewrite(ReadFlags(file.lines), ReadEncoded(file.lines), Header)
  BY DEF FixChecksum
<1>2. /\ Header.users = file.users /\ Header.body = file.body
      /\ Header.mrs = file.mrs /\ Header.comments = file.comments
  BY DEF Header
<1>3. Lists(file)
  BY <1>1 DEF FlagsInv
<1>4. Lists(Header)
  BY <1>2, <1>3 DEF Lists
<1>5. /\ FlagsInv' /\ TakenBackIsGone'
      /\ file'.mrs = Header.mrs /\ file'.comments = Header.comments
  BY <1>1, <1>2, <1>4, RewrittenAsRead
<1>6. NoneForgotten
  BY <1>2, <1>3, <1>5, SameListsRemembered DEF Lists
<1> QED
  BY <1>5, <1>6

LEMMA CdcKeeps ==
  ASSUME FlagsInv, TakenBackIsGone, NEW c \in Changes, Cdc(c)
  PROVE  FlagsInv' /\ TakenBackIsGone' /\ NoneForgotten
<1> DEFINE mrs == c.mrs \o KeptMrs(file.mrs, c)
           new == NewComments(file.mrs, c)
           old == file.comments
           header == [Header EXCEPT !.mrs = mrs, !.comments = new \o old]
<1>1. /\ file # Absent /\ undone' = undone
      /\ Rewrite(ReadFlags(file.lines), ReadEncoded(file.lines), header)
  BY DEF Cdc
<1>2. Lists(file)
  BY <1>1 DEF FlagsInv
<1>3. /\ mrs \in Seq(Words) /\ ToSet(file.mrs) \ c.delete \subseteq ToSet(mrs)
      /\ new \in Seq(Words) /\ ToSet(file.mrs) \cap c.delete \subseteq ToSet(new)
  BY <1>2, CdcLists DEF Lists
<1>4. /\ header.users = file.users /\ header.body = file.body
      /\ header.mrs = mrs /\ header.comments = new \o old
  BY DEF Header
<1>5. old \in Seq(Words) /\ file.users \in Seq(Words)
  BY <1>2 DEF Lists
<1>o. file.comments = old
  OBVIOUS
<1> HIDE DEF mrs, new, old, header
<1>6. new \o old \in Seq(Words)
  BY <1>3, <1>5
<1>7. Lists(header)
  BY <1>3, <1>4, <1>5, <1>6 DEF Lists
<1>8. /\ FlagsInv' /\ TakenBackIsGone'
      /\ file'.mrs = mrs /\ file'.comments = new \o old
  BY <1>1, <1>4, <1>7, RewrittenAsRead
<1>9. /\ IsSuffix(old, new \o old)
      /\ SubSeq(new \o old, 1, Len(new \o old) - Len(old)) = new
  BY <1>3, <1>5, InFront
<1>10. \A m \in ToSet(file.mrs) \ ToSet(mrs) : m \in ToSet(new)
  BY <1>3
<1>11. NoneForgotten
  BY <1>8, <1>9, <1>10, <1>o DEF NoneForgotten
<1> QED
  BY <1>8, <1>11

LEMMA FlagsInit == Init => FlagsInv /\ TakenBackIsGone
<1> SUFFICES ASSUME Init PROVE FlagsInv /\ TakenBackIsGone
  OBVIOUS
<1>1. file = Absent /\ meant.flags = NoFlags /\ meant.encoded = FALSE
  BY DEF Init
<1> QED
  BY <1>1, NoFlagsTyped DEF FlagsInv, TakenBackIsGone

LEMMA FlagsNext ==
  FlagsInv /\ TakenBackIsGone /\ [Next]_vars =>
    FlagsInv' /\ TakenBackIsGone' /\ (NoneForgotten \/ UNCHANGED vars)
<1> SUFFICES ASSUME FlagsInv, TakenBackIsGone, [Next]_vars
             PROVE  FlagsInv' /\ TakenBackIsGone' /\ (NoneForgotten \/ UNCHANGED vars)
  OBVIOUS
<1>1. CASE \E c \in Commands, n \in Creations : Create(c, n)
  BY <1>1, CreateKeeps
<1>2. CASE \E c \in Commands : Change(c)
  BY <1>2, ChangeKeeps
<1>3. CASE FixChecksum
  BY <1>3, FixChecksumKeeps
<1>4. CASE \E c \in Changes : Cdc(c)
  BY <1>4, CdcKeeps
<1>5. CASE UNCHANGED vars
  BY <1>5 DEF vars, FlagsInv, TakenBackIsGone, Lists
<1> QED
  BY <1>1, <1>2, <1>3, <1>4, <1>5 DEF Next


\* Flags that are read back mean what they meant.
LEMMA MeaningReadBack ==
  ASSUME NEW f \in FlagRecs, NEW lines, LinesOf(lines, f)
  PROVE  Meaning(ReadFlags(lines)) = Meaning(f)
<1> DEFINE g == ReadFlags(lines)
<1>1. SameFlags(g, f)
  BY ReadBack
<1> HIDE DEF g
<1>2. {r \in Releases : Locked(g, r)} = {r \in Releases : Locked(f, r)}
  BY <1>1 DEF SameFlags, Locked
<1>3. Expanded(g) = Expanded(f)
  <2>1. " " \notin Keywords
    BY AdminAssumption
  <2>2. /\ f.letters \subseteq g.letters /\ g.letters \subseteq f.letters \cup {" "}
        /\ f.letters = {} => g.letters = {}
    BY <1>1 DEF SameFlags
  <2>3. g.letters \cap Keywords = f.letters \cap Keywords
    BY <2>1, <2>2
  <2>4. f.letters = {} <=> g.letters = {}
    BY <2>2
  <2> QED
    BY <2>3, <2>4 DEF Expanded
<1>4. /\ g.on = f.on /\ g.ceiling = f.ceiling /\ g.floor = f.floor
      /\ g.default = f.default /\ g.text = f.text
  BY <1>1 DEF SameFlags
<1>5. Meaning(g) = Meaning(f)
  BY <1>2, <1>3, <1>4 DEF Meaning
<1> QED
  BY <1>5 DEF g

LEMMA FlagRecsOK ==
  ASSUME NEW f \in FlagRecs
  PROVE  FlagsOK(f)
<1>1. /\ f.on \subseteq Switches
      /\ f.ceiling \in Releases \cup {"none"} /\ f.floor \in Releases \cup {"none"}
      /\ f.default \in Releases \cup {"none"}
      /\ f.locked \subseteq Releases /\ f.letters \subseteq Letters \cup {" "}
  BY DEF FlagRecs, FinitePart
<1>2. f.allLocked \in BOOLEAN
  BY DEF FlagRecs
<1>3. DOMAIN f.text \subseteq Texts
  <2>1. PICK D \in SUBSET Texts : f.text \in [D -> Seq(STRING)]
    BY DEF FlagRecs, TextArgs
  <2> QED
    BY <2>1
<1> QED
  BY <1>1, <1>2, <1>3 DEF FlagsOK

-----------------------------------------------------------------------------
\* The flags in memory and in the file keep their types under every option of admin and
\* cdc, and only releases that admin has checked stand in them (sccs_file::admin, the
\* constructor of sccs_file).
THEOREM AdminIsWellTyped == Spec => []TypeOK
<1>1. FlagsInv => TypeOK
  <2> SUFFICES ASSUME FlagsInv PROVE TypeOK
    OBVIOUS
  <2>1. meant.flags \in FlagRecs /\ meant.encoded \in BOOLEAN
    BY DEF FlagsInv
  <2>2. FlagsOK(meant.flags)
    BY <2>1, FlagRecsOK
  <2>3. ASSUME file # Absent PROVE FlagsOK(ReadFlags(file.lines))
    <3>1. ReadFlags(file.lines) \in FlagRecs
      BY <2>1, <2>3, ReadBack DEF FlagsInv
    <3> QED
      BY <3>1, FlagRecsOK
  <2>4. file # Absent => file.stored \in 0..(SumModulus - 1) /\ file.body \in Bodies
    BY DEF FlagsInv
  <2> QED
    BY <2>1, <2>2, <2>3, <2>4 DEF TypeOK, Bodies
<1> QED
  BY FlagsInit, FlagsNext, <1>1, PTL DEF Spec

\* What is read from the file means what the command that wrote it had in memory: which
\* releases are locked, which keywords are expanded, and every other flag
\* (sccs_file::write against the constructor of sccs_file).
THEOREM FlagsAlwaysSurvive == Spec => []FlagsSurvive
<1>1. FlagsInv => FlagsSurvive
  <2> SUFFICES ASSUME FlagsInv, file # Absent
               PROVE  /\ Meaning(ReadFlags(file.lines)) = Meaning(meant.flags)
                      /\ ReadEncoded(file.lines) = meant.encoded
    BY DEF FlagsSurvive
  <2>1. /\ meant.flags \in FlagRecs /\ LinesOf(file.lines, meant.flags)
        /\ meant.encoded \in BOOLEAN /\ (ReadEncoded(file.lines) <=> meant.encoded)
    BY DEF FlagsInv
  <2>2. ReadEncoded(file.lines) = meant.encoded
    BY <2>1 DEF ReadEncoded
  <2> QED
    BY <2>1, <2>2, MeaningReadBack
<1> QED
  BY FlagsInit, FlagsNext, <1>1, PTL DEF Spec

\* What a successful admin -d or -e names is gone from the file, and stays so while only
\* cdc and admin -z follow.
THEOREM TakenBackStaysGone == Spec => []TakenBackIsGone
BY FlagsInit, FlagsNext, PTL DEF Spec

\* admin and cdc forget no comment, and no MR without a comment that names it
\* (process_mrs, sccs_file::cdc).
THEOREM NothingIsForgotten == Spec => NothingForgotten
<1>1. FlagsInv /\ TakenBackIsGone /\ [Next]_vars =>
        [file # Absent =>
           /\ IsSuffix(file.comments, file'.comments)
           /\ \A m \in ToSet(file.mrs) \ ToSet(file'.mrs) :
                m \in ToSet(SubSeq(file'.comments, 1,
                                  Len(file'.comments) - Len(file.comments)))]_vars
  BY FlagsNext DEF NoneForgotten
<1> QED
  BY FlagsInit, FlagsNext, <1>1, PTL DEF Spec, NothingForgotten

=============================================================================
