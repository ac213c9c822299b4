--------------------------- MODULE HistoryProofs ---------------------------
(***************************************************************************)
(* The delta table over the years, of any length, with deltas made at any  *)
(* moments of the years 1969 to 2068: the dates on their way through the   *)
(* file and the cutoffs of get -c; how prs and prt divide the table; what  *)
(* the search of val for loops finds.                                      *)
(***************************************************************************)
EXTENDS History, OperatorProofs, TLAPS

-----------------------------------------------------------------------------
(* Dates.                                                                  *)

DateTuples == {d \in Seq(Int) : Len(d) = 6}

\* A moment of the calendar, within the reach of the two-digit years.
Moment(d) == d \in DateTuples /\ Valid(d) /\ d[1] \in 1969..2068

\* The order of the calendar, field by field.
ComesBefore(d, e) ==
  \/ d[1] < e[1]
  \/ d[1] = e[1] /\ d[2] < e[2]
  \/ d[1] = e[1] /\ d[2] = e[2] /\ d[3] < e[3]
  \/ d[1] = e[1] /\ d[2] = e[2] /\ d[3] = e[3] /\ d[4] < e[4]
  \/ d[1] = e[1] /\ d[2] = e[2] /\ d[3] = e[3] /\ d[4] = e[4] /\ d[5] < e[5]
  \/ d[1] = e[1] /\ d[2] = e[2] /\ d[3] = e[3] /\ d[4] = e[4] /\ d[5] = e[5] /\ d[6] < e[6]

LEMMA DateFields ==
  ASSUME NEW d \in DateTuples
  PROVE  /\ DOMAIN d = 1..6
         /\ d[1] \in Int /\ d[2] \in Int /\ d[3] \in Int
         /\ d[4] \in Int /\ d[5] \in Int /\ d[6] \in Int
BY DEF DateTuples

LEMMA MonthLengths ==
  ASSUME NEW m \in 1..12, NEW y \in Int
  PROVE  DaysInMonth(m, y) \in 28..31
<1>1. \/ m \in {1, 3, 5, 7, 8, 10, 12}
      \/ m \in {4, 6, 9, 11}
      \/ m = 2
  OBVIOUS
<1>2. CASE m \in {1, 3, 5, 7, 8, 10, 12}
  BY <1>2 DEF DaysInMonth
<1>3. CASE m \in {4, 6, 9, 11}
  BY <1>3 DEF DaysInMonth
<1>4. CASE m = 2
  BY <1>4 DEF DaysInMonth
<1> QED
  BY <1>1, <1>2, <1>3, <1>4

\* The loop of update_yearday.
DaysBefore(y) ==
  CHOOSE f : f = [m \in 1..12 |-> IF m = 1 THEN 0 ELSE f[m - 1] + DaysInMonth(m - 1, y)]

LEMMA YeardayIsLoop ==
  ASSUME NEW d
  PROVE  Yearday(d) = DaysBefore(d[1])[d[2]] + d[3]
BY Zenon DEF Yearday, DaysBefore

LEMMA DaysBeforeIs ==
  ASSUME NEW y \in Int
  PROVE  /\ \A m \in 1..12 : DaysBefore(y)[m] \in Int
         /\ \A m \in 1..11 : DaysBefore(y)[m + 1] = DaysBefore(y)[m] + DaysInMonth(m, y)
<1> DEFINE step == [i \in 1..11 |-> [x \in Int |-> x + DaysInMonth(i, y)]]
           F == DaysBefore(y)
           Body0(f) == [m \in 1..12 |-> IF m = 1 THEN 0 ELSE f[m - 1] + DaysInMonth(m - 1, y)]
<1>1. \A i \in 1..11 : DaysInMonth(i, y) \in Int
  <2>1. \A i \in 1..11 : i \in 1..12
    OBVIOUS
  <2>2. 28..31 \subseteq Int
    OBVIOUS
  <2> QED
    BY <2>1, <2>2, MonthLengths
<1>2. step \in [1..11 -> [Int -> Int]]
  BY <1>1
<1>3. \A i \in 1..11 : \A x \in Int : step[i][x] = x + DaysInMonth(i, y)
  OBVIOUS
<1>4. F = CHOOSE f : f = Body0(f)
  BY Zenon DEF DaysBefore
<1> HIDE DEF step, F
<1>5. PICK g : Upward(g, 11, Int, 0, step)
  <2>1. 11 \in Nat /\ 0 \in Int
    OBVIOUS
  <2>2. \E g : Upward(g, 11, Int, 0, step)
    BY Zenon, <1>2, <2>1, UpwardRecursion
  <2> QED
    BY <2>2
<1>6. g \in [0..11 -> Int] /\ g[0] = 0 /\ \A i \in 1..11 : g[i] = step[i][g[i - 1]]
  BY <1>5 DEF Upward
<1> DEFINE f == [m \in 1..12 |-> g[m - 1]]
<1>7. f = Body0(f)
  <2>1. ASSUME NEW m \in 1..12
        PROVE  g[m - 1] = IF m = 1 THEN 0 ELSE f[m - 1] + DaysInMonth(m - 1, y)
    <3>1. CASE m = 1
      BY <1>6, <3>1
    <3>2. CASE m # 1
      <4>1. m - 1 \in 1..11 /\ m - 1 \in 1..12 /\ (m - 1) - 1 \in 0..11
        BY <3>2
      <4>2. g[m - 1] = g[(m - 1) - 1] + DaysInMonth(m - 1, y)
        BY <1>3, <1>6, <4>1
      <4>3. f[m - 1] = g[(m - 1) - 1]
        BY <4>1
      <4> QED
        BY <3>2, <4>2, <4>3
    <3> QED
      BY <3>1, <3>2
  <2> QED
    BY <2>1
<1>8. F = Body0(F)
  <2> HIDE DEF Body0, f
  <2> QED
    BY <1>4, <1>7
<1>9. F[1] = 0 /\ \A m \in 1..11 : F[m + 1] = F[m] + DaysInMonth(m, y)
  <2>1. \A m \in 1..12 : F[m] = IF m = 1 THEN 0 ELSE F[m - 1] + DaysInMonth(m - 1, y)
    BY <1>8
  <2>2. \A m \in 1..11 : m + 1 \in 1..12 /\ m + 1 # 1 /\ (m + 1) - 1 = m
    OBVIOUS
  <2> HIDE DEF Body0
  <2> QED
    BY <2>1, <2>2
<1> HIDE DEF Body0
<1>10. \A m \in 1..12 : F[m] \in Int
  <2> DEFINE Right == {i \in 0..11 : F[i + 1] \in Int}
  <2>1. 0 \in Right
    BY <1>9
  <2>2. ASSUME NEW i \in 1..11, i - 1 \in Right PROVE i \in Right
    <3>1. F[i] \in Int
      BY <2>2
    <3> QED
      BY <1>1, <1>9, <3>1
  <2> HIDE DEF Right
  <2>3. \A i \in 0..11 : i \in Right
    BY <2>1, <2>2, UpwardInduction
  <2>4. ASSUME NEW m \in 1..12 PROVE F[m] \in Int
    <3>1. m - 1 \in 0..11 /\ (m - 1) + 1 = m
      OBVIOUS
    <3> QED
      BY <2>3, <3>1 DEF Right
  <2> QED
    BY <2>4
<1> QED
  BY <1>9, <1>10 DEF F

\* A day of an earlier month has a smaller number.
LEMMA MonthsInOrder ==
  ASSUME NEW y \in Int, NEW m \in 1..12, NEW k \in 1..12, m < k
  PROVE  DaysBefore(y)[m] + DaysInMonth(m, y) <= DaysBefore(y)[k]
<1> DEFINE F == DaysBefore(y)
           Right == {i \in 0..(k - m - 1) : F[m + 1] <= F[m + 1 + i]}
<1>1. \A j \in 1..12 : F[j] \in Int
  BY DaysBeforeIs
<1>2. \A j \in 1..11 : F[j + 1] = F[j] + DaysInMonth(j, y)
  BY DaysBeforeIs
<1>3. \A j \in 1..12 : DaysInMonth(j, y) \in 28..31
  BY MonthLengths
<1> HIDE DEF F
<1>4. 0 \in Right
  BY <1>1
<1>5. ASSUME NEW i \in 1..(k - m - 1), i - 1 \in Right PROVE i \in Right
  <2>1. F[m + 1] <= F[m + 1 + (i - 1)] /\ m + 1 + (i - 1) = m + i /\ m + i \in 1..11
    BY <1>5
  <2>2. F[m + i + 1] = F[m + i] + DaysInMonth(m + i, y) /\ m + i + 1 = m + 1 + i
    BY <1>2, <2>1
  <2>3. F[m + i] \in Int /\ F[m + 1] \in Int /\ DaysInMonth(m + i, y) \in 28..31
    BY <1>1, <1>3, <2>1
  <2> QED
    BY <2>1, <2>2, <2>3
<1>6. k - m - 1 \in Right
  <2>1. k - m - 1 \in Nat /\ k - m - 1 \in 0..(k - m - 1)
    OBVIOUS
  <2> HIDE DEF Right
  <2> QED
    BY <1>4, <1>5, <2>1, UpwardInduction
<1>7. F[m + 1] <= F[k] /\ m \in 1..11
  <2>1. m + 1 + (k - m - 1) = k
    OBVIOUS
  <2> QED
    BY <1>6, <2>1
<1> QED
  BY <1>2, <1>7 DEF F

\* What one list of four numbers precedes, and six.
LEMMA PrecedesFour ==
  ASSUME NEW s, NEW t, DOMAIN s = 1..4
  PROVE  Precedes(s, t) <=>
           \/ s[1] < t[1]
           \/ s[1] = t[1] /\ s[2] < t[2]
           \/ s[1] = t[1] /\ s[2] = t[2] /\ s[3] < t[3]
           \/ s[1] = t[1] /\ s[2] = t[2] /\ s[3] = t[3] /\ s[4] < t[4]
<1>1. 1..4 = {1, 2, 3, 4}
  OBVIOUS
<1>2. /\ 1..(1 - 1) = {} /\ 1..(2 - 1) = {1} /\ 1..(3 - 1) = {1, 2} /\ 1..(4 - 1) = {1, 2, 3}
  OBVIOUS
<1> QED
  BY <1>1, <1>2 DEF Precedes

LEMMA Members ==
  ASSUME NEW T, NEW q \in Seq(T)
  PROVE  Len(q) \in Nat /\ DOMAIN q = 1..Len(q) /\ \A i \in 1..Len(q) : q[i] \in T
OBVIOUS

LEMMA Listed ==
  ASSUME NEW T, NEW n \in Nat, NEW q \in [1..n -> T]
  PROVE  q \in Seq(T) /\ Len(q) = n
OBVIOUS

LEMMA Joined ==
  ASSUME NEW T, NEW r \in Seq(T), NEW s \in Seq(T)
  PROVE  /\ r \o s \in Seq(T) /\ Len(r \o s) = Len(r) + Len(s)
         /\ \A i \in 1..(Len(r) + Len(s)) :
              (r \o s)[i] = IF i <= Len(r) THEN r[i] ELSE s[i - Len(r)]
OBVIOUS

LEMMA SameList ==
  ASSUME NEW T, NEW r \in Seq(T), NEW s \in Seq(T), Len(r) = Len(s),
         \A i \in 1..Len(s) : r[i] = s[i]
  PROVE  r = s
OBVIOUS

LEMMA Part ==
  ASSUME NEW T, NEW q \in Seq(T), NEW m \in 1..Len(q), NEW n \in m..Len(q)
  PROVE  /\ SubSeq(q, m, n) \in Seq(T) /\ Len(SubSeq(q, m, n)) = n - m + 1
         /\ \A i \in 1..(n - m + 1) : SubSeq(q, m, n)[i] = q[i + m - 1]
OBVIOUS

LEMMA Single ==
  ASSUME NEW T, NEW x \in T
  PROVE  <<x>> \in Seq(T) /\ Len(<<x>>) = 1 /\ <<x>>[1] = x
OBVIOUS

\* What compare takes from a date: the day of the year and the time.
LEMMA DayAndTime ==
  ASSUME NEW T, NEW x \in T, NEW q \in Seq(T), Len(q) = 6
  PROVE  LET r == <<x>> \o SubSeq(q, 4, 6) IN
           /\ DOMAIN r = 1..4 /\ r[1] = x /\ r[2] = q[4] /\ r[3] = q[5] /\ r[4] = q[6]
<1> DEFINE u == SubSeq(q, 4, 6)
           a == <<x>>
           r == a \o u
<1>1. /\ u \in Seq(T) /\ Len(u) = 6 - 4 + 1
      /\ \A i \in 1..(6 - 4 + 1) : u[i] = q[i + 4 - 1]
  <2>1. 4 \in 1..Len(q) /\ 6 \in 4..Len(q)
    OBVIOUS
  <2> QED
    BY <2>1, Part
<1>2. a \in Seq(T) /\ Len(a) = 1 /\ a[1] = x
  BY Single
<1> HIDE DEF u, a
<1>3. Len(u) = 3 /\ u[1] = q[4] /\ u[2] = q[5] /\ u[3] = q[6]
  BY <1>1
<1>4. /\ r \in Seq(T) /\ Len(r) = Len(a) + Len(u)
      /\ \A i \in 1..(Len(a) + Len(u)) : r[i] = IF i <= Len(a) THEN a[i] ELSE u[i - Len(a)]
  BY <1>1, <1>2, Joined
<1> HIDE DEF r
<1>5. Len(a) + Len(u) = 4 /\ Len(a) = 1
  BY <1>2, <1>3
<1>6. \A i \in 1..4 : r[i] = IF i <= 1 THEN a[i] ELSE u[i - 1]
  BY <1>4, <1>5
<1>7. r[1] = x /\ r[2] = u[1] /\ r[3] = u[2] /\ r[4] = u[3]
  BY <1>2, <1>6
<1>8. DOMAIN r = 1..4
  BY <1>4, <1>5, Members
<1> QED
  BY <1>3, <1>7, <1>8 DEF u, a, r

\* compare agrees with the calendar: the day of the year stands for the month and the
\* day of the month.
LEMMA LessIs ==
  ASSUME NEW d \in DateTuples, NEW e \in DateTuples,
         d[2] \in 1..12, d[3] \in 1..DaysInMonth(d[2], d[1]),
         e[2] \in 1..12, e[3] \in 1..DaysInMonth(e[2], e[1])
  PROVE  Less(d, e) <=> ComesBefore(d, e)
<1> DEFINE s == <<Yearday(d)>> \o SubSeq(d, 4, 6)
           t == <<Yearday(e)>> \o SubSeq(e, 4, 6)
<1>0. /\ d \in Seq(Int) /\ Len(d) = 6 /\ e \in Seq(Int) /\ Len(e) = 6
  BY DEF DateTuples
<1>1. /\ d[1] \in Int /\ d[2] \in Int /\ d[3] \in Int
      /\ d[4] \in Int /\ d[5] \in Int /\ d[6] \in Int
      /\ e[1] \in Int /\ e[2] \in Int /\ e[3] \in Int
      /\ e[4] \in Int /\ e[5] \in Int /\ e[6] \in Int
  BY DateFields
<1>2. Yearday(d) \in Int /\ Yearday(e) \in Int
  <2>1. DaysBefore(d[1])[d[2]] \in Int /\ DaysBefore(e[1])[e[2]] \in Int
    BY <1>1, DaysBeforeIs
  <2>2. /\ Yearday(d) = DaysBefore(d[1])[d[2]] + d[3]
        /\ Yearday(e) = DaysBefore(e[1])[e[2]] + e[3]
    BY YeardayIsLoop
  <2> QED
    BY <1>1, <2>1, <2>2
<1>4. /\ DOMAIN s = 1..4 /\ s[1] = Yearday(d) /\ s[2] = d[4] /\ s[3] = d[5] /\ s[4] = d[6]
  BY <1>0, <1>2, DayAndTime
<1>5. /\ DOMAIN t = 1..4 /\ t[1] = Yearday(e) /\ t[2] = e[4] /\ t[3] = e[5] /\ t[4] = e[6]
  BY <1>0, <1>2, DayAndTime
<1>6. Less(d, e) <=> d[1] < e[1] \/ (d[1] = e[1] /\ Precedes(s, t))
  BY DEF Less
<1> HIDE DEF s, t
<1>7. Precedes(s, t) <=>
        \/ Yearday(d) < Yearday(e)
        \/ Yearday(d) = Yearday(e) /\ d[4] < e[4]
        \/ Yearday(d) = Yearday(e) /\ d[4] = e[4] /\ d[5] < e[5]
        \/ Yearday(d) = Yearday(e) /\ d[4] = e[4] /\ d[5] = e[5] /\ d[6] < e[6]
  BY <1>4, <1>5, PrecedesFour
<1>8. ASSUME NEW p \in DateTuples, NEW q \in DateTuples, p[1] = q[1],
             p[2] \in 1..12, p[3] \in 1..DaysInMonth(p[2], p[1]),
             q[2] \in 1..12, q[3] \in 1..DaysInMonth(q[2], q[1]), p[2] < q[2]
      PROVE  Yearday(p) < Yearday(q)
  <2>1. DaysBefore(p[1])[p[2]] + DaysInMonth(p[2], p[1]) <= DaysBefore(p[1])[q[2]]
    BY <1>8, DateFields, MonthsInOrder
  <2>2. /\ DaysBefore(p[1])[p[2]] \in Int /\ DaysBefore(p[1])[q[2]] \in Int
        /\ DaysInMonth(p[2], p[1]) \in Int /\ p[3] \in Int /\ q[3] \in Int
        /\ p[3] <= DaysInMonth(p[2], p[1]) /\ q[3] >= 1
    <3>1. /\ p[1] \in Int /\ DaysInMonth(p[2], p[1]) \in 28..31
          /\ DaysInMonth(q[2], q[1]) \in 28..31
      BY <1>8, DateFields, MonthLengths
    <3>2. DaysBefore(p[1])[p[2]] \in Int /\ DaysBefore(p[1])[q[2]] \in Int
      BY <1>8, <3>1, DaysBeforeIs
    <3> QED
      BY <1>8, <3>1, <3>2
  <2>3. /\ Yearday(p) = DaysBefore(p[1])[p[2]] + p[3]
        /\ Yearday(q) = DaysBefore(p[1])[q[2]] + q[3]
    BY <1>8, YeardayIsLoop
  <2> QED
    BY <2>1, <2>2, <2>3
<1>9. CASE d[1] # e[1]
  BY <1>1, <1>6, <1>9 DEF ComesBefore
<1>10. CASE d[1] = e[1] /\ d[2] < e[2]
  <2>1. Yearday(d) < Yearday(e)
    BY <1>8, <1>10
  <2> QED
    BY <1>6, <1>7, <1>10, <2>1 DEF ComesBefore
<1>11. CASE d[1] = e[1] /\ e[2] < d[2]
  <2>1. Yearday(e) < Yearday(d)
    BY <1>8, <1>11
  <2> QED
    BY <1>1, <1>2, <1>6, <1>7, <1>11, <2>1 DEF ComesBefore
<1>12. CASE d[1] = e[1] /\ d[2] = e[2]
  <2>1. DaysBefore(d[1])[d[2]] \in Int
    BY <1>1, DaysBeforeIs
  <2>2. /\ Yearday(d) = DaysBefore(d[1])[d[2]] + d[3]
        /\ Yearday(e) = DaysBefore(d[1])[d[2]] + e[3]
    BY <1>12, YeardayIsLoop
  <2>3. (Yearday(d) < Yearday(e) <=> d[3] < e[3]) /\ (Yearday(d) = Yearday(e) <=> d[3] = e[3])
    BY <1>1, <2>1, <2>2
  <2> QED
    BY <1>6, <1>7, <1>12, <2>3 DEF ComesBefore
<1> QED
  BY <1>1, <1>9, <1>10, <1>11, <1>12

-----------------------------------------------------------------------------
(* Two digits for the year.                                                *)

LEMMA TwoDigits ==
  ASSUME NEW y \in 1969..2068
  PROVE  /\ y % 100 \in 0..99 /\ Y2kWindow(y % 100) = y
         /\ y \div 100 # 0 /\ 100 * (y \div 100) + (y % 100) = y
         /\ y < 2000 => y - 1900 \in 69..99 /\ Y2kWindow(y - 1900) = y
         /\ y >= 2000 => y - 1900 >= 100 /\ Y2kWindow(y - 1900 - 100) = y
<1>1. CASE y < 2000
  <2>1. y % 100 = y - 1900 /\ y \div 100 = 19
    BY <1>1
  <2> QED
    BY <1>1, <2>1 DEF Y2kWindow
<1>2. CASE ~(y < 2000)
  <2>1. y % 100 = y - 2000 /\ y \div 100 = 20
    BY <1>2
  <2> QED
    BY <1>2, <2>1 DEF Y2kWindow
<1> QED
  BY <1>1, <1>2

LEMMA Rejoined ==
  ASSUME NEW T, NEW q \in Seq(T), q # <<>>, NEW x \in T
  PROVE  /\ Tail(q) \in Seq(T)
         /\ <<x>> \o Tail(q) \in Seq(T) /\ Len(<<x>> \o Tail(q)) = Len(q)
         /\ (<<x>> \o Tail(q))[1] = x
         /\ \A i \in 2..Len(q) : (<<x>> \o Tail(q))[i] = q[i]
         /\ x = q[1] => <<x>> \o Tail(q) = q
<1> DEFINE a == <<x>>
           u == Tail(q)
           r == a \o u
<1>1. Len(q) \in Nat /\ Len(q) >= 1 /\ DOMAIN q = 1..Len(q)
  OBVIOUS
<1>2. u \in Seq(T) /\ Len(u) = Len(q) - 1 /\ \A i \in 1..(Len(q) - 1) : u[i] = q[i + 1]
  OBVIOUS
<1>3. a \in Seq(T) /\ Len(a) = 1 /\ a[1] = x
  BY Single
<1> HIDE DEF a, u
<1>4. /\ r \in Seq(T) /\ Len(r) = Len(a) + Len(u)
      /\ \A i \in 1..(Len(a) + Len(u)) : r[i] = IF i <= Len(a) THEN a[i] ELSE u[i - Len(a)]
  <2>1. a \in Seq(T) /\ u \in Seq(T)
    BY <1>2, <1>3
  <2> QED
    BY <2>1, Joined
<1> HIDE DEF r
<1>5. Len(r) = Len(q) /\ r[1] = x
  BY <1>1, <1>2, <1>3, <1>4
<1>6. ASSUME NEW i \in 2..Len(q) PROVE r[i] = q[i]
  <2>1. /\ i \in 1..(Len(a) + Len(u)) /\ ~(i <= Len(a))
        /\ i - Len(a) = i - 1 /\ i - 1 \in 1..(Len(q) - 1) /\ (i - 1) + 1 = i
    BY <1>1, <1>2, <1>3
  <2>2. r[i] = u[i - 1]
    BY <1>4, <2>1
  <2> QED
    BY <1>2, <2>1, <2>2
<1>7. x = q[1] => r = q
  <2> SUFFICES ASSUME x = q[1] PROVE r = q
    OBVIOUS
  <2>1. ASSUME NEW i \in 1..Len(q) PROVE r[i] = q[i]
    <3>1. CASE i = 1
      BY <1>5, <3>1
    <3>2. CASE i # 1
      <4>1. i \in 2..Len(q)
        BY <1>1, <3>2
      <4> QED
        BY <1>6, <4>1
    <3> QED
      BY <3>1, <3>2
  <2>2. r \in Seq(T) /\ Len(r) = Len(q)
    BY <1>4, <1>5
  <2> QED
    BY <2>1, <2>2, SameList
<1> QED
  BY <1>2, <1>4, <1>5, <1>6, <1>7 DEF a, u, r

\* The year of a date in the file.
FileYear(century, yy) ==
  LET y == IF yy >= 100 THEN yy - 100 ELSE yy
  IN  IF century # 0 THEN 100 * century + y ELSE Y2kWindow(y)

\* A date is read back as it was written, whoever wrote it.
LEMMA DateReadBack ==
  ASSUME NEW d \in DateTuples, d[1] \in 1969..2068
  PROVE  /\ FileDate(PrintDate(d)) = d
         /\ PrintDate(d).century = 0 /\ PrintDate(d).yy \in 0..99
         /\ \A form \in {"cssc", "four", "colon"} : FileDate(WrittenBy(form, d)) = d
<1> DEFINE y == d[1]
           t == Tail(d)
<1>1. /\ y % 100 \in 0..99 /\ Y2kWindow(y % 100) = y
      /\ y \div 100 # 0 /\ 100 * (y \div 100) + (y % 100) = y
      /\ y < 2000 => y - 1900 \in 69..99 /\ Y2kWindow(y - 1900) = y
      /\ y >= 2000 => y - 1900 >= 100 /\ Y2kWindow(y - 1900 - 100) = y
  BY TwoDigits
<1>2. <<y>> \o t = d
  <2>1. d \in Seq(Int) /\ d # <<>> /\ y \in Int
    BY DateFields DEF DateTuples
  <2> QED
    BY <2>1, Rejoined
<1>3. PrintDate(d) = [century |-> 0, yy |-> y % 100, rest |-> t]
  BY DEF PrintDate
<1>y. y \in 1969..2068
  OBVIOUS
<1> HIDE DEF y, t
<1>5. FileYear(0, y % 100) = y /\ FileYear(y \div 100, y % 100) = y /\ FileYear(0, y - 1900) = y
  <2>1. ~(y % 100 >= 100)
    BY <1>1
  <2>2. FileYear(0, y % 100) = y /\ FileYear(y \div 100, y % 100) = y
    BY <1>1, <2>1 DEF FileYear
  <2>3. CASE y < 2000
    <3>1. ~(y - 1900 >= 100)
      BY <1>1, <2>3
    <3> QED
      BY <1>1, <2>2, <2>3, <3>1 DEF FileYear
  <2>4. CASE ~(y < 2000)
    BY <1>1, <1>y, <2>2, <2>4 DEF FileYear
  <2> QED
    BY <2>3, <2>4
<1>6. ASSUME NEW c, NEW yy, FileYear(c, yy) = y
      PROVE  FileDate([century |-> c, yy |-> yy, rest |-> t]) = d
  <2>1. FileDate([century |-> c, yy |-> yy, rest |-> t]) = <<FileYear(c, yy)>> \o t
    BY DEF FileDate, FileYear
  <2> QED
    BY Zenon, <1>2, <1>6, <2>1
<1>7. FileDate(PrintDate(d)) = d
  BY <1>3, <1>5, <1>6
<1>8. /\ WrittenBy("cssc", d) = PrintDate(d)
      /\ WrittenBy("four", d) = [century |-> y \div 100, yy |-> y % 100, rest |-> t]
      /\ WrittenBy("colon", d) = [century |-> 0, yy |-> y - 1900, rest |-> t]
  <2>1. WrittenBy("cssc", d) = PrintDate(d)
    BY DEF WrittenBy
  <2>2. WrittenBy("four", d) = [PrintDate(d) EXCEPT !.century = y \div 100]
    BY DEF WrittenBy, y
  <2>3. WrittenBy("colon", d) = [PrintDate(d) EXCEPT !.yy = y - 1900]
    BY DEF WrittenBy, y
  <2> QED
    BY <1>3, <2>1, <2>2, <2>3
<1>9. FileDate(WrittenBy("cssc", d)) = d
  BY <1>7, <1>8
<1>10. FileDate(WrittenBy("four", d)) = d
  BY <1>5, <1>6, <1>8
<1>11. FileDate(WrittenBy("colon", d)) = d
  BY <1>5, <1>6, <1>8
<1>12. PrintDate(d).century = 0 /\ PrintDate(d).yy \in 0..99
  BY <1>1, <1>3
<1> QED
  BY <1>7, <1>9, <1>10, <1>11, <1>12

-----------------------------------------------------------------------------
(* Cutoffs.                                                                *)

DateOf(y, mo, da, h, mi, s) == <<y, mo, da, h, mi, s>>
InFrontOf(x, q) == <<x>> \o q

LEMMA NonEmpty ==
  ASSUME NEW T, NEW q \in Seq(T), Len(q) >= 1
  PROVE  q # <<>>
OBVIOUS

LEMMA Beginning ==
  ASSUME NEW T, NEW q \in Seq(T), NEW k \in 1..Len(q)
  PROVE  /\ SubSeq(q, 1, k) \in Seq(T) /\ Len(SubSeq(q, 1, k)) = k
         /\ \A i \in 1..k : SubSeq(q, 1, k)[i] = q[i]
OBVIOUS

LEMMA Prefixed ==
  ASSUME NEW T, NEW x \in T, NEW q \in Seq(T)
  PROVE  /\ InFrontOf(x, q) \in Seq(T) /\ Len(InFrontOf(x, q)) = Len(q) + 1
         /\ InFrontOf(x, q)[1] = x /\ Tail(InFrontOf(x, q)) = q
<1> DEFINE a == <<x>>
           r == InFrontOf(x, q)
<1>1. a \in Seq(T) /\ Len(a) = 1 /\ a[1] = x
  BY Single
<1>2. r = a \o q
  BY DEF InFrontOf
<1> HIDE DEF a, r
<1>3. Len(q) \in Nat
  OBVIOUS
<1>4. /\ r \in Seq(T) /\ Len(r) = 1 + Len(q)
      /\ \A i \in 1..(1 + Len(q)) : r[i] = IF i <= 1 THEN a[i] ELSE q[i - 1]
  <2>1. /\ a \o q \in Seq(T) /\ Len(a \o q) = Len(a) + Len(q)
        /\ \A i \in 1..(Len(a) + Len(q)) :
             (a \o q)[i] = IF i <= Len(a) THEN a[i] ELSE q[i - Len(a)]
    BY <1>1, Joined
  <2> QED
    BY <1>1, <1>2, <2>1
<1>5. r[1] = x
  BY <1>1, <1>3, <1>4
<1>6. \A i \in 1..Len(q) : r[i + 1] = q[i]
  BY <1>3, <1>4
<1> DEFINE u == Tail(r)
<1>7. u \in Seq(T) /\ Len(u) = Len(r) - 1 /\ \A i \in 1..(Len(r) - 1) : u[i] = r[i + 1]
  <2>1. r \in Seq(T) /\ r # <<>>
    <3>1. Len(r) >= 1
      BY <1>3, <1>4
    <3> QED
      BY <1>4, <3>1, NonEmpty
  <2> HIDE DEF u
  <2>2. ASSUME NEW w \in Seq(T), w # <<>>
        PROVE  /\ Tail(w) \in Seq(T) /\ Len(Tail(w)) = Len(w) - 1
               /\ \A i \in 1..(Len(w) - 1) : Tail(w)[i] = w[i + 1]
    BY <2>2
  <2> QED
    BY <2>1, <2>2 DEF u
<1> HIDE DEF u
<1>8. Len(u) = Len(q) /\ \A i \in 1..Len(q) : u[i] = q[i]
  BY <1>3, <1>4, <1>6, <1>7
<1>9. u = q
  BY <1>7, <1>8, SameList
<1> QED
  BY <1>3, <1>4, <1>5, <1>9 DEF u, r

\* The date of a moment with all but its first k fields at their last values.
LastOf(cd, d, k) ==
  /\ cd \in DateTuples
  /\ cd[1] = d[1]
  /\ cd[2] = IF 2 <= k THEN d[2] ELSE 12
  /\ cd[3] = IF 3 <= k THEN d[3] ELSE DaysInMonth(cd[2], cd[1])
  /\ cd[4] = IF 4 <= k THEN d[4] ELSE 23
  /\ cd[5] = IF 5 <= k THEN d[5] ELSE 59
  /\ cd[6] = IF 6 <= k THEN d[6] ELSE 59

\* The arguments of -c for a moment.
Argument(d, n) ==
  LET short == <<d[1] % 100>> \o Tail(d)
  IN  IF n = 7 THEN <<d[1] \div 100>> \o short ELSE SubSeq(short, 1, n)

CutoffOf(d, n) ==
  [period |-> SubSeq(d, 1, Min({n, 6})),
   date   |-> LET short == <<d[1] % 100>> \o Tail(d)
              IN  CommandLineDate(IF n = 7 THEN <<d[1] \div 100>> \o short
                                  ELSE SubSeq(short, 1, n))]

LEMMA GivenFields ==
  ASSUME NEW d \in DateTuples, Moment(d), NEW k \in 1..6,
         NEW p \in Seq(Int), Len(p) = k, \A i \in 2..k : p[i] = d[i],
         NEW cd, cd = <<d[1], GetPart(p, 2, 12), GetPart(p, 3, DaysInMonth(GetPart(p, 2, 12), d[1])),
                        GetPart(p, 4, 23), GetPart(p, 5, 59), GetPart(p, 6, 59)>>
  PROVE  LastOf(cd, d, k)
<1> DEFINE mo == GetPart(p, 2, 12)
           da == GetPart(p, 3, DaysInMonth(GetPart(p, 2, 12), d[1]))
           h == GetPart(p, 4, 23)
           mi == GetPart(p, 5, 59)
           s == GetPart(p, 6, 59)
<1>1. /\ d[1] \in Int /\ d[2] \in 1..12 /\ d[3] \in Int
      /\ d[4] \in Int /\ d[5] \in Int /\ d[6] \in Int
  BY DateFields DEF Moment, Valid
<1>2. /\ mo = IF 2 <= k THEN d[2] ELSE 12
      /\ da = IF 3 <= k THEN d[3] ELSE DaysInMonth(mo, d[1])
      /\ h = IF 4 <= k THEN d[4] ELSE 23
      /\ mi = IF 5 <= k THEN d[5] ELSE 59
      /\ s = IF 6 <= k THEN d[6] ELSE 59
  BY DEF GetPart
<1>3. cd = DateOf(d[1], mo, da, h, mi, s)
  BY DEF DateOf
<1> HIDE DEF mo, da, h, mi, s
<1>4. mo \in 1..12 /\ DaysInMonth(mo, d[1]) \in Int
  <2>1. mo \in 1..12
    BY <1>1, <1>2
  <2>2. DaysInMonth(mo, d[1]) \in 28..31
    BY <1>1, <2>1, MonthLengths
  <2> QED
    BY <2>1, <2>2
<1>5. mo \in Int /\ da \in Int /\ h \in Int /\ mi \in Int /\ s \in Int
  BY <1>1, <1>2, <1>4
<1>6. /\ cd \in DateTuples /\ cd[1] = d[1] /\ cd[2] = mo /\ cd[3] = da
      /\ cd[4] = h /\ cd[5] = mi /\ cd[6] = s
  <2> DEFINE y == d[1]
  <2>1. y \in Int
    BY <1>1
  <2> HIDE DEF y
  <2>2. /\ DateOf(y, mo, da, h, mi, s) \in DateTuples
        /\ DateOf(y, mo, da, h, mi, s)[1] = y /\ DateOf(y, mo, da, h, mi, s)[2] = mo
        /\ DateOf(y, mo, da, h, mi, s)[3] = da /\ DateOf(y, mo, da, h, mi, s)[4] = h
        /\ DateOf(y, mo, da, h, mi, s)[5] = mi /\ DateOf(y, mo, da, h, mi, s)[6] = s
    BY <1>5, <2>1 DEF DateOf, DateTuples
  <2>3. cd = DateOf(y, mo, da, h, mi, s)
    BY <1>3 DEF y
  <2> QED
    BY <2>2, <2>3 DEF y
<1> QED
  BY <1>2, <1>6 DEF LastOf

LEMMA PlainArgument ==
  ASSUME NEW parts, parts # <<>>, ~(Len(parts) > 6)
  PROVE  CommandLineDate(parts) =
           <<Y2kWindow(parts[1]), GetPart(parts, 2, 12),
             GetPart(parts, 3, DaysInMonth(GetPart(parts, 2, 12), Y2kWindow(parts[1]))),
             GetPart(parts, 4, 23), GetPart(parts, 5, 59), GetPart(parts, 6, 59)>>
BY DEF CommandLineDate

\* A cutoff names the last second of the period, unless the user gives the second.
LEMMA CutoffIs ==
  ASSUME NEW d \in DateTuples, Moment(d), NEW n \in 1..7, NEW k \in 1..6,
         k = IF n = 7 THEN 6 ELSE n
  PROVE  LastOf(CommandLineDate(Argument(d, n)), d, k)
<1> DEFINE short == <<d[1] % 100>> \o Tail(d)
           parts == Argument(d, n)
<1>1. d[1] \in 1969..2068 /\ d[1] % 100 \in Int /\ d[1] \div 100 \in Int
  BY DEF Moment
<1>2. /\ short \in Seq(Int) /\ Len(short) = 6 /\ short[1] = d[1] % 100
      /\ \A i \in 2..6 : short[i] = d[i]
  <2>1. d \in Seq(Int) /\ Len(d) = 6
    BY DEF DateTuples
  <2>2. d # <<>>
    <3>1. Len(d) >= 1
      BY <2>1
    <3> QED
      BY <2>1, <3>1, NonEmpty
  <2>3. ASSUME NEW q \in Seq(Int), q # <<>>, NEW x \in Int
        PROVE  /\ <<x>> \o Tail(q) \in Seq(Int) /\ Len(<<x>> \o Tail(q)) = Len(q)
               /\ (<<x>> \o Tail(q))[1] = x
               /\ \A i \in 2..Len(q) : (<<x>> \o Tail(q))[i] = q[i]
    BY <2>3, Rejoined
  <2>4. /\ short \in Seq(Int) /\ Len(short) = Len(d) /\ short[1] = d[1] % 100
        /\ \A i \in 2..Len(d) : short[i] = d[i]
    <3> DEFINE yy == d[1] % 100
    <3>1. yy \in Int /\ short = <<yy>> \o Tail(d)
      BY <1>1
    <3> HIDE DEF yy, short
    <3> QED
      BY Zenon, <2>1, <2>2, <2>3, <3>1 DEF yy
  <2> HIDE DEF short
  <2> QED
    BY <2>1, <2>4
<1>3. parts = IF n = 7 THEN <<d[1] \div 100>> \o short ELSE SubSeq(short, 1, n)
  BY DEF Argument
<1>4. Y2kWindow(d[1] % 100) = d[1] /\ 100 * (d[1] \div 100) + (d[1] % 100) = d[1]
  BY <1>1, TwoDigits
<1> HIDE DEF short, parts
<1>5. CASE n = 7
  <2>1. parts = <<d[1] \div 100>> \o short
    BY <1>3, <1>5
  <2>2. parts \in Seq(Int) /\ Len(parts) = 7 /\ parts[1] = d[1] \div 100 /\ Tail(parts) = short
    <3> DEFINE c == d[1] \div 100
    <3>1. c \in Int /\ parts = InFrontOf(c, short)
      BY <1>1, <2>1 DEF InFrontOf
    <3> HIDE DEF c
    <3>2. parts \in Seq(Int) /\ Len(parts) = Len(short) + 1 /\ parts[1] = c /\ Tail(parts) = short
      <4>1. short \in Seq(Int) /\ c \in Int
        BY <1>2, <3>1
      <4>2. /\ InFrontOf(c, short) \in Seq(Int) /\ Len(InFrontOf(c, short)) = Len(short) + 1
            /\ InFrontOf(c, short)[1] = c /\ Tail(InFrontOf(c, short)) = short
        BY <4>1, Prefixed
      <4> QED
        BY <3>1, <4>2
    <3> QED
      BY <1>2, <3>2 DEF c
  <2>3. CommandLineDate(parts) =
          <<d[1], GetPart(short, 2, 12), GetPart(short, 3, DaysInMonth(GetPart(short, 2, 12), d[1])),
            GetPart(short, 4, 23), GetPart(short, 5, 59), GetPart(short, 6, 59)>>
    <3>0. Len(parts) >= 1 /\ Len(parts) > 6
      BY <2>2
    <3>1. parts # <<>> /\ Len(parts) > 6
      BY <2>2, <3>0, NonEmpty
    <3>2. 100 * parts[1] + short[1] = d[1]
      BY <1>2, <1>4, <2>2
    <3> QED
      BY <2>2, <3>1, <3>2 DEF CommandLineDate
  <2>4. k = 6
    BY <1>5
  <2> QED
    BY <1>2, <2>3, <2>4, GivenFields DEF parts
<1>6. CASE n # 7
  <2>1. parts = SubSeq(short, 1, n) /\ k = n
    BY <1>3, <1>6
  <2>2. parts \in Seq(Int) /\ Len(parts) = k /\ \A i \in 1..k : parts[i] = short[i]
    <3>1. k \in 1..Len(short)
      BY <1>2
    <3> QED
      BY <1>2, <2>1, <3>1, Beginning
  <2>3. parts # <<>> /\ ~(Len(parts) > 6) /\ Y2kWindow(parts[1]) = d[1]
    <3>1. Len(parts) >= 1 /\ ~(Len(parts) > 6) /\ parts[1] = d[1] % 100
      BY <1>2, <2>2
    <3> QED
      BY <1>4, <2>2, <3>1, NonEmpty
  <2>4. CommandLineDate(parts) =
          <<d[1], GetPart(parts, 2, 12), GetPart(parts, 3, DaysInMonth(GetPart(parts, 2, 12), d[1])),
            GetPart(parts, 4, 23), GetPart(parts, 5, 59), GetPart(parts, 6, 59)>>
    BY <2>3, PlainArgument
  <2>5. ASSUME NEW i \in 2..k PROVE parts[i] = d[i]
    <3>1. i \in 2..6 /\ i \in 1..k
      OBVIOUS
    <3> QED
      BY Zenon, <1>2, <2>2, <3>1
  <2> QED
    BY <2>2, <2>4, <2>5, GivenFields DEF parts
<1> QED
  BY <1>5, <1>6

LEMMA LastIsDay ==
  ASSUME NEW d \in DateTuples, Moment(d), NEW k \in 1..6, NEW cd, LastOf(cd, d, k)
  PROVE  /\ cd \in DateTuples /\ cd[1] \in 1969..2068
         /\ cd[2] \in 1..12 /\ cd[3] \in 1..DaysInMonth(cd[2], cd[1])
         /\ Valid(cd)
<1>1. /\ d[1] \in 1969..2068 /\ d[2] \in 1..12 /\ d[3] \in 1..DaysInMonth(d[2], d[1])
      /\ d[4] \in 0..23 /\ d[5] \in 0..59 /\ d[6] \in 0..61
  BY DEF Moment, Valid
<1>2. cd \in DateTuples /\ cd[1] = d[1] /\ cd[2] = (IF 2 <= k THEN d[2] ELSE 12)
  BY DEF LastOf
<1>3. cd[1] \in 1969..2068 /\ cd[2] \in 1..12
  BY <1>1, <1>2
<1>4. DaysInMonth(cd[2], cd[1]) \in 28..31
  <2>1. cd[1] \in Int
    BY <1>3
  <2> QED
    BY <1>3, <2>1, MonthLengths
<1>5. cd[3] \in 1..DaysInMonth(cd[2], cd[1])
  <2>1. cd[3] = IF 3 <= k THEN d[3] ELSE DaysInMonth(cd[2], cd[1])
    BY DEF LastOf
  <2>2. CASE 3 <= k
    BY <1>1, <1>2, <2>1, <2>2
  <2>3. CASE ~(3 <= k)
    BY <1>4, <2>1, <2>3
  <2> QED
    BY <2>2, <2>3
<1>6. cd[4] \in 0..23 /\ cd[5] \in 0..59 /\ cd[6] \in 0..61
  BY <1>1 DEF LastOf
<1> QED
  BY <1>2, <1>3, <1>5, <1>6 DEF Valid

LEMMA PrecedesParts ==
  ASSUME NEW d \in DateTuples, NEW e \in DateTuples, NEW k \in 1..6
  PROVE  Precedes(SubSeq(d, 1, k), SubSeq(e, 1, k)) <=>
           \E i \in 1..k : d[i] < e[i] /\ \A j \in 1..(i - 1) : d[j] = e[j]
<1> DEFINE s == SubSeq(d, 1, k)
           t == SubSeq(e, 1, k)
<1>1. /\ d \in Seq(Int) /\ k \in 1..Len(d) /\ e \in Seq(Int) /\ k \in 1..Len(e)
  BY DEF DateTuples
<1>2. s \in Seq(Int) /\ Len(s) = k /\ \A i \in 1..k : s[i] = d[i]
  BY <1>1, Beginning
<1>3. t \in Seq(Int) /\ Len(t) = k /\ \A i \in 1..k : t[i] = e[i]
  BY <1>1, Beginning
<1> HIDE DEF s, t
<1>4. DOMAIN s = 1..k
  BY <1>2, Members
<1>5. \A i \in 1..k : \A j \in 1..(i - 1) : j \in 1..k
  OBVIOUS
<1>6. Precedes(s, t) <=> \E i \in 1..k : s[i] < t[i] /\ \A j \in 1..(i - 1) : s[j] = t[j]
  BY <1>4 DEF Precedes
<1>7. ASSUME NEW i \in 1..k
      PROVE  s[i] < t[i] /\ (\A j \in 1..(i - 1) : s[j] = t[j]) <=>
             d[i] < e[i] /\ (\A j \in 1..(i - 1) : d[j] = e[j])
  <2>1. s[i] = d[i] /\ t[i] = e[i]
    BY Zenon, <1>2, <1>3
  <2>2. \A j \in 1..(i - 1) : s[j] = d[j] /\ t[j] = e[j]
    BY Zenon, <1>2, <1>3, <1>5
  <2> QED
    BY <2>1, <2>2
<1> QED
  BY <1>6, <1>7 DEF s, t

\* The end of a period comes before a moment just when the period does.
LEMMA EndOfPeriod ==
  ASSUME NEW d \in DateTuples, Moment(d), NEW e \in DateTuples, Moment(e), e[6] <= 59,
         NEW k \in 1..6, NEW cd, LastOf(cd, d, k)
  PROVE  ComesBefore(cd, e) <=> Precedes(SubSeq(d, 1, k), SubSeq(e, 1, k))
<1> DEFINE Earlier == Precedes(SubSeq(d, 1, k), SubSeq(e, 1, k))
           P(i) == d[i] < e[i] /\ \A j \in 1..(i - 1) : d[j] = e[j]
           P1 == d[1] < e[1]
           P2 == d[1] = e[1] /\ d[2] < e[2]
           P3 == d[1] = e[1] /\ d[2] = e[2] /\ d[3] < e[3]
           P4 == d[1] = e[1] /\ d[2] = e[2] /\ d[3] = e[3] /\ d[4] < e[4]
           P5 == d[1] = e[1] /\ d[2] = e[2] /\ d[3] = e[3] /\ d[4] = e[4] /\ d[5] < e[5]
           P6 == /\ d[1] = e[1] /\ d[2] = e[2] /\ d[3] = e[3] /\ d[4] = e[4] /\ d[5] = e[5]
                 /\ d[6] < e[6]
<1>1. Earlier <=> \E i \in 1..k : P(i)
  BY PrecedesParts
<1>2. /\ (P(1) <=> P1) /\ (P(2) <=> P2) /\ (P(3) <=> P3)
      /\ (P(4) <=> P4) /\ (P(5) <=> P5) /\ (P(6) <=> P6)
  <2>1. /\ 1..(1 - 1) = {} /\ 1..(2 - 1) = {1} /\ 1..(3 - 1) = {1, 2}
        /\ 1..(4 - 1) = {1, 2, 3} /\ 1..(5 - 1) = {1, 2, 3, 4} /\ 1..(6 - 1) = {1, 2, 3, 4, 5}
    OBVIOUS
  <2> QED
    BY <2>1
<1>0. /\ 1..1 = {1} /\ 1..2 = {1, 2} /\ 1..3 = {1, 2, 3} /\ 1..4 = {1, 2, 3, 4}
      /\ 1..5 = {1, 2, 3, 4, 5} /\ 1..6 = {1, 2, 3, 4, 5, 6}
  OBVIOUS
<1>3. /\ d[1] \in 1969..2068 /\ d[2] \in 1..12 /\ d[3] \in 1..DaysInMonth(d[2], d[1])
      /\ d[4] \in 0..23 /\ d[5] \in 0..59 /\ d[6] \in 0..61
      /\ e[1] \in 1969..2068 /\ e[2] \in 1..12 /\ e[3] \in 1..DaysInMonth(e[2], e[1])
      /\ e[4] \in 0..23 /\ e[5] \in 0..59 /\ e[6] \in 0..59
  BY DEF Moment, Valid
<1> DEFINE de == DaysInMonth(e[2], e[1])
<1>4. /\ cd[1] = d[1]
      /\ cd[2] = IF 2 <= k THEN d[2] ELSE 12
      /\ cd[3] = IF 3 <= k THEN d[3] ELSE DaysInMonth(cd[2], cd[1])
      /\ cd[4] = IF 4 <= k THEN d[4] ELSE 23
      /\ cd[5] = IF 5 <= k THEN d[5] ELSE 59
      /\ cd[6] = IF 6 <= k THEN d[6] ELSE 59
  BY DEF LastOf
<1>5. cd[1] = e[1] /\ cd[2] = e[2] => DaysInMonth(cd[2], cd[1]) = de
  OBVIOUS
<1>6. de \in 28..31 /\ e[3] <= de /\ DaysInMonth(d[2], d[1]) \in 28..31
  BY <1>3, MonthLengths
<1> SUFFICES ComesBefore(cd, e) <=> Earlier
  OBVIOUS
<1> HIDE DEF Earlier, P, P1, P2, P3, P4, P5, P6, de
<1>7. CASE k = 1
  <2>1. Earlier <=> P1
    BY <1>0, <1>1, <1>2, <1>7
  <2> QED
    BY <1>3, <1>4, <1>5, <1>6, <1>7, <2>1 DEF ComesBefore, P1
<1>8. CASE k = 2
  <2>1. Earlier <=> P1 \/ P2
    BY <1>0, <1>1, <1>2, <1>8
  <2> QED
    BY <1>3, <1>4, <1>5, <1>6, <1>8, <2>1 DEF ComesBefore, P1, P2
<1>9. CASE k = 3
  <2>1. Earlier <=> P1 \/ P2 \/ P3
    BY <1>0, <1>1, <1>2, <1>9
  <2> QED
    BY <1>3, <1>4, <1>9, <2>1 DEF ComesBefore, P1, P2, P3
<1>10. CASE k = 4
  <2>1. Earlier <=> P1 \/ P2 \/ P3 \/ P4
    BY <1>0, <1>1, <1>2, <1>10
  <2> QED
    BY <1>3, <1>4, <1>10, <2>1 DEF ComesBefore, P1, P2, P3, P4
<1>11. CASE k = 5
  <2>1. Earlier <=> P1 \/ P2 \/ P3 \/ P4 \/ P5
    BY <1>0, <1>1, <1>2, <1>11
  <2> QED
    BY <1>3, <1>4, <1>11, <2>1 DEF ComesBefore, P1, P2, P3, P4, P5
<1>12. CASE k = 6
  <2>1. Earlier <=> P1 \/ P2 \/ P3 \/ P4 \/ P5 \/ P6
    BY <1>0, <1>1, <1>2, <1>12
  <2> QED
    BY <1>3, <1>4, <1>12, <2>1 DEF ComesBefore, P1, P2, P3, P4, P5, P6
<1> QED
  BY <1>7, <1>8, <1>9, <1>10, <1>11, <1>12

-----------------------------------------------------------------------------
(* The file.                                                               *)

Entry(sid, prev, type, date) == [sid |-> sid, prev |-> prev, type |-> type, date |-> date]

\* q is a list of n elements.
Lists(q, n) == n \in Nat /\ q = [s \in 1..n |-> q[s]]

LEMMA ListedHas ==
  ASSUME NEW q, NEW n \in Nat, Lists(q, n)
  PROVE  Len(q) = n /\ DOMAIN q = 1..n
<1> DEFINE T == {q[s] : s \in 1..n}
<1>1. q = [s \in 1..n |-> q[s]]
  BY DEF Lists
<1>2. q \in [1..n -> T]
  BY <1>1
<1>3. DOMAIN q = 1..n
  BY <1>1
<1> HIDE DEF T
<1> QED
  BY <1>2, <1>3, Listed

LEMMA Appended ==
  ASSUME NEW q, NEW n \in Nat, Lists(q, n), NEW x
  PROVE  /\ DOMAIN Append(q, x) = 1..(n + 1)
         /\ Append(q, x)[n + 1] = x
         /\ \A s \in 1..n : Append(q, x)[s] = q[s]
<1> DEFINE T == {q[s] : s \in 1..n} \cup {x}
<1>1. q = [s \in 1..n |-> q[s]]
  BY DEF Lists
<1>2. q \in [1..n -> T] /\ x \in T
  BY <1>1
<1> HIDE DEF T
<1>3. q \in Seq(T) /\ Len(q) = n
  BY <1>2, Listed
<1>4. ASSUME NEW r \in Seq(T), NEW y \in T
      PROVE  /\ DOMAIN Append(r, y) = 1..(Len(r) + 1)
             /\ Append(r, y)[Len(r) + 1] = y
             /\ \A s \in 1..Len(r) : Append(r, y)[s] = r[s]
  OBVIOUS
<1> QED
  BY <1>2, <1>3, <1>4

LEMMA MomentsAre ==
  ASSUME NEW d \in Now
  PROVE  d \in DateTuples /\ Moment(d) /\ d[1] \in 1969..2068
<1>1. Instants \in Seq(DateTuples)
  BY HistoryAssumption DEF HistoryAssumption, DateTuples
<1>2. PICK i \in DOMAIN Instants : d = Instants[i]
  BY DEF Now, ToSet
<1>3. Instants[i] \in DateTuples
  BY <1>1
<1>4. Valid(Instants[i]) /\ Instants[i][1] \in 1969..2068
  BY HistoryAssumption DEF HistoryAssumption
<1> QED
  BY <1>2, <1>3, <1>4 DEF Moment

\* What the file says of the delta with sequence number s.
EntryRight(f, m, s) ==
  /\ f[s] = Entry(f[s].sid, f[s].prev, f[s].type, f[s].date)
  /\ f[s].prev \in 0..(s - 1)
  /\ f[s].type \in {"D", "R"}
  /\ FileDate(f[s].date) = m[s]
  /\ m[s] \in Now

\* The common form of the dates.
Plain(date) == date.century = 0 /\ date.yy \in 0..99

\* The inductive invariant: every entry, read back, has the date on which its delta was
\* made, and the file has the common form as soon as it has been rewritten.
DatesInv ==
  \E n \in Nat \ {0} :
    /\ Lists(file, n) /\ Lists(made, n)
    /\ \A s \in 1..n : EntryRight(file, made, s)
    /\ n > 1 => \A s \in 1..n : Plain(file[s].date)

LEMMA TableIs ==
  ASSUME NEW n \in Nat, Lists(file, n), \A s \in 1..n : EntryRight(file, made, s)
  PROVE  /\ Lists(Table, n)
         /\ \A s \in 1..n :
              Table[s] = Entry(file[s].sid, file[s].prev, file[s].type, made[s])
<1>1. DOMAIN file = 1..n
  BY ListedHas
<1>2. Table = [s \in 1..n |-> [file[s] EXCEPT !.date = FileDate(@)]]
  BY <1>1 DEF Table, Read
<1>3. ASSUME NEW s \in 1..n
      PROVE  Table[s] = Entry(file[s].sid, file[s].prev, file[s].type, made[s])
  <2>1. Table[s] = [file[s] EXCEPT !.date = FileDate(file[s].date)]
    BY <1>2
  <2>2. /\ file[s] = Entry(file[s].sid, file[s].prev, file[s].type, file[s].date)
        /\ FileDate(file[s].date) = made[s]
    BY DEF EntryRight
  <2> QED
    BY <2>1, <2>2 DEF Entry
<1>4. Lists(Table, n)
  <2>1. Table = [s \in 1..n |-> Table[s]]
    BY <1>2
  <2> QED
    BY <2>1 DEF Lists
<1> QED
  BY <1>3, <1>4

Redated(r) == [r EXCEPT !.date = PrintDate(@)]

\* What is written is read back.
LEMMA Rewritten ==
  ASSUME NEW a, NEW b, NEW c, NEW d \in Now, NEW r, r = Entry(a, b, c, d),
         NEW w, w = Redated(r)
  PROVE  /\ w = Entry(w.sid, w.prev, w.type, w.date)
         /\ w.sid = a /\ w.prev = b /\ w.type = c
         /\ FileDate(w.date) = d /\ Plain(w.date)
<1> DEFINE e == PrintDate(d)
<1>1. FileDate(e) = d /\ Plain(e)
  BY MomentsAre, DateReadBack DEF Plain
<1>2. r.date = d
  BY DEF Entry
<1>3. w = [r EXCEPT !.date = e]
  BY <1>2 DEF Redated
<1> HIDE DEF e
<1>4. w = Entry(a, b, c, e)
  BY <1>3 DEF Entry
<1>5. w.sid = a /\ w.prev = b /\ w.type = c /\ w.date = e
  BY <1>4 DEF Entry
<1> QED
  BY <1>1, <1>4, <1>5

\* An update writes the table t, whose dates are those of m.
LEMMA WrittenIsRight ==
  ASSUME NEW n \in Nat \ {0}, NEW t, DOMAIN t = 1..n, NEW m, Lists(m, n),
         NEW f, f = Write(t),
         \A s \in 1..n :
           /\ t[s] = Entry(t[s].sid, t[s].prev, t[s].type, m[s])
           /\ t[s].prev \in 0..(s - 1) /\ t[s].type \in {"D", "R"} /\ m[s] \in Now
  PROVE  /\ Lists(f, n) /\ Lists(m, n)
         /\ \A s \in 1..n : EntryRight(f, m, s) /\ Plain(f[s].date)
<1>1. f = [s \in 1..n |-> [t[s] EXCEPT !.date = PrintDate(@)]]
  BY DEF Write
<1>2. Lists(f, n)
  <2>1. f = [s \in 1..n |-> f[s]]
    BY <1>1
  <2> QED
    BY <2>1 DEF Lists
<1>3. ASSUME NEW s \in 1..n PROVE EntryRight(f, m, s) /\ Plain(f[s].date)
  <2> DEFINE r == t[s]
             w == f[s]
             d == m[s]
  <2>1. w = [r EXCEPT !.date = PrintDate(@)]
    BY <1>1
  <2>2. /\ r = Entry(r.sid, r.prev, r.type, d) /\ d \in Now
        /\ r.prev \in 0..(s - 1) /\ r.type \in {"D", "R"}
    OBVIOUS
  <2> HIDE DEF r, w, d
  <2>3. /\ w = Entry(w.sid, w.prev, w.type, w.date)
        /\ w.prev = r.prev /\ w.type = r.type
        /\ FileDate(w.date) = d /\ Plain(w.date)
    <3>1. w = Redated(r)
      BY <2>1 DEF Redated
    <3>2. Redated(r).prev = r.prev /\ Redated(r).type = r.type
      BY <2>2, Rewritten
    <3>3. /\ Redated(r) = Entry(Redated(r).sid, Redated(r).prev, Redated(r).type, Redated(r).date)
          /\ FileDate(Redated(r).date) = d /\ Plain(Redated(r).date)
      BY <2>2, Rewritten
    <3> QED
      BY Zenon, <3>1, <3>2, <3>3
  <2> QED
    BY <2>2, <2>3 DEF EntryRight, w, d
<1> QED
  BY <1>2, <1>3

LEMMA DatesInit == Init => DatesInv
<1> SUFFICES ASSUME Init PROVE DatesInv
  OBVIOUS
<1>1. PICK form \in Forms, now \in Now :
        /\ file = <<[sid |-> <<1, 1, 0, 0>>, prev |-> 0, type |-> "D",
                     date |-> WrittenBy(form, now)]>>
        /\ made = <<now>>
  BY DEF Init
<1>2. FileDate(WrittenBy(form, now)) = now
  <2>1. form \in {"cssc", "four", "colon"}
    BY HistoryAssumption DEF HistoryAssumption
  <2> QED
    BY <2>1, MomentsAre, DateReadBack
<1> DEFINE e == WrittenBy(form, now)
           x == [sid |-> <<1, 1, 0, 0>>, prev |-> 0, type |-> "D", date |-> e]
<1>3. ASSUME NEW y PROVE Lists(<<y>>, 1) /\ <<y>>[1] = y
  BY DEF Lists
<1> HIDE DEF e
<1>4. /\ x = Entry(x.sid, x.prev, x.type, x.date) /\ x.prev = 0 /\ x.type = "D" /\ x.date = e
  BY DEF Entry
<1>5. file = <<x>>
  BY <1>1 DEF e
<1> HIDE DEF x
<1>6. Lists(file, 1) /\ file[1] = x /\ Lists(made, 1) /\ made[1] = now
  BY <1>1, <1>3, <1>5
<1>7. EntryRight(file, made, 1)
  <2>1. 0 \in 0..(1 - 1) /\ "D" \in {"D", "R"}
    OBVIOUS
  <2> QED
    BY <1>2, <1>4, <1>6, <2>1 DEF EntryRight, e
<1>8. 1 \in Nat \ {0} /\ ~(1 > 1) /\ \A s \in 1..1 : s = 1
  OBVIOUS
<1> QED
  BY Zenon, <1>6, <1>7, <1>8 DEF DatesInv

LEMMA DatesCheckIn ==
  ASSUME DatesInv, NEW s \in DOMAIN file, NEW now \in Now, CheckIn(s, now)
  PROVE  DatesInv'
<1>1. PICK n \in Nat \ {0} :
        /\ Lists(file, n) /\ Lists(made, n)
        /\ \A i \in 1..n : EntryRight(file, made, i)
  BY DEF DatesInv
<1>2. /\ Lists(Table, n) /\ DOMAIN file = 1..n
      /\ \A i \in 1..n : Table[i] = Entry(file[i].sid, file[i].prev, file[i].type, made[i])
  BY <1>1, TableIs, ListedHas
<1>3. PICK next : LET x == [sid |-> next, prev |-> s, type |-> "D", date |-> now] IN
        file' = Write(Append(Table, x)) /\ made' = Append(made, now)
  BY DEF CheckIn
<1> DEFINE x == [sid |-> next, prev |-> s, type |-> "D", date |-> now]
           t == Append(Table, x)
           m == Append(made, now)
<1>4. x = Entry(x.sid, x.prev, x.type, now) /\ x.prev = s /\ x.type = "D"
  BY DEF Entry
<1>5. file' = Write(t) /\ made' = m
  BY <1>3
<1> HIDE DEF x
<1>6. DOMAIN t = 1..(n + 1) /\ t[n + 1] = x /\ \A i \in 1..n : t[i] = Table[i]
  BY <1>1, <1>2, Appended
<1>7. DOMAIN m = 1..(n + 1) /\ m[n + 1] = now /\ \A i \in 1..n : m[i] = made[i]
  BY <1>1, Appended
<1>8. Lists(m, n + 1)
  <2>0. ASSUME NEW T, NEW r \in Seq(T) PROVE r = [i \in 1..Len(r) |-> r[i]]
    OBVIOUS
  <2> DEFINE T == {made[i] : i \in 1..n} \cup {now}
  <2>2. made \in [1..n -> T] /\ now \in T
    BY <1>1 DEF Lists
  <2> HIDE DEF T
  <2>3. made \in Seq(T) /\ Len(made) = n
    BY <2>2, Listed
  <2>1. ASSUME NEW r \in Seq(T), NEW y \in T
        PROVE  Append(r, y) \in Seq(T) /\ Len(Append(r, y)) = Len(r) + 1
    OBVIOUS
  <2>4. m \in Seq(T) /\ Len(m) = n + 1
    BY <2>1, <2>2, <2>3
  <2> HIDE DEF m
  <2>5. m = [i \in 1..(n + 1) |-> m[i]]
    BY <2>0, <2>4
  <2> QED
    BY <2>5 DEF Lists
<1> HIDE DEF t, m
<1>9. ASSUME NEW i \in 1..(n + 1)
      PROVE  /\ t[i] = Entry(t[i].sid, t[i].prev, t[i].type, m[i])
             /\ t[i].prev \in 0..(i - 1) /\ t[i].type \in {"D", "R"} /\ m[i] \in Now
  <2>1. CASE i = n + 1
    <3>1. s \in 0..(i - 1)
      BY <1>2, <2>1
    <3> QED
      BY <1>4, <1>6, <1>7, <2>1, <3>1
  <2>2. CASE i # n + 1
    <3>1. i \in 1..n
      BY <2>2
    <3>2. t[i] = Entry(file[i].sid, file[i].prev, file[i].type, made[i]) /\ m[i] = made[i]
      BY <1>2, <1>6, <1>7, <3>1
    <3>3. file[i].prev \in 0..(i - 1) /\ file[i].type \in {"D", "R"} /\ made[i] \in Now
      BY <1>1, <3>1 DEF EntryRight
    <3>4. t[i].sid = file[i].sid /\ t[i].prev = file[i].prev /\ t[i].type = file[i].type
      BY <3>2 DEF Entry
    <3> QED
      BY <3>2, <3>3, <3>4
  <2> QED
    BY <2>1, <2>2
<1>10. n + 1 \in Nat \ {0}
  OBVIOUS
<1>11. /\ Lists(file', n + 1) /\ Lists(made', n + 1)
       /\ \A i \in 1..(n + 1) : EntryRight(file', made', i) /\ Plain(file'[i].date)
  BY Zenon, <1>5, <1>6, <1>8, <1>9, <1>10, WrittenIsRight
<1> QED
  BY Zenon, <1>10, <1>11 DEF DatesInv, EntryRight, Lists

LEMMA DatesRemove ==
  ASSUME DatesInv, NEW s \in DOMAIN file, RemoveDelta(s)
  PROVE  DatesInv'
<1>1. PICK n \in Nat \ {0} :
        /\ Lists(file, n) /\ Lists(made, n)
        /\ \A i \in 1..n : EntryRight(file, made, i)
  BY DEF DatesInv
<1>2. /\ Lists(Table, n) /\ DOMAIN file = 1..n
      /\ \A i \in 1..n : Table[i] = Entry(file[i].sid, file[i].prev, file[i].type, made[i])
  BY <1>1, TableIs, ListedHas
<1> DEFINE q == Table
           t == [q EXCEPT ![s].type = "R"]
<1>3. file' = Write(t) /\ made' = made
  BY DEF RemoveDelta
<1> HIDE DEF q
<1>4. DOMAIN q = 1..n /\ \A i \in 1..n : q[i] = Entry(file[i].sid, file[i].prev, file[i].type, made[i])
  BY <1>2, ListedHas DEF q
<1>5. DOMAIN t = 1..n
  BY <1>4
<1>6. ASSUME NEW i \in 1..n
      PROVE  /\ t[i] = Entry(t[i].sid, t[i].prev, t[i].type, made[i])
             /\ t[i].prev \in 0..(i - 1) /\ t[i].type \in {"D", "R"} /\ made[i] \in Now
  <2> DEFINE e == q[i]
             a == file[i].sid
             b == file[i].prev
             c == file[i].type
  <2>1. b \in 0..(i - 1) /\ c \in {"D", "R"} /\ made[i] \in Now
    BY <1>1 DEF EntryRight
  <2>2. e = Entry(a, b, c, made[i])
    BY <1>4
  <2>3. t[i] = IF i = s THEN [e EXCEPT !.type = "R"] ELSE e
    BY <1>4
  <2> HIDE DEF e, a, b, c, t
  <2>4. CASE i = s
    <3>1. t[i] = Entry(a, b, "R", made[i])
      BY <2>2, <2>3, <2>4 DEF Entry
    <3>2. t[i].sid = a /\ t[i].prev = b /\ t[i].type = "R"
      BY <3>1 DEF Entry
    <3> QED
      BY <2>1, <3>1, <3>2
  <2>5. CASE i # s
    <3>1. t[i] = Entry(a, b, c, made[i])
      BY <2>2, <2>3, <2>5
    <3>2. t[i].sid = a /\ t[i].prev = b /\ t[i].type = c
      BY <3>1 DEF Entry
    <3> QED
      BY <2>1, <3>1, <3>2
  <2> QED
    BY <2>4, <2>5
<1> HIDE DEF t
<1>7. /\ Lists(file', n) /\ Lists(made', n)
      /\ \A i \in 1..n : EntryRight(file', made', i) /\ Plain(file'[i].date)
  BY Zenon, <1>1, <1>3, <1>5, <1>6, WrittenIsRight
<1> QED
  BY Zenon, <1>7 DEF DatesInv, EntryRight, Lists

LEMMA DatesStep == DatesInv /\ [Next]_vars => DatesInv'
<1> SUFFICES ASSUME DatesInv, [Next]_vars PROVE DatesInv'
  OBVIOUS
<1>1. CASE UNCHANGED vars
  BY <1>1 DEF vars, DatesInv, Lists, EntryRight
<1>2. ASSUME NEW s \in DOMAIN file, NEW now \in Now, CheckIn(s, now) PROVE DatesInv'
  BY <1>2, DatesCheckIn
<1>3. ASSUME NEW s \in DOMAIN file, RemoveDelta(s) PROVE DatesInv'
  BY <1>3, DatesRemove
<1> QED
  BY <1>1, <1>2, <1>3 DEF Next

LEMMA DatesAlwaysRight == Spec => []DatesInv
BY DatesInit, DatesStep, PTL DEF Spec

-----------------------------------------------------------------------------
(* The type and the cutoffs.                                               *)

\* The table and the record of when its deltas were made go together, the predecessors
\* come before their successors, and a rewritten file has the common form of the dates.
THEOREM HistoryIsWellTyped == Spec => []TypeOK
<1>1. DatesInv => TypeOK
  <2> SUFFICES ASSUME DatesInv PROVE TypeOK
    OBVIOUS
  <2>1. PICK n \in Nat \ {0} :
          /\ Lists(file, n) /\ Lists(made, n)
          /\ \A s \in 1..n : EntryRight(file, made, s)
          /\ n > 1 => \A s \in 1..n : Plain(file[s].date)
    BY DEF DatesInv
  <2>2. Len(file) = n /\ Len(made) = n /\ DOMAIN file = 1..n
    BY <2>1, ListedHas
  <2> QED
    BY <2>1, <2>2 DEF TypeOK, EntryRight, Plain
<1> QED
  BY <1>1, DatesAlwaysRight, PTL

LEMMA LeastOfTwo ==
  ASSUME NEW n \in 1..7
  PROVE  Min({n, 6}) = IF n = 7 THEN 6 ELSE n
<1> DEFINE k == IF n = 7 THEN 6 ELSE n
<1>1. k \in {n, 6} /\ \A y \in {n, 6} : k <= y
  OBVIOUS
<1>2. \A x \in {n, 6} : (\A y \in {n, 6} : x <= y) => x = k
  OBVIOUS
<1> HIDE DEF k
<1>3. (CHOOSE x \in {n, 6} : \A y \in {n, 6} : x <= y) = k
  BY <1>1, <1>2
<1> QED
  BY <1>3 DEF Min, k

\* No delta is made in a leap second.
NoLeapSeconds == \A i \in DOMAIN Instants : Instants[i][6] <= 59

\* A cutoff leaves out exactly what was made after the period that it names, for all
\* moments of the hundred years of the two-digit dates.  The seconds end at 59: the
\* command line completes a minute with that second, while the file may say 60 or 61.
THEOREM CutoffsSelectPeriods ==
  ASSUME NoLeapSeconds
  PROVE  Spec => []CutoffSelectsPeriod
<1>1. DatesInv => CutoffSelectsPeriod
  <2> SUFFICES ASSUME DatesInv, NEW c \in Cutoffs
               PROVE  Newer(Table, c.date) =
                        {s \in CurrentDeltas(Table) :
                           Precedes(c.period, SubSeq(made[s], 1, Len(c.period)))}
    BY DEF CutoffSelectsPeriod
  <2>1. PICK d \in Now, n \in 1..7 :
          c = [period |-> SubSeq(d, 1, Min({n, 6})), date |-> CommandLineDate(Argument(d, n))]
    <3>1. Cutoffs = {CutoffOf(d, n) : d \in Now, n \in 1..7}
      BY DEF Cutoffs, CutoffOf
    <3>2. PICK d \in Now, n \in 1..7 : c = CutoffOf(d, n)
      BY <3>1
    <3>3. c = [period |-> SubSeq(d, 1, Min({n, 6})), date |-> CommandLineDate(Argument(d, n))]
      BY Zenon, <3>2 DEF CutoffOf, Argument
    <3> QED
      BY Zenon, <3>3
  <2> DEFINE k == IF n = 7 THEN 6 ELSE n
  <2>2. k \in 1..6 /\ Min({n, 6}) = k
    BY LeastOfTwo
  <2>3. d \in DateTuples /\ Moment(d)
    BY MomentsAre
  <2>4. LastOf(c.date, d, k) /\ c.period = SubSeq(d, 1, k)
    <3>1. LastOf(CommandLineDate(Argument(d, n)), d, k)
      BY <2>2, <2>3, CutoffIs
    <3>2. c.date = CommandLineDate(Argument(d, n)) /\ c.period = SubSeq(d, 1, Min({n, 6}))
      BY <2>1
    <3> QED
      BY Zenon, <2>2, <3>1, <3>2
  <2> HIDE DEF k
  <2>5. Len(c.period) = k
    <3>1. d \in Seq(Int) /\ k \in 1..Len(d)
      BY <2>2, <2>3 DEF DateTuples
    <3> QED
      BY <2>4, <3>1, Beginning
  <2>6. PICK len \in Nat \ {0} :
          /\ Lists(file, len) /\ Lists(made, len)
          /\ \A s \in 1..len : EntryRight(file, made, s)
    BY DEF DatesInv
  <2>7. /\ Lists(Table, len)
        /\ \A s \in 1..len : Table[s] = Entry(file[s].sid, file[s].prev, file[s].type, made[s])
    BY <2>6, TableIs
  <2>8. ASSUME NEW s \in CurrentDeltas(Table)
        PROVE  Valid(c.date) /\ Greater(Table[s].date, c.date) <=>
               Precedes(c.period, SubSeq(made[s], 1, Len(c.period)))
    <3> DEFINE e == made[s]
               cd == c.date
    <3>1. s \in 1..len
      <4>1. DOMAIN Table = 1..len
        BY <2>7, ListedHas
      <4> QED
        BY <4>1 DEF CurrentDeltas
    <3>2. Table[s].date = e /\ e \in Now
      <4>1. Table[s] = Entry(file[s].sid, file[s].prev, file[s].type, e)
        BY <2>7, <3>1
      <4>2. e \in Now
        BY <2>6, <3>1 DEF EntryRight
      <4>3. ASSUME NEW r, NEW a, NEW b, NEW t, NEW x, r = Entry(a, b, t, x) PROVE r.date = x
        BY <4>3 DEF Entry
      <4> QED
        BY Zenon, <4>1, <4>2, <4>3
    <3> HIDE DEF e, cd
    <3>3. e \in DateTuples /\ Moment(e) /\ e[6] <= 59
      <4>1. PICK i \in DOMAIN Instants : e = Instants[i]
        BY <3>2 DEF Now, ToSet
      <4>2. e[6] <= 59
        BY <4>1 DEF NoLeapSeconds
      <4> QED
        BY <3>2, <4>2, MomentsAre
    <3>4. LastOf(cd, d, k)
      BY <2>4 DEF cd
    <3>5. /\ cd \in DateTuples /\ cd[2] \in 1..12 /\ cd[3] \in 1..DaysInMonth(cd[2], cd[1])
          /\ Valid(cd)
      BY <2>2, <2>3, <3>4, LastIsDay
    <3>6. e[2] \in 1..12 /\ e[3] \in 1..DaysInMonth(e[2], e[1])
      BY <3>3 DEF Moment, Valid
    <3>7. Less(cd, e) <=> ComesBefore(cd, e)
      BY <3>3, <3>5, <3>6, LessIs
    <3>8. ComesBefore(cd, e) <=> Precedes(SubSeq(d, 1, k), SubSeq(e, 1, k))
      BY <2>2, <2>3, <3>3, <3>4, EndOfPeriod
    <3>9. Greater(Table[s].date, cd) <=> Less(cd, e)
      BY <3>2 DEF Greater
    <3>10. SubSeq(made[s], 1, Len(c.period)) = SubSeq(e, 1, k)
      BY <2>5 DEF e
    <3> QED
      BY <2>4, <3>5, <3>7, <3>8, <3>9, <3>10 DEF cd
  <2> QED
    BY <2>8 DEF Newer
<1> QED
  BY <1>1, DatesAlwaysRight, PTL

-----------------------------------------------------------------------------
(* The order of the moments.                                               *)

\* compare is the order of the calendar on the moments at which deltas are made.
LEMMA MomentsInOrder ==
  ASSUME NEW d \in Now, NEW e \in Now
  PROVE  /\ Valid(d)
         /\ Less(d, e) <=> ComesBefore(d, e)
         /\ Less(d, e) <=> Precedes(d, e)
         /\ Less(d, e) \/ d = e \/ Less(e, d)
         /\ d = e => ~Less(d, e)
<1>1. d \in DateTuples /\ Valid(d) /\ e \in DateTuples /\ Valid(e)
  BY MomentsAre DEF Moment
<1>2. Less(d, e) <=> ComesBefore(d, e)
  BY <1>1, LessIs DEF Valid
<1>3. Less(e, d) <=> ComesBefore(e, d)
  BY <1>1, LessIs DEF Valid
<1>4. /\ DOMAIN d = 1..6 /\ d[1] \in Int /\ d[2] \in Int /\ d[3] \in Int
      /\ d[4] \in Int /\ d[5] \in Int /\ d[6] \in Int
      /\ e[1] \in Int /\ e[2] \in Int /\ e[3] \in Int
      /\ e[4] \in Int /\ e[5] \in Int /\ e[6] \in Int
  BY <1>1, DateFields
<1>5. Precedes(d, e) <=> ComesBefore(d, e)
  <2>1. 1..6 = {1, 2, 3, 4, 5, 6}
    OBVIOUS
  <2>2. /\ 1..(1 - 1) = {} /\ 1..(2 - 1) = {1} /\ 1..(3 - 1) = {1, 2}
        /\ 1..(4 - 1) = {1, 2, 3} /\ 1..(5 - 1) = {1, 2, 3, 4} /\ 1..(6 - 1) = {1, 2, 3, 4, 5}
    OBVIOUS
  <2> QED
    BY <1>4, <2>1, <2>2 DEF Precedes, ComesBefore
<1>6. ComesBefore(d, e) \/ d = e \/ ComesBefore(e, d)
  <2> SUFFICES ASSUME ~ComesBefore(d, e), ~ComesBefore(e, d) PROVE d = e
    OBVIOUS
  <2>1. /\ d[1] = e[1] /\ d[2] = e[2] /\ d[3] = e[3] /\ d[4] = e[4] /\ d[5] = e[5]
        /\ d[6] = e[6]
    BY <1>4 DEF ComesBefore
  <2>2. d \in Seq(Int) /\ e \in Seq(Int) /\ Len(d) = 6 /\ Len(e) = 6
    BY <1>1 DEF DateTuples
  <2>3. \A i \in 1..6 : d[i] = e[i]
    BY <2>1
  <2> QED
    BY <2>2, <2>3, SameList
<1>7. d = e => ~ComesBefore(d, e)
  BY <1>4 DEF ComesBefore
<1> QED
  BY <1>1, <1>2, <1>3, <1>5, <1>6, <1>7

LEMMA MomentsChain ==
  ASSUME NEW d \in Now, NEW e \in Now, NEW f \in Now
  PROVE  /\ Less(d, e) /\ Less(e, f) => Less(d, f)
         /\ Less(d, e) /\ ~Less(f, e) => Less(d, f)
         /\ ~Less(e, d) /\ Less(e, f) => Less(d, f)
<1>1. d \in DateTuples /\ e \in DateTuples /\ f \in DateTuples
  BY MomentsAre
<1>2. /\ d[1] \in Int /\ d[2] \in Int /\ d[3] \in Int
      /\ d[4] \in Int /\ d[5] \in Int /\ d[6] \in Int
      /\ e[1] \in Int /\ e[2] \in Int /\ e[3] \in Int
      /\ e[4] \in Int /\ e[5] \in Int /\ e[6] \in Int
      /\ f[1] \in Int /\ f[2] \in Int /\ f[3] \in Int
      /\ f[4] \in Int /\ f[5] \in Int /\ f[6] \in Int
  BY <1>1, DateFields
<1>3. ComesBefore(d, e) /\ ComesBefore(e, f) => ComesBefore(d, f)
  BY <1>2 DEF ComesBefore
<1>4. Less(d, e) /\ Less(e, f) => Less(d, f)
  BY <1>3, MomentsInOrder
<1>5. (Less(e, f) \/ e = f \/ Less(f, e)) /\ (Less(d, e) \/ d = e \/ Less(e, d))
  BY MomentsInOrder
<1> QED
  BY <1>4, <1>5

LEMMA NoDateInvalid == ~Valid(NoDate)
BY DEF NoDate, Valid

-----------------------------------------------------------------------------
(* The loops of prs and prt.                                               *)

\* g is the first of S that a loop over the listing meets, the youngest.
IsFirst(list, S, g) ==
  /\ g \in list /\ g \in S
  /\ UpToFirst(list, S) = {s \in list : g <= s}
  /\ FromFirst(list, S) = {s \in list : s <= g}

LEMMA FirstMet ==
  ASSUME NEW n \in Nat, NEW list, list \subseteq 1..n, NEW S, list \cap S # {}
  PROVE  \E g : IsFirst(list, S, g)
<1> DEFINE R == list \cap S
<1>0. 1..n \subseteq 0..n
  OBVIOUS
<1>1. R \subseteq 0..n /\ R # {}
  BY <1>0
<1>2. PICK g \in R : \A t \in R : t <= g
  <2> HIDE DEF R
  <2> QED
    BY <1>1, GreatestNumber
<1>3. g \in Nat /\ \A s \in list : s \in Nat
  BY <1>1
<1>4. \A s \in list : (\A t \in R : t <= s) <=> g <= s
  BY <1>1, <1>2, <1>3
<1>5. \A s \in list : (\E t \in R : s <= t) <=> s <= g
  BY <1>1, <1>2, <1>3
<1> QED
  BY <1>2, <1>4, <1>5 DEF UpToFirst, FromFirst, IsFirst

LEMMA NoneMet ==
  ASSUME NEW list, NEW S, list \cap S = {}
  PROVE  UpToFirst(list, S) = list /\ BeforeFirst(list, S) = list
BY DEF UpToFirst, BeforeFirst

\* A table whose deltas have the dates of moments, as m has them.
Dated(t, n, m) ==
  /\ n \in Nat /\ DOMAIN t = 1..n
  /\ \A s \in 1..n : t[s].date = m[s] /\ m[s] \in Now

LEMMA ListingIs ==
  ASSUME NEW t, NEW n \in Nat, DOMAIN t = 1..n, NEW all
  PROVE  Listing(t, all) \subseteq 1..n
BY DEF Listing, CurrentDeltas

\* What prs reports, option by option.
LEMMA PrsIs ==
  ASSUME NEW t, NEW all, NEW rid, NEW d
  PROVE  /\ Prs(t, all, "later", FALSE, rid, d) = PrsLater(t, all, rid, d)
         /\ Prs(t, all, "earlier", FALSE, rid, d) = PrsEarlier(t, all, rid, d)
         /\ Prs(t, all, "sidonly", TRUE, rid, NoDate) = PrsEarlier(t, all, rid, NoDate)
         /\ Prs(t, all, "sidonly", FALSE, rid, NoDate) = PrsSidOnly(t, all, rid)
<1>1. /\ "later" # "earlier" /\ "later" # "sidonly" /\ "earlier" # "sidonly"
  OBVIOUS
<1> QED
  BY <1>1, NoDateInvalid DEF Prs

\* Without a cutoff prs -e passes over nothing, and prs -l stops at nothing.
LEMMA NoCutoffPasses ==
  ASSUME NEW t, NEW n \in Nat, DOMAIN t = 1..n, NEW all, NEW rid
  PROVE  LET list == Listing(t, all) IN
         /\ PrsEarlier(t, all, rid, NoDate) = FromFirst(list, Awaited(t, rid))
         /\ PrsLater(t, all, rid, NoDate) = UpToFirst(list, Named(t, rid))
<1> DEFINE list == Listing(t, all)
           intime == {s \in DOMAIN t : Valid(NoDate) => ~Less(NoDate, t[s].date)}
           A == Awaited(t, rid)
<1>1. intime = DOMAIN t /\ Older(t, NoDate) = {}
  BY NoDateInvalid DEF Older
<1>2. A \subseteq DOMAIN t
  BY DEF Awaited, Named
<1>3. list \subseteq DOMAIN t
  BY ListingIs
<1>4. PrsEarlier(t, all, rid, NoDate) = FromFirst(list, intime \cap A) \cap intime
  BY DEF PrsEarlier
<1>5. PrsLater(t, all, rid, NoDate) =
        BeforeFirst(list, Older(t, NoDate)) \cap UpToFirst(list, Named(t, rid))
  BY DEF PrsLater
<1>6. BeforeFirst(list, Older(t, NoDate)) = list
  <2> HIDE DEF list
  <2> QED
    BY <1>1, NoneMet
<1>7. intime \cap A = A
  BY <1>1, <1>2
<1> HIDE DEF list, intime, A
<1>8. FromFirst(list, A) \subseteq list
  BY DEF FromFirst
<1>9. UpToFirst(list, Named(t, rid)) \subseteq list
  BY DEF UpToFirst
<1>10. PrsEarlier(t, all, rid, NoDate) = FromFirst(list, A)
  BY <1>1, <1>3, <1>4, <1>7, <1>8
<1>11. PrsLater(t, all, rid, NoDate) = UpToFirst(list, Named(t, rid))
  BY <1>5, <1>6, <1>9
<1> QED
  BY <1>10, <1>11 DEF list, A

\* prs -l and prs -e meet at the delta that is named, the youngest of that SID.
LEMMA SplitAtSid ==
  ASSUME NEW t, NEW n \in Nat, DOMAIN t = 1..n, NEW all,
         NEW s \in Listing(t, all), ~IsNull(t[s].sid)
  PROVE  LET list    == Listing(t, all)
             rid     == t[s].sid
             later   == Prs(t, all, "later", FALSE, rid, NoDate)
             earlier == Prs(t, all, "earlier", FALSE, rid, NoDate)
         IN  /\ later \cup earlier = list
             /\ \E g \in list :
                  /\ t[g].sid = rid
                  /\ later \cap earlier = {g}
                  /\ Prs(t, all, "sidonly", FALSE, rid, NoDate) = {g}
                  /\ \A l \in later, e \in earlier : e <= g /\ g <= l
<1> DEFINE list    == Listing(t, all)
           rid     == t[s].sid
           later   == Prs(t, all, "later", FALSE, rid, NoDate)
           earlier == Prs(t, all, "earlier", FALSE, rid, NoDate)
           N       == Named(t, rid)
<1>1. list \subseteq 1..n
  BY ListingIs
<1>2. N = {i \in 1..n : t[i].sid = rid} /\ Awaited(t, rid) = N
  BY DEF Named, Awaited
<1>3. s \in list \cap N
  BY <1>1, <1>2
<1>4. /\ later = UpToFirst(list, N)
      /\ earlier = FromFirst(list, N)
      /\ Prs(t, all, "sidonly", FALSE, rid, NoDate) = FromFirst(list, N) \cap UpToFirst(list, N)
  <2>1. /\ PrsLater(t, all, rid, NoDate) = UpToFirst(list, N)
        /\ PrsEarlier(t, all, rid, NoDate) = FromFirst(list, Awaited(t, rid))
    BY NoCutoffPasses
  <2>2. PrsSidOnly(t, all, rid) =
          FromFirst(list, Awaited(t, rid)) \cap UpToFirst(list, Awaited(t, rid))
    BY DEF PrsSidOnly
  <2>3. /\ later = PrsLater(t, all, rid, NoDate)
        /\ earlier = PrsEarlier(t, all, rid, NoDate)
        /\ Prs(t, all, "sidonly", FALSE, rid, NoDate) = PrsSidOnly(t, all, rid)
    BY PrsIs
  <2> HIDE DEF list, rid, N, later, earlier
  <2> QED
    BY <1>2, <2>1, <2>2, <2>3
<1> SUFFICES /\ later \cup earlier = list
             /\ \E g \in list :
                  /\ t[g].sid = rid
                  /\ later \cap earlier = {g}
                  /\ Prs(t, all, "sidonly", FALSE, rid, NoDate) = {g}
                  /\ \A l \in later, e \in earlier : e <= g /\ g <= l
  OBVIOUS
<1> HIDE DEF list, rid, later, earlier, N
<1>5. PICK g : IsFirst(list, N, g)
  <2>1. list \cap N # {}
    BY <1>3
  <2> QED
    BY Zenon, <1>1, <2>1, FirstMet
<1>6. \A i \in list : i \in Int
  BY <1>1
<1>12. /\ g \in list /\ g \in N
       /\ later = {i \in list : g <= i} /\ earlier = {i \in list : i <= g}
  BY <1>4, <1>5 DEF IsFirst
<1>7. g \in list /\ t[g].sid = rid
  BY <1>2, <1>12
<1>8. later \cup earlier = list
  BY <1>6, <1>12
<1>9. later \cap earlier = {g}
  BY <1>6, <1>12
<1>10. Prs(t, all, "sidonly", FALSE, rid, NoDate) = {g}
  BY <1>4, <1>9
<1>11. \A l \in later, e \in earlier : e <= g /\ g <= l
  BY <1>12
<1> QED
  BY <1>7, <1>8, <1>9, <1>10, <1>11

-----------------------------------------------------------------------------
(* The SIDs of the table.                                                  *)

\* Every delta has a complete SID, and one that is used again has been removed.
SidsRight(t, n) ==
  /\ n \in Nat /\ DOMAIN t = 1..n
  /\ \A s \in 1..n : t[s].sid \in DeltaSids
  /\ \A r, s \in 1..n : r < s /\ t[r].sid = t[s].sid => t[r].type # "D"

LEMMA SidsFinite ==
  ASSUME NEW t, NEW n, SidsRight(t, n)
  PROVE  IsFiniteSet(CurrentSids(t))
<1> DEFINE f == [i \in CurrentDeltas(t) |-> t[i].sid]
<1>1. IsFiniteSet(CurrentDeltas(t))
  <2>1. CurrentDeltas(t) \subseteq 1..n /\ n \in Nat
    BY DEF CurrentDeltas, SidsRight
  <2>2. IsFiniteSet(1..n)
    BY <2>1, FS_Interval
  <2> QED
    BY <2>1, <2>2, FS_Subset
<1>2. f \in Surjection(CurrentDeltas(t), CurrentSids(t))
  BY DEF Surjection, CurrentSids
<1> HIDE DEF f
<1> QED
  BY <1>1, <1>2, FS_Surjection

\* find_any finds a delta, unless there is none of that SID.
LEMMA FindAnyFinds ==
  ASSUME NEW t, NEW n, SidsRight(t, n), NEW id, NEW i \in 1..n, t[i].sid = id
  PROVE  /\ FindAny(t, id) \in 1..n /\ FindAny(t, id) # 0 /\ i <= FindAny(t, id)
         /\ t[FindAny(t, id)].sid = id
<1> DEFINE S == {j \in DOMAIN t : t[j].sid = id}
<1>1. S \subseteq 1..n /\ i \in S /\ n \in Nat
  BY DEF SidsRight
<1>2. FindAny(t, id) = CHOOSE g \in S : \A j \in S : j <= g
  BY <1>1 DEF FindAny
<1>3. \A j \in S : t[j].sid = id
  OBVIOUS
<1> HIDE DEF S
<1>4. \E g \in S : \A j \in S : j <= g
  <2>1. S \subseteq 0..n /\ S # {}
    BY <1>1
  <2> QED
    BY <1>1, <2>1, GreatestNumber
<1>5. FindAny(t, id) \in S /\ \A j \in S : j <= FindAny(t, id)
  BY <1>2, <1>4
<1>6. FindAny(t, id) \in 1..n /\ i <= FindAny(t, id)
  BY <1>1, <1>5
<1>7. FindAny(t, id) # 0
  BY <1>1, <1>6
<1>8. t[FindAny(t, id)].sid = id
  BY Zenon, <1>3, <1>5
<1> QED
  BY <1>6, <1>7, <1>8

\* A check-in gets a complete SID that no current delta has.
LEMMA NextIsNew ==
  ASSUME NEW t, NEW n, SidsRight(t, n), NEW got \in DeltaSids
  PROVE  FindNextSid(t, {}, got, got, FALSE, HistoryFlags).next \in DeltaSids \ CurrentSids(t)
<1> DEFINE idea == FirstIdea(t, {}, got, got)
           taken == CurrentSids(t)
           answer == FindNextSid(t, {}, got, got, FALSE, HistoryFlags)
           collides == Collides(t, {}, got, idea, HistoryFlags)
<1>1. /\ IsNull(HistoryFlags.default) /\ HistoryFlags.joint = FALSE
      /\ Reserved({}) = {}
  BY DEF HistoryFlags, NullSid, IsNull, Reserved
<1>2. idea = Increment(got) /\ ~PartialSid(got)
  <2>1. ~PartialSid(got) /\ ~ReleaseOnly(got)
    BY DeltaSidFacts DEF PartialSid, ReleaseOnly
  <2> QED
    BY <2>1 DEF FirstIdea
<1>3. idea \in DeltaSids
  BY <1>2, IncrementType
<1>4. ~ShouldNotHappen(t, {}, idea, HistoryFlags)
  BY <1>1 DEF ShouldNotHappen
<1>5. \/ answer.next = FreeBranch(NextBranch(got), taken)
      \/ answer.next = idea /\ ~collides
  <2> DEFINE forced == \/ /\ OnTrunk(got) /\ HistoryFlags.ceiling # 0
                          /\ Release(got) > HistoryFlags.ceiling
                       \/ /\ Components(got) < 3
                          /\ Release(got) < Release(HighestRelease(t))
                       \/ collides
  <2>1. taken \cup {} = taken
    OBVIOUS
  <2>2. answer = [ok |-> TRUE,
                  next |-> IF forced THEN FreeBranch(NextBranch(got), taken) ELSE idea]
    BY <1>1, <1>4, <2>1 DEF FindNextSid
  <2>3. collides => forced
    OBVIOUS
  <2> HIDE DEF collides, forced, idea, taken, answer
  <2> QED
    BY <2>2, <2>3
<1>6. CASE answer.next = FreeBranch(NextBranch(got), taken)
  <2>1. IsFiniteSet(taken)
    BY SidsFinite
  <2>2. FreeBranch(NextBranch(got), taken) \in DeltaSids \ taken
    <3> HIDE DEF taken
    <3> QED
      BY <2>1, NewBranch
  <2> QED
    BY <1>6, <2>2
<1>7. CASE answer.next = idea /\ ~collides
  <2>1. FindAny(t, idea) # 0 => t[FindAny(t, idea)].type # "D"
    BY <1>2, <1>7 DEF Collides
  <2>2. SUFFICES ASSUME idea \in CurrentSids(t) PROVE FALSE
    BY <1>3, <1>7
  <2>3. PICK i \in 1..n : t[i].sid = idea /\ t[i].type = "D"
    BY <2>2 DEF CurrentSids, CurrentDeltas, SidsRight
  <2> DEFINE any == FindAny(t, idea)
  <2>4. any \in 1..n /\ any # 0 /\ i <= any /\ t[any].sid = idea
    BY <2>3, FindAnyFinds
  <2>5. i # any
    BY <2>1, <2>3, <2>4
  <2> HIDE DEF any, idea
  <2>6. i < any /\ n \in Nat
    BY <2>4, <2>5 DEF SidsRight
  <2> QED
    BY <2>3, <2>4, <2>6 DEF SidsRight
<1> QED
  BY <1>5, <1>6, <1>7

\* find finds the only current delta of that SID.
LEMMA FindDeltaIs ==
  ASSUME NEW t, NEW n, SidsRight(t, n), NEW s \in CurrentDeltas(t)
  PROVE  FindDelta(t, t[s].sid) = s /\ s \in 1..n
<1> DEFINE S == {i \in CurrentDeltas(t) : t[i].sid = t[s].sid}
<1>1. s \in 1..n /\ t[s].type = "D"
  BY DEF CurrentDeltas, SidsRight
<1>2. ASSUME NEW i \in S PROVE i = s
  <2>1. i \in 1..n /\ t[i].type = "D" /\ t[i].sid = t[s].sid /\ n \in Nat
    BY DEF CurrentDeltas, SidsRight
  <2>2. ~(i < s) /\ ~(s < i)
    BY <1>1, <2>1 DEF SidsRight
  <2> QED
    BY <1>1, <2>1, <2>2
<1>3. s \in S
  OBVIOUS
<1>4. S = {s}
  BY <1>2, <1>3
<1>5. FindDelta(t, t[s].sid) = CHOOSE g \in S : \A j \in S : j <= g
  BY <1>3 DEF FindDelta
<1> HIDE DEF S
<1>6. s <= s
  BY <1>1
<1>7. \E g \in S : \A j \in S : j <= g
  BY <1>4, <1>6
<1>8. (CHOOSE g \in S : \A j \in S : j <= g) \in S
  BY <1>7
<1> QED
  BY <1>1, <1>4, <1>5, <1>8

\* Removing deltas and rewriting dates keeps that.
LEMMA SidsKept ==
  ASSUME NEW t, NEW n, SidsRight(t, n), NEW u, DOMAIN u = 1..n,
         \A s \in 1..n : u[s].sid = t[s].sid /\ (u[s].type = "D" => t[s].type = "D")
  PROVE  SidsRight(u, n)
BY DEF SidsRight

\* Adding a delta with a new SID keeps it.
LEMMA SidsExtended ==
  ASSUME NEW t, NEW n, SidsRight(t, n), NEW u, DOMAIN u = 1..(n + 1),
         \A s \in 1..n : u[s] = t[s], u[n + 1].sid \in DeltaSids \ CurrentSids(t)
  PROVE  SidsRight(u, n + 1)
<1>1. n \in Nat /\ \A s \in 1..n : t[s].sid \in DeltaSids
  BY DEF SidsRight
<1>2. \A s \in 1..(n + 1) : s = n + 1 \/ s \in 1..n
  BY <1>1
<1>3. \A s \in 1..(n + 1) : u[s].sid \in DeltaSids
  BY <1>1, <1>2
<1>4. \A r \in 1..n : t[r].type = "D" => t[r].sid \in CurrentSids(t)
  BY DEF CurrentSids, CurrentDeltas, SidsRight
<1>5. ASSUME NEW r \in 1..(n + 1), NEW s \in 1..(n + 1), r < s, u[r].sid = u[s].sid
      PROVE  u[r].type # "D"
  <2>1. r \in 1..n
    BY <1>1, <1>5
  <2>2. CASE s = n + 1
    BY <1>4, <1>5, <2>1, <2>2
  <2>3. CASE s \in 1..n
    BY <1>5, <2>1, <2>3 DEF SidsRight
  <2> QED
    BY <1>2, <2>2, <2>3
<1>6. n + 1 \in Nat
  BY <1>1
<1> QED
  BY <1>3, <1>5, <1>6 DEF SidsRight

SidsInv == \E n : SidsRight(file, n)

\* Reading and writing change the dates only.
LEMMA TableHasSids ==
  ASSUME DatesInv, SidsInv
  PROVE  \E n : SidsRight(Table, n) /\ Dated(Table, n, made) /\ DOMAIN file = 1..n
               /\ \A s \in 1..n : Table[s] = Entry(Table[s].sid, Table[s].prev, Table[s].type, made[s])
<1>1. PICK n \in Nat \ {0} :
        /\ Lists(file, n) /\ Lists(made, n)
        /\ \A s \in 1..n : EntryRight(file, made, s)
  BY DEF DatesInv
<1>2. /\ Lists(Table, n)
      /\ \A s \in 1..n : Table[s] = Entry(file[s].sid, file[s].prev, file[s].type, made[s])
  BY <1>1, TableIs
<1>3. DOMAIN Table = 1..n /\ DOMAIN file = 1..n
  BY <1>1, <1>2, ListedHas
<1>4. ASSUME NEW s \in 1..n
      PROVE  /\ Table[s] = Entry(Table[s].sid, Table[s].prev, Table[s].type, made[s])
             /\ Table[s].sid = file[s].sid /\ Table[s].type = file[s].type
             /\ Table[s].date = made[s] /\ made[s] \in Now
  <2>1. Table[s] = Entry(file[s].sid, file[s].prev, file[s].type, made[s])
    BY <1>2
  <2>2. /\ Table[s].sid = file[s].sid /\ Table[s].prev = file[s].prev
        /\ Table[s].type = file[s].type /\ Table[s].date = made[s]
    <3> DEFINE r == Table[s]
               a == file[s].sid
               b == file[s].prev
               c == file[s].type
               d == made[s]
    <3>1. r = Entry(a, b, c, d)
      BY <2>1
    <3> HIDE DEF r, a, b, c, d
    <3>2. r.sid = a /\ r.prev = b /\ r.type = c /\ r.date = d
      BY <3>1 DEF Entry
    <3> QED
      BY <3>2 DEF r, a, b, c, d
  <2>3. made[s] \in Now
    BY <1>1 DEF EntryRight
  <2> QED
    BY <2>1, <2>2, <2>3
<1>5. n \in Nat
  OBVIOUS
<1>6. Dated(Table, n, made)
  BY Zenon, <1>3, <1>4, <1>5 DEF Dated
<1>7. SidsRight(file, n)
  <2>1. PICK k : SidsRight(file, k)
    BY DEF SidsInv
  <2>2. k \in Nat /\ 1..k = 1..n
    BY <1>3, <2>1 DEF SidsRight
  <2>3. k = n
    BY <1>5, <2>2
  <2> QED
    BY <2>1, <2>3
<1>8. SidsRight(Table, n)
  <2>1. ASSUME NEW s \in 1..n
        PROVE  Table[s].sid = file[s].sid /\ (Table[s].type = "D" => file[s].type = "D")
    BY Zenon, <1>4
  <2> QED
    BY Zenon, <1>3, <1>7, <2>1, SidsKept
<1> QED
  BY <1>3, <1>4, <1>6, <1>8

LEMMA WrittenHas ==
  ASSUME NEW t, NEW n, DOMAIN t = 1..n,
         \A s \in 1..n : \E d : t[s] = Entry(t[s].sid, t[s].prev, t[s].type, d)
  PROVE  /\ DOMAIN Write(t) = 1..n
         /\ \A s \in 1..n : Write(t)[s].sid = t[s].sid /\ Write(t)[s].type = t[s].type
<1>1. Write(t) = [s \in 1..n |-> [t[s] EXCEPT !.date = PrintDate(@)]]
  BY DEF Write
<1>2. ASSUME NEW s \in 1..n
      PROVE  Write(t)[s].sid = t[s].sid /\ Write(t)[s].type = t[s].type
  <2> DEFINE r == t[s]
             w == Write(t)[s]
  <2>1. PICK d : r = Entry(r.sid, r.prev, r.type, d)
    OBVIOUS
  <2>2. w = [r EXCEPT !.date = PrintDate(r.date)]
    BY <1>1
  <2> SUFFICES w.sid = r.sid /\ w.type = r.type
    OBVIOUS
  <2> DEFINE e == PrintDate(r.date)
             a == r.sid
             b == r.prev
             c == r.type
  <2>3. w = [r EXCEPT !.date = e] /\ r = Entry(a, b, c, d)
    BY <2>1, <2>2
  <2> HIDE DEF r, w, e, a, b, c
  <2>4. w = Entry(a, b, c, e)
    BY <2>3 DEF Entry
  <2>5. w.sid = a /\ w.type = c
    BY <2>4 DEF Entry
  <2> QED
    BY <2>5 DEF a, c
<1> QED
  BY <1>1, <1>2

LEMMA SidsCheckIn ==
  ASSUME DatesInv, SidsInv, NEW s \in DOMAIN file, NEW now \in Now, CheckIn(s, now)
  PROVE  SidsInv'
<1>1. PICK n : /\ SidsRight(Table, n) /\ DOMAIN file = 1..n
               /\ \A i \in 1..n :
                    Table[i] = Entry(Table[i].sid, Table[i].prev, Table[i].type, made[i])
  BY TableHasSids
<1> DEFINE got == Table[s].sid
           next == FindNextSid(Table, {}, got, got, FALSE, HistoryFlags).next
           x == [sid |-> next, prev |-> s, type |-> "D", date |-> now]
           q == Table
           t == Append(q, x)
<1>2. file' = Write(t)
  BY DEF CheckIn
<1>3. n \in Nat /\ got \in DeltaSids
  BY <1>1 DEF SidsRight
<1>4. next \in DeltaSids \ CurrentSids(q)
  <2> HIDE DEF got
  <2> QED
    BY <1>1, <1>3, NextIsNew
<1>5. x.sid = next /\ x.type = "D" /\ x = Entry(x.sid, x.prev, x.type, now)
  BY DEF Entry
<1>6. Lists(q, n)
  <2>1. PICK k \in Nat \ {0} : Lists(file, k) /\ \A i \in 1..k : EntryRight(file, made, i)
    BY DEF DatesInv
  <2>2. Lists(Table, k) /\ DOMAIN file = 1..k
    BY <2>1, TableIs, ListedHas
  <2>3. k = n
    BY <1>1, <1>3, <2>2
  <2> QED
    BY <2>2, <2>3
<1> HIDE DEF next, x, q
<1>7. DOMAIN t = 1..(n + 1) /\ t[n + 1] = x /\ \A i \in 1..n : t[i] = q[i]
  BY <1>3, <1>6, Appended
<1> HIDE DEF t
<1>8. SidsRight(t, n + 1)
  BY <1>1, <1>4, <1>5, <1>7, SidsExtended DEF q
<1>9. ASSUME NEW i \in 1..(n + 1)
      PROVE  \E d : t[i] = Entry(t[i].sid, t[i].prev, t[i].type, d)
  <2>1. CASE i = n + 1
    BY <1>5, <1>7, <2>1
  <2>2. CASE i \in 1..n
    BY <1>1, <1>7, <2>2 DEF q
  <2> QED
    BY <1>3, <2>1, <2>2
<1>10. /\ DOMAIN Write(t) = 1..(n + 1)
       /\ \A i \in 1..(n + 1) : Write(t)[i].sid = t[i].sid /\ Write(t)[i].type = t[i].type
  BY Zenon, <1>7, <1>9, WrittenHas
<1>11. SidsRight(Write(t), n + 1)
  <2>1. ASSUME NEW i \in 1..(n + 1)
        PROVE  Write(t)[i].sid = t[i].sid /\ (Write(t)[i].type = "D" => t[i].type = "D")
    BY Zenon, <1>10
  <2> QED
    BY Zenon, <1>8, <1>10, <2>1, SidsKept
<1> QED
  BY <1>2, <1>11 DEF SidsInv, SidsRight

LEMMA SidsRemove ==
  ASSUME DatesInv, SidsInv, NEW s \in DOMAIN file, RemoveDelta(s)
  PROVE  SidsInv'
<1>1. PICK n : /\ SidsRight(Table, n) /\ DOMAIN file = 1..n
               /\ \A i \in 1..n :
                    Table[i] = Entry(Table[i].sid, Table[i].prev, Table[i].type, made[i])
  BY TableHasSids
<1> DEFINE q == Table
           t == [q EXCEPT ![s].type = "R"]
<1>2. file' = Write(t)
  BY DEF RemoveDelta
<1> HIDE DEF q
<1>3. DOMAIN q = 1..n
  BY <1>1 DEF SidsRight, q
<1>4. DOMAIN t = 1..n
  BY <1>3
<1>5. ASSUME NEW i \in 1..n
      PROVE  /\ \E d : t[i] = Entry(t[i].sid, t[i].prev, t[i].type, d)
             /\ t[i].sid = q[i].sid /\ (t[i].type = "D" => q[i].type = "D")
  <2> DEFINE e == q[i]
             a == e.sid
             b == e.prev
             c == e.type
             d == made[i]
  <2>1. e = Entry(a, b, c, d)
    BY <1>1 DEF q
  <2>2. t[i] = IF i = s THEN [e EXCEPT !.type = "R"] ELSE e
    BY <1>3
  <2> HIDE DEF e, a, b, c, d, t
  <2>3. CASE i = s
    <3>1. t[i] = Entry(a, b, "R", d)
      BY <2>1, <2>2, <2>3 DEF Entry
    <3>2. t[i].sid = a /\ t[i].prev = b /\ t[i].type = "R"
      BY <3>1 DEF Entry
    <3>3. "R" # "D"
      OBVIOUS
    <3> QED
      BY <3>1, <3>2, <3>3 DEF a, e
  <2>4. CASE i # s
    <3>1. t[i] = e
      BY <2>2, <2>4
    <3> QED
      BY <2>1, <3>1 DEF a, b, c, e
  <2> QED
    BY <2>3, <2>4
<1> HIDE DEF t
<1>6. SidsRight(t, n)
  BY Zenon, <1>1, <1>4, <1>5, SidsKept DEF q
<1>7. /\ DOMAIN Write(t) = 1..n
      /\ \A i \in 1..n : Write(t)[i].sid = t[i].sid /\ Write(t)[i].type = t[i].type
  BY Zenon, <1>4, <1>5, WrittenHas
<1>8. SidsRight(Write(t), n)
  <2>1. ASSUME NEW i \in 1..n
        PROVE  Write(t)[i].sid = t[i].sid /\ (Write(t)[i].type = "D" => t[i].type = "D")
    BY Zenon, <1>7
  <2> QED
    BY Zenon, <1>6, <1>7, <2>1, SidsKept
<1> QED
  BY <1>2, <1>8 DEF SidsInv, SidsRight

LEMMA SidsInit == Init => SidsInv
<1> SUFFICES ASSUME Init PROVE SidsInv
  OBVIOUS
<1>1. PICK d : file = <<[sid |-> <<1, 1, 0, 0>>, prev |-> 0, type |-> "D", date |-> d]>>
  BY DEF Init
<1>2. DOMAIN file = 1..1 /\ file[1].sid = <<1, 1, 0, 0>>
  BY <1>1
<1>3. <<1, 1, 0, 0>> \in DeltaSids
  BY DeltaSidFacts DEF SidTuples
<1>4. \A s \in 1..1 : s = 1
  OBVIOUS
<1>5. SidsRight(file, 1)
  BY <1>2, <1>3, <1>4 DEF SidsRight
<1> QED
  BY <1>5 DEF SidsInv

HistoryInv == DatesInv /\ SidsInv

LEMMA HistoryStep == HistoryInv /\ [Next]_vars => HistoryInv'
<1> SUFFICES ASSUME HistoryInv, [Next]_vars PROVE HistoryInv'
  OBVIOUS
<1>1. DatesInv'
  BY DatesStep DEF HistoryInv
<1>2. CASE UNCHANGED vars
  BY <1>2, <1>1 DEF vars, HistoryInv, SidsInv, SidsRight
<1>3. ASSUME NEW s \in DOMAIN file, NEW now \in Now, CheckIn(s, now) PROVE SidsInv'
  BY <1>3, SidsCheckIn DEF HistoryInv
<1>4. ASSUME NEW s \in DOMAIN file, RemoveDelta(s) PROVE SidsInv'
  BY <1>4, SidsRemove DEF HistoryInv
<1> QED
  BY <1>1, <1>2, <1>3, <1>4 DEF Next, HistoryInv

LEMMA HistoryAlwaysRight == Spec => []HistoryInv
<1>1. Init => HistoryInv
  BY DatesInit, SidsInit DEF HistoryInv
<1> QED
  BY <1>1, HistoryStep, PTL DEF Spec

-----------------------------------------------------------------------------
(* The reports at a moment.                                                *)

LEMMA DatedListing ==
  ASSUME NEW t, NEW n, NEW m, Dated(t, n, m), NEW all
  PROVE  /\ Listing(t, all) \subseteq 1..n /\ n \in Nat /\ DOMAIN t = 1..n
         /\ \A s \in Listing(t, all) : s \in 1..n /\ t[s].date = m[s] /\ m[s] \in Now
<1>1. n \in Nat /\ DOMAIN t = 1..n /\ \A s \in 1..n : t[s].date = m[s] /\ m[s] \in Now
  BY DEF Dated
<1>2. Listing(t, all) \subseteq 1..n
  BY <1>1, ListingIs
<1> QED
  BY <1>1, <1>2

\* prs -e with a cutoff and no SID: everything that is not younger.
LEMMA EarlierAtMoment ==
  ASSUME NEW t, NEW n, NEW m, Dated(t, n, m), NEW all, NEW d \in Now
  PROVE  PrsEarlier(t, all, NullSid, d) = {s \in Listing(t, all) : ~Less(d, m[s])}
<1> DEFINE list == Listing(t, all)
           intime == {s \in DOMAIN t : Valid(d) => ~Less(d, t[s].date)}
<1>1. /\ list \subseteq 1..n /\ n \in Nat /\ DOMAIN t = 1..n
      /\ \A s \in list : s \in 1..n /\ t[s].date = m[s]
  BY DatedListing
<1>2. Awaited(t, NullSid) = DOMAIN t
  BY DEF Awaited, IsNull, NullSid
<1>3. Valid(d)
  BY MomentsInOrder
<1>4. PrsEarlier(t, all, NullSid, d) = FromFirst(list, intime) \cap intime
  <2>1. intime \cap Awaited(t, NullSid) = intime
    BY <1>2
  <2> QED
    BY <2>1 DEF PrsEarlier
<1>5. \A s \in list : s \in intime <=> ~Less(d, m[s])
  BY <1>1, <1>3
<1> SUFFICES PrsEarlier(t, all, NullSid, d) = {s \in list : ~Less(d, m[s])}
  OBVIOUS
<1> HIDE DEF list, intime
<1>6. \A s \in list \cap intime : s <= s
  BY <1>1
<1>7. FromFirst(list, intime) \cap intime = list \cap intime
  BY <1>6 DEF FromFirst
<1> QED
  BY <1>4, <1>5, <1>7

\* prs -l with a cutoff and no SID.
LEMMA LaterAtMoment ==
  ASSUME NEW t, NEW n, NEW m, Dated(t, n, m), NEW all, NEW d \in Now
  PROVE  /\ PrsLater(t, all, NullSid, d) \subseteq {s \in Listing(t, all) : ~Less(m[s], d)}
         /\ InOrder(t) =>
              PrsLater(t, all, NullSid, d) = {s \in Listing(t, all) : ~Less(m[s], d)}
<1> DEFINE list == Listing(t, all)
           old == Older(t, d)
           later == PrsLater(t, all, NullSid, d)
<1>1. /\ list \subseteq 1..n /\ n \in Nat /\ DOMAIN t = 1..n
      /\ \A s \in list : s \in 1..n /\ t[s].date = m[s] /\ m[s] \in Now
  BY DatedListing
<1>2. Named(t, NullSid) = {}
  BY DEF Named, IsNull, NullSid
<1>3. Valid(d)
  BY MomentsInOrder
<1>4. \A s \in list : s \in old <=> Less(m[s], d)
  BY <1>1, <1>3 DEF Older
<1>5. later = BeforeFirst(list, old)
  <2>1. later = BeforeFirst(list, old) \cap UpToFirst(list, Named(t, NullSid))
    BY DEF PrsLater
  <2> HIDE DEF list, old, later
  <2>2. UpToFirst(list, Named(t, NullSid)) = list
    BY <1>2, NoneMet
  <2> QED
    BY <2>1, <2>2 DEF BeforeFirst
<1>6. InOrder(t) => \A x, y \in list : x < y => ~Less(m[y], m[x])
  BY <1>1 DEF InOrder, NotGreater
<1> SUFFICES /\ later \subseteq {s \in list : ~Less(m[s], d)}
             /\ InOrder(t) => later = {s \in list : ~Less(m[s], d)}
  OBVIOUS
<1> HIDE DEF list, old, later
<1>7. later \subseteq {s \in list : ~Less(m[s], d)}
  <2> SUFFICES ASSUME NEW s \in later, Less(m[s], d) PROVE s \in list /\ FALSE
    BY <1>5 DEF BeforeFirst
  <2>1. s \in list /\ \A x \in list \cap old : x < s
    BY <1>5 DEF BeforeFirst
  <2>2. s \in old
    BY <1>4, <2>1
  <2>3. s < s /\ s \in Nat
    BY <1>1, <2>1, <2>2
  <2> QED
    BY <2>3
<1>8. ASSUME InOrder(t), NEW s \in list, ~Less(m[s], d)
      PROVE  s \in later
  <2>1. ASSUME NEW x \in list \cap old PROVE x < s
    <3>1. Less(m[x], d) /\ m[x] \in Now /\ m[s] \in Now /\ x \in Nat /\ s \in Nat
      BY <1>1, <1>4
    <3>2. Less(m[x], m[s])
      BY <1>8, <3>1, MomentsChain
    <3>3. x # s
      BY <3>1, <3>2, MomentsInOrder
    <3>4. ~(s < x)
      BY <1>6, <1>8, <3>2
    <3> QED
      BY <3>1, <3>3, <3>4
  <2> QED
    BY <1>5, <2>1 DEF BeforeFirst
<1> QED
  BY <1>7, <1>8

\* prt without -y.
LEMMA PrtWithoutSid ==
  ASSUME NEW t, NEW all, NEW c, c.sid = NullSid, c.mostRecent = FALSE
  PROVE  Prt(t, all, c) = {s \in Listing(t, all) : ~Excludes(c, t[s].date)}
<1> DEFINE list == Listing(t, all)
           stops == {s \in list : StopsAt(c, NoDate, t[s].date)}
<1>1. PrepareCutoff(t, c) = c
  BY DEF PrepareCutoff
<1>2. IsNull(c.sid)
  BY DEF IsNull, NullSid
<1>3. Prt(t, all, c) =
        UpToFirst(list, stops) \cap {s \in list : ~ExcludesDelta(c, NoDate, t[s].date)}
  BY <1>1, <1>2 DEF Prt
<1>4. stops = {} /\ \A s \in list : ExcludesDelta(c, NoDate, t[s].date) <=> Excludes(c, t[s].date)
  BY NoDateInvalid DEF StopsAt, ExcludesDelta
<1> SUFFICES Prt(t, all, c) = {s \in list : ~Excludes(c, t[s].date)}
  OBVIOUS
<1>5. list \cap stops = {}
  BY <1>4
<1> HIDE DEF list, stops
<1>6. UpToFirst(list, stops) = list
  BY <1>5, NoneMet
<1> QED
  BY <1>3, <1>4, <1>6

LEMMA PrtAtMoment ==
  ASSUME NEW t, NEW n, NEW m, Dated(t, n, m), NEW all, NEW d \in Now
  PROVE  /\ Prt(t, all, NoCutoff) = Listing(t, all)
         /\ Prt(t, all, OptionR(NoCutoff, d)) = {s \in Listing(t, all) : ~Less(d, m[s])}
         /\ Prt(t, all, OptionC(NoCutoff, d)) = {s \in Listing(t, all) : ~Less(m[s], d)}
<1> DEFINE list == Listing(t, all)
           cr == OptionR(NoCutoff, d)
           cc == OptionC(NoCutoff, d)
<1>1. \A s \in list : t[s].date = m[s]
  BY DatedListing
<1>2. /\ NoCutoff.first = NoDate /\ NoCutoff.last = NoDate
      /\ NoCutoff.sid = NullSid /\ NoCutoff.mostRecent = FALSE
  BY DEF NoCutoff
<1>3. cr.first = NoDate /\ cr.last = d /\ cr.sid = NullSid /\ cr.mostRecent = FALSE
  BY DEF NoCutoff, OptionR
<1>4. cc.first = d /\ cc.last = NoDate /\ cc.sid = NullSid /\ cc.mostRecent = FALSE
  BY DEF NoCutoff, OptionC
<1>5. ASSUME NEW e
      PROVE  /\ ~Excludes(NoCutoff, e)
             /\ Excludes(cr, e) <=> Less(d, e)
             /\ Excludes(cc, e) <=> Less(e, d)
  <2>1. Valid(d) /\ ~Valid(NoDate)
    BY MomentsInOrder, NoDateInvalid
  <2> HIDE DEF cr, cc
  <2> QED
    BY <1>2, <1>3, <1>4, <2>1 DEF Excludes, Greater
<1> HIDE DEF list, cr, cc
<1>9. /\ Prt(t, all, NoCutoff) = {s \in list : ~Excludes(NoCutoff, t[s].date)}
      /\ Prt(t, all, cr) = {s \in list : ~Excludes(cr, t[s].date)}
      /\ Prt(t, all, cc) = {s \in list : ~Excludes(cc, t[s].date)}
  BY <1>2, <1>3, <1>4, PrtWithoutSid DEF list
<1>6. Prt(t, all, NoCutoff) = list
  BY <1>5, <1>9
<1>7. Prt(t, all, cr) = {s \in list : ~Less(d, m[s])}
  BY <1>1, <1>5, <1>9
<1>8. Prt(t, all, cc) = {s \in list : ~Less(m[s], d)}
  BY <1>1, <1>5, <1>9
<1> QED
  BY <1>6, <1>7, <1>8 DEF list, cr, cc

-----------------------------------------------------------------------------
(* prt -y.                                                                 *)

\* The loop ends at the delta s, if all that are younger than it in the table were
\* made after it, and first does not exclude them.
LEMMA PrtEndsAt ==
  ASSUME NEW t, NEW n, NEW m, Dated(t, n, m), SidsRight(t, n), NEW all,
         NEW s \in CurrentDeltas(t), \A x \in (s + 1)..n : Less(m[s], m[x]),
         NEW options, NEW c, c = PrepareCutoff(t, options), c.sid = t[s].sid,
         c.first = NoDate \/ c.first = m[s], c.last = NoDate
  PROVE  Prt(t, all, options) = {x \in Listing(t, all) : x >= s}
<1> DEFINE list == Listing(t, all)
           named == IF IsNull(c.sid) THEN 0 ELSE FindDelta(t, c.sid)
           limit == IF named = 0 THEN NoDate ELSE t[named].date
           stops == {x \in list : StopsAt(c, limit, t[x].date)}
           kept == {x \in list : ~ExcludesDelta(c, limit, t[x].date)}
<1>1. /\ list \subseteq 1..n /\ n \in Nat /\ DOMAIN t = 1..n
      /\ \A x \in list : x \in 1..n /\ t[x].date = m[x] /\ m[x] \in Now
  BY DatedListing
<1>2. s \in 1..n /\ FindDelta(t, t[s].sid) = s
  BY FindDeltaIs
<1>3. t[s].sid \in DeltaSids /\ t[s].date = m[s] /\ m[s] \in Now
  BY <1>2 DEF SidsRight, Dated
<1>4. ~IsNull(c.sid)
  BY <1>3, DeltaSidFacts DEF IsNull, SidTuples
<1>5. named = s /\ limit = m[s]
  <2>1. named = s
    BY <1>2, <1>4
  <2>2. s # 0
    BY <1>2
  <2> QED
    BY <1>3, <2>1, <2>2
<1>6. s \in list
  BY <1>2, <1>1 DEF Listing
<1>7. Prt(t, all, options) = UpToFirst(list, stops) \cap kept
  BY DEF Prt
<1> HIDE DEF named, limit
<1>8. Valid(limit) /\ ~Valid(c.last)
  BY <1>3, <1>5, MomentsInOrder, NoDateInvalid
<1>9. ASSUME NEW x \in list, s <= x
      PROVE  /\ x \in stops <=> x = s
             /\ x \in kept
  <2>1. x = s \/ x \in (s + 1)..n
    BY <1>1, <1>2, <1>9
  <2>2. ~Less(m[x], m[s])
    <3>1. CASE x = s
      BY <1>3, <3>1, MomentsInOrder
    <3>2. CASE x \in (s + 1)..n
      <4>1. Less(m[s], m[x]) /\ m[x] \in Now
        BY <1>1, <3>2
      <4>2. Less(m[x], m[s]) => Less(m[s], m[s])
        BY <1>3, <4>1, MomentsChain
      <4> QED
        BY <1>3, <4>2, MomentsInOrder
    <3> QED
      BY <2>1, <3>1, <3>2
  <2>3. ~Excludes(c, m[x])
    <3>1. ~(Valid(c.first) /\ Less(m[x], c.first))
      BY <2>2, NoDateInvalid
    <3> QED
      BY <1>8, <3>1 DEF Excludes
  <2>4. Less(m[s], m[x]) <=> x # s
    <3>1. CASE x = s
      BY <1>3, <3>1, MomentsInOrder
    <3>2. CASE x \in (s + 1)..n
      BY <1>2, <3>2
    <3> QED
      BY <2>1, <3>1, <3>2
  <2>5. StopsAt(c, limit, m[x]) <=> x = s
    BY <1>5, <1>8, <2>3, <2>4 DEF StopsAt, NotGreater
  <2>6. ~ExcludesDelta(c, limit, m[x])
    BY <1>5, <2>2, <2>3 DEF ExcludesDelta
  <2>7. t[x].date = m[x]
    BY <1>1
  <2> QED
    BY <2>5, <2>6, <2>7
<1>10. \A x \in list : x \in Nat
  BY <1>1
<1>11. stops \subseteq list
  OBVIOUS
<1> SUFFICES Prt(t, all, options) = {x \in list : x >= s}
  OBVIOUS
<1> HIDE DEF list, stops, kept
<1>12. s \in stops /\ s \in Nat
  <2>1. s <= s
    BY <1>2
  <2> QED
    BY <1>2, <1>6, <1>9, <2>1
<1>13. \A x \in stops : x <= s
  BY <1>9, <1>10, <1>11, <1>12
<1>14. UpToFirst(list, stops) = {x \in list : s <= x}
  <2>1. ASSUME NEW x \in list PROVE (\A y \in list \cap stops : y <= x) <=> s <= x
    BY <1>6, <1>10, <1>11, <1>12, <1>13
  <2> QED
    BY <2>1 DEF UpToFirst
<1>15. \A x \in list : s <= x <=> x >= s
  BY <1>10, <1>12
<1> QED
  BY <1>7, <1>9, <1>14, <1>15

\* find_most_recent_sid finds the youngest delta, if the dates are in order.
LEMMA MostRecentIs ==
  ASSUME NEW t, NEW n, NEW m, Dated(t, n, m), InOrder(t),
         NEW s \in CurrentDeltas(t), \A x \in CurrentDeltas(t) : x <= s
  PROVE  MostRecent(t) = s
<1> DEFINE R == {x \in CurrentDeltas(t) :
                   \A y \in CurrentDeltas(t) : ~Greater(t[y].date, t[x].date)}
<1>1. /\ n \in Nat /\ DOMAIN t = 1..n
      /\ \A x \in 1..n : t[x].date \in Now
  BY DEF Dated
<1>2. CurrentDeltas(t) \subseteq 1..n
  BY <1>1 DEF CurrentDeltas
<1>3. ASSUME NEW y \in CurrentDeltas(t) PROVE ~Greater(t[y].date, t[s].date)
  <2>1. CASE y = s
    BY <1>1, <1>2, <2>1, MomentsInOrder DEF Greater
  <2>2. CASE y # s
    <3>1. y < s
      BY <1>2, <2>2, <1>1
    <3> QED
      BY <1>1, <1>2, <3>1 DEF InOrder, NotGreater, Greater
  <2> QED
    BY <2>1, <2>2
<1>4. s \in R /\ \A x \in R : x <= s /\ x \in Nat
  BY <1>1, <1>2, <1>3
<1>5. MostRecent(t) = Max(R)
  BY DEF MostRecent
<1> HIDE DEF R
<1>6. s \in R /\ \A y \in R : s >= y
  BY <1>4
<1>7. \A x \in R : (\A y \in R : x >= y) => x = s
  BY <1>4
<1>8. (CHOOSE x \in R : \A y \in R : x >= y) = s
  BY <1>6, <1>7
<1> QED
  BY <1>5, <1>8 DEF Max

\* prs -l and prs -e, and prt -c and prt -r, divide the history, for every table that
\* check-ins and removals make, in whatever order its dates are.
THEOREM ReportsAreSplit == Spec => []ReportsSplitHistory
<1>1. HistoryInv => ReportsSplitHistory
  <2> SUFFICES ASSUME HistoryInv PROVE ReportsSplitHistory
    OBVIOUS
  <2> DEFINE t == Table
  <2>1. PICK n : SidsRight(t, n) /\ Dated(t, n, made)
    BY TableHasSids DEF HistoryInv
  <2> HIDE DEF t
  <2>2. n \in Nat /\ DOMAIN t = 1..n /\ \A s \in 1..n : t[s].sid \in DeltaSids /\ made[s] \in Now
    BY <2>1 DEF SidsRight, Dated
  <2>3. ASSUME NEW all \in BOOLEAN
        PROVE  /\ Listing(t, all) = Prs(t, all, "sidonly", TRUE, NullSid, NoDate)
               /\ Listing(t, all) = Prt(t, all, NoCutoff)
    <3> DEFINE list == Listing(t, all)
    <3>1. list \subseteq DOMAIN t /\ \A s \in list : s <= s
      BY <2>2, ListingIs
    <3>2. Awaited(t, NullSid) = DOMAIN t
      BY DEF Awaited, IsNull, NullSid
    <3>3. Prs(t, all, "sidonly", TRUE, NullSid, NoDate) = FromFirst(list, DOMAIN t)
      <4>1. Prs(t, all, "sidonly", TRUE, NullSid, NoDate) = PrsEarlier(t, all, NullSid, NoDate)
        BY PrsIs
      <4>2. PrsEarlier(t, all, NullSid, NoDate) = FromFirst(list, Awaited(t, NullSid))
        BY <2>2, NoCutoffPasses
      <4> QED
        BY <3>2, <4>1, <4>2
    <3>4. FromFirst(list, DOMAIN t) = list
      <4> HIDE DEF list
      <4> QED
        BY <3>1 DEF FromFirst
    <3>5. ASSUME NEW d \in Now PROVE Prt(t, all, NoCutoff) = list
      BY <2>1, PrtAtMoment
    <3>6. Prt(t, all, NoCutoff) = list
      <4>1. NoCutoff.sid = NullSid /\ NoCutoff.mostRecent = FALSE
        BY DEF NoCutoff
      <4>2. Prt(t, all, NoCutoff) = {s \in list : ~Excludes(NoCutoff, t[s].date)}
        BY <4>1, PrtWithoutSid
      <4>3. ASSUME NEW e PROVE ~Excludes(NoCutoff, e)
        BY NoDateInvalid DEF Excludes, NoCutoff
      <4> QED
        BY <4>2, <4>3
    <3> QED
      BY <3>3, <3>4, <3>6
  <2>4. ASSUME NEW all \in BOOLEAN, NEW s \in Listing(t, all)
        PROVE  LET list    == Listing(t, all)
                   rid     == t[s].sid
                   later   == Prs(t, all, "later", FALSE, rid, NoDate)
                   earlier == Prs(t, all, "earlier", FALSE, rid, NoDate)
               IN  /\ later \cup earlier = list
                   /\ \E g \in list :
                        /\ t[g].sid = rid
                        /\ later \cap earlier = {g}
                        /\ Prs(t, all, "sidonly", FALSE, rid, NoDate) = {g}
                        /\ \A l \in later, e \in earlier : e <= g /\ g <= l
    <3>1. s \in 1..n
      BY <2>2, ListingIs
    <3>2. ~IsNull(t[s].sid)
      BY <2>2, <3>1, DeltaSidFacts DEF IsNull, SidTuples
    <3> QED
      BY <2>2, <3>2, SplitAtSid
  <2>5. ASSUME NEW all \in BOOLEAN, NEW d \in Now
        PROVE  LET list    == Listing(t, all)
                   later   == Prs(t, all, "later", FALSE, NullSid, d)
                   earlier == Prs(t, all, "earlier", FALSE, NullSid, d)
                   at      == {s \in list : made[s] = d}
                   after   == {s \in list : Precedes(d, made[s])}
               IN  /\ earlier = list \ after
                   /\ later \subseteq at \cup after
                   /\ InOrder(t) => later = at \cup after
                   /\ Prt(t, all, OptionR(NoCutoff, d)) = earlier
                   /\ Prt(t, all, OptionC(NoCutoff, d)) = at \cup after
    <3> DEFINE list    == Listing(t, all)
               later   == Prs(t, all, "later", FALSE, NullSid, d)
               earlier == Prs(t, all, "earlier", FALSE, NullSid, d)
               at      == {s \in list : made[s] = d}
               after   == {s \in list : Precedes(d, made[s])}
    <3>1. ASSUME NEW s \in list
          PROVE  /\ Precedes(d, made[s]) <=> Less(d, made[s])
                 /\ ~Less(made[s], d) <=> made[s] = d \/ Precedes(d, made[s])
      <4>1. made[s] \in Now
        BY <2>1, DatedListing
      <4>2. Less(made[s], d) /\ Less(d, made[s]) => Less(d, d)
        BY <4>1, MomentsChain
      <4> QED
        BY <4>1, <4>2, MomentsInOrder
    <3>2. earlier = {s \in list : ~Less(d, made[s])}
      <4>1. earlier = PrsEarlier(t, all, NullSid, d)
        BY PrsIs
      <4>2. PrsEarlier(t, all, NullSid, d) = {s \in list : ~Less(d, made[s])}
        BY <2>1, EarlierAtMoment
      <4> QED
        BY <4>1, <4>2
    <3>3. /\ later \subseteq {s \in list : ~Less(made[s], d)}
          /\ InOrder(t) => later = {s \in list : ~Less(made[s], d)}
      <4>1. later = PrsLater(t, all, NullSid, d)
        BY PrsIs
      <4>2. /\ PrsLater(t, all, NullSid, d) \subseteq {s \in list : ~Less(made[s], d)}
            /\ InOrder(t) => PrsLater(t, all, NullSid, d) = {s \in list : ~Less(made[s], d)}
        BY <2>1, LaterAtMoment
      <4> QED
        BY <4>1, <4>2
    <3>4. /\ Prt(t, all, OptionR(NoCutoff, d)) = {s \in list : ~Less(d, made[s])}
          /\ Prt(t, all, OptionC(NoCutoff, d)) = {s \in list : ~Less(made[s], d)}
      BY <2>1, PrtAtMoment
    <3> HIDE DEF list, later, earlier
    <3>5. {s \in list : ~Less(d, made[s])} = list \ after
      BY <3>1
    <3>6. {s \in list : ~Less(made[s], d)} = at \cup after
      BY <3>1
    <3> HIDE DEF at, after
    <3>7. /\ earlier = list \ after
          /\ later \subseteq at \cup after
          /\ InOrder(t) => later = at \cup after
          /\ Prt(t, all, OptionR(NoCutoff, d)) = earlier
          /\ Prt(t, all, OptionC(NoCutoff, d)) = at \cup after
      BY <3>2, <3>3, <3>4, <3>5, <3>6
    <3> QED
      BY <3>7 DEF list, later, earlier, at, after
  <2> QED
    BY <2>3, <2>4, <2>5 DEF ReportsSplitHistory, t
<1> QED
  BY <1>1, HistoryAlwaysRight, PTL

\* The last delta that prt -y reports is the one that is named, or the youngest, when no
\* younger one has its date or an earlier one.
THEOREM PrtEndsAtItsSid == Spec => []PrtEndsAtSid
<1>1. HistoryInv => PrtEndsAtSid
  <2> SUFFICES ASSUME HistoryInv PROVE PrtEndsAtSid
    OBVIOUS
  <2> DEFINE t == Table
  <2>1. PICK n : SidsRight(t, n) /\ Dated(t, n, made)
    BY TableHasSids DEF HistoryInv
  <2>0. DOMAIN made = 1..n
    <3>1. PICK k \in Nat \ {0} :
            Lists(file, k) /\ Lists(made, k) /\ \A s \in 1..k : EntryRight(file, made, s)
      BY DEF HistoryInv, DatesInv
    <3>2. DOMAIN Table = 1..k /\ DOMAIN made = 1..k
      BY <3>1, TableIs, ListedHas
    <3> QED
      BY <2>1, <3>2 DEF SidsRight
  <2> HIDE DEF t
  <2>2. n \in Nat /\ DOMAIN t = 1..n /\ \A s \in 1..n : t[s].sid \in DeltaSids /\ t[s].date = made[s] /\ made[s] \in Now
    BY <2>1 DEF SidsRight, Dated
  <2>3. ASSUME NEW all \in BOOLEAN, NEW s \in CurrentDeltas(t),
               \A x \in DOMAIN made : x > s => Precedes(made[s], made[x])
        PROVE  LET younger == {x \in Listing(t, all) : x >= s} IN
               /\ Prt(t, all, OptionY(NoCutoff, t[s].sid)) = younger
               /\ InOrder(t) /\ (\A x \in CurrentDeltas(t) : x <= s) =>
                    Prt(t, all, OptionY(NoCutoff, NullSid)) = younger
    <3> DEFINE younger == {x \in Listing(t, all) : x >= s}
    <3>1. s \in 1..n
      BY <2>2 DEF CurrentDeltas
    <3>2. ASSUME NEW x \in (s + 1)..n PROVE Less(made[s], made[x])
      <4>1. x \in 1..n /\ x > s
        BY <2>2, <3>1
      <4>2. Precedes(made[s], made[x])
        BY <2>0, <2>3, <4>1
      <4> QED
        BY <2>2, <3>1, <4>1, <4>2, MomentsInOrder
    <3>3. ~IsNull(t[s].sid) /\ IsNull(NullSid)
      BY <2>2, <3>1, DeltaSidFacts DEF IsNull, SidTuples, NullSid
    <3>4. Prt(t, all, OptionY(NoCutoff, t[s].sid)) = younger
      <4> DEFINE c == OptionY(NoCutoff, t[s].sid)
      <4>1. c.mostRecent = FALSE /\ c.sid = t[s].sid /\ c.first = NoDate /\ c.last = NoDate
        BY <3>3 DEF OptionY, NoCutoff
      <4> HIDE DEF c
      <4>2. PrepareCutoff(t, c) = c
        BY <4>1 DEF PrepareCutoff
      <4>3. Prt(t, all, c) = younger
        BY <2>1, <3>2, <4>1, <4>2, PrtEndsAt
      <4> QED
        BY <4>3 DEF c
    <3>5. ASSUME InOrder(t), \A x \in CurrentDeltas(t) : x <= s
          PROVE  Prt(t, all, OptionY(NoCutoff, NullSid)) = younger
      <4> DEFINE c == OptionY(NoCutoff, NullSid)
                 p == PrepareCutoff(t, c)
                 i == t[s].sid
                 e == t[s].date
      <4>1. c = [NoCutoff EXCEPT !.mostRecent = TRUE]
        BY <3>3 DEF OptionY
      <4>2. c.mostRecent = TRUE /\ c.last = NoDate
        BY <4>1 DEF NoCutoff
      <4>3. MostRecent(t) = s /\ CurrentDeltas(t) # {}
        BY <2>1, <3>5, MostRecentIs
      <4>4. p = [c EXCEPT !.sid = i, !.first = e]
        <5> HIDE DEF c
        <5> QED
          BY <4>2, <4>3 DEF PrepareCutoff
      <4> HIDE DEF c, p, i, e
      <4>5. p.sid = i /\ p.first = e /\ p.last = NoDate
        BY <4>1, <4>4 DEF NoCutoff
      <4>6. p.sid = t[s].sid /\ p.first = made[s]
        BY <2>2, <3>1, <4>5 DEF i, e
      <4>7. Prt(t, all, c) = younger
        BY <2>1, <3>2, <4>5, <4>6, PrtEndsAt DEF p
      <4> QED
        BY <4>7 DEF c
    <3> QED
      BY <3>4, <3>5
  <2> QED
    BY <2>3 DEF PrtEndsAtSid, t
<1> QED
  BY <1>1, HistoryAlwaysRight, PTL

-----------------------------------------------------------------------------
(* val.                                                                    *)

\* A table in which every delta has a predecessor, if not always an older one.
Linked(t, n) ==
  /\ n \in Nat /\ Len(t) = n /\ DOMAIN t = 1..n
  /\ \A s \in 1..n : t[s].prev \in 0..n

Back(t, x) == IF x = 0 THEN 0 ELSE t[x].prev

WayLoop(t, s) ==
  CHOOSE f : f = [k \in 0..(Len(t) + 1) |->
                    IF k = 0 THEN s ELSE IF f[k - 1] = 0 THEN 0 ELSE t[f[k - 1]].prev]

LEMMA WayIsLoop ==
  ASSUME NEW t, NEW s
  PROVE  Way(t, s) = WayLoop(t, s)
BY Zenon DEF Way, WayLoop

LEMMA WayIs ==
  ASSUME NEW t, NEW n, Linked(t, n), NEW s \in 0..n
  PROVE  /\ Way(t, s) \in [0..(n + 1) -> 0..n]
         /\ Way(t, s)[0] = s
         /\ \A k \in 1..(n + 1) : Way(t, s)[k] = Back(t, Way(t, s)[k - 1])
<1> DEFINE F == Way(t, s)
           Body0(f) == [k \in 0..(n + 1) |-> IF k = 0 THEN s ELSE Back(t, f[k - 1])]
           step == [k \in 1..(n + 1) |-> [x \in 0..n |-> Back(t, x)]]
<1>1. n \in Nat /\ n + 1 \in Nat /\ Len(t) = n /\ \A x \in 0..n : Back(t, x) \in 0..n
  <2>1. n \in Nat /\ Len(t) = n /\ \A x \in 1..n : t[x].prev \in 0..n
    BY DEF Linked
  <2>2. \A x \in 0..n : x # 0 => x \in 1..n
    BY <2>1
  <2>3. 0 \in 0..n
    BY <2>1
  <2> QED
    BY <2>1, <2>2, <2>3 DEF Back
<1>2. F = CHOOSE f : f = Body0(f)
  BY <1>1, WayIsLoop DEF WayLoop, Back
<1>3. step \in [1..(n + 1) -> [0..n -> 0..n]]
  BY <1>1
<1>4. \A k \in 1..(n + 1) : \A x \in 0..n : step[k][x] = Back(t, x)
  OBVIOUS
<1> HIDE DEF step, F
<1>5. PICK g : Upward(g, n + 1, 0..n, s, step)
  BY <1>1, <1>3, UpwardRecursion
<1>6. g \in [0..(n + 1) -> 0..n] /\ g[0] = s /\ \A k \in 1..(n + 1) : g[k] = step[k][g[k - 1]]
  BY <1>5 DEF Upward
<1>7. ASSUME NEW k \in 0..(n + 1), k # 0 PROVE k \in 1..(n + 1) /\ k - 1 \in 0..(n + 1)
  BY <1>1, <1>7
<1>8. g = Body0(g)
  <2>1. ASSUME NEW k \in 0..(n + 1) PROVE g[k] = IF k = 0 THEN s ELSE Back(t, g[k - 1])
    BY <1>4, <1>6, <1>7
  <2> QED
    BY <1>6, <2>1
<1>9. F = Body0(F)
  <2> HIDE DEF Body0
  <2> QED
    BY <1>2, <1>8
<1>10. ASSUME NEW k \in 0..(n + 1) PROVE F[k] = IF k = 0 THEN s ELSE Back(t, F[k - 1])
  BY <1>9
<1>11. DOMAIN F = 0..(n + 1) /\ F = [k \in 0..(n + 1) |-> F[k]]
  BY <1>9
<1> HIDE DEF Body0
<1>12. \A k \in 1..(n + 1) : k \in 0..(n + 1) /\ k # 0
  BY <1>1
<1>13. 0 \in 0..(n + 1)
  BY <1>1
<1>14. F[0] = s
  BY <1>10, <1>13
<1>15. \A k \in 1..(n + 1) : F[k] = Back(t, F[k - 1])
  BY <1>10, <1>12
<1>16. \A k \in 0..(n + 1) : F[k] \in 0..n
  <2> DEFINE Right == {k \in 0..(n + 1) : F[k] \in 0..n}
  <2>1. 0 \in Right
    BY <1>13, <1>14
  <2>2. ASSUME NEW k \in 1..(n + 1), k - 1 \in Right PROVE k \in Right
    BY <1>1, <1>12, <1>15, <2>2
  <2> HIDE DEF Right
  <2>3. \A k \in 0..(n + 1) : k \in Right
    BY <1>1, <2>1, <2>2, UpwardInduction
  <2> QED
    BY <2>3 DEF Right
<1>17. F \in [0..(n + 1) -> 0..n]
  BY <1>11, <1>16
<1> QED
  BY <1>14, <1>15, <1>17 DEF F

\* The root is the end of every way.
LEMMA RootStays ==
  ASSUME NEW t, NEW n, Linked(t, n), NEW s \in 0..n, NEW k \in 0..(n + 1), Way(t, s)[k] = 0
  PROVE  \A l \in k..(n + 1) : Way(t, s)[l] = 0
<1> DEFINE way == Way(t, s)
<1>1. n \in Nat /\ k \in Nat /\ way[k] = 0 /\ \A i \in 1..(n + 1) : way[i] = Back(t, way[i - 1])
  <2>1. n \in Nat
    BY DEF Linked
  <2> QED
    BY <2>1, WayIs
<1> HIDE DEF way
<1> DEFINE Zero == {i \in 0..(n + 1 - k) : way[k + i] = 0}
<1>2. n + 1 - k \in Nat
  BY <1>1
<1>3. 0 \in Zero
  BY <1>1
<1>4. ASSUME NEW i \in 1..(n + 1 - k), i - 1 \in Zero PROVE i \in Zero
  <2>1. k + i \in 1..(n + 1) /\ (k + i) - 1 = k + (i - 1) /\ i \in 0..(n + 1 - k)
    BY <1>1, <1>2
  <2>2. way[k + (i - 1)] = 0
    BY <1>4
  <2>3. way[k + i] = Back(t, way[(k + i) - 1])
    BY <1>1, <2>1
  <2> QED
    BY <2>1, <2>2, <2>3 DEF Back
<1> HIDE DEF Zero
<1>5. \A i \in 0..(n + 1 - k) : i \in Zero
  BY <1>2, <1>3, <1>4, UpwardInduction
<1>6. ASSUME NEW l \in k..(n + 1) PROVE way[l] = 0
  <2>1. l - k \in 0..(n + 1 - k) /\ k + (l - k) = l
    BY <1>1
  <2> QED
    BY <1>5, <2>1 DEF Zero
<1> QED
  BY <1>6 DEF way

\* A way that comes to a delta for the second time never ends.
LEMMA LoopNeverEnds ==
  ASSUME NEW t, NEW n, Linked(t, n), NEW s \in 0..n,
         NEW j \in 0..(n + 1), NEW e \in 0..(n + 1), j < e,
         Way(t, s)[j] = Way(t, s)[e], Way(t, s)[e] # 0
  PROVE  \A k \in 0..(n + 1) : Way(t, s)[k] # 0
<1> DEFINE way == Way(t, s)
<1>1. n \in Nat /\ \A i \in 1..(n + 1) : way[i] = Back(t, way[i - 1])
  <2>1. n \in Nat
    BY DEF Linked
  <2> QED
    BY <2>1, WayIs
<1>2. ASSUME NEW k \in 0..(n + 1), way[k] = 0 PROVE \A l \in k..(n + 1) : way[l] = 0
  BY <1>2, RootStays
<1>3. way[j] = way[e] /\ way[e] # 0
  OBVIOUS
<1> HIDE DEF way
<1> DEFINE Same == {i \in 0..(n + 1 - e) : way[j + i] = way[e + i]}
<1>4. n + 1 - e \in Nat
  BY <1>1
<1>5. 0 \in Same
  BY <1>3, <1>4
<1>6. ASSUME NEW i \in 1..(n + 1 - e), i - 1 \in Same PROVE i \in Same
  <2>1. /\ j + i \in 1..(n + 1) /\ e + i \in 1..(n + 1) /\ i \in 0..(n + 1 - e)
        /\ (j + i) - 1 = j + (i - 1) /\ (e + i) - 1 = e + (i - 1)
    BY <1>1, <1>4
  <2>2. way[j + (i - 1)] = way[e + (i - 1)]
    BY <1>6
  <2>3. way[j + i] = Back(t, way[(j + i) - 1]) /\ way[e + i] = Back(t, way[(e + i) - 1])
    BY <1>1, <2>1
  <2> QED
    BY <2>1, <2>2, <2>3
<1> HIDE DEF Same
<1>7. \A i \in 0..(n + 1 - e) : i \in Same
  BY <1>4, <1>5, <1>6, UpwardInduction
<1> DEFINE Z == {k \in 0..(n + 1) : way[k] = 0}
<1>8. SUFFICES ASSUME Z # {} PROVE FALSE
  BY DEF way
<1>9. Z \subseteq Nat /\ \A k \in Z : k \in 0..(n + 1) /\ way[k] = 0
  OBVIOUS
<1>10. PICK K \in Z : \A k \in Z : K <= k
  <2> HIDE DEF Z
  <2> QED
    BY <1>8, <1>9, LeastNumber
<1>11. K > e
  <2>1. SUFFICES ASSUME K <= e PROVE FALSE
    BY <1>9
  <2>2. e \in K..(n + 1)
    BY <1>1, <1>9, <2>1
  <2> QED
    BY <1>2, <1>3, <1>9, <2>2
<1>12. K - e \in 0..(n + 1 - e) /\ e + (K - e) = K /\ j + (K - e) < K /\ j + (K - e) \in 0..(n + 1)
  BY <1>1, <1>9, <1>11
<1>13. way[j + (K - e)] = 0
  BY <1>7, <1>9, <1>12 DEF Same
<1>14. j + (K - e) \in Z
  BY <1>12, <1>13
<1> HIDE DEF Z
<1>15. K <= j + (K - e)
  BY <1>10, <1>14
<1> QED
  BY <1>1, <1>9, <1>12, <1>15

\* One that does not end comes to a delta for the second time.
LEMMA EndlessRepeats ==
  ASSUME NEW t, NEW n, Linked(t, n), NEW s \in 0..n, \A k \in 0..n : Way(t, s)[k] # 0
  PROVE  \E i, j \in 0..n : i < j /\ Way(t, s)[i] = Way(t, s)[j]
<1> DEFINE way == Way(t, s)
           D == 0..n
           T == 1..n
           f == [k \in D |-> way[k]]
<1>1. n \in Nat /\ \A k \in 0..(n + 1) : way[k] \in 0..n
  <2>1. n \in Nat
    BY DEF Linked
  <2>2. way \in [0..(n + 1) -> 0..n]
    BY WayIs
  <2> HIDE DEF way
  <2> QED
    BY <2>1, <2>2
<1>2. \A k \in D : way[k] \in T
  BY <1>1
<1>3. f \in [D -> T] /\ \A k \in D : f[k] = way[k]
  BY <1>2
<1>4. IsFiniteSet(D) /\ Cardinality(D) = n + 1
  <2>1. 0 \in Int /\ n \in Int /\ ~(0 > n)
    BY <1>1
  <2>2. IsFiniteSet(D) /\ Cardinality(D) = IF 0 > n THEN 0 ELSE n - 0 + 1
    BY <2>1, FS_Interval, Zenon
  <2>3. n - 0 + 1 = n + 1
    BY <1>1
  <2> QED
    BY <2>1, <2>2, <2>3
<1>5. IsFiniteSet(T) /\ Cardinality(T) = n
  <2>1. 1 \in Int /\ n \in Int
    BY <1>1
  <2>2. IsFiniteSet(T) /\ Cardinality(T) = IF 1 > n THEN 0 ELSE n - 1 + 1
    BY <2>1, FS_Interval, Zenon
  <2>3. (IF 1 > n THEN 0 ELSE n - 1 + 1) = n
    BY <1>1
  <2> QED
    BY <2>2, <2>3
<1>6. SUFFICES ASSUME \A i, j \in D : i < j => way[i] # way[j] PROVE FALSE
  BY DEF way
<1> HIDE DEF way, f
<1>7. \A x, y \in D : f[x] = f[y] => x = y
  <2>1. \A x, y \in D : x < y \/ y < x \/ x = y
    BY <1>1
  <2> HIDE DEF D
  <2> QED
    BY <1>3, <1>6, <2>1
<1>8. Cardinality(T) < Cardinality(D)
  BY <1>1, <1>4, <1>5
<1> HIDE DEF D, T
<1> QED
  BY <1>3, <1>4, <1>5, <1>7, <1>8, TooManyPigeons

\* The way from s leads to the root.
Leads(t, n, s) == Way(t, s)[n] = 0

LEMMA RootLeads ==
  ASSUME NEW t, NEW n, Linked(t, n)
  PROVE  Leads(t, n, 0)
<1>1. n \in Nat /\ 0 \in 0..n /\ 0 \in 0..(n + 1) /\ n \in 0..(n + 1)
  BY DEF Linked
<1>2. Way(t, 0)[0] = 0
  BY <1>1, WayIs
<1> QED
  BY <1>1, <1>2, RootStays DEF Leads

\* The way from a delta goes on with the one from its predecessor.
LEMMA WayGoesOn ==
  ASSUME NEW t, NEW n, Linked(t, n), NEW s \in 0..n
  PROVE  \A k \in 0..n : Way(t, s)[k + 1] = Way(t, Back(t, s))[k]
<1> DEFINE p == Back(t, s)
           way == Way(t, s)
           rest == Way(t, p)
<1>1. n \in Nat /\ p \in 0..n
  <2>1. n \in Nat /\ \A x \in 1..n : t[x].prev \in 0..n
    BY DEF Linked
  <2>2. s # 0 => s \in 1..n
    BY <2>1
  <2> QED
    BY <2>1, <2>2 DEF Back
<1>2. way[0] = s /\ \A k \in 1..(n + 1) : way[k] = Back(t, way[k - 1])
  BY WayIs
<1>3. rest[0] = p /\ \A k \in 1..(n + 1) : rest[k] = Back(t, rest[k - 1])
  <2> HIDE DEF p
  <2> QED
    BY <1>1, WayIs
<1>4. p = Back(t, s)
  OBVIOUS
<1> SUFFICES \A k \in 0..n : way[k + 1] = rest[k]
  OBVIOUS
<1> HIDE DEF p, way, rest
<1> DEFINE Same == {k \in 0..n : way[k + 1] = rest[k]}
<1>5. 0 \in Same
  <2>1. 1 \in 1..(n + 1) /\ 1 - 1 = 0 /\ 0 + 1 = 1 /\ 0 \in 0..n
    BY <1>1
  <2> QED
    BY <1>2, <1>3, <1>4, <2>1
<1>6. ASSUME NEW k \in 1..n, k - 1 \in Same PROVE k \in Same
  <2>1. k \in 1..(n + 1) /\ k + 1 \in 1..(n + 1) /\ (k + 1) - 1 = (k - 1) + 1 /\ k \in 0..n
    BY <1>1
  <2>2. way[k + 1] = Back(t, way[(k - 1) + 1])
    BY <1>2, <2>1
  <2>3. way[(k - 1) + 1] = rest[k - 1]
    BY <1>6
  <2>4. rest[k] = Back(t, rest[k - 1])
    BY <1>3, <2>1
  <2> QED
    BY <2>1, <2>2, <2>3, <2>4
<1> HIDE DEF Same
<1>7. \A k \in 0..n : k \in Same
  BY <1>1, <1>5, <1>6, UpwardInduction
<1> QED
  BY <1>7 DEF Same

LEMMA LeadsBack ==
  ASSUME NEW t, NEW n, Linked(t, n), NEW s \in 0..n
  PROVE  Leads(t, n, s) <=> Leads(t, n, Back(t, s))
<1> DEFINE way == Way(t, s)
<1>1. n \in Nat /\ n \in 0..n /\ n + 1 \in 1..(n + 1) /\ n \in 0..(n + 1) /\ n + 1 \in n..(n + 1)
      /\ n + 1 \in 0..(n + 1) /\ (n + 1) - 1 = n
  BY DEF Linked
<1>2. way[n + 1] = Way(t, Back(t, s))[n]
  BY <1>1, WayGoesOn
<1>3. way[n] = 0 => way[n + 1] = 0
  BY <1>1, RootStays
<1>4. ASSUME way[n] # 0 PROVE way[n + 1] # 0
  <2>1. ASSUME NEW k \in 0..n PROVE way[k] # 0
    <3>1. k \in 0..(n + 1) /\ n \in k..(n + 1)
      BY <1>1
    <3> QED
      BY <1>4, <3>1, RootStays
  <2>2. PICK i, j \in 0..n : i < j /\ way[i] = way[j]
    BY <2>1, EndlessRepeats
  <2>3. i \in 0..(n + 1) /\ j \in 0..(n + 1) /\ way[j] # 0
    BY <1>1, <2>1
  <2>4. \A k \in 0..(n + 1) : way[k] # 0
    BY <2>2, <2>3, LoopNeverEnds
  <2> QED
    BY <1>1, <2>4
<1> QED
  BY <1>2, <1>3, <1>4 DEF Leads

\* All deltas of a way lead to the root, or none of them.
LEMMA LeadsAlong ==
  ASSUME NEW t, NEW n, Linked(t, n), NEW s \in 0..n
  PROVE  \A k \in 0..(n + 1) : Leads(t, n, Way(t, s)[k]) <=> Leads(t, n, s)
<1> DEFINE way == Way(t, s)
           Same == {k \in 0..(n + 1) : Leads(t, n, way[k]) <=> Leads(t, n, s)}
<1>1. n \in Nat /\ n + 1 \in Nat /\ 0 \in 0..(n + 1)
  BY DEF Linked
<1>2. /\ way \in [0..(n + 1) -> 0..n] /\ way[0] = s
      /\ \A k \in 1..(n + 1) : way[k] = Back(t, way[k - 1])
  BY WayIs
<1> HIDE DEF way
<1>3. 0 \in Same
  BY <1>1, <1>2
<1>4. ASSUME NEW k \in 1..(n + 1), k - 1 \in Same PROVE k \in Same
  <2>1. k \in 0..(n + 1) /\ k - 1 \in 0..(n + 1)
    BY <1>1
  <2>2. way[k] = Back(t, way[k - 1]) /\ way[k - 1] \in 0..n
    BY <1>2, <2>1
  <2>3. Leads(t, n, way[k - 1]) <=> Leads(t, n, Back(t, way[k - 1]))
    BY <2>2, LeadsBack
  <2> QED
    BY <1>4, <2>1, <2>2, <2>3
<1> HIDE DEF Same
<1>5. \A k \in 0..(n + 1) : k \in Same
  BY <1>1, <1>3, <1>4, UpwardInduction
<1> QED
  BY <1>5 DEF Same, way

Passed(way, k) == {way[j] : j \in 0..(k - 1)}
Halts(way, v) == {k \in DOMAIN way : way[k] \in {0} \cup v.loopfree \cup v.seen \cup Passed(way, k)}

\* What check_loop_free remembers: deltas from which the way leads to the root.
Remembers(t, n, v) ==
  /\ v.loopfree \subseteq {x \in 1..n : Leads(t, n, x)}
  /\ v.seen \subseteq v.loopfree

\* Where the way is given up.
LEMMA WayHalts ==
  ASSUME NEW t, NEW n, Linked(t, n), NEW s \in 1..n, NEW v, NEW end, end = Min(Halts(Way(t, s), v))
  PROVE  /\ end \in 0..(n + 1)
         /\ Way(t, s)[end] \in {0} \cup v.loopfree \cup v.seen \cup Passed(Way(t, s), end)
         /\ \A j \in 0..(end - 1) : Way(t, s)[j] # 0
<1> DEFINE way == Way(t, s)
           H == Halts(way, v)
<1>1. n \in Nat /\ s \in 0..n
  BY DEF Linked
<1>2. way \in [0..(n + 1) -> 0..n] /\ way[0] = s
  BY <1>1, WayIs
<1>3. DOMAIN way = 0..(n + 1)
  BY <1>2
<1>4. H = {k \in 0..(n + 1) : way[k] \in {0} \cup v.loopfree \cup v.seen \cup Passed(way, k)}
  BY <1>3 DEF Halts
<1>5. H # {}
  <2>1. CASE \E k \in 0..n : way[k] = 0
    <3>1. PICK k \in 0..n : way[k] = 0
      BY <2>1
    <3>2. k \in 0..(n + 1)
      BY <1>1
    <3> HIDE DEF way, H
    <3> QED
      BY <1>4, <3>1, <3>2
  <2>2. CASE \A k \in 0..n : way[k] # 0
    <3>1. PICK i, j \in 0..n : i < j /\ way[i] = way[j]
      BY <1>1, <2>2, EndlessRepeats
    <3>2. i \in 0..(j - 1) /\ j \in 0..(n + 1)
      BY <1>1, <3>1
    <3> HIDE DEF way, H
    <3>3. way[j] \in Passed(way, j)
      BY <3>1, <3>2 DEF Passed
    <3> QED
      BY <1>4, <3>2, <3>3
  <2> QED
    BY <2>1, <2>2
<1> HIDE DEF H
<1>6. H \subseteq 0..(n + 1) /\ H \subseteq Nat
  BY <1>1, <1>4
<1>7. \E m \in H : \A k \in H : m <= k
  BY <1>5, <1>6, LeastNumber
<1>8. end = CHOOSE m \in H : \A k \in H : m <= k
  BY DEF Min, H
<1>9. end \in H /\ \A k \in H : end <= k
  BY <1>7, <1>8
<1> HIDE DEF way
<1>10. end \in 0..(n + 1) /\ way[end] \in {0} \cup v.loopfree \cup v.seen \cup Passed(way, end)
  BY <1>4, <1>9
<1>11. ASSUME NEW j \in 0..(end - 1) PROVE way[j] # 0
  <2>1. j \in 0..(n + 1) /\ ~(end <= j)
    BY <1>1, <1>10
  <2>2. j \notin H
    BY <1>9, <2>1
  <2> QED
    BY <1>4, <2>1, <2>2
<1> QED
  BY <1>10, <1>11 DEF way

\* check_loop_free is right about s, and goes on remembering only good deltas.
LEMMA LoopCheckIsRight ==
  ASSUME NEW t, NEW n, Linked(t, n), NEW s \in 1..n, NEW v, Remembers(t, n, v)
  PROVE  LET w == CheckLoopFree(t, v, s)
         IN  /\ w.ok \in BOOLEAN
             /\ w.ok <=> Leads(t, n, s)
             /\ w.ok => Remembers(t, n, w)
<1> DEFINE way == Way(t, s)
           end == Min(Halts(way, v))
           free == way[end] \in {0} \cup v.loopfree
           lowest == Min((Passed(way, end + 1) \cup {Len(t)}) \ {0})
           w == CheckLoopFree(t, v, s)
<1>1. w = [ok |-> free,
           loopfree |-> IF free THEN v.loopfree \cup Passed(way, end) ELSE v.loopfree,
           seen |-> {x \in v.seen \cup Passed(way, end) : x < lowest}]
  BY Zenon DEF CheckLoopFree, Halts, Passed
<1>2. n \in Nat /\ s \in 0..n
  BY DEF Linked
<1>3. /\ end \in 0..(n + 1)
      /\ way[end] \in {0} \cup v.loopfree \cup v.seen \cup Passed(way, end)
      /\ \A j \in 0..(end - 1) : way[j] # 0
  BY WayHalts
<1>4. way \in [0..(n + 1) -> 0..n]
  BY <1>2, WayIs
<1>5. \A k \in 0..(n + 1) : Leads(t, n, way[k]) <=> Leads(t, n, s)
  BY <1>2, LeadsAlong
<1>6. Leads(t, n, 0)
  BY RootLeads
<1>7. ASSUME NEW j \in 0..(n + 1), NEW k \in 0..(n + 1), j < k, way[j] = way[k], way[k] # 0
      PROVE  way[n] # 0
  <2>1. n \in 0..(n + 1)
    BY <1>2
  <2> QED
    BY <1>2, <1>7, <2>1, LoopNeverEnds
<1>8. Leads(t, n, s) <=> way[n] = 0
  BY DEF Leads
<1> SUFFICES /\ w.ok \in BOOLEAN
             /\ w.ok <=> Leads(t, n, s)
             /\ w.ok => Remembers(t, n, w)
  OBVIOUS
<1> HIDE DEF way, end, lowest, w
<1>9. free => Leads(t, n, s)
  <2> SUFFICES ASSUME free PROVE Leads(t, n, way[end])
    BY <1>3, <1>5
  <2> QED
    BY <1>6 DEF Remembers
<1>10. ASSUME ~free PROVE ~Leads(t, n, s)
  <2>1. way[end] \in Passed(way, end) /\ way[end] # 0
    BY <1>3, <1>10 DEF Remembers
  <2>2. PICK j \in 0..(end - 1) : way[end] = way[j]
    BY <2>1 DEF Passed
  <2>3. j \in 0..(n + 1) /\ j < end
    BY <1>2, <1>3
  <2>4. way[n] # 0
    BY <1>3, <1>7, <2>1, <2>2, <2>3
  <2> QED
    BY <1>8, <2>4
<1>11. ASSUME free PROVE Remembers(t, n, w)
  <2> DEFINE P == Passed(way, end)
  <2>1. w.loopfree = v.loopfree \cup P /\ w.seen \subseteq v.seen \cup P
    BY <1>1, <1>11
  <2>2. P \subseteq {x \in 1..n : Leads(t, n, x)}
    <3>1. ASSUME NEW j \in 0..(end - 1) PROVE way[j] \in 1..n /\ Leads(t, n, way[j])
      <4>1. j \in 0..(n + 1)
        BY <1>2, <1>3
      <4>2. way[j] \in 0..n /\ way[j] # 0
        BY <1>3, <1>4, <4>1
      <4>3. way[j] \in 1..n
        BY <1>2, <4>2
      <4> QED
        BY <1>5, <1>9, <1>11, <4>1, <4>3
    <3> QED
      BY <3>1 DEF Passed
  <2> HIDE DEF P
  <2> QED
    BY <2>1, <2>2 DEF Remembers
<1>12. w.ok = free
  BY <1>1
<1> HIDE DEF free
<1>13. free \in BOOLEAN
  BY DEF free
<1> QED
  BY Zenon, <1>9, <1>10, <1>11, <1>12, <1>13

\* What validate knows after some of the deltas.
Known(n) == [ok : BOOLEAN, loopfree : SUBSET (0..n), seen : SUBSET (0..n)]
AtFirst == [ok |-> TRUE, loopfree |-> {}, seen |-> {}]
Looked(t, v, s) ==
  IF v.ok /\ s \in Current(t)
  THEN [CheckLoopFree(t, v, s) EXCEPT !.ok = @ /\ Valid(t[s].date)]
  ELSE v

ValLoop(t) ==
  CHOOSE f : f = [m \in 0..Len(t) |->
                    IF m = 0 THEN AtFirst ELSE Looked(t, f[m - 1], Len(t) + 1 - m)]

LEMMA ValIsLoop ==
  ASSUME NEW t
  PROVE  Validate(t) = ValLoop(t)[Len(t)].ok
BY Zenon DEF Validate, ValLoop, Looked, AtFirst

LEMMA LookedIsKnown ==
  ASSUME NEW t, NEW n, Linked(t, n), NEW s \in 1..n, NEW v \in Known(n)
  PROVE  Looked(t, v, s) \in Known(n)
<1> DEFINE way == Way(t, s)
           end == Min(Halts(way, v))
           free == way[end] \in {0} \cup v.loopfree
           lowest == Min((Passed(way, end + 1) \cup {Len(t)}) \ {0})
           w == CheckLoopFree(t, v, s)
           L == IF free THEN v.loopfree \cup Passed(way, end) ELSE v.loopfree
           E == {x \in v.seen \cup Passed(way, end) : x < lowest}
<1>1. w = [ok |-> free, loopfree |-> L, seen |-> E]
  BY Zenon DEF CheckLoopFree, Halts, Passed
<1>2. n \in Nat /\ s \in 0..n
  BY DEF Linked
<1>3. end \in 0..(n + 1)
  BY WayHalts
<1>4. way \in [0..(n + 1) -> 0..n]
  BY <1>2, WayIs
<1> HIDE DEF way, end, lowest
<1>5. Passed(way, end) \subseteq 0..n
  <2>1. ASSUME NEW j \in 0..(end - 1) PROVE way[j] \in 0..n
    <3>1. j \in 0..(n + 1)
      BY <1>2, <1>3
    <3> QED
      BY <1>4, <3>1
  <2> QED
    BY <2>1 DEF Passed
<1>6. v.loopfree \subseteq 0..n /\ v.seen \subseteq 0..n
  BY DEF Known
<1>7. L \subseteq 0..n /\ E \subseteq 0..n
  BY <1>5, <1>6
<1>8. free \in BOOLEAN
  OBVIOUS
<1> HIDE DEF free, L, E, w
<1> DEFINE good == free /\ Valid(t[s].date)
<1>9. [w EXCEPT !.ok = @ /\ Valid(t[s].date)] = [ok |-> good, loopfree |-> L, seen |-> E]
  BY <1>1
<1>10. good \in BOOLEAN
  OBVIOUS
<1> HIDE DEF good
<1>11. [ok |-> good, loopfree |-> L, seen |-> E] \in Known(n)
  BY <1>7, <1>10 DEF Known
<1> QED
  BY <1>9, <1>11 DEF Looked, w

\* validate, delta by delta from the youngest.
LEMMA ValIs ==
  ASSUME NEW t, NEW n, Linked(t, n)
  PROVE  \E f : /\ f \in [0..n -> Known(n)]
                /\ f[0] = AtFirst
                /\ \A m \in 1..n : f[m] = Looked(t, f[m - 1], n + 1 - m)
                /\ Validate(t) = f[n].ok
<1> DEFINE S == Known(n)
           Body(f) == [m \in 0..n |-> IF m = 0 THEN AtFirst ELSE Looked(t, f[m - 1], n + 1 - m)]
           step == [m \in 1..n |-> [v \in S |-> Looked(t, v, n + 1 - m)]]
           F == ValLoop(t)
<1>1. n \in Nat /\ Len(t) = n
  BY DEF Linked
<1>2. F = CHOOSE f : f = Body(f)
  BY <1>1 DEF ValLoop
<1>3. step \in [1..n -> [S -> S]]
  <2>1. \A m \in 1..n : n + 1 - m \in 1..n
    BY <1>1
  <2>2. \A m \in 1..n : \A v \in S : Looked(t, v, n + 1 - m) \in S
    BY <2>1, LookedIsKnown
  <2> HIDE DEF S
  <2> QED
    BY <2>2
<1>4. \A m \in 1..n : \A v \in S : step[m][v] = Looked(t, v, n + 1 - m)
  OBVIOUS
<1>5. AtFirst \in S
  BY <1>1 DEF Known, AtFirst
<1> HIDE DEF S, step, F
<1>6. PICK g : Upward(g, n, S, AtFirst, step)
  BY <1>1, <1>3, <1>5, UpwardRecursion
<1>7. g \in [0..n -> S] /\ g[0] = AtFirst /\ \A m \in 1..n : g[m] = step[m][g[m - 1]]
  BY <1>6 DEF Upward
<1>8. ASSUME NEW m \in 0..n, m # 0 PROVE m \in 1..n /\ m - 1 \in 0..n
  BY <1>1, <1>8
<1>9. g = Body(g)
  <2>1. ASSUME NEW m \in 0..n
        PROVE  g[m] = IF m = 0 THEN AtFirst ELSE Looked(t, g[m - 1], n + 1 - m)
    BY <1>4, <1>7, <1>8
  <2> QED
    BY <1>7, <2>1
<1>10. F = Body(F)
  <2> HIDE DEF Body
  <2> QED
    BY <1>2, <1>9
<1>11. ASSUME NEW m \in 0..n
       PROVE  F[m] = IF m = 0 THEN AtFirst ELSE Looked(t, F[m - 1], n + 1 - m)
  BY <1>10
<1>12. F = [m \in 0..n |-> F[m]]
  BY <1>10
<1> HIDE DEF Body
<1>13. 0 \in 0..n /\ \A m \in 1..n : m \in 0..n /\ m # 0
  BY <1>1
<1>14. F[0] = AtFirst
  BY <1>11, <1>13
<1>15. \A m \in 1..n : F[m] = Looked(t, F[m - 1], n + 1 - m)
  BY <1>11, <1>13
<1>16. \A m \in 0..n : F[m] \in S
  <2> DEFINE Right == {m \in 0..n : F[m] \in S}
  <2>1. 0 \in Right
    BY <1>5, <1>13, <1>14
  <2>2. ASSUME NEW m \in 1..n, m - 1 \in Right PROVE m \in Right
    <3>1. n + 1 - m \in 1..n /\ m \in 0..n
      BY <1>1
    <3>2. F[m - 1] \in Known(n)
      BY <2>2 DEF S
    <3>3. Looked(t, F[m - 1], n + 1 - m) \in Known(n)
      BY <3>1, <3>2, LookedIsKnown
    <3> QED
      BY <1>15, <3>1, <3>3 DEF S
  <2> HIDE DEF Right
  <2>3. \A m \in 0..n : m \in Right
    BY <1>1, <2>1, <2>2, UpwardInduction
  <2> QED
    BY <2>3 DEF Right
<1>17. F \in [0..n -> S]
  BY <1>12, <1>16
<1>18. Validate(t) = F[n].ok
  BY <1>1, ValIsLoop DEF F
<1> QED
  BY <1>14, <1>15, <1>17, <1>18 DEF S

\* With dates it can print, validate finds just the loops.
LEMMA ValidateFindsLoops ==
  ASSUME NEW t, NEW n, Linked(t, n), \A s \in 1..n : Valid(t[s].date)
  PROVE  /\ Validate(t) <=> NoLoops(t)
         /\ Validate(t) \in BOOLEAN
<1>1. /\ n \in Nat /\ Len(t) = n /\ DOMAIN t = 1..n
  BY DEF Linked
<1>2. Current(t) \subseteq 1..n
  BY <1>1 DEF Current, Deltas
<1>3. NoLoops(t) <=> \A s \in Current(t) : Leads(t, n, s)
  BY <1>1 DEF NoLoops, Leads
<1>4. PICK f : /\ f \in [0..n -> Known(n)]
               /\ f[0] = AtFirst
               /\ \A m \in 1..n : f[m] = Looked(t, f[m - 1], n + 1 - m)
               /\ Validate(t) = f[n].ok
  BY ValIs
<1> DEFINE All(m) == \A s \in Current(t) : s > n - m => Leads(t, n, s)
           Right == {m \in 0..n : /\ f[m].ok <=> All(m)
                                  /\ f[m].ok => Remembers(t, n, f[m])}
<1>5. 0 \in Right
  <2>1. f[0].ok /\ Remembers(t, n, f[0])
    BY <1>4 DEF AtFirst, Remembers
  <2>2. All(0)
    BY <1>1, <1>2
  <2> HIDE DEF All
  <2> QED
    BY <1>1, <2>1, <2>2
<1>6. ASSUME NEW m \in 1..n, m - 1 \in Right PROVE m \in Right
  <2> DEFINE s == n + 1 - m
             v == f[m - 1]
             w == CheckLoopFree(t, v, s)
  <2>1. s \in 1..n /\ m \in 0..n /\ m - 1 \in 0..n
    BY <1>1
  <2>2. f[m] = Looked(t, v, s)
    BY <1>4
  <2>3. /\ v.ok <=> All(m - 1)
        /\ v.ok => Remembers(t, n, v)
    BY <1>6
  <2>4. All(m) <=> All(m - 1) /\ (s \in Current(t) => Leads(t, n, s))
    <3>1. ASSUME NEW x \in 1..n PROVE x > n - m <=> x > n - (m - 1) \/ x = s
      BY <1>1
    <3> HIDE DEF s
    <3> QED
      BY <1>2, <3>1
  <2>5. v.ok \in BOOLEAN /\ f[m].ok \in BOOLEAN
    BY <1>4, <2>1 DEF Known
  <2> HIDE DEF All, s, v
  <2>6. CASE v.ok /\ s \in Current(t)
    <3>1. /\ w.ok \in BOOLEAN
          /\ w.ok <=> Leads(t, n, s)
          /\ w.ok => Remembers(t, n, w)
      BY <2>1, <2>3, <2>6, LoopCheckIsRight
    <3>2. w = [ok |-> w.ok, loopfree |-> w.loopfree, seen |-> w.seen]
      BY DEF CheckLoopFree
    <3>3. Valid(t[s].date)
      BY <2>1
    <3>4. f[m] = [w EXCEPT !.ok = @ /\ Valid(t[s].date)]
      BY <2>2, <2>6 DEF Looked
    <3> HIDE DEF w
    <3>5. /\ f[m].ok = (w.ok /\ Valid(t[s].date))
          /\ f[m].loopfree = w.loopfree /\ f[m].seen = w.seen
      BY <3>2, <3>4
    <3>6. f[m].ok <=> w.ok
      BY <3>3, <3>5
    <3>7. Remembers(t, n, w) => Remembers(t, n, f[m])
      BY <3>5 DEF Remembers
    <3> QED
      BY <2>1, <2>3, <2>4, <2>6, <3>1, <3>6, <3>7
  <2>7. CASE ~(v.ok /\ s \in Current(t))
    <3>1. f[m] = v
      BY <2>2, <2>7 DEF Looked
    <3> QED
      BY <2>1, <2>3, <2>4, <2>7, <3>1
  <2> QED
    BY <2>6, <2>7
<1>7. \A m \in 0..n : m \in Right
  <2> HIDE DEF Right
  <2> QED
    BY <1>1, <1>5, <1>6, UpwardInduction
<1>8. f[n].ok <=> All(n)
  <2>1. n \in 0..n
    BY <1>1
  <2> HIDE DEF All
  <2> QED
    BY <1>7, <2>1
<1>9. All(n) <=> \A s \in Current(t) : Leads(t, n, s)
  BY <1>1, <1>2
<1>10. Validate(t) = f[n].ok /\ f[n].ok \in BOOLEAN
  BY <1>1, <1>4 DEF Known
<1> HIDE DEF All
<1> QED
  BY <1>3, <1>8, <1>9, <1>10

\* Where every predecessor is older, every way leads to the root.
LEMMA OlderLeads ==
  ASSUME NEW t, NEW n, Linked(t, n), \A s \in 1..n : t[s].prev \in 0..(s - 1)
  PROVE  \A s \in 0..n : Leads(t, n, s)
<1>1. n \in Nat
  BY DEF Linked
<1> DEFINE Z == {s \in 0..n : ~Leads(t, n, s)}
<1>2. SUFFICES ASSUME Z # {} PROVE FALSE
  OBVIOUS
<1>3. Z \subseteq Nat
  BY <1>1
<1>4. PICK s \in Z : \A x \in Z : s <= x
  <2> HIDE DEF Z
  <2> QED
    BY <1>2, <1>3, LeastNumber
<1>5. s \in 0..n /\ ~Leads(t, n, s)
  OBVIOUS
<1>6. s # 0
  BY <1>5, RootLeads
<1>7. s \in 1..n
  BY <1>1, <1>5, <1>6
<1>8. Back(t, s) \in 0..n /\ Back(t, s) < s
  BY <1>1, <1>7 DEF Back
<1>9. ~Leads(t, n, Back(t, s))
  BY <1>5, LeadsBack
<1>10. Back(t, s) \in Z
  BY <1>8, <1>9
<1> HIDE DEF Z
<1> QED
  BY <1>1, <1>4, <1>5, <1>8, <1>10

\* val (and admin -h) accepts every delta table the program makes, and a table with one
\* predecessor replaced unless a way to the root has become a loop, whatever check_loop_free
\* has remembered from other deltas.
THEOREM ValFindsLoops == Spec => []ValIsExact
<1>1. ASSUME DatesInv PROVE ValIsExact
  <2> DEFINE table == Table
  <2>1. PICK n \in Nat \ {0} :
          /\ Lists(file, n) /\ Lists(made, n)
          /\ \A s \in 1..n : EntryRight(file, made, s)
    BY <1>1 DEF DatesInv
  <2>2. n \in Nat
    OBVIOUS
  <2>3. /\ Lists(table, n)
        /\ \A s \in 1..n :
             table[s] = Entry(file[s].sid, file[s].prev, file[s].type, made[s])
    BY <2>1, <2>2, TableIs
  <2>4. /\ DOMAIN table = 1..n /\ Len(table) = n
        /\ DOMAIN file = 1..n /\ Len(file) = n
        /\ table = [s \in 1..n |-> table[s]]
    BY <2>1, <2>2, <2>3, ListedHas DEF Lists
  <2>5. ASSUME NEW s \in 1..n
        PROVE  /\ table[s].prev \in 0..(s - 1) /\ table[s].prev \in 0..n
               /\ Valid(table[s].date)
    <3>1. Valid(made[s]) /\ file[s].prev \in 0..(s - 1)
      <4>1. made[s] \in Now /\ file[s].prev \in 0..(s - 1)
        BY <2>1 DEF EntryRight
      <4> QED
        BY <4>1, MomentsAre DEF Moment
    <3>2. table[s] = Entry(file[s].sid, file[s].prev, file[s].type, made[s])
      BY <2>3
    <3> HIDE DEF table
    <3>3. table[s].prev = file[s].prev /\ table[s].date = made[s]
      BY <3>2 DEF Entry
    <3> QED
      BY <3>1, <3>3
  <2> HIDE DEF table
  <2>6. Linked(table, n)
    BY <2>2, <2>4, <2>5 DEF Linked
  <2>7. Validate(table)
    <3>1. \A s \in 0..n : Leads(table, n, s)
      BY <2>5, <2>6, OlderLeads
    <3>2. Current(table) \subseteq 0..n
      BY <2>2, <2>4 DEF Current, Deltas
    <3>3. NoLoops(table)
      BY <2>4, <3>1, <3>2 DEF NoLoops, Leads
    <3> QED
      BY <2>5, <2>6, <3>3, ValidateFindsLoops
  <2>8. ASSUME NEW s \in 1..n, NEW p \in 0..n
        PROVE  Validate([table EXCEPT ![s].prev = p]) = NoLoops([table EXCEPT ![s].prev = p])
    <3> DEFINE d == [table EXCEPT ![s].prev = p]
    <3>1. ASSUME NEW x \in 1..n
          PROVE  d[x].prev \in 0..n /\ Valid(d[x].date)
      <4>1. table[s] = Entry(file[s].sid, file[s].prev, file[s].type, made[s])
        BY <2>3 DEF table
      <4>2. CASE x = s
        <5>1. d[x] = [table[s] EXCEPT !.prev = p]
          BY <2>4, <4>2
        <5>2. d[x].prev = p /\ d[x].date = table[s].date
          BY <4>1, <5>1 DEF Entry
        <5> QED
          BY <2>5, <5>2
      <4>3. CASE x # s
        <5>1. d[x] = table[x]
          BY <2>4, <4>3
        <5> QED
          BY <2>5, <5>1
      <4> QED
        BY <4>2, <4>3
    <3>2. DOMAIN d = 1..n
      BY <2>4
    <3>3. d = [x \in 1..n |-> d[x]]
      BY <2>4
    <3> HIDE DEF d
    <3>4. Len(d) = n
      BY <2>2, <3>3, ListedHas DEF Lists
    <3>5. Linked(d, n)
      BY <2>2, <3>1, <3>2, <3>4 DEF Linked
    <3>6. (Validate(d) <=> NoLoops(d)) /\ Validate(d) \in BOOLEAN
      BY <3>1, <3>5, ValidateFindsLoops
    <3>7. NoLoops(d) \in BOOLEAN
      BY DEF NoLoops
    <3> DEFINE a == Validate(d)
               b == NoLoops(d)
    <3> HIDE DEF a, b
    <3>8. (a <=> b) /\ a \in BOOLEAN /\ b \in BOOLEAN
      BY <3>6, <3>7 DEF a, b
    <3>9. a = b
      BY <3>8
    <3>10. Validate(d) = NoLoops(d)
      BY Zenon, <3>9 DEF a, b
    <3> QED
      BY <3>10 DEF d
  <2> QED
    BY <2>4, <2>7, <2>8 DEF ValIsExact, table
<1> QED
  BY <1>1, DatesAlwaysRight, PTL

=============================================================================
