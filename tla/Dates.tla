------------------------------- MODULE Dates -------------------------------
(***************************************************************************)
(* The sccs_date class (src/src/sccsdate.cc).  A date is <<year, month,    *)
(* day, hour, minute, second>>.  In the history file its year has two      *)
(* digits; on the command line any number of fields may be missing.        *)
(***************************************************************************)
EXTENDS Integers, Sequences, FiniteSetsExt
\* Mutant of Y2kWindow: the pivot is 70.
MutantY2kWindow(year) == IF year < 70 THEN 2000 + year ELSE 1900 + year

\* y2k_window: 69 to 99 are in the twentieth century.
Y2kWindow(year) == IF year < 69 THEN 2000 + year ELSE 1900 + year

IsLeapYear(year) == year % 4 = 0 /\ (year % 100 # 0 \/ year % 400 = 0)

DaysInMonth(mon, year) ==
  CASE mon \in {1, 3, 5, 7, 8, 10, 12} -> 31
    [] mon \in {4, 6, 9, 11}           -> 30
    [] mon = 2                         -> IF IsLeapYear(year) THEN 29 ELSE 28
    [] OTHER                           -> -1

\* The date that is not valid: all fields are -1.
NoDate == [i \in 1..6 |-> -1]

Valid(d) ==
  /\ d[1] >= 0
  /\ d[2] \in 1..12
  /\ d[3] \in 1..DaysInMonth(d[2], d[1])
  /\ d[4] \in 0..23 /\ d[5] \in 0..59 /\ d[6] \in 0..61

\* update_yearday
Yearday(d) ==
  LET before[m \in 1..12] == IF m = 1 THEN 0 ELSE before[m - 1] + DaysInMonth(m - 1, d[1])
  IN  before[d[2]] + d[3]

\* One sequence of numbers comes before another of the same length.
Precedes(s, t) ==
  \E i \in DOMAIN s : s[i] < t[i] /\ \A j \in 1..(i - 1) : s[j] = t[j]

\* compare goes by the year, the day of the year, and the time.
Less(d, e) ==
  \/ d[1] < e[1]
  \/ d[1] = e[1] /\ Precedes(<<Yearday(d)>> \o SubSeq(d, 4, 6),
                             <<Yearday(e)>> \o SubSeq(e, 4, 6))
Greater(d, e) == Less(e, d)
NotGreater(d, e) == ~Less(e, d)

-----------------------------------------------------------------------------
(* The command line.  parts are the two-digit numbers of the argument of   *)
(* -c or -r, whatever separates them: at most six, or seven when the       *)
(* century comes first.                                                    *)

\* get_part: the next field, or its default.
GetPart(parts, i, default) == IF i <= Len(parts) THEN parts[i] ELSE default

\* More than twelve digits: the first two are the century.  A field that is missing
\* gets its greatest value.
CommandLineDate(parts) ==
  IF parts = <<>> THEN NoDate
  ELSE LET century == Len(parts) > 6
           p     == IF century THEN Tail(parts) ELSE parts
           year  == IF century THEN 100 * parts[1] + p[1] ELSE Y2kWindow(p[1])
           month == GetPart(p, 2, 12)
       IN  <<year, month, GetPart(p, 3, DaysInMonth(month, year)),
             GetPart(p, 4, 23), GetPart(p, 5, 59), GetPart(p, 6, 59)>>

-----------------------------------------------------------------------------
(* The history file.  There a date is its two-digit year, its other        *)
(* fields, and the century when another SCCS has written four digits (0    *)
(* otherwise).  One that was not ready for the year 2000 has written its   *)
(* tens of years with the character after 9: the year :5 is 105 here.      *)
\* Mutant of PrintDate: the year is written in full.
MutantPrintDate(d) == [century |-> d[1] \div 100, yy |-> d[1] % 100, rest |-> Tail(d)]

\* print and as_string
PrintDate(d) == [century |-> 0, yy |-> d[1] % 100, rest |-> Tail(d)]

\* The constructor for a date of the history file.
FileDate(text) ==
  LET yy == IF text.yy >= 100 THEN text.yy - 100 ELSE text.yy
  IN  <<IF text.century # 0 THEN 100 * text.century + yy ELSE Y2kWindow(yy)>>
      \o text.rest

=============================================================================
