------------------------------ MODULE History ------------------------------
(***************************************************************************)
(* The delta table over the years: when its deltas were made, and what get *)
(* -c, prs, prt and val make of it.  Every command reads the whole table   *)
(* from the file and an update writes the whole of it back, so a date goes *)
(* through its printed form, with a year of two digits, again and again.   *)
(*                                                                         *)
(* A check-in is get -e and delta together (module EditProtocol has them   *)
(* step by step).  An entry of the table is as in module Sid, with the     *)
(* date of the delta; its place in the table is its sequence number.       *)
(***************************************************************************)
EXTENDS Reports, SidLists, Val

CONSTANTS
  Instants,   \* the moments at which deltas may be made, in their order
  MaxDeltas,  \* bound on the length of the delta table
  Forms       \* who may have written the first entry: "cssc", or another SCCS that
              \* writes a year as "four" digits or with a "colon"

ASSUME HistoryAssumption ==
  /\ Instants \in Seq({d \in Seq(Int) : Len(d) = 6})
  /\ \A i \in DOMAIN Instants : Valid(Instants[i]) /\ Instants[i][1] \in 1969..2068
  /\ \A i, j \in DOMAIN Instants : i < j => Precedes(Instants[i], Instants[j])
  /\ MaxDeltas \in Nat
  /\ Forms \subseteq {"cssc", "four", "colon"}

VARIABLES
  file,   \* the delta table in the history file
  made    \* when each delta was made (what the file should say)

vars == <<file, made>>

\* sccs_date::now: the local time, which may also have been put back.
Now == ToSet(Instants)

\* read_delta and write_delta, as far as the date is concerned.
Read(f) == [s \in DOMAIN f |-> [f[s] EXCEPT !.date = FileDate(@)]]
Write(t) == [s \in DOMAIN t |-> [t[s] EXCEPT !.date = PrintDate(@)]]
Table == Read(file)

HistoryFlags ==
  [joint |-> FALSE, branch |-> FALSE, default |-> NullSid, allLocked |-> FALSE,
   floor |-> 0, ceiling |-> 0, locked |-> {}]

\* The first entry as that SCCS writes it; the years of the "colon" kind are counted
\* from 1900.
WrittenBy(form, d) ==
  CASE form = "cssc"  -> PrintDate(d)
    [] form = "four"  -> [PrintDate(d) EXCEPT !.century = d[1] \div 100]
    [] form = "colon" -> [PrintDate(d) EXCEPT !.yy = d[1] - 1900]

Init ==
  \E form \in Forms, now \in Now :
    /\ file = <<[sid |-> <<1, 1, 0, 0>>, prev |-> 0, type |-> "D",
                 date |-> WrittenBy(form, now)]>>
    /\ made = <<now>>

\* A new delta from the current delta s: a branch, where s has a successor.
CheckIn(s, now) ==
  LET got  == Table[s].sid
      next == FindNextSid(Table, {}, got, got, FALSE, HistoryFlags).next
  IN  /\ Len(file) < MaxDeltas
      /\ s \in CurrentDeltas(Table)
      /\ file' = Write(Append(Table, [sid |-> next, prev |-> s, type |-> "D", date |-> now]))
      /\ made' = Append(made, now)

\* rmdel, where sccs_file::rmdel allows it.
RemoveDelta(s) ==
  /\ s \in CurrentDeltas(Table)
  /\ \A t \in CurrentDeltas(Table) : Table[t].prev # s
  /\ file' = Write([Table EXCEPT ![s].type = "R"])
  /\ UNCHANGED made

Next ==
  \E s \in DOMAIN file :
    \/ \E now \in Now : CheckIn(s, now)
    \/ RemoveDelta(s)

Spec == Init /\ [][Next]_vars

-----------------------------------------------------------------------------
\* The deltas that get -c leaves out: prepare_seqstate_2.
Newer(table, cutoff) ==
  {s \in CurrentDeltas(table) : Valid(cutoff) /\ Greater(table[s].date, cutoff)}

\* The cutoffs a user may give for a moment or for the year, month, day, hour or minute
\* it is in: the argument is the first n fields, n < 7, or all of them with the century.
Cutoffs ==
  {[period |-> SubSeq(d, 1, Min({n, 6})),
    date   |-> LET short == <<d[1] % 100>> \o Tail(d)
               IN  CommandLineDate(IF n = 7 THEN <<d[1] \div 100>> \o short
                                   ELSE SubSeq(short, 1, n))]
     : d \in Now, n \in 1..7}

\* The dates of the table are in the order of the table.
InOrder(table) ==
  \A s, t \in DOMAIN table : s < t => NotGreater(table[s].date, table[t].date)

-----------------------------------------------------------------------------
(* Properties.                                                             *)

\* Type correctness.  A file that CSSC has rewritten has the common form of the dates,
\* whoever wrote it first (docs/cssc.texi: CSSC "will fix this problem when re-writing
\* the file").
TypeOK ==
  /\ Len(made) = Len(file)
  /\ \A s \in DOMAIN file :
       /\ file[s].prev \in 0..(s - 1)
       /\ file[s].type \in {"D", "R"}
       /\ Len(file) > 1 => file[s].date.century = 0 /\ file[s].date.yy \in 0..99

\* A cutoff that names a year, month, day, hour, minute or second leaves out exactly
\* the deltas made after the end of that period, by the calendar, whatever the century,
\* the leap year, and the number of times the file has been rewritten.
CutoffSelectsPeriod ==
  LET table == Table IN
  \A c \in Cutoffs :
    Newer(table, c.date) =
      {s \in CurrentDeltas(table) : Precedes(c.period, SubSeq(made[s], 1, Len(c.period)))}

\* prs -l and prs -e divide the history: at a SID, which both of them report; and at a
\* moment, whose deltas both of them report, provided that the clock was not put back
\* (prs -l stops at the first delta that is too old).  prt -c and prt -r divide it in the
\* same way, whatever the clock did; and with no option everything is reported.
ReportsSplitHistory ==
  LET table == Table IN
  \A all \in BOOLEAN :
    LET list == Listing(table, all)
        Later(rid, d)   == Prs(table, all, "later", FALSE, rid, d)
        Earlier(rid, d) == Prs(table, all, "earlier", FALSE, rid, d)
    IN
    /\ list = Prs(table, all, "sidonly", TRUE, NullSid, NoDate)
    /\ list = Prt(table, all, NoCutoff)
    /\ \A s \in list :
         LET rid == table[s].sid IN
         /\ Later(rid, NoDate) \cup Earlier(rid, NoDate) = list
         /\ \E t \in list :
              /\ table[t].sid = rid
              /\ Later(rid, NoDate) \cap Earlier(rid, NoDate) = {t}
              /\ Prs(table, all, "sidonly", FALSE, rid, NoDate) = {t}
              /\ \A l \in Later(rid, NoDate), e \in Earlier(rid, NoDate) : e <= t /\ t <= l
    /\ \A d \in Now :
         LET at    == {s \in list : made[s] = d}
             after == {s \in list : Precedes(d, made[s])}
         IN  /\ Earlier(NullSid, d) = list \ after
             /\ Later(NullSid, d) \subseteq at \cup after
             /\ InOrder(table) => Later(NullSid, d) = at \cup after
             /\ Prt(table, all, OptionR(NoCutoff, d)) = Earlier(NullSid, d)
             /\ Prt(table, all, OptionC(NoCutoff, d)) = at \cup after

\* docs/cssc.texi on prt -y: "the SID selected by this option will be the last one
\* printed", after all the younger ones.  (Not so if a younger one was made in the
\* same second, or the clock was put back: prt compares the dates only.)
PrtEndsAtSid ==
  LET table == Table IN
  \A all \in BOOLEAN : \A s \in CurrentDeltas(table) :
    (\A t \in DOMAIN made : t > s => Precedes(made[s], made[t])) =>
      LET younger == {t \in Listing(table, all) : t >= s} IN
      /\ Prt(table, all, OptionY(NoCutoff, table[s].sid)) = younger
      /\ InOrder(table) /\ (\A t \in CurrentDeltas(table) : t <= s) =>
           Prt(table, all, OptionY(NoCutoff, NullSid)) = younger

\* val accepts every delta table the program makes, and its search for loops is exact:
\* with any one predecessor of such a table replaced, it complains just when some way to
\* the root has become a loop, whatever it has remembered from other deltas (checked
\* at one date).
ValIsExact ==
  LET table == Table IN
  /\ Validate(table)
  /\ ToSet(made) = {Instants[1]} =>
       \A s \in DOMAIN file, p \in 0..Len(file) :
         LET damaged == [table EXCEPT ![s].prev = p]
         IN  Validate(damaged) = NoLoops(damaged)

\* A list for -i or -x means the same in get, in the p-file and in delta, and means
\* the ranges the user gave, however they overlap and in whatever order they stand
\* (range_list::clean; the dates do not matter, so it is checked at one of them).
Ranges(S) == [from : S, to : S]
Near(S) == S \cup {Increment(id) : id \in S}
ListsDenoteRanges ==
  ToSet(made) = {Instants[1]} =>
    LET S == CurrentSids(Table) IN
    /\ \A r1, r2, r3 \in Ranges(S) : Denotes(<<r1, r2, r3>>, S)
    /\ \A r1, r2 \in Ranges(Near(S)) : Denotes(<<r1, r2>>, Near(S))

=============================================================================
