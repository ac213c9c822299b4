------------------------------ MODULE Reports ------------------------------
(***************************************************************************)
(* Which deltas prs and prt report on (src/src/sf-prs.cc,                  *)
(* src/src/sf-prt.cc).  The order is always that of the file, youngest     *)
(* first, so a report is the set of its deltas; what is printed of each is *)
(* formatting.  An entry of the table has its SID, its type and its date;  *)
(* a missing SID is NullSid and a missing cutoff NoDate.                   *)
(***************************************************************************)
EXTENDS Sid, Dates, SequencesExt

\* const_delta_iterator: the current deltas, or (-a) all.
Listing(table, all) == IF all THEN DOMAIN table ELSE CurrentDeltas(table)

\* A loop over a listing that stops before the first delta of S it meets, or after it;
\* and one that passes over everything until it meets one.
BeforeFirst(list, S) == {s \in list : \A t \in list \cap S : t < s}
UpToFirst(list, S)   == {s \in list : \A t \in list \cap S : t <= s}
FromFirst(list, S)   == {s \in list : \E t \in list \cap S : s <= t}

-----------------------------------------------------------------------------
(* prs                                                                     *)

\* The deltas of that SID: none for a missing one.
Named(table, rid) == {s \in DOMAIN table : ~IsNull(rid) /\ table[s].sid = rid}

\* The deltas on which the loops for -e and without -e and -l wait.
Awaited(table, rid) == IF IsNull(rid) THEN DOMAIN table ELSE Named(table, rid)

\* Without -e and -l: the delta of that SID, or the youngest.
PrsSidOnly(table, all, rid) ==
  LET list == Listing(table, all)
  IN  FromFirst(list, Awaited(table, rid)) \cap UpToFirst(list, Awaited(table, rid))

\* -l: it stops before the first delta that is older than the cutoff, and after the
\* delta that is named.
Older(table, cutoff) == {s \in DOMAIN table : Valid(cutoff) /\ Less(table[s].date, cutoff)}
\* Mutant of PrsLater: the delta that is named is left out.
MutantPrsLater(table, all, rid, cutoff) ==
  LET list == Listing(table, all)
  IN  BeforeFirst(list, Older(table, cutoff)) \cap BeforeFirst(list, Named(table, rid))

PrsLater(table, all, rid, cutoff) ==
  LET list == Listing(table, all)
  IN  BeforeFirst(list, Older(table, cutoff)) \cap UpToFirst(list, Named(table, rid))

\* -e, and the default: from the delta that is named, the ones not younger than the
\* cutoff.  The delta that is named counts as found only if it passes the cutoff too.
PrsEarlier(table, all, rid, cutoff) ==
  LET intime == {s \in DOMAIN table : Valid(cutoff) => ~Less(cutoff, table[s].date)}
  IN  FromFirst(Listing(table, all), intime \cap Awaited(table, rid)) \cap intime

\* What prs reports on, by its options: when is "earlier" (-e), "later" (-l) or
\* "sidonly"; bare says that there is no -d, -D and -r either, and then everything is
\* reported.  -c without -e and -l is refused.
Prs(table, all, when, bare, rid, cutoff) ==
  CASE when = "later"                                      -> PrsLater(table, all, rid, cutoff)
    [] when = "earlier"                                    -> PrsEarlier(table, all, rid, cutoff)
    [] when = "sidonly" /\ Valid(cutoff)                   -> {}
    [] when = "sidonly" /\ ~Valid(cutoff) /\ bare          -> PrsEarlier(table, all, rid, cutoff)
    [] when = "sidonly" /\ ~Valid(cutoff) /\ ~bare         -> PrsSidOnly(table, all, rid)

-----------------------------------------------------------------------------
(* prt                                                                     *)

\* sccs_file::cutoff: first_accepted (-c), last_accepted (-r), cutoff_sid (-y) and
\* most_recent_sid_only (-y without a SID).
NoCutoff == [first |-> NoDate, last |-> NoDate, sid |-> NullSid, mostRecent |-> FALSE]

\* The options -y, with a SID or without, -c and -r; the last two exclude each other.
OptionY(c, rid) ==
  IF IsNull(rid) THEN [c EXCEPT !.mostRecent = TRUE]
  ELSE [c EXCEPT !.sid = rid, !.mostRecent = FALSE]
OptionC(c, d) == [c EXCEPT !.first = d]
OptionR(c, d) == [c EXCEPT !.last = d]

\* find_most_recent_sid: the youngest current delta; of several with that date the one
\* that comes first in the file.
MostRecent(table) ==
  LET S == CurrentDeltas(table)
  IN  Max({s \in S : \A t \in S : ~Greater(table[t].date, table[s].date)})

\* What prt makes of the options before it looks at a delta.  The date of the most
\* recent delta replaces that of -c.
PrepareCutoff(table, c) ==
  CASE ~c.mostRecent -> c
    [] c.mostRecent /\ CurrentDeltas(table) = {} -> [c EXCEPT !.sid = NullSid, !.first = NoDate]
    [] c.mostRecent /\ CurrentDeltas(table) # {} ->
         [c EXCEPT !.sid = table[MostRecent(table)].sid, !.first = table[MostRecent(table)].date]

\* excludes_delta, and whether it sets stop_now.
Excludes(c, d) ==
  \/ Valid(c.first) /\ Less(d, c.first)
  \/ Valid(c.last) /\ Greater(d, c.last)
ExcludesDelta(c, limit, d) == Excludes(c, d) \/ (Valid(limit) /\ Less(d, limit))
\* Mutant of StopsAt: it goes on after the delta that is named.
MutantStopsAt(c, limit, d) == ~Excludes(c, d) /\ Valid(limit) /\ Less(d, limit)

StopsAt(c, limit, d) == ~Excludes(c, d) /\ Valid(limit) /\ NotGreater(d, limit)

\* The loop of prt over the delta table.
Prt(table, all, options) ==
  LET c == PrepareCutoff(table, options)
      named == IF IsNull(c.sid) THEN 0 ELSE FindDelta(table, c.sid)
      limit == IF named = 0 THEN NoDate ELSE table[named].date
      list == Listing(table, all)
  IN  UpToFirst(list, {s \in list : StopsAt(c, limit, table[s].date)})
        \cap {s \in list : ~ExcludesDelta(c, limit, table[s].date)}

=============================================================================
