------------------------------ MODULE SeqState ------------------------------
(***************************************************************************)
(* The seq_state class (src/src/seqstate.cc) and the way an sccs_file      *)
(* prepares it for a retrieval (src/src/sf-get.cc, src/src/sf-get3.cc).    *)
(*                                                                         *)
(* A seq_state says of every delta, identified by its sequence number,     *)
(* whether it is included, excluded or ignored, and which ^AI and ^AD      *)
(* brackets of the body are open while the body is read.  The code keeps   *)
(* an array of flag records; here each flag is the set of the sequence     *)
(* numbers that have it.  non_recursive is never read and is left out.     *)
(***************************************************************************)
EXTENDS Naturals, Sequences, FiniteSets

\* seq_state::seq_state: nothing is tagged and no bracket is open.
NewSeqState(last) ==
  [last |-> last, included |-> {}, excluded |-> {}, ignored |-> {},
   explicit |-> {}, inserts |-> {}, deletes |-> {}]

\* set_included, set_excluded and set_ignored, applied to each member of S:
\* setting one of the three flags clears the two others.
SetIncluded(ss, S) ==
  [ss EXCEPT !.included = @ \cup S, !.excluded = @ \ S, !.ignored = @ \ S]
\* Mutant of SetExcluded: the included flag is not cleared.
MutantSetExcluded(ss, S) == [ss EXCEPT !.excluded = @ \cup S, !.ignored = @ \ S]

SetExcluded(ss, S) ==
  [ss EXCEPT !.excluded = @ \cup S, !.included = @ \ S, !.ignored = @ \ S]

SetIgnored(ss, S) ==
  [ss EXCEPT !.ignored = @ \cup S, !.included = @ \ S, !.excluded = @ \ S]

\* set_explicitly_included does nothing to a delta that is already included.
SetExplicitlyIncluded(ss, S) ==
  [SetIncluded(ss, S) EXCEPT !.explicit = @ \cup (S \ ss.included)]

SetExplicitlyExcluded(ss, S) ==
  [SetExcluded(ss, S) EXCEPT !.explicit = @ \cup S]

-----------------------------------------------------------------------------
(* The brackets.                                                           *)
\* Mutant of Unsuperseded: the open deletions are forgotten.
MutantUnsuperseded(ss, i) ==
  i \in ss.inserts \cap ss.included /\ i > 0 /\ \A j \in ss.inserts : j <= i

\* decide_disposition compares the youngest open insertion of an included delta
\* (our_highest_insert) with the youngest open insertion of any other delta
\* (owner_of_current_insertion) and with the youngest open deletion by an included
\* delta (our_highest_delete).  i is our_highest_insert, and neither beats it.
Unsuperseded(ss, i) ==
  /\ i \in ss.inserts \cap ss.included /\ i > 0
  /\ \A j \in ss.inserts : j <= i
  /\ \A d \in ss.deletes \cap ss.included : d <= i

\* include_line: is a body line that is read now part of the version?
IncludeLine(ss) == \E i \in ss.inserts : Unsuperseded(ss, i) /\ i \notin ss.ignored
\* Mutant of ActiveSeq: the outermost open insertion.
MutantActiveSeq(ss) == CHOOSE i \in ss.inserts : \A j \in ss.inserts : i <= j

\* active_: the delta that get -m names beside an included line.
ActiveSeq(ss) == CHOOSE i \in ss.inserts : Unsuperseded(ss, i)

ActiveBrackets(ss) == ss.inserts \cup ss.deletes

\* The diagnostics of start and end: a bracket may be opened only when that
\* delta has none open, and closed only when it has one.
CanStart(ss, seq) == seq <= ss.last /\ seq \notin ActiveBrackets(ss)
CanEnd(ss, seq) == seq <= ss.last /\ seq \in ActiveBrackets(ss)

Start(ss, seq, command) ==
  IF command = "I" THEN [ss EXCEPT !.inserts = @ \cup {seq}]
                   ELSE [ss EXCEPT !.deletes = @ \cup {seq}]

End(ss, seq) == [ss EXCEPT !.inserts = @ \ {seq}, !.deletes = @ \ {seq}]

-----------------------------------------------------------------------------
(* The preparation.  A delta table is the sequence of its deltas by        *)
(* sequence number; a delta has its predecessor prev (0 for none), the     *)
(* deltas it includes, excludes and ignores, and its type: "D", or "R"     *)
(* once rmdel removed it.                                                  *)

Deltas(table) == DOMAIN table
Current(table) == {s \in Deltas(table) : table[s].type = "D"}

\* The three diagnostics of the walk to the root: every predecessor exists and
\* comes earlier.
PredecessorsValid(table, seq) ==
  /\ seq \in Deltas(table)
  /\ \A y \in 1..seq : table[y].prev < y

\* The walk along prev_seq; it ends by including the pseudo-delta 0.
Ancestry(table, seq) ==
  LET anc[y \in 0..seq] ==
        IF y = 0 THEN {0} ELSE {y} \cup anc[table[y].prev]
  IN  anc[seq]
\* Mutant of ApplyInclusions: only the requested delta's own list is applied.
MutantApplyInclusions(ss, table, seq) == SetIncluded(ss, table[seq].incl)

\* "Apply any inclusions": from the youngest delta to the oldest, so the
\* inclusions of a delta that is itself included this way are applied too.
ApplyInclusions(ss, table, seq) ==
  LET upto[y \in 1..(seq + 1)] ==
        IF y = seq + 1 THEN ss
        ELSE LET t == upto[y + 1] IN
             IF y \in t.included THEN SetIncluded(t, table[y].incl \ {y}) ELSE t
  IN  upto[1]
\* "Apply any exclusions": from the oldest delta to the youngest.
ApplyExclusions(ss, table, seq) ==
  LET upto[y \in 0..seq] ==
        IF y = 0 THEN ss
        ELSE LET t == upto[y - 1] IN
             IF y \in t.included THEN SetExcluded(t, table[y].excl \ {y}) ELSE t
  IN  upto[seq]

\* "Apply any ignores": from the youngest to the oldest.
ApplyIgnores(ss, table, seq) ==
  LET upto[y \in 1..(seq + 1)] ==
        IF y = seq + 1 THEN ss
        ELSE LET t == upto[y + 1] IN
             IF y \in t.included THEN SetIgnored(t, table[y].ignd \ {y}) ELSE t
  IN  upto[1]

PrepareSeqstate1(ss, table, seq) ==
  ApplyIgnores(
    ApplyExclusions(
      ApplyInclusions(SetIncluded(ss, Ancestry(table, seq)), table, seq),
      table, seq),
    table, seq)

\* The command line's -i and -x lists, and the deltas newer than a -c cutoff.
\* Only current deltas are considered; an inclusion wins over an exclusion, and
\* both over the cutoff.
PrepareSeqstate2(ss, table, include, exclude, newer) ==
  LET cur == Current(table)
      inc == include \cap cur
      exc == (exclude \cap cur) \ inc
  IN  SetExcluded(
        SetExplicitlyExcluded(SetExplicitlyIncluded(ss, inc), exc),
        (newer \cap cur) \ (inc \cup exc))

PrepareSeqstate(table, seq, include, exclude, newer) ==
  PrepareSeqstate2(PrepareSeqstate1(NewSeqState(Len(table)), table, seq),
                   table, include, exclude, newer)

=============================================================================
