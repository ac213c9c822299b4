------------------------------ MODULE SidLists ------------------------------
(***************************************************************************)
(* The lists of SIDs that get -i and get -x take: range_list<sid> in       *)
(* src/src/sid_list.h.  A list is a sequence of ranges, its head first.    *)
(* get writes the list into the p-file, and delta reads it from there.     *)
(***************************************************************************)
EXTENDS Sid, SequencesExt

\* sid::comparable, gt, < and <=.  SIDs of different branches are not comparable.
Comparable(a, b) ==
  /\ ~IsNull(a) /\ ~IsNull(b)
  /\ a[3] = b[3]
  /\ a[3] = 0 \/ a[1] = b[1] \/ a[2] = b[2]
Gt(a, b) == Gte(a, b) /\ <<a[1], a[2], a[4]>> # <<b[1], b[2], b[4]>>
Before(a, b) == Comparable(a, b) /\ ~Gte(a, b)
NotAfter(a, b) == Comparable(a, b) /\ ~Gt(a, b)

\* sid::operator--.
Decrement(id) ==
  CASE id[3] # 0               -> [id EXCEPT ![4] = @ - 1]
    [] id[3] = 0 /\ id[2] # 0  -> [id EXCEPT ![2] = @ - 1]
    [] id[3] = 0 /\ id[2] = 0  -> [id EXCEPT ![1] = @ - 1]

InRange(r, id) == NotAfter(r.from, id) /\ NotAfter(id, r.to)
Member(list, id) == \E i \in DOMAIN list : InRange(list[i], id)
\* Mutant of Absorb: the end of the range that is merged is lost.
MutantAbsorb(m, dp) ==
  IF m.merging /\ NotAfter(dp.from, Increment(m.range.to))
  THEN [m EXCEPT !.range.from = IF Before(dp.from, @) THEN dp.from ELSE @]
  ELSE [m EXCEPT !.merging = FALSE, !.rest = Append(@, dp)]

\* While the new range touches the next one of the list, that one is merged into it.
Absorb(m, dp) ==
  IF m.merging /\ NotAfter(dp.from, Increment(m.range.to))
  THEN [m EXCEPT !.range.to = IF Before(@, dp.to) THEN dp.to ELSE @,
                 !.range.from = IF Before(dp.from, @) THEN dp.from ELSE @]
  ELSE [m EXCEPT !.merging = FALSE, !.rest = Append(@, dp)]

\* The loop of clean: the ranges that end well before the new one are passed by, and
\* the new one is put after them.
Insert(list, sp) ==
  LET passed == Max({k \in 0..Len(list) :
                       \A i \in 1..k : Before(list[i].to, Decrement(sp.from))})
      m == FoldLeft(Absorb, [range |-> sp, merging |-> TRUE, rest |-> <<>>],
                    SubSeq(list, passed + 1, Len(list)))
  IN  SubSeq(list, 1, passed) \o <<m.range>> \o m.rest

ValidRange(r) == NotAfter(r.from, r.to)

\* The constructor from a string: each item becomes the head; clean takes the list from
\* its head on.  One bad range makes the list invalid, and get refuses it.
ListOf(items) ==
  [ok   |-> \A i \in DOMAIN items : ValidRange(items[i]),
   list |-> FoldLeft(Insert, <<>>, SelectSeq(Reverse(items), ValidRange))]

\* What delta reads from the p-file is what get has printed there: the ranges in the
\* order of the list.
ReadBack(list) == ListOf(list)

\* The list means what was asked for, in get and in delta: a SID of S is a member when
\* it is in one of the ranges the user gave.
Denotes(items, S) ==
  LET got == ListOf(items)
      read == ReadBack(got.list)
  IN  got.ok =>
        /\ read.ok
        /\ \A id \in S :
             /\ Member(got.list, id) <=> \E i \in DOMAIN items : InRange(items[i], id)
             /\ Member(read.list, id) <=> Member(got.list, id)

=============================================================================
