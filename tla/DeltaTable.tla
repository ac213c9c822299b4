----------------------------- MODULE DeltaTable -----------------------------
(***************************************************************************)
(* An entry of the delta table on its way through the history file:        *)
(* sccs_file::write_delta and sccs_file_parser::read_delta.  The file is   *)
(* read anew by every command, so what a command finds in the table is     *)
(* what the last one wrote.  The SID, the date, the user, the MRs and the  *)
(* comments of an entry are left out here.                                 *)
(***************************************************************************)
EXTENDS Integers, SequencesExt

NewDelta(prev, incl, excl, inserted, deleted, unchanged) ==
  [type |-> "D", prev |-> prev, incl |-> incl, excl |-> excl, ignd |-> {},
   inserted |-> inserted, deleted |-> deleted, unchanged |-> unchanged]

\* cap5: a count has five digits.
Cap5(n) == IF n > 99999 THEN 99999 ELSE n

\* print_seqs: a list that is empty has no line.
PrintSeqs(letter, seqs) == IF seqs = {} THEN <<>> ELSE <<[k |-> letter, seqs |-> seqs]>>

WriteDelta(d) ==
  <<[k |-> "s", inserted |-> Cap5(d.inserted), deleted |-> Cap5(d.deleted),
     unchanged |-> Cap5(d.unchanged)],
    [k |-> "d", type |-> d.type, prev |-> d.prev]>>
  \o PrintSeqs("i", d.incl) \o PrintSeqs("x", d.excl) \o PrintSeqs("g", d.ignd)
  \o <<[k |-> "e"]>>

\* The loop over "ixg": each list is read when its line is the next one.
ReadList(r, letter) ==
  IF Head(r.rest).k = letter
  THEN [r EXCEPT ![letter] = Head(r.rest).seqs, !.rest = Tail(@)]
  ELSE r

\* The file is corrupt when the lists are not followed by the end of the entry.
ReadDelta(lines) ==
  LET none == [i |-> {}, x |-> {}, g |-> {}, rest |-> SubSeq(lines, 3, Len(lines))]
      r    == ReadList(ReadList(ReadList(none, "i"), "x"), "g")
  IN  [type |-> IF Head(r.rest).k = "e" THEN lines[2].type ELSE "corrupt",
       prev |-> lines[2].prev, incl |-> r.i, excl |-> r.x, ignd |-> r.g,
       inserted |-> lines[1].inserted, deleted |-> lines[1].deleted,
       unchanged |-> lines[1].unchanged]

\* The table as the next command has it.
Reread(table) == [s \in DOMAIN table |-> ReadDelta(WriteDelta(table[s]))]

=============================================================================
