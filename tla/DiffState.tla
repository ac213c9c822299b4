----------------------------- MODULE DiffState -----------------------------
(***************************************************************************)
(* The diff_state class (src/src/diff-state.cc): the reader of the output  *)
(* of diff(1) that delta runs on the d-file (the old version) and the      *)
(* g-file (the new one).                                                   *)
(*                                                                         *)
(* diff is an external program.  Its normal output is modelled as a        *)
(* sequence of lines: the header of a hunk, a deleted line "<", the        *)
(* separator "---", an inserted line ">" with its text, and the remark     *)
(* "\" that the file has no newline at its end.                            *)
(***************************************************************************)
EXTENDS Integers, Sequences, SequencesExt

(* What diff prints for an edit script.  A script over an old file of m    *)
(* lines says which lines are deleted and which lines are inserted before  *)
(* old line j (j = m + 1 is the end).  diff prints the deletions of a hunk *)
(* before its insertions, so nothing is inserted before a deleted line.    *)

ScriptOK(script, m) ==
  /\ script.del \subseteq 1..m
  /\ \A j \in 1..(m + 1) : script.ins[j] # <<>> => j \notin script.del

\* The new file the script makes of an old one, up to what comes before old line
\* j + 1.
Patched(old, script) ==
  LET new[j \in 0..(Len(old) + 1)] ==
        IF j = 0 THEN <<>>
        ELSE new[j - 1] \o script.ins[j]
             \o (IF j <= Len(old) /\ j \notin script.del THEN <<old[j]>> ELSE <<>>)
  IN  new

Patch(old, script) == Patched(old, script)[Len(old) + 1]

\* Old line j is the place of a hunk when text is inserted there or a run of
\* deletions ends just before it.
HunkAt(script, j) ==
  /\ j \notin script.del
  /\ script.ins[j] # <<>> \/ (j - 1) \in script.del

\* The first line of the run of deletions that ends before j.
RunStart(script, j) ==
  Min({i \in 1..j : \A k \in i..(j - 1) : k \in script.del})

\* right is the number of lines of the new file that come from before old line j.
Hunk(script, j, right) ==
  LET first == RunStart(script, j)
      dels  == j - first
      text  == script.ins[j]
      op    == IF dels = 0 THEN "a" ELSE IF text = <<>> THEN "d" ELSE "c"
  IN  << [k |-> "hunk", op |-> op,
          line1 |-> IF op = "a" THEN j - 1 ELSE first,
          line2 |-> j - 1,
          line3 |-> IF op = "d" THEN right ELSE right + 1,
          line4 |-> IF op = "d" THEN right ELSE right + Len(text)] >>
      \o [i \in 1..dels |-> [k |-> "<"]]
      \o (IF op = "c" THEN <<[k |-> "---"]>> ELSE <<>>)
      \o [i \in 1..Len(text) |-> [k |-> ">", text |-> text[i]]]

\* noeol: the new file ends without a newline (diff says so after its last line).
DiffOutput(old, script, noeol) ==
  LET m   == Len(old)
      new == Patched(old, script)
      upto[j \in 0..(m + 1)] ==
        IF j = 0 THEN <<>>
        ELSE upto[j - 1]
             \o (IF HunkAt(script, j) THEN Hunk(script, j, Len(new[j - 1])) ELSE <<>>)
  IN  upto[m + 1] \o (IF noeol /\ script.ins[m + 1] # <<>> THEN <<[k |-> "\\"]>> ELSE <<>>)

-----------------------------------------------------------------------------
(* The reader.  pos is the line of the output that linebuf_ holds; control *)
(* is what the last call of process printed to the new body.               *)

NewDiffState ==
  [state |-> "START", in_lineno |-> 0, out_lineno |-> 0,
   lines_left |-> 0, change_left |-> 0, pos |-> 0, ok |-> TRUE,
   control |-> <<>>]

AtEOF(ds, diff) == ds.pos >= Len(diff)
NextLineIs(ds, diff, k) == ~AtEOF(ds, diff) /\ diff[ds.pos + 1].k = k

\* diff_output_corrupt: the program stops.
DiffCorrupt(ds) == [ds EXCEPT !.ok = FALSE]
\* Mutant of LinesUntilHunk: an "a" hunk is treated like the others.
MutantLinesUntilHunk(ds, h) == h.line1 - ds.in_lineno

\* A hunk header in linebuf_ that has not been reached yet: the lines up to it
\* are unchanged.
LinesUntilHunk(ds, h) ==
  IF h.op = "a" THEN h.line1 - ds.in_lineno + 1 ELSE h.line1 - ds.in_lineno

HunkReached(ds, h) ==
  /\ LinesUntilHunk(ds, h) = 0
  /\ h.line3 = (IF h.op = "d" THEN ds.out_lineno ELSE ds.out_lineno + 1)

EnterHunk(ds, h) ==
  IF LinesUntilHunk(ds, h) > 0
  THEN [ds EXCEPT !.state = "NOCHANGE", !.lines_left = LinesUntilHunk(ds, h)]
  ELSE IF ~HunkReached(ds, h) THEN DiffCorrupt(ds)
  ELSE IF h.op = "a"
  THEN [ds EXCEPT !.state = "INSERT", !.lines_left = h.line4 - h.line3 + 1]
  ELSE [ds EXCEPT !.state = "DELETE", !.lines_left = h.line2 - h.line1 + 1,
                  !.change_left = IF h.op = "c" THEN h.line4 - h.line3 + 1 ELSE @]

\* diff_state::next_state.
NextState(ds, diff) ==
  IF ds.state = "DELETE" /\ ds.change_left # 0
  THEN IF NextLineIs(ds, diff, "---")
       THEN [ds EXCEPT !.state = "INSERT", !.lines_left = ds.change_left,
                       !.change_left = 0, !.pos = @ + 1]
       ELSE DiffCorrupt(ds)
  ELSE IF ds.state = "NOCHANGE" THEN EnterHunk(ds, diff[ds.pos])
  ELSE IF AtEOF(ds, diff) THEN [ds EXCEPT !.state = "END"]
  ELSE IF NextLineIs(ds, diff, "\\")
  THEN IF ds.pos + 1 = Len(diff)
       THEN [ds EXCEPT !.state = "END", !.pos = @ + 1]
       ELSE DiffCorrupt(ds)
  ELSE IF NextLineIs(ds, diff, "hunk")
  THEN EnterHunk([ds EXCEPT !.pos = @ + 1], diff[ds.pos + 1])
  ELSE DiffCorrupt(ds)

Bracket(ds) ==
  CASE ds.state = "INSERT" -> <<"I">>
    [] ds.state = "DELETE" -> <<"D">>
    [] OTHER -> <<>>

\* The part of process that prints brackets when the current run is used up.
TurnOver(ds, diff) ==
  LET close == IF ds.state \in {"DELETE", "INSERT"} THEN <<"E">> ELSE <<>>
      next  == NextState(ds, diff)
  IN  [next EXCEPT !.control = close \o Bracket(next)]

\* diff_state::process: what is to be done with the next line.
Process(ds, diff) ==
  LET a == [ds EXCEPT !.control = <<>>,
                      !.in_lineno = IF ds.state # "INSERT" THEN @ + 1 ELSE @]
      b == IF a.state = "END" THEN a
           ELSE LET t == IF a.lines_left = 0 THEN TurnOver(a, diff) ELSE a
                IN  [t EXCEPT !.lines_left = @ - 1]
  IN  IF ~b.ok THEN b
      ELSE CASE b.state = "DELETE" ->
                  IF NextLineIs(b, diff, "<") THEN [b EXCEPT !.pos = @ + 1]
                  ELSE DiffCorrupt(b)
             [] b.state = "INSERT" ->
                  IF NextLineIs(b, diff, ">")
                  THEN [b EXCEPT !.pos = @ + 1, !.out_lineno = @ + 1]
                  ELSE DiffCorrupt(b)
             [] OTHER -> [b EXCEPT !.out_lineno = @ + 1]

\* get_insert_line, once process has answered INSERT.
InsertLine(ds, diff) == diff[ds.pos].text

=============================================================================
