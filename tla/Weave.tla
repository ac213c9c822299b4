------------------------------- MODULE Weave -------------------------------
(***************************************************************************)
(* The body of a history file, and the operations that read and change it: *)
(* get (sccs_file_body_scanner::get), delta (sccs_file::add_delta and      *)
(* sccs_file_body_scanner::delta) and rmdel (sccs_file::rmdel and          *)
(* sccs_file_body_scanner::remove).                                        *)
(*                                                                         *)
(* The body interleaves the text of every version: a line of text is       *)
(* enclosed in brackets ^AI n ... ^AE n, "inserted by delta n", and        *)
(* possibly in brackets ^AD n ... ^AE n, "deleted by delta n".  delta      *)
(* copies the old body line by line, adding the brackets of the new delta. *)
(* Whoever runs these operations holds the lock, so they do not overlap.   *)
(***************************************************************************)
EXTENDS SeqState, DiffState, DeltaTable

CONSTANTS
  MaxDeltas,      \* bound on the number of deltas in the table
  MaxHunkText,    \* bound on the number of lines one delta inserts
  MaxListed,      \* bound on the number of deltas the -i and -x lists name
  Uses            \* the ways in which the file may be used; in each of them:
                  \*   lines    number of lines of the first version
                  \*   nulls    bound on the automatic null deltas of one check-in
                  \*            (0: flag n off)
                  \*   lists    the -i and -x lists given to get -e: "none",
                  \*            "disciplined", "include" (only -i) or "any"
                  \*   removal  may rmdel be run?
                  \*   noeol    may the g-file lack its final newline?

ASSUME WeaveAssumption ==
  /\ {MaxHunkText, MaxListed} \subseteq Nat
  /\ MaxDeltas \in Nat \ {0}
  /\ Uses \subseteq [lines : Nat, nulls : Nat, removal : BOOLEAN, noeol : BOOLEAN,
                    lists : {"none", "disciplined", "include", "any"}]

VARIABLES
  table,      \* the delta table: sequence number -> delta
  body,       \* the lines of the body
  scan,       \* the check-in in progress
  checkedIn,  \* history variable: the text that was checked in as each delta
  use         \* the way this file is used

vars == <<table, body, scan, checkedIn, use>>

-----------------------------------------------------------------------------
(* Lines.  Every inserted line of text is distinct: <<n, k>> is the k-th   *)
(* line inserted by delta n.                                               *)

Text(t) == [k |-> "text", text |-> t]
Control(letter, n) == [k |-> letter, seq |-> n]
IsControl(line) == line.k \in {"I", "D", "E"}

NewText(n, count) == [k \in 1..count |-> <<n, k>>]

-----------------------------------------------------------------------------
(* get.                                                                    *)

\* What start and end answer to a control line, highest being the youngest
\* delta of the table.
BracketOK(ss, line, highest) ==
  /\ line.seq \in 1..highest
  /\ IF line.k = "E" THEN CanEnd(ss, line.seq) ELSE CanStart(ss, line.seq)

Follow(ss, line) ==
  IF line.k = "E" THEN End(ss, line.seq) ELSE Start(ss, line.seq, line.k)

\* One line read by sccs_file_body_scanner::get.  ok is FALSE once the file has
\* been found corrupt; who is the column that get -m prints.
GetLine(g, line, highest) ==
  CASE ~g.ok -> g
    [] g.ok /\ IsControl(line) ->
         IF BracketOK(g.ss, line, highest) THEN [g EXCEPT !.ss = Follow(@, line)]
         ELSE [g EXCEPT !.ok = FALSE]
    [] g.ok /\ ~IsControl(line) ->
         IF IncludeLine(g.ss)
         THEN [g EXCEPT !.out = Append(@, line.text),
                        !.who = Append(@, ActiveSeq(g.ss))]
         ELSE g

GetBody(lines, ss, highest) ==
  LET upto[i \in 0..Len(lines)] ==
        IF i = 0
        THEN [ss |-> ss, out |-> <<>>, who |-> <<>>,
              ok |-> lines # <<>> /\ lines[1].k = "I"]
        ELSE GetLine(upto[i - 1], lines[i], highest)
  IN  upto[Len(lines)]

\* get of delta seq with the lists and the cutoff of the command line.
Get(seq, include, exclude, newer) ==
  GetBody(body, PrepareSeqstate(table, seq, include, exclude, newer), Len(table))

\* The delta whose keywords get substitutes (dparm): the youngest delta, not after
\* the requested one, that is not excluded.  It is looked up again by its SID, and
\* a removed delta is not found: 0 is the null pointer.
KeywordDelta(ss, seq) ==
  LET S == {s \in 1..seq : s \notin ss.excluded}
  IN  IF S = {} THEN seq
      ELSE IF Max(S) \in Current(table) THEN Max(S) ELSE 0

-----------------------------------------------------------------------------
(* delta.                                                                  *)

Idle == [pc |-> "idle"]

\* All the edit scripts over an old file of m lines in which delta n inserts
\* between 0 and MaxHunkText lines, all in one place.
Scripts(n, m) ==
  {s \in [del : SUBSET (1..m),
          ins : {[j \in 1..(m + 1) |-> IF j = at THEN NewText(n, c) ELSE <<>>] :
                   at \in 1..(m + 1), c \in 0..MaxHunkText}] :
     ScriptOK(s, m)}

\* sccs_file::add_delta up to the call of the body scanner: the version to
\* compare with is retrieved into the d-file, the deltas included and excluded
\* are noted, and diff is run on the d-file and the g-file.
BeginDelta(pred, include, exclude, nulls) ==
  LET ss   == PrepareSeqstate(table, pred, include, exclude, {})
      got  == GetBody(body, ss, Len(table))
      cur  == Current(table)
      tags == ss.explicit \cap (1..(Len(table) - 1))
      new  == Len(table) + nulls + 1
  IN
  /\ new <= MaxDeltas
  /\ pred \in Current(table)
  /\ PredecessorsValid(table, pred)
  /\ got.ok
  /\ \E script \in Scripts(new, Len(got.out)), noeol \in {FALSE, use.noeol} :
       scan' = [pc |-> "scan", pos |-> 1, ss |-> ss, ds |-> NewDiffState,
                diff |-> DiffOutput(got.out, script, noeol),
                out |-> <<>>, inserted |-> 0, deleted |-> 0, unchanged |-> 0,
                gfile |-> Patch(got.out, script),
                seq |-> new, pred |-> pred, nulls |-> nulls,
                incl |-> (tags \cap ss.included) \cup (include \cap cur),
                excl |-> (tags \cap ss.excluded) \cup (exclude \cap cur)]
  /\ UNCHANGED <<table, body, checkedIn, use>>

\* sccs_file_body_scanner::delta, a line of the old body at a time.
Scanning == scan.pc = "scan"
AtEnd == scan.pos > Len(body)
OldLine == body[scan.pos]

\* A control line of the old body is obeyed and copied.  Where start or end object,
\* the program stops (corrupt): there is no step.
ScanControl ==
  /\ Scanning /\ ~AtEnd /\ IsControl(OldLine)
  /\ BracketOK(scan.ss, OldLine, scan.seq - 1)
  /\ scan' = [scan EXCEPT !.ss = Follow(@, OldLine), !.pos = @ + 1,
                          !.out = Append(@, OldLine)]
  /\ UNCHANGED <<table, body, checkedIn, use>>

\* A line of text that is not part of the old version is copied.
ScanOtherText ==
  /\ Scanning /\ ~AtEnd /\ ~IsControl(OldLine) /\ ~IncludeLine(scan.ss)
  /\ scan' = [scan EXCEPT !.pos = @ + 1, !.out = Append(@, OldLine)]
  /\ UNCHANGED <<table, body, checkedIn, use>>

\* diff_state::process, and the brackets it prints; p stands for what it answers.
Processed == Process(scan.ds, scan.diff)
WithBrackets(p) ==
  scan.out \o [i \in 1..Len(p.control) |-> Control(p.control[i], scan.seq)]

\* The places where the scanner asks diff_state what to do.  Where diff_state
\* cannot make sense of the output the program stops (diff_output_corrupt).
AsksDiff ==
  /\ Scanning
  /\ AtEnd \/ (~AtEnd /\ ~IsControl(OldLine) /\ IncludeLine(scan.ss))
Inserting(p) == p.ok /\ p.state = "INSERT"
NotInserting(p) == p.ok /\ p.state # "INSERT"

\* A line that diff inserts, before an old line or at the end of the body.
ScanInsert(p) ==
  /\ Inserting(p)
  /\ scan' = [scan EXCEPT !.ds = p, !.inserted = @ + 1,
                          !.out = Append(WithBrackets(p), Text(InsertLine(p, scan.diff)))]
  /\ UNCHANGED <<table, body, checkedIn, use>>

\* ... unless it is longer than the limit: delta gives up, and the history file
\* stays as it was.
ScanLineTooLong(p) ==
  /\ Inserting(p)
  /\ scan' = Idle
  /\ UNCHANGED <<table, body, checkedIn, use>>
\* Mutant of CountOld: a deleted line is counted as unchanged too.
MutantCountOld(s, deleted) ==
  [s EXCEPT !.deleted = IF deleted THEN @ + 1 ELSE @, !.unchanged = @ + 1]

CountOld(s, deleted) ==
  IF deleted THEN [s EXCEPT !.deleted = @ + 1] ELSE [s EXCEPT !.unchanged = @ + 1]

\* A line of the old version is deleted or kept; either way it is copied.
ScanOldText(p) ==
  /\ NotInserting(p) /\ ~AtEnd
  /\ scan' = [CountOld(scan, p.state = "DELETE") EXCEPT
                !.ds = p, !.pos = @ + 1, !.out = Append(WithBrackets(p), OldLine)]
  /\ UNCHANGED <<table, body, checkedIn, use>>
\* Mutant of NewPrev: off by one.
MutantNewPrev == IF scan.nulls = 0 THEN scan.pred ELSE Len(table) + scan.nulls + 1

\* The predecessor of the new delta: the gotten delta or the last null delta.
NewPrev == IF scan.nulls = 0 THEN scan.pred ELSE Len(table) + scan.nulls

\* The end of the body: the null deltas and the new delta join the table and the
\* new body replaces the old one.  A null delta only has a predecessor, so its
\* text is its predecessor's.
ScanFinish(p) ==
  LET n     == Len(table)
      nullD == [i \in 1..scan.nulls |->
                  NewDelta(IF i = 1 THEN scan.pred ELSE n + i - 1, {}, {}, 0, 0, 0)]
  IN
  /\ NotInserting(p) /\ AtEnd
  /\ body' = WithBrackets(p)
  /\ table' = Reread(table \o nullD
                     \o <<NewDelta(NewPrev, scan.incl, scan.excl,
                                   scan.inserted, scan.deleted, scan.unchanged)>>)
  /\ checkedIn' = checkedIn
                  \o [i \in 1..scan.nulls |-> checkedIn[scan.pred]]
                  \o <<scan.gfile>>
  /\ scan' = Idle
  /\ UNCHANGED use

-----------------------------------------------------------------------------
(* rmdel.                                                                  *)
\* Mutant of RmdelPermitted: the lists are not looked at.
MutantRmdelNoLists(seq) ==
  seq \in Current(table) /\ \A t \in Current(table) : table[t].prev # seq

\* The refusals of sccs_file::rmdel: a delta may be removed when no current
\* delta follows it or names it in a list.
RmdelPermitted(seq) ==
  /\ seq \in Current(table)
  /\ \A t \in Current(table) :
       /\ table[t].prev # seq
       /\ seq \notin table[t].incl \cup table[t].excl \cup table[t].ignd

\* next_state of body-scanner.cc; "bad" is an unexpected control line.
RemovalState(state, letter) ==
  CASE state = "COPY" /\ letter = "I" -> "INSERT"
    [] state = "COPY" /\ letter = "D" -> "DELETE"
    [] state # "COPY" /\ letter = "E" -> "COPY"
    [] OTHER -> "bad"

RemoveLine(r, line, seq) ==
  CASE ~r.ok -> r
    [] r.ok /\ IsControl(line) /\ line.seq = seq ->
         LET next == RemovalState(r.state, line.k)
         IN  IF next = "bad" THEN [r EXCEPT !.ok = FALSE]
             ELSE [r EXCEPT !.state = next]
    [] r.ok /\ IsControl(line) /\ line.seq # seq ->
         IF r.state = "INSERT" THEN [r EXCEPT !.ok = FALSE]
         ELSE [r EXCEPT !.out = Append(@, line)]
    [] r.ok /\ ~IsControl(line) ->
         IF r.state = "INSERT" THEN r ELSE [r EXCEPT !.out = Append(@, line)]

\* sccs_file_body_scanner::remove.
RemoveBody(lines, seq) ==
  LET upto[i \in 0..Len(lines)] ==
        IF i = 0 THEN [state |-> "COPY", out |-> <<>>, ok |-> TRUE]
        ELSE RemoveLine(upto[i - 1], lines[i], seq)
      r == upto[Len(lines)]
  IN  [out |-> r.out, ok |-> r.ok /\ r.state = "COPY"]

Rmdel(seq) ==
  /\ use.removal
  /\ scan.pc = "idle"
  /\ RmdelPermitted(seq)
  /\ RemoveBody(body, seq).ok
  /\ table' = Reread([table EXCEPT ![seq].type = "R"])
  /\ body' = RemoveBody(body, seq).out
  /\ UNCHANGED <<scan, checkedIn, use>>

-----------------------------------------------------------------------------
\* admin -i: the first version (sccs_file::create and body_insert).
Init ==
  /\ use \in Uses
  /\ table = <<NewDelta(0, {}, {}, use.lines, 0, 0)>>
  /\ body = <<Control("I", 1)>>
            \o [i \in 1..use.lines |-> Text(<<1, i>>)]
            \o <<Control("E", 1)>>
  /\ scan = Idle
  /\ checkedIn = <<NewText(1, use.lines)>>

\* Lists that steer clear of the two cases in which get does not redo what the
\* check-in saw: a delta that brings lists of its own is included, or a delta that
\* the version already excludes is included again.
Disciplined(pred, include) ==
  \A s \in include :
    /\ table[s].incl \cup table[s].excl = {}
    /\ s \notin PrepareSeqstate1(NewSeqState(Len(table)), table, pred).excluded

GivenLists(pred) ==
  IF use.lists = "none" THEN {<<{}, {}>>}
  ELSE {l \in (SUBSET Current(table)) \X (SUBSET Current(table)) :
          /\ Cardinality(l[1]) + Cardinality(l[2]) <= MaxListed
          /\ l[1] \cap l[2] = {}
          /\ use.lists = "include" => l[2] = {}
          /\ use.lists = "disciplined" => Disciplined(pred, l[1])}

CheckIn ==
  /\ scan.pc = "idle" /\ Len(table) < MaxDeltas
  /\ \E pred \in Current(table), nulls \in 0..use.nulls :
       \E l \in GivenLists(pred) : BeginDelta(pred, l[1], l[2], nulls)

ScanDiff ==
  /\ AsksDiff
  /\ \E p \in {Processed} :
       ScanInsert(p) \/ ScanLineTooLong(p) \/ ScanOldText(p) \/ ScanFinish(p)

RemoveDelta == \E seq \in Deltas(table) : Rmdel(seq)

Next ==
  \/ CheckIn
  \/ ScanControl
  \/ ScanOtherText
  \/ ScanDiff
  \/ RemoveDelta

Spec == Init /\ [][Next]_vars

-----------------------------------------------------------------------------
(* Properties.                                                             *)

Lines == [k : {"text"}, text : Nat \X Nat] \cup [k : {"I", "D", "E"}, seq : Nat]

\* Type correctness: the table can be read and the history variable stays in step,
\* every predecessor and every list names an earlier delta.
TypeOK ==
  /\ Len(table) \in 1..MaxDeltas /\ Len(checkedIn) = Len(table)
  /\ \A s \in Deltas(table) :
       /\ table[s].type \in {"D", "R"}
       /\ table[s].prev \in 0..(s - 1)
       /\ table[s].incl \cup table[s].excl \cup table[s].ignd \subseteq 1..(s - 1)
  /\ \A i \in DOMAIN body : body[i] \in Lines
  /\ scan.pc \in {"idle", "scan"}

\* The promise of a version store: get of any current delta returns exactly the
\* text that was checked in as that delta, whatever was added, removed or
\* branched since (sccs_file::add_delta against sccs_file::get).
RetrievedIsCheckedIn ==
  scan.pc = "idle" =>
    \A s \in Current(table) :
      LET g == Get(s, {}, {}, {}) IN g.ok /\ g.out = checkedIn[s]

\* get -m names, beside each line, the delta that inserted that line, although
\* the line may be enclosed in the brackets of many deltas.
AnnotationNamesInserter ==
  scan.pc = "idle" =>
    \A s \in Current(table) :
      LET g == Get(s, {}, {}, {})
      IN  \A i \in DOMAIN g.out : g.who[i] = g.out[i][1]

\* get -c: with deltas dated in the order of their creation, cutting off a
\* version at a date gives the text of its youngest ancestor of that date.
\* (For tables without include and exclude lists.)
CutoffGivesAncestor ==
  scan.pc = "idle" /\ (\A s \in Deltas(table) : table[s].incl \cup table[s].excl = {}) =>
    \A s \in Current(table) : \A c \in Deltas(table) :
      LET anc == Ancestry(table, s) \cap (1..c)
      IN  anc # {} =>
            Get(s, {}, {}, {t \in Deltas(table) : t > c}).out = checkedIn[Max(anc)]

\* add_delta never stops half way for a file that CSSC itself wrote: start and
\* end accept every bracket, diff_state reads diff's output to its end, and no
\* bracket is open at the end of the body.
ScanNeverStuck ==
  Scanning =>
    /\ ~AtEnd /\ IsControl(OldLine) => BracketOK(scan.ss, OldLine, scan.seq - 1)
    /\ AtEnd => ActiveBrackets(scan.ss) = {}
    /\ AsksDiff =>
         \A p \in {Processed} :
           p.ok /\ (NotInserting(p) /\ AtEnd => p.pos = Len(scan.diff))

\* The line counts of the ^As line add up: what delta kept and deleted is the
\* old version, what it kept and inserted is the new one.
CountsAddUp ==
  scan.pc = "idle" =>
    \A s \in Deltas(table) :
      LET d == table[s]
      IN  d.inserted + d.deleted + d.unchanged > 0 =>
            /\ d.inserted + d.unchanged = Len(checkedIn[s])
            /\ d.incl \cup d.excl = {} /\ d.prev # 0 =>
                 d.deleted + d.unchanged = Len(checkedIn[d.prev])

\* Whenever sccs_file::rmdel's checks allow a removal, the body lets it happen:
\* the removed delta's brackets are where remove expects them ("non-terminal
\* delta" is never met).
RemovableDeltaIsTerminal ==
  scan.pc = "idle" =>
    \A s \in Deltas(table) : RmdelPermitted(s) => RemoveBody(body, s).ok

\* get.cc says of a -c cutoff that "the correct delta is passed as a parameter to
\* the substitution function": whatever the cutoff, there is a delta to pass, although
\* deltas have been removed.
KeywordDeltaExists ==
  scan.pc = "idle" =>
    \A s \in Current(table) : \A c \in Deltas(table) :
      KeywordDelta(PrepareSeqstate(table, s, {}, {}, {t \in Deltas(table) : t > c}), s) # 0

=============================================================================
