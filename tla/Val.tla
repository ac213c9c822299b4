-------------------------------- MODULE Val --------------------------------
(***************************************************************************)
(* What val (and admin -h) finds wrong with a delta table:                 *)
(* sccs_file::validate in src/src/sf-val.cc.  The checks of single fields  *)
(* (line counts, user names) and the warnings are left out, and so is the  *)
(* result of validate_seq_lists, which validate does not use.              *)
(***************************************************************************)
EXTENDS SeqState, Dates

\* The deltas met on the way from s to the root, in their order.
Way(table, s) ==
  LET way[k \in 0..(Len(table) + 1)] ==
        IF k = 0 THEN s
        ELSE LET t == way[k - 1] IN IF t = 0 THEN 0 ELSE table[t].prev
  IN  way
\* Mutant of CheckLoopFree: a loop is reported but not counted as an error.
MutantCheckLoopFree(table, v, s) ==
  LET way == Way(table, s)
      end == Min({k \in DOMAIN way : way[k] \in {0} \cup v.loopfree \cup v.seen
                                                \cup {way[j] : j \in 0..(k - 1)}})
  IN  [v EXCEPT !.loopfree = @ \cup {way[j] : j \in 0..(end - 1)}]

\* check_loop_free.  It stops at the root, at a delta known to be free of loops, and
\* at one it has seen; it forgets what it has seen from the lowest of them upwards.
CheckLoopFree(table, v, s) ==
  LET way == Way(table, s)
      Before(k) == {way[j] : j \in 0..(k - 1)}
      end == Min({k \in DOMAIN way : way[k] \in {0} \cup v.loopfree \cup v.seen \cup Before(k)})
      free == way[end] \in {0} \cup v.loopfree
      lowest == Min((Before(end + 1) \cup {Len(table)}) \ {0})
  IN  [ok |-> free,
       loopfree |-> IF free THEN v.loopfree \cup Before(end) ELSE v.loopfree,
       seen |-> {t \in v.seen \cup Before(end) : t < lowest}]

\* validate goes through the current deltas, the youngest first, up to the first error.
Validate(table) ==
  LET n == Len(table)
      after[m \in 0..n] ==
        IF m = 0 THEN [ok |-> TRUE, loopfree |-> {}, seen |-> {}]
        ELSE LET v == after[m - 1]
             IN  IF v.ok /\ n + 1 - m \in Current(table)
                 THEN LET w == CheckLoopFree(table, v, n + 1 - m)
                      IN  [w EXCEPT !.ok = @ /\ Valid(table[n + 1 - m].date)]
                 ELSE v
  IN  after[n].ok

\* What it should find: from every current delta the way leads to the root.
NoLoops(table) ==
  \A s \in Current(table) : Way(table, s)[Len(table)] = 0

=============================================================================
