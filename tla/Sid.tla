-------------------------------- MODULE Sid --------------------------------
(***************************************************************************)
(* SIDs (src/src/sid.h, src/src/sid.cc) and the two questions get asks of  *)
(* them (src/src/sf-get2.cc): which delta does the user mean, and which    *)
(* SID will the delta made from it have?                                   *)
(*                                                                         *)
(* A SID is <<release, level, branch, sequence>>; 0 means that a component *)
(* is missing.  A delta table is the sequence of its deltas by sequence    *)
(* number, so the order of the file, youngest first, is from the last to   *)
(* the first.                                                              *)
(***************************************************************************)
EXTENDS Integers, Sequences, FiniteSets

SidTuples == Nat \X Nat \X Nat \X Nat

\* sid::sid(const char *): what a user may write.  The components that are missing are
\* the last ones.
WellFormed ==
  {id \in SidTuples : /\ id[1] = 0 => id[2] = 0
                      /\ id[2] = 0 => id[3] = 0
                      /\ id[3] = 0 => id[4] = 0}

NullSid == <<0, 0, 0, 0>>
IsNull(id) == id[1] <= 0
Release(id) == id[1]

\* sid::components.
Components(id) ==
  CASE IsNull(id)                                                  -> 0
    [] ~IsNull(id) /\ id[2] = 0                                    -> 1
    [] ~IsNull(id) /\ id[2] # 0 /\ id[3] = 0                       -> 2
    [] ~IsNull(id) /\ id[2] # 0 /\ id[3] # 0 /\ id[4] = 0          -> 3
    [] ~IsNull(id) /\ id[2] # 0 /\ id[3] # 0 /\ id[4] # 0          -> 4

OnTrunk(id) == Components(id) = 2
PartialSid(id) == id[2] = 0 \/ (id[3] # 0 /\ id[4] = 0)
ReleaseOnly(id) == id[1] # 0 /\ id[2] = 0

\* sid::matches: the first n components agree.
Matches(id, m, n) == \A i \in 1..n : id[i] = m[i]

\* sid::gte.  The branch is not compared.
Gte(a, b) ==
  \/ a[1] > b[1]
  \/ a[1] = b[1] /\ a[2] > b[2]
  \/ a[1] = b[1] /\ a[2] = b[2] /\ a[4] >= b[4]

\* sid::operator++, next_level and next_branch.
Increment(id) ==
  CASE id[3] # 0               -> [id EXCEPT ![4] = @ + 1]
    [] id[3] = 0 /\ id[2] # 0  -> [id EXCEPT ![2] = @ + 1]
    [] id[3] = 0 /\ id[2] = 0  -> [id EXCEPT ![1] = @ + 1]
NextLevel(id) == <<id[1], id[2] + 1, 0, 0>>
\* Mutant of NextBranch: the sequence number is not set.
MutantNextBranch(id) == <<id[1], id[2], id[3] + 1, 0>>

NextBranch(id) == <<id[1], id[2], id[3] + 1, 1>>

-----------------------------------------------------------------------------
(* The delta table.                                                        *)

CurrentDeltas(table) == {i \in DOMAIN table : table[i].type = "D"}
CurrentSids(table) == {table[i].sid : i \in CurrentDeltas(table)}

\* cssc_delta_table::find_any: the youngest delta of that SID, removed or not; 0
\* for none.
FindAny(table, id) ==
  LET S == {i \in DOMAIN table : table[i].sid = id}
  IN  IF S = {} THEN 0 ELSE CHOOSE i \in S : \A j \in S : j <= i

\* cssc_delta_table::find: the youngest current one.
FindDelta(table, id) ==
  LET S == {i \in CurrentDeltas(table) : table[i].sid = id}
  IN  IF S = {} THEN 0 ELSE CHOOSE i \in S : \A j \in S : j <= i

\* high_release_ as update_highest leaves it: the highest current SID of the trunk.
HighestRelease(table) ==
  LET S == {id \in CurrentSids(table) : OnTrunk(id)}
  IN  IF S = {} THEN NullSid ELSE CHOOSE a \in S : \A b \in S : Gte(a, b)

-----------------------------------------------------------------------------
(* Which delta is meant?                                                   *)

\* Two components ask for an exact match, unless the top delta is wanted.
WantedComponents(requested, top) ==
  IF Components(requested) = 2 /\ ~top THEN 4 ELSE Components(requested)

SidMatches(requested, found, top) ==
  IF Components(requested) = 1
  THEN Release(found) <= Release(requested) /\ (top \/ OnTrunk(found))
  ELSE Matches(found, requested, WantedComponents(requested, top))

\* The SID that find_requested_sid looks for: the one of the command line, the
\* default SID, or the highest release.
Sought(table, requested, defaultSid) ==
  CASE ~IsNull(requested)                         -> requested
    [] IsNull(requested) /\ ~IsNull(defaultSid)   -> defaultSid
    [] IsNull(requested) /\ IsNull(defaultSid)    ->
         <<Release(HighestRelease(table)), 0, 0, 0>>

\* find_requested_sid: the best of the matching current deltas, looked through
\* from the youngest; NullSid when there is none.
FindRequestedSid(table, requested, top, defaultSid) ==
  LET want == Sought(table, requested, defaultSid)
      n    == WantedComponents(want, top)
      from[i \in 1..(Len(table) + 1)] ==
        IF i = Len(table) + 1 THEN [best |-> NullSid, stop |-> FALSE]
        ELSE LET prev == from[i + 1]
                 id   == table[i].sid
             IN  IF /\ ~prev.stop
                    /\ table[i].type = "D"
                    /\ SidMatches(want, id, top)
                    /\ prev.best = NullSid \/ Gte(id, prev.best)
                 THEN [best |-> id, stop |-> top /\ Matches(id, want, n)]
                 ELSE prev
  IN  IF IsNull(want) /\ ~top THEN NullSid ELSE from[1].best

\* What get makes of the -r option before it asks for the next SID.
EditRequest(requested, retrieve) ==
  IF \/ IsNull(requested)
     \/ ReleaseOnly(requested) /\ Release(requested) = Release(retrieve)
  THEN retrieve ELSE requested

-----------------------------------------------------------------------------
(* Which SID will the new delta have?  locks is the set of the locks of    *)
(* the p-file; flags are those of the history file.                        *)

Reserved(locks) == {l.delta : l \in locks}
\* Mutant of InUse: the p-file is not looked at.
MutantInUse(table, locks, id) == FindDelta(table, id) # 0

\* sid_in_use
InUse(table, locks, id) == FindDelta(table, id) # 0 \/ id \in Reserved(locks)

\* "while (sid_in_use(next)) next.next_level()", and the same for branches.
FreeLevel(id, taken) ==
  LET S == {k \in 0..Cardinality(taken) : <<id[1], id[2] + k, 0, 0>> \notin taken}
  IN  <<id[1], id[2] + (CHOOSE k \in S : \A j \in S : k <= j), 0, 0>>
\* Mutant of FreeBranch: no search.
MutantFreeBranch(id, taken) == id

FreeBranch(id, taken) ==
  LET S == {k \in 0..Cardinality(taken) : <<id[1], id[2], id[3] + k, id[4]>> \notin taken}
  IN  <<id[1], id[2], id[3] + (CHOOSE k \in S : \A j \in S : k <= j), id[4]>>

\* The first idea: the SID that follows the requested one.
FirstIdea(table, locks, requested, got) ==
  CASE ReleaseOnly(requested) ->
         FreeLevel(NextLevel(requested), CurrentSids(table) \cup Reserved(locks))
    [] ~ReleaseOnly(requested) /\ PartialSid(requested)  -> Increment(got)
    [] ~ReleaseOnly(requested) /\ ~PartialSid(requested) -> Increment(requested)

\* Have we collided with an existing SID?
Collides(table, locks, requested, next, flags) ==
  LET any == FindAny(table, next)
  IN  \/ any # 0 /\ table[any].type = "D" /\ ~PartialSid(requested)
      \/ InUse(table, locks, next) /\ flags.joint
\* Mutant of ShouldNotHappen: the joint edit flag is not looked at.
MutantShouldNotHappen(table, locks, next, flags) ==
  FindAny(table, next) = 0 /\ next \in Reserved(locks)

\* "this should not happen": another user makes that SID already, and the joint
\* edit flag is not set.
ShouldNotHappen(table, locks, next, flags) ==
  FindAny(table, next) = 0 /\ next \in Reserved(locks) /\ ~flags.joint

\* find_next_sid.  ok is FALSE where it reports a failure.
FindNextSid(table, locks, rid, got, wantBranch, flags) ==
  LET requested == IF IsNull(flags.default) THEN rid ELSE flags.default
      branch    == wantBranch /\ flags.branch
      idea      == FirstIdea(table, locks, requested, got)
      tooHigh   == /\ OnTrunk(requested) /\ flags.ceiling # 0
                   /\ Release(requested) > flags.ceiling
      notTop    == /\ Components(requested) < 3
                   /\ Release(got) < Release(HighestRelease(table))
      forced    == ~branch /\ (tooHigh \/ notTop
                               \/ Collides(table, locks, requested, idea, flags))
      taken     == CurrentSids(table) \cup (IF flags.joint THEN Reserved(locks) ELSE {})
      from      == IF branch /\ Components(requested) >= 4 THEN idea ELSE got
  IN  IF ~branch /\ ShouldNotHappen(table, locks, idea, flags)
      THEN [ok |-> FALSE, next |-> idea]
      ELSE [ok |-> TRUE,
            next |-> IF branch \/ forced THEN FreeBranch(NextBranch(from), taken)
                     ELSE idea]
\* Mutant of TestLocks: other users' locks are not looked at.
MutantTestLocks(locks, got, flags) ==
  ~flags.allLocked /\ Release(got) \notin flags.locked

\* test_locks, for an authorised user.
TestLocks(locks, got, flags) ==
  /\ ~flags.allLocked
  /\ flags.floor # 0 => flags.floor <= Release(got)
  /\ flags.ceiling # 0 => flags.ceiling >= Release(got)
  /\ Release(got) \notin flags.locked
  /\ flags.joint \/ \A l \in locks : l.got # got

=============================================================================
