----------------------------- MODULE EditLocks -----------------------------
(***************************************************************************)
(* What the edit cycle promises, without files and without steps: a user   *)
(* reserves a SID by getting a delta for editing; the reservation is his   *)
(* until he makes the delta or gives it up; a delta that is being edited   *)
(* is not removed.  EditProtocol, when no command is killed, implements    *)
(* this.                                                                   *)
(***************************************************************************)
CONSTANTS
  Users,   \* the users
  Sids,    \* the SIDs
  First,   \* the SID of the first delta
  Companions(_, _)   \* the SIDs of the null deltas that may come with a new delta,
                     \* by the SID it was gotten from and its own

VARIABLES
  current,   \* the SIDs of the deltas
  locks,     \* the edit locks
  joint,     \* may several users edit the same delta? (never changes)
  nulls      \* do null deltas come with a new delta? (never changes)

absVars == <<current, locks, joint, nulls>>

Promised == {l.delta : l \in locks}

AbsInit == current = {First} /\ locks = {} /\ joint \in BOOLEAN /\ nulls \in BOOLEAN

\* What a user may reserve: a free SID, for a delta that is there and not being edited.
Reservation == [user : Users, got : current, delta : Sids \ (current \cup Promised)]

Reserve ==
  \E l \in locks' \ locks :
    /\ l \in Reservation
    /\ joint \/ \A m \in locks : m.got # l.got
    /\ locks' = locks \cup {l}
    /\ UNCHANGED <<current, joint, nulls>>

\* The new delta may bring null deltas with it, whose SIDs are free too.
Commit ==
  \E l \in locks :
    LET companions == IF nulls THEN Companions(l.got, l.delta) ELSE {} IN
    /\ companions \cap (current \cup Promised) = {}
    /\ current' = current \cup {l.delta} \cup companions
    /\ locks' = locks \ {l}
    /\ UNCHANGED <<joint, nulls>>

Abandon == \E l \in locks : locks' = locks \ {l} /\ UNCHANGED <<current, joint, nulls>>

Remove ==
  \E id \in current :
    /\ \A l \in locks : l.got # id
    /\ current' = current \ {id}
    /\ UNCHANGED <<locks, joint, nulls>>

\* (Most steps of EditProtocol change nothing here.)
AbsNext == UNCHANGED absVars \/ Reserve \/ Commit \/ Abandon \/ Remove

AbsSpec == AbsInit /\ [][AbsNext]_absVars

-----------------------------------------------------------------------------
\* Every reservation names an existing delta and a free SID, and no two name the
\* same SID; without joint editing no two name the same delta.
Promise ==
  /\ \A l \in locks : l.got \in current /\ l.delta \notin current
  /\ \A l, m \in locks : l.delta = m.delta => l = m
  /\ ~joint => \A l, m \in locks : l.got = m.got => l = m

=============================================================================
