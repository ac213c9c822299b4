------------------------------ MODULE FrontEnd ------------------------------
(***************************************************************************)
(* The sccs front end (src/src/sccs.c) on one history file.  A command of  *)
(* sccs runs several of the SCCS programs one after another, and stops at  *)
(* the first that fails; in between, the other users' commands run.  A     *)
(* program holds the z-file while it runs and is one step here (module     *)
(* EditProtocol has its system calls), which may also end early, when a    *)
(* file operation fails or the program is killed, with part of its work    *)
(* done.  unedit and clean are done by sccs itself, without the z-file:    *)
(* they are modelled one file operation at a time.                         *)
(*                                                                         *)
(* Every user has a directory of his own and one command at a time.  print,*)
(* diffs, info, check and tell change nothing and are left out.            *)
(***************************************************************************)
EXTENDS Sid

CONSTANTS
  Users,      \* the users
  Absent,     \* a file that does not exist
  MaxDeltas,  \* bound on the length of the delta table
  Releases,   \* the releases that are asked for by their number
  MaxFailures \* bound on the number of programs that fail with part of their work done

ASSUME FrontEndAssumption ==
  MaxDeltas \in Nat /\ Releases \subseteq Nat /\ MaxFailures \in Nat

VARIABLES
  table,    \* the delta table of the s-file
  pfile,    \* the set of the edit locks in the p-file, or Absent
  gfile,    \* the g-file in each user's directory, or Absent: whether it is writable, and
            \* then the delta whose text it has but for the user's changes, or 0
  cmd,      \* what each user's sccs command has still to do, and what it has seen
  passed,   \* has another user's command changed the delta table while the command ran
            \* that gave the user his lock?
  failures, \* the number of programs that have failed with part of their work done
  botched,  \* has a get of the user failed to write his g-file and gone on, or an unget
            \* to take his lock back and gone on?
  damaged   \* has an unedit met another command's change of the p-file, clean -b removed
            \* a branch that was being edited, or a delta been checked in twice?

vars == <<table, pfile, gfile, cmd, passed, botched, failures, damaged>>

Flags ==
  [joint |-> FALSE, branch |-> TRUE, default |-> NullSid, allLocked |-> FALSE,
   floor |-> 0, ceiling |-> 0, locked |-> {}]

LocksOf(p) == IF p = Absent THEN {} ELSE p
Locks == LocksOf(pfile)
Others(u, locks) == {l \in locks : l.user # u}
Mine(u, locks) == {l \in locks : l.user = u}
Idle == [steps |-> <<>>, seen |-> Absent]
IsIdle(u) == cmd[u].steps = <<>>
Running(u, prog) == ~IsIdle(u) /\ Head(cmd[u].steps).prog = prog
Writable(u) == gfile[u] # Absent /\ gfile[u].writable
HasCopy(u) == Writable(u) /\ gfile[u].text # 0
GFile(seq, writable) == [text |-> IF writable THEN seq ELSE 0, writable |-> writable]

-----------------------------------------------------------------------------
(* The commands.  A step is a program with its options and the SID of -r.  *)

Step(prog, opts, rid) == [prog |-> prog, opts |-> opts, rid |-> rid]
\* Mutant of Deledit: the -t is missing.
MutantDeledit(rid) == <<Step("delta", {"n"}, rid), Step("get", {"e", "g"}, NullSid)>>

\* -t: the delta that was made last, also when it is on a branch.
Deledit(rid) == <<Step("delta", {"n"}, rid), Step("get", {"e", "t", "g"}, NullSid)>>

\* SccsProg, and what command makes of a macro: -r goes to those programs that may have
\* it, which the last program of delget, deledit, fix and branch may not.
Macro(name, opts, rid) ==
  CASE name \in {"get", "delta", "unget", "rmdel", "unedit", "clean"} ->
         <<Step(name, opts, rid)>>
    [] name = "edit"    -> <<Step("get", {"e"} \cup opts, rid)>>
    [] name = "delget"  -> <<Step("delta", {}, rid), Step("get", {"t"}, NullSid)>>
    [] name = "deledit" -> Deledit(rid)
    [] name = "branch"  -> <<Step("get", {"e", "b"}, rid), Step("delta", {"n"}, NullSid),
                             Step("get", {"e", "t", "g"}, NullSid)>>
    [] name = "fix"     -> <<Step("get", {"k"}, rid), Step("rmdel", {}, rid),
                             Step("get", {"e", "g"}, NullSid)>>

\* What the users may type: fix needs -r; -b is an option of clean.
Commands ==
  LET rids == {NullSid} \cup CurrentSids(table) \cup {<<r, 0, 0, 0>> : r \in Releases} IN
  {Macro(name, {}, rid) : name \in {"edit", "branch"}, rid \in rids}
    \cup {Macro(name, {}, rid) : name \in {"fix", "rmdel"}, rid \in CurrentSids(table)}
    \cup {Macro(name, {}, NullSid) : name \in {"get", "delta", "delget", "deledit", "unget", "unedit"}}
    \cup {Macro("clean", opts, NullSid) : opts \in SUBSET {"b"}}

\* What a user's command has to do next: nothing that it reads comes before its first
\* program.
Todo(u) == IF IsIdle(u) THEN Commands ELSE {cmd[u].steps}

-----------------------------------------------------------------------------
(* The programs.                                                           *)

\* The next part of the macro.
Continue(u, todo) == cmd' = [cmd EXCEPT ![u] = [Idle EXCEPT !.steps = Tail(todo)]]
\* "if (rval != 0) break".
Stop(u) == cmd' = [cmd EXCEPT ![u] = Idle]

\* A step of u meets another user's unedit that has read the p-file and not yet replaced
\* it (a change of it will be lost), or that has emptied it and not yet written it again.
Torn(u) ==
  \E v \in Users \ {u} : \/ Running(v, "unedit_p") /\ pfile' # pfile
                         \/ Running(v, "unedit_write")
\* delta does not look whether its SID has been checked in already.
CheckedInTwice ==
  Len(table') > Len(table) /\ table'[Len(table')].sid \in CurrentSids(table)
WillEdit(u) == \E i \in DOMAIN cmd[u].steps : "e" \in cmd[u].steps[i].opts

\* The locks, also while an unedit has them in its memory only.
Restoring == {v \in Users : Running(v, "unedit_write")}
AllLocks == Locks \cup UNION {Others(v, cmd[v].seen) : v \in Restoring}

\* A user is editing when he has a lock, or will have one at the end of his macro.
Editing(u) == Mine(u, AllLocks) # {} \/ WillEdit(u)
\* A delta gives the g-file that stays the text of a delta again.
Afresh(u) == Mine(u, AllLocks) # {} /\ Mine(u, AllLocks') = {}
\* What is remembered of a step of u while the user is editing that it is about.
Note(u, botches) ==
  /\ passed' = [v \in Users |->
                  /\ passed[v] \/ (v # u /\ table' # table /\ WillEdit(v))
                  /\ Editing(v)' /\ ~(v = u /\ Afresh(u))]
  /\ botched' = [v \in Users |-> (botched[v] \/ (v = u /\ botches)) /\ Editing(v)']
Damage(u) == damaged' = (damaged \/ Torn(u) \/ CheckedInTwice)
Observe(u) == Damage(u) /\ Note(u, FALSE) /\ UNCHANGED failures
\* A program has done only part of its work.
Fails == failures < MaxFailures /\ failures' = failures + 1

At(todo, prog) == Head(todo).prog = prog
Has(todo, option) == option \in Head(todo).opts
Rid(todo) == Head(todo).rid
SetLocks(locks) == pfile' = IF locks = {} THEN Absent ELSE locks

\* get: what it retrieves, and the SID it reserves with -e.
Retrieve(todo) == FindRequestedSid(table, Rid(todo), Has(todo, "t"), Flags.default)
NextSid(todo, got) ==
  FindNextSid(table, Locks, EditRequest(Rid(todo), got), got, Has(todo, "b"), Flags)
\* The lock that it may add.
Reservable(u, todo, got) ==
  LET next == NextSid(todo, got) IN
  IF TestLocks(Locks, got, Flags) /\ next.ok /\ ~InUse(table, Locks, next.next)
  THEN {[user |-> u, got |-> got, delta |-> next.next]} ELSE {}

\* A g-file that is writable is not overwritten; with -g there is no output.
OutputPermitted(u, todo) == Has(todo, "g") \/ ~Writable(u)

\* Mutant of Output: -k is not regarded.
MutantOutput(todo, seq) == GFile(seq, Has(todo, "e"))
Output(todo, seq) == GFile(seq, Has(todo, "e") \/ Has(todo, "k"))
Reserve(todo, locks) == Has(todo, "e") /\ SetLocks(Locks \cup locks)

\* The g-file is written before the lock is added.
GetEnds(u, todo, got, locks) ==
  /\ IF Has(todo, "g") THEN UNCHANGED gfile
     ELSE gfile' = [gfile EXCEPT ![u] = Output(todo, FindDelta(table, got))]
  /\ Reserve(todo, locks) \/ (~Has(todo, "e") /\ UNCHANGED pfile)
  /\ Continue(u, todo) /\ Observe(u)

\* The body cannot be retrieved: the g-file is removed, if it can be, there is no lock, and
\* the exit status is that of success.
GetLoses(u, todo) ==
  /\ Fails
  /\ ~Has(todo, "g")
  /\ \E f \in {Absent, Output(todo, 0)} : gfile' = [gfile EXCEPT ![u] = f]
  /\ UNCHANGED pfile
  /\ Continue(u, todo) /\ Damage(u) /\ Note(u, TRUE)

\* It is cut off, or cannot add the lock, in which all locks may get lost; or it cannot
\* close the g-file, and adds the lock nevertheless.
GetStops(u, todo, locks) ==
  /\ Fails
  /\ IF Has(todo, "g") THEN UNCHANGED gfile
     ELSE \E f \in {Absent, Output(todo, 0)} : gfile' = [gfile EXCEPT ![u] = f]
  /\ \/ UNCHANGED pfile
     \/ Has(todo, "e") /\ SetLocks({})
     \/ ~Has(todo, "g") /\ gfile'[u] # Absent /\ Reserve(todo, locks)
  /\ Stop(u) /\ Damage(u) /\ Note(u, TRUE)

Get(u, todo) ==
  /\ At(todo, "get") /\ OutputPermitted(u, todo)
  /\ UNCHANGED table
  /\ LET got == Retrieve(todo) IN
     /\ ~IsNull(got)
     /\ \E locks \in IF Has(todo, "e") THEN {{l} : l \in Reservable(u, todo, got)} ELSE {{}} :
          GetEnds(u, todo, got, locks) \/ GetLoses(u, todo) \/ GetStops(u, todo, locks)

\* The user's lock (sccs_pfile::find_sid; none of these commands has a -r).
IsLock(u, l) == Mine(u, Locks) = {l}

\* With -n the g-file stays, and is what the new delta has.
DeltaEnds(u, todo, l) ==
  /\ SetLocks(Locks \ {l})
  /\ gfile' = [gfile EXCEPT ![u] = IF Has(todo, "n") THEN GFile(Len(table'), @.writable)
                                                     ELSE Absent]
  /\ Continue(u, todo) /\ Observe(u)

\* Cut off after the s-file has been replaced, or the p-file cannot be: the lock stays, or
\* all locks get lost; or the g-file cannot be removed.
DeltaStops(u, l) ==
  /\ Fails
  /\ UNCHANGED pfile \/ SetLocks(Locks \ {l}) \/ SetLocks({})
  /\ UNCHANGED gfile
  /\ Stop(u) /\ Damage(u) /\ Note(u, FALSE)

\* The s-file is replaced first.
Delta(u, todo) ==
  /\ At(todo, "delta")
  /\ Len(table) < MaxDeltas
  /\ gfile[u] # Absent
  /\ \E l \in Locks :
       /\ IsLock(u, l)
       /\ table' = Append(table, [sid |-> l.delta, prev |-> FindDelta(table, l.got), type |-> "D"])
       /\ DeltaEnds(u, todo, l) \/ DeltaStops(u, l)

UngetEnds(u, todo, l) ==
  /\ SetLocks(Locks \ {l})
  /\ gfile' = [gfile EXCEPT ![u] = Absent]
  /\ Continue(u, todo) /\ Observe(u)

\* Cut off between the p-file and the g-file; or the p-file cannot be replaced, in which all
\* locks may get lost, and the g-file is removed nevertheless.
UngetStops(u, l) ==
  /\ Fails
  /\ UNCHANGED pfile \/ SetLocks(Locks \ {l}) \/ SetLocks({})
  /\ \E f \in {Absent, gfile[u]} : gfile' = [gfile EXCEPT ![u] = f]
  /\ Stop(u) /\ Damage(u) /\ Note(u, gfile'[u] = Absent)

Unget(u, todo) ==
  /\ At(todo, "unget")
  /\ UNCHANGED table
  /\ \E l \in Locks : IsLock(u, l) /\ (UngetEnds(u, todo, l) \/ UngetStops(u, l))

RmdelPermitted(rid) ==
  /\ rid \in CurrentSids(table)
  /\ \A l \in Locks : l.got # rid
  /\ \A i \in CurrentDeltas(table) : table[i].prev # FindDelta(table, rid)
Rmdel(u, todo) ==
  /\ At(todo, "rmdel") /\ RmdelPermitted(Rid(todo))
  /\ table' = [table EXCEPT ![FindDelta(table, Rid(todo))].type = "R"]
  /\ UNCHANGED <<pfile, gfile>>
  /\ Continue(u, todo) /\ Observe(u)

\* The program refuses, or fails or is killed (callprog: CSSC_EX_SOFTWARE) before it has
\* changed anything, or the macro is interrupted between two programs.  An unedit that is
\* killed at the wrong moment leaves an empty p-file.
Fail(u) ==
  /\ ~IsIdle(u)
  /\ Stop(u)
  /\ damaged' = (damaged \/ Running(u, "unedit_write"))
  /\ UNCHANGED <<table, pfile, gfile, failures>>
  /\ Note(u, FALSE)

-----------------------------------------------------------------------------
(* unedit.                                                                 *)

\* It reads the p-file; without one there is nothing to do.
UneditRead(u, todo) ==
  /\ At(todo, "unedit")
  /\ pfile # Absent
  /\ cmd' = [cmd EXCEPT ![u] = [steps |-> <<Step("unedit_p", {}, NullSid)>>, seen |-> pfile]]
  /\ UNCHANGED <<table, pfile, gfile>>
  /\ Observe(u)

\* The p-file is removed when no lock is left, and emptied otherwise, although nothing
\* in it may be the user's.  What others have done to it since is lost.
UneditOpen(u) ==
  LET others == Others(u, cmd[u].seen) IN
  /\ Running(u, "unedit_p")
  /\ pfile' = IF others = {} THEN Absent ELSE {}
  /\ cmd' = [cmd EXCEPT ![u].steps =
               <<Step(IF others = {} THEN "unedit_g" ELSE "unedit_write", {}, NullSid)>>]
  /\ UNCHANGED <<table, gfile>>
  /\ Observe(u)

\* The locks of the others are written back.
UneditWrite(u) ==
  /\ Running(u, "unedit_write")
  /\ pfile' = Others(u, cmd[u].seen)
  /\ cmd' = [cmd EXCEPT ![u] = [steps |-> <<Step("unedit_g", {}, NullSid)>>,
                                seen |-> Mine(u, cmd[u].seen)]]
  /\ UNCHANGED <<table, gfile, damaged, failures>>
  /\ Note(u, FALSE)

\* The g-file is removed, and gotten again, if the user was editing.
UneditRemove(u) ==
  /\ Running(u, "unedit_g")
  /\ IF Mine(u, cmd[u].seen) = {} THEN Stop(u) /\ UNCHANGED gfile
     ELSE /\ gfile' = [gfile EXCEPT ![u] = Absent]
          /\ cmd' = [cmd EXCEPT ![u] = [Idle EXCEPT !.steps = Macro("get", {}, NullSid)]]
  /\ UNCHANGED <<table, pfile, damaged, failures>>
  /\ Note(u, FALSE)

-----------------------------------------------------------------------------
(* clean.                                                                  *)

\* isbranch: a SID with more than one dot.
IsBranch(id) == Components(id) > 2

\* The locks that do_clean finds, anybody's: -b skips branches, and -u matters to info,
\* check and tell only.
BeingEdited(todo) == {l \in Locks : Has(todo, "b") => ~IsBranch(l.delta)}

CleanRead(u, todo) ==
  /\ At(todo, "clean")
  /\ BeingEdited(todo) = {}
  /\ cmd' = [cmd EXCEPT ![u] = [Idle EXCEPT !.steps =
                                  <<Step("clean_g", Head(todo).opts, NullSid)>>]]
  /\ UNCHANGED <<table, pfile, gfile>>
  /\ Observe(u)

\* The g-file is removed, whatever it is.
CleanRemove(u) ==
  /\ Running(u, "clean_g")
  /\ gfile' = [gfile EXCEPT ![u] = Absent]
  /\ Stop(u)
  /\ UNCHANGED <<table, pfile, failures>>
  /\ damaged' = (damaged \/ Torn(u) \/ Mine(u, Locks) # {})
  /\ Note(u, FALSE)

-----------------------------------------------------------------------------
\* Somebody has created the file with sccs create or sccs enter.
Init ==
  /\ table = <<[sid |-> <<1, 1, 0, 0>>, prev |-> 0, type |-> "D"]>>
  /\ pfile = Absent
  /\ gfile \in {f \in [Users -> {Absent, GFile(1, FALSE)}] :
                  Cardinality({u \in Users : f[u] # Absent}) <= 1}
  /\ cmd = [u \in Users |-> Idle]
  /\ passed = [u \in Users |-> FALSE]
  /\ botched = [u \in Users |-> FALSE]
  /\ failures = 0
  /\ damaged = FALSE

Program(u) ==
  \E todo \in Todo(u) :
    \/ Get(u, todo) \/ Delta(u, todo) \/ Unget(u, todo) \/ Rmdel(u, todo)
    \/ UneditRead(u, todo) \/ CleanRead(u, todo)

\* Nothing is claimed once a file is damaged, so the model ends there.
Next ==
  /\ ~damaged
  /\ \E u \in Users : \/ Program(u) \/ Fail(u)
                      \/ UneditOpen(u) \/ UneditWrite(u) \/ UneditRemove(u)
                      \/ CleanRemove(u)

Spec == Init /\ [][Next]_vars

-----------------------------------------------------------------------------
(* Properties.                                                             *)

\* Type correctness.
TypeOK ==
  /\ \A i \in DOMAIN table : table[i].prev \in 0..(i - 1) /\ Components(table[i].sid) \in {2, 4}
  /\ \A u \in Users : gfile[u] # Absent => gfile[u].text \in 0..Len(table)
  /\ \A u \in Users : Len(cmd[u].steps) <= 2
  /\ \A l \in Locks : l.user \in Users
  /\ passed \in [Users -> BOOLEAN] /\ botched \in [Users -> BOOLEAN]
  /\ damaged \in BOOLEAN /\ failures \in 0..MaxFailures

\* docs/sccs.1 on clean: "It will not remove any files being edited", and on fix: it
\* "leaves you with a copy of the delta".  The file of a user who is editing goes away
\* only by his own delta, unget (also one that fails to take the lock back) or unedit, or
\* by clean -b on a branch, whatever the commands of the others do in between and wherever
\* a program stops.  The delta that the rmdel of fix removes is the one of which the user
\* has a copy, unless his own get has failed and said nothing; or the delta that he got has
\* been removed in between, and another one been checked in under its SID: then that one
\* is removed.
WorkIsSafe ==
  [][\A u \in Users :
       /\ Mine(u, Locks) # {} /\ Writable(u) /\ gfile'[u] # gfile[u] =>
            \/ Mine(u, Locks) \cap LocksOf(pfile') = {}
            \/ \E todo \in Todo(u) : Unget(u, todo)
            \/ Running(u, "clean_g") /\ Has(cmd[u].steps, "b")
                 /\ \A l \in Mine(u, Locks) : IsBranch(l.delta)
       /\ Running(u, "rmdel") /\ Len(cmd[u].steps) = 2 /\ Len(cmd'[u].steps) = 1 =>
            LET rid  == Rid(cmd[u].steps)
                text == gfile[u].text
            IN  IF HasCopy(u)
                THEN \/ text = FindDelta(table, rid)
                     \/ table[text].sid = rid /\ table[text].type = "R"
                ELSE botched[u]]_vars

\* Whoever has reserved a SID has the text of the delta he got (after fix: the text of
\* the delta that was removed, and he got its predecessor), so that his next delta
\* undoes nobody's changes.  The last get of deledit, branch and fix has no -r, so this
\* is so only if no other command has changed the delta table while they ran, the
\* text is of the highest release, and the delta that fix removed was on the trunk; and
\* only if no get has failed to write the g-file and no unget to take the lock back.
EditMatchesLock ==
  ~damaged => \A l \in Locks :
    LET seq  == FindDelta(table, l.got)
        text == gfile[l.user].text
    IN /\ seq # 0
       /\ \/ botched[l.user]
          \/ /\ HasCopy(l.user)
             /\ \/ text = seq
                \/ table[text].type = "R" /\ table[text].prev = seq
                \/ passed[l.user]
                \/ Release(table[text].sid) < Release(l.got)
                \/ table[text].type = "R" /\ ~OnTrunk(table[text].sid)

=============================================================================
