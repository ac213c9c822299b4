--------------------------- MODULE MCEditProtocol ---------------------------
(* EditProtocol for TLC: the ways in which the history file is used.       *)
EXTENDS EditProtocol, TLC

MCFlags(joint, branch) ==
  [joint |-> joint, branch |-> branch, default |-> NullSid, allLocked |-> FALSE,
   floor |-> 0, ceiling |-> 0, locked |-> {}]

\* One editor per delta, with branches, releases and null deltas.
Solo  == [flags |-> MCFlags(FALSE, TRUE), nulls |-> TRUE, branches |-> BOOLEAN,
          deltas |-> 4, releases |-> 3]
\* Joint editing, with branches.
Joint == [flags |-> MCFlags(TRUE, TRUE), nulls |-> FALSE, branches |-> BOOLEAN,
          deltas |-> 3, releases |-> 2]
\* A default SID on a branch, a ceiling and a locked release.
Restricted ==
  [flags |-> [MCFlags(FALSE, TRUE) EXCEPT !.default = <<1, 1, 1, 0>>,
                                          !.ceiling = 2, !.locked = {2}],
   nulls |-> FALSE, branches |-> BOOLEAN, deltas |-> 3, releases |-> 3]
\* No flags at all.
Bare(deltas, releases) ==
  [flags |-> MCFlags(FALSE, FALSE), nulls |-> FALSE, branches |-> {FALSE},
   deltas |-> deltas, releases |-> releases]

SoloJointOrRestricted == {Solo, Joint, Restricted}
TwoReleases == {Bare(3, 2)}
OneRelease  == {Bare(4, 1)}

Symmetry == Permutations(Users)

=============================================================================
