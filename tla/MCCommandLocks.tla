--------------------------- MODULE MCCommandLocks ---------------------------
(* CommandLocks for TLC: which commands the processes run.                 *)
EXTENDS CommandLocks

CONSTANTS f1, f2

\* One file, or two, always in the same order.
InOrder == {[kind |-> k, files |-> fs] : k \in Kinds, fs \in {<<f1>>, <<f2>>, <<f1, f2>>}}

\* Two files.
TwoFiles == {[kind |-> k, files |-> <<f1, f2>>] : k \in {"delta", "get"}}

=============================================================================
