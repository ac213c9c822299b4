------------------------------ MODULE MCWeave ------------------------------
(* Weave with small bounds: the ways in which the file is used.            *)
EXTENDS Weave

Plain   == [lines |-> 2, nulls |-> 1, lists |-> "none", removal |-> TRUE,
            noeol |-> TRUE]
Listed  == [lines |-> 1, nulls |-> 0, lists |-> "disciplined", removal |-> FALSE,
            noeol |-> FALSE]
Removed == [lines |-> 1, nulls |-> 0, lists |-> "none", removal |-> TRUE,
            noeol |-> TRUE]

PlainOrListed == {Plain, Listed}
OnlyRemoved   == {Removed}

=============================================================================
