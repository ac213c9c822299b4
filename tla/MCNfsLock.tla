----------------------------- MODULE MCNfsLock -----------------------------
(* NfsLock for TLC: how often each process locks.                          *)
EXTENDS NfsLock

CONSTANTS CallsWithLinks, CallsWithoutLinks

MCMaxCalls == [links \in BOOLEAN |-> IF links THEN CallsWithLinks ELSE CallsWithoutLinks]

=============================================================================
