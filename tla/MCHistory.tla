----------------------------- MODULE MCHistory -----------------------------
(* History for TLC: the ends of the century that two digits can name, the  *)
(* turn of the century, and a leap day with its neighbour.                 *)
EXTENDS History

MCInstants ==
  <<<<1969, 1, 1, 0, 0, 0>>,
    <<1999, 12, 31, 23, 59, 59>>,
    <<2000, 2, 29, 9, 30, 0>>,
    <<2000, 3, 1, 0, 0, 0>>,
    <<2068, 12, 31, 23, 59, 59>>>>

=============================================================================
