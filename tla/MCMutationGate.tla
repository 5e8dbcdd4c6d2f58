--------------------------- MODULE MCMutationGate ---------------------------
(* Three commits: the second changes the Python files, the third both.  Runs  *)
(* of five mutants, three of which at least are killed, and of none.          *)
EXTENDS MutationGate

MCContent == << [py |-> "p1", ts |-> "t1"], [py |-> "p2", ts |-> "t1"], [py |-> "p3", ts |-> "t2"] >>

MCScores ==
  { s \in [killed : {0, 3, 4, 5}, survived : 0 .. 2, timeout : 0 .. 2, open : 0 .. 2] :
      Total(s) \in {0, 5} }
=============================================================================
