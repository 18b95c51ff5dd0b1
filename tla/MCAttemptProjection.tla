------------------------ MODULE MCAttemptProjection ------------------------
(* TLC instance of AttemptProjection: two server processes, interchangeable, *)
(* and three attempts whose clock order, uuid order and commit order differ. *)
EXTENDS AttemptProjection, TLC

MCLine == {[at |-> 1, att |-> 2], [at |-> 2, att |-> 1], [at |-> 2, att |-> 3]}

Symmetry == Permutations(Procs)
=============================================================================
