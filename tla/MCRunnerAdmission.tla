-------------------------- MODULE MCRunnerAdmission --------------------------
(* TLC instance of RunnerAdmission: the names of starts, lessons, targets   *)
(* and leases are interchangeable.                                          *)
EXTENDS RunnerAdmission, TLC

Symmetry ==
    Permutations(Starts) \union Permutations(Lessons)
        \union Permutations(Targets) \union Permutations(Leases)
=============================================================================
