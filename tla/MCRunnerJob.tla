----------------------------- MODULE MCRunnerJob -----------------------------
(* TLC instance of RunnerJob: both streams, one watcher, an output cap that *)
(* one stream alone can pass.                                                *)
EXTENDS RunnerJob
=============================================================================
