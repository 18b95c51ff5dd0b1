-------------------------- MODULE MCAttemptRecording --------------------------
(* TLC instance of AttemptRecording: two or three requests, two keys, one    *)
(* question on two pages, an old and a new server process.                   *)
EXTENDS AttemptRecording
=============================================================================
