----------------------------- MODULE MCSubmission ------------------------------
(* Submission for TLC: requests are interchangeable. *)
EXTENDS Submission, TLC

Interchangeable == Permutations(Requests)
================================================================================
