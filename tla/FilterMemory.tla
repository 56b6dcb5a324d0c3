---------------------------- MODULE FilterMemory ----------------------------
(***************************************************************************)
(* What a filter remembers of the sound that came through it: nothing, it  *)
(* is at rest; every sample since it was; or not all of them.              *)
(***************************************************************************)
Memory == {"rest", "true", "stale"}

\* It is given a sample ...
Fed(m) == IF m = "rest" THEN "true" ELSE m

\* ... or is not.
Skipped(m) == IF m = "rest" THEN "rest" ELSE "stale"
=============================================================================
