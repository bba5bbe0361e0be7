-------------------------- MODULE MCAcquirerTiming --------------------------
(* Instances of AcquirerTiming for TLC. *)
EXTENDS AcquirerTiming, TLC

CONSTANTS s1, s2, r1, r2

SalesAndReversals == Permutations({s1, s2}) \cup Permutations({r1, r2})
=============================================================================
