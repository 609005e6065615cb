----------------------------- MODULE TimeDelta -----------------------------
(* The time deltas of the noise source, divided by the common divisor of the *)
(* clock.  Zero is one of them: the memory of a collector starts out zeroed. *)
EXTENDS Oversampling

CONSTANT Delta

ASSUME DeltaAssumption == 0 \in Delta
=============================================================================
