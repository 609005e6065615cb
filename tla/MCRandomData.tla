---------------------------- MODULE MCRandomData ----------------------------
(* Blocks of nine measurements, three of which the RCT with memory observes. *)
(* The cutoff is below the cap of three, as those of the NTG.1 tables are at *)
(* the low rates, so that the test can fail before its window ends.          *)
EXTENDS RandomData
=============================================================================
