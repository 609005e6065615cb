--------------------------- MODULE MCConditioning ---------------------------
(***************************************************************************)
(* A sponge of 25 lanes of two bytes, a rate of four of them and two       *)
(* rounds.  The pieces stay short of a block, fill it, and go beyond it by *)
(* half of one; the requests are for nothing, for less than there is and   *)
(* for more.                                                               *)
(***************************************************************************)
EXTENDS Conditioning
=============================================================================
