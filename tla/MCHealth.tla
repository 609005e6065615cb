------------------------------ MODULE MCHealth ------------------------------
(* The health tests together, on three time deltas: windows long             *)
(* enough for a replacement in the middle of each, and cutoffs every test    *)
(* can reach first.                                                          *)
EXTENDS Health

MCDelta == 0 .. Word - 1

MCAptCutoff == <<3, 4>>

MCAptCutoffPermanent == <<4, 4>>

MCLagLocal == <<2, 3>>

MCLagLocalPermanent == <<3, 4>>

MCLagGlobal == <<2, 3>>

MCLagGlobalPermanent == <<3, 4>>
=============================================================================
