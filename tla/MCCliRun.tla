------------------------------ MODULE MCCliRun ------------------------------
(***************************************************************************)
(* Values for the constants of CliRun: both origins within the ground      *)
(* limit, either of them, or none; two searches or one of an origin.       *)
(***************************************************************************)
EXTENDS CliRun

CONSTANTS o1, o2

MCPlans == {<<o1, o1, o2>>, <<o1, o1>>, <<o2>>, <<>>}

\* In the order of their values.
MCCodes == <<"cabin_mismatch", "layover_too_short">>
MCLayoverCodes == {"layover_too_short"}
=============================================================================
