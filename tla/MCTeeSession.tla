---------------------------- MODULE MCTeeSession ----------------------------
(* The instance TLC checks: the two builds of Android.mk, for qsee alone    *)
(* and for every backend.                                                   *)
EXTENDS TeeSession
MCChains == {<<"qsee">>, <<"qsee", "gp", "tee", "nosec">>}
=============================================================================
