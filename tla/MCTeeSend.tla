----------------------------- MODULE MCTeeSend -----------------------------
(* The instance TLC checks: the worker and the caller of the HAL.           *)
EXTENDS TeeSend
=============================================================================
