---------------------------- MODULE MCSessionState ----------------------------
(***************************************************************************)
(* SessionState for TLC.  Two QR refreshes per initialize stand for the   *)
(* code's ten: the limit and the disconnect it causes happen the same way. *)
(* Four QR codes per behaviour let a session pair, drop and pair again.    *)
(***************************************************************************)
EXTENDS SessionState

MCQrMaxRetries == 2
MCMaxQrs == 4
MCClicks == {"k1"}

================================================================================
