--------------------------- MODULE MCWhatsappClient ---------------------------
(***************************************************************************)
(* WhatsappClient for TLC.  qrMaxRetries 1 and two qr events, so that the  *)
(* client gives up on a QR, is paired by a scan and restored from LocalAuth *)
(* (several "authenticated" events, each starting a sync); one click of   *)
(* the dashboard's logout at a time, racing the unlink and the sync; one   *)
(* contact of the phone, one group, and one send request, to a number, a   *)
(* group id, the group's name or an unknown name.                          *)
(***************************************************************************)
EXTENDS WhatsappClient

MCQrMaxRetries == 1
MCMaxQrs == 2
MCClicks == {"k1"}
MCNumbers == {"6281"}
MCBook == {"6281"}

================================================================================
