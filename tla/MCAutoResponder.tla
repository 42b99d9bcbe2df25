---------------------------- MODULE MCAutoResponder ----------------------------
(***************************************************************************)
(* AutoResponder for TLC: three command texts, two of them the built-in   *)
(* names !whois and !whoami, one plain text, two responses, and three ids  *)
(* so that deletes, renames and re-creates all happen.                     *)
(***************************************************************************)
EXTENDS AutoResponder

MCCommandTexts == {"!promo", "!whois", "!whoami"}
MCPlainTexts == {"hello"}

================================================================================
