----------------------------- MODULE MCUploads -----------------------------
(***************************************************************************)
(* Uploads for TLC: two conversations, a picture and a pasted text.        *)
(***************************************************************************)
EXTENDS Uploads

CONSTANTS new, a, b, img, txt
=============================================================================
