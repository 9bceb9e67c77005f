---------------------------- MODULE MCChatClient ----------------------------
(***************************************************************************)
(* ChatClient for TLC.                                                     *)
(***************************************************************************)
EXTENDS ChatClient

CONSTANTS a, b
=============================================================================
