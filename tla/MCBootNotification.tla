-------------------------- MODULE MCBootNotification ---------------------------
(***************************************************************************)
(* BootNotification for TLC: two handlers, so that a station boots again   *)
(* while it is being configured, reports of one or two parts, and every    *)
(* row an operator may have written before or meanwhile.                   *)
(***************************************************************************)
EXTENDS BootNotification

CONSTANTS h1, h2
===============================================================================
