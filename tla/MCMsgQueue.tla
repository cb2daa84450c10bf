---------------------------- MODULE MCMsgQueue ----------------------------
(***************************************************************************)
(* MsgQueue with room for three messages (so that head and tail wrap at    *)
(* different times and meet both full and empty) and three messages that   *)
(* can be told apart.                                                      *)
(***************************************************************************)
EXTENDS MsgQueue
=============================================================================
