----------------------------- MODULE MCProcess -----------------------------
(***************************************************************************)
(* Process for model checking, with the boot, idle and init threads and    *)
(* three threads, slots, pids and spaces for processes: enough for a       *)
(* process, its child and its grandchild, and for a slot to be taken again *)
(* by a later pid.                                                         *)
(***************************************************************************)
EXTENDS ProcessLifecycle
=============================================================================
