------------------------------ MODULE MsgQueue ------------------------------
(***************************************************************************)
(* The circular message queue inside an endpoint (kernel/ipc/ipc.c):       *)
(* queue[], queue_head, queue_tail and queue_count, all in one             *)
(* uninterrupted system call per step.  The array is never cleared, so a   *)
(* slot outside the live window keeps the message it last held.            *)
(*                                                                         *)
(* A definition marked Mutant is no part of the model (see Scheduler).     *)
(***************************************************************************)
EXTENDS Integers, Sequences

CONSTANTS
    Depth,      \* IPC_MAX_QUEUE_DEPTH
    Messages,   \* the messages a sender may queue
    NoMessage   \* what an array slot holds before its first message

ASSUME DepthAssumption == Depth \in Nat /\ Depth >= 1
ASSUME NoMessageAssumption == NoMessage \notin Messages

VARIABLES
    queue,        \* ep->queue
    queue_head,   \* next read position
    queue_tail,   \* next write position
    queue_count,  \* number of messages held
    closed,       \* IPC_ENDPOINT_CLOSED in ep->flags
    msg_out       \* the message the last dequeue copied out

qVars == <<queue, queue_head, queue_tail, queue_count, closed, msg_out>>

Positions == 0 .. Depth - 1

\* sys_ipc_endpoint_create initialises head, tail, count and flags.
QInit ==
    /\ queue = [i \in Positions |-> NoMessage]
    /\ queue_head = 0
    /\ queue_tail = 0
    /\ queue_count = 0
    /\ closed = FALSE
    /\ msg_out = NoMessage

\* A full or a closed queue refuses (-VE_NOMEM, -VE_BADF) and is unchanged.
ipc_queue_enqueue(m) ==
    /\ queue_count < Depth
    /\ ~closed
    /\ queue' = [queue EXCEPT ![queue_tail] = m]
    /\ queue_tail' = (queue_tail + 1) % Depth
    /\ queue_count' = queue_count + 1
    /\ UNCHANGED <<queue_head, closed, msg_out>>

\* Mutant: the head is advanced before the message is read.
DequeueNext ==
    /\ queue_count > 0
    /\ queue_head' = (queue_head + 1) % Depth
    /\ msg_out' = queue[queue_head']
    /\ queue_count' = queue_count - 1
    /\ UNCHANGED <<queue, queue_tail, closed>>

\* An empty queue returns -1 and is unchanged; closing does not matter here.
ipc_queue_dequeue ==
    /\ queue_count > 0
    /\ msg_out' = queue[queue_head]
    /\ queue_head' = (queue_head + 1) % Depth
    /\ queue_count' = queue_count - 1
    /\ UNCHANGED <<queue, queue_tail, closed>>

\* sys_ipc_close by the owner.
CloseQueue ==
    /\ closed' = TRUE
    /\ UNCHANGED <<queue, queue_head, queue_tail, queue_count, msg_out>>

QNext ==
    \/ \E m \in Messages : ipc_queue_enqueue(m)
    \/ ipc_queue_dequeue
    \/ CloseQueue

QSpec == QInit /\ [][QNext]_qVars

-----------------------------------------------------------------------------
(***************************************************************************)
(* The indices stay in the array and agree with each other: head, tail and *)
(* count are three variables for two degrees of freedom, and only count    *)
(* tells a full queue from an empty one when head and tail meet.           *)
(***************************************************************************)
IndicesAgree ==
    /\ queue \in [Positions -> Messages \cup {NoMessage}]
    /\ queue_head \in Positions
    /\ queue_tail \in Positions
    /\ queue_count \in 0 .. Depth
    /\ queue_tail = (queue_head + queue_count) % Depth
    /\ \A i \in 0 .. queue_count - 1 : queue[(queue_head + i) % Depth] \in Messages

Window == [i \in 1 .. queue_count |-> queue[(queue_head + i - 1) % Depth]]

F == INSTANCE Fifo WITH contents <- Window, shut <- closed, taken <- msg_out

(***************************************************************************)
(* The ring implements a bounded FIFO: the live window, read from the head *)
(* around the end of the array, is the abstract queue, so no message is    *)
(* lost, repeated, reordered or invented as the indices wrap.              *)
(***************************************************************************)
ImplementsFifo == F!FifoSpec
=============================================================================
