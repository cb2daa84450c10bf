-------------------------------- MODULE Fifo --------------------------------
(***************************************************************************)
(* What an endpoint's message queue promises: a first-in first-out queue   *)
(* of at most Depth messages that takes no more once it is closed, but     *)
(* still gives out what it holds.                                          *)
(***************************************************************************)
EXTENDS Integers, Sequences

CONSTANTS Depth, Messages, NoMessage

VARIABLES
    contents,  \* the messages held, oldest first
    shut,      \* whether the owner has closed the endpoint
    taken      \* the message the last successful receive gave out

fifoVars == <<contents, shut, taken>>

FifoInit ==
    /\ contents = << >>
    /\ shut = FALSE
    /\ taken = NoMessage

Put(m) ==
    /\ ~shut /\ Len(contents) < Depth
    /\ contents' = Append(contents, m)
    /\ UNCHANGED <<shut, taken>>

Get ==
    /\ contents # << >>
    /\ taken' = Head(contents)
    /\ contents' = Tail(contents)
    /\ UNCHANGED shut

Shut ==
    /\ shut' = TRUE
    /\ UNCHANGED <<contents, taken>>

FifoNext == (\E m \in Messages : Put(m)) \/ Get \/ Shut

FifoSpec == FifoInit /\ [][FifoNext]_fifoVars
=============================================================================
