---------------------------------- MODULE Tty ----------------------------------
(***************************************************************************)
(* The console terminal (kernel/dev/tty.c) over the serial device, and the *)
(* read and write system calls on it (kernel/syscall/syscall.c): one line  *)
(* buffer, shared by every process whose descriptors 0 to 2 are FD_TTY.    *)
(*                                                                         *)
(* A byte is one of four kinds.  What is echoed is left out, and with it   *)
(* all that tells a printable byte from a control byte that is staged; the *)
(* flag that gates the echo is kept.                                       *)
(***************************************************************************)
EXTENDS Device, Sequences

CONSTANTS
    LineMax,    \* TTY_LINE_MAX
    RxDepth,    \* bytes the UART's receive FIFO holds
    Spins,      \* bytes one read lets in, 128
    Chunk,      \* sizeof(buf) in sys_read and sys_write, 256
    Counts      \* the byte counts of the calls

ASSUME TtyAssumption ==
    /\ LineMax \in Nat \ {0, 1}
    /\ {RxDepth, Spins, Chunk} \subseteq Nat \ {0}
    /\ Counts \subseteq Nat \ {0}

VARIABLES
    tty_line, tty_line_len, tty_echo,
    rx,         \* the UART's receive FIFO
    result      \* of the last system call: what it returned and did

ttyVars == <<tty_line, tty_line_len, tty_echo, rx, result>>
vars == <<devVars, ttyVars>>

Kinds == {"plain", "newline", "erase", "eof"}
Nul == "nul"

LineInit == [i \in 0 .. LineMax - 1 |-> Nul]
Idle == [call |-> "none"]
VE_FAULT == 0 - 14
VE_IO == 0 - 5
VE_BADF == 0 - 9

-----------------------------------------------------------------------------
\* A line discipline state: the array and the length.

\* tty_feed.  CR and LF are one kind: both stage '\n'.
tty_feed(l, c) ==
    CASE c = "erase" /\ l.len > 0 -> [l EXCEPT !.len = @ - 1]
      [] c = "eof" -> [l EXCEPT !.len = 0]
      [] c \notin {"erase", "eof"} /\ l.len < LineMax - 1 ->
            [line |-> [l.line EXCEPT ![l.len] = c], len |-> l.len + 1]
      [] OTHER -> l

Least(a, b) == IF a < b THEN a ELSE b

\* The loop of tty_read that pumps what the UART has, at most Spins bytes.
Pumped ==
    LET pump[k \in 0 .. Spins] ==
            IF k = 0 THEN [line |-> tty_line, len |-> tty_line_len]
            ELSE IF k <= Len(rx) THEN tty_feed(pump[k - 1], rx[k])
            ELSE pump[k - 1]
    IN  pump[Spins]

\* Mutant: the handed-out prefix is counted off and not shifted out.
ConsumeNoShift(l, got) == [l EXCEPT !.len = @ - got]

\* The rest of the line moves down over the prefix that was handed out.
Consume(l, got) ==
    [line |-> [i \in 0 .. LineMax - 1 |->
                  IF i + got < l.len THEN l.line[i + got] ELSE l.line[i]],
     len  |-> l.len - got]

\* sys_read on the console.  A fault in copying to the caller comes after the
\* bytes were consumed: they are lost.
sys_read(count, fault) ==
    LET l == Pumped
        got == Least(Least(count, Chunk), l.len)
        rest == Consume(l, got)
    IN  /\ tty_line' = rest.line /\ tty_line_len' = rest.len
        /\ rx' = SubSeq(rx, Spins + 1, Len(rx))
        /\ result' = [call |-> "read",
                      ret |-> IF fault /\ got > 0 THEN VE_FAULT ELSE got,
                      bytes |-> [i \in 1 .. got |-> l.line[i - 1]]]
        /\ UNCHANGED <<devVars, tty_echo>>

\* dev_write through the console's instance.
ConsoleUp == console # NoInst /\ dev_inst_valid(console)

\* Mutant: a fault reports what was asked for so far.
WriteOvercounts(count, readable) ==
    LET sent == IF ConsoleUp THEN (Least(count, readable) \div Chunk) * Chunk ELSE 0
    IN  [ret |-> IF console = NoInst THEN VE_IO ELSE Least(count, readable),
         sent |-> sent]

\* The chunk loop of sys_write, the first `readable' bytes of the caller's buffer
\* being readable.  A chunk that faults or that the device refuses ends the
\* call; the chunks before it have gone out and are what it returns.
WriteLoop(count, readable) ==
    LET from[done \in 0 .. count] ==
            LET chunk == Least(count - done, Chunk)
            IN  IF done = count THEN [ret |-> done, sent |-> done]
                ELSE IF done + chunk > readable
                     THEN [ret |-> IF done > 0 THEN done ELSE VE_FAULT, sent |-> done]
                ELSE IF ~ConsoleUp
                     THEN [ret |-> IF done > 0 THEN done ELSE VE_BADF, sent |-> done]
                ELSE from[done + chunk]
    IN  IF console = NoInst THEN [ret |-> VE_IO, sent |-> 0] ELSE from[0]

sys_write(count, readable) ==
    LET w == WriteLoop(count, readable)
    IN  /\ result' = [call |-> "write", count |-> count, readable |-> readable,
                      ret |-> w.ret, sent |-> w.sent]
        /\ UNCHANGED <<devVars, tty_line, tty_line_len, tty_echo, rx>>

\* The two requests of tty_ioctl.
tty_ioctl(on) ==
    /\ tty_echo' = on
    /\ result' = Idle
    /\ UNCHANGED <<devVars, tty_line, tty_line_len, rx>>

\* The other end of the line: a byte reaches the UART; one too many is lost.
Type(c) ==
    /\ Len(rx) < RxDepth
    /\ rx' = Append(rx, c)
    /\ result' = Idle
    /\ UNCHANGED <<devVars, tty_line, tty_line_len, tty_echo>>

Drive ==
    /\ DevNext
    /\ result' = Idle
    /\ UNCHANGED <<tty_line, tty_line_len, tty_echo, rx>>

-----------------------------------------------------------------------------
Init ==
    /\ serial_drv_register
    /\ tty_line = LineInit /\ tty_line_len = 0 /\ tty_echo = TRUE
    /\ rx = <<>> /\ result = Idle

Next ==
    \/ \E n \in Counts : \E fault \in BOOLEAN : sys_read(n, fault)
    \/ \E n \in Counts : \E readable \in 0 .. n : sys_write(n, readable)
    \/ \E on \in BOOLEAN : tty_ioctl(on)
    \/ \E c \in Kinds : Type(c)
    \/ Drive

Spec == Init /\ [][Next]_vars

-----------------------------------------------------------------------------
Line == INSTANCE Terminal WITH
            Capacity <- LineMax - 1, LongestRead <- Chunk,
            typed <- SubSeq(rx, 1, Least(Spins, Len(rx))),
            staged <- [i \in 1 .. tty_line_len |-> tty_line[i - 1]],
            handed <- IF result.call = "read" THEN result.bytes ELSE <<>>

(***************************************************************************)
(* The array, its length and the shift are the edited line of Terminal:    *)
(* whatever is typed between and however the reads cut it, every staged    *)
(* byte is handed out once, in order, and none that was erased, flushed or *)
(* left over from an earlier line ever is.                                 *)
(***************************************************************************)
ImplementsTerminal == Line!Spec

(***************************************************************************)
(* What a write returns is what went out: a count only when exactly that   *)
(* many bytes of the buffer, whole chunks or all of it, were sent, and an  *)
(* error only when none was.  With the console open and the buffer         *)
(* readable, everything is sent.                                           *)
(***************************************************************************)
WriteReportsWhatWasSent ==
    result.call = "write" =>
        /\ result.sent = IF result.ret < 0 THEN 0 ELSE result.ret
        /\ result.sent <= result.readable
        /\ result.ret # 0
        /\ console # NoInst /\ result.readable = result.count
              => result.ret = result.count
=============================================================================
