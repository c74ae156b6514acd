------------------------------- MODULE Receive -------------------------------
(***************************************************************************)
(* net_trace.c around the receives of one UDP socket and the watchdog that *)
(* looks for a reader that left data in it.  Darling's own blocking        *)
(* receive may sleep on although data is queued, so recvfrom and recvmsg   *)
(* on a blocking socket poll in slices instead; recv is passed through.    *)
(*                                                                         *)
(* Datagrams are counted, time is in ticks; the age of the last read is    *)
(* kept only as long as it matters.  Counters and logging are left out.    *)
(***************************************************************************)
EXTENDS Naturals

CONSTANTS
    Buffer,          \* datagrams the socket holds
    PollSlice,       \* the 50 ms of a poll
    Timeouts,        \* values of SO_RCVTIMEO, 0 for none
    Young, Old,      \* a reader is stalled from the age Young (2 s) to Old (30 s)
    Never            \* no read yet

ASSUME ReceiveAssumption ==
    /\ Buffer \in Nat \ {0} /\ PollSlice \in Nat \ {0} /\ Timeouts \subseteq Nat
    /\ Young \in Nat /\ Old \in Nat /\ Young < Old /\ Never = Old + 2

VARIABLES
    data,       \* datagrams in the socket
    recv,       \* the reader's call
    reader,     \* whether reader_thread is set
    age,        \* ticks since last_read_time, up to Old + 1; Never before the first
    dumped,     \* stall_dumped
    watch       \* the watchdog: asleep, about to look, about to signal

receiveVars == <<data, recv, reader, age, dumped, watch>>

NoReceive == [at |-> "out", timeout |-> 0, waited |-> 0, left |-> 0, heard |-> FALSE, result |-> "none"]

ReceiveInit ==
    /\ data = 0 /\ recv = NoReceive
    /\ reader = FALSE /\ age = Never /\ dumped = FALSE
    /\ watch = "asleep"
------------------------------------------------------------------------------
(* The receives *)

\* count_receive: remembers the thread; a read of data forgets the stall.
CountReceive(result) ==
    /\ reader' = TRUE
    /\ age' = IF result = "data" THEN 0 ELSE age
    /\ dumped' = IF result = "data" THEN FALSE ELSE dumped

Returns(result) == recv' = [NoReceive EXCEPT !.result = result]

\* emulate_blocking says yes: a blocking recvfrom or recvmsg on a UDP socket.
CallEmulated(timeout) ==
    /\ recv.at = "out"
    /\ recv' = [NoReceive EXCEPT !.at = "try", !.timeout = timeout]
    /\ UNCHANGED <<data, reader, age, dumped, watch>>

\* It says no: MSG_DONTWAIT or a socket that does not block.
ReceiveNow ==
    /\ recv.at = "out"
    /\ LET result == IF data > 0 THEN "data" ELSE "again"
       IN  /\ data' = IF data > 0 THEN data - 1 ELSE data
           /\ CountReceive(result) /\ Returns(result)
    /\ UNCHANGED watch

\* traced_recv on a blocking socket: the kernel's receive.
CallRecv ==
    /\ recv.at = "out" /\ data = 0
    /\ recv' = [NoReceive EXCEPT !.at = "asleep"]
    /\ UNCHANGED <<data, reader, age, dumped, watch>>

RecvWakes ==
    /\ recv.at = "asleep" /\ recv.heard /\ data > 0
    /\ data' = data - 1
    /\ CountReceive("data") /\ Returns("data")
    /\ UNCHANGED watch

\* Mutant: a full slice although less is left.
PollTimeFull(waited, timeout) == PollSlice

\* wait_readable_or_timeout: how long the next poll may last.
PollTime(waited, timeout) ==
    IF timeout > 0 /\ timeout - waited < PollSlice THEN timeout - waited + 1 ELSE PollSlice

\* One round of the emulated receive: the read that does not wait, then the
\* end of SO_RCVTIMEO, which is not counted as a receive, or a poll.
TryReceive ==
    /\ recv.at = "try"
    /\ \/ /\ data > 0
          /\ data' = data - 1
          /\ CountReceive("data") /\ Returns("data")
       \/ /\ data = 0
          /\ IF recv.timeout > 0 /\ recv.waited >= recv.timeout
             THEN Returns("again")
             ELSE recv' = [recv EXCEPT !.at = "poll", !.left = PollTime(recv.waited, recv.timeout)]
          /\ UNCHANGED <<data, reader, age, dumped>>
    /\ UNCHANGED watch

\* poll ends with its slice, or before it when it notices data.
PollEnds ==
    /\ recv.at = "poll" /\ (recv.left = 0 \/ data > 0)
    /\ recv' = [recv EXCEPT !.at = "try"]
    /\ UNCHANGED <<data, reader, age, dumped, watch>>

ReceiveStep == TryReceive \/ PollEnds \/ RecvWakes
------------------------------------------------------------------------------
(* The network, time and the watchdog *)

\* A datagram arrives; a receive asleep in the kernel may not hear of it.
Arrive ==
    /\ data < Buffer
    /\ data' = data + 1
    /\ \E heard \in BOOLEAN :
           recv' = IF recv.at = "asleep" /\ heard THEN [recv EXCEPT !.heard = TRUE] ELSE recv
    /\ UNCHANGED <<reader, age, dumped, watch>>

\* check_stalls up to the peek, for the one socket.
Look ==
    /\ watch = "look"
    /\ watch' = IF reader /\ ~dumped /\ age >= Young /\ age <= Old /\ data > 0
                THEN "signal" ELSE "asleep"
    /\ UNCHANGED <<data, recv, reader, age, dumped>>

\* Mutant: the handler is installed with SA_RESTART.
MarkAndSignalRestarts ==
    /\ watch = "signal"
    /\ watch' = "asleep"
    /\ dumped' = TRUE
    /\ recv' = IF recv.at = "poll" THEN [recv EXCEPT !.at = "try"] ELSE recv
    /\ UNCHANGED <<data, reader, age>>

\* The rest of it.  The signal ends a receive in the kernel with EINTR and a
\* poll before its time, after which the emulation reads again.
MarkAndSignal ==
    /\ watch = "signal"
    /\ watch' = "asleep"
    /\ dumped' = TRUE
    /\ CASE recv.at = "asleep" -> Returns("interrupted")
         [] recv.at = "poll"   -> recv' = [recv EXCEPT !.at = "try"]
         [] OTHER              -> UNCHANGED recv
    /\ UNCHANGED <<data, reader, age>>

\* A tick: polls are not late, a round of the loop takes no time, and the
\* watchdog, once a second, has looked by then.
ReceivePasses ==
    /\ recv.at # "try" /\ (recv.at = "poll" => recv.left > 0)
    /\ watch = "asleep" /\ watch' = "look"
    /\ recv' = IF recv.at = "poll"
               THEN [recv EXCEPT !.left = @ - 1, !.waited = IF recv.timeout > 0 THEN @ + 1 ELSE 0]
               ELSE recv
    /\ age' = IF age <= Old THEN age + 1 ELSE age
    /\ UNCHANGED <<data, reader, dumped>>
==============================================================================
