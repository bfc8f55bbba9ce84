------------------------------ MODULE TcpStream ------------------------------
(* Sockets below the transports (src/common/mcp_socket_utils.c) and the messages   *)
(* that go over one, each with its length in front (src/common/mcp_framing.c).     *)
(* Three things that do not touch each other: a socket is connected or made to     *)
(* listen, address by address; a sender writes a vector of buffers as far as the   *)
(* kernel has room while a receiver reads the bytes that have come; and a thread   *)
(* waits for a socket to become readable.                                        *)
(*                                                                             *)
(* A byte is a number below Base, and a length takes two bytes instead of four.   *)
(* A call that is interrupted or would block is made again: it is no step here.   *)
(* Allocations succeed.                                                         *)
EXTENDS Integers, SequencesExt

CONSTANTS Kinds,            \* "connect", "nonblocking" or "listen": who asks for a socket
          Addresses,        \* how many addresses the host has
          ErrorsShow,       \* select reports a failed connection as an error, and not
                            \* as a socket that can be written to, as Linux does
          Senders,          \* threads that send over the same socket
          Messages,         \* what is sent: sequences of bytes
          Base,
          MaxSize,          \* max_message_size of the receiver
          Batch,            \* how many messages one call sends or receives at most
          Window,           \* how many bytes fit into the kernel's buffers
          MaxFrames,        \* bound: messages that are sent
          Timeouts,         \* that mcp_socket_wait_readable is called with
          Interval, Second, \* check_interval_ms and a second
          MaxTime           \* bound of the clock

VARIABLES dial,             \* the socket that is asked for
          link,             \* "up", "closed" or "reset"
          wire,             \* bytes on their way
          stop_flag,        \* of the sending and of the receiving side
          sender,           \* the vector that each has left to write
          receiver,
          sent, got,        \* history: messages in the order they were begun, and received
          undefined,        \* memory was freed by a pointer that malloc did not give
          now, wait         \* the clock, and the thread that waits: until when it polls,
                            \* and at last when it returned

dialVars == <<dial>>
streamVars == <<link, wire, sender, receiver, sent, got, undefined>>
waitVars == <<now, wait>>
vars == <<dialVars, stop_flag, streamVars, waitVars>>

Bytes == 0 .. Base - 1
Invalid == [status |-> "none", blocking |-> TRUE]
Idle == [pc |-> "idle", iov |-> <<>>, copied |-> FALSE, moved |-> FALSE]
Resting == [pc |-> "idle", buf |-> <<>>, need |-> 0, count |-> 0, max |-> 0]
Awake == [pc |-> "idle", timeout |-> 0, start |-> 0, began |-> 0, until |-> 0, answer |-> 0]

TypeOK ==
    /\ dial.kind \in Kinds /\ dial.left \in 0 .. Addresses /\ dial.open \in 0 .. 1
    /\ dial.pc \in {"lookup", "socket", "mode", "connect", "select", "check", "restore",
                    "optimize", "bind", "listen", "returned"}
    /\ dial.sock.status \in {"none", "new", "pending", "refused", "connected", "bound",
                             "listening"}
    /\ link \in {"up", "closed", "reset"}
    /\ wire \in Seq(Bytes) /\ Len(wire) <= Window
    /\ stop_flag \in [{"send", "receive"} -> BOOLEAN]
    /\ sender \in [Senders -> [pc : {"idle", "writing", "failed"}, iov : Seq(Seq(Bytes)),
                               copied : BOOLEAN, moved : BOOLEAN]]
    /\ receiver.pc \in {"idle", "waiting", "length", "body", "failed"}
    /\ receiver.buf \in Seq(Bytes) /\ receiver.count \in 0 .. Batch
    /\ undefined \in BOOLEAN
    /\ now \in 0 .. MaxTime /\ wait.pc \in {"idle", "polling", "returned"}

Init ==
    /\ \E kind \in Kinds : dial = [kind |-> kind, pc |-> "lookup", left |-> Addresses,
                                   sock |-> Invalid, open |-> 0]
    /\ link = "up" /\ wire = <<>> /\ stop_flag = [s \in {"send", "receive"} |-> FALSE]
    /\ sender = [s \in Senders |-> Idle] /\ receiver = Resting
    /\ sent = <<>> /\ got = <<>> /\ undefined = FALSE
    /\ now = 0 /\ wait = Awake

-----------------------------------------------------------------------------
(* A socket that connects or listens.  "continue" in the code goes on with the    *)
(* next address, "break" leaves the loop                                         *)

Go(pc, sock) == dial' = [dial EXCEPT !.pc = pc, !.sock = sock]

NextAddress(open) ==
    dial' = [dial EXCEPT !.pc = IF dial.left > 1 THEN "socket" ELSE "returned",
                         !.left = @ - 1, !.sock = Invalid, !.open = open]

\* Mutant: a socket that is given up is not closed.
GiveUpOpen == NextAddress(dial.open)

\* mcp_socket_close, and the next address.
GiveUp == NextAddress(dial.open - 1)

GetAddrInfo ==
    /\ dial.pc = "lookup"
    /\ Go("socket", Invalid) \/ Go("returned", Invalid)

NewSocket ==
    /\ dial.pc = "socket"
    /\ \/ dial' = [dial EXCEPT !.pc = IF dial.kind = "listen" THEN "optimize" ELSE "mode",
                               !.sock = [status |-> "new", blocking |-> TRUE], !.open = 1]
       \/ NextAddress(dial.open)

Optimize ==
    /\ dial.pc = "optimize"
    /\ Go("bind", dial.sock) \/ GiveUp

Bind ==
    /\ dial.pc = "bind"
    /\ Go("listen", [dial.sock EXCEPT !.status = "bound"]) \/ GiveUp

\* No further address is tried when listen fails.
Listen ==
    /\ dial.pc = "listen"
    /\ \/ Go("returned", [dial.sock EXCEPT !.status = "listening"])
       \/ dial' = [dial EXCEPT !.pc = "returned", !.sock = Invalid, !.open = 0]

\* A socket that cannot be made non-blocking is connected as it is, or given up.
SetMode ==
    /\ dial.pc = "mode"
    /\ \/ Go("connect", [dial.sock EXCEPT !.blocking = FALSE])
       \/ GiveUp
       \/ /\ dial.kind = "connect"
          /\ Go("returned", [dial.sock EXCEPT !.status = "connected"])

Done == IF dial.kind = "connect" THEN "restore" ELSE "returned"

Connect ==
    /\ dial.pc = "connect"
    /\ \/ Go(Done, [dial.sock EXCEPT !.status = "connected"])
       \/ Go("select", [dial.sock EXCEPT !.status = "pending"])
       \/ GiveUp

\* select ends with the connection or its failure; or with the time, or an error.
Select ==
    /\ dial.pc = "select"
    /\ \/ \E status \in {"connected", "refused"} :
             Go("check", [dial.sock EXCEPT !.status = status])
       \/ GiveUp

\* SO_ERROR is looked at if the socket is in the set of errors, and a second time,
\* whether it is there or not, by mcp_socket_connect_nonblocking only.
CheckConnected ==
    /\ dial.pc = "check"
    /\ \/ GiveUp
       \/ /\ dial.sock.status = "refused" => ~ErrorsShow /\ dial.kind = "connect"
          /\ Go(Done, dial.sock)

Restore ==
    /\ dial.pc = "restore"
    /\ Go("returned", [dial.sock EXCEPT !.blocking = TRUE]) \/ GiveUp

Dial ==
    /\ \/ GetAddrInfo \/ NewSocket \/ Optimize \/ Bind \/ Listen
       \/ SetMode \/ Connect \/ Select \/ CheckConnected \/ Restore
    /\ UNCHANGED <<stop_flag, streamVars, waitVars>>

-----------------------------------------------------------------------------
(* Sending *)

Length(m) == <<Len(m) \div Base, Len(m) % Base>>
Frame(m) == Length(m) \o m

\* The buffers of a frame: an empty message has none of its own.
Vectors(m) == IF m = <<>> THEN <<Length(m)>> ELSE <<Length(m), m>>

Begin(s, iov, messages) ==
    /\ sender[s].pc = "idle" /\ ~undefined /\ Len(sent) + Len(messages) <= MaxFrames
    /\ sender' = [sender EXCEPT ![s] = [pc |-> "writing", iov |-> iov,
                                        copied |-> Len(iov) > 1, moved |-> FALSE]]
    /\ sent' = sent \o messages
    /\ UNCHANGED <<dialVars, stop_flag, waitVars, link, wire, receiver, got, undefined>>

\* mcp_socket_send_exact: what the TCP client sends is a frame already, in one buffer.
SendExact(s) == \E m \in Messages : Begin(s, <<Frame(m)>>, <<m>>)

SendMessage(s) == \E m \in Messages : Begin(s, Vectors(m), <<m>>)

SendBatch(s) ==
    /\ Batch > 1
    /\ \E m, n \in Messages : Begin(s, Vectors(m) \o Vectors(n), <<m, n>>)

Sum(iov, i) == Len(FlattenSeq(SubSeq(iov, 1, i)))

\* How many buffers of the vector the first k bytes fill.
Skipped(iov, k) ==
    CHOOSE i \in 0 .. Len(iov) - 1 : Sum(iov, i) <= k /\ Sum(iov, i + 1) > k

\* Mutant: a buffer that was written in part is written once more.
AdjustedWhole(iov, k) == SubSeq(iov, Skipped(iov, k) + 1, Len(iov))

\* The vector without its first k bytes, which are not all.
Adjusted(iov, k) ==
    LET i == Skipped(iov, k)
        rest == SubSeq(iov, i + 1, Len(iov))
    IN [rest EXCEPT ![1] = SubSeq(@, k - Sum(iov, i) + 1, Len(@))]

\* The copy of the vector is freed by the pointer that moved with the buffers.
Return(s, pc) ==
    /\ sender' = [sender EXCEPT ![s] = [Idle EXCEPT !.pc = pc]]
    /\ undefined' = (undefined \/ (sender[s].copied /\ sender[s].moved))

Write(s) ==
    /\ sender[s].pc = "writing" /\ ~undefined /\ ~stop_flag["send"] /\ link = "up"
    /\ LET iov == sender[s].iov
           all == FlattenSeq(iov)
       IN \E k \in 1 .. Len(all) :
             /\ Len(wire) + k <= Window
             /\ wire' = wire \o SubSeq(all, 1, k)
             /\ IF k = Len(all)
                THEN Return(s, "idle")
                ELSE /\ sender' = [sender EXCEPT ![s].iov = Adjusted(iov, k),
                                                 ![s].moved = @ \/ Skipped(iov, k) > 0]
                     /\ UNCHANGED undefined
    /\ UNCHANGED <<dialVars, stop_flag, waitVars, link, receiver, sent, got>>

\* The connection is gone, or the transport is being stopped.
WriteFails(s) ==
    /\ sender[s].pc = "writing" /\ ~undefined
    /\ stop_flag["send"] \/ link # "up"
    /\ Return(s, "failed")
    /\ UNCHANGED <<dialVars, stop_flag, waitVars, link, wire, receiver, sent, got>>

-----------------------------------------------------------------------------
(* Receiving *)

Decode(b) == b[1] * Base + b[2]

Reading(need, pc) == [receiver EXCEPT !.pc = pc, !.buf = <<>>, !.need = need]

\* mcp_framing_recv_batch with up to max messages, which is not begun once it is told
\* to stop; mcp_framing_recv_message is the case of one.
Receive ==
    /\ receiver.pc = "idle"
    /\ \E max \in 1 .. Batch :
          /\ max > 1 => ~stop_flag["receive"]
          /\ receiver' = [Reading(2, "length") EXCEPT !.count = 0, !.max = max]
    /\ UNCHANGED <<dialVars, stop_flag, waitVars, link, wire, sender, sent, got, undefined>>

Readable == wire # <<>> \/ link # "up"

\* A call that has a message already returns it and not the failure.
Fail == receiver' = IF receiver.count > 0 THEN Resting ELSE [Resting EXCEPT !.pc = "failed"]

\* mcp_socket_wait_readable with no time to wait, before a further message.
MoreReadable ==
    /\ receiver.pc = "waiting"
    /\ receiver' = IF stop_flag["receive"] \/ ~Readable THEN Resting ELSE Reading(2, "length")
    /\ UNCHANGED <<dialVars, stop_flag, waitVars, link, wire, sender, sent, got, undefined>>

Delivered(m) ==
    /\ got' = Append(got, m)
    /\ receiver' = IF receiver.count + 1 < receiver.max
                   THEN [Resting EXCEPT !.pc = "waiting", !.count = receiver.count + 1,
                                        !.max = receiver.max]
                   ELSE Resting

\* Mutant: a message that is too long is cut, and its rest is left in the socket.
LengthReadCut(b) ==
    IF Decode(b) = 0 THEN Delivered(<<>>)
    ELSE /\ receiver' = Reading(IF Decode(b) > MaxSize THEN MaxSize ELSE Decode(b), "body")
         /\ UNCHANGED got

LengthRead(b) ==
    CASE Decode(b) = 0 -> Delivered(<<>>)
      [] Decode(b) > MaxSize -> Fail /\ UNCHANGED got
      [] OTHER -> receiver' = Reading(Decode(b), "body") /\ UNCHANGED got

\* mcp_socket_recv_exact takes what has come, and goes on until it has enough.
Read ==
    /\ receiver.pc \in {"length", "body"} /\ ~stop_flag["receive"] /\ link # "reset"
    /\ \E k \in 1 .. receiver.need - Len(receiver.buf) :
          /\ k <= Len(wire)
          /\ wire' = SubSeq(wire, k + 1, Len(wire))
          /\ LET buf == receiver.buf \o SubSeq(wire, 1, k)
             IN CASE Len(buf) < receiver.need ->
                        receiver' = [receiver EXCEPT !.buf = buf] /\ UNCHANGED got
                  [] Len(buf) = receiver.need /\ receiver.pc = "length" -> LengthRead(buf)
                  [] OTHER -> Delivered(buf)
    /\ UNCHANGED <<dialVars, stop_flag, waitVars, link, sender, sent, undefined>>

ReadFails ==
    /\ receiver.pc \in {"length", "body"}
    /\ stop_flag["receive"] \/ link = "reset" \/ (link = "closed" /\ wire = <<>>)
    /\ Fail
    /\ UNCHANGED <<dialVars, stop_flag, waitVars, link, wire, sender, sent, got, undefined>>

\* The sending end is closed, or the connection is lost with what was on its way.
Break ==
    /\ link = "up"
    /\ \/ link' = "closed" /\ UNCHANGED wire
       \/ link' = "reset" /\ wire' = <<>>
    /\ UNCHANGED <<dialVars, stop_flag, waitVars, sender, receiver, sent, got, undefined>>

Stop(side) ==
    /\ ~stop_flag[side]
    /\ stop_flag' = [stop_flag EXCEPT ![side] = TRUE]
    /\ UNCHANGED <<dialVars, streamVars, waitVars>>

-----------------------------------------------------------------------------
(* mcp_socket_wait_readable.  Time is measured in whole seconds of the clock; a    *)
(* timeout of -1 is none                                                         *)

Elapsed == (now \div Second - wait.start) * Second

\* When the next poll ends: after one interval or the time that remains.
PollUntil(timeout, elapsed) ==
    CASE timeout < 0 -> now + Interval
      [] timeout = 0 -> now
      [] OTHER -> now + IF timeout - elapsed < Interval THEN timeout - elapsed ELSE Interval

\* Mutant: the end of one interval counts as the end of the time.
TimedOutSoon == wait.timeout >= 0

TimedOut == wait.timeout = 0 \/ (wait.timeout > 0 /\ Elapsed >= wait.timeout)

WaitReadable ==
    /\ wait.pc \in {"idle", "returned"}
    /\ \E timeout \in Timeouts :
          wait' = [pc |-> "polling", timeout |-> timeout, start |-> now \div Second,
                   began |-> now, until |-> PollUntil(timeout, 0), answer |-> 0]
    /\ UNCHANGED <<dialVars, stop_flag, streamVars, now>>

Answer(answer) == wait' = [wait EXCEPT !.pc = "returned", !.answer = answer, !.until = now]

\* poll returns because of the flag, the socket, or its time.
Poll ==
    /\ wait.pc = "polling"
    /\ \/ stop_flag["receive"] /\ Answer(-1)
       \/ ~stop_flag["receive"] /\ Readable /\ Answer(1)
       \/ /\ ~stop_flag["receive"] /\ ~Readable /\ now = wait.until
          /\ IF TimedOut THEN Answer(0)
             ELSE wait' = [wait EXCEPT !.until = PollUntil(wait.timeout, Elapsed)]
    /\ UNCHANGED <<dialVars, stop_flag, streamVars, now>>

\* Time passes, but a poll that has waited for its time returns.
Tick ==
    /\ now < MaxTime /\ (wait.pc = "polling" => now < wait.until)
    /\ now' = now + 1
    /\ UNCHANGED <<dialVars, stop_flag, streamVars, wait>>

-----------------------------------------------------------------------------
StreamNext ==
    \/ \E s \in Senders : SendExact(s) \/ SendMessage(s) \/ SendBatch(s) \/ Write(s) \/ WriteFails(s)
    \/ Receive \/ MoreReadable \/ Read \/ ReadFails
    \/ Break \/ \E side \in {"send", "receive"} : Stop(side)

WaitNext == WaitReadable \/ Poll \/ Tick \/ Break \/ Stop("receive")

Next == Dial \/ StreamNext \/ WaitNext

Spec == Init /\ [][Next]_vars

-----------------------------------------------------------------------------
\* The socket that mcp_socket_connect, mcp_socket_connect_nonblocking or
\* mcp_socket_create_listener returns is the only one it leaves open, whichever
\* addresses fail at whichever step; it listens, or it is in the mode that is
\* promised and, unless select hides the failure, connected.
SocketExact ==
    dial.pc = "returned" =>
       /\ dial.open = IF dial.sock = Invalid THEN 0 ELSE 1
       /\ dial.sock # Invalid =>
             CASE dial.kind = "listen" -> dial.sock.status = "listening"
               [] dial.kind = "nonblocking" ->
                     dial.sock = [status |-> "connected", blocking |-> FALSE]
               [] OTHER -> /\ dial.sock.blocking
                           /\ ErrorsShow => dial.sock.status = "connected"

Frames(messages) == FlattenSeq([i \in DOMAIN messages |-> Frame(messages[i])])

\* The bytes of the frame that is being read.
Partial ==
    CASE receiver.pc = "length" -> receiver.buf
      [] receiver.pc = "body" -> <<receiver.need \div Base, receiver.need % Base>> \o receiver.buf
      [] OTHER -> <<>>

\* With one sender, however the kernel cuts its writes and the receiver's reads:
\* messages are received as they were sent and in their order, whatever fails; and as
\* long as nothing has, what was received, what is on its way and what is left to
\* write are the frames of the messages (mcp_framing_send_message,
\* mcp_framing_recv_message).
FramesExact ==
    /\ IsPrefix(got, sent)
    /\ (link = "up" /\ ~stop_flag["receive"] /\ receiver.pc # "failed") =>
          \A s \in Senders : sender[s].pc # "failed" =>
             Frames(got) \o Partial \o wire \o FlattenSeq(sender[s].iov) = Frames(sent)

\* The timeout of the wait in whole seconds.
RoundedUp(timeout) == ((timeout + Second - 1) \div Second) * Second

\* mcp_socket_wait_readable says that the time is over less than a second before the
\* timeout rounded up to seconds, and less than an interval after it; and never when
\* it has no timeout.
TimeoutNear ==
    wait.pc = "returned" /\ wait.answer = 0 /\ wait.timeout # 0 =>
       /\ wait.timeout > 0
       /\ wait.until - wait.began > RoundedUp(wait.timeout) - Second
       /\ wait.until - wait.began < RoundedUp(wait.timeout) + Interval
=============================================================================
