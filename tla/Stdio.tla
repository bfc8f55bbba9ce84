-------------------------------- MODULE Stdio --------------------------------
(***************************************************************************)
(* The transport over standard input and output.  Frames, a length and a   *)
(* payload, come through the pipe and through the buffer of the stream:    *)
(* one fread fills the buffer with all that has arrived.  The read thread  *)
(* hands messages to the callback and writes the responses; other threads  *)
(* may send as well.  A frame is written by two calls of fwrite, each      *)
(* atomic by itself.  Where a body is left unread the next four bytes are  *)
(* taken for a length, wherever they are: from there on a read may fail or *)
(* return any bytes, and end inside a later frame or between two.          *)
(***************************************************************************)
EXTENDS Naturals, SequencesExt

CONSTANTS
    MaxMessages,   \* bound on the frames that come in, numbered as they come
    BadLengths,    \* those whose length is 0 or above MAX_MCP_MESSAGE_SIZE
    Senders        \* threads, other than the reader, that send one frame each

VARIABLES
    arrived,       \* frames that have come in
    eof,           \* the other side has closed the pipe
    pipe,          \* frames in the pipe
    buffer,        \* frames in stdin's buffer
    garbled,       \* the next byte of stdin is not the first of a frame
    strayed,       \* history: it has been so
    running,
    reader,        \* the read thread: its place, whether its copy of running is set, its message
    main,          \* the thread that starts, stops, receives and destroys
    handled,       \* history: the messages given to the callback or returned by receive
    out,           \* what has been written to stdout
    cut,           \* history: a write has failed
    sender,        \* each sender's place
    waited         \* the last receive: "none", "message", "error", or what a timeout left unread

vars == <<arrived, eof, pipe, buffer, garbled, strayed, running, reader, main, handled, out, cut, sender, waited>>

Ended == [pc |-> "ended", seen |-> FALSE, msg |-> 0]

Frames == 1..MaxMessages

\* A message made of bytes that are no frame.  Bound: one is handed on.
Garbage == MaxMessages + 1

Writers == Frames \cup {Garbage} \cup Senders

TypeOK ==
    /\ arrived \in 0..MaxMessages
    /\ {eof, garbled, strayed, running, cut} \subseteq BOOLEAN
    /\ pipe \in Seq(Frames) /\ buffer \in Seq(Frames)
    /\ handled \in Seq(Frames \cup {Garbage})
    /\ reader \in [pc : {"ended", "check", "reading", "handling", "prefix", "payload"},
                   seen : BOOLEAN, msg : {0, Garbage} \cup Frames]
    /\ main \in {"idle", "joining", "destroyed"}
    /\ out \in Seq({"length", "payload"} \X Writers)
    /\ sender \in [Senders -> {"prefix", "payload", "done"}]
    /\ waited \in {"none", "message", "error", "nothing", "something"}

\* mcp_transport_stdio_create.
Init ==
    /\ arrived = 0 /\ eof = FALSE /\ pipe = <<>> /\ buffer = <<>>
    /\ garbled = FALSE /\ strayed = FALSE
    /\ running = FALSE /\ reader = Ended /\ main = "idle"
    /\ handled = <<>> /\ out = <<>> /\ cut = FALSE
    /\ sender = [s \in Senders |-> "prefix"]
    /\ waited = "none"

\* The other process writes a frame, or closes the pipe.
Arrive ==
    /\ ~eof
    /\ \/ /\ arrived < MaxMessages
          /\ arrived' = arrived + 1
          /\ pipe' = Append(pipe, arrived + 1)
          /\ UNCHANGED eof
       \/ /\ eof' = TRUE
          /\ UNCHANGED <<arrived, pipe>>
    /\ UNCHANGED <<buffer, garbled, strayed, running, reader, main, handled, out, cut, sender, waited>>

Start ==
    /\ main = "idle" /\ ~running /\ reader.pc = "ended"
    /\ running' = TRUE
    /\ reader' = [Ended EXCEPT !.pc = "check"]
    /\ UNCHANGED <<arrived, eof, pipe, buffer, garbled, strayed, main, handled, out, cut, sender, waited>>

StopNoJoin ==
    /\ main = "idle" /\ running
    /\ running' = FALSE
    /\ UNCHANGED <<arrived, eof, pipe, buffer, garbled, strayed, reader, main, handled, out, cut, sender, waited>>

\* stdio_transport_stop clears the flag and waits for the thread, which may be
\* waiting for input; when the thread has cleared the flag it does not wait.
Stop ==
    /\ main = "idle" /\ running
    /\ running' = FALSE
    /\ main' = "joining"
    /\ UNCHANGED <<arrived, eof, pipe, buffer, garbled, strayed, reader, handled, out, cut, sender, waited>>

StopReturns ==
    /\ main = "joining" /\ reader.pc = "ended"
    /\ main' = "idle"
    /\ UNCHANGED <<arrived, eof, pipe, buffer, garbled, strayed, running, reader, handled, out, cut, sender, waited>>

\* stdio_transport_destroy of a transport that does not run.
Destroy ==
    /\ main = "idle" /\ ~running
    /\ main' = "destroyed"
    /\ UNCHANGED <<arrived, eof, pipe, buffer, garbled, strayed, running, reader, handled, out, cut, sender, waited>>

\* fread takes what the buffer holds and, when that is used up, fills it with
\* all that is in the pipe.
Filled == IF buffer # <<>> THEN [buffer |-> buffer, pipe |-> pipe]
                           ELSE [buffer |-> pipe, pipe |-> <<>>]

\* A read that begins inside a frame uses up any number of frames.
Stray ==
    /\ garbled
    /\ \E k \in 0..Len(Filled.buffer) : buffer' = SubSeq(Filled.buffer, k + 1, Len(Filled.buffer))
    /\ pipe' = Filled.pipe
    /\ garbled' \in BOOLEAN
    /\ UNCHANGED strayed

\* read_length_prefixed_message returns message m.
ReadFrame(m) ==
    \/ m = Garbage /\ Garbage \notin {handled[i] : i \in DOMAIN handled} /\ Stray
    \/ /\ ~garbled /\ Filled.buffer # <<>>
       /\ m = Head(Filled.buffer) /\ m \notin BadLengths
       /\ buffer' = Tail(Filled.buffer)
       /\ pipe' = Filled.pipe
       /\ UNCHANGED <<garbled, strayed>>

\* It fails: at the end of the input, inside a frame, or at a frame whose length
\* it refuses or for which it has no memory.  The body of that frame stays in
\* the stream; a length of 0 has none.
ReadFails ==
    \/ Stray
    \/ /\ ~garbled /\ Filled.buffer = <<>> /\ eof
       /\ UNCHANGED <<garbled, strayed, buffer, pipe>>
    \/ /\ ~garbled /\ Filled.buffer # <<>>
       /\ buffer' = Tail(Filled.buffer)
       /\ pipe' = Filled.pipe
       /\ garbled' \in IF Head(Filled.buffer) \in BadLengths THEN BOOLEAN ELSE {TRUE}
       /\ strayed' = (strayed \/ garbled')

\* stdio_read_thread_func: the flag is copied, and a message is read whatever
\* the copy says; the copy ends the loop after that message.
ReaderChecks ==
    /\ reader.pc = "check"
    /\ reader' = [reader EXCEPT !.pc = "reading", !.seen = running]
    /\ UNCHANGED <<arrived, eof, pipe, buffer, garbled, strayed, running, main, handled, out, cut, sender, waited>>

ReaderReads ==
    /\ reader.pc = "reading"
    /\ \E m \in Frames \cup {Garbage} : ReadFrame(m) /\ reader' = [reader EXCEPT !.pc = "handling", !.msg = m]
    /\ UNCHANGED <<arrived, eof, running, main, handled, out, cut, sender, waited>>

ReaderFails ==
    /\ reader.pc = "reading"
    /\ ReadFails
    /\ running' = FALSE
    /\ reader' = Ended
    /\ UNCHANGED <<arrived, eof, main, handled, out, cut, sender, waited>>

AfterMessage == IF reader.seen THEN [reader EXCEPT !.pc = "check", !.msg = 0] ELSE Ended

\* The callback answers the message, or does not.
ReaderHandles ==
    /\ reader.pc = "handling"
    /\ handled' = Append(handled, reader.msg)
    /\ reader' \in {[reader EXCEPT !.pc = "prefix"], AfterMessage}
    /\ UNCHANGED <<arrived, eof, pipe, buffer, garbled, strayed, running, main, out, cut, sender, waited>>

\* stdio_transport_send and stdio_transport_sendv: the length, then the payload.
Write(kind, writer) == out' = Append(out, <<kind, writer>>) /\ UNCHANGED cut

WriteFails == cut' = TRUE /\ UNCHANGED out

ReaderWrites ==
    /\ \/ /\ reader.pc = "prefix"
          /\ \/ Write("length", reader.msg) /\ reader' = [reader EXCEPT !.pc = "payload"]
             \/ WriteFails /\ reader' = AfterMessage
       \/ /\ reader.pc = "payload"
          /\ Write("payload", reader.msg) \/ WriteFails
          /\ reader' = AfterMessage
    /\ UNCHANGED <<arrived, eof, pipe, buffer, garbled, strayed, running, main, handled, sender, waited>>

SenderWrites(s) ==
    /\ main # "destroyed"
    /\ \/ /\ sender[s] = "prefix"
          /\ \/ Write("length", s) /\ sender' = [sender EXCEPT ![s] = "payload"]
             \/ WriteFails /\ sender' = [sender EXCEPT ![s] = "done"]
       \/ /\ sender[s] = "payload"
          /\ Write("payload", s) \/ WriteFails
          /\ sender' = [sender EXCEPT ![s] = "done"]
    /\ UNCHANGED <<arrived, eof, pipe, buffer, garbled, strayed, running, reader, main, handled, waited>>

\* stdio_transport_receive of a transport that is not started: select looks at
\* the pipe, not at the buffer.
Receive ==
    /\ main = "idle" /\ ~running /\ reader.pc = "ended"
    /\ pipe # <<>> \/ eof
    /\ \/ \E m \in Frames \cup {Garbage} : /\ ReadFrame(m)
                                         /\ handled' = Append(handled, m)
                                         /\ waited' = "message"
       \/ ReadFails /\ waited' = "error" /\ UNCHANGED handled
    /\ UNCHANGED <<arrived, eof, running, reader, main, out, cut, sender>>

ReceiveTimesOut ==
    /\ main = "idle" /\ ~running /\ reader.pc = "ended"
    /\ pipe = <<>> /\ ~eof
    /\ waited' = IF buffer = <<>> THEN "nothing" ELSE "something"
    /\ UNCHANGED <<arrived, eof, pipe, buffer, garbled, strayed, running, reader, main, handled, out, cut, sender>>

Next ==
    \/ Arrive \/ Start \/ Stop \/ StopReturns \/ Destroy
    \/ ReaderChecks \/ ReaderReads \/ ReaderFails \/ ReaderHandles \/ ReaderWrites
    \/ \E s \in Senders : SenderWrites(s)
    \/ Receive \/ ReceiveTimesOut

Spec == Init /\ [][Next]_vars

\* Frames are handed on in the order they came, each once; none is lost but those
\* that are refused, and nothing else is handed on, until a body is left unread; a
\* stop that returned leaves no thread that reads, handles or writes; and as long as
\* one thread writes and no write failed, every length on stdout is followed by its
\* own payload (read_length_prefixed_message, stdio_read_thread_func,
\* stdio_transport_send).
StreamsExact ==
    /\ LET pending == IF reader.msg # 0 /\ reader.pc = "handling" THEN <<reader.msg>> ELSE <<>>
           taken == handled \o pending \o buffer \o pipe
           frames == SelectSeq(taken, LAMBDA m : m # Garbage)
           good == SelectSeq(taken, LAMBDA m : m \notin BadLengths)
       IN  /\ \A i, j \in DOMAIN frames : i < j => frames[i] < frames[j]
           /\ ~strayed =>
                 good = SelectSeq([i \in 1..arrived |-> i], LAMBDA m : m \notin BadLengths)
    /\ main \in {"idle", "destroyed"} /\ ~running => reader.pc = "ended"
    /\ Senders = {} /\ ~cut =>
          \A i \in 1..Len(out) : /\ out[i][1] = IF i % 2 = 1 THEN "length" ELSE "payload"
                                 /\ i % 2 = 0 => out[i][2] = out[i - 1][2]

\* "Waits for data with the specified timeout, then reads a complete message if
\* data is available": a receive times out only when there is no message.  It
\* does time out with one in the buffer.
TimeoutMeansNothing == waited # "something"

\* Frames of threads that send at the same time are not mixed.
FramesWhole ==
    ~cut => \A i \in 1..Len(out) :
               out[i][1] = "payload" => i > 1 /\ out[i - 1] = <<"length", out[i][2]>>
=============================================================================
