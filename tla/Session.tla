------------------------------ MODULE Session -------------------------------
(***************************************************************************)
(* One framed TCP session: its reader and writer threads, the bounded      *)
(* outbound queue, whoever closes it, and the peer.                        *)
(*                                                                         *)
(* A frame is two pieces <<n, 1>>, <<n, 2>> of the byte stream; <<n, 0>>   *)
(* is a frame that fails one of the decoder's checks.  A read returns any  *)
(* number of pieces.  The two threads wait for one socket event, a manual  *)
(* reset event with a record of what happened, which each of them clears.  *)
(***************************************************************************)
EXTENDS Integers, Sequences

CONSTANTS
    MaxIn,     \* bound of the model: frames the peer sends
    MaxOut,    \* bound of the model: frames handed to enqueue()
    MaxQueue,  \* options.max_send_queue
    MaxRoom    \* pieces the socket's send buffer holds

ASSUME Sizes == {MaxIn, MaxOut, MaxQueue, MaxRoom} \subseteq Nat \ {0}

VARIABLES
    sent,      \* sent[n]: "good" or "bad", the frames the peer has sent
    wire,      \* pieces that try_read has not returned yet
    gone,      \* the peer closed its end, or died
    room,      \* free places in the send buffer
    posted,    \* network events recorded and not yet enumerated
    signalled, \* socket_event_
    armed,     \* which of FD_READ, FD_WRITE the socket will post
    buffer,    \* the decoder's buffer
    finished,  \* reader_loop's flag
    handled,   \* frames given to on_frame
    outbound,  \* outbound_
    accepted,  \* history: frames that enqueue() took
    written,   \* pieces given to the socket
    writing,   \* what is left of the writer's frame
    closing,   \* closing_
    closed,    \* closed_
    alarm,     \* close_event_
    down,      \* shutdown_both() was called
    notified,  \* how often on_closed was called
    pc         \* where the reader, the writer and the closer are

socket == <<wire, gone, room, posted, signalled, armed>>
flow == <<sent, buffer, finished, handled, accepted, written, writing>>
state == <<outbound, closing, closed, alarm, down, notified>>
vars == <<socket, flow, state, pc>>

Thread == {"reader", "writer", "closer"}

Pieces(n) == <<<<n, 1>>, <<n, 2>>>>

\* The pieces of a sequence of frames, in order.
PiecesOf(frames) ==
    [i \in 1..(2 * Len(frames)) |-> Pieces(frames[(i + 1) \div 2])[2 - (i % 2)]]

-----------------------------------------------------------------------------
(* The socket (external) and waiting for it.                               *)

\* Whoever waits is released when an event is set.
Released(p) == [t \in Thread |-> IF p[t] = "wait" THEN "woken" ELSE p[t]]

\* FD_READ and FD_WRITE are posted once and then only after the call that arms
\* them; p is where the threads get to in the same step.
Post(event, p) ==
    IF event = "close" \/ event \in armed
    THEN /\ posted' = posted \cup {event}
         /\ signalled' = TRUE
         /\ armed' = armed \ {event}
         /\ pc' = Released(p)
    ELSE UNCHANGED <<posted, signalled, armed>> /\ pc' = p

\* Entering wait_for_io: an event that is set already ends the wait at once.
WaitForIo(t) ==
    pc' = [pc EXCEPT ![t] = IF signalled \/ alarm THEN "woken" ELSE "wait"]

\* Deliberately wrong variant of Enumerate: the close event does not end a wait.
EnumerateOnly(t, next, last) ==
    /\ pc[t] = "woken"
    /\ posted' = {}
    /\ signalled' = FALSE
    /\ pc' = [pc EXCEPT ![t] = IF "close" \in posted THEN last ELSE next]
    /\ UNCHANGED <<wire, gone, room, armed, flow, state>>

\* The rest of wait_for_io.  The socket event comes first in the list, but
\* closed_ is set before the close event is.
Enumerate(t, next, last) ==
    /\ pc[t] = "woken"
    /\ IF alarm THEN UNCHANGED <<posted, signalled>>
       ELSE posted' = {} /\ signalled' = FALSE
    /\ pc' = [pc EXCEPT ![t] = IF alarm \/ closed \/ "close" \in posted
                               THEN last ELSE next]
    /\ UNCHANGED <<wire, gone, room, armed, flow, state>>

PeerSends(kind) ==
    /\ ~gone
    /\ Len(sent) < MaxIn
    /\ sent' = Append(sent, kind)
    /\ LET n == Len(sent) + 1
       IN  wire' = wire \o (IF kind = "good" THEN Pieces(n) ELSE <<<<n, 0>>>>)
    /\ Post("read", pc)
    /\ UNCHANGED <<gone, room, buffer, finished, handled, accepted, written, writing, state>>

PeerTakes ==
    /\ ~gone
    /\ room < MaxRoom
    /\ room' = room + 1
    /\ Post("write", pc)
    /\ UNCHANGED <<wire, gone, flow, state>>

PeerCloses ==
    /\ ~gone
    /\ gone' = TRUE
    /\ Post("close", pc)
    /\ UNCHANGED <<wire, room, flow, state>>

-----------------------------------------------------------------------------
(* Closing.                                                                *)

\* The locked part of close_locked and of request_close.
MarkClosing == closing' = TRUE /\ outbound' = <<>>

\* What follows the lock: the flag, the close event, the condition variable.
Signal(p) ==
    /\ closed' = TRUE
    /\ alarm' = TRUE
    /\ pc' = Released(p)

\* Deliberately wrong variant of CloseLocked: whoever finds the session closing
\* leaves the rest to the thread that closed it.
CloseLockedQuietly(t, point, next) ==
    \/ /\ pc[t] = point
       /\ ~closing
       /\ MarkClosing
       /\ pc' = [pc EXCEPT ![t] = point \o ", signal"]
       /\ UNCHANGED <<closed, alarm, down, notified, socket, flow>>
    \/ /\ pc[t] = point
       /\ closing
       /\ pc' = [pc EXCEPT ![t] = "done"]
       /\ UNCHANGED <<socket, flow, state>>
    \/ /\ pc[t] = point \o ", signal"
       /\ Signal([pc EXCEPT ![t] = next])
       /\ UNCHANGED <<closing, outbound, down, notified, socket, flow>>

\* close_locked by thread t, called at a point of its loop, in two steps; the
\* second caller does nothing.
CloseLocked(t, point, next) ==
    \/ /\ pc[t] = point
       /\ IF closing
          THEN /\ pc' = [pc EXCEPT ![t] = next]
               /\ UNCHANGED <<closing, outbound>>
          ELSE /\ MarkClosing
               /\ pc' = [pc EXCEPT ![t] = point \o ", signal"]
       /\ UNCHANGED <<closed, alarm, down, notified, socket, flow>>
    \/ /\ pc[t] = point \o ", signal"
       /\ Signal([pc EXCEPT ![t] = next])
       /\ UNCHANGED <<closing, outbound, down, notified, socket, flow>>

request_close ==
    \/ /\ pc["closer"] = "idle"
       /\ MarkClosing
       /\ pc' = [pc EXCEPT !["closer"] = "signal"]
       /\ UNCHANGED <<closed, alarm, down, notified, socket, flow>>
    \/ /\ pc["closer"] = "signal"
       /\ Signal([pc EXCEPT !["closer"] = "join"])
       /\ down' = TRUE
       /\ UNCHANGED <<closing, outbound, notified, socket, flow>>

\* join() returns once both threads have returned.
join ==
    /\ pc["closer"] = "join"
    /\ pc["reader"] = "done" /\ pc["writer"] = "done"
    /\ pc' = [pc EXCEPT !["closer"] = "done"]
    /\ UNCHANGED <<socket, flow, state>>

\* Deliberately wrong variant of Accepts: only the flag that is set after the
\* lock is tested.
AcceptsUnlessClosed == ~closed /\ Len(outbound) < MaxQueue

Accepts == ~closing /\ ~closed /\ Len(outbound) < MaxQueue

\* enqueue() that succeeds; one that fails changes nothing.
enqueue ==
    LET n == Len(accepted) + 1
    IN  /\ n <= MaxOut
        /\ Accepts
        /\ outbound' = Append(outbound, n)
        /\ accepted' = Append(accepted, n)
        /\ UNCHANGED <<sent, buffer, finished, handled, written, writing, closing,
                       closed, alarm, down, notified, socket, pc>>

-----------------------------------------------------------------------------
(* The reader.                                                             *)

ReaderLoop ==
    /\ pc["reader"] = "loop"
    /\ IF closed \/ finished THEN pc' = [pc EXCEPT !["reader"] = "close"]
       ELSE WaitForIo("reader")
    /\ UNCHANGED <<socket, flow, state>>

\* try_read returns data.  What stays behind is posted at once, otherwise the
\* socket is armed for what comes next.
ReadData ==
    /\ pc["reader"] = "read"
    /\ ~down
    /\ \E k \in 1..Len(wire) :
          /\ buffer' = buffer \o SubSeq(wire, 1, k)
          /\ wire' = SubSeq(wire, k + 1, Len(wire))
    /\ LET more == wire' # <<>>
       IN  /\ posted' = IF more THEN posted \cup {"read"} ELSE posted
           /\ signalled' = (signalled \/ more)
           /\ armed' = IF more THEN armed \ {"read"} ELSE armed \cup {"read"}
           /\ pc' = LET p == [pc EXCEPT !["reader"] = "decode"]
                    IN  IF more THEN Released(p) ELSE p
    /\ UNCHANGED <<gone, room, sent, finished, handled, accepted, written, writing,
                   state>>

\* try_read finds nothing, or the connection closed; what a peer that died had
\* sent may be lost.
ReadNothing ==
    /\ pc["reader"] = "read"
    /\ \/ /\ gone \/ down
          /\ pc' = [pc EXCEPT !["reader"] = "close"]
          /\ UNCHANGED armed
       \/ /\ ~gone /\ ~down /\ wire = <<>>
          /\ pc' = [pc EXCEPT !["reader"] = "loop"]
          /\ armed' = armed \cup {"read"}
    /\ UNCHANGED <<wire, gone, room, posted, signalled, flow, state>>

\* Deliberately wrong variant of Incomplete: the first half of a frame is dropped
\* when the second has not arrived.
IncompleteDropped == buffer' = <<>>

Incomplete == UNCHANGED buffer

\* decoder.next(): a whole frame, more data needed, or a rejected frame, which
\* resets the decoder.
Decode ==
    /\ pc["reader"] = "decode"
    /\ \/ /\ Len(buffer) >= 2 /\ buffer[1][2] = 1
          /\ buffer' = SubSeq(buffer, 3, Len(buffer))
          /\ handled' = Append(handled, buffer[1][1])
          /\ pc' = [pc EXCEPT !["reader"] = "handler"]
          /\ UNCHANGED finished
       \/ /\ buffer = <<>> \/ (Len(buffer) = 1 /\ buffer[1][2] = 1)
          /\ Incomplete
          /\ pc' = [pc EXCEPT !["reader"] = "read"]
          /\ UNCHANGED <<handled, finished>>
       \/ /\ buffer # <<>> /\ buffer[1][2] # 1
          /\ buffer' = <<>>
          /\ finished' = TRUE
          /\ pc' = [pc EXCEPT !["reader"] = "reject"]
          /\ UNCHANGED handled
    /\ UNCHANGED <<sent, accepted, written, writing, socket, state>>

\* on_frame returns.
Handled ==
    /\ pc["reader"] = "handler"
    /\ finished' = (finished \/ closed)
    /\ pc' = [pc EXCEPT !["reader"] = IF closed THEN "read" ELSE "decode"]
    /\ UNCHANGED <<sent, buffer, handled, accepted, written, writing, socket, state>>

on_closed ==
    /\ pc["reader"] = "notify"
    /\ notified' = notified + 1
    /\ pc' = [pc EXCEPT !["reader"] = "done"]
    /\ UNCHANGED <<outbound, closing, closed, alarm, down, socket, flow>>

\* A rejected frame ends the decoding and closes the session, but the reader goes on
\* with try_read.
reader_loop ==
    \/ ReaderLoop
    \/ Enumerate("reader", "read", "close")
    \/ ReadData
    \/ ReadNothing
    \/ Decode
    \/ Handled
    \/ CloseLocked("reader", "reject", "read")
    \/ CloseLocked("reader", "close", "notify")
    \/ on_closed

-----------------------------------------------------------------------------
(* The writer.                                                             *)

TakeFirst == /\ writing' = Pieces(Head(outbound))
             /\ outbound' = Tail(outbound)

\* The condition variable: closing_, or a frame to write.
WriterWakes ==
    /\ pc["writer"] = "idle"
    /\ \/ /\ closing
          /\ pc' = [pc EXCEPT !["writer"] = "done"]
          /\ UNCHANGED <<writing, outbound>>
       \/ /\ ~closing /\ outbound # <<>>
          /\ TakeFirst
          /\ pc' = [pc EXCEPT !["writer"] = "write"]
    /\ UNCHANGED <<sent, buffer, finished, handled, accepted, written, closing, closed,
                   alarm, down, notified, socket>>

\* Deliberately wrong variant of Rest: a frame that was taken in part is given up.
RestForgotten(k) == <<>>

Rest(k) == SubSeq(writing, k + 1, Len(writing))

\* try_write takes some of the frame, would block, or fails.
Write ==
    /\ pc["writer"] = "write"
    /\ \/ /\ ~down
          /\ \E k \in 1..Len(writing) :
                /\ k <= room
                /\ room' = room - k
                /\ written' = written \o SubSeq(writing, 1, k)
                /\ writing' = Rest(k)
          /\ pc' = [pc EXCEPT !["writer"] = IF writing' = <<>> THEN "idle" ELSE "write"]
          /\ UNCHANGED armed
       \/ /\ room = 0 /\ ~down
          /\ armed' = armed \cup {"write"}
          /\ WaitForIo("writer")
          /\ UNCHANGED <<room, written, writing>>
       \/ /\ gone \/ down
          /\ pc' = [pc EXCEPT !["writer"] = "close"]
          /\ UNCHANGED <<room, armed, written, writing>>
    /\ UNCHANGED <<wire, gone, posted, signalled, sent, buffer, finished, handled,
                   accepted, state>>

\* A closed connection ends the writer without a word to anybody.
writer_loop ==
    \/ WriterWakes
    \/ Write
    \/ Enumerate("writer", "write", "done")
    \/ CloseLocked("writer", "close", "done")

-----------------------------------------------------------------------------
Init ==
    /\ sent = <<>> /\ wire = <<>> /\ gone = FALSE /\ room = MaxRoom
    /\ posted = {"write"} /\ signalled = TRUE /\ armed = {"read"}
    /\ buffer = <<>> /\ finished = FALSE /\ handled = <<>>
    /\ outbound = <<>> /\ accepted = <<>> /\ written = <<>> /\ writing = <<>>
    /\ closing = FALSE /\ closed = FALSE /\ alarm = FALSE /\ down = FALSE
    /\ notified = 0
    /\ pc = [t \in Thread |-> IF t = "reader" THEN "loop" ELSE "idle"]

PeerNext == PeerTakes \/ PeerCloses \/ \E kind \in {"good", "bad"} : PeerSends(kind)

Next == PeerNext \/ enqueue \/ request_close \/ join \/ reader_loop \/ writer_loop

\* Threads are scheduled and handlers return; the peer and the users of the
\* session owe nothing, but a closer that began goes on.
Fairness ==
    /\ WF_vars(reader_loop)
    /\ WF_vars(writer_loop)
    /\ WF_vars(pc["closer"] # "idle" /\ (request_close \/ join))

Spec == Init /\ [][Next]_vars /\ Fairness

-----------------------------------------------------------------------------
(* Properties.                                                             *)

\* However the stream is cut into reads, on_frame sees only frames the peer sent,
\* in order and each once, and every one before the first rejected frame.  (The code
\* may go on with frames behind a rejected one, see reader_loop.)
DeliveredInOrder ==
    \A i \in DOMAIN handled :
       /\ sent[handled[i]] = "good"
       /\ i > 1 => handled[i - 1] < handled[i]
       /\ (\A n \in 1..handled[i] : sent[n] = "good") => handled[i] = i

\* Once the session closes nothing waits in its queue: enqueue() cannot slip a
\* frame in after the queue was cleared.
NothingQueuedAfterClose == closing => outbound = <<>>

\* While the session is up and its writer runs, a frame that enqueue() took is
\* written, being written or queued, in the order in which it was taken; frames are
\* never interleaved.
AcceptedFramesKept ==
    ~closing /\ pc["writer"] # "done" =>
       PiecesOf(accepted) = written \o writing \o PiecesOf(outbound)

\* Closing ends both threads and reports the end once, also with the peer
\* blocked and either thread waiting.
CloseCompletes ==
    closing ~> /\ pc["reader"] = "done" /\ pc["writer"] = "done"
               /\ notified = 1

\* The end of the peer is reported, so the coordinator learns of it.
PeerLossNoticed == gone ~> notified = 1

\* It is, unless the writer waits for the socket and takes the close notification
\* meant for both: then nobody tells the reader.
PeerLossNoticedUnblocked ==
    [](pc["writer"] \notin {"wait", "woken"}) => PeerLossNoticed

=============================================================================
