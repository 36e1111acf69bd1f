------------------------------- MODULE Client -------------------------------
(***************************************************************************)
(* One connection to the coordinator, of an agent (class AgentClient) or   *)
(* of an operator (class ControlClient), from the client's side: calls and *)
(* the replies to them, what the coordinator sends unasked, and the ways   *)
(* for the connection to end.                                              *)
(*                                                                         *)
(* An agent's calls wait for the reader thread of the session to put their *)
(* reply into one shared slot; a control client reads its reply itself.    *)
(* `up` and `down` are the send queues of the two ends, each together with *)
(* the wire behind it; what is in them when the connection is cut is lost. *)
(* A request keeps its type and gets a reply of the one type that belongs  *)
(* to it, so all replies are "Result" here.                                *)
(***************************************************************************)
EXTENDS Integers, Sequences

CONSTANTS
    MaxCalls,   \* bound of the model: correlation identifiers
    MaxWork,    \* bound of the model: assignments pushed to the agent
    MaxQueue    \* limits.max_send_queue, of both ends

ASSUME Sizes == {MaxCalls, MaxWork, MaxQueue} \subseteq Nat \ {0}

VARIABLES
    peer,        \* "agent" or "control"
    link,        \* the connection
    up, down,    \* frames on their way to the coordinator and to the client
    correlation, \* next_correlation_
    thread,      \* the threads that make calls
    slot,        \* last_correlation_ with last_result_, or Empty
    reader,      \* the reader of the agent's session
    owed,        \* reports that the reader has still to queue
    closed,      \* Session::closed() of the agent's session
    stopping,    \* where AgentClient::stop() is
    answering,   \* the reply of the frame the coordinator is handling, or Empty
    registered,  \* the coordinator can push assignments to this connection
    pushed,      \* how many it has pushed
    decided,     \* history: the coordinator's verdict on each thread's last call
    completed,   \* history: assignments reported to it as completed
    unanswered,  \* history: last calls whose reply went astray
    unreported   \* history: assignments with a report that was not queued

calls == <<correlation, thread, slot>>
session == <<reader, owed, closed, stopping>>
server == <<answering, registered, pushed, decided, completed>>
vars == <<peer, link, up, down, calls, session, server, unanswered, unreported>>

Frame(type, n, says) == [type |-> type, n |-> n, says |-> says]

Empty == Frame("nothing", 0, "")

-----------------------------------------------------------------------------
(* Calls.                                                                  *)

\* connect_and_register and the rest of run() before its loop.
Setup == <<"Hello", "RegisterAgent", "PublishCapabilities", "PublishHealth",
           "PublishAvailability", "PublishLoad">>

\* The methods of ControlClient.  A report is a call like any other there.
ControlCalls == {"RegisterAgent", "PublishCapabilities", "PublishHealth",
                 "PublishAvailability", "PublishLoad", "SubmitWork", "CancelWork",
                 "SupersedeWork", "DrainAgent", "DeregisterAgent",
                 "AssignmentAck", "WorkStarted", "WorkCompleted",
                 "DispatchAssignment", "Query"}

\* What another thread may call on the same AgentClient.
UserCalls == {"PublishLoad", "Heartbeat"}

Threads == {"run", "user"}

\* "asleep" is inside the condition variable's wait.
Waiting(t) == thread[t].at \in {"awake", "asleep"}

InSetup(t) == t = "run" /\ peer = "agent" /\ thread[t].step <= Len(Setup)

\* Setup always fits below the bound.
Spare == correlation + (IF InSetup("run") THEN Len(Setup) ELSE 0) < MaxCalls

ClientInit ==
    /\ peer \in {"agent", "control"}
    /\ link = "none"
    /\ up = <<>> /\ down = <<>>
    /\ correlation = 1
    /\ thread = [t \in Threads |-> [at |-> "idle", step |-> 1, n |-> 0,
                                    result |-> "none"]]
    /\ slot = Empty
    /\ reader = "none"
    /\ owed = <<>>
    /\ closed = FALSE
    /\ stopping = "no"
    /\ answering = Empty
    /\ registered = FALSE
    /\ pushed = 0
    /\ decided = [n \in 1..MaxCalls |-> "open"]
    /\ completed = {}
    /\ unanswered = {}
    /\ unreported = {}

\* Thread t is back from its call; run() gives up when a call of its setup fails.
Returned(t, n, result) ==
    [thread EXCEPT
        ![t] = [at |-> IF InSetup(t) /\ result # "ok" THEN "done" ELSE "idle",
                step |-> IF InSetup(t) THEN @.step + 1 ELSE @.step,
                n |-> n, result |-> result]]

\* The connection and, for an agent, the session with its threads.
Connect ==
    /\ link = "none"
    /\ stopping = "no"
    /\ link' = "up"
    /\ reader' = IF peer = "agent" THEN "read" ELSE reader
    /\ UNCHANGED <<peer, up, down, calls, owed, closed, stopping, server,
                   unanswered, unreported>>

\* The agent's session is closed or its queue is full.
QueueRefuses == closed \/ Len(up) >= MaxQueue

\* send_raw writes, whatever is in the way; it fails on a dead connection.
WriteFails == link = "cut"

\* The first half of send_and_wait, or of send_raw.
Call(t, type) ==
    /\ thread[t].at = "idle"
    /\ link # "none"
    /\ correlation <= MaxCalls
    /\ correlation' = correlation + 1
    /\ IF IF peer = "agent" THEN QueueRefuses ELSE WriteFails
       THEN thread' = Returned(t, correlation, "unsent") /\ UNCHANGED up
       ELSE /\ thread' = [thread EXCEPT ![t].at = "awake", ![t].n = correlation,
                                        ![t].result = "none"]
            /\ up' = IF link = "cut" THEN up
                     ELSE Append(up, Frame(type, correlation, ""))
    /\ decided' = [n \in DOMAIN decided |->
                     IF n = thread[t].n THEN "open" ELSE decided[n]]
    /\ unanswered' = unanswered \ {thread[t].n}
    /\ UNCHANGED <<peer, link, down, slot, session, answering, registered,
                   pushed, completed, unreported>>

\* The run thread makes its calls in order and then sends heartbeats; the
\* thread of a control client says hello and then makes any call.
Calls ==
    \/ /\ peer = "agent"
       /\ \/ InSetup("run") /\ Call("run", Setup[thread["run"].step])
          \/ ~InSetup("run") /\ Spare /\ Call("run", "Heartbeat")
          \/ \E type \in UserCalls : Spare /\ Call("user", type)
    \/ /\ peer = "control"
       /\ IF correlation = 1 THEN Call("run", "Hello")
          ELSE \E type \in ControlCalls : Call("run", type)

\* Deliberately wrong variant of Answered: any reply will do.
AnsweredByAny(t) == slot # Empty

\* The slot holds the reply that thread t waits for.
Answered(t) == slot # Empty /\ slot.n = thread[t].n

\* The second half: the wait's predicate, with the reply's mutex held.
Wake(t) ==
    /\ peer = "agent"
    /\ thread[t].at = "awake"
    /\ IF Answered(t)
       THEN thread' = Returned(t, thread[t].n, slot.says) /\ slot' = Empty
       ELSE IF stopping # "no" \/ closed
       THEN thread' = Returned(t, thread[t].n, "lost") /\ UNCHANGED slot
       ELSE thread' = [thread EXCEPT ![t].at = "asleep"] /\ UNCHANGED slot
    /\ UNCHANGED <<peer, link, up, down, correlation, session, server, unanswered,
                   unreported>>

\* The loop of run() ends: the caller's flag, the run duration, stop() or a
\* closed session.
RunEnds ==
    /\ peer = "agent"
    /\ ~InSetup("run")
    /\ thread["run"].at = "idle"
    /\ thread' = [thread EXCEPT !["run"].at = "done"]
    /\ UNCHANGED <<peer, link, up, down, correlation, slot, session, server,
                   unanswered, unreported>>

\* Unasked frames carry correlation 0.
Answers(f, n) == f.type \in {"Result", "Error"} /\ f.n = n

\* A control client takes the next frame itself: a frame that answers no call
\* of its own is skipped, an Error ends the call like any reply.
ControlReads ==
    LET n == thread["run"].n
    IN  /\ peer = "control"
        /\ Waiting("run")
        /\ down # <<>> \/ link = "cut"
        /\ thread' = IF down = <<>> THEN Returned("run", n, "lost")
                     ELSE IF Answers(Head(down), n)
                     THEN Returned("run", n, Head(down).says)
                     ELSE thread
        /\ down' = IF down = <<>> THEN down ELSE Tail(down)
        /\ UNCHANGED <<peer, link, up, correlation, slot, session, server,
                       unanswered, unreported>>

-----------------------------------------------------------------------------
(* The session's reader thread in an AgentClient.                          *)

\* Deliberately wrong variant of Awoken: notify_one.
AwokenOne ==
    LET asleep == {t \in Threads : thread[t].at = "asleep"}
        one == CHOOSE t \in asleep : TRUE
    IN  IF asleep = {} THEN thread ELSE [thread EXCEPT ![one].at = "awake"]

\* reply_cv_.notify_all().
Awoken == [t \in Threads |->
              IF thread[t].at = "asleep" THEN [thread[t] EXCEPT !.at = "awake"]
              ELSE thread[t]]

\* Deliberately wrong variant of Reports: nothing after the acknowledgement.
AckOnly(n) == <<Frame("AssignmentAck", n, "")>>

\* What auto_ack and auto_complete send for an assignment.
Reports(n) == <<Frame("AssignmentAck", n, ""), Frame("WorkStarted", n, ""),
                Frame("WorkCompleted", n, "")>>

\* handle_frame.  A reply takes the place of one nobody has fetched yet; an
\* Error, and the reply to a report, are dropped.
ReadFrame ==
    LET f == Head(down)
        astray == {thread[t].n : t \in {u \in Threads : Waiting(u)}}
    IN  /\ reader = "read"
        /\ ~closed
        /\ down # <<>>
        /\ down' = Tail(down)
        /\ CASE f.type = "Result" ->
                  /\ slot' = f
                  /\ thread' = Awoken
                  /\ unanswered' = unanswered \cup (astray \cap {slot.n})
                  /\ UNCHANGED <<reader, owed>>
             [] f.type = "AssignWork" ->
                  /\ reader' = "report"
                  /\ owed' = Reports(f.n)
                  /\ UNCHANGED <<slot, thread, unanswered>>
             [] OTHER ->
                  /\ unanswered' = unanswered \cup
                                     {n \in astray : Answers(f, n)}
                  /\ UNCHANGED <<slot, thread, reader, owed>>
        /\ UNCHANGED <<peer, link, up, correlation, closed, stopping, server,
                       unreported>>

\* One report is queued, or dropped when the session is closed or its queue full.
QueueReport ==
    /\ reader = "report"
    /\ up' = IF QueueRefuses \/ link = "cut" THEN up ELSE Append(up, Head(owed))
    /\ unreported' = IF QueueRefuses THEN unreported \cup {Head(owed).n}
                     ELSE unreported
    /\ owed' = Tail(owed)
    /\ reader' = IF Len(owed) = 1 THEN "read" ELSE "report"
    /\ UNCHANGED <<peer, link, down, calls, closed, stopping, server, unanswered>>

\* The reader's loop is over: it closes the session ...
ReaderEnds ==
    /\ reader = "read"
    /\ link = "cut" \/ closed
    /\ closed' = TRUE
    /\ reader' = "closing"
    /\ UNCHANGED <<peer, link, up, down, calls, owed, stopping, server,
                   unanswered, unreported>>

\* Deliberately wrong variant of LetGo: nobody is told.
LetNobodyGo == thread

\* on_closed: whoever waits looks again.
LetGo == Awoken

\* ... and calls on_closed.
OnClosed ==
    /\ reader = "closing"
    /\ thread' = LetGo
    /\ reader' = "gone"
    /\ UNCHANGED <<peer, link, up, down, correlation, slot, owed, closed, stopping,
                   server, unanswered, unreported>>

-----------------------------------------------------------------------------
(* AgentClient::stop(), called from any thread but the reader.             *)

StopBegins ==
    /\ peer = "agent"
    /\ stopping = "no"
    /\ stopping' = "flagged"
    /\ UNCHANGED <<peer, link, up, down, calls, reader, owed, closed, server,
                   unanswered, unreported>>

\* request_close, if there is a session.
StopCloses ==
    /\ stopping = "flagged"
    /\ IF link = "none"
       THEN stopping' = "notify" /\ UNCHANGED <<link, up, down, closed>>
       ELSE /\ stopping' = "join"
            /\ closed' = TRUE
            /\ link' = "cut"
            /\ up' = <<>> /\ down' = <<>>
    /\ UNCHANGED <<peer, calls, reader, owed, server, unanswered, unreported>>

StopJoins ==
    /\ stopping = "join"
    /\ reader = "gone"
    /\ stopping' = "notify"
    /\ UNCHANGED <<peer, link, up, down, calls, reader, owed, closed, server,
                   unanswered, unreported>>

StopEnds ==
    /\ stopping = "notify"
    /\ thread' = LetGo
    /\ stopping' = "done"
    /\ UNCHANGED <<peer, link, up, down, correlation, slot, reader, owed, closed,
                   server, unanswered, unreported>>

Stop == StopCloses \/ StopJoins \/ StopEnds

-----------------------------------------------------------------------------
(* The coordinator's end.                                                  *)

ReportTypes == {"AssignmentAck", "WorkStarted", "WorkCompleted"}

\* A frame may be answered with an Error if decoding it finds a limit exceeded,
\* which a frame without lists or texts cannot.
Verdicts(type) ==
    IF type \in {"Hello", "Heartbeat"} THEN {"ok", "refused"}
    ELSE {"ok", "refused", "error"}

\* handle_frame up to its reply.  An unsupported protocol version is answered
\* and then ends the session.
Handle ==
    LET f == Head(up)
    IN  /\ link = "up"
        /\ answering = Empty
        /\ up # <<>>
        /\ up' = Tail(up)
        /\ IF peer = "agent" /\ f.type \in ReportTypes
           THEN /\ answering' = Frame("ReportResult", 0, "")
                /\ completed' = IF f.type = "WorkCompleted"
                                THEN completed \cup {f.n} ELSE completed
                /\ UNCHANGED <<decided, registered>>
           ELSE \E says \in Verdicts(f.type) :
                /\ answering' = Frame(IF says = "error" THEN "Error" ELSE "Result",
                                      f.n, says)
                /\ decided' = [decided EXCEPT ![f.n] = says]
                /\ registered' = IF f.type = "RegisterAgent" /\ says = "ok"
                                 THEN TRUE ELSE registered
                /\ UNCHANGED completed
        /\ UNCHANGED <<peer, link, down, calls, session, pushed, unanswered,
                       unreported>>

\* send_result or send_error; a full queue drops the reply.
Answer ==
    LET full == Len(down) >= MaxQueue
    IN  /\ link = "up"
        /\ answering # Empty
        /\ down' = IF full THEN down ELSE Append(down, answering)
        /\ unanswered' = IF full THEN unanswered \cup {answering.n} ELSE unanswered
        /\ link' = IF answering.n = 1 /\ answering.says = "refused" THEN "ending"
                   ELSE link
        /\ answering' = Empty
        /\ UNCHANGED <<peer, up, calls, session, registered, pushed, decided,
                       completed, unreported>>

\* push_assignment, by whichever reader's pass dispatched it.
Push ==
    /\ link = "up"
    /\ registered
    /\ pushed < MaxWork
    /\ Len(down) < MaxQueue
    /\ pushed' = pushed + 1
    /\ down' = Append(down, Frame("AssignWork", pushed + 1, ""))
    /\ UNCHANGED <<peer, link, up, calls, session, answering, registered, decided,
                   completed, unanswered, unreported>>

\* The shutdown notifier; the notice is often lost to the close that follows.
Notice ==
    /\ link = "up"
    /\ Len(down) < MaxQueue
    /\ down' = Append(down, Frame("ShutdownNotice", 0, ""))
    /\ link' = "ending"
    /\ UNCHANGED <<peer, up, calls, session, server, unanswered, unreported>>

\* The connection is gone, because an end closed it or died.
Cut ==
    /\ link \in {"up", "ending"}
    /\ link' = "cut"
    /\ up' = <<>> /\ down' = <<>>
    /\ UNCHANGED <<peer, calls, session, server, unanswered, unreported>>

-----------------------------------------------------------------------------
ClientNext ==
    \/ Connect \/ Calls \/ \E t \in Threads : Wake(t)
    \/ RunEnds \/ ControlReads
    \/ ReadFrame \/ QueueReport \/ ReaderEnds \/ OnClosed
    \/ StopBegins \/ Stop
    \/ Handle \/ Answer \/ Push \/ Notice \/ Cut

\* Every thread that can go on does: the callers, the reader, a stop() that
\* began, the coordinator's reader.  run() looks at its end conditions in every
\* turn of its loop.  A closing coordinator closes.
ClientFairness ==
    /\ \A t \in Threads : WF_vars(Wake(t))
    /\ WF_vars(InSetup("run") /\ Calls)
    /\ WF_vars(RunEnds /\ (closed \/ stopping # "no"))
    /\ WF_vars(ControlReads)
    /\ WF_vars(ReadFrame \/ QueueReport \/ ReaderEnds \/ OnClosed)
    /\ WF_vars(Stop)
    /\ WF_vars(Handle)
    /\ WF_vars(Answer)
    /\ WF_vars(link = "ending" /\ Cut)

ClientSpec == ClientInit /\ [][ClientNext]_vars /\ ClientFairness

-----------------------------------------------------------------------------
(* Properties.                                                             *)

\* A call that reports a verdict reports the coordinator's verdict on that very
\* call, although replies to other calls, assignments and notices arrive in
\* between and two threads share one reply slot.
VerdictIsOwn ==
    \A t \in Threads : thread[t].result \in {"ok", "refused", "error"} =>
        decided[thread[t].n] = thread[t].result

\* A call ends as soon as it is answered: whoever else is waiting, it returns
\* unless its reply went astray.  Replies go astray when a queue is full, when
\* a reply to another thread takes the slot, and when an agent is answered with
\* an Error, which only a control client understands.
CallsEnd ==
    \A t \in Threads : Waiting(t) ~> ~Waiting(t) \/ thread[t].n \in unanswered

\* Once the session is closed or the client is being stopped no call is left
\* waiting, not even one whose reply went astray, and run() returns.
ClosedClientLetsGo ==
    peer = "agent" /\ link # "none" /\ (closed \/ stopping # "no")
        ~> thread["run"].at = "done" /\ \A t \in Threads : ~Waiting(t)

\* An assignment that was pushed to an agent is reported completed while the
\* connection lasts, unless the agent's own queue was full when it reported.
PushedIsReported ==
    \A n \in 1..MaxWork :
        peer = "agent" /\ pushed = n ~> n \in completed \cup unreported \/ link # "up"

=============================================================================
