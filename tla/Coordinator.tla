---------------------------- MODULE Coordinator -----------------------------
(***************************************************************************)
(* The coordinator process: an AgentScheduler behind framed TCP sessions.  *)
(* Every session has a reader thread that handles its frames, runs the     *)
(* scheduling pass a frame calls for, pushes what the pass dispatched to   *)
(* the session of the agent, and reports the agent lost when the session   *)
(* is over.                                                                *)
(*                                                                         *)
(* The scheduler is module Scheduler; its handlers are the steps a reader  *)
(* takes under the scheduler's mutex.  A batch holds that mutex over many  *)
(* steps.  Peers send what agent_client.cpp and control_client.cpp send:   *)
(* one incarnation per agent session, and reports about assignments it was *)
(* given.  A frame read after its peer died is a frame read before it did. *)
(* Send queues never fill up here, and no reply is modelled.               *)
(***************************************************************************)
EXTENDS Scheduler, Sequences

CONSTANTS
    Nobody,          \* no thread, no session, no incarnation
    MaxConnections,  \* limits.max_connections
    Outcomes,        \* how agents end an assignment: frame types
    GenOf            \* the registration generation of each incarnation

VARIABLES
    server,          \* where start() and stop() are, and whom stop() joins
    sessions,        \* the keys of sessions_
    agent_sessions,  \* agent_sessions_
    session,         \* the state of each session
    bound,           \* Session::bound_agent()
    reader,          \* where each reader thread is, and its batch.decisions
    batch,           \* the batch that holds the scheduler's mutex
    inbox,           \* AssignWork frames an agent has not read yet
    sent             \* frames of an agent that no reader has handled yet

ASSUME Peers ==
    /\ GenOf \in [Boot -> 1..MaxAgentGen]
    /\ Outcomes \subseteq {"WorkReleased", "WorkCompleted", "WorkFailed"}

\* Nobody is neither a session nor an incarnation nor an entry of a map.
ASSUME NobodyElse ==
    /\ Nobody \notin Caller
    /\ Nobody \notin [agent : Agent, boot : Boot]
    /\ Nobody \notin [boot : Boot, session : Caller]

frontVars == <<server, sessions, agent_sessions, session, bound, reader, batch,
               inbox, sent>>

ServerStates == {"new", "up", "shut", "notified", "joining", "stopped"}

\* "lost": the peer is gone and the reader has not noticed.
SessionStates == {"free", "accepted", "open", "lost", "closed"}

ReaderStates == {"none", "read", "bind", "revalidate", "pass", "batch",
                 "dispatch", "handoff", "push", "enqueue", "control",
                 "losing", "gone"}

NoBatch == [by |-> Nobody, pass |-> 0, left |-> {}, progress |-> FALSE]

CoordinatorInit ==
    /\ Init
    /\ server = [at |-> "new", joins |-> {}]
    /\ sessions = {}
    /\ agent_sessions = [a \in Agent |-> Nobody]
    /\ session = [c \in Caller |-> "free"]
    /\ bound = [c \in Caller |-> Nobody]
    /\ reader = [c \in Caller |-> [at |-> "none", todo |-> <<>>, to |-> Nobody]]
    /\ batch = NoBatch
    /\ inbox = [c \in Caller |-> <<>>]
    /\ sent = [c \in Caller |-> <<>>]

Goes(c, at) == reader' = [reader EXCEPT ![c].at = at]

\* A step that takes the scheduler's mutex.
Unlocked == batch.by = Nobody

-----------------------------------------------------------------------------
(* Sessions coming and going.                                              *)

\* accept_loop: a connection below the limit gets the next session id ...
accept_one(c) ==
    /\ server.at = "up"
    /\ session[c] = "free"
    /\ \A x \in Caller : /\ session[x] # "accepted"
                         /\ x < c => session[x] # "free"
    /\ Cardinality(sessions) < MaxConnections
    /\ session' = [session EXCEPT ![c] = "accepted"]
    /\ UNCHANGED <<vars, server, sessions, agent_sessions, bound, reader, batch,
                   inbox, sent>>

\* ... and a session, whatever has happened to the server in between.
emplace(c) ==
    /\ session[c] = "accepted"
    /\ session' = [session EXCEPT ![c] = "open"]
    /\ sessions' = sessions \cup {c}
    /\ Goes(c, "read")
    /\ UNCHANGED <<vars, server, agent_sessions, bound, batch, inbox, sent>>

\* The peer dies or leaves, or this end gives the session up: from then on no
\* frame gets through, whether it is queued or refused.
Breaks(c) ==
    /\ session[c] = "open"
    /\ session' = [session EXCEPT ![c] = "lost"]
    /\ UNCHANGED <<vars, server, sessions, agent_sessions, bound, reader, batch,
                   inbox, sent>>

\* Deliberately wrong variant of Forgotten: the entry stays.
Remembered(c) == agent_sessions

\* agent_sessions_ without the entry of session c.
Forgotten(c) ==
    [a \in Agent |->
        IF agent_sessions[a] # Nobody /\ bound[c] # Nobody
           /\ agent_sessions[a] = [boot |-> bound[c].boot, session |-> c]
           /\ bound[c].agent = a
        THEN Nobody ELSE agent_sessions[a]]

\* The reader of a session that is over removes it.  The wait for room in the
\* reaper's queue never lasts: the queue holds at most one entry for each
\* session, and the reaper waits for nobody but these readers.
on_closed(c) ==
    /\ reader[c].at = "read"
    /\ session[c] \in {"lost", "closed"}
    /\ session' = [session EXCEPT ![c] = "closed"]
    /\ sessions' = sessions \ {c}
    /\ agent_sessions' = Forgotten(c)
    /\ Goes(c, "losing")
    /\ UNCHANGED <<vars, server, bound, batch, inbox, sent>>

\* Deliberately wrong variants of DeclareLost: an incarnation, or an agent, that
\* is mapped to a session by now is spared.
DeclareLostUnlessBack(c) ==
    IF \/ bound[c] = Nobody
       \/ /\ agent_sessions[bound[c].agent] # Nobody
          /\ agent_sessions[bound[c].agent].boot = bound[c].boot
    THEN UNCHANGED vars
    ELSE IF agents[bound[c].agent].boot = bound[c].boot
    THEN LoseCurrent(bound[c].agent)
    ELSE LoseStale(bound[c].agent, bound[c].boot)

DeclareLostUnlessMapped(c) ==
    IF bound[c] = Nobody \/ agent_sessions[bound[c].agent] # Nobody
    THEN UNCHANGED vars
    ELSE IF agents[bound[c].agent].boot = bound[c].boot
    THEN LoseCurrent(bound[c].agent)
    ELSE LoseStale(bound[c].agent, bound[c].boot)

\* declare_agent_lost for whatever the session was bound to.
DeclareLost(c) ==
    IF bound[c] = Nobody THEN UNCHANGED vars
    ELSE IF agents[bound[c].agent].boot = bound[c].boot
    THEN LoseCurrent(bound[c].agent)
    ELSE LoseStale(bound[c].agent, bound[c].boot)

\* The end of on_closed, and of the reader.
ReportLoss(c) ==
    /\ reader[c].at = "losing"
    /\ Unlocked
    /\ DeclareLost(c)
    /\ Goes(c, "gone")
    /\ UNCHANGED <<server, sessions, agent_sessions, session, bound, batch,
                   inbox, sent>>

-----------------------------------------------------------------------------
(* Frames.                                                                 *)

\* on_frame: the reader of c has a frame and its session is still registered.
on_frame(c) ==
    /\ reader[c].at = "read"
    /\ session[c] = "open"
    /\ c \in sessions
    /\ Unlocked

\* A frame that the peer sends now; what it sent before comes first.
next_frame(c) == on_frame(c) /\ sent[c] = <<>>

\* The scheduler accepted the call that the frame asked for; with a pass, a
\* scheduling pass follows.
Handled(c, pass) ==
    /\ reader' = IF pass THEN [reader EXCEPT ![c].at = "pass"] ELSE reader
    /\ UNCHANGED <<server, sessions, agent_sessions, session, bound, batch,
                   inbox, sent>>

bind_agent(c, a, boot) ==
    bound' = [bound EXCEPT ![c] = [agent |-> a, boot |-> boot]]

\* RegisterAgent: the scheduler's part, and bind_agent, which no other thread
\* sees.
RegisterAgent(c, a, boot, m) ==
    /\ next_frame(c)
    /\ bound[c] = Nobody
    /\ \/ RegisterNew(a, GenOf[boot], boot, m)
       \/ Reincarnate(a, GenOf[boot], boot, m)
       \/ boot = agents[a].boot /\ Reregister(a, m)
    /\ bind_agent(c, a, boot)
    /\ Goes(c, "bind")
    /\ UNCHANGED <<server, sessions, agent_sessions, session, batch, inbox, sent>>

\* The agent is reached through this session from now on.
MapAgent(c) ==
    /\ reader[c].at = "bind"
    /\ agent_sessions' = [agent_sessions EXCEPT
                            ![bound[c].agent] = [boot |-> bound[c].boot,
                                                 session |-> c]]
    /\ Goes(c, "revalidate")
    /\ UNCHANGED <<vars, server, sessions, session, bound, batch, inbox, sent>>

RevalidateAll(c) ==
    /\ reader[c].at = "revalidate"
    /\ Unlocked
    /\ IF Pending = {} THEN UNCHANGED vars ELSE revalidate_assignments
    /\ Goes(c, "pass")
    /\ UNCHANGED <<server, sessions, agent_sessions, session, bound, batch,
                   inbox, sent>>

\* Publications and heartbeats of the incarnation the session is bound to;
\* a load observation changes nothing that is modelled.
AgentFrame(c) ==
    /\ next_frame(c)
    /\ bound[c] # Nobody
    /\ agents[bound[c].agent].boot = bound[c].boot
    /\ LET a == bound[c].agent
       IN  \/ /\ \/ \E g \in 1..MaxCapGen : publish_capabilities(a, g, now)
                 \/ \E v \in HealthReports : publish_health(a, v, now)
                 \/ \E v \in AvailReports : publish_availability(a, v, now)
              /\ Handled(c, TRUE)
           \/ heartbeat(a) /\ Handled(c, FALSE)

\* What clients and operators ask for.
ControlFrame(c) ==
    /\ next_frame(c)
    /\ bound[c] = Nobody
    /\ \/ /\ \E w \in Work, g \in 1..MaxWorkGen, r \in Requests :
                submit_work(w, g, r) \/ supersede_work(w, g, r)
          /\ Handled(c, TRUE)
       \/ /\ \/ \E w \in Work : cancel_work(w)
             \/ \E a \in Agent, force \in BOOLEAN : drain_agent(a, force)
          /\ Handled(c, FALSE)

\* DeregisterAgent, with forget_agent_session.
Deregister(c, a, force) ==
    /\ next_frame(c)
    /\ bound[c] = Nobody
    /\ deregister_agent(a, force)
    /\ agent_sessions' = IF agent_sessions[a] # Nobody
                            /\ agent_sessions[a].boot = agents[a].boot
                         THEN [agent_sessions EXCEPT ![a] = Nobody]
                         ELSE agent_sessions
    /\ UNCHANGED <<server, sessions, session, bound, reader, batch, inbox, sent>>

\* DispatchAssignment: dispatch() and nothing else; the agent is not told.
DispatchAssignment(c, b) ==
    /\ next_frame(c)
    /\ bound[c] = Nobody
    /\ dispatch(c, b)
    /\ Goes(c, "control")
    /\ UNCHANGED <<server, sessions, agent_sessions, session, bound, batch,
                   inbox, sent>>

DispatchEnds(c) ==
    /\ reader[c].at = "control"
    /\ Unlocked
    /\ Handoff(c) \/ HandoffRejected(c)
    /\ Goes(c, "read")
    /\ UNCHANGED <<server, sessions, agent_sessions, session, bound, batch,
                   inbox, sent>>

-----------------------------------------------------------------------------
(* The agent's side, with auto_ack and auto_complete.                      *)

AgentReceives(c) ==
    /\ session[c] = "open"
    /\ inbox[c] # <<>>
    /\ inbox' = [inbox EXCEPT ![c] = Tail(@)]
    /\ \E last \in Outcomes :
          sent' = [sent EXCEPT ![c] =
                     @ \o [i \in 1..3 |->
                             [type |-> <<"AssignmentAck", "WorkStarted", last>>[i],
                              b |-> Head(inbox[c])]]]
    /\ UNCHANGED <<vars, server, sessions, agent_sessions, session, bound, reader,
                   batch>>

\* Whether the scheduler accepts the report.
Accepts(f) ==
    /\ lookup_assignment(f.b)
    /\ asg[f.b].state \in CASE f.type = "AssignmentAck" -> {"Dispatched"}
                            [] f.type = "WorkStarted" ->
                                  {"Dispatched", "Acknowledged", "Executing"}
                            [] OTHER -> ActiveStates

Applied(f) ==
    CASE f.type = "AssignmentAck" -> acknowledge(f.b)
      [] f.type = "WorkStarted" -> mark_executing(f.b)
      [] f.type = "WorkReleased" -> Return(f.b, "Released")
      [] f.type = "WorkCompleted" -> Finish(f.b, "Completed")
      [] f.type = "WorkFailed" -> Finish(f.b, "Failed")

\* An agent's report about an assignment.
AssignmentFrame(c) ==
    /\ on_frame(c)
    /\ sent[c] # <<>>
    /\ LET f == Head(sent[c])
       IN  IF Accepts(f)
           THEN /\ Applied(f)
                /\ Goes(c, IF f.type = "WorkStarted" THEN "read" ELSE "pass")
           ELSE UNCHANGED <<vars, reader>>
    /\ sent' = [sent EXCEPT ![c] = Tail(@)]
    /\ UNCHANGED <<server, sessions, agent_sessions, session, bound, batch, inbox>>

-----------------------------------------------------------------------------
(* run_scheduling_pass.                                                    *)

\* Work that a later pass of the batch goes on with.
FanoutContinues(w) ==
    /\ work[w].req.mode = "Parallel"
    /\ work[w].current > 0
    /\ work[w].current < work[w].req.maxParallel

BatchCandidates ==
    {w \in Work : work[w].lifecycle = "Admitted" \/ FanoutContinues(w)}

\* schedule_batch begins; the mutex is held until it ends.  How the batch
\* orders its candidates is module Fairness; any order is possible here.
BatchBegins(c) ==
    /\ reader[c].at = "pass"
    /\ Unlocked
    /\ IF sched.running /\ sched.admission /\ BatchCandidates # {}
       THEN /\ batch' = [by |-> c, pass |-> 0, left |-> BatchCandidates,
                         progress |-> FALSE]
            /\ Goes(c, "batch")
       ELSE Goes(c, "read") /\ UNCHANGED batch
    /\ UNCHANGED <<vars, server, sessions, agent_sessions, session, bound, inbox,
                   sent>>

Plannable(w) == PlanAllowed(w) /\ \E a \in Agent : evaluate_eligibility(w, a)

BatchPlans(c) ==
    /\ batch.by = c
    /\ call[c] = Idle
    /\ \E w \in batch.left :
          /\ IF Plannable(w) THEN plan_locked(c, w) ELSE UNCHANGED vars
          /\ batch' = [batch EXCEPT !.left = @ \ {w}]
    /\ UNCHANGED <<server, sessions, agent_sessions, session, bound, reader,
                   inbox, sent>>

\* The mutex is still held, so the commit finds what the plan saw.  Only the
\* first pass reports its decisions.
BatchCommits(c) ==
    /\ batch.by = c
    /\ commit_locked(c)
    /\ batch' = [batch EXCEPT !.progress = TRUE]
    /\ reader' = IF batch.pass = 0
                 THEN [reader EXCEPT ![c].todo = Append(@, call[c].b)]
                 ELSE reader
    /\ UNCHANGED <<server, sessions, agent_sessions, session, bound, inbox, sent>>

\* Deliberately wrong variant of Decides: also without decisions.
DecidesAnyway(todo) == [at |-> "dispatch", todo |-> todo, to |-> Nobody]

\* A reader with these decisions left to dispatch; without any it goes back to
\* its frames.
Decides(todo) == [at |-> IF todo = <<>> THEN "read" ELSE "dispatch",
                  todo |-> todo, to |-> Nobody]

\* The next pass, or the end of the batch.
BatchContinues(c) ==
    LET more == {w \in BatchCandidates : FanoutContinues(w)}
    IN  /\ batch.by = c
        /\ call[c] = Idle
        /\ batch.left = {}
        /\ IF batch.progress /\ more # {}
           THEN /\ batch' = [batch EXCEPT !.pass = @ + 1, !.left = more,
                                          !.progress = FALSE]
                /\ UNCHANGED reader
           ELSE batch' = NoBatch /\ reader' = [reader EXCEPT ![c] = Decides(@.todo)]
        /\ UNCHANGED <<vars, server, sessions, agent_sessions, session, bound,
                       inbox, sent>>

\* The reader is done with the first of its decisions.
NextDecision(c) == reader' = [reader EXCEPT ![c] = Decides(Tail(@.todo))]

\* Deliberately wrong variant of Refused: the result of dispatch() is not
\* looked at.
RefusedUnseen(c) == Goes(c, "push")

Refused(c) == NextDecision(c)

\* dispatch() for each decision.
DispatchDecision(c) ==
    /\ reader[c].at = "dispatch"
    /\ Unlocked
    /\ IF DispatchAllowed(Head(reader[c].todo))
       THEN dispatch(c, Head(reader[c].todo)) /\ Goes(c, "handoff")
       ELSE Refused(c) /\ UNCHANGED vars
    /\ UNCHANGED <<server, sessions, agent_sessions, session, bound, batch,
                   inbox, sent>>

HandoffDecision(c) ==
    /\ reader[c].at = "handoff"
    /\ Unlocked
    /\ \/ Handoff(c) /\ Goes(c, "push")
       \/ HandoffRejected(c) /\ Refused(c)
    /\ UNCHANGED <<server, sessions, agent_sessions, session, bound, batch,
                   inbox, sent>>

\* push_assignment: find the session of the incarnation ...
push_assignment(c) ==
    LET b == Head(reader[c].todo)
        entry == agent_sessions[b.agent]
    IN  /\ reader[c].at = "push"
        /\ IF entry # Nobody /\ entry.boot = b.boot /\ entry.session \in sessions
           THEN reader' = [reader EXCEPT ![c].at = "enqueue",
                                         ![c].to = entry.session]
           ELSE NextDecision(c)
        /\ UNCHANGED <<vars, server, sessions, agent_sessions, session, bound,
                       batch, inbox, sent>>

\* ... and queue the frame there, unless it is closed.
EnqueueAssignWork(c) ==
    LET to == reader[c].to
    IN  /\ reader[c].at = "enqueue"
        /\ inbox' = IF session[to] \in {"open", "lost"}
                    THEN [inbox EXCEPT ![to] = Append(@, Head(reader[c].todo))]
                    ELSE inbox
        /\ NextDecision(c)
        /\ UNCHANGED <<vars, server, sessions, agent_sessions, session, bound,
                       batch, sent>>

-----------------------------------------------------------------------------
(* start() and stop().                                                     *)

Served(at) == server' = [server EXCEPT !.at = at]

StartServer ==
    /\ server.at = "new"
    /\ start
    /\ Served("up")
    /\ UNCHANGED <<sessions, agent_sessions, session, bound, reader, batch, inbox,
                   sent>>

\* running_ is cleared, the listener closed and the scheduler shut down.
StopBegins ==
    /\ server.at = "up"
    /\ Unlocked
    /\ shutdown
    /\ Served("shut")
    /\ UNCHANGED <<sessions, agent_sessions, session, bound, reader, batch, inbox,
                   sent>>

\* Deliberately wrong variant of ClosedAll: closes nothing.
ClosedNone == session

\* request_close on every registered session.
ClosedAll ==
    [c \in Caller |-> IF c \in sessions THEN "closed" ELSE session[c]]

\* The shutdown notifier.  A ShutdownNotice it queues is dropped by the
\* request_close that follows.
NotifySessions ==
    /\ server.at = "shut"
    /\ session' = ClosedAll
    /\ Served("notified")
    /\ UNCHANGED <<vars, sessions, agent_sessions, bound, reader, batch, inbox,
                   sent>>

\* The session maps are emptied; a session accepted late comes after.
ClearSessions ==
    /\ server.at = "notified"
    /\ session' = ClosedAll
    /\ server' = [at |-> "joining", joins |-> sessions]
    /\ sessions' = {}
    /\ agent_sessions' = [a \in Agent |-> Nobody]
    /\ UNCHANGED <<vars, bound, reader, batch, inbox, sent>>

\* The accept thread, the readers that were still registered, and those that
\* closed before, which the reaper joins.
JoinThreads ==
    /\ server.at = "joining"
    /\ ~\E c \in Caller : session[c] = "accepted" \/ reader[c].at = "losing"
    /\ \A c \in server.joins : reader[c].at = "gone"
    /\ Served("stopped")
    /\ UNCHANGED <<vars, sessions, agent_sessions, session, bound, reader, batch,
                   inbox, sent>>

ServerNext ==
    \/ StartServer \/ StopBegins \/ NotifySessions \/ ClearSessions
    \/ JoinThreads

-----------------------------------------------------------------------------
\* What a reader does on its own, without waiting for a peer.
ReaderStep(c) ==
    \/ on_closed(c) \/ ReportLoss(c)
    \/ MapAgent(c) \/ RevalidateAll(c)
    \/ AssignmentFrame(c)
    \/ BatchBegins(c) \/ BatchPlans(c) \/ BatchCommits(c) \/ BatchContinues(c)
    \/ DispatchDecision(c) \/ HandoffDecision(c) \/ DispatchEnds(c)
    \/ push_assignment(c) \/ EnqueueAssignWork(c)

\* Frames that peers send when they like.
PeerStep(c) ==
    \/ \E a \in Agent, m \in Concurrency :
          \E boot \in BootOf[a] : RegisterAgent(c, a, boot, m)
    \/ AgentFrame(c)
    \/ ControlFrame(c)
    \/ \E a \in Agent, force \in BOOLEAN : Deregister(c, a, force)
    \/ \E b \in DOMAIN asg : DispatchAssignment(c, b)
    \/ Breaks(c)

CoordinatorNext ==
    \/ ServerNext
    \/ \E c \in Caller :
          \/ accept_one(c) \/ emplace(c)
          \/ ReaderStep(c)
          \/ AgentReceives(c)
          \/ PeerStep(c)

\* Threads are scheduled and get the scheduler's mutex at last: a reader that
\* can go on does, an accepted connection gets its session, a stop that began is
\* carried through, and an agent answers as long as its session is open.
CoordinatorFairness ==
    /\ \A c \in Caller :
          /\ SF_<<vars, frontVars>>(ReaderStep(c))
          /\ WF_<<vars, frontVars>>(AgentReceives(c))
    /\ WF_<<vars, frontVars>>(\E c \in Caller : emplace(c))
    /\ SF_<<vars, frontVars>>(ServerNext /\ server.at \notin {"new", "up"})

CoordinatorSpec ==
    CoordinatorInit /\ [][CoordinatorNext]_<<vars, frontVars>> /\ CoordinatorFairness

-----------------------------------------------------------------------------
(* Properties.                                                             *)

\* The variables of the coordinator stay within their types, and a reader is
\* dispatching exactly while it has a decision to dispatch.
FrontTypeOK ==
    /\ server \in [at : ServerStates, joins : SUBSET Caller]
    /\ sessions \subseteq Caller
    /\ agent_sessions \in [Agent -> [boot : Boot, session : Caller] \cup {Nobody}]
    /\ session \in [Caller -> SessionStates]
    /\ bound \in [Caller -> [agent : Agent, boot : Boot] \cup {Nobody}]
    /\ batch.by \in Caller \cup {Nobody}
    /\ \A c \in Caller :
          /\ reader[c].at \in ReaderStates
          /\ reader[c].at # "batch" =>
               (reader[c].at \in {"dispatch", "handoff", "push", "enqueue"}
                  <=> reader[c].todo # <<>>)

\* Whether session c answers for the incarnation of b: when it goes, the agent
\* will be reported lost.
Answers(c, b) ==
    /\ bound[c] = [agent |-> b.agent, boot |-> b.boot]
    /\ reader[c].at # "gone"

\* Every active assignment belongs to an incarnation that some session still
\* answers for: however registrations, reconnections and closing sessions
\* interleave, none is left behind with an agent nobody would miss.
AuthorityHasSession ==
    \A b \in ActiveIn(asg) : \E c \in Caller : Answers(c, b)

\* While the server is up, an agent is mapped to a registered session that is
\* bound to the very incarnation.
MapPointsToSession ==
    server.at \in {"new", "up", "shut", "notified"} =>
        \A a \in Agent : agent_sessions[a] # Nobody =>
            LET c == agent_sessions[a].session
            IN  /\ c \in sessions
                /\ bound[c] = [agent |-> a, boot |-> agent_sessions[a].boot]

\* An agent is told of an assignment only on its own session and after the
\* authority was handed off, and it answers each one once: while it has not,
\* the assignment is not yet acknowledged.
ToldOnceAuthorised ==
    \A c \in Caller : \A i \in DOMAIN inbox[c] :
        LET b == inbox[c][i]
        IN  /\ bound[c] = [agent |-> b.agent, boot |-> b.boot]
            /\ asg[b].state \in {"Dispatched", "RevalidationRequired"} \cup
                                (TerminalStates \ {"Completed", "Released"})
            /\ \A j \in DOMAIN inbox[c] : inbox[c][j] = b => i = j

\* An open session is bound to the incarnation of b, but the incarnation is not
\* mapped to any session.
Unmapped(b) ==
    /\ \E c \in Caller : /\ Answers(c, b)
                         /\ session[c] = "open"
                         /\ reader[c].at # "bind"
    /\ agent_sessions[b.agent] # Nobody => agent_sessions[b.agent].boot # b.boot

\* A client has dispatch() hand off b.
ControlDispatches(b) ==
    \E c \in Caller : reader[c].at = "control" /\ call[c].b = b

\* An assignment of exclusive work that was committed is settled: its agent is
\* told and ends it, or the loss of its session, an operator or newer work
\* closes it.  The exceptions are an agent that is draining (dispatch() refuses
\* and nobody asks again), a client that had it dispatched (nobody tells the
\* agent), and an incarnation whose session the map does not lead to.
CommittedIsSettled ==
    \A w \in Work, g \in 1..MaxAsgGen :
        LET Some(P(_)) == \E b \in DOMAIN asg : b.work = w /\ b.gen = g /\ P(b)
            Waits(b) == b.exclusive /\ asg[b].state = "Assigned"
            Over(b) == \/ asg[b].state \in TerminalStates
                       \/ agents[b.agent].lifecycle = "Draining"
                       \/ ControlDispatches(b)
                       \/ Unmapped(b)
        IN  Some(Waits) ~> Some(Over)

\* stop() returns, although readers may be anywhere in a frame, a pass or their
\* own closing when it begins, and a connection may be accepted meanwhile.
StopReturns == server.at = "shut" ~> server.at = "stopped"

=============================================================================
