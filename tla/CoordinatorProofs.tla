------------------------- MODULE CoordinatorProofs --------------------------
(***************************************************************************)
(* Proofs about Coordinator: its steps are steps of the scheduler, so what *)
(* is proved of the scheduler holds of the one that the coordinator runs,  *)
(* and the safety properties of its sessions, for any number of them.      *)
(***************************************************************************)
EXTENDS Coordinator, AuthorityProofs, SequenceTheorems

-----------------------------------------------------------------------------
(* The variables of the coordinator are typed.                             *)

ReaderRecord == [at : ReaderStates, todo : Seq(DOMAIN asg),
                 to : Caller \cup {Nobody}]

FrameRecord == [type : {"AssignmentAck", "WorkStarted", "WorkReleased",
                        "WorkCompleted", "WorkFailed"},
                b : DOMAIN asg]

\* A reader in one of these states has a decision to dispatch.
Dispatching == {"dispatch", "handoff", "push", "enqueue"}

SessionsTyped ==
    /\ server \in [at : ServerStates, joins : SUBSET Caller]
    /\ sessions \subseteq Caller
    /\ agent_sessions \in [Agent -> [boot : Boot, session : Caller] \cup {Nobody}]
    /\ session \in [Caller -> SessionStates]
    /\ bound \in [Caller -> [agent : Agent, boot : Boot] \cup {Nobody}]
    /\ \A c \in Caller : bound[c] # Nobody => bound[c].boot \in BootOf[bound[c].agent]
    /\ batch \in [by : Caller \cup {Nobody}, pass : Nat, left : SUBSET Work,
                  progress : BOOLEAN]

\* What a reader is doing agrees with its session, its decisions and the batch.
Consistent(c) ==
    /\ reader[c].at # "batch" => (reader[c].at \in Dispatching <=> reader[c].todo # <<>>)
    /\ reader[c].at = "batch" <=> batch.by = c
    /\ reader[c].at = "enqueue" => reader[c].to \in Caller
    /\ reader[c].at = "bind" => bound[c] # Nobody
    /\ session[c] \in {"free", "accepted"} => reader[c].at = "none"

FrontTyped ==
    /\ now >= 1
    /\ SessionsTyped
    /\ reader \in [Caller -> ReaderRecord]
    /\ inbox \in [Caller -> Seq(DOMAIN asg)]
    /\ sent \in [Caller -> Seq(FrameRecord)]
    /\ \A c \in Caller : Consistent(c)

-----------------------------------------------------------------------------
(* Steps of the coordinator are steps of the scheduler.                    *)

\* Steps about assignments that are not reports.
Unreported ==
    \/ \E c \in Caller :
          \/ \E w \in Work : plan_locked(c, w)
          \/ commit_locked(c)
          \/ CommitRejected(c)
          \/ \E b \in DOMAIN asg : dispatch(c, b)
          \/ Handoff(c)
          \/ HandoffRejected(c)
    \/ revalidate_assignments

\* Steps about an agent that go on with its incarnation or end it.
Continued ==
    \E a \in Agent :
        \/ \E g \in 1..MaxCapGen : publish_capabilities(a, g, now)
        \/ \E v \in HealthReports : publish_health(a, v, now)
        \/ \E v \in AvailReports : publish_availability(a, v, now)
        \/ heartbeat(a)
        \/ \E force \in BOOLEAN : drain_agent(a, force) \/ deregister_agent(a, force)

\* What the coordinator has the scheduler do, but for registrations, losses and
\* what agents report.
Routine == start \/ shutdown \/ WorkNext \/ Unreported \/ Continued

\* A step of the coordinator is a registration, a loss, a report, or routine.
LEMMA StepKinds ==
    ASSUME TypeOK, FrontTyped, [CoordinatorNext]_<<vars, frontVars>>
    PROVE  \/ \E c \in Caller, a \in Agent, m \in Concurrency :
                \E boot \in BootOf[a] : RegisterAgent(c, a, boot, m)
           \/ \E c \in Caller : ReportLoss(c)
           \/ \E c \in Caller :
                /\ AssignmentFrame(c)
                /\ sent[c] # <<>>
                /\ Head(sent[c]).b \in DOMAIN asg
                /\ Report(Head(sent[c]).b)
           \/ [Routine]_vars
<1>1. CASE UNCHANGED <<vars, frontVars>>
  BY <1>1
<1>2. CASE ServerNext
  BY <1>2 DEF ServerNext, StartServer, StopBegins, NotifySessions, ClearSessions,
       JoinThreads, Routine
<1>3. ASSUME NEW c \in Caller, AssignmentFrame(c), ~UNCHANGED vars
      PROVE  sent[c] # <<>> /\ Head(sent[c]).b \in DOMAIN asg /\ Report(Head(sent[c]).b)
  <2>1. sent[c] # <<>> /\ Head(sent[c]) \in FrameRecord
    BY <1>3, HeadTailProperties DEF AssignmentFrame, FrontTyped
  <2> DEFINE f == Head(sent[c])
  <2>2. Applied(f)
    BY <1>3 DEF AssignmentFrame
  <2>3. f.b \in DOMAIN asg /\ f.type \in {"AssignmentAck", "WorkStarted",
              "WorkReleased", "WorkCompleted", "WorkFailed"}
    BY <2>1 DEF FrameRecord
  <2> HIDE DEF f
  <2>4. Report(f.b)
    BY <2>2, <2>3 DEF Applied, Report
  <2> QED
    BY <2>1, <2>3, <2>4 DEF f
<1>4. ASSUME NEW c \in Caller, DispatchDecision(c)
      PROVE  [Routine]_vars
  <2>1. reader[c].todo # <<>> /\ reader[c].todo \in Seq(DOMAIN asg)
    BY <1>4 DEF DispatchDecision, FrontTyped, Consistent, ReaderRecord, Dispatching
  <2>2. Head(reader[c].todo) \in DOMAIN asg
    BY <2>1, HeadTailProperties
  <2> QED
    BY <1>4, <2>2 DEF DispatchDecision, Routine, Unreported
<1>5. ASSUME NEW c \in Caller, BatchPlans(c)
      PROVE  [Routine]_vars
  <2>1. batch.left \subseteq Work
    BY DEF FrontTyped, SessionsTyped
  <2> QED
    BY <1>5, <2>1 DEF BatchPlans, Routine, Unreported
<1>6. ASSUME NEW c \in Caller,
             \/ on_closed(c) \/ MapAgent(c) \/ BatchBegins(c) \/ BatchContinues(c)
             \/ push_assignment(c) \/ EnqueueAssignWork(c)
             \/ accept_one(c) \/ emplace(c) \/ AgentReceives(c) \/ Breaks(c)
      PROVE  UNCHANGED vars
  BY <1>6 DEF on_closed, MapAgent, BatchBegins, BatchContinues, push_assignment,
       EnqueueAssignWork, accept_one, emplace, AgentReceives, Breaks
<1>7. ASSUME NEW c \in Caller,
             \/ RevalidateAll(c) \/ BatchCommits(c) \/ HandoffDecision(c)
             \/ DispatchEnds(c) \/ \E b \in DOMAIN asg : DispatchAssignment(c, b)
      PROVE  [Routine]_vars
  BY <1>7 DEF RevalidateAll, BatchCommits, HandoffDecision, DispatchEnds,
       DispatchAssignment, Routine, Unreported
<1>8. ASSUME NEW c \in Caller,
             \/ AgentFrame(c) \/ ControlFrame(c)
             \/ \E a \in Agent, force \in BOOLEAN : Deregister(c, a, force)
      PROVE  Routine
  <2>1. CASE AgentFrame(c)
    <3>1. bound[c] # Nobody /\ bound[c].agent \in Agent
      BY <2>1 DEF AgentFrame, FrontTyped, SessionsTyped
    <3> QED
      BY <2>1, <3>1 DEF AgentFrame, Routine, Continued
  <2>2. CASE ControlFrame(c)
    BY <2>2 DEF ControlFrame, Routine, Continued, WorkNext
  <2>3. CASE \E a \in Agent, force \in BOOLEAN : Deregister(c, a, force)
    BY <2>3 DEF Deregister, Routine, Continued
  <2> QED
    BY <1>8, <2>1, <2>2, <2>3
<1>9. ASSUME NEW c \in Caller, ReaderStep(c)
      PROVE  \/ ReportLoss(c)
             \/ /\ AssignmentFrame(c)
                /\ sent[c] # <<>>
                /\ Head(sent[c]).b \in DOMAIN asg
                /\ Report(Head(sent[c]).b)
             \/ [Routine]_vars
  BY <1>3, <1>4, <1>5, <1>6, <1>7, <1>9 DEF ReaderStep
<1>10. ASSUME NEW c \in Caller, PeerStep(c)
       PROVE  \/ \E a \in Agent, m \in Concurrency :
                    \E boot \in BootOf[a] : RegisterAgent(c, a, boot, m)
              \/ [Routine]_vars
  BY <1>6, <1>7, <1>8, <1>10 DEF PeerStep
<1> QED
  BY <1>1, <1>2, <1>6, <1>9, <1>10 DEF CoordinatorNext

\* A registration registers an agent with the scheduler.
LEMMA RegistrationStep ==
    ASSUME NEW c \in Caller, NEW a \in Agent, NEW m \in Concurrency,
           NEW boot \in BootOf[a], RegisterAgent(c, a, boot, m)
    PROVE  /\ AgentNext
           /\ \/ RegisterNew(a, GenOf[boot], boot, m)
              \/ Reincarnate(a, GenOf[boot], boot, m)
              \/ boot = agents[a].boot /\ Reregister(a, m)
           /\ GenOf[boot] \in 1..MaxAgentGen /\ boot \in Boot
<1>1. boot \in Boot /\ GenOf[boot] \in 1..MaxAgentGen
  BY Inputs, Peers
<1> QED
  BY <1>1 DEF RegisterAgent, AgentNext

\* A session that is over has its incarnation lost, current or not, if it has one.
LEMMA LossStep ==
    ASSUME FrontTyped, NEW c \in Caller, ReportLoss(c)
    PROVE  \/ bound[c] = Nobody /\ UNCHANGED vars
           \/ /\ bound[c] # Nobody
              /\ bound[c].agent \in Agent /\ bound[c].boot \in BootOf[bound[c].agent]
              /\ AgentNext
              /\ \/ /\ agents[bound[c].agent].boot = bound[c].boot
                    /\ LoseCurrent(bound[c].agent)
                 \/ /\ agents[bound[c].agent].boot # bound[c].boot
                    /\ LoseStale(bound[c].agent, bound[c].boot)
<1>1. bound[c] # Nobody => /\ bound[c].agent \in Agent
                           /\ bound[c].boot \in BootOf[bound[c].agent]
  BY DEF FrontTyped, SessionsTyped
<1> QED
  BY <1>1 DEF ReportLoss, DeclareLost, AgentNext

\* Routine steps are steps of the scheduler.
LEMMA RoutineStep ==
    ASSUME TypeOK, FrontTyped, Routine
    PROVE  Next
<1>1. now \in 1..now
  BY DEF FrontTyped, TypeOK
<1>2. Continued => AgentNext
  BY <1>1 DEF Continued, AgentNext
<1>3. Unreported => AssignmentNext
  BY DEF Unreported, AssignmentNext
<1> QED
  BY <1>2, <1>3 DEF Routine, Next

\* So is every step of the coordinator.
LEMMA StepNext ==
    ASSUME TypeOK, FrontTyped, [CoordinatorNext]_<<vars, frontVars>>
    PROVE  [Next]_vars
<1>1. CASE \E c \in Caller, a \in Agent, m \in Concurrency :
              \E boot \in BootOf[a] : RegisterAgent(c, a, boot, m)
  BY <1>1, RegistrationStep DEF Next
<1>2. CASE \E c \in Caller : ReportLoss(c)
  BY <1>2, LossStep DEF Next
<1>3. CASE \E c \in Caller : /\ Head(sent[c]).b \in DOMAIN asg
                             /\ Report(Head(sent[c]).b)
  BY <1>3 DEF Next, AssignmentNext
<1>4. CASE [Routine]_vars
  BY <1>4, RoutineStep
<1> QED
  BY <1>1, <1>2, <1>3, <1>4, StepKinds

\* The scheduler never forgets an assignment.
LEMMA StoredGrow ==
    ASSUME TypeOK, [Next]_vars
    PROVE  DOMAIN asg \subseteq DOMAIN asg'
  BY NextKept, CommitStores DEF TerminalKept, Adds

\* What is typed stays so as assignments are stored.
LEMMA TypesGrow ==
    ASSUME DOMAIN asg \subseteq DOMAIN asg'
    PROVE  /\ ReaderRecord \subseteq ReaderRecord'
           /\ Seq(DOMAIN asg) \subseteq Seq(DOMAIN asg')
           /\ Seq(FrameRecord) \subseteq Seq(FrameRecord')
<1>1. Seq(DOMAIN asg) \subseteq Seq(DOMAIN asg')
  BY SeqMonotonic
<1>2. FrameRecord \subseteq FrameRecord'
  BY DEF FrameRecord
<1>3. Seq(FrameRecord) \subseteq Seq(FrameRecord')
  BY <1>2, SeqMonotonic
<1> QED
  BY <1>1, <1>3 DEF ReaderRecord

\* The inboxes and the frames on their way are typed after the step.
QueuesTyped ==
    /\ inbox' \in [Caller -> Seq(DOMAIN asg')]
    /\ sent' \in [Caller -> Seq(FrameRecord')]

\* Queues that do not change stay typed.
LEMMA QueuesStay ==
    ASSUME FrontTyped, DOMAIN asg \subseteq DOMAIN asg', UNCHANGED <<inbox, sent>>
    PROVE  QueuesTyped
<1>1. Seq(DOMAIN asg) \subseteq Seq(DOMAIN asg')
      /\ Seq(FrameRecord) \subseteq Seq(FrameRecord')
  BY TypesGrow
<1> HIDE DEF FrameRecord
<1> QED
  BY <1>1 DEF FrontTyped, QueuesTyped

\* A step in which no reader moves and no session starts over.
LEMMA ReadersStay ==
    ASSUME FrontTyped, DOMAIN asg \subseteq DOMAIN asg', now' >= 1,
           SessionsTyped', QueuesTyped, reader' = reader,
           batch'.by = batch.by, bound' = bound,
           \A d \in Caller : session'[d] \in {"free", "accepted"}
                                => session[d] \in {"free", "accepted"}
    PROVE  FrontTyped'
<1>1. reader' \in [Caller -> ReaderRecord']
  BY TypesGrow DEF FrontTyped
<1>2. \A c \in Caller : Consistent(c)'
  BY DEF FrontTyped, Consistent
<1> QED
  BY <1>1, <1>2 DEF FrontTyped, QueuesTyped

\* A step in which one reader moves.
LEMMA ReaderMoves ==
    ASSUME FrontTyped, DOMAIN asg \subseteq DOMAIN asg', now' >= 1,
           SessionsTyped', QueuesTyped, NEW c \in Caller,
           NEW r, r \in ReaderRecord', reader' = [reader EXCEPT ![c] = r],
           \A d \in Caller \ {c} : /\ session'[d] = session[d]
                                   /\ bound'[d] = bound[d]
                                   /\ batch'.by = d <=> batch.by = d,
           Consistent(c)'
    PROVE  FrontTyped'
<1>1. reader' \in [Caller -> ReaderRecord']
  BY TypesGrow DEF FrontTyped
<1>2. \A d \in Caller \ {c} : reader'[d] = reader[d]
  BY DEF FrontTyped
<1>3. ASSUME NEW d \in Caller \ {c}
      PROVE  Consistent(d)'
  <2>1. /\ Consistent(d) /\ reader'[d] = reader[d]
        /\ session'[d] = session[d] /\ bound'[d] = bound[d]
        /\ batch'.by = d <=> batch.by = d
    BY <1>2 DEF FrontTyped
  <2> QED
    BY <2>1 DEF Consistent
<1> QED
  BY <1>1, <1>3 DEF FrontTyped, QueuesTyped

\* A step in which one reader goes on to a state that has as many decisions to
\* dispatch, outside a batch.
LEMMA ReaderProceeds ==
    ASSUME FrontTyped, DOMAIN asg \subseteq DOMAIN asg', now' >= 1,
           SessionsTyped', QueuesTyped, NEW c \in Caller, NEW at \in ReaderStates,
           Goes(c, at), UNCHANGED <<session, bound, batch>>,
           at \notin {"batch", "enqueue", "bind"},
           reader[c].at \notin {"batch", "none"},
           at \in Dispatching <=> reader[c].at \in Dispatching
    PROVE  FrontTyped'
<1> DEFINE r == [reader[c] EXCEPT !.at = at]
<1>1. r \in ReaderRecord' /\ r.at = at /\ r.todo = reader[c].todo
  BY TypesGrow DEF FrontTyped, ReaderRecord
<1>2. reader' = [reader EXCEPT ![c] = r]
  BY DEF Goes
<1>3. reader'[c] = r
  BY <1>2 DEF FrontTyped
<1> HIDE DEF r
<1>4. Consistent(c)'
  BY <1>1, <1>3 DEF FrontTyped, Consistent
<1> QED
  BY <1>1, <1>2, <1>4, ReaderMoves

\* A decision that is done with leaves the others.
LEMMA DecisionDone ==
    ASSUME FrontTyped, DOMAIN asg \subseteq DOMAIN asg', now' >= 1,
           SessionsTyped', QueuesTyped, NEW c \in Caller,
           NextDecision(c), UNCHANGED <<session, bound, batch>>,
           reader[c].at \in Dispatching
    PROVE  FrontTyped'
<1> DEFINE r == Decides(Tail(reader[c].todo))
<1>1. reader[c].todo # <<>> /\ reader[c].todo \in Seq(DOMAIN asg)
  BY DEF FrontTyped, Consistent, ReaderRecord, Dispatching
<1>2. Tail(reader[c].todo) \in Seq(DOMAIN asg')
  BY <1>1, HeadTailProperties, TypesGrow
<1>3. /\ r \in ReaderRecord'
      /\ r.at \in {"read", "dispatch"}
      /\ r.at = "dispatch" <=> r.todo # <<>>
  BY <1>2 DEF Decides, ReaderRecord, ReaderStates
<1>4. reader' = [reader EXCEPT ![c] = r]
  BY DEF NextDecision
<1>5. reader'[c] = r
  BY <1>4 DEF FrontTyped
<1> HIDE DEF r
<1>6. Consistent(c)'
  BY <1>3, <1>5 DEF FrontTyped, Consistent, Dispatching
<1> QED
  BY <1>3, <1>4, <1>6, ReaderMoves

\* Starting, stopping, and sessions coming and going.
LEMMA ServerFront ==
    ASSUME TypeOK, FrontTyped, DOMAIN asg \subseteq DOMAIN asg', now' >= 1,
           ServerNext
    PROVE  FrontTyped'
<1>1. ClosedAll \in [Caller -> SessionStates]
  BY DEF ClosedAll, FrontTyped, SessionsTyped, SessionStates
<1>2. SessionsTyped'
  <2>1. CASE StartServer \/ StopBegins \/ JoinThreads
    BY <2>1 DEF StartServer, StopBegins, JoinThreads, Served, FrontTyped,
         SessionsTyped, ServerStates
  <2>2. CASE NotifySessions
    BY <1>1, <2>2 DEF NotifySessions, Served, FrontTyped, SessionsTyped, ServerStates
  <2>3. CASE ClearSessions
    BY <1>1, <2>3 DEF ClearSessions, FrontTyped, SessionsTyped, ServerStates
  <2> QED
    BY <2>1, <2>2, <2>3 DEF ServerNext
<1>3. UNCHANGED <<reader, batch, bound, inbox, sent>>
  BY DEF ServerNext, StartServer, StopBegins, NotifySessions, ClearSessions,
         JoinThreads
<1>4. \A d \in Caller : session'[d] \in {"free", "accepted"}
                           => session[d] \in {"free", "accepted"}
  <2>1. session' = session \/ session' = ClosedAll
    BY DEF ServerNext, StartServer, StopBegins, NotifySessions, ClearSessions,
           JoinThreads
  <2> QED
    BY <2>1 DEF ClosedAll
<1>5. QueuesTyped
  BY <1>3, QueuesStay
<1> QED
  BY <1>2, <1>3, <1>4, <1>5, ReadersStay

\* What sessions do without their reader.
LEMMA IdleFront ==
    ASSUME TypeOK, FrontTyped, DOMAIN asg \subseteq DOMAIN asg', now' >= 1,
           NEW c \in Caller,
           \/ accept_one(c) \/ Breaks(c) \/ BatchPlans(c)
           \/ \E a \in Agent, force \in BOOLEAN : Deregister(c, a, force)
    PROVE  FrontTyped'
<1>1. SessionsTyped'
  <2>1. CASE accept_one(c) \/ Breaks(c)
    BY <2>1 DEF accept_one, Breaks, FrontTyped, SessionsTyped, SessionStates
  <2>2. CASE BatchPlans(c)
    <3>1. batch' \in [by : Caller \cup {Nobody}, pass : Nat, left : SUBSET Work,
                      progress : BOOLEAN]
      <4>1. PICK w : batch' = [batch EXCEPT !.left = @ \ {w}]
        BY <2>2 DEF BatchPlans
      <4> QED
        BY <4>1 DEF FrontTyped, SessionsTyped
    <3> QED
      BY <2>2, <3>1 DEF BatchPlans, FrontTyped, SessionsTyped
  <2>3. ASSUME NEW a \in Agent, NEW force \in BOOLEAN, Deregister(c, a, force)
        PROVE  SessionsTyped'
    <3>1. agent_sessions' \in [Agent -> [boot : Boot, session : Caller] \cup {Nobody}]
      BY <2>3 DEF Deregister, FrontTyped, SessionsTyped
    <3> QED
      BY <2>3, <3>1 DEF Deregister, FrontTyped, SessionsTyped
  <2> QED
    BY <2>1, <2>2, <2>3
<1>2. UNCHANGED <<reader, bound, inbox, sent>> /\ batch'.by = batch.by
  BY DEF accept_one, Breaks, BatchPlans, Deregister, FrontTyped, SessionsTyped
<1>3. \A d \in Caller : session'[d] \in {"free", "accepted"}
                           => session[d] \in {"free", "accepted"}
  <2>1. CASE accept_one(c) \/ Breaks(c)
    BY <2>1 DEF accept_one, Breaks, FrontTyped, SessionsTyped
  <2>2. CASE session' = session
    BY <2>2
  <2> QED
    BY <2>1, <2>2 DEF BatchPlans, Deregister
<1>4. QueuesTyped
  BY <1>2, QueuesStay
<1> QED
  BY <1>1, <1>2, <1>3, <1>4, ReadersStay

\* An agent that reads its inbox answers with frames about what it read.
LEMMA ReceiveFront ==
    ASSUME TypeOK, FrontTyped, DOMAIN asg \subseteq DOMAIN asg', now' >= 1,
           NEW c \in Caller, AgentReceives(c)
    PROVE  FrontTyped'
<1>1. UNCHANGED <<vars, server, sessions, agent_sessions, session, bound, reader, batch>>
  BY DEF AgentReceives
<1>2. SessionsTyped'
  BY <1>1 DEF FrontTyped, SessionsTyped
<1>3. /\ inbox[c] \in Seq(DOMAIN asg) /\ inbox[c] # <<>>
      /\ Head(inbox[c]) \in DOMAIN asg /\ Tail(inbox[c]) \in Seq(DOMAIN asg)
  BY HeadTailProperties DEF AgentReceives, FrontTyped
<1>4. inbox' \in [Caller -> Seq(DOMAIN asg)]
  BY <1>3 DEF AgentReceives, FrontTyped
<1>5. PICK last \in Outcomes :
        sent' = [sent EXCEPT ![c] =
                   @ \o [i \in 1..3 |->
                           [type |-> <<"AssignmentAck", "WorkStarted", last>>[i],
                            b |-> Head(inbox[c])]]]
  BY DEF AgentReceives
<1> DEFINE answers == [i \in 1..3 |->
                         [type |-> <<"AssignmentAck", "WorkStarted", last>>[i],
                          b |-> Head(inbox[c])]]
<1>6. \A i \in 1..3 : answers[i] \in FrameRecord
  <2> DEFINE types == <<"AssignmentAck", "WorkStarted", last>>
  <2>1. \A i \in 1..3 : types[i] \in {"AssignmentAck", "WorkStarted", last}
    <3>1. /\ types[1] = "AssignmentAck"
          /\ types[2] = "WorkStarted"
          /\ types[3] = last
      OBVIOUS
    <3>2. \A i \in 1..3 : i = 1 \/ i = 2 \/ i = 3
      OBVIOUS
    <3> HIDE DEF types
    <3> QED
      BY <3>1, <3>2
  <2> HIDE DEF types
  <2> QED
    BY <1>3, <2>1, Peers DEF FrameRecord, types
<1>7. answers \in Seq(FrameRecord)
  <2>1. answers \in [1..3 -> FrameRecord]
    BY <1>6
  <2> HIDE DEF answers
  <2>2. answers \in UNION {[1..n -> FrameRecord] : n \in Nat}
    BY <2>1
  <2> QED
    BY <2>2, SeqDef, Zenon
<1>8. sent[c] \o answers \in Seq(FrameRecord)
  <2> HIDE DEF answers
  <2> QED
    BY <1>7, ConcatProperties DEF FrontTyped
<1>9. sent' \in [Caller -> Seq(FrameRecord)]
  BY <1>5, <1>8 DEF FrontTyped
<1>10. QueuesTyped
  BY <1>1, <1>4, <1>9 DEF QueuesTyped, FrameRecord, vars
<1> QED
  BY <1>1, <1>2, <1>10, ReadersStay

\* A session begins, gets its agent, or is over.
LEMMA SessionFront ==
    ASSUME TypeOK, FrontTyped, DOMAIN asg \subseteq DOMAIN asg', now' >= 1,
           NEW c \in Caller, emplace(c) \/ on_closed(c)
    PROVE  FrontTyped'
<1>1. PICK at \in {"read", "losing"} :
        /\ Goes(c, at)
        /\ session'[c] \in {"open", "closed"}
        /\ \A d \in Caller \ {c} : session'[d] = session[d]
        /\ UNCHANGED <<bound, batch, inbox, sent>>
  BY DEF emplace, on_closed, FrontTyped, SessionsTyped
<1>2. SessionsTyped'
  <2>1. CASE emplace(c)
    BY <2>1 DEF emplace, FrontTyped, SessionsTyped, SessionStates
  <2>2. CASE on_closed(c)
    BY <2>2 DEF on_closed, Forgotten, FrontTyped, SessionsTyped, SessionStates
  <2> QED
    BY <2>1, <2>2
<1>3. reader[c].todo = <<>> /\ reader[c].at \in {"none", "read"}
  BY DEF emplace, on_closed, FrontTyped, Consistent, Dispatching
<1> DEFINE r == [reader[c] EXCEPT !.at = at]
<1>4. r \in ReaderRecord' /\ r.at = at /\ r.todo = <<>>
  BY <1>3, TypesGrow DEF FrontTyped, ReaderRecord, ReaderStates
<1>5. reader' = [reader EXCEPT ![c] = r] /\ reader'[c] = r
  BY <1>1 DEF Goes, FrontTyped
<1> HIDE DEF r
<1>6. Consistent(c)'
  BY <1>1, <1>3, <1>4, <1>5 DEF FrontTyped, Consistent, Dispatching
<1>7. QueuesTyped
  BY <1>1, QueuesStay
<1> QED
  BY <1>1, <1>2, <1>4, <1>5, <1>6, <1>7, ReaderMoves

\* A reader handles a frame, or goes on with what one called for.
LEMMA FrameFront ==
    ASSUME TypeOK, FrontTyped, DOMAIN asg \subseteq DOMAIN asg', now' >= 1,
           NEW c \in Caller,
           \/ ReportLoss(c) \/ MapAgent(c) \/ RevalidateAll(c) \/ AssignmentFrame(c)
           \/ DispatchEnds(c) \/ AgentFrame(c) \/ ControlFrame(c)
           \/ \E b \in DOMAIN asg : DispatchAssignment(c, b)
    PROVE  FrontTyped'
<1>1. UNCHANGED <<server, sessions, session, bound, batch, inbox>>
  BY DEF ReportLoss, MapAgent, RevalidateAll, AssignmentFrame, DispatchEnds,
         AgentFrame, ControlFrame, DispatchAssignment, Handled
<1>2. SessionsTyped'
  <2>1. CASE MapAgent(c)
    <3>1. bound[c] # Nobody
      BY <2>1 DEF MapAgent, FrontTyped, Consistent
    <3>2. bound[c].agent \in Agent /\ bound[c].boot \in Boot
      BY <3>1 DEF FrontTyped, SessionsTyped
    <3>3. agent_sessions' \in [Agent -> [boot : Boot, session : Caller] \cup {Nobody}]
      BY <2>1, <3>2 DEF MapAgent, FrontTyped, SessionsTyped
    <3> QED
      BY <1>1, <3>3 DEF FrontTyped, SessionsTyped
  <2>2. CASE agent_sessions' = agent_sessions
    BY <1>1, <2>2 DEF FrontTyped, SessionsTyped
  <2> QED
    BY <2>1, <2>2 DEF ReportLoss, RevalidateAll, AssignmentFrame, DispatchEnds,
         AgentFrame, ControlFrame, DispatchAssignment, Handled
<1>3. QueuesTyped
  <2>1. CASE sent' = sent
    BY <1>1, <2>1, QueuesStay
  <2>2. CASE AssignmentFrame(c)
    <3>1. Tail(sent[c]) \in Seq(FrameRecord)
      BY <2>2, HeadTailProperties DEF AssignmentFrame, FrontTyped
    <3>2. sent' \in [Caller -> Seq(FrameRecord)]
      BY <2>2, <3>1 DEF AssignmentFrame, FrontTyped
    <3>3. sent' \in [Caller -> Seq(FrameRecord')]
      BY <3>2, TypesGrow
    <3>4. inbox' \in [Caller -> Seq(DOMAIN asg')]
      BY <1>1, TypesGrow DEF FrontTyped
    <3> QED
      BY <3>3, <3>4 DEF QueuesTyped
  <2> QED
    BY <2>1, <2>2 DEF ReportLoss, MapAgent, RevalidateAll, DispatchEnds,
         AgentFrame, ControlFrame, DispatchAssignment, Handled
<1>4. CASE reader' = reader
  BY <1>1, <1>2, <1>3, <1>4, ReadersStay
<1>5. ASSUME NEW at \in {"gone", "revalidate", "pass", "read", "control"},
             Goes(c, at), reader[c].at \in {"losing", "bind", "revalidate", "read", "control"}
      PROVE  FrontTyped'
  BY <1>1, <1>2, <1>3, <1>5, ReaderProceeds DEF ReaderStates, Dispatching
<1>6. CASE ReportLoss(c) \/ MapAgent(c) \/ RevalidateAll(c) \/ DispatchEnds(c)
  BY <1>5, <1>6 DEF ReportLoss, MapAgent, RevalidateAll, DispatchEnds
<1>7. CASE AssignmentFrame(c) \/ \E b \in DOMAIN asg : DispatchAssignment(c, b)
  BY <1>4, <1>5, <1>7 DEF AssignmentFrame, DispatchAssignment, next_frame, on_frame
<1>8. CASE AgentFrame(c) \/ ControlFrame(c)
  BY <1>4, <1>5, <1>8 DEF AgentFrame, ControlFrame, Handled, next_frame, on_frame, Goes
<1> QED
  BY <1>6, <1>7, <1>8

\* A registration binds a session that was bound to nobody.
LEMMA RegisterFront ==
    ASSUME TypeOK, FrontTyped, DOMAIN asg \subseteq DOMAIN asg', now' >= 1,
           NEW c \in Caller, NEW a \in Agent, NEW m \in Concurrency,
           NEW boot \in BootOf[a], RegisterAgent(c, a, boot, m)
    PROVE  FrontTyped'
<1>1. boot \in Boot
  BY RegistrationStep
<1>2. /\ Goes(c, "bind")
      /\ bound' = [bound EXCEPT ![c] = [agent |-> a, boot |-> boot]]
      /\ reader[c].at = "read" /\ session[c] = "open"
      /\ UNCHANGED <<server, sessions, agent_sessions, session, batch, inbox, sent>>
  BY DEF RegisterAgent, bind_agent, next_frame, on_frame
<1>3. bound'[c] = [agent |-> a, boot |-> boot]
      /\ \A d \in Caller \ {c} : bound'[d] = bound[d]
  BY <1>2 DEF FrontTyped, SessionsTyped
<1>4. bound' \in [Caller -> [agent : Agent, boot : Boot] \cup {Nobody}]
  BY <1>1, <1>2 DEF FrontTyped, SessionsTyped
<1>5. SessionsTyped'
  <2>1. ASSUME NEW d \in Caller, bound'[d] # Nobody
        PROVE  bound'[d].boot \in BootOf[bound'[d].agent]
    <3>1. CASE d = c
      BY <1>3, <3>1
    <3>2. CASE d # c
      BY <1>3, <2>1, <3>2 DEF FrontTyped, SessionsTyped
    <3> QED
      BY <3>1, <3>2
  <2> QED
    BY <1>2, <1>4, <2>1 DEF FrontTyped, SessionsTyped
<1> DEFINE r == [reader[c] EXCEPT !.at = "bind"]
<1>6. r \in ReaderRecord' /\ r.at = "bind" /\ r.todo = reader[c].todo
  BY TypesGrow DEF FrontTyped, ReaderRecord, ReaderStates
<1>7. reader' = [reader EXCEPT ![c] = r] /\ reader'[c] = r
  BY <1>2 DEF Goes, FrontTyped
<1> HIDE DEF r
<1>8. bound'[c] # Nobody
  <2>1. [agent |-> a, boot |-> boot] \in [agent : Agent, boot : Boot]
    BY <1>1
  <2> QED
    BY <1>3, <2>1, NobodyElse
<1>9. Consistent(c)'
  BY <1>2, <1>6, <1>7, <1>8 DEF FrontTyped, Consistent, Dispatching
<1>10. QueuesTyped
  BY <1>2, QueuesStay
<1> QED
  BY <1>2, <1>3, <1>5, <1>6, <1>7, <1>9, <1>10, ReaderMoves

\* A batch collects decisions.
LEMMA BatchFront ==
    ASSUME TypeOK, FrontTyped, DOMAIN asg \subseteq DOMAIN asg', now' >= 1,
           NEW c \in Caller,
           (BatchCommits(c) /\ call[c].b \in DOMAIN asg') \/ BatchBegins(c)
               \/ BatchContinues(c)
    PROVE  FrontTyped'
<1>0. c # Nobody /\ \A d \in Caller : d # Nobody
  BY NobodyElse
<1>1. UNCHANGED <<server, sessions, agent_sessions, session, bound, inbox, sent>>
  BY DEF BatchCommits, BatchBegins, BatchContinues
<1>2. batch' \in [by : Caller \cup {Nobody}, pass : Nat, left : SUBSET Work,
                  progress : BOOLEAN]
  <2>0. batch \in [by : Caller \cup {Nobody}, pass : Nat, left : SUBSET Work,
                   progress : BOOLEAN]
    BY DEF FrontTyped, SessionsTyped
  <2>1. CASE BatchCommits(c)
    BY <2>0, <2>1 DEF BatchCommits
  <2>2. CASE BatchBegins(c)
    <3>1. BatchCandidates \in SUBSET Work
      BY DEF BatchCandidates
    <3>2. \/ batch' = batch
          \/ batch' = [by |-> c, pass |-> 0, left |-> BatchCandidates, progress |-> FALSE]
      BY <2>2 DEF BatchBegins
    <3>3. [by |-> c, pass |-> 0, left |-> BatchCandidates, progress |-> FALSE]
            \in [by : Caller \cup {Nobody}, pass : Nat, left : SUBSET Work,
                 progress : BOOLEAN]
      BY <3>1
    <3> QED
      BY <2>0, <3>2, <3>3
  <2>3. CASE BatchContinues(c)
    <3> DEFINE more == {w \in BatchCandidates : FanoutContinues(w)}
    <3>1. more \in SUBSET Work
      BY DEF BatchCandidates
    <3>2. \/ batch' = [batch EXCEPT !.pass = @ + 1, !.left = more, !.progress = FALSE]
          \/ batch' = NoBatch
      BY <2>3 DEF BatchContinues
    <3> HIDE DEF more
    <3>3. CASE batch' = NoBatch
      <4>1. {} \in SUBSET Work
        OBVIOUS
      <4> QED
        BY <3>3, <4>1 DEF NoBatch
    <3>4. CASE batch' = [batch EXCEPT !.pass = @ + 1, !.left = more, !.progress = FALSE]
      <4>1. batch' = [by |-> batch.by, pass |-> batch.pass + 1, left |-> more,
                      progress |-> FALSE]
        BY <2>0, <3>4
      <4>2. batch.pass + 1 \in Nat /\ batch.by \in Caller \cup {Nobody}
        BY <2>0
      <4> QED
        BY <3>1, <4>1, <4>2
    <3> QED
      BY <3>2, <3>3, <3>4
  <2> QED
    BY <2>1, <2>2, <2>3
<1>3. SessionsTyped'
  BY <1>1, <1>2 DEF FrontTyped, SessionsTyped
<1>4. QueuesTyped
  BY <1>1, QueuesStay
<1>5. reader[c] \in ReaderRecord'
  BY TypesGrow DEF FrontTyped
<1>6. ASSUME NEW r, r \in ReaderRecord', reader' = [reader EXCEPT ![c] = r],
             \A d \in Caller \ {c} : batch'.by = d <=> batch.by = d,
             r.at # "enqueue", r.at # "bind", reader[c].at # "none",
             r.at # "batch" => (r.at \in Dispatching <=> r.todo # <<>>),
             r.at = "batch" <=> batch'.by = c
      PROVE  FrontTyped'
  <2>1. reader'[c] = r
    BY <1>6 DEF FrontTyped
  <2>2. Consistent(c)'
    BY <1>1, <1>6, <2>1 DEF FrontTyped, Consistent
  <2> QED
    BY <1>1, <1>3, <1>4, <1>6, <2>2, ReaderMoves
<1>7. CASE reader' = reader /\ batch'.by = batch.by
  BY <1>1, <1>3, <1>4, <1>7, ReadersStay
<1>8. CASE BatchCommits(c) /\ call[c].b \in DOMAIN asg'
  <2>1. batch.by = c /\ batch'.by = c /\ reader[c].at = "batch"
    BY <1>8 DEF BatchCommits, FrontTyped, SessionsTyped, Consistent
  <2>2. CASE batch.pass = 0
    <3> DEFINE r == [reader[c] EXCEPT !.todo = Append(@, call[c].b)]
    <3>1. Append(reader[c].todo, call[c].b) \in Seq(DOMAIN asg')
      BY <1>5, <1>8, AppendProperties DEF ReaderRecord
    <3>2. r \in ReaderRecord' /\ r.at = "batch"
      BY <1>5, <2>1, <3>1 DEF ReaderRecord
    <3>3. reader' = [reader EXCEPT ![c] = r]
      BY <1>8, <2>2 DEF BatchCommits
    <3> HIDE DEF r
    <3> QED
      BY <1>6, <2>1, <3>2, <3>3
  <2> QED
    BY <1>7, <1>8, <2>1, <2>2 DEF BatchCommits
<1>9. CASE BatchBegins(c)
  <2>1. reader[c].at = "pass" /\ reader[c].todo = <<>> /\ batch.by = Nobody
    BY <1>9 DEF BatchBegins, Unlocked, FrontTyped, Consistent, Dispatching
  <2>2. CASE batch'.by = c /\ Goes(c, "batch")
    <3> DEFINE r == [reader[c] EXCEPT !.at = "batch"]
    <3>1. r \in ReaderRecord' /\ r.at = "batch"
      BY <1>5 DEF ReaderRecord, ReaderStates
    <3>2. reader' = [reader EXCEPT ![c] = r]
      BY <2>2 DEF Goes
    <3>3. \A d \in Caller \ {c} : batch'.by = d <=> batch.by = d
      BY <1>0, <2>1, <2>2
    <3>4. r.at \notin {"enqueue", "bind"} /\ reader[c].at # "none"
      BY <2>1, <3>1
    <3> HIDE DEF r
    <3> QED
      BY <1>6, <2>2, <3>1, <3>2, <3>3, <3>4
  <2>3. CASE batch' = batch /\ Goes(c, "read")
    BY <1>1, <1>3, <1>4, <2>1, <2>3, ReaderProceeds DEF ReaderStates, Dispatching
  <2> QED
    BY <1>9, <2>2, <2>3 DEF BatchBegins
<1>10. CASE BatchContinues(c)
  <2>1. batch.by = c /\ reader[c].at = "batch"
    BY <1>10 DEF BatchContinues, FrontTyped, Consistent
  <2>2. CASE reader' = reader /\ batch'.by = batch.by
    BY <1>7, <2>2
  <2>3. CASE batch' = NoBatch /\ reader' = [reader EXCEPT ![c] = Decides(@.todo)]
    <3> DEFINE r == Decides(reader[c].todo)
    <3>1. /\ r \in ReaderRecord'
          /\ r.at \in {"read", "dispatch"}
          /\ r.at = "dispatch" <=> r.todo # <<>>
      BY <1>5 DEF Decides, ReaderRecord, ReaderStates
    <3>2. reader' = [reader EXCEPT ![c] = r]
      BY <2>3
    <3>3. batch'.by = Nobody /\ \A d \in Caller : d # Nobody
      BY <2>3, NobodyElse DEF NoBatch
    <3> HIDE DEF r
    <3> QED
      BY <1>6, <2>1, <3>1, <3>2, <3>3 DEF Dispatching
  <2>4. (reader' = reader /\ batch'.by = batch.by)
        \/ (batch' = NoBatch /\ reader' = [reader EXCEPT ![c] = Decides(@.todo)])
    BY <1>2, <1>10 DEF BatchContinues, FrontTyped, SessionsTyped
  <2> QED
    BY <2>2, <2>3, <2>4
<1> QED
  BY <1>8, <1>9, <1>10

\* A reader dispatches its decisions one by one.
LEMMA DecisionFront ==
    ASSUME TypeOK, FrontTyped, DOMAIN asg \subseteq DOMAIN asg', now' >= 1,
           NEW c \in Caller,
           \/ DispatchDecision(c) \/ HandoffDecision(c)
           \/ push_assignment(c) \/ EnqueueAssignWork(c)
    PROVE  FrontTyped'
<1>1. UNCHANGED <<server, sessions, agent_sessions, session, bound, batch, sent>>
      /\ reader[c].at \in Dispatching
  BY DEF DispatchDecision, HandoffDecision, push_assignment, EnqueueAssignWork,
         Dispatching
<1>2. SessionsTyped'
  BY <1>1 DEF FrontTyped, SessionsTyped
<1>3. /\ reader[c].todo # <<>> /\ reader[c].todo \in Seq(DOMAIN asg)
      /\ Head(reader[c].todo) \in DOMAIN asg
  <2>1. reader[c].todo # <<>> /\ reader[c].todo \in Seq(DOMAIN asg)
    BY <1>1 DEF FrontTyped, Consistent, ReaderRecord, Dispatching
  <2> QED
    BY <2>1, HeadTailProperties
<1>4. QueuesTyped
  <2>1. CASE inbox' = inbox
    BY <1>1, <2>1, QueuesStay
  <2>2. CASE EnqueueAssignWork(c)
    <3>1. inbox[reader[c].to] \in Seq(DOMAIN asg)
      BY <2>2 DEF EnqueueAssignWork, FrontTyped, Consistent
    <3>2. Append(inbox[reader[c].to], Head(reader[c].todo)) \in Seq(DOMAIN asg)
      BY <1>3, <3>1, AppendProperties
    <3>3. inbox' \in [Caller -> Seq(DOMAIN asg)]
      BY <2>2, <3>2 DEF EnqueueAssignWork, FrontTyped
    <3>4. asg' = asg
      BY <2>2 DEF EnqueueAssignWork, vars
    <3> QED
      BY <1>1, <3>3, <3>4 DEF QueuesTyped, FrontTyped, FrameRecord
  <2> QED
    BY <2>1, <2>2 DEF DispatchDecision, HandoffDecision, push_assignment
<1>5. CASE NextDecision(c)
  BY <1>1, <1>2, <1>4, <1>5, DecisionDone
<1>6. ASSUME NEW at \in {"handoff", "push"}, Goes(c, at)
      PROVE  FrontTyped'
  BY <1>1, <1>2, <1>4, <1>6, ReaderProceeds DEF ReaderStates, Dispatching
<1>7. CASE push_assignment(c) /\ ~NextDecision(c)
  <2> DEFINE to == agent_sessions[Head(reader[c].todo).agent].session
             r == [reader[c] EXCEPT !.at = "enqueue", !.to = to]
  <2>1. /\ reader' = [reader EXCEPT ![c] = r]
        /\ agent_sessions[Head(reader[c].todo).agent] # Nobody
    BY <1>7 DEF push_assignment
  <2>2. to \in Caller
    <3>1. Head(reader[c].todo).agent \in Agent
      BY <1>3 DEF TypeOK, AssignmentMap, Binding
    <3> QED
      BY <2>1, <3>1 DEF FrontTyped, SessionsTyped
  <2>3. r \in ReaderRecord' /\ r.at = "enqueue" /\ r.to = to /\ r.todo = reader[c].todo
    BY <2>2, TypesGrow DEF FrontTyped, ReaderRecord, ReaderStates
  <2>4. reader'[c] = r
    BY <2>1 DEF FrontTyped
  <2> HIDE DEF r, to
  <2>5. Consistent(c)'
    BY <1>1, <1>3, <2>2, <2>3, <2>4 DEF FrontTyped, Consistent, Dispatching
  <2> QED
    BY <1>1, <1>2, <1>4, <2>1, <2>3, <2>5, ReaderMoves
<1> QED
  BY <1>5, <1>6, <1>7 DEF DispatchDecision, HandoffDecision, Refused,
       EnqueueAssignWork

\* The clock moves by a tick or not at all.
LEMMA ClockSteady ==
    ASSUME TypeOK, [Next]_vars
    PROVE  now' = now \/ now' = now + 1
<1>1. CASE start \/ shutdown \/ Tick \/ UNCHANGED vars
           \/ \E g \in 1..MaxPolicyGen, closes \in ClosePolicies : set_policy(g, closes)
  BY <1>1 DEF start, shutdown, set_policy, Tick, vars
<1>2. CASE AgentNext
  BY <1>2, AgentNextSteady
<1>3. CASE WorkNext
  BY <1>3 DEF WorkNext, submit_work, supersede_work, Readmit, cancel_work,
       expire_deadlines
<1>4. CASE AssignmentNext
  <2>1. ASSUME NEW b \in DOMAIN asg, Report(b)
        PROVE  now' = now
    BY <2>1, ReportSteady
  <2> QED
    BY <1>4, <2>1 DEF AssignmentNext, plan_locked, commit_locked, CommitRejected,
         dispatch, Handoff, HandoffRejected, revalidate_assignments,
         revalidate_agent_assignments, Revalidate, expire_leases
<1> QED
  BY <1>1, <1>2, <1>3, <1>4 DEF Next

\* Every step keeps the variables of the coordinator typed.
LEMMA FrontStep ==
    ASSUME TypeOK, FrontTyped, [CoordinatorNext]_<<vars, frontVars>>
    PROVE  FrontTyped'
<1>1. [Next]_vars /\ TypeOK'
  BY StepNext, NextType
<1>2. DOMAIN asg \subseteq DOMAIN asg'
  BY <1>1, StoredGrow
<1>3. now' >= 1
  <2>1. now \in Nat /\ now >= 1
    BY DEF TypeOK, FrontTyped
  <2>2. now' = now \/ now' = now + 1
    BY <1>1, ClockSteady
  <2> QED
    BY <2>1, <2>2
<1>4. CASE UNCHANGED <<vars, frontVars>>
  <2>1. SessionsTyped' /\ QueuesTyped
    BY <1>2, <1>4, QueuesStay DEF frontVars, FrontTyped, SessionsTyped
  <2> QED
    BY <1>2, <1>3, <1>4, <2>1, ReadersStay DEF frontVars
<1>5. CASE ServerNext
  BY <1>2, <1>3, <1>5, ServerFront
<1>6. ASSUME NEW c \in Caller, BatchCommits(c)
      PROVE  FrontTyped'
  <2>1. call[c].b \in DOMAIN asg'
    BY <1>6, CommitStores DEF BatchCommits, Adds
  <2> QED
    BY <1>2, <1>3, <1>6, <2>1, BatchFront
<1>7. ASSUME NEW c \in Caller, ReaderStep(c)
      PROVE  FrontTyped'
  BY <1>2, <1>3, <1>6, <1>7, SessionFront, FrameFront, BatchFront, DecisionFront,
     IdleFront DEF ReaderStep
<1>8. ASSUME NEW c \in Caller, PeerStep(c)
      PROVE  FrontTyped'
  BY <1>2, <1>3, <1>8, RegisterFront, FrameFront, IdleFront DEF PeerStep
<1> QED
  BY <1>2, <1>3, <1>4, <1>5, <1>7, <1>8, IdleFront, SessionFront, ReceiveFront
     DEF CoordinatorNext

\* So are they initially.
LEMMA FrontInit == CoordinatorInit => FrontTyped
<1> SUFFICES ASSUME CoordinatorInit PROVE FrontTyped
  OBVIOUS
<1>1. Nobody \in Caller \cup {Nobody} /\ \A c \in Caller : c # Nobody
  BY NobodyElse
<1>2. now >= 1
  BY DEF CoordinatorInit, Init
<1>3. SessionsTyped
  <2>1. {} \in SUBSET Work /\ {} \in SUBSET Caller
    OBVIOUS
  <2>2. batch \in [by : Caller \cup {Nobody}, pass : Nat, left : SUBSET Work,
                   progress : BOOLEAN]
    BY <2>1 DEF CoordinatorInit, NoBatch
  <2> QED
    BY <2>1, <2>2 DEF CoordinatorInit, SessionsTyped, ServerStates, SessionStates
<1>4. /\ <<>> \in Seq(DOMAIN asg)
      /\ <<>> \in Seq(FrameRecord)
  BY EmptySeq
<1>5. /\ reader \in [Caller -> ReaderRecord]
      /\ inbox \in [Caller -> Seq(DOMAIN asg)]
      /\ sent \in [Caller -> Seq(FrameRecord)]
  BY <1>1, <1>4 DEF CoordinatorInit, ReaderRecord, ReaderStates
<1>6. \A c \in Caller : Consistent(c)
  BY <1>1 DEF CoordinatorInit, Consistent, Dispatching, NoBatch
<1> QED
  BY <1>2, <1>3, <1>5, <1>6 DEF FrontTyped

\* What holds of the scheduler that the coordinator runs, and of its variables.
CoordinatorInv == LifeInv /\ AuthorityInv /\ FrontTyped

\* It holds initially, and every step keeps it.
LEMMA CoordinatorInvStep ==
    /\ CoordinatorInit => CoordinatorInv
    /\ CoordinatorInv /\ [CoordinatorNext]_<<vars, frontVars>> => CoordinatorInv'
<1>1. ASSUME CoordinatorInit
      PROVE  CoordinatorInv
  <2>1. Init
    BY <1>1 DEF CoordinatorInit
  <2>2. LifeInv
    BY <2>1, WorkInvInit DEF Init, LifeInv, CapabilityOrdered, ActiveIn
  <2>3. AuthorityInv
    BY <2>1 DEF Init, AuthorityInv, Attached, OfferedUnderPolicy, RunsOrShuts, ActiveIn
  <2> QED
    BY <1>1, <2>2, <2>3, FrontInit DEF CoordinatorInv
<1>2. ASSUME CoordinatorInv, [CoordinatorNext]_<<vars, frontVars>>
      PROVE  CoordinatorInv'
  <2>1. TypeOK /\ LifeInv /\ AuthorityInv /\ FrontTyped
    BY <1>2 DEF CoordinatorInv, LifeInv, WorkInv
  <2>2. [Next]_vars /\ TypeOK'
    BY <1>2, <2>1, StepNext, NextType
  <2>3. LifeInv' /\ AuthorityInv' /\ FrontTyped'
    BY <1>2, <2>1, <2>2, LifeInvNext, AuthorityInvNext, FrontStep
  <2> QED
    BY <2>3 DEF CoordinatorInv
<1> QED
  BY <1>1, <1>2

\* It holds in every reachable state.
LEMMA CoordinatorInvariant == CoordinatorSpec => []CoordinatorInv
  BY CoordinatorInvStep, PTL DEF CoordinatorSpec

\* Whatever its sessions do, the coordinator only ever takes its scheduler
\* through steps of module Scheduler: every theorem about Spec holds of it.
THEOREM CoordinatorRunsScheduler == CoordinatorSpec => Spec
<1>1. CoordinatorInit => Init
  BY DEF CoordinatorInit
<1>2. CoordinatorInv /\ [CoordinatorNext]_<<vars, frontVars>> => [Next]_vars
  BY StepNext DEF CoordinatorInv, LifeInv, WorkInv
<1> QED
  BY <1>1, <1>2, CoordinatorInvariant, PTL DEF CoordinatorSpec, Spec

\* The variables of the coordinator stay within their types, and outside a batch a
\* reader is dispatching exactly while it has a decision to dispatch.
THEOREM FrontTypeCorrect == CoordinatorSpec => []FrontTypeOK
<1>1. CoordinatorInv => FrontTypeOK
  <2> SUFFICES ASSUME CoordinatorInv PROVE FrontTypeOK
    OBVIOUS
  <2>1. FrontTyped
    BY DEF CoordinatorInv
  <2>2. /\ \A c \in Caller : reader[c].at \in ReaderStates
        /\ batch.by \in Caller \cup {Nobody}
    BY <2>1 DEF FrontTyped, SessionsTyped, ReaderRecord
  <2> QED
    BY <2>1, <2>2 DEF FrontTypeOK, FrontTyped, SessionsTyped, Consistent, Dispatching
<1> QED
  BY <1>1, CoordinatorInvariant, PTL

-----------------------------------------------------------------------------
(***************************************************************************)
(* The map leads to sessions.                                              *)
(*                                                                         *)
(* A session is bound once, so an entry of the map names the incarnation   *)
(* that its session is bound to for good; a reader maps its agent only     *)
(* while its session is registered, and takes the entry away with the      *)
(* session.                                                                *)
(***************************************************************************)

\* A reader in one of these states does nothing for its session.
Resting == {"none", "losing", "gone"}

\* The session maps are in use.
Serving == server.at \in {"new", "up", "shut", "notified"}

\* What readers do in between does not touch sessions, and no reader begins or ends.
LEMMA ReadersAtWork ==
    ASSUME FrontTyped, NEW c \in Caller,
           \/ RevalidateAll(c) \/ AssignmentFrame(c)
           \/ BatchBegins(c) \/ BatchPlans(c) \/ BatchCommits(c) \/ BatchContinues(c)
           \/ DispatchDecision(c) \/ HandoffDecision(c) \/ DispatchEnds(c)
           \/ push_assignment(c) \/ EnqueueAssignWork(c)
           \/ AgentReceives(c) \/ AgentFrame(c) \/ ControlFrame(c)
           \/ \E b \in DOMAIN asg : DispatchAssignment(c, b)
    PROVE  /\ UNCHANGED <<server, sessions, agent_sessions, session, bound>>
           /\ \A d \in Caller : \/ reader'[d] = reader[d]
                                \/ /\ reader[d].at \notin Resting
                                   /\ reader'[d].at \notin Resting
<1>1. UNCHANGED <<server, sessions, agent_sessions, session, bound>>
  BY DEF RevalidateAll, AssignmentFrame, BatchBegins, BatchPlans, BatchCommits,
         BatchContinues, DispatchDecision, HandoffDecision, DispatchEnds,
         push_assignment, EnqueueAssignWork, AgentReceives, AgentFrame, ControlFrame,
         DispatchAssignment, Handled
<1> SUFFICES \A d \in Caller : \/ reader'[d] = reader[d]
                               \/ /\ reader[d].at \notin Resting
                                  /\ reader'[d].at \notin Resting
  BY <1>1
<1>2. reader \in [Caller -> ReaderRecord]
  BY DEF FrontTyped
<1>3. ASSUME NEW at \in {"pass", "read", "control", "batch", "handoff", "push"},
             Goes(c, at), reader[c].at \notin Resting
      PROVE  \A d \in Caller : \/ reader'[d] = reader[d]
                               \/ /\ reader[d].at \notin Resting
                                  /\ reader'[d].at \notin Resting
  <2> DEFINE r == [reader[c] EXCEPT !.at = at]
  <2>1. reader' = [reader EXCEPT ![c] = r] /\ r.at = at
    BY <1>3 DEF Goes, FrontTyped, ReaderRecord
  <2>2. r.at \notin Resting
    BY <2>1 DEF Resting
  <2> HIDE DEF r
  <2> QED
    BY <1>2, <1>3, <2>1, <2>2
<1>4. ASSUME NEW todo, reader' = [reader EXCEPT ![c] = Decides(todo)],
             reader[c].at \notin Resting
      PROVE  \A d \in Caller : \/ reader'[d] = reader[d]
                               \/ /\ reader[d].at \notin Resting
                                  /\ reader'[d].at \notin Resting
  <2>1. Decides(todo).at \notin Resting
    BY DEF Decides, Resting
  <2> QED
    BY <1>2, <1>4, <2>1
<1>5. CASE RevalidateAll(c) \/ AssignmentFrame(c) \/ BatchBegins(c) \/ DispatchEnds(c)
           \/ AgentFrame(c) \/ ControlFrame(c)
           \/ \E b \in DOMAIN asg : DispatchAssignment(c, b)
  <2>1. reader[c].at \notin Resting
    BY <1>5 DEF RevalidateAll, AssignmentFrame, BatchBegins, DispatchEnds, AgentFrame,
         ControlFrame, DispatchAssignment, next_frame, on_frame, Resting
  <2>2. \/ reader' = reader
        \/ \E at \in {"pass", "read", "control", "batch", "handoff", "push"} : Goes(c, at)
    BY <1>5 DEF RevalidateAll, AssignmentFrame, BatchBegins, DispatchEnds, AgentFrame,
         ControlFrame, DispatchAssignment, Handled, Goes
  <2> QED
    BY <1>3, <2>1, <2>2
<1>6. CASE BatchPlans(c) \/ AgentReceives(c)
  BY <1>6 DEF BatchPlans, AgentReceives
<1>7. CASE BatchCommits(c) \/ BatchContinues(c)
  <2>1. reader[c].at = "batch" /\ reader[c].at \notin Resting
    BY <1>7 DEF BatchCommits, BatchContinues, FrontTyped, Consistent, Resting
  <2> DEFINE r == [reader[c] EXCEPT !.todo = Append(@, call[c].b)]
  <2>2. CASE reader' = [reader EXCEPT ![c] = r]
    <3>1. r.at \notin Resting
      BY <2>1 DEF FrontTyped, ReaderRecord
    <3> HIDE DEF r
    <3> QED
      BY <1>2, <2>1, <2>2, <3>1
  <2>3. CASE reader' = [reader EXCEPT ![c] = Decides(reader[c].todo)]
    BY <1>4, <2>1, <2>3
  <2> QED
    BY <1>7, <2>2, <2>3 DEF BatchCommits, BatchContinues
<1>8. CASE DispatchDecision(c) \/ HandoffDecision(c) \/ push_assignment(c)
           \/ EnqueueAssignWork(c)
  <2>1. reader[c].at \notin Resting
    BY <1>8 DEF DispatchDecision, HandoffDecision, push_assignment, EnqueueAssignWork,
         Resting
  <2>2. CASE NextDecision(c)
    BY <1>4, <2>1, <2>2 DEF NextDecision
  <2>3. CASE \E at \in {"handoff", "push"} : Goes(c, at)
    BY <1>3, <2>1, <2>3
  <2>4. CASE push_assignment(c) /\ ~NextDecision(c)
    <3> DEFINE r == [reader[c] EXCEPT
                       !.at = "enqueue",
                       !.to = agent_sessions[Head(reader[c].todo).agent].session]
    <3>1. reader' = [reader EXCEPT ![c] = r]
      BY <2>4 DEF push_assignment
    <3>2. r.at \notin Resting
      BY DEF FrontTyped, ReaderRecord, Resting
    <3> HIDE DEF r
    <3> QED
      BY <1>2, <2>1, <3>1, <3>2
  <2> QED
    BY <1>8, <2>2, <2>3, <2>4 DEF DispatchDecision, HandoffDecision, Refused,
       EnqueueAssignWork
<1> QED
  BY <1>5, <1>6, <1>7, <1>8

\* An entry of the map names what its session is bound to, and while the maps are
\* in use, the session is registered, as is every session with a reader at work.
Mapped(a) ==
    agent_sessions[a] # Nobody =>
        bound[agent_sessions[a].session] = [agent |-> a, boot |-> agent_sessions[a].boot]

MapInv ==
    /\ \A a \in Agent : Mapped(a)
    /\ Serving =>
          /\ \A a \in Agent : agent_sessions[a] # Nobody =>
                                agent_sessions[a].session \in sessions
          /\ \A c \in Caller : reader[c].at \notin Resting => c \in sessions

\* A step that leaves map and sessions alone, and begins no reader.
LEMMA MapStays ==
    ASSUME MapInv, UNCHANGED <<sessions, agent_sessions, bound>>,
           Serving' => Serving,
           \A d \in Caller : reader'[d].at \notin Resting => reader[d].at \notin Resting
    PROVE  MapInv'
  BY DEF MapInv, Mapped

\* Every step keeps the map true to its sessions.
LEMMA MapInvStep ==
    ASSUME FrontTyped, MapInv, [CoordinatorNext]_<<vars, frontVars>>
    PROVE  MapInv'
<1>1. CASE UNCHANGED <<vars, frontVars>>
  BY <1>1, MapStays DEF frontVars, Serving
<1>2. CASE ServerNext
  <2>1. CASE StartServer \/ StopBegins \/ NotifySessions \/ JoinThreads
    <3>1. UNCHANGED <<sessions, agent_sessions, bound, reader>> /\ (Serving' => Serving)
      BY <2>1 DEF StartServer, StopBegins, NotifySessions, JoinThreads, Served, Serving,
           FrontTyped, SessionsTyped
    <3> QED
      BY <3>1, MapStays
  <2>2. CASE ClearSessions
    <3>1. ~Serving' /\ \A a \in Agent : agent_sessions'[a] = Nobody
      BY <2>2 DEF ClearSessions, Serving
    <3> QED
      BY <3>1 DEF MapInv, Mapped
  <2> QED
    BY <1>2, <2>1, <2>2 DEF ServerNext
<1>3. ASSUME NEW c \in Caller, accept_one(c) \/ Breaks(c)
      PROVE  MapInv'
  <2>1. UNCHANGED <<server, sessions, agent_sessions, bound, reader>>
    BY <1>3 DEF accept_one, Breaks
  <2> QED
    BY <2>1, MapStays DEF Serving
<1>4. ASSUME NEW c \in Caller, emplace(c)
      PROVE  MapInv'
  <2>1. /\ UNCHANGED <<server, agent_sessions, bound>>
        /\ sessions' = sessions \cup {c}
        /\ \A d \in Caller \ {c} : reader'[d] = reader[d]
    BY <1>4 DEF emplace, Goes, FrontTyped
  <2> QED
    BY <2>1 DEF MapInv, Mapped, Serving
<1>5. ASSUME NEW c \in Caller, on_closed(c)
      PROVE  MapInv'
  <2>1. /\ UNCHANGED <<server, bound>>
        /\ sessions' = sessions \ {c}
        /\ agent_sessions' = Forgotten(c)
        /\ reader'[c].at = "losing"
        /\ \A d \in Caller \ {c} : reader'[d] = reader[d]
    BY <1>5 DEF on_closed, Goes, FrontTyped, ReaderRecord
  <2>2. ASSUME NEW a \in Agent, agent_sessions'[a] # Nobody
        PROVE  agent_sessions'[a] = agent_sessions[a] /\ agent_sessions[a].session # c
    <3>1. agent_sessions'[a] = agent_sessions[a] /\ agent_sessions[a] # Nobody
      BY <2>1, <2>2 DEF Forgotten
    <3>2. agent_sessions[a] \in [boot : Boot, session : Caller]
      BY <3>1 DEF FrontTyped, SessionsTyped
    <3>3. bound[agent_sessions[a].session] = [agent |-> a, boot |-> agent_sessions[a].boot]
      BY <3>1 DEF MapInv, Mapped
    <3>4. CASE agent_sessions[a].session = c
      <4>1. bound[c] = [agent |-> a, boot |-> agent_sessions[a].boot]
        BY <3>3, <3>4
      <4>2. agent_sessions[a].boot \in Boot
        BY <3>2
      <4>3. bound[c] # Nobody /\ bound[c].agent = a /\ bound[c].boot = agent_sessions[a].boot
        BY <4>1, <4>2, NobodyElse
      <4>4. agent_sessions[a] = [boot |-> bound[c].boot, session |-> c]
        BY <3>2, <3>4, <4>3
      <4>5. agent_sessions'[a] = Nobody
        BY <2>1, <3>1, <4>3, <4>4 DEF Forgotten
      <4> QED
        BY <2>2, <4>5
    <3> QED
      BY <3>1, <3>4
  <2> QED
    BY <2>1, <2>2 DEF MapInv, Mapped, Serving, Resting
<1>6. ASSUME NEW c \in Caller, ReportLoss(c)
      PROVE  MapInv'
  <2>1. /\ UNCHANGED <<server, sessions, agent_sessions, bound>>
        /\ reader'[c].at = "gone"
        /\ \A d \in Caller \ {c} : reader'[d] = reader[d]
    BY <1>6 DEF ReportLoss, Goes, FrontTyped, ReaderRecord
  <2> QED
    BY <2>1, MapStays DEF Serving, Resting
<1>7. ASSUME NEW c \in Caller, MapAgent(c)
      PROVE  MapInv'
  <2>1. /\ UNCHANGED <<server, sessions, bound>>
        /\ reader[c].at = "bind"
        /\ \A d \in Caller \ {c} : reader'[d] = reader[d]
        /\ agent_sessions' = [agent_sessions EXCEPT
                                ![bound[c].agent] = [boot |-> bound[c].boot,
                                                     session |-> c]]
    BY <1>7 DEF MapAgent, Goes, FrontTyped
  <2>2. bound[c] \in [agent : Agent, boot : Boot]
    BY <2>1 DEF FrontTyped, SessionsTyped, Consistent
  <2>3. bound[c] = [agent |-> bound[c].agent, boot |-> bound[c].boot]
    BY <2>2
  <2>4. Serving => c \in sessions
    BY <2>1 DEF MapInv, Resting
  <2>5. ASSUME NEW a \in Agent
        PROVE  \/ a # bound[c].agent /\ agent_sessions'[a] = agent_sessions[a]
               \/ /\ a = bound[c].agent
                  /\ agent_sessions'[a] = [boot |-> bound[c].boot, session |-> c]
    BY <2>1, <2>2 DEF FrontTyped, SessionsTyped
  <2>6. \A a \in Agent : Mapped(a)'
    BY <2>1, <2>3, <2>5 DEF MapInv, Mapped
  <2>7. Serving' => \A a \in Agent : agent_sessions'[a] # Nobody =>
                                        agent_sessions'[a].session \in sessions'
    BY <2>1, <2>4, <2>5 DEF MapInv, Serving
  <2>8. Serving' => \A d \in Caller : reader'[d].at \notin Resting => d \in sessions'
    BY <2>1, <2>4 DEF MapInv, Serving
  <2> QED
    BY <2>6, <2>7, <2>8 DEF MapInv
<1>8. ASSUME NEW c \in Caller, NEW a \in Agent, NEW m \in Concurrency,
             NEW boot \in BootOf[a], RegisterAgent(c, a, boot, m)
      PROVE  MapInv'
  <2>1. /\ UNCHANGED <<server, sessions, agent_sessions>>
        /\ bound[c] = Nobody /\ reader[c].at = "read"
        /\ \A d \in Caller \ {c} : reader'[d] = reader[d] /\ bound'[d] = bound[d]
    BY <1>8 DEF RegisterAgent, bind_agent, Goes, next_frame, on_frame, FrontTyped,
         SessionsTyped
  <2>2. ASSUME NEW x \in Agent, agent_sessions[x] # Nobody
        PROVE  agent_sessions[x].session \in Caller \ {c}
    <3>1. agent_sessions[x].session \in Caller /\ agent_sessions[x].boot \in Boot
      BY <2>2 DEF FrontTyped, SessionsTyped
    <3>2. bound[agent_sessions[x].session] = [agent |-> x, boot |-> agent_sessions[x].boot]
      BY <2>2 DEF MapInv, Mapped
    <3>3. bound[agent_sessions[x].session] # Nobody
      BY <3>1, <3>2, NobodyElse
    <3> QED
      BY <2>1, <3>1, <3>3
  <2>3. \A x \in Agent : Mapped(x)'
    BY <2>1, <2>2 DEF MapInv, Mapped
  <2>4. \A d \in Caller : reader'[d].at \notin Resting => reader[d].at \notin Resting
    BY <2>1 DEF Resting
  <2> QED
    BY <2>1, <2>3, <2>4 DEF MapInv, Serving
<1>9. ASSUME NEW c \in Caller, NEW a \in Agent, NEW force \in BOOLEAN,
             Deregister(c, a, force)
      PROVE  MapInv'
  <2>1. /\ UNCHANGED <<server, sessions, bound, reader>>
        /\ \A x \in Agent : agent_sessions'[x] \in {Nobody, agent_sessions[x]}
    BY <1>9 DEF Deregister, FrontTyped, SessionsTyped
  <2> QED
    BY <2>1 DEF MapInv, Mapped, Serving
<1>10. ASSUME NEW c \in Caller,
              \/ RevalidateAll(c) \/ AssignmentFrame(c)
              \/ BatchBegins(c) \/ BatchPlans(c) \/ BatchCommits(c) \/ BatchContinues(c)
              \/ DispatchDecision(c) \/ HandoffDecision(c) \/ DispatchEnds(c)
              \/ push_assignment(c) \/ EnqueueAssignWork(c)
              \/ AgentReceives(c) \/ AgentFrame(c) \/ ControlFrame(c)
              \/ \E b \in DOMAIN asg : DispatchAssignment(c, b)
       PROVE  MapInv'
  BY <1>10, ReadersAtWork, MapStays DEF Serving
<1> QED
  BY <1>1, <1>2, <1>3, <1>4, <1>5, <1>6, <1>7, <1>8, <1>9, <1>10
     DEF CoordinatorNext, ReaderStep, PeerStep

\* While the server is up, an agent is mapped to a registered session that is bound
\* to the very incarnation, however registrations and closing sessions interleave.
THEOREM MapAlwaysPointsToSession == CoordinatorSpec => []MapPointsToSession
<1>1. CoordinatorInit => MapInv
  BY DEF CoordinatorInit, MapInv, Mapped, Resting
<1>2. CoordinatorInv /\ MapInv /\ [CoordinatorNext]_<<vars, frontVars>> => MapInv'
  BY MapInvStep DEF CoordinatorInv
<1>3. MapInv => MapPointsToSession
  BY DEF MapInv, Mapped, Serving, MapPointsToSession
<1> QED
  BY <1>1, <1>2, <1>3, CoordinatorInvariant, PTL DEF CoordinatorSpec

-----------------------------------------------------------------------------
(***************************************************************************)
(* Every active assignment has a session that answers for it.              *)
(*                                                                         *)
(* An assignment is committed for an incarnation that is registered and    *)
(* not fenced, and such an incarnation has a session: it got one when it   *)
(* registered, and when the last reader that could report it lost is gone, *)
(* it is fenced and its assignments are closed.                            *)
(***************************************************************************)

\* Session c answers for agent a as it is.
AnswersFor(c, a) ==
    /\ bound[c] = [agent |-> a, boot |-> agents[a].boot]
    /\ reader[c].at # "gone"

HeldInv ==
    /\ AuthorityHasSession
    /\ \A a \in Agent : Known(a) /\ agents[a].boot \notin fenced =>
                            \E c \in Caller : AnswersFor(c, a)

\* The step registers no agent and keeps the boot of each.
BootsKept ==
    \A a \in Agent : /\ agents'[a].boot = agents[a].boot
                     /\ Known(a)' => Known(a)

\* Refreshing the agents of some assignments keeps all boots.
LEMMA AfterBoots ==
    ASSUME TypeOK, NEW as, NEW ids, agents' = AgentsAfter(as, ids)
    PROVE  BootsKept
<1>1. \A a \in Agent : agents'[a].boot = agents[a].boot
  BY AfterHolds
<1>2. \A a \in Agent : agents'[a] = agents[a] \/ Known(a)
  BY DEF AgentsAfter
<1> QED
  BY <1>1, <1>2 DEF BootsKept, Known

\* So does storing the refreshed form of a record with the boot of its agent.
LEMMA StoredBoots ==
    ASSUME TypeOK, NEW a \in Agent, Known(a), NEW r \in AgentRecord,
           r.boot = agents[a].boot, NEW as, NEW ids,
           \/ agents' = [agents EXCEPT ![a] = RefreshedAgent(as, r, a)]
           \/ agents' = [AgentsAfter(as, ids) EXCEPT ![a] = RefreshedAgent(as, r, a)]
    PROVE  BootsKept
<1>1. /\ \A x \in Agent \ {a} : Holds(x)
      /\ agents'[a].boot = r.boot
  <2>1. CASE agents' = [agents EXCEPT ![a] = RefreshedAgent(as, r, a)]
    BY <2>1, PublishHolds
  <2>2. CASE agents' = [AgentsAfter(as, ids) EXCEPT ![a] = RefreshedAgent(as, r, a)]
    BY <2>2, CloseHolds
  <2> QED
    BY <2>1, <2>2
<1>2. \A x \in Agent \ {a} : agents'[x] = agents[x] \/ Known(x)
  BY DEF AgentsAfter, TypeOK
<1> QED
  BY <1>1, <1>2 DEF BootsKept, Known, Holds

\* Closing as CloseAssignments does it keeps all boots.
LEMMA CloseBoots ==
    ASSUME TypeOK, NEW ids, NEW st, CloseAssignments(ids, st)
    PROVE  BootsKept
  BY AfterBoots DEF CloseAssignments

\* A step that leaves the agents alone keeps all boots.
LEMMA SameBoots == agents' = agents => BootsKept
  BY DEF BootsKept, Known

\* A report keeps all boots.
LEMMA ReportBoots ==
    ASSUME TypeOK, NEW b \in DOMAIN asg, Report(b)
    PROVE  BootsKept
<1>1. CASE acknowledge(b) \/ mark_executing(b)
  BY <1>1, CloseBoots, SameBoots DEF acknowledge, mark_executing
<1>2. CASE \E st \in {"Released", "Invalidated"} : Return(b, st)
  BY <1>2, CloseBoots DEF Return
<1>3. CASE \E st \in {"Completed", "Failed"} : Finish(b, st)
  BY <1>3, AfterBoots DEF Finish
<1> QED
  BY <1>1, <1>2, <1>3 DEF Report

\* The end of an incarnation leaves the boot in the record.
LEMMA EndedBoots ==
    ASSUME TypeOK, NEW a \in Agent, Known(a), NEW as, NEW ids,
           NEW l \in {"Lost", "Retired"},
           agents' = [AgentsAfter(as, ids) EXCEPT ![a] = EndedAgent(as, a, l)]
    PROVE  BootsKept
<1> DEFINE r == [invalidate_dynamic_evidence(agents[a]) EXCEPT !.lifecycle = l]
<1>1. agents[a] \in AgentRecord /\ l \in AgentLifecycles
  BY DEF TypeOK, AgentLifecycles
<1>2. r \in AgentRecord /\ r.boot = agents[a].boot
  BY <1>1, EndedRecordType
<1>3. agents' = [AgentsAfter(as, ids) EXCEPT ![a] = RefreshedAgent(as, r, a)]
  BY DEF EndedAgent
<1> HIDE DEF r
<1> QED
  BY <1>2, <1>3, StoredBoots

\* What a session does for its agent but registering it keeps all boots.
LEMMA ContinuedBoots ==
    ASSUME TypeOK, FrontTyped, Continued
    PROVE  BootsKept
<1>0. agents \in [Agent -> AgentRecord] /\ now \in Nat
  BY DEF TypeOK
<1> PICK a \in Agent :
        \/ \E g \in 1..MaxCapGen : publish_capabilities(a, g, now)
        \/ \E v \in HealthReports : publish_health(a, v, now)
        \/ \E v \in AvailReports : publish_availability(a, v, now)
        \/ heartbeat(a)
        \/ \E force \in BOOLEAN : drain_agent(a, force) \/ deregister_agent(a, force)
  BY DEF Continued
<1>1. ASSUME NEW g \in 1..MaxCapGen, publish_capabilities(a, g, now)
      PROVE  BootsKept
  <2> DEFINE r == [agents[a] EXCEPT
                     !.capability = [value |-> g, current |-> TRUE, at |-> now],
                     !.recovered = FALSE]
  <2>0. [value |-> g, current |-> TRUE, at |-> now] \in Evidence(Nat)
    BY <1>0, Bounds DEF Evidence
  <2>1. r \in AgentRecord /\ r.boot = agents[a].boot
    BY <1>0, <2>0 DEF AgentRecord
  <2>2. PICK as : agents' = [agents EXCEPT ![a] = RefreshedAgent(as, r, a)]
    BY <1>1 DEF publish_capabilities
  <2>3. Known(a)
    BY <1>1 DEF publish_capabilities
  <2> HIDE DEF r
  <2> QED
    BY <2>1, <2>2, <2>3, StoredBoots
<1>2. ASSUME NEW v \in HealthReports, publish_health(a, v, now)
      PROVE  BootsKept
  <2> DEFINE r == [agents[a] EXCEPT
                     !.health = [value |-> v, current |-> TRUE, at |-> now],
                     !.recovered = FALSE]
  <2>0. [value |-> v, current |-> TRUE, at |-> now] \in Evidence(Healths)
    BY <1>0, Inputs DEF Evidence
  <2>1. r \in AgentRecord /\ r.boot = agents[a].boot
    BY <1>0, <2>0 DEF AgentRecord
  <2>2. Known(a) /\ agents' = [agents EXCEPT ![a] = RefreshedAgent(asg, r, a)]
    BY <1>2 DEF publish_health
  <2> HIDE DEF r
  <2> QED
    BY <2>1, <2>2, StoredBoots
<1>3. ASSUME NEW v \in AvailReports, publish_availability(a, v, now)
      PROVE  BootsKept
  <2> DEFINE r == [agents[a] EXCEPT
                     !.avail = [value |-> v, current |-> TRUE, at |-> now],
                     !.recovered = FALSE]
  <2>0. [value |-> v, current |-> TRUE, at |-> now] \in Evidence(Avails)
    BY <1>0, Inputs DEF Evidence
  <2>1. r \in AgentRecord /\ r.boot = agents[a].boot
    BY <1>0, <2>0 DEF AgentRecord
  <2>2. Known(a) /\ agents' = [agents EXCEPT ![a] = RefreshedAgent(asg, r, a)]
    BY <1>3 DEF publish_availability
  <2> HIDE DEF r
  <2> QED
    BY <2>1, <2>2, StoredBoots
<1>4. CASE heartbeat(a)
  BY <1>0, <1>4 DEF heartbeat, BootsKept, Known, AgentRecord
<1>5. ASSUME NEW force \in BOOLEAN, drain_agent(a, force)
      PROVE  BootsKept
  <2> DEFINE r == [agents[a] EXCEPT !.lifecycle = "Draining"]
             gone == IF force THEN ActiveOfBoot(agents[a].boot) ELSE {}
  <2>1. r \in AgentRecord /\ r.boot = agents[a].boot
    BY <1>0 DEF AgentRecord, AgentLifecycles
  <2>2. /\ Known(a)
        /\ agents' = [AgentsAfter(Closed(gone, "Invalidated"), gone) EXCEPT
                        ![a] = RefreshedAgent(Closed(gone, "Invalidated"), r, a)]
    BY <1>5 DEF drain_agent
  <2> HIDE DEF r, gone
  <2> QED
    BY <2>1, <2>2, StoredBoots
<1>6. ASSUME NEW force \in BOOLEAN, deregister_agent(a, force)
      PROVE  BootsKept
  BY <1>6, EndedBoots DEF deregister_agent
<1> QED
  BY <1>1, <1>2, <1>3, <1>4, <1>5, <1>6

\* Routine steps keep all boots.
LEMMA RoutineBoots ==
    ASSUME TypeOK, FrontTyped, Routine
    PROVE  BootsKept
<1>1. CASE start
  BY <1>1, SameBoots DEF start
<1>2. CASE shutdown
  BY <1>2, CloseBoots DEF shutdown
<1>3. CASE WorkNext
  BY <1>3, AfterBoots DEF WorkNext, submit_work, supersede_work, Readmit, cancel_work,
     expire_deadlines
<1>4. ASSUME NEW c \in Caller, commit_locked(c)
      PROVE  BootsKept
  <2> DEFINE b == call[c].b
  <2>1. b.agent \in Agent
    BY <1>4, CarriedType DEF commit_locked, Binding
  <2>2. agents[b.agent] \in AgentRecord
    BY <2>1 DEF TypeOK
  <2>3. Known(b.agent)
    BY <1>4 DEF commit_locked, CommitAllowed, BoundAgentReady, AcceptsNewWork, Known
  <2>4. PICK as : agents' = [agents EXCEPT
                               ![b.agent] = RefreshedAgent(as, agents[b.agent], b.agent)]
    BY <1>4 DEF commit_locked
  <2> HIDE DEF b
  <2> QED
    BY <2>1, <2>2, <2>3, <2>4, StoredBoots
<1>5. CASE Unreported
  <2>1. CASE revalidate_assignments
    BY <2>1, AfterBoots DEF revalidate_assignments, Revalidate
  <2> QED
    BY <1>4, <1>5, <2>1, SameBoots DEF Unreported, plan_locked, CommitRejected,
       dispatch, Handoff, HandoffRejected
<1>6. CASE Continued
  BY <1>6, ContinuedBoots
<1> QED
  BY <1>1, <1>2, <1>3, <1>5, <1>6 DEF Routine

\* No reader is gone after the step that was not before.
NoneGoes == \A c \in Caller : reader'[c].at = "gone" => reader[c].at = "gone"

\* A binding is not Nobody.
LEMMA BoundToSomebody ==
    ASSUME NEW a \in Agent, NEW boot \in Boot
    PROVE  [agent |-> a, boot |-> boot] # Nobody
<1>1. [agent |-> a, boot |-> boot] \in [agent : Agent, boot : Boot]
  OBVIOUS
<1> QED
  BY <1>1, NobodyElse

\* A step that registers nobody, unbinds no session and ends no reader: a commit is
\* for an incarnation that is registered and not fenced.
LEMMA HeldStays ==
    ASSUME CoordinatorInv, HeldInv, [Next]_vars, BootsKept, bound' = bound, NoneGoes
    PROVE  HeldInv'
<1>0. TypeOK
  BY DEF CoordinatorInv, LifeInv, WorkInv
<1>1. ASSUME NEW c \in Caller, NEW b, Answers(c, b)
      PROVE  Answers(c, b)'
  BY <1>1 DEF Answers, NoneGoes
<1>2. ASSUME NEW a \in Agent, Known(a)', agents'[a].boot \notin fenced'
      PROVE  /\ Known(a) /\ agents[a].boot \notin fenced
             /\ \E c \in Caller : AnswersFor(c, a)'
  <2>1. Known(a) /\ agents[a].boot \notin fenced /\ agents'[a].boot = agents[a].boot
    BY <1>2, FencesGrow DEF BootsKept
  <2>2. PICK c \in Caller : AnswersFor(c, a)
    BY <2>1 DEF HeldInv
  <2>3. AnswersFor(c, a)'
    BY <2>1, <2>2 DEF AnswersFor, NoneGoes
  <2> QED
    BY <2>1, <2>3
<1>3. ASSUME NEW b \in ActiveIn(asg')
      PROVE  \E c \in Caller : Answers(c, b)'
  <2>1. CASE b \in ActiveIn(asg)
    BY <1>1, <2>1 DEF HeldInv, AuthorityHasSession
  <2>2. ASSUME NEW d \in Caller, commit_locked(d), b = call[d].b
        PROVE  \E c \in Caller : Answers(c, b)'
    <3>1. b.agent \in Agent
      BY <1>0, <2>2, CarriedType DEF commit_locked, Binding
    <3>2. /\ Known(b.agent) /\ agents[b.agent].boot = b.boot
          /\ b.boot \notin fenced
      BY <2>2 DEF commit_locked, CommitAllowed, BoundAgentReady,
         BoundIncarnationCurrent, AcceptsNewWork, Known
    <3>3. PICK c \in Caller : AnswersFor(c, b.agent)
      BY <3>1, <3>2 DEF HeldInv
    <3>4. Answers(c, b)
      BY <3>2, <3>3 DEF AnswersFor, Answers
    <3> QED
      BY <1>1, <3>4
  <2> QED
    BY <1>0, <2>1, <2>2, ActiveOrigin
<1> QED
  BY <1>2, <1>3 DEF HeldInv, AuthorityHasSession

\* A registration binds a session to the incarnation it registers.
LEMMA HeldRegister ==
    ASSUME CoordinatorInv, HeldInv, [Next]_vars,
           NEW c \in Caller, NEW a \in Agent, NEW m \in Concurrency,
           NEW boot \in BootOf[a], RegisterAgent(c, a, boot, m)
    PROVE  HeldInv'
<1>0. TypeOK /\ FrontTyped /\ now \in Nat
  BY DEF CoordinatorInv, LifeInv, WorkInv, TypeOK
<1>1. boot \in Boot /\ AgentNext
  BY RegistrationStep
<1>2. /\ bound[c] = Nobody
      /\ bound'[c] = [agent |-> a, boot |-> boot] /\ reader'[c].at = "bind"
      /\ \A d \in Caller \ {c} : bound'[d] = bound[d] /\ reader'[d] = reader[d]
  BY <1>0 DEF RegisterAgent, bind_agent, Goes, FrontTyped, SessionsTyped, ReaderRecord
<1>3. ActiveIn(asg') \subseteq ActiveIn(asg)
  BY <1>0, <1>1, AgentNextKept, KeptShrinks
<1>4. ASSUME NEW b \in ActiveIn(asg')
      PROVE  \E d \in Caller : Answers(d, b)'
  <2>1. b.agent \in Agent /\ b.boot \in Boot
    BY <1>0, <1>3, ActiveTyped DEF Binding
  <2>2. PICK d \in Caller : Answers(d, b)
    BY <1>3 DEF HeldInv, AuthorityHasSession
  <2>3. d # c
    BY <1>2, <2>1, <2>2, BoundToSomebody DEF Answers
  <2> QED
    BY <1>2, <2>2, <2>3 DEF Answers
<1>5. /\ agents'[a].boot = boot
      /\ \A x \in Agent \ {a} : /\ agents'[x].boot = agents[x].boot
                                /\ Known(x)' => Known(x)
  <2>1. CASE RegisterNew(a, GenOf[boot], boot, m)
    BY <1>0, <2>1 DEF RegisterNew, FreshAgent, TypeOK, Known
  <2>2. CASE Reincarnate(a, GenOf[boot], boot, m)
    <3>1. FreshAgent(GenOf[boot], boot, m) \in AgentRecord
          /\ FreshAgent(GenOf[boot], boot, m).boot = boot
      <4>1. GenOf[boot] \in 1..MaxAgentGen
        BY <1>1, Peers
      <4>2. GenOf[boot] \in Nat
        BY <4>1
      <4>3. m \in Nat
        BY Inputs
      <4> QED
        BY <1>0, <1>1, <4>2, <4>3, FreshAgentType
    <3> DEFINE gone == ActiveOfBoot(agents[a].boot)
               as == Closed(gone, "Lost")
               r == FreshAgent(GenOf[boot], boot, m)
    <3>2. agents' = [AgentsAfter(as, gone) EXCEPT ![a] = RefreshedAgent(as, r, a)]
      BY <2>2 DEF Reincarnate
    <3> HIDE DEF gone, as, r
    <3>3. /\ \A x \in Agent \ {a} : Holds(x)
          /\ agents'[a].boot = boot
      BY <1>0, <3>1, <3>2, CloseHolds DEF r
    <3>4. \A x \in Agent \ {a} : agents'[x] = agents[x] \/ Known(x)
      BY <3>2 DEF AgentsAfter
    <3> QED
      BY <3>3, <3>4 DEF Holds, Known
  <2>3. CASE boot = agents[a].boot /\ Reregister(a, m)
    <3> DEFINE r == [agents[a] EXCEPT
                       !.maxc = m, !.lease = now + RegistrationTtl,
                       !.lifecycle = IF @ = "Lost"
                                     THEN "RevalidationRequired" ELSE @]
    <3>1. m \in Nat /\ now + RegistrationTtl \in Nat /\ agents[a] \in AgentRecord
      BY <1>0, Inputs, Bounds DEF TypeOK
    <3>2. r \in AgentRecord /\ r.boot = agents[a].boot
      BY <3>1 DEF AgentRecord, AgentLifecycles
    <3>3. Known(a) /\ agents' = [agents EXCEPT ![a] = RefreshedAgent(asg, r, a)]
      BY <2>3 DEF Reregister
    <3> HIDE DEF r
    <3>4. BootsKept
      BY <1>0, <3>2, <3>3, StoredBoots
    <3> QED
      BY <2>3, <3>4 DEF BootsKept
  <2> QED
    BY <2>1, <2>2, <2>3, RegistrationStep
<1>6. ASSUME NEW x \in Agent, Known(x)', agents'[x].boot \notin fenced'
      PROVE  \E d \in Caller : AnswersFor(d, x)'
  <2>1. CASE x = a
    BY <1>2, <1>5, <2>1 DEF AnswersFor
  <2>2. CASE x # a
    <3>1. Known(x) /\ agents[x].boot \notin fenced /\ agents'[x].boot = agents[x].boot
      BY <1>5, <1>6, <2>2, FencesGrow
    <3>2. agents[x].boot \in Boot
      BY <1>0, <3>1, Inputs DEF TypeOK
    <3>3. PICK d \in Caller : AnswersFor(d, x)
      BY <3>1 DEF HeldInv
    <3>4. d # c
      BY <1>2, <3>2, <3>3, BoundToSomebody DEF AnswersFor
    <3> QED
      BY <1>2, <3>1, <3>3, <3>4 DEF AnswersFor
  <2> QED
    BY <2>1, <2>2
<1> QED
  BY <1>4, <1>6 DEF HeldInv, AuthorityHasSession

\* The last reader that answers for an incarnation leaves nothing behind: what was
\* current is fenced and closed, and what was not current had nothing.
LEMMA HeldLoss ==
    ASSUME CoordinatorInv, HeldInv, [Next]_vars, NEW c \in Caller, ReportLoss(c)
    PROVE  HeldInv'
<1>0. TypeOK /\ FrontTyped /\ Attached
  BY DEF CoordinatorInv, LifeInv, WorkInv, AuthorityInv
<1>1. /\ bound' = bound
      /\ \A d \in Caller \ {c} : reader'[d] = reader[d]
  BY <1>0 DEF ReportLoss, Goes, FrontTyped
<1>2. ActiveIn(asg') \subseteq ActiveIn(asg) /\ BootsKept
  <2>1. CASE UNCHANGED vars
    BY <2>1, SameBoots DEF vars
  <2>2. CASE AgentNext
    <3>1. ActiveIn(asg') \subseteq ActiveIn(asg)
      BY <1>0, <2>2, AgentNextKept, KeptShrinks
    <3>2. ASSUME NEW a \in Agent, LoseCurrent(a)
          PROVE  BootsKept
      BY <1>0, <3>2, EndedBoots DEF LoseCurrent
    <3>3. ASSUME NEW a, NEW boot, LoseStale(a, boot)
          PROVE  BootsKept
      BY <3>3, SameBoots DEF LoseStale
    <3>4. BootsKept
      BY <1>0, <3>2, <3>3, SameBoots, LossStep DEF vars
    <3> QED
      BY <3>1, <3>4
  <2> QED
    BY <1>0, <2>1, <2>2, LossStep
<1>3. ASSUME NEW b \in ActiveIn(asg'), Answers(c, b)
      PROVE  FALSE
  <2>1. /\ b \in ActiveIn(asg) /\ b.agent \in Agent /\ b.boot \in Boot
        /\ agents[b.agent].boot = b.boot
    BY <1>0, <1>2, <1>3, ActiveTyped DEF Binding, Attached
  <2>2. bound[c].agent = b.agent /\ bound[c].boot = b.boot /\ bound[c] # Nobody
    BY <1>3, <2>1, BoundToSomebody DEF Answers
  <2>3. LoseCurrent(b.agent)
    BY <1>0, <2>1, <2>2, LossStep
  <2>4. "Lost" \in TerminalStates
    BY DEF TerminalStates
  <2>5. b \notin ActiveOfBoot(agents[b.agent].boot)
    BY <1>3, <2>3, <2>4, ClosedActive DEF LoseCurrent
  <2> QED
    BY <2>1, <2>5 DEF ActiveOfBoot
<1>4. ASSUME NEW b \in ActiveIn(asg')
      PROVE  \E d \in Caller : Answers(d, b)'
  <2>1. PICK d \in Caller : Answers(d, b)
    BY <1>2, <1>4 DEF HeldInv, AuthorityHasSession
  <2>2. d # c
    BY <1>3, <2>1
  <2> QED
    BY <1>1, <2>1, <2>2 DEF Answers
<1>5. ASSUME NEW x \in Agent, Known(x)', agents'[x].boot \notin fenced'
      PROVE  \E d \in Caller : AnswersFor(d, x)'
  <2>1. Known(x) /\ agents[x].boot \notin fenced /\ agents'[x].boot = agents[x].boot
    BY <1>2, <1>5, FencesGrow DEF BootsKept
  <2>2. agents[x].boot \in Boot
    BY <1>0, <2>1, Inputs DEF TypeOK
  <2>3. PICK d \in Caller : AnswersFor(d, x)
    BY <2>1 DEF HeldInv
  <2>4. d # c
    <3>1. CASE d = c
      <4>1. bound[c].agent = x /\ bound[c].boot = agents[x].boot /\ bound[c] # Nobody
        BY <2>2, <2>3, <3>1, BoundToSomebody DEF AnswersFor
      <4>2. LoseCurrent(x)
        BY <1>0, <4>1, LossStep
      <4> QED
        BY <1>5, <2>1, <4>2 DEF LoseCurrent
    <3> QED
      BY <3>1
  <2> QED
    BY <1>1, <2>1, <2>3, <2>4 DEF AnswersFor
<1> QED
  BY <1>4, <1>5 DEF HeldInv, AuthorityHasSession

\* No other step ends a reader or binds a session.
LEMMA NoneLeaves ==
    ASSUME FrontTyped, [CoordinatorNext]_<<vars, frontVars>>,
           ~\E c \in Caller : ReportLoss(c),
           ~\E c \in Caller, a \in Agent, m \in Concurrency :
                \E boot \in BootOf[a] : RegisterAgent(c, a, boot, m)
    PROVE  bound' = bound /\ NoneGoes
<1>1. CASE UNCHANGED <<vars, frontVars>>
  BY <1>1 DEF frontVars, NoneGoes
<1>2. CASE ServerNext
  BY <1>2 DEF ServerNext, StartServer, StopBegins, NotifySessions, ClearSessions,
       JoinThreads, NoneGoes
<1>3. ASSUME NEW c \in Caller,
             \/ accept_one(c) \/ Breaks(c)
             \/ \E a \in Agent, force \in BOOLEAN : Deregister(c, a, force)
      PROVE  bound' = bound /\ NoneGoes
  BY <1>3 DEF accept_one, Breaks, Deregister, NoneGoes
<1>4. ASSUME NEW c \in Caller, emplace(c) \/ on_closed(c) \/ MapAgent(c)
      PROVE  bound' = bound /\ NoneGoes
  BY <1>4 DEF emplace, on_closed, MapAgent, Goes, NoneGoes, FrontTyped, ReaderRecord
<1>5. ASSUME NEW c \in Caller,
             \/ RevalidateAll(c) \/ AssignmentFrame(c)
             \/ BatchBegins(c) \/ BatchPlans(c) \/ BatchCommits(c) \/ BatchContinues(c)
             \/ DispatchDecision(c) \/ HandoffDecision(c) \/ DispatchEnds(c)
             \/ push_assignment(c) \/ EnqueueAssignWork(c)
             \/ AgentReceives(c) \/ AgentFrame(c) \/ ControlFrame(c)
             \/ \E b \in DOMAIN asg : DispatchAssignment(c, b)
      PROVE  bound' = bound /\ NoneGoes
  <2>1. /\ bound' = bound
        /\ \A d \in Caller : \/ reader'[d] = reader[d]
                             \/ /\ reader[d].at \notin Resting
                                /\ reader'[d].at \notin Resting
    BY <1>5, ReadersAtWork
  <2> QED
    BY <2>1 DEF NoneGoes, Resting
<1> QED
  BY <1>1, <1>2, <1>3, <1>4, <1>5 DEF CoordinatorNext, ReaderStep, PeerStep

\* Every step keeps it.
LEMMA HeldInvStep ==
    ASSUME CoordinatorInv, HeldInv, [CoordinatorNext]_<<vars, frontVars>>
    PROVE  HeldInv'
<1>0. TypeOK /\ FrontTyped
  BY DEF CoordinatorInv, LifeInv, WorkInv
<1>1. [Next]_vars
  BY <1>0, StepNext
<1>2. CASE \E c \in Caller : ReportLoss(c)
  BY <1>1, <1>2, HeldLoss
<1>3. CASE \E c \in Caller, a \in Agent, m \in Concurrency :
              \E boot \in BootOf[a] : RegisterAgent(c, a, boot, m)
  BY <1>1, <1>3, HeldRegister
<1>4. ASSUME ~\E c \in Caller : ReportLoss(c),
             ~\E c \in Caller, a \in Agent, m \in Concurrency :
                \E boot \in BootOf[a] : RegisterAgent(c, a, boot, m)
      PROVE  HeldInv'
  <2>1. BootsKept
    BY <1>0, <1>4, StepKinds, ReportBoots, RoutineBoots, SameBoots DEF vars
  <2>2. bound' = bound /\ NoneGoes
    BY <1>0, <1>4, NoneLeaves
  <2> QED
    BY <1>1, <2>1, <2>2, HeldStays
<1> QED
  BY <1>2, <1>3, <1>4

\* Every active assignment belongs to an incarnation that some session still answers
\* for: however registrations, reconnections and closing sessions interleave, none
\* is left behind with an agent nobody would miss.
THEOREM AuthorityAlwaysHasSession == CoordinatorSpec => []AuthorityHasSession
<1>1. CoordinatorInit => HeldInv
  BY DEF CoordinatorInit, Init, HeldInv, AuthorityHasSession, ActiveIn, Known,
     UnregisteredAgent
<1>2. CoordinatorInv /\ HeldInv /\ [CoordinatorNext]_<<vars, frontVars>> => HeldInv'
  BY HeldInvStep
<1>3. HeldInv => AuthorityHasSession
  BY DEF HeldInv
<1> QED
  BY <1>1, <1>2, <1>3, CoordinatorInvariant, PTL DEF CoordinatorSpec


-----------------------------------------------------------------------------
(***************************************************************************)
(* Agents are told once, and only what is theirs.                          *)
(*                                                                         *)
(* Between the handoff and the agent's answer an assignment waits in one   *)
(* place: it is the decision of the reader that had it handed off, and     *)
(* then a frame in one inbox.  Only the handoff brings it there, which an  *)
(* assignment passes once, and only reading the frame makes its agent      *)
(* report; so no report about an assignment that waits is on its way, and  *)
(* nothing but a report has an assignment acknowledged.                    *)
(***************************************************************************)

\* The states of an assignment that is handed off and that nobody has reported about.
Unanswered == {"Dispatched", "RevalidationRequired"} \cup
              (TerminalStates \ {"Completed", "Released"})

\* The assignments that leave their state for one that says they are unanswered, or
\* keep it.
Lapses ==
    \A b \in DOMAIN asg : asg'[b].state = asg[b].state \/ asg'[b].state \in Unanswered

\* Closing but for a report does that.
LEMMA ClosedLapses ==
    ASSUME TypeOK, NEW ids, NEW st \in TerminalStates \ {"Completed", "Released"},
           asg' = Closed(ids, st)
    PROVE  Lapses
<1>1. \A b \in DOMAIN asg : asg[b] \in AssignmentRecord
  BY DEF TypeOK, AssignmentMap
<1> QED
  BY <1>1 DEF Closed, Lapses, Unanswered, AssignmentRecord

\* Agent handlers do.
LEMMA AgentLapses ==
    ASSUME TypeOK, AgentNext
    PROVE  Lapses
<1>1. ASSUME NEW a \in Agent, NEW g, NEW at, publish_capabilities(a, g, at)
      PROVE  Lapses
  <2> DEFINE moved == {b \in OnAgent(asg, a) : b.capGen # g}
  <2>1. asg' = [b \in DOMAIN asg |->
                  IF b \in moved
                  THEN [asg[b] EXCEPT !.state = "RevalidationRequired",
                                      !.leaseCurrent = FALSE]
                  ELSE asg[b]]
    BY <1>1 DEF publish_capabilities
  <2>2. \A b \in DOMAIN asg : asg[b] \in AssignmentRecord
    BY DEF TypeOK, AssignmentMap
  <2> HIDE DEF moved
  <2> QED
    BY <2>1, <2>2 DEF Lapses, Unanswered, AssignmentRecord
<1>2. ASSUME asg' # asg
      PROVE  \/ \E a \in Agent : \E g, at : publish_capabilities(a, g, at)
             \/ \E ids : \E st \in {"Lost", "Invalidated"} : asg' = Closed(ids, st)
  <2> PICK a \in Agent :
        \/ \E g \in 1..MaxAgentGen, boot \in BootOf[a], m \in Concurrency :
              Reincarnate(a, g, boot, m)
        \/ \E g \in 1..MaxCapGen, at \in 1..now : publish_capabilities(a, g, at)
        \/ \E force \in BOOLEAN : drain_agent(a, force) \/ deregister_agent(a, force)
        \/ LoseCurrent(a)
    BY <1>2 DEF AgentNext, RegisterNew, Reregister, publish_health,
                publish_availability, heartbeat, LoseStale
  <2> QED
    BY DEF Reincarnate, drain_agent, deregister_agent, LoseCurrent
<1>3. {"Lost", "Invalidated"} \subseteq TerminalStates \ {"Completed", "Released"}
  BY DEF TerminalStates
<1>4. asg' = asg => Lapses
  BY DEF Lapses
<1> QED
  BY <1>1, <1>2, <1>3, <1>4, ClosedLapses

\* So does revalidation: nothing suspended passes it.
LEMMA RevalidateLapses ==
    ASSUME TypeOK, CapabilityOrdered, revalidate_assignments
    PROVE  Lapses
<1>1. PICK promoted \in SUBSET Pending :
        /\ \A b \in Pending : b \in promoted => revalidate_authority(b)
        /\ Revalidate(Pending, promoted)
  BY DEF revalidate_assignments
<1>2. promoted = {}
  BY <1>1, SuspendedForGood
<1>3. asg' = [b \in DOMAIN asg |->
                IF b \in Pending
                THEN [asg[b] EXCEPT !.state = "Invalidated", !.leaseCurrent = FALSE]
                ELSE asg[b]]
  BY <1>1, <1>2 DEF Revalidate, Revalidated
<1>4. \A b \in DOMAIN asg : asg[b] \in AssignmentRecord
  BY DEF TypeOK, AssignmentMap
<1> QED
  BY <1>3, <1>4 DEF Lapses, Unanswered, TerminalStates, AssignmentRecord

\* So does whatever else the coordinator has the scheduler do on its own.
LEMMA RoutineLapses ==
    ASSUME TypeOK, FrontTyped, CapabilityOrdered, Routine
    PROVE  Lapses
<1>1. asg' = asg => Lapses
  BY DEF Lapses
<1>2. {"Invalidated", "Superseded", "Cancelled", "Expired"}
        \subseteq TerminalStates \ {"Completed", "Released"}
  BY DEF TerminalStates
<1>3. CASE start \/ shutdown
  BY <1>1, <1>2, <1>3, ClosedLapses DEF start, shutdown, CloseAssignments
<1>4. CASE WorkNext
  <2>1. \E ids : \E st \in {"Superseded", "Cancelled", "Expired"} : asg' = Closed(ids, st)
    BY <1>4 DEF WorkNext, submit_work, supersede_work, Readmit, cancel_work,
                expire_deadlines
  <2> QED
    BY <1>2, <2>1, ClosedLapses
<1>5. CASE Continued
  <2>1. AgentNext
    <3>1. now \in 1..now
      BY DEF TypeOK, FrontTyped
    <3> QED
      BY <1>5, <3>1 DEF Continued, AgentNext
  <2> QED
    BY <2>1, AgentLapses
<1>6. ASSUME NEW c \in Caller, commit_locked(c)
      PROVE  Lapses
  BY <1>6, CommitStores DEF Adds, Lapses
<1>7. ASSUME NEW c \in Caller, Handoff(c)
      PROVE  Lapses
  BY <1>7 DEF Handoff, HandoffAllowed, Lapses, Unanswered
<1>8. ASSUME NEW c \in Caller,
             \/ \E w \in Work : plan_locked(c, w)
             \/ CommitRejected(c)
             \/ \E b \in DOMAIN asg : dispatch(c, b)
             \/ HandoffRejected(c)
      PROVE  Lapses
  BY <1>1, <1>8 DEF plan_locked, CommitRejected, dispatch, HandoffRejected
<1> QED
  BY <1>3, <1>4, <1>5, <1>6, <1>7, <1>8, RevalidateLapses DEF Routine, Unreported

\* A report changes the assignment it is about and no other.
LEMMA ReportElsewhere ==
    ASSUME TypeOK, NEW d \in DOMAIN asg, Report(d), NEW b \in DOMAIN asg, b # d
    PROVE  asg'[b] = asg[b]
  BY DEF Report, acknowledge, mark_executing, Return, Finish, CloseAssignments, Closed


\* Assignment b waits with session c: at place 0, to be sent by the reader of c, and at
\* place i, as the i-th frame in the inbox.
WaitsAt(b, c, i) ==
    \/ i = 0 /\ reader[c].at \in {"push", "enqueue"} /\ Head(reader[c].todo) = b
    \/ i \in DOMAIN inbox[c] /\ inbox[c][i] = b

\* A frame about b is on its way.
Answering(b) == \E c \in Caller : \E i \in DOMAIN sent[c] : sent[c][i].b = b

\* Session c is bound to the incarnation of b.
IsFor(c, b) == bound[c] = [agent |-> b.agent, boot |-> b.boot]

\* An assignment waits in one place at most, it is unanswered while it waits, and
\* what an agent answers about was handed off.
Places ==
    /\ \A b \in DOMAIN asg, c \in Caller, i \in Nat :
          WaitsAt(b, c, i) => asg[b].state \in Unanswered /\ ~Answering(b)
    /\ \A b \in DOMAIN asg, c \in Caller, d \in Caller, i \in Nat, j \in Nat :
          WaitsAt(b, c, i) /\ WaitsAt(b, d, j) => c = d /\ i = j
    /\ \A b \in DOMAIN asg : Answering(b) => asg[b].state # "Assigned"

\* What is in an inbox is for that session.
InboxesFor == \A c \in Caller : \A i \in DOMAIN inbox[c] : IsFor(c, inbox[c][i])

\* A reader hands off the decision it dispatched, and tells the session it is for.
Teller(c) ==
    /\ reader[c].at = "handoff" => /\ call[c].op = "dispatch"
                                   /\ call[c].b = Head(reader[c].todo)
    /\ reader[c].at = "enqueue" => IsFor(reader[c].to, Head(reader[c].todo))

ToldInv == Places /\ InboxesFor /\ \A c \in Caller : Teller(c)

\* What waits is stored.
LEMMA WaitingStored ==
    ASSUME FrontTyped, NEW b, NEW c \in Caller, NEW i \in Nat, WaitsAt(b, c, i)
    PROVE  b \in DOMAIN asg
<1>1. CASE i = 0 /\ reader[c].at \in {"push", "enqueue"} /\ Head(reader[c].todo) = b
  <2>1. reader[c].todo # <<>> /\ reader[c].todo \in Seq(DOMAIN asg)
    BY <1>1 DEF FrontTyped, Consistent, ReaderRecord, Dispatching
  <2> QED
    BY <1>1, <2>1, HeadTailProperties
<1>2. CASE i \in DOMAIN inbox[c] /\ inbox[c][i] = b
  <2>1. inbox[c] \in Seq(DOMAIN asg)
    BY DEF FrontTyped
  <2>2. i \in 1..Len(inbox[c])
    BY <1>2, <2>1, LenProperties
  <2> QED
    BY <1>2, <2>1, <2>2, ElementOfSeq
<1> QED
  BY <1>1, <1>2 DEF WaitsAt

\* What frames are about is stored.
LEMMA AnsweredStored ==
    ASSUME FrontTyped, NEW b, Answering(b)
    PROVE  b \in DOMAIN asg
<1>1. PICK c \in Caller : \E i \in DOMAIN sent[c] : sent[c][i].b = b
  BY DEF Answering
<1>2. PICK i \in DOMAIN sent[c] : sent[c][i].b = b
  BY <1>1
<1>3. sent[c] \in Seq(FrameRecord)
  BY DEF FrontTyped
<1>4. i \in 1..Len(sent[c])
  BY <1>2, <1>3, LenProperties
<1>5. sent[c][i] \in FrameRecord
  BY <1>3, <1>4, ElementOfSeq
<1> QED
  BY <1>2, <1>5 DEF FrameRecord

\* An assignment that nobody answers about stays unanswered, and one that is no longer
\* Assigned is not so again.
LEMMA StatesStep ==
    ASSUME TypeOK, FrontTyped, CapabilityOrdered, [CoordinatorNext]_<<vars, frontVars>>,
           NEW b \in DOMAIN asg
    PROVE  /\ asg[b].state \in Unanswered /\ ~Answering(b) => asg'[b].state \in Unanswered
           /\ asg[b].state # "Assigned" => asg'[b].state # "Assigned"
<1>1. "Assigned" \notin Unanswered
  BY DEF Unanswered, TerminalStates
<1>2. CASE Lapses
  BY <1>1, <1>2 DEF Lapses
<1>3. ASSUME NEW c \in Caller, sent[c] # <<>>, Head(sent[c]).b \in DOMAIN asg,
             Report(Head(sent[c]).b)
      PROVE  /\ asg[b].state \in Unanswered /\ ~Answering(b) => asg'[b].state \in Unanswered
             /\ asg[b].state # "Assigned" => asg'[b].state # "Assigned"
  <2> DEFINE d == Head(sent[c]).b
  <2>1. sent[c] \in Seq(FrameRecord)
    BY DEF FrontTyped
  <2>2. Answering(d)
    <3>1. 1 \in DOMAIN sent[c] /\ Head(sent[c]) = sent[c][1]
      BY <1>3, <2>1, HeadTailProperties, LenProperties
    <3> QED
      BY <3>1 DEF Answering
  <2>3. d \in DOMAIN asg /\ Report(d)
    BY <1>3
  <2> HIDE DEF d
  <2>4. CASE b # d
    BY <2>3, <2>4, ReportElsewhere
  <2>5. CASE b = d
    <3>1. Moves(asg')
      BY <2>3, ReportMoves
    <3>2. asg[b].state # "Assigned" => asg'[b].state # "Assigned"
      BY <3>1 DEF Moves, Stage, Life!After
    <3> QED
      BY <2>2, <2>5, <3>2
  <2> QED
    BY <2>4, <2>5
<1>4. asg' = asg => Lapses
  BY DEF Lapses
<1>5. AgentNext => Lapses
  BY AgentLapses
<1>6. ASSUME NEW c \in Caller, ReportLoss(c)
      PROVE  Lapses
  BY <1>4, <1>5, <1>6, LossStep DEF vars
<1>7. ASSUME NEW c \in Caller, NEW a \in Agent, NEW m \in Concurrency,
             NEW boot \in BootOf[a], RegisterAgent(c, a, boot, m)
      PROVE  Lapses
  BY <1>5, <1>7, RegistrationStep
<1>8. [Routine]_vars => Lapses
  BY <1>4, RoutineLapses DEF vars
<1> QED
  BY <1>2, <1>3, <1>6, <1>7, <1>8, StepKinds


\* A reader in one of these states is in the middle of telling an agent.
Delivering == {"handoff", "push", "enqueue"}

\* The step brings no reader into the middle of telling an agent, and what a reader has
\* handed off stays.
NobodyDelivers ==
    \A d \in Caller :
        reader'[d].at \in Delivering => reader'[d] = reader[d] /\ call'[d] = call[d]

\* A reader that goes elsewhere brings nobody there.
LEMMA ReaderElsewhere ==
    ASSUME FrontTyped, NEW c \in Caller, NEW at \in ReaderStates \ Delivering,
           Goes(c, at), \A d \in Caller \ {c} : call'[d] = call[d]
    PROVE  NobodyDelivers
  BY DEF Goes, NobodyDelivers, FrontTyped, ReaderRecord

\* Neither does one that is done with a decision.
LEMMA DecidesElsewhere ==
    ASSUME FrontTyped, NEW c \in Caller, NEW todo,
           reader' = [reader EXCEPT ![c] = Decides(todo)],
           \A d \in Caller \ {c} : call'[d] = call[d]
    PROVE  NobodyDelivers
<1>1. Decides(todo).at \notin Delivering
  BY DEF Decides, Delivering
<1> QED
  BY <1>1 DEF NobodyDelivers, FrontTyped

\* Nor do steps of readers that are elsewhere and do not move.
LEMMA ReadersElsewhere ==
    ASSUME reader' = reader,
           \A d \in Caller : reader[d].at \in Delivering => call'[d] = call[d]
    PROVE  NobodyDelivers
  BY DEF NobodyDelivers

\* Handlers of agents and of work touch no call.
LEMMA CallsStay ==
    ASSUME TypeOK, FrontTyped,
           \/ start \/ shutdown \/ AgentNext \/ WorkNext \/ Continued
           \/ revalidate_assignments \/ UNCHANGED vars
           \/ \E b \in DOMAIN asg : Report(b)
    PROVE  call' = call
<1>1. CASE Continued
  <2>1. now \in 1..now
    BY DEF TypeOK, FrontTyped
  <2> QED
    BY <1>1, <2>1, AgentNextSteady DEF Continued, AgentNext
<1>2. CASE WorkNext
  BY <1>2 DEF WorkNext, submit_work, supersede_work, Readmit, cancel_work,
              expire_deadlines
<1>3. CASE start \/ shutdown \/ revalidate_assignments \/ UNCHANGED vars
  BY <1>3 DEF start, shutdown, revalidate_assignments, Revalidate, vars
<1> QED
  BY <1>1, <1>2, <1>3, AgentNextSteady, ReportSteady

\* But for what follows a dispatch and for the frames themselves, no step has to do
\* with telling an agent.
LEMMA OthersElsewhere ==
    ASSUME TypeOK, FrontTyped,
           \/ UNCHANGED <<vars, frontVars>>
           \/ ServerNext
           \/ \E c \in Caller :
                 \/ accept_one(c) \/ emplace(c) \/ Breaks(c)
                 \/ on_closed(c) \/ ReportLoss(c) \/ MapAgent(c) \/ RevalidateAll(c)
                 \/ BatchBegins(c) \/ BatchPlans(c) \/ BatchCommits(c)
                 \/ BatchContinues(c) \/ DispatchEnds(c)
                 \/ AgentFrame(c) \/ ControlFrame(c)
                 \/ \E a \in Agent, m \in Concurrency :
                       \E boot \in BootOf[a] : RegisterAgent(c, a, boot, m)
                 \/ \E a \in Agent, force \in BOOLEAN : Deregister(c, a, force)
                 \/ \E b \in DOMAIN asg : DispatchAssignment(c, b)
    PROVE  NobodyDelivers /\ UNCHANGED <<inbox, sent>>
<1>1. UNCHANGED <<inbox, sent>>
  <2>1. CASE UNCHANGED <<vars, frontVars>> \/ ServerNext
    BY <2>1 DEF frontVars, ServerNext, StartServer, StopBegins, NotifySessions,
                ClearSessions, JoinThreads
  <2>2. ASSUME NEW c \in Caller,
               \/ accept_one(c) \/ emplace(c) \/ Breaks(c)
               \/ on_closed(c) \/ ReportLoss(c) \/ MapAgent(c) \/ RevalidateAll(c)
        PROVE  UNCHANGED <<inbox, sent>>
    BY <2>2 DEF accept_one, emplace, Breaks, on_closed, ReportLoss, MapAgent,
                RevalidateAll
  <2>3. ASSUME NEW c \in Caller,
               \/ BatchBegins(c) \/ BatchPlans(c) \/ BatchCommits(c)
               \/ BatchContinues(c) \/ DispatchEnds(c)
        PROVE  UNCHANGED <<inbox, sent>>
    BY <2>3 DEF BatchBegins, BatchPlans, BatchCommits, BatchContinues, DispatchEnds
  <2>4. ASSUME NEW c \in Caller,
               \/ AgentFrame(c) \/ ControlFrame(c)
               \/ \E a \in Agent, m \in Concurrency :
                     \E boot \in BootOf[a] : RegisterAgent(c, a, boot, m)
               \/ \E a \in Agent, force \in BOOLEAN : Deregister(c, a, force)
               \/ \E b \in DOMAIN asg : DispatchAssignment(c, b)
        PROVE  UNCHANGED <<inbox, sent>>
    BY <2>4 DEF AgentFrame, ControlFrame, RegisterAgent, Deregister,
                DispatchAssignment, Handled
  <2> QED
    BY <2>1, <2>2, <2>3, <2>4
<1> SUFFICES NobodyDelivers
  BY <1>1
<1>2. call \in [Caller -> Calls] /\ reader \in [Caller -> ReaderRecord]
  BY DEF TypeOK, FrontTyped
<1>3. CASE UNCHANGED <<vars, frontVars>>
  BY <1>3, ReadersElsewhere DEF vars, frontVars
<1>4. CASE ServerNext
  <2>1. reader' = reader
    BY <1>4 DEF ServerNext, StartServer, StopBegins, NotifySessions, ClearSessions,
         JoinThreads
  <2>2. start \/ shutdown \/ UNCHANGED vars
    BY <1>4 DEF ServerNext, StartServer, StopBegins, NotifySessions, ClearSessions,
         JoinThreads
  <2> QED
    BY <2>1, <2>2, CallsStay, ReadersElsewhere
<1>5. ASSUME NEW c \in Caller, accept_one(c) \/ Breaks(c)
      PROVE  NobodyDelivers
  BY <1>5, ReadersElsewhere DEF accept_one, Breaks, vars
<1>6. ASSUME NEW c \in Caller,
             \/ emplace(c) \/ on_closed(c) \/ MapAgent(c) \/ RevalidateAll(c)
             \/ ReportLoss(c)
      PROVE  NobodyDelivers
  <2>1. \E at \in {"read", "losing", "revalidate", "pass", "gone"} : Goes(c, at)
    BY <1>6 DEF emplace, on_closed, MapAgent, RevalidateAll, ReportLoss
  <2>2. call' = call
    <3>1. CASE ReportLoss(c)
      BY <3>1, LossStep, CallsStay
    <3>2. CASE emplace(c) \/ on_closed(c) \/ MapAgent(c) \/ RevalidateAll(c)
      BY <3>2, CallsStay DEF emplace, on_closed, MapAgent, RevalidateAll, vars
    <3> QED
      BY <1>6, <3>1, <3>2
  <2>3. {"read", "losing", "revalidate", "pass", "gone"} \subseteq ReaderStates \ Delivering
    BY DEF ReaderStates, Delivering
  <2> QED
    BY <2>1, <2>2, <2>3, ReaderElsewhere
<1>7. ASSUME NEW c \in Caller, NEW a \in Agent, NEW m \in Concurrency,
             NEW boot \in BootOf[a], RegisterAgent(c, a, boot, m)
      PROVE  NobodyDelivers
  <2>1. Goes(c, "bind") /\ call' = call
    BY <1>7, RegistrationStep, CallsStay DEF RegisterAgent
  <2>2. "bind" \in ReaderStates \ Delivering
    BY DEF ReaderStates, Delivering
  <2> QED
    BY <2>1, <2>2, ReaderElsewhere
<1>8. ASSUME NEW c \in Caller, BatchBegins(c) \/ BatchContinues(c)
      PROVE  NobodyDelivers
  <2>1. call' = call
    BY <1>8 DEF BatchBegins, BatchContinues, vars
  <2>2. \/ \E at \in {"batch", "read"} : Goes(c, at)
        \/ reader' = reader
        \/ reader' = [reader EXCEPT ![c] = Decides(reader[c].todo)]
    BY <1>2, <1>8 DEF BatchBegins, BatchContinues
  <2>3. {"batch", "read"} \subseteq ReaderStates \ Delivering
    BY DEF ReaderStates, Delivering
  <2> QED
    BY <2>1, <2>2, <2>3, ReaderElsewhere, ReadersElsewhere, DecidesElsewhere
<1>9. ASSUME NEW c \in Caller, BatchPlans(c) \/ BatchCommits(c)
      PROVE  NobodyDelivers
  <2>1. reader[c].at = "batch"
    BY <1>9 DEF BatchPlans, BatchCommits, FrontTyped, Consistent
  <2>2. \A d \in Caller \ {c} : call'[d] = call[d]
    BY <1>2, <1>9 DEF BatchPlans, BatchCommits, plan_locked, commit_locked, vars
  <2>3. \A d \in Caller : reader'[d].at = reader[d].at
                          /\ (d # c => reader'[d] = reader[d])
    BY <1>2, <1>9 DEF BatchPlans, BatchCommits, ReaderRecord
  <2> QED
    BY <2>1, <2>2, <2>3 DEF NobodyDelivers, Delivering
<1>10. ASSUME NEW c \in Caller,
              DispatchEnds(c) \/ \E b \in DOMAIN asg : DispatchAssignment(c, b)
       PROVE  NobodyDelivers
  <2>1. \E at \in {"read", "control"} : Goes(c, at)
    BY <1>10 DEF DispatchEnds, DispatchAssignment
  <2>2. \A d \in Caller \ {c} : call'[d] = call[d]
    BY <1>2, <1>10 DEF DispatchEnds, DispatchAssignment, dispatch, Handoff, HandoffRejected
  <2>3. {"read", "control"} \subseteq ReaderStates \ Delivering
    BY DEF ReaderStates, Delivering
  <2> QED
    BY <2>1, <2>2, <2>3, ReaderElsewhere
<1>11. ASSUME NEW c \in Caller,
              \/ AgentFrame(c) \/ ControlFrame(c)
              \/ \E a \in Agent, force \in BOOLEAN : Deregister(c, a, force)
       PROVE  NobodyDelivers
  <2>1. reader' = reader \/ Goes(c, "pass")
    BY <1>11 DEF AgentFrame, ControlFrame, Deregister, Handled, Goes
  <2>2. call' = call
    <3>1. CASE AgentFrame(c)
      <4>1. bound[c] # Nobody /\ bound[c].agent \in Agent
        BY <3>1 DEF AgentFrame, FrontTyped, SessionsTyped
      <4> QED
        BY <3>1, <4>1, CallsStay DEF AgentFrame, Continued
    <3>2. CASE ControlFrame(c)
      BY <3>2, CallsStay DEF ControlFrame, Continued, WorkNext
    <3>3. CASE \E a \in Agent, force \in BOOLEAN : Deregister(c, a, force)
      BY <3>3, CallsStay DEF Deregister, Continued
    <3> QED
      BY <1>11, <3>1, <3>2, <3>3
  <2>3. "pass" \in ReaderStates \ Delivering
    BY DEF ReaderStates, Delivering
  <2> QED
    BY <2>1, <2>2, <2>3, ReaderElsewhere, ReadersElsewhere
<1> QED
  BY <1>3, <1>4, <1>5, <1>6, <1>7, <1>8, <1>9, <1>10, <1>11


\* A step that brings no assignment to a place keeps the places.
LEMMA PlacesShrink ==
    ASSUME CoordinatorInv, Places, [CoordinatorNext]_<<vars, frontVars>>,
           \A b : \A c \in Caller, i \in Nat : WaitsAt(b, c, i)' => WaitsAt(b, c, i),
           \A b : Answering(b)' => Answering(b)
    PROVE  Places'
<1>0. TypeOK /\ FrontTyped /\ CapabilityOrdered
  BY DEF CoordinatorInv, LifeInv, WorkInv
<1>1. ASSUME NEW b, NEW c \in Caller, NEW i \in Nat, WaitsAt(b, c, i)'
      PROVE  asg'[b].state \in Unanswered /\ ~Answering(b)'
  <2>1. WaitsAt(b, c, i)
    BY <1>1
  <2>2. b \in DOMAIN asg
    BY <1>0, <2>1, WaitingStored
  <2>3. asg[b].state \in Unanswered /\ ~Answering(b)
    BY <2>1, <2>2 DEF Places
  <2> QED
    BY <1>0, <2>2, <2>3, StatesStep
<1>2. ASSUME NEW b, NEW c \in Caller, NEW d \in Caller, NEW i \in Nat, NEW j \in Nat,
             WaitsAt(b, c, i)', WaitsAt(b, d, j)'
      PROVE  c = d /\ i = j
  <2>1. WaitsAt(b, c, i) /\ WaitsAt(b, d, j)
    BY <1>2
  <2>2. b \in DOMAIN asg
    BY <1>0, <2>1, WaitingStored
  <2> QED
    BY <2>1, <2>2 DEF Places
<1>3. ASSUME NEW b, Answering(b)'
      PROVE  asg'[b].state # "Assigned"
  <2>1. Answering(b)
    BY <1>3
  <2>2. b \in DOMAIN asg
    BY <1>0, <2>1, AnsweredStored
  <2> QED
    BY <1>0, <2>1, <2>2, StatesStep DEF Places
<1> QED
  BY <1>1, <1>2, <1>3 DEF Places

\* A session that is bound stays bound.
BoundOnce == \A c \in Caller : bound[c] # Nobody => bound'[c] = bound[c]

LEMMA StaysBound ==
    ASSUME FrontTyped, [CoordinatorNext]_<<vars, frontVars>>
    PROVE  BoundOnce
<1>1. CASE \E c \in Caller : ReportLoss(c)
  BY <1>1 DEF ReportLoss, BoundOnce
<1>2. CASE \E c \in Caller, a \in Agent, m \in Concurrency :
              \E boot \in BootOf[a] : RegisterAgent(c, a, boot, m)
  BY <1>2 DEF RegisterAgent, bind_agent, BoundOnce, FrontTyped, SessionsTyped
<1> QED
  BY <1>1, <1>2, NoneLeaves DEF BoundOnce

\* So what is for it stays so.
LEMMA StaysFor ==
    ASSUME TypeOK, BoundOnce, NEW c \in Caller, NEW b \in DOMAIN asg, IsFor(c, b)
    PROVE  IsFor(c, b)'
<1>1. b.agent \in Agent /\ b.boot \in Boot
  BY DEF TypeOK, AssignmentMap, Binding
<1>2. bound[c] # Nobody
  BY <1>1, BoundToSomebody DEF IsFor
<1> QED
  BY <1>2 DEF BoundOnce, IsFor

\* Inboxes that do not change stay for their sessions.
LEMMA InboxesStay ==
    ASSUME TypeOK, FrontTyped, BoundOnce, InboxesFor, inbox' = inbox
    PROVE  InboxesFor'
<1> SUFFICES ASSUME NEW c \in Caller, NEW i \in DOMAIN inbox[c]
             PROVE  IsFor(c, inbox[c][i])'
  BY DEF InboxesFor
<1>1. inbox[c] \in Seq(DOMAIN asg)
  BY DEF FrontTyped
<1>2. inbox[c][i] \in DOMAIN asg
  BY <1>1, LenProperties, ElementOfSeq
<1> DEFINE b == inbox[c][i]
<1>3. IsFor(c, b)
  BY DEF InboxesFor
<1>4. IsFor(c, b)'
  <2> HIDE DEF b
  <2>1. b \in DOMAIN asg
    BY <1>2 DEF b
  <2>2. \A x \in DOMAIN asg : IsFor(c, x) => IsFor(c, x)'
    BY StaysFor
  <2>3. b' = b
    BY DEF b
  <2> QED
    BY <1>3, <2>1, <2>2, <2>3 DEF IsFor
<1> QED
  BY <1>4

\* A reader that stays where it is, with what it handed off, stays right.
LEMMA TellerStays ==
    ASSUME TypeOK, FrontTyped, BoundOnce, NEW c \in Caller, Teller(c),
           reader'[c] = reader[c], call'[c] = call[c]
    PROVE  Teller(c)'
<1>1. ASSUME reader[c].at = "enqueue"
      PROVE  IsFor(reader[c].to, Head(reader[c].todo))'
  <2>1. reader[c].to \in Caller
    BY <1>1 DEF FrontTyped, Consistent
  <2>2. reader[c].todo # <<>> /\ reader[c].todo \in Seq(DOMAIN asg)
    BY <1>1 DEF FrontTyped, Consistent, ReaderRecord, Dispatching
  <2>3. Head(reader[c].todo) \in DOMAIN asg
    BY <2>2, HeadTailProperties
  <2>4. IsFor(reader[c].to, Head(reader[c].todo))
    BY <1>1 DEF Teller
  <2>5. \A x \in DOMAIN asg, d \in Caller : IsFor(d, x) => IsFor(d, x)'
    BY StaysFor
  <2> QED
    BY <2>1, <2>3, <2>4, <2>5 DEF IsFor
<1> QED
  BY <1>1 DEF Teller

\* A step that has nothing to do with telling agents.
LEMMA ToldElsewhere ==
    ASSUME CoordinatorInv, ToldInv, [CoordinatorNext]_<<vars, frontVars>>,
           NobodyDelivers, inbox' = inbox, \A b : Answering(b)' => Answering(b)
    PROVE  ToldInv'
<1>0. TypeOK /\ FrontTyped /\ BoundOnce
  BY StaysBound DEF CoordinatorInv, LifeInv, WorkInv
<1>1. \A b : \A c \in Caller, i \in Nat : WaitsAt(b, c, i)' => WaitsAt(b, c, i)
  BY DEF WaitsAt, NobodyDelivers, Delivering
<1>2. Places'
  BY <1>1, PlacesShrink DEF ToldInv
<1>3. InboxesFor'
  BY <1>0, InboxesStay DEF ToldInv
<1>4. ASSUME NEW c \in Caller
      PROVE  Teller(c)'
  <2>1. CASE reader'[c].at \in Delivering
    BY <1>0, <2>1, TellerStays DEF NobodyDelivers, ToldInv
  <2>2. CASE reader'[c].at \notin Delivering
    BY <2>2 DEF Teller, Delivering
  <2> QED
    BY <2>1, <2>2
<1> QED
  BY <1>2, <1>3, <1>4 DEF ToldInv


\* The frame a reader handles is on its way no longer.
LEMMA ToldFrame ==
    ASSUME CoordinatorInv, ToldInv, [CoordinatorNext]_<<vars, frontVars>>,
           NEW c \in Caller, AssignmentFrame(c)
    PROVE  ToldInv'
<1>0. TypeOK /\ FrontTyped
  BY DEF CoordinatorInv, LifeInv, WorkInv
<1>1. sent[c] # <<>> /\ sent[c] \in Seq(FrameRecord)
  BY <1>0 DEF AssignmentFrame, FrontTyped
<1> DEFINE f == Head(sent[c])
<1>2. f.b \in DOMAIN asg /\ f.type \in {"AssignmentAck", "WorkStarted", "WorkReleased",
                                        "WorkCompleted", "WorkFailed"}
  <2>1. f \in FrameRecord
    BY <1>1, HeadTailProperties
  <2> QED
    BY <2>1 DEF FrameRecord
<1>3. \/ \E at \in {"read", "pass"} : Goes(c, at) /\ Report(f.b)
      \/ reader' = reader /\ UNCHANGED vars
  BY <1>2 DEF AssignmentFrame, Applied, Report
<1> HIDE DEF f
<1>4. call' = call
  BY <1>0, <1>2, <1>3, CallsStay
<1>5. {"read", "pass"} \subseteq ReaderStates \ Delivering
  BY DEF ReaderStates, Delivering
<1>6. NobodyDelivers
  BY <1>0, <1>3, <1>4, <1>5, ReaderElsewhere, ReadersElsewhere
<1>7. ASSUME NEW b, Answering(b)'
      PROVE  Answering(b)
  <2>1. sent' = [sent EXCEPT ![c] = Tail(@)] /\ sent \in [Caller -> Seq(FrameRecord)]
    BY <1>0 DEF AssignmentFrame, FrontTyped
  <2>2. PICK d \in Caller : \E i \in DOMAIN sent'[d] : sent'[d][i].b = b
    BY <1>7 DEF Answering
  <2>3. PICK i \in DOMAIN sent'[d] : sent'[d][i].b = b
    BY <2>2
  <2>4. CASE d # c
    BY <2>1, <2>3, <2>4 DEF Answering
  <2>5. CASE d = c
    <3>1. sent'[c] = Tail(sent[c])
      BY <2>1
    <3>2. /\ Tail(sent[c]) \in Seq(FrameRecord) /\ Len(Tail(sent[c])) = Len(sent[c]) - 1
          /\ \A k \in 1..Len(Tail(sent[c])) : Tail(sent[c])[k] = sent[c][k + 1]
      BY <1>1, HeadTailProperties
    <3>3. DOMAIN Tail(sent[c]) = 1..Len(Tail(sent[c]))
      BY <3>2, LenProperties
    <3>4. Len(sent[c]) \in Nat /\ DOMAIN sent[c] = 1..Len(sent[c])
      BY <1>1, LenProperties
    <3>5. i + 1 \in DOMAIN sent[c] /\ sent[c][i + 1].b = b
      BY <2>3, <2>5, <3>1, <3>2, <3>3, <3>4
    <3> QED
      BY <3>5 DEF Answering
  <2> QED
    BY <2>4, <2>5
<1>8. inbox' = inbox
  BY DEF AssignmentFrame
<1> QED
  BY <1>6, <1>7, <1>8, ToldElsewhere

\* A decision that is done with has nothing to do with telling agents any more.
LEMMA ToldDone ==
    ASSUME CoordinatorInv, ToldInv, [CoordinatorNext]_<<vars, frontVars>>,
           NEW c \in Caller, NextDecision(c), UNCHANGED <<inbox, sent>>,
           \A d \in Caller \ {c} : call'[d] = call[d]
    PROVE  ToldInv'
<1>1. NobodyDelivers
  BY DecidesElsewhere DEF NextDecision, CoordinatorInv
<1> QED
  BY <1>1, ToldElsewhere DEF Answering

\* The decision a reader dispatches is what it will hand off.
LEMMA ToldDispatch ==
    ASSUME CoordinatorInv, ToldInv, [CoordinatorNext]_<<vars, frontVars>>,
           NEW c \in Caller, DispatchDecision(c)
    PROVE  ToldInv'
<1>0. TypeOK /\ FrontTyped /\ BoundOnce
  BY StaysBound DEF CoordinatorInv, LifeInv, WorkInv
<1>1. UNCHANGED <<inbox, sent>>
  BY DEF DispatchDecision
<1>2. CASE Refused(c) /\ UNCHANGED vars
  BY <1>1, <1>2, ToldDone DEF Refused, vars
<1>3. CASE dispatch(c, Head(reader[c].todo)) /\ Goes(c, "handoff")
  <2>1. /\ reader \in [Caller -> ReaderRecord]
        /\ reader'[c].at = "handoff" /\ reader'[c].todo = reader[c].todo
        /\ \A d \in Caller \ {c} : reader'[d] = reader[d]
    BY <1>0, <1>3 DEF Goes, FrontTyped, ReaderRecord
  <2>2. /\ call'[c].op = "dispatch" /\ call'[c].b = Head(reader[c].todo)
        /\ \A d \in Caller \ {c} : call'[d] = call[d]
    BY <1>0, <1>3 DEF dispatch, TypeOK
  <2>3. \A b : \A d \in Caller, i \in Nat : WaitsAt(b, d, i)' => WaitsAt(b, d, i)
    BY <1>1, <2>1 DEF WaitsAt
  <2>4. \A b : Answering(b)' => Answering(b)
    BY <1>1 DEF Answering
  <2>5. Places'
    BY <2>3, <2>4, PlacesShrink DEF ToldInv
  <2>6. Teller(c)'
    BY <2>1, <2>2 DEF Teller
  <2>7. \A d \in Caller \ {c} : Teller(d)'
    BY <1>0, <2>1, <2>2, TellerStays DEF ToldInv
  <2>8. InboxesFor'
    BY <1>0, <1>1, InboxesStay DEF ToldInv
  <2> QED
    BY <2>5, <2>6, <2>7, <2>8 DEF ToldInv
<1> QED
  BY <1>2, <1>3 DEF DispatchDecision

\* What is handed off was Assigned: it waits nowhere yet, and nobody answers about it.
LEMMA ToldHandoff ==
    ASSUME CoordinatorInv, ToldInv, [CoordinatorNext]_<<vars, frontVars>>,
           NEW c \in Caller, HandoffDecision(c)
    PROVE  ToldInv'
<1>0. TypeOK /\ FrontTyped /\ BoundOnce /\ CapabilityOrdered
  BY StaysBound DEF CoordinatorInv, LifeInv, WorkInv
<1>1. UNCHANGED <<inbox, sent>> /\ reader[c].at = "handoff"
  BY DEF HandoffDecision
<1>2. CASE HandoffRejected(c) /\ Refused(c)
  <2>1. \A d \in Caller \ {c} : call'[d] = call[d]
    BY <1>0, <1>2 DEF HandoffRejected, TypeOK
  <2> QED
    BY <1>1, <1>2, <2>1, ToldDone DEF Refused
<1>3. CASE Handoff(c) /\ Goes(c, "push")
  <2> DEFINE b == Head(reader[c].todo)
  <2>1. /\ reader'[c].at = "push" /\ reader'[c].todo = reader[c].todo
        /\ \A d \in Caller \ {c} : reader'[d] = reader[d]
    BY <1>0, <1>3 DEF Goes, FrontTyped, ReaderRecord
  <2>2. \A d \in Caller \ {c} : call'[d] = call[d]
    BY <1>0, <1>3 DEF Handoff, TypeOK
  <2>3. call[c].b = b
    BY <1>1 DEF ToldInv, Teller
  <2>4. b \in DOMAIN asg /\ asg[b].state = "Assigned"
    BY <1>3, <2>3 DEF Handoff, HandoffAllowed
  <2>5. asg'[b].state = "Dispatched"
    BY <1>3, <2>3, <2>4 DEF Handoff
  <2>6. Head(reader'[c].todo) = b
    BY <2>1
  <2> HIDE DEF b
  <2>7. "Assigned" \notin Unanswered /\ "Dispatched" \in Unanswered
    BY DEF Unanswered, TerminalStates
  <2>8. ~Answering(b) /\ \A d \in Caller, i \in Nat : ~WaitsAt(b, d, i)
    BY <2>4, <2>7 DEF ToldInv, Places
  <2>9. \A x : Answering(x)' <=> Answering(x)
    BY <1>1 DEF Answering
  <2>10. \A x : \A d \in Caller, i \in Nat :
            WaitsAt(x, d, i)' => WaitsAt(x, d, i) \/ (x = b /\ d = c /\ i = 0)
    BY <1>1, <2>1, <2>6 DEF WaitsAt
  <2>11. ASSUME NEW x, NEW d \in Caller, NEW i \in Nat, WaitsAt(x, d, i)'
         PROVE  asg'[x].state \in Unanswered /\ ~Answering(x)'
    <3>1. CASE x = b
      BY <2>5, <2>7, <2>8, <2>9, <3>1
    <3>2. CASE WaitsAt(x, d, i)
      <4>1. x \in DOMAIN asg
        BY <1>0, <3>2, WaitingStored
      <4>2. asg[x].state \in Unanswered /\ ~Answering(x)
        BY <3>2, <4>1 DEF ToldInv, Places
      <4> QED
        BY <1>0, <2>9, <4>1, <4>2, StatesStep
    <3> QED
      BY <2>10, <2>11, <3>1, <3>2
  <2>12. ASSUME NEW x, NEW d \in Caller, NEW e \in Caller, NEW i \in Nat, NEW j \in Nat,
                WaitsAt(x, d, i)', WaitsAt(x, e, j)'
         PROVE  d = e /\ i = j
    <3>1. CASE x = b
      BY <2>8, <2>10, <2>12, <3>1
    <3>2. CASE x # b
      <4>1. WaitsAt(x, d, i) /\ WaitsAt(x, e, j)
        BY <2>10, <2>12, <3>2
      <4>2. x \in DOMAIN asg
        BY <1>0, <4>1, WaitingStored
      <4> QED
        BY <4>1, <4>2 DEF ToldInv, Places
    <3> QED
      BY <3>1, <3>2
  <2>13. ASSUME NEW x, Answering(x)'
         PROVE  asg'[x].state # "Assigned"
    <3>1. Answering(x)
      BY <2>9, <2>13
    <3>2. x \in DOMAIN asg
      BY <1>0, <3>1, AnsweredStored
    <3> QED
      BY <1>0, <3>1, <3>2, StatesStep DEF ToldInv, Places
  <2>14. Places'
    BY <2>11, <2>12, <2>13 DEF Places
  <2>15. InboxesFor'
    BY <1>0, <1>1, InboxesStay DEF ToldInv
  <2>16. Teller(c)'
    BY <2>1 DEF Teller
  <2>17. \A d \in Caller \ {c} : Teller(d)'
    BY <1>0, <2>1, <2>2, TellerStays DEF ToldInv
  <2> QED
    BY <2>14, <2>15, <2>16, <2>17 DEF ToldInv
<1> QED
  BY <1>2, <1>3 DEF HandoffDecision


\* The map leads a reader to a session bound to the incarnation it looks for.
LEMMA ToldPush ==
    ASSUME CoordinatorInv, MapInv, ToldInv, [CoordinatorNext]_<<vars, frontVars>>,
           NEW c \in Caller, push_assignment(c)
    PROVE  ToldInv'
<1>0. TypeOK /\ FrontTyped /\ BoundOnce
  BY StaysBound DEF CoordinatorInv, LifeInv, WorkInv
<1>1. UNCHANGED <<inbox, sent, bound, agent_sessions>> /\ call' = call
  BY DEF push_assignment, vars
<1> DEFINE b == Head(reader[c].todo)
           entry == agent_sessions[b.agent]
<1>2. CASE entry # Nobody /\ entry.boot = b.boot /\ entry.session \in sessions
  <2>1. reader' = [reader EXCEPT ![c].at = "enqueue", ![c].to = entry.session]
        /\ reader[c].at = "push"
    BY <1>2 DEF push_assignment
  <2>2. reader[c].todo # <<>> /\ reader[c].todo \in Seq(DOMAIN asg)
    BY <1>0, <2>1 DEF FrontTyped, Consistent, ReaderRecord, Dispatching
  <2>3. b \in DOMAIN asg
    BY <2>2, HeadTailProperties
  <2>4. b.agent \in Agent
    BY <1>0, <2>3 DEF TypeOK, AssignmentMap, Binding
  <2>5. IsFor(entry.session, b)
    BY <1>2, <2>4 DEF MapInv, Mapped, IsFor
  <2>6. /\ reader'[c].at = "enqueue" /\ reader'[c].to = entry.session
        /\ reader'[c].todo = reader[c].todo
        /\ \A d \in Caller \ {c} : reader'[d] = reader[d]
    BY <1>0, <2>1 DEF FrontTyped, ReaderRecord
  <2>7. \A x : \A d \in Caller, i \in Nat : WaitsAt(x, d, i)' => WaitsAt(x, d, i)
    BY <1>1, <2>1, <2>6 DEF WaitsAt
  <2>8. \A x : Answering(x)' => Answering(x)
    BY <1>1 DEF Answering
  <2>9. Places'
    BY <2>7, <2>8, PlacesShrink DEF ToldInv
  <2>10. Teller(c)'
    BY <1>1, <2>5, <2>6 DEF Teller, IsFor
  <2>11. \A d \in Caller \ {c} : Teller(d)'
    BY <1>0, <1>1, <2>6, TellerStays DEF ToldInv
  <2>12. InboxesFor'
    BY <1>0, <1>1, InboxesStay DEF ToldInv
  <2> QED
    BY <2>9, <2>10, <2>11, <2>12 DEF ToldInv
<1>3. CASE ~(entry # Nobody /\ entry.boot = b.boot /\ entry.session \in sessions)
  <2>1. NextDecision(c)
    BY <1>3 DEF push_assignment
  <2> QED
    BY <1>1, <2>1, ToldDone
<1> QED
  BY <1>2, <1>3

\* Queueing a frame moves what waits from the reader to the end of one inbox.
LEMMA ToldEnqueue ==
    ASSUME CoordinatorInv, ToldInv, [CoordinatorNext]_<<vars, frontVars>>,
           NEW c \in Caller, EnqueueAssignWork(c)
    PROVE  ToldInv'
<1>0. TypeOK /\ FrontTyped /\ BoundOnce
  BY StaysBound DEF CoordinatorInv, LifeInv, WorkInv
<1>1. UNCHANGED <<asg, call, sent, bound>> /\ NextDecision(c) /\ reader[c].at = "enqueue"
  BY DEF EnqueueAssignWork, vars
<1> DEFINE to == reader[c].to
           b == Head(reader[c].todo)
<1>2. to \in Caller
  BY <1>0, <1>1 DEF FrontTyped, Consistent
<1>3. reader[c].todo # <<>> /\ reader[c].todo \in Seq(DOMAIN asg)
  BY <1>0, <1>1 DEF FrontTyped, Consistent, ReaderRecord, Dispatching
<1>4. b \in DOMAIN asg /\ IsFor(to, b) /\ WaitsAt(b, c, 0)
  BY <1>1, <1>3, HeadTailProperties DEF ToldInv, Teller, WaitsAt
<1>5. NobodyDelivers
  BY <1>0, <1>1, DecidesElsewhere DEF NextDecision
<1>6. reader'[c].at \notin Delivering /\ \A d \in Caller \ {c} : reader'[d] = reader[d]
  BY <1>0, <1>1 DEF NextDecision, Decides, Delivering, FrontTyped
<1>7. inbox' = inbox \/ inbox' = [inbox EXCEPT ![to] = Append(@, b)]
  BY DEF EnqueueAssignWork
<1> HIDE DEF to, b
<1>8. CASE inbox' = inbox
  BY <1>1, <1>5, <1>8, ToldElsewhere DEF Answering
<1>9. CASE inbox' = [inbox EXCEPT ![to] = Append(@, b)]
  <2> DEFINE n == Len(inbox[to]) + 1
  <2>1. inbox \in [Caller -> Seq(DOMAIN asg)] /\ inbox[to] \in Seq(DOMAIN asg)
    BY <1>0, <1>2 DEF FrontTyped
  <2>2. /\ inbox'[to] = Append(inbox[to], b)
        /\ \A d \in Caller \ {to} : inbox'[d] = inbox[d]
    BY <1>2, <1>9, <2>1
  <2>3. /\ Append(inbox[to], b) \in Seq(DOMAIN asg)
        /\ Len(Append(inbox[to], b)) = Len(inbox[to]) + 1
        /\ \A i \in 1..Len(inbox[to]) : Append(inbox[to], b)[i] = inbox[to][i]
        /\ Append(inbox[to], b)[Len(inbox[to]) + 1] = b
    BY <1>4, <2>1, AppendProperties
  <2>4. /\ Len(inbox[to]) \in Nat /\ DOMAIN inbox[to] = 1..Len(inbox[to])
        /\ DOMAIN Append(inbox[to], b) = 1..(Len(inbox[to]) + 1)
    BY <2>1, <2>3, LenProperties
  <2>5. ASSUME NEW i \in DOMAIN inbox'[to]
        PROVE  \/ i \in DOMAIN inbox[to] /\ inbox'[to][i] = inbox[to][i]
               \/ i = n /\ inbox'[to][i] = b
    <3>1. i \in 1..Len(inbox[to]) \/ i = n
      BY <2>2, <2>4
    <3> QED
      BY <2>2, <2>3, <2>4, <3>1
  <2> HIDE DEF n
  <2>6. \A x : \A d \in Caller, i \in Nat :
           WaitsAt(x, d, i)' => \/ WaitsAt(x, d, i) /\ ~(d = c /\ i = 0)
                                \/ x = b /\ d = to /\ i = n
    <3> SUFFICES ASSUME NEW x, NEW d \in Caller, NEW i \in Nat, WaitsAt(x, d, i)'
                 PROVE  \/ WaitsAt(x, d, i) /\ ~(d = c /\ i = 0)
                        \/ x = b /\ d = to /\ i = n
      OBVIOUS
    <3>1. CASE i = 0 /\ reader'[d].at \in {"push", "enqueue"}
               /\ Head(reader'[d].todo) = x
      BY <1>6, <3>1 DEF WaitsAt, Delivering
    <3>2. ASSUME i \in DOMAIN inbox'[d], inbox'[d][i] = x
          PROVE  \/ WaitsAt(x, d, i) /\ ~(d = c /\ i = 0)
                 \/ x = b /\ d = to /\ i = n
      <4>1. i # 0
        <5>1. inbox'[d] \in Seq(DOMAIN asg)
          BY <2>1, <2>2, <2>3
        <5>2. i \in 1..Len(inbox'[d]) /\ Len(inbox'[d]) \in Nat
          BY <3>2, <5>1, LenProperties
        <5> QED
          BY <5>2
      <4>2. CASE d = to
        BY <2>5, <3>2, <4>1, <4>2 DEF WaitsAt
      <4>3. CASE d # to
        BY <2>2, <3>2, <4>1, <4>3 DEF WaitsAt
      <4> QED
        BY <4>2, <4>3
    <3> QED
      BY <3>1, <3>2 DEF WaitsAt
  <2>7. \A x : Answering(x)' <=> Answering(x)
    BY <1>1 DEF Answering
  <2>8. asg[b].state \in Unanswered /\ ~Answering(b)
    BY <1>4 DEF ToldInv, Places
  <2>9. \A d \in Caller, i \in Nat : WaitsAt(b, d, i) => d = c /\ i = 0
    BY <1>4 DEF ToldInv, Places
  <2>10. ASSUME NEW x, NEW d \in Caller, NEW i \in Nat, WaitsAt(x, d, i)'
         PROVE  asg'[x].state \in Unanswered /\ ~Answering(x)'
    <3>1. CASE x = b
      BY <1>1, <2>7, <2>8, <3>1
    <3>2. CASE WaitsAt(x, d, i)
      <4>1. x \in DOMAIN asg
        BY <1>0, <3>2, WaitingStored
      <4> QED
        BY <1>1, <2>7, <3>2, <4>1 DEF ToldInv, Places
    <3> QED
      BY <2>6, <2>10, <3>1, <3>2
  <2>11. ASSUME NEW x, NEW d \in Caller, NEW e \in Caller, NEW i \in Nat, NEW j \in Nat,
                WaitsAt(x, d, i)', WaitsAt(x, e, j)'
         PROVE  d = e /\ i = j
    <3>1. CASE x = b
      BY <2>6, <2>9, <2>11, <3>1
    <3>2. CASE x # b
      <4>1. WaitsAt(x, d, i) /\ WaitsAt(x, e, j)
        BY <2>6, <2>11, <3>2
      <4>2. x \in DOMAIN asg
        BY <1>0, <4>1, WaitingStored
      <4> QED
        BY <4>1, <4>2 DEF ToldInv, Places
    <3> QED
      BY <3>1, <3>2
  <2>12. ASSUME NEW x, Answering(x)'
         PROVE  asg'[x].state # "Assigned"
    <3>1. Answering(x)
      BY <2>7, <2>12
    <3>2. x \in DOMAIN asg
      BY <1>0, <3>1, AnsweredStored
    <3> QED
      BY <1>1, <3>1, <3>2 DEF ToldInv, Places
  <2>13. Places'
    BY <2>10, <2>11, <2>12 DEF Places
  <2>14. InboxesFor'
    <3> SUFFICES ASSUME NEW d \in Caller, NEW i \in DOMAIN inbox'[d]
                 PROVE  IsFor(d, inbox[d][i])'
      BY DEF InboxesFor
    <3>1. CASE d = to
      BY <1>1, <1>4, <2>5, <3>1 DEF ToldInv, InboxesFor, IsFor
    <3>2. CASE d # to
      BY <1>1, <2>2, <3>2 DEF ToldInv, InboxesFor, IsFor
    <3> QED
      BY <3>1, <3>2
  <2>15. ASSUME NEW d \in Caller
         PROVE  Teller(d)'
    <3>1. CASE d = c
      BY <1>6, <3>1 DEF Teller, Delivering
    <3>2. CASE d # c
      BY <1>0, <1>1, <1>6, <3>2, TellerStays DEF ToldInv
    <3> QED
      BY <3>1, <3>2
  <2> QED
    BY <2>13, <2>14, <2>15 DEF ToldInv
<1> QED
  BY <1>7, <1>8, <1>9


\* An agent that reads its inbox answers about the frame it takes, and about no other.
LEMMA ToldReceive ==
    ASSUME CoordinatorInv, ToldInv, [CoordinatorNext]_<<vars, frontVars>>,
           NEW c \in Caller, AgentReceives(c)
    PROVE  ToldInv'
<1>0. TypeOK /\ FrontTyped /\ BoundOnce
  BY StaysBound DEF CoordinatorInv, LifeInv, WorkInv
<1>1. /\ UNCHANGED <<asg, call, reader, bound>>
      /\ inbox[c] # <<>>
      /\ inbox' = [inbox EXCEPT ![c] = Tail(@)]
  BY DEF AgentReceives, vars
<1> DEFINE b == Head(inbox[c])
<1>2. PICK last \in Outcomes :
        sent' = [sent EXCEPT ![c] =
                   @ \o [i \in 1..3 |->
                           [type |-> <<"AssignmentAck", "WorkStarted", last>>[i],
                            b |-> b]]]
  BY DEF AgentReceives
<1>3. inbox \in [Caller -> Seq(DOMAIN asg)] /\ inbox[c] \in Seq(DOMAIN asg)
  BY <1>0 DEF FrontTyped
<1>4. /\ b \in DOMAIN asg /\ b = inbox[c][1]
      /\ Len(Tail(inbox[c])) = Len(inbox[c]) - 1
      /\ Tail(inbox[c]) \in Seq(DOMAIN asg)
      /\ \A i \in 1..Len(Tail(inbox[c])) : Tail(inbox[c])[i] = inbox[c][i + 1]
  BY <1>1, <1>3, HeadTailProperties
<1>5. /\ Len(inbox[c]) \in Nat \ {0} /\ DOMAIN inbox[c] = 1..Len(inbox[c])
      /\ DOMAIN Tail(inbox[c]) = 1..Len(Tail(inbox[c]))
  BY <1>1, <1>3, <1>4, LenProperties, EmptySeq
<1>6. /\ inbox'[c] = Tail(inbox[c])
      /\ \A d \in Caller \ {c} : inbox'[d] = inbox[d]
  BY <1>1, <1>3
<1>7. \A i \in DOMAIN inbox'[c] :
         i \in Nat \ {0} /\ i + 1 \in DOMAIN inbox[c] /\ inbox'[c][i] = inbox[c][i + 1]
  BY <1>4, <1>5, <1>6
<1>8. WaitsAt(b, c, 1)
  BY <1>4, <1>5 DEF WaitsAt
<1>9. \A x : Answering(x)' => Answering(x) \/ x = b
  <2> SUFFICES ASSUME NEW x, Answering(x)', x # b
               PROVE  Answering(x)
    OBVIOUS
  <2>1. PICK d \in Caller : \E i \in DOMAIN sent'[d] : sent'[d][i].b = x
    BY DEF Answering
  <2>2. PICK i \in DOMAIN sent'[d] : sent'[d][i].b = x
    BY <2>1
  <2>3. sent \in [Caller -> Seq(FrameRecord)]
    BY <1>0 DEF FrontTyped
  <2>4. CASE d # c
    BY <1>2, <2>2, <2>3, <2>4 DEF Answering
  <2>5. CASE d = c
    <3> DEFINE f == [k \in 1..3 |->
                       [type |-> <<"AssignmentAck", "WorkStarted", last>>[k], b |-> b]]
               F == {f[k] : k \in 1..3}
    <3>1. sent'[c] = sent[c] \o f
      BY <1>2, <2>3
    <3>2. \A k \in 1..3 : f[k].b = b
      OBVIOUS
    <3> HIDE DEF f
    <3> DEFINE S == FrameRecord \cup F
    <3>3. f \in [1..3 -> F]
      BY DEF f
    <3>4. f \in Seq(F)
      <4>1. f \in UNION {[1..n -> F] : n \in Nat}
        BY <3>3
      <4> QED
        BY <4>1, SeqDef, Zenon
    <3>5. f \in Seq(S) /\ sent[c] \in Seq(S) /\ Len(f) = 3
      <4>1. F \subseteq S /\ FrameRecord \subseteq S
        OBVIOUS
      <4>2. sent[c] \in Seq(FrameRecord)
        BY <2>3
      <4>3. f \in Seq(S) /\ sent[c] \in Seq(S)
        BY <3>4, <4>1, <4>2, SeqMonotonic
      <4>4. DOMAIN f = 1..3
        BY DEF f
      <4>5. Len(f) \in Nat /\ DOMAIN f = 1..Len(f)
        BY <3>4, LenProperties
      <4> QED
        BY <4>3, <4>4, <4>5
    <3> HIDE DEF S, F
    <3>6. /\ sent[c] \o f \in Seq(S)
          /\ Len(sent[c] \o f) = Len(sent[c]) + 3
          /\ \A k \in 1..(Len(sent[c]) + 3) :
               (sent[c] \o f)[k] = IF k <= Len(sent[c]) THEN sent[c][k]
                                   ELSE f[k - Len(sent[c])]
      <4>1. /\ sent[c] \o f \in Seq(S)
            /\ Len(sent[c] \o f) = Len(sent[c]) + Len(f)
            /\ \A k \in 1..(Len(sent[c]) + Len(f)) :
                 (sent[c] \o f)[k] = IF k <= Len(sent[c]) THEN sent[c][k]
                                     ELSE f[k - Len(sent[c])]
        BY <3>5, ConcatProperties, Zenon
      <4> QED
        BY <3>5, <4>1
    <3>7. /\ DOMAIN (sent[c] \o f) = 1..(Len(sent[c]) + 3)
          /\ Len(sent[c]) \in Nat /\ DOMAIN sent[c] = 1..Len(sent[c])
      BY <3>5, <3>6, LenProperties
    <3>8. CASE i <= Len(sent[c])
      BY <2>2, <2>5, <3>1, <3>6, <3>7, <3>8 DEF Answering
    <3>9. CASE ~(i <= Len(sent[c]))
      <4>1. sent'[c][i] = f[i - Len(sent[c])] /\ i - Len(sent[c]) \in 1..3
        BY <2>2, <2>5, <3>1, <3>6, <3>7, <3>9
      <4> QED
        BY <2>2, <2>5, <3>2, <4>1
    <3> QED
      BY <3>8, <3>9
  <2> QED
    BY <2>4, <2>5
<1> HIDE DEF b
<1>10. asg[b].state \in Unanswered
  BY <1>4, <1>8 DEF ToldInv, Places
<1>11. ASSUME NEW x, NEW d \in Caller, NEW i \in Nat, WaitsAt(x, d, i)'
       PROVE  /\ d = c /\ i # 0 => WaitsAt(x, d, i + 1)
              /\ d # c \/ i = 0 => WaitsAt(x, d, i)
  <2>1. CASE i = 0 /\ reader'[d].at \in {"push", "enqueue"} /\ Head(reader'[d].todo) = x
    BY <1>1, <2>1 DEF WaitsAt
  <2>2. ASSUME i \in DOMAIN inbox'[d], inbox'[d][i] = x
        PROVE  /\ d = c /\ i # 0 => WaitsAt(x, d, i + 1)
               /\ d # c \/ i = 0 => WaitsAt(x, d, i)
    <3>1. CASE d = c
      BY <1>7, <2>2, <3>1 DEF WaitsAt
    <3>2. CASE d # c
      BY <1>6, <2>2, <3>2 DEF WaitsAt
    <3> QED
      BY <3>1, <3>2
  <2> QED
    BY <1>11, <2>1, <2>2 DEF WaitsAt
<1>12. ASSUME NEW x, NEW d \in Caller, NEW i \in Nat, WaitsAt(x, d, i)'
       PROVE  x \in DOMAIN asg /\ x # b /\ \E j \in Nat : WaitsAt(x, d, j)
  <2> DEFINE j == IF d = c /\ i # 0 THEN i + 1 ELSE i
  <2>1. j \in Nat /\ WaitsAt(x, d, j) /\ ~(d = c /\ j = 1)
    BY <1>11, <1>12
  <2> HIDE DEF j
  <2>2. x \in DOMAIN asg
    BY <1>0, <2>1, WaitingStored
  <2>3. x # b
    BY <1>8, <2>1, <2>2 DEF ToldInv, Places
  <2> QED
    BY <2>1, <2>2, <2>3
<1>13. ASSUME NEW x, NEW d \in Caller, NEW i \in Nat, WaitsAt(x, d, i)'
       PROVE  asg'[x].state \in Unanswered /\ ~Answering(x)'
  <2>1. /\ x \in DOMAIN asg /\ x # b
        /\ \E j \in Nat : WaitsAt(x, d, j)
    BY <1>12, <1>13
  <2>2. asg[x].state \in Unanswered /\ ~Answering(x)
    BY <2>1 DEF ToldInv, Places
  <2> QED
    BY <1>1, <1>9, <2>1, <2>2
<1>14. ASSUME NEW x, NEW d \in Caller, NEW e \in Caller, NEW i \in Nat, NEW j \in Nat,
              WaitsAt(x, d, i)', WaitsAt(x, e, j)'
       PROVE  d = e /\ i = j
  <2> DEFINE k == IF d = c /\ i # 0 THEN i + 1 ELSE i
             l == IF e = c /\ j # 0 THEN j + 1 ELSE j
  <2>1. k \in Nat /\ WaitsAt(x, d, k)
    BY <1>11, <1>14
  <2>2. l \in Nat /\ WaitsAt(x, e, l)
    BY <1>11, <1>14
  <2>3. x \in DOMAIN asg
    BY <1>12, <1>14
  <2>4. d = e /\ k = l
    <3> HIDE DEF k, l
    <3> QED
      BY <2>1, <2>2, <2>3 DEF ToldInv, Places
  <2>5. i = j
    BY <2>4
  <2> QED
    BY <2>4, <2>5
<1>15. ASSUME NEW x, Answering(x)'
       PROVE  asg'[x].state # "Assigned"
  <2>1. CASE x = b
    <3>1. "Assigned" \notin Unanswered
      BY DEF Unanswered, TerminalStates
    <3> QED
      BY <1>1, <1>10, <2>1, <3>1
  <2>2. CASE Answering(x)
    <3>1. x \in DOMAIN asg
      BY <1>0, <2>2, AnsweredStored
    <3> QED
      BY <1>1, <2>2, <3>1 DEF ToldInv, Places
  <2> QED
    BY <1>9, <1>15, <2>1, <2>2
<1>16. Places'
  BY <1>13, <1>14, <1>15 DEF Places
<1>17. InboxesFor'
  <2> SUFFICES ASSUME NEW d \in Caller, NEW i \in DOMAIN inbox'[d]
               PROVE  IsFor(d, inbox[d][i])'
    BY DEF InboxesFor
  <2>1. CASE d = c
    BY <1>1, <1>7, <2>1 DEF ToldInv, InboxesFor, IsFor
  <2>2. CASE d # c
    BY <1>1, <1>6, <2>2 DEF ToldInv, InboxesFor, IsFor
  <2> QED
    BY <2>1, <2>2
<1>18. \A d \in Caller : Teller(d)'
  BY <1>0, <1>1, TellerStays DEF ToldInv
<1> QED
  BY <1>16, <1>17, <1>18 DEF ToldInv

\* Every step keeps what agents are told.
LEMMA ToldInvStep ==
    ASSUME CoordinatorInv, MapInv, ToldInv, [CoordinatorNext]_<<vars, frontVars>>
    PROVE  ToldInv'
<1>0. TypeOK /\ FrontTyped
  BY DEF CoordinatorInv, LifeInv, WorkInv
<1>1. ASSUME NobodyDelivers, UNCHANGED <<inbox, sent>>
      PROVE  ToldInv'
  BY <1>1, ToldElsewhere DEF Answering
<1>2. CASE UNCHANGED <<vars, frontVars>> \/ ServerNext
  BY <1>0, <1>1, <1>2, OthersElsewhere
<1>3. ASSUME NEW c \in Caller,
             \/ accept_one(c) \/ emplace(c) \/ Breaks(c)
             \/ on_closed(c) \/ ReportLoss(c) \/ MapAgent(c) \/ RevalidateAll(c)
             \/ BatchBegins(c) \/ BatchPlans(c) \/ BatchCommits(c)
             \/ BatchContinues(c) \/ DispatchEnds(c)
             \/ AgentFrame(c) \/ ControlFrame(c)
             \/ \E a \in Agent, m \in Concurrency :
                   \E boot \in BootOf[a] : RegisterAgent(c, a, boot, m)
             \/ \E a \in Agent, force \in BOOLEAN : Deregister(c, a, force)
             \/ \E b \in DOMAIN asg : DispatchAssignment(c, b)
      PROVE  ToldInv'
  BY <1>0, <1>1, <1>3, OthersElsewhere
<1>4. ASSUME NEW c \in Caller,
             \/ AssignmentFrame(c) \/ DispatchDecision(c) \/ HandoffDecision(c)
             \/ push_assignment(c) \/ EnqueueAssignWork(c) \/ AgentReceives(c)
      PROVE  ToldInv'
  BY <1>4, ToldFrame, ToldDispatch, ToldHandoff, ToldPush, ToldEnqueue, ToldReceive
<1> QED
  BY <1>2, <1>3, <1>4 DEF CoordinatorNext, ReaderStep, PeerStep

\* Nobody is told anything at first.
LEMMA ToldInit == CoordinatorInit => ToldInv
<1> SUFFICES ASSUME CoordinatorInit
             PROVE  ToldInv
  OBVIOUS
<1>1. /\ \A c \in Caller : reader[c].at = "none" /\ inbox[c] = <<>> /\ sent[c] = <<>>
  BY DEF CoordinatorInit
<1>2. \A c \in Caller : DOMAIN inbox[c] = {} /\ DOMAIN sent[c] = {}
  BY <1>1
<1> QED
  BY <1>1, <1>2 DEF ToldInv, Places, InboxesFor, Teller, WaitsAt, Answering

\* An agent is told of an assignment only on its own session and after the authority
\* was handed off, and it answers each one once: while it has not, the assignment is
\* not yet acknowledged.
THEOREM ToldOnceAndAuthorised == CoordinatorSpec => []ToldOnceAuthorised
<1>1. CoordinatorInit => MapInv
  BY DEF CoordinatorInit, MapInv, Mapped, Resting
<1>2. CoordinatorInv /\ MapInv /\ ToldInv => ToldOnceAuthorised
  <2> SUFFICES ASSUME CoordinatorInv, ToldInv,
                      NEW c \in Caller, NEW i \in DOMAIN inbox[c]
               PROVE  /\ IsFor(c, inbox[c][i])
                      /\ asg[inbox[c][i]].state \in Unanswered
                      /\ \A j \in DOMAIN inbox[c] : inbox[c][j] = inbox[c][i] => i = j
    BY DEF ToldOnceAuthorised, IsFor, Unanswered
  <2>1. FrontTyped /\ inbox[c] \in Seq(DOMAIN asg)
    BY DEF CoordinatorInv, FrontTyped
  <2>2. DOMAIN inbox[c] \subseteq Nat
    BY <2>1, LenProperties
  <2>3. \A j \in DOMAIN inbox[c] : WaitsAt(inbox[c][j], c, j)
    BY DEF WaitsAt
  <2>4. inbox[c][i] \in DOMAIN asg
    BY <2>1, <2>2, <2>3, WaitingStored
  <2> QED
    BY <2>2, <2>3, <2>4 DEF ToldInv, Places, InboxesFor
<1>3. CoordinatorInv /\ MapInv /\ [CoordinatorNext]_<<vars, frontVars>> => MapInv'
  BY MapInvStep DEF CoordinatorInv
<1>4. CoordinatorInv /\ MapInv /\ ToldInv /\ [CoordinatorNext]_<<vars, frontVars>>
        => ToldInv'
  BY ToldInvStep
<1> QED
  BY <1>1, <1>2, <1>3, <1>4, ToldInit, CoordinatorInvStep, PTL DEF CoordinatorSpec

=============================================================================
