----------------------------- MODULE Scheduler ------------------------------
(***************************************************************************)
(* One AgentScheduler: its start, shutdown and policy handlers composed    *)
(* with the agent, work and assignment handlers over the same state, and   *)
(* the properties that make it an authority.                               *)
(***************************************************************************)
EXTENDS Agents, WorkItems, Assignments

UnregisteredAgent ==
    [gen |-> 0, boot |-> NoBoot, maxc |-> 0, lifecycle |-> "Unregistered",
     capability |-> NoEvidence(0), health |-> NoEvidence("Unknown"),
     avail |-> NoEvidence("Unknown"), lease |-> 0, active |-> 0,
     recovered |-> FALSE]

UnknownWork == [gen |-> 0, req |-> NoRequest, lifecycle |-> "Unknown",
                current |-> 0, lastGen |-> 0]

\* A constructed scheduler before start(); the clock never reads 0.
Init ==
    /\ sched \in [epoch : {1}, coord : {0}, policy : {1}, running : {FALSE},
                  admission : {FALSE}, shutting : {FALSE}, closes : ClosePolicies]
    /\ now = 1
    /\ agents = [a \in Agent |-> UnregisteredAgent]
    /\ fenced = {}
    /\ work = [w \in Work |-> UnknownWork]
    /\ asg = [b \in {} |-> Idle]
    /\ call = [c \in Caller |-> Idle]

start ==
    /\ ~sched.running
    /\ sched.coord < MaxStarts
    /\ sched' = [sched EXCEPT !.coord = @ + 1, !.running = TRUE,
                              !.admission = TRUE, !.shutting = FALSE]
    /\ UNCHANGED <<now, agents, fenced, work, asg, call>>

\* Undispatched assignments are closed if the policy says so; dispatched ones
\* stay with their agents.
shutdown ==
    LET undispatched == IF sched.closes
                        THEN {b \in DOMAIN asg : asg[b].state = "Assigned"}
                        ELSE {}
    IN  /\ ~sched.shutting
        /\ sched' = [sched EXCEPT !.shutting = TRUE, !.admission = FALSE,
                                  !.running = FALSE]
        /\ CloseAssignments(undispatched, "Invalidated")
        /\ UNCHANGED <<now, fenced, call>>

\* A newer policy invalidates every assignment bound to another generation.
\* Of the policy's content only the shutdown rule is varied.
set_policy(g, closes) ==
    LET bound == {b \in ActiveIn(asg) : b.policy # g}
    IN  /\ g > sched.policy
        /\ sched' = [sched EXCEPT !.policy = g, !.closes = closes]
        /\ CloseAssignments(bound, "Invalidated")
        /\ UNCHANGED <<now, fenced, call>>

Tick ==
    /\ now < MaxTime
    /\ now' = now + 1
    /\ UNCHANGED <<sched, agents, fenced, work, asg, call>>

Next ==
    \/ start
    \/ shutdown
    \/ \E g \in 1..MaxPolicyGen, closes \in ClosePolicies : set_policy(g, closes)
    \/ Tick
    \/ AgentNext
    \/ WorkNext
    \/ AssignmentNext

Spec == Init /\ [][Next]_vars

-----------------------------------------------------------------------------
(* Invariants.                                                             *)

\* A finite map from bindings to assignment records.
AssignmentMap(as) ==
    /\ DOMAIN as \subseteq Binding
    /\ IsFiniteSet(DOMAIN as)
    /\ as \in [DOMAIN as -> AssignmentRecord]

\* Every variable of the scheduler stays within its declared type, and a
\* registered agent runs as a boot that some call about it named.
TypeOK ==
    /\ sched \in SchedulerRecord
    /\ now \in Nat
    /\ agents \in [Agent -> AgentRecord]
    /\ fenced \subseteq Boot
    /\ work \in [Work -> WorkRecord]
    /\ AssignmentMap(asg)
    /\ call \in [Caller -> Calls]
    /\ \A a \in Agent : Known(a) => agents[a].boot \in BootOf[a]

\* Exclusive work never has two active assignments, however many schedule()
\* calls planned for it concurrently (exclusive_assignment_uniqueness).
ExclusiveAssignmentUnique ==
    \A x, y \in ActiveIn(asg) : x.exclusive /\ x.work = y.work => x = y

\* An assignment that is active belongs to the incarnation its agent runs
\* now, and that incarnation is neither fenced nor lost nor retired
\* (fenced_boot_has_no_authority, no_work_for_retired_agent).
ActiveIncarnationCurrent ==
    \A b \in ActiveIn(asg) :
        /\ agents[b.agent].boot = b.boot
        /\ agents[b.agent].gen = b.agentGen
        /\ b.boot \notin fenced
        /\ agents[b.agent].lifecycle \notin {"Unregistered", "Lost", "Retired"}

\* An assignment that is active was made for the generation of the work that
\* is current, neither cancelled nor expired: no supersession, cancellation or
\* deadline that overtakes schedule() or dispatch() leaves one behind.
ActiveWorkCurrent ==
    \A b \in ActiveIn(asg) :
        /\ work[b.work].gen = b.workGen
        /\ work[b.work].lifecycle \notin {"Unknown", "Cancelled", "Expired"}
        /\ b.exclusive <=> work[b.work].req.mode = "Exclusive"

\* Whatever dispatch() could hand out is bound to the current policy and
\* capability generation; if the policy closes undispatched assignments at
\* shutdown, it is bound to the current epochs too and there is nothing of the
\* kind once the scheduler is shut down (no_stale_authority_dispatchable,
\* shutdown_blocks_new_assignment).
DispatchableAuthorityCurrent ==
    \A b \in ActiveIn(asg) :
        asg[b].state = "Assigned" =>
            /\ b.policy = sched.policy
            /\ b.capGen = agents[b.agent].capability.value
            /\ sched.closes => BoundEpochsCurrent(b) /\ ~sched.shutting

\* An incarnation that was fenced never again counts as accepting work.
FencedNeverAccepts ==
    \A a \in Agent : agents[a].boot \in fenced =>
        agents[a].lifecycle \notin AcceptsNewWork

\* The stored counters and the derived lifecycles agree with the assignments
\* (queue_accounting_agrees, agent_accounting_agrees, work_lifecycle_agrees).
AccountingAgrees ==
    /\ \A a \in Agent :
          /\ agents[a].active = Cardinality(OnAgent(asg, a))
          /\ agents[a].lifecycle = "Busy" => OnAgent(asg, a) # {}
          /\ agents[a].lifecycle = "Ready" => OnAgent(asg, a) = {}
    /\ \A w \in Work :
          /\ work[w].current = Cardinality(OnWork(asg, w))
          /\ work[w].lifecycle = "Admitted" => OnWork(asg, w) = {}
          /\ work[w].lifecycle \in {"Assigned", "Executing"} => OnWork(asg, w) # {}

\* Parallel fan-out stays within what the request declares, in total and on
\* any one agent (parallel_fanout_bounded).
FanoutBounded ==
    \A w \in Work :
        /\ Cardinality(OnWork(asg, w)) <= work[w].req.maxParallel
        /\ \A a \in Agent :
              Cardinality(OnWork(asg, w) \cap OnAgent(asg, a)) <= work[w].req.perAgent

\* No agent holds more assignments than it declares (capacity_not_exceeded).
CapacityNotExceeded ==
    \A a \in Agent : agents[a].active <= agents[a].maxc

\* Work counts as Completed only if an assignment made for its current
\* generation was completed.
CompletionEarned ==
    \A w \in Work : work[w].lifecycle = "Completed" =>
        \E b \in DOMAIN asg : /\ b.work = w
                              /\ b.workGen = work[w].gen
                              /\ asg[b].state = "Completed"

\* No active assignment refers to work that is already terminal
\* ("active assignment references terminal work").
NoActiveOnTerminalWork ==
    \A b \in ActiveIn(asg) : work[b.work].lifecycle \notin TerminalWork

-----------------------------------------------------------------------------
(* Action properties.                                                      *)

\* A terminal assignment is never revived, changed or forgotten, not even by
\* a late commit of a plan that has the same identity.
TerminalIsFinal ==
    [][\A b \in DOMAIN asg :
          /\ b \in DOMAIN asg'
          /\ asg[b].state \in TerminalStates => asg'[b] = asg[b]]_vars

\* Dispatch authority, once lost to a capability change, never comes back:
\* although revalidation has a branch for it, no pending assignment is ever
\* promoted to Assigned, and a reload only ever forgets one.
NeverPromoted ==
    [][\A b \in DOMAIN asg :
          asg[b].state = "RevalidationRequired" /\ b \in DOMAIN asg' =>
              asg'[b].state # "Assigned"]_vars

\* An assignment is handed to its agent only while everything it was bound to
\* is current: epochs, policy, work generation, incarnation and capability
\* generation, with the agent neither draining nor gone, and not after a shutdown
\* that closes dispatch authority.
HandoffOnlyUnderAuthority ==
    [][\A b \in DOMAIN asg :
          asg[b].state # "Dispatched" /\ asg'[b].state = "Dispatched" =>
              /\ BoundEpochsCurrent(b)
              /\ work[b.work].gen = b.workGen
              /\ work[b.work].lifecycle \notin TerminalWork
              /\ agents[b.agent].boot = b.boot
              /\ agents[b.agent].boot \notin fenced
              /\ agents[b.agent].capability.value = b.capGen
              /\ agents[b.agent].lifecycle \notin {"Draining", "Lost", "Retired"}
              /\ sched.closes => sched.running]_vars

\* Fences are permanent, and fencing an incarnation takes no authority from
\* another agent ("never applies globally to other agents"): a boot is fenced
\* only by a step about an agent that owns it.
FencedForOwnerOnly ==
    [][/\ fenced \subseteq fenced'
       /\ \A a \in Agent :
             /\ agents[a].lifecycle \in AcceptsNewWork
             /\ agents[a].boot \in fenced' \ fenced
             => agents'[a].lifecycle \in {"Lost", "Retired", "Registering"}]_vars

-----------------------------------------------------------------------------
(* What all of this amounts to for assignments: module AssignmentLife.     *)

\* The stage of an assignment in a state of the code.
Stage(st) ==
    CASE st = "Assigned" -> "offered"
      [] st = "Dispatched" -> "handed"
      [] st = "Acknowledged" -> "accepted"
      [] st = "Executing" -> "working"
      [] st = "RevalidationRequired" -> "suspended"
      [] OTHER -> "ended"

Life == INSTANCE AssignmentLife
            WITH stage <- [b \in DOMAIN asg |-> Stage(asg[b].state)]

\* Whatever callers, agents, operators and time do in between two critical
\* sections, each assignment lives the life of a claim: offered once, handed over
\* at most once, never back from doubt or from its end, and never beside an
\* exclusive claim on the same work.
ImplementsLife == Life!LifeSpec

=============================================================================
