---------------------------- MODULE Assignments -----------------------------
(***************************************************************************)
(* Assignment authority: planning and committing an assignment, handing it *)
(* to its agent, what the agent reports back, revalidation and lease       *)
(* expiry.                                                                 *)
(*                                                                         *)
(* schedule() plans under the lock, releases it, and commits under it      *)
(* again; dispatch() checks, releases and hands off.  Anything may happen  *)
(* in between, which is what `call` is for.                                *)
(***************************************************************************)
EXTENDS AuthorityState

FanoutOpen(w) ==
    /\ work[w].req.mode = "Parallel"
    /\ work[w].current < work[w].req.maxParallel

\* Deliberately wrong variant of SlotOpen: the deadline is not tested.
SlotEvenIfLate(w, exclusive) ==
    /\ work[w].lifecycle = "Admitted" \/ work[w].current = 0 \/ FanoutOpen(w)
    /\ IF exclusive
       THEN ~\E b \in OnWork(asg, w) : b.exclusive
       ELSE work[w].current < work[w].req.maxParallel

\* The slot tests that planning and committing share.
SlotOpen(w, exclusive) ==
    /\ work[w].lifecycle = "Admitted" \/ work[w].current = 0 \/ FanoutOpen(w)
    /\ ~DeadlinePassed(w)
    /\ IF exclusive
       THEN ~\E b \in OnWork(asg, w) : b.exclusive
       ELSE work[w].current < work[w].req.maxParallel

\* Deliberately wrong variant of HasRoom: the work's limit per agent is forgotten.
RoomOnAgent(w, a) == agents[a].active < agents[a].maxc

\* The room agent a has for one more assignment, for one more of work w.
HasRoom(w, a) ==
    /\ agents[a].active < agents[a].maxc
    /\ Cardinality(OnWork(asg, w) \cap OnAgent(asg, a)) < work[w].req.perAgent

\* Fits stands for the rules that compare the request with the descriptor or
\* the profile: tenant, namespace, labels, placement, affinity, capabilities.
\* require_ready adds nothing to the lifecycle test.  Warm-state keys, which
\* only narrow the candidates, are left out.
evaluate_eligibility(w, a) ==
    LET r == agents[a]
        require == work[w].req.require
    IN  /\ r.boot \notin fenced
        /\ r.lifecycle \in AcceptsNewWork
        /\ <<w, a>> \in Fits
        /\ EvidenceSatisfies(r, require)
        /\ work[w].current < work[w].req.maxParallel
        /\ HasRoom(w, a)
        /\ "capability" \in require => Fresh(r.capability, "capability")

build_binding(w, a) ==
    LET r == work[w]
        parallel == r.req.mode = "Parallel"
    IN  [gen |-> r.lastGen + 1, work |-> w, workGen |-> r.gen, agent |-> a,
         agentGen |-> agents[a].gen, boot |-> agents[a].boot,
         epoch |-> sched.epoch, coord |-> sched.coord, policy |-> sched.policy,
         capGen |-> agents[a].capability.value,
         replica |-> IF parallel THEN r.current ELSE 0, exclusive |-> ~parallel]

\* The tests of plan_locked before it looks at agents.
PlanAllowed(w) ==
    /\ KnownWork(w)
    /\ work[w].lifecycle \notin TerminalWork
    /\ work[w].lastGen < MaxAsgGen
    /\ sched.running /\ sched.admission
    /\ work[w].req.start # 0 => now >= work[w].req.start
    /\ SlotOpen(w, work[w].req.mode = "Exclusive")

\* First critical section of schedule().  Ranking picks one of the eligible
\* agents; which one is left open.
plan_locked(c, w) ==
    /\ call[c] = Idle
    /\ PlanAllowed(w)
    /\ \E a \in Agent :
          /\ evaluate_eligibility(w, a)
          /\ call' = [call EXCEPT ![c] = [op |-> "schedule",
                                          b |-> build_binding(w, a),
                                          expires |-> now + AssignmentTtl]]
    /\ UNCHANGED <<sched, now, agents, fenced, work, asg>>

\* What commit_locked checks again, in its order; the provider's answer is left
\* out.  Of the terminal lifecycles it looks for Cancelled only (an expired
\* work item fails the deadline test).
BoundWorkCurrent(b) ==
    /\ work[b.work].gen = b.workGen
    /\ work[b.work].lifecycle # "Cancelled"

\* Deliberately wrong: the identity of the agent is taken for its incarnation.
BoundAgentKnown(b) == Known(b.agent)

BoundIncarnationCurrent(b) ==
    /\ agents[b.agent].gen = b.agentGen
    /\ agents[b.agent].boot = b.boot
    /\ b.boot \notin fenced

\* Deliberately wrong variant of BoundAgentReady: the commit trusts the room that
\* the plan saw.
BoundAgentAccepts(b) ==
    /\ agents[b.agent].lifecycle \in AcceptsNewWork
    /\ agents[b.agent].capability.value = b.capGen
    /\ Fresh(agents[b.agent].capability, "capability")

BoundAgentReady(b) ==
    /\ agents[b.agent].lifecycle \in AcceptsNewWork
    /\ agents[b.agent].capability.value = b.capGen
    /\ Fresh(agents[b.agent].capability, "capability")
    /\ HasRoom(b.work, b.agent)

\* Deliberately wrong variants of CommitAllowed, for the mutation runs: the
\* commit trusts the slot, or the epochs, that the plan saw.
CommitWithoutSlot(b) ==
    /\ sched.running /\ sched.admission
    /\ BoundEpochsCurrent(b)
    /\ BoundWorkCurrent(b)
    /\ BoundIncarnationCurrent(b)
    /\ BoundAgentReady(b)

CommitWithoutEpochs(b) ==
    /\ sched.running /\ sched.admission
    /\ BoundWorkCurrent(b)
    /\ SlotOpen(b.work, b.exclusive)
    /\ BoundIncarnationCurrent(b)
    /\ BoundAgentReady(b)

CommitAllowed(b) ==
    /\ sched.running /\ sched.admission
    /\ BoundEpochsCurrent(b)
    /\ BoundWorkCurrent(b)
    /\ SlotOpen(b.work, b.exclusive)
    /\ BoundIncarnationCurrent(b)
    /\ BoundAgentReady(b)

\* Deliberately wrong variant of Emplaced: insert_or_assign for emplace.
Overwritten(b, expires) ==
    [x \in DOMAIN asg \cup {b} |->
        IF x = b
        THEN [state |-> "Assigned", leaseCurrent |-> TRUE, expires |-> expires]
        ELSE asg[x]]

\* assignments.emplace: an assignment already stored under the same identity
\* is kept as it is.
Emplaced(b, expires) ==
    [x \in DOMAIN asg \cup {b} |->
        IF x \in DOMAIN asg THEN asg[x]
        ELSE [state |-> "Assigned", leaseCurrent |-> TRUE, expires |-> expires]]

\* Second critical section of schedule(), the commit succeeds.
commit_locked(c) ==
    LET b == call[c].b
        as == Emplaced(b, call[c].expires)
    IN  /\ call[c].op = "schedule"
        /\ CommitAllowed(b)
        /\ asg' = as
        /\ work' = [work EXCEPT ![b.work] =
                      RefreshedWork(as, [@ EXCEPT !.lastGen = b.gen], b.work)]
        /\ agents' = [agents EXCEPT ![b.agent] =
                        RefreshedAgent(as, @, b.agent)]
        /\ call' = [call EXCEPT ![c] = Idle]
        /\ UNCHANGED <<sched, now, fenced>>

CommitRejected(c) ==
    /\ call[c].op = "schedule"
    /\ ~CommitAllowed(call[c].b) \/ FALSE \in FeasibilityAnswers(call[c].b.work)
    /\ call' = [call EXCEPT ![c] = Idle]
    /\ UNCHANGED <<sched, now, agents, fenced, work, asg>>

LeaseValid(b) == asg[b].leaseCurrent /\ asg[b].expires >= now

DispatchAllowed(b) ==
    /\ sched.running /\ ~sched.shutting
    /\ b.boot \notin fenced
    /\ asg[b].state = "Assigned"
    /\ LeaseValid(b)
    /\ revalidate_authority(b)

\* First critical section of dispatch().
dispatch(c, b) ==
    /\ call[c] = Idle
    /\ DispatchAllowed(b)
    /\ call' = [call EXCEPT ![c] = [op |-> "dispatch", b |-> b]]
    /\ UNCHANGED <<sched, now, agents, fenced, work, asg>>

\* Deliberately wrong variant of HandoffAllowed: nothing is revalidated.
HandoffUnchecked(b) == b \in DOMAIN asg /\ asg[b].state = "Assigned"

\* Only a reload in between can make the assignment disappear.
HandoffAllowed(b) ==
    /\ b \in DOMAIN asg
    /\ asg[b].state = "Assigned"
    /\ revalidate_authority(b)

\* Second critical section of dispatch(): the authority is revalidated, the
\* lease is renewed.  Neither the running flag nor the lease is tested again.
Handoff(c) ==
    LET b == call[c].b
    IN  /\ call[c].op = "dispatch"
        /\ HandoffAllowed(b)
        /\ asg' = [asg EXCEPT ![b] = [state |-> "Dispatched", leaseCurrent |-> TRUE,
                                      expires |-> now + AssignmentTtl]]
        /\ call' = [call EXCEPT ![c] = Idle]
        /\ UNCHANGED <<sched, now, agents, fenced, work>>

HandoffRejected(c) ==
    /\ call[c].op = "dispatch"
    /\ ~HandoffAllowed(call[c].b) \/ FALSE \in FeasibilityAnswers(call[c].b.work)
    /\ call' = [call EXCEPT ![c] = Idle]
    /\ UNCHANGED <<sched, now, agents, fenced, work, asg>>

-----------------------------------------------------------------------------
(* What an agent (or an operator, with the zero boot) reports.             *)

\* The report's generation and boot match b's; any other report is rejected.
lookup_assignment(b) ==
    /\ b.boot \notin fenced
    /\ agents[b.agent].boot = b.boot

acknowledge(b) ==
    /\ lookup_assignment(b)
    /\ asg[b].state = "Dispatched"
    /\ IF LeaseValid(b)
       THEN /\ asg' = [asg EXCEPT ![b].state = "Acknowledged"]
            /\ UNCHANGED <<agents, work>>
       ELSE CloseAssignments({b}, "Expired")
    /\ UNCHANGED <<sched, now, fenced, call>>

mark_executing(b) ==
    LET as == [asg EXCEPT ![b].state = "Executing"]
    IN  /\ lookup_assignment(b)
        /\ asg[b].state \in {"Dispatched", "Acknowledged", "Executing"}
        /\ IF LeaseValid(b)
           THEN /\ asg' = as
                /\ work' = WorkAfter(as, {b})
                /\ UNCHANGED agents
           ELSE CloseAssignments({b}, "Expired")
        /\ UNCHANGED <<sched, now, fenced, call>>

\* release and reject_assignment: the work goes back to Admitted.
Return(b, st) ==
    /\ lookup_assignment(b)
    /\ asg[b].state \in ActiveStates
    /\ CloseAssignments({b}, st)
    /\ UNCHANGED <<sched, now, fenced, call>>

\* complete_assignment and fail_assignment: the last active assignment to end
\* decides the lifecycle of the work, whatever that was before.
Finish(b, st) ==
    LET as == Closed({b}, st)
        after == WorkAfter(as, {b})
    IN  /\ lookup_assignment(b)
        /\ asg[b].state \in ActiveStates
        /\ asg' = as
        /\ agents' = AgentsAfter(as, {b})
        /\ work' = IF after[b.work].current = 0
                   THEN [after EXCEPT ![b.work].lifecycle = st]
                   ELSE after
        /\ UNCHANGED <<sched, now, fenced, call>>

Report(b) ==
    \/ acknowledge(b)
    \/ mark_executing(b)
    \/ \E st \in {"Released", "Invalidated"} : Return(b, st)
    \/ \E st \in {"Completed", "Failed"} : Finish(b, st)

-----------------------------------------------------------------------------
(* Revalidation and lease expiry.                                          *)

Pending == {b \in DOMAIN asg : asg[b].state = "RevalidationRequired"}

\* The assignment map once the pending assignments `promoted` are Assigned
\* again and the others of `examined` are invalidated.
Revalidated(examined, promoted) ==
    [b \in DOMAIN asg |->
        IF b \in promoted
        THEN [state |-> "Assigned", leaseCurrent |-> TRUE,
              expires |-> now + AssignmentTtl]
        ELSE IF b \in examined
        THEN [asg[b] EXCEPT !.state = "Invalidated", !.leaseCurrent = FALSE]
        ELSE asg[b]]

Revalidate(examined, promoted) ==
    LET as == Revalidated(examined, promoted)
    IN  /\ asg' = as
        /\ agents' = AgentsAfter(as, examined)
        /\ work' = WorkAfter(as, examined)
        /\ UNCHANGED <<sched, now, fenced, call>>

\* revalidate_assignments walks the assignments in the order of their hashed
\* identities (any order); each one it closes makes room for the later ones,
\* and a pending assignment counts against its own agent's capacity.
revalidate_assignments ==
    /\ Pending # {}
    /\ \E rank \in [Pending -> 1..Cardinality(Pending)],
          feasible \in SUBSET Pending, promoted \in SUBSET Pending :
          /\ \A x, y \in Pending : x # y => rank[x] # rank[y]
          /\ \A b \in Pending :
                /\ b \notin feasible => FALSE \in FeasibilityAnswers(b.work)
                /\ b \in promoted <=>
                     /\ b \in feasible
                     /\ revalidate_authority(b)
                     /\ agents[b.agent].lifecycle \in AcceptsNewWork
                     /\ agents[b.agent].active
                          - Cardinality({x \in Pending \ promoted :
                                           /\ x.agent = b.agent
                                           /\ rank[x] < rank[b]})
                        < agents[b.agent].maxc
          /\ Revalidate(Pending, promoted)

\* The same for one incarnation, without the lifecycle and capacity tests.
revalidate_agent_assignments(a) ==
    LET mine == {b \in Pending : b.agent = a /\ b.boot = agents[a].boot}
    IN  /\ mine # {}
        /\ \E feasible \in SUBSET mine :
              /\ \A b \in mine \ feasible : FALSE \in FeasibilityAnswers(b.work)
              /\ Revalidate(mine, {b \in feasible : revalidate_authority(b)})

\* Nothing in the repository but its tests calls it.
expire_leases ==
    LET late == {b \in ActiveIn(asg) : asg[b].expires < now}
    IN  /\ late # {}
        /\ CloseAssignments(late, "Expired")
        /\ UNCHANGED <<sched, now, fenced, call>>

AssignmentNext ==
    \/ \E c \in Caller :
          \/ \E w \in Work : plan_locked(c, w)
          \/ commit_locked(c)
          \/ CommitRejected(c)
          \/ \E b \in DOMAIN asg : dispatch(c, b)
          \/ Handoff(c)
          \/ HandoffRejected(c)
    \/ \E b \in DOMAIN asg : Report(b)
    \/ revalidate_assignments
    \/ \E a \in Agent : revalidate_agent_assignments(a)
    \/ expire_leases

=============================================================================
