--------------------------- MODULE AuthorityState ---------------------------
(***************************************************************************)
(* The authoritative state of one AgentScheduler (struct Impl) and the     *)
(* helpers every handler shares: evidence freshness, the derived agent and *)
(* work lifecycles, accounting, closing an assignment, and revalidating    *)
(* the authority an assignment is bound to.                                *)
(*                                                                         *)
(* All of this state sits behind one mutex, so a critical section of the   *)
(* code is one action of the model.  Only schedule() and dispatch() carry  *)
(* something they read under the lock into a second critical section; what *)
(* they carry is in `call`.                                                *)
(***************************************************************************)
EXTENDS Integers, FiniteSets

CONSTANTS
    Agent,            \* agent identities (AgentId)
    Boot,             \* incarnation identities (AgentBootId)
    NoBoot,           \* the zero AgentBootId of a record that has none
    BootOf,           \* BootOf[a]: the boots that calls about agent a may name
    Work,             \* work identities (WorkId)
    Caller,           \* threads that may be inside schedule() or dispatch()
    Fits,             \* pairs <<w, a>> that pass the static eligibility rules
    Requests,         \* the work requests clients submit
    Concurrency,      \* the max_concurrency values agents declare
    HealthReports,    \* the health values agents publish
    AvailReports,     \* the availability values agents publish
    ClosePolicies,    \* values of policy.close_dispatch_authority_on_shutdown
    AssignmentTtl,    \* policy.assignment_lease_ttl_ms
    RegistrationTtl,  \* effective_lease_ttl of every agent
    Staleness,        \* policy.{capability,health,availability}_staleness_ms
    MaxAgentGen, MaxCapGen, MaxWorkGen, MaxPolicyGen, MaxStarts, MaxAsgGen,
    MaxTime           \* bounds of the model; none of them is in the code

VARIABLES
    sched,    \* epochs, policy generation and the lifecycle flags
    now,      \* what clock->now_ms() returns
    agents,   \* agents[a]: the AgentRecord of a
    fenced,   \* the boots in fenced_boots
    work,     \* work[w]: the WorkRecord of w
    asg,      \* assignments: binding -> [state, leaseCurrent, expires]
    call      \* call[c]: what caller c carries between two critical sections

vars == <<sched, now, agents, fenced, work, asg, call>>

-----------------------------------------------------------------------------
(* Enumerations.                                                           *)

AgentLifecycles == {"Unregistered", "Registering", "Ready", "Busy", "Draining",
                    "Unavailable", "RevalidationRequired", "Lost", "Retired"}

\* Degraded counts as Healthy: every check of the code treats them alike.
Healths == {"Unknown", "Healthy", "Unhealthy"}

\* (availability, readiness, reachability) by what the code tells apart:
\* all three good; reachable but not available or not ready; unreachable.
Avails == {"Unknown", "Available", "Unready", "Unreachable"}

WorkLifecycles == {"Unknown", "Admitted", "Assigned", "Executing", "Completed",
                   "Failed", "Cancelled", "Expired"}

TerminalWork == {"Completed", "Failed", "Cancelled", "Expired"}

\* Releasing is an enumerator of the code that no handler ever assigns.
ActiveStates == {"Assigned", "Dispatched", "Acknowledged", "Executing",
                 "RevalidationRequired"}

TerminalStates == {"Completed", "Failed", "Released", "Invalidated",
                   "Superseded", "Expired", "Lost", "Cancelled"}

AcceptsNewWork == {"Ready", "Busy"}

-----------------------------------------------------------------------------
(* Records.                                                                *)

\* A WorkRequest: scheduling mode, fan-out limits, deadline and earliest
\* start (0: none), and the set of hard requirements it turns on.
Request == [mode : {"Exclusive", "Parallel"}, maxParallel : Nat, perAgent : Nat,
            deadline : Nat, start : Nat,
            require : SUBSET {"healthy", "reachable", "lease", "capability",
                              "feasibility"}]

NoRequest == [mode |-> "Exclusive", maxParallel |-> 1, perAgent |-> 1,
              deadline |-> 0, start |-> 0, require |-> {}]

Evidence(V) == [value : V, current : BOOLEAN, at : Nat]

NoEvidence(v) == [value |-> v, current |-> FALSE, at |-> 0]

\* Epochs, policy generation, lifecycle flags and the policy's shutdown rule.
SchedulerRecord == [epoch : Nat, coord : Nat, policy : Nat, running : BOOLEAN,
                    admission : BOOLEAN, shutting : BOOLEAN, closes : BOOLEAN]

\* The capability profile is its generation; its boot is the descriptor's
\* whenever it is current, because only a publication by that boot sets it.
\* Profiles list at least one capability (an empty one would never go stale).
AgentRecord == [gen : Nat, boot : Boot \cup {NoBoot}, maxc : Nat,
                lifecycle : AgentLifecycles,
                capability : Evidence(Nat), health : Evidence(Healths),
                avail : Evidence(Avails), lease : Nat, active : Nat,
                recovered : BOOLEAN]

WorkRecord == [gen : Nat, req : Request, lifecycle : WorkLifecycles,
               current : Nat, lastGen : Nat]

\* An assignment's identity is the hash of its binding, lease times left out.
Binding == [gen : Nat, work : Work, workGen : Nat, agent : Agent,
            agentGen : Nat, boot : Boot, epoch : Nat, coord : Nat,
            policy : Nat, capGen : Nat, replica : Nat, exclusive : BOOLEAN]

AssignmentRecord == [state : ActiveStates \cup TerminalStates,
                     leaseCurrent : BOOLEAN, expires : Nat]

Idle == [op |-> "idle"]

Calls == [op : {"schedule"}, b : Binding, expires : Nat]
           \cup [op : {"dispatch"}, b : Binding] \cup {Idle}

ASSUME Inputs ==
    /\ BootOf \in [Agent -> SUBSET Boot]
    /\ NoBoot \notin Boot
    /\ Fits \subseteq Work \X Agent
    /\ Requests \subseteq Request
    /\ \A r \in Requests :
          /\ r.perAgent \in 1..r.maxParallel
          /\ r.mode = "Exclusive" <=> r.maxParallel = 1
    /\ Concurrency \subseteq Nat \ {0}
    /\ HealthReports \subseteq Healths
    /\ AvailReports \subseteq Avails
    /\ ClosePolicies \in (SUBSET BOOLEAN) \ {{}}

ASSUME Bounds ==
    /\ AssignmentTtl \in Nat \ {0}
    /\ RegistrationTtl \in Nat \ {0}
    /\ Staleness \in [{"capability", "health", "availability"} -> Nat]
    /\ {MaxAgentGen, MaxCapGen, MaxWorkGen, MaxPolicyGen, MaxStarts,
        MaxAsgGen, MaxTime} \subseteq Nat

-----------------------------------------------------------------------------
(* Evidence freshness and the derived agent lifecycle.                     *)

Fresh(e, kind) ==
    /\ e.current
    /\ e.at <= now
    /\ now - e.at <= Staleness[kind]

lease_current(r) == r.lease # 0 /\ now <= r.lease

\* The health and reachability checks of a requirement set, shared by
\* eligibility and by revalidation.
EvidenceSatisfies(r, require) ==
    /\ "healthy" \in require => /\ Fresh(r.health, "health")
                                /\ r.health.value = "Healthy"
    /\ "reachable" \in require => /\ Fresh(r.avail, "availability")
                                  /\ r.avail.value \in {"Available", "Unready"}
    /\ "lease" \in require => lease_current(r)

recompute_lifecycle(r) ==
    IF r.lifecycle \in {"Lost", "Retired", "Draining"} THEN r.lifecycle
    ELSE IF ~(r.capability.current /\ r.health.current /\ r.avail.current)
         THEN IF r.recovered THEN "RevalidationRequired" ELSE "Registering"
    ELSE IF r.avail.value # "Available" THEN "Unavailable"
    ELSE IF r.active > 0 THEN "Busy" ELSE "Ready"

Withdrawn(e, v) == [value |-> v, current |-> FALSE, at |-> e.at]

invalidate_dynamic_evidence(r) ==
    [r EXCEPT !.capability = Withdrawn(@, @.value),
              !.health = Withdrawn(@, "Unknown"),
              !.avail = Withdrawn(@, "Unknown"),
              !.lease = 0]

-----------------------------------------------------------------------------
(* Accounting and closing.  `as` is the assignment map to count in.        *)

ActiveIn(as) == {b \in DOMAIN as : as[b].state \in ActiveStates}

OnAgent(as, a) == {b \in ActiveIn(as) : b.agent = a}

OnWork(as, w) == {b \in ActiveIn(as) : b.work = w}

\* Deliberately wrong variant of RefreshedAgent: counts down at every refresh
\* instead of counting what is there.
CountedDown(as, r, a) ==
    LET counted == [r EXCEPT !.active = @ - 1]
    IN  [counted EXCEPT !.lifecycle = recompute_lifecycle(counted)]

RefreshedAgent(as, r, a) ==
    LET counted == [r EXCEPT !.active = Cardinality(OnAgent(as, a))]
    IN  [counted EXCEPT !.lifecycle = recompute_lifecycle(counted)]

RefreshedWork(as, r, w) ==
    [r EXCEPT
        !.current = Cardinality(OnWork(as, w)),
        !.lifecycle = IF r.lifecycle \in TerminalWork THEN @
                      ELSE IF OnWork(as, w) = {} THEN "Admitted"
                      ELSE IF \E b \in OnWork(as, w) : as[b].state = "Executing"
                      THEN "Executing" ELSE "Assigned"]

\* The assignment map after close_assignment on every member of ids; it
\* leaves a terminal assignment alone.
Closed(ids, st) ==
    [b \in DOMAIN asg |->
        IF b \in ids /\ asg[b].state \in ActiveStates
        THEN [asg[b] EXCEPT !.state = st, !.leaseCurrent = FALSE]
        ELSE asg[b]]

\* An agent or a work item that has a record in the maps of the code.
Known(a) == agents[a].lifecycle # "Unregistered"

KnownWork(w) == work[w].lifecycle # "Unknown"

\* Closing refreshes the agent and the work of each assignment it closes.
AgentsAfter(as, ids) ==
    [a \in Agent |-> IF Known(a) /\ \E b \in ids : b.agent = a
                     THEN RefreshedAgent(as, agents[a], a) ELSE agents[a]]

\* Deliberately wrong variant of WorkAfter: closing forgets the work item.
WorkForgotten(as, ids) == work

WorkAfter(as, ids) ==
    [w \in Work |-> IF KnownWork(w) /\ \E b \in ids : b.work = w
                    THEN RefreshedWork(as, work[w], w) ELSE work[w]]

\* close_assignment on every member of ids (all of them active).
CloseAssignments(ids, st) ==
    /\ asg' = Closed(ids, st)
    /\ agents' = AgentsAfter(Closed(ids, st), ids)
    /\ work' = WorkAfter(Closed(ids, st), ids)

\* close_all_active picks by boot alone, whichever agent the boot is bound to.
ActiveOfBoot(boot) == {b \in ActiveIn(asg) : b.boot = boot}

-----------------------------------------------------------------------------
(* Revalidation of bound authority.                                        *)

\* Deliberately wrong variant of stale_boot: a matching boot is enough.
never_stale(a) == FALSE

\* For a call that names a's current boot; a call that names any other boot
\* is stale whatever the state.
stale_boot(a) == agents[a].boot \in fenced

DeadlinePassed(w) == work[w].req.deadline # 0 /\ now > work[w].req.deadline

\* The external provider may withdraw a verdict between two calls, so the
\* answer is a choice whenever the request asks for it.
FeasibilityAnswers(w) ==
    IF "feasibility" \in work[w].req.require THEN BOOLEAN ELSE {TRUE}

BoundEpochsCurrent(b) ==
    /\ b.epoch = sched.epoch
    /\ b.coord = sched.coord
    /\ b.policy = sched.policy

\* Deliberately wrong variant of revalidate_authority: any capability
\* generation will do.
revalidate_without_capability(b) ==
    LET r == agents[b.agent]
        w == work[b.work]
    IN  /\ sched.shutting => asg[b].state = "Assigned"
        /\ BoundEpochsCurrent(b)
        /\ w.gen = b.workGen
        /\ w.lifecycle \notin TerminalWork
        /\ ~DeadlinePassed(b.work)
        /\ r.gen = b.agentGen
        /\ r.boot = b.boot
        /\ b.boot \notin fenced
        /\ r.lifecycle \notin {"Lost", "Retired", "Draining"}
        /\ Fresh(r.capability, "capability")
        /\ EvidenceSatisfies(r, w.req.require)

\* Whether revalidate_authority accepts the stored assignment b; the
\* provider's answer is left to the caller.
revalidate_authority(b) ==
    LET r == agents[b.agent]
        w == work[b.work]
    IN  /\ sched.shutting => asg[b].state = "Assigned"
        /\ BoundEpochsCurrent(b)
        /\ w.gen = b.workGen
        /\ w.lifecycle \notin TerminalWork
        /\ ~DeadlinePassed(b.work)
        /\ r.gen = b.agentGen
        /\ r.boot = b.boot
        /\ b.boot \notin fenced
        /\ r.lifecycle \notin {"Lost", "Retired", "Draining"}
        /\ r.capability.value = b.capGen
        /\ Fresh(r.capability, "capability")
        /\ EvidenceSatisfies(r, w.req.require)

=============================================================================
