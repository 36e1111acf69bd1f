---------------------------- MODULE MCScheduler -----------------------------
(***************************************************************************)
(* Small instances of Scheduler for TLC.                                   *)
(***************************************************************************)
EXTENDS InvariantChecker, TLC

CONSTANTS a1, a2,          \* agents
          b1, b2,          \* the incarnation of a1 and that of a2
          w1, w2, c1, c2   \* work items and callers

AllFit == Work \X Agent

OneBootEach == [a \in Agent |-> IF a = a1 THEN {b1} ELSE {b2}]

Exclusive == [NoRequest EXCEPT !.require = {"healthy", "reachable", "lease"}]
Parallel == [Exclusive EXCEPT !.mode = "Parallel", !.maxParallel = 2]
Stacked == [Parallel EXCEPT !.perAgent = 2]
Timed == [Exclusive EXCEPT !.deadline = 2, !.start = 2,
                           !.require = @ \cup {"capability", "feasibility"}]

ExclusiveOnly == {Exclusive}
BothModes == {Exclusive, Parallel}
ExclusiveOrStacked == {Exclusive, Stacked}
TimedOrNot == {Timed, NoRequest}

Ageless == [k \in {"capability", "health", "availability"} |-> 10]
Quick == [k \in {"capability", "health", "availability"} |-> 1]

\* The agent comes back as a new incarnation or the work as a new generation.
OneRenewal == agents[a1].gen > 1 => work[w1].gen <= 1

-----------------------------------------------------------------------------
\* A scheduler that is up: started, every agent registered once with current
\* evidence, every work item admitted.  Init reaches it by one start, four
\* calls per agent and one per work item.
ReadyAgent(boot, m) ==
    [gen |-> 1, boot |-> boot, maxc |-> m, lifecycle |-> "Ready",
     capability |-> [value |-> 1, current |-> TRUE, at |-> 1],
     health |-> [value |-> "Healthy", current |-> TRUE, at |-> 1],
     avail |-> [value |-> "Available", current |-> TRUE, at |-> 1],
     lease |-> 1 + RegistrationTtl, active |-> 0, recovered |-> FALSE]

UpInit ==
    /\ sched \in [epoch : {1}, coord : {1}, policy : {1}, running : {TRUE},
                  admission : {TRUE}, shutting : {FALSE}, closes : ClosePolicies]
    /\ now = 1
    /\ agents \in {[a \in Agent |-> ReadyAgent(IF a = a1 THEN b1 ELSE b2, m)] :
                     m \in Concurrency}
    /\ fenced = {}
    /\ work \in [Work -> {[gen |-> 1, req |-> r, lifecycle |-> "Admitted",
                           current |-> 0, lastGen |-> 0] : r \in Requests}]
    /\ asg = [b \in {} |-> Idle]
    /\ call = [c \in Caller |-> Idle]

UpSpec == UpInit /\ [][Next]_vars

\* Callers are interchangeable; so are the two agents if each has one boot.
SwapAgents == (a1 :> a2) @@ (a2 :> a1) @@ (b1 :> b2) @@ (b2 :> b1)
SwapCallers == (c1 :> c2) @@ (c2 :> c1)
CallerSymmetry == {SwapCallers}
FullSymmetry == {SwapAgents, SwapCallers, SwapAgents @@ SwapCallers}

\* No handler asks in which terminal state an assignment ended, or looks at
\* its lease times again: states that differ in nothing else have the same
\* successors up to that difference.  The runs whose properties do not name a
\* terminal state identify them.
EndedAlike == <<sched, now, agents, fenced, work, call,
                [b \in DOMAIN asg |-> IF asg[b].state \in TerminalStates
                                      THEN "terminal" ELSE asg[b]]>>

=============================================================================
