----------------------------- MODULE MCRecovery -----------------------------
(***************************************************************************)
(* Small instances of Recovery for TLC.                                    *)
(***************************************************************************)
EXTENDS Recovery

CONSTANTS a1, b1       \* one agent and its incarnation

OneBootEach == [a \in Agent |-> {b1}]
AllFit == Work \X Agent

\* Nothing is required beyond an agent that is Ready.
AnyAgent == {NoRequest}

Ageless == [k \in {"capability", "health", "availability"} |-> 10]

\* A scheduler that is up: started, the agents registered with current evidence,
\* the work admitted.  Init reaches it by one start, four calls per agent and
\* one per work item.
ReadyAgent(m) ==
    [gen |-> 1, boot |-> b1, maxc |-> m, lifecycle |-> "Ready",
     capability |-> [value |-> 1, current |-> TRUE, at |-> 1],
     health |-> [value |-> "Healthy", current |-> TRUE, at |-> 1],
     avail |-> [value |-> "Available", current |-> TRUE, at |-> 1],
     lease |-> 1 + RegistrationTtl, active |-> 0, recovered |-> FALSE]

RUpInit ==
    /\ sched \in [epoch : {1}, coord : {1}, policy : {1}, running : {TRUE},
                  admission : {TRUE}, shutting : {FALSE}, closes : ClosePolicies]
    /\ now = 1
    /\ agents \in {[a \in Agent |-> ReadyAgent(m)] : m \in Concurrency}
    /\ fenced = {}
    /\ work \in [Work -> {[gen |-> 1, req |-> r, lifecycle |-> "Admitted",
                           current |-> 0, lastGen |-> 0] : r \in Requests}]
    /\ asg = [b \in {} |-> Idle]
    /\ call = [c \in Caller |-> Idle]
    /\ RecoveryInit

RUpSpec == RUpInit /\ [][RNext]_rvars

-----------------------------------------------------------------------------
\* No handler asks in which terminal state an assignment ended, and load() does
\* not ask in which active state it was saved: states that differ in nothing else
\* have the same successors up to that difference, and no property of these runs
\* tells them apart.  What agents hold from past lives matters only while `kept`.
Ended(as) == [b \in DOMAIN as |-> IF as[b].state \in TerminalStates
                                  THEN "terminal" ELSE as[b]]

Alike(image) == IF image = NoImage THEN NoImage ELSE ReadBack(image)

Carried(x) == IF x = Idle THEN Idle ELSE [x EXCEPT !.image = Alike(@)]

EndedAlike == <<sched, now, agents, fenced, work, Ended(asg), call, Alike(disk),
                [p \in Persister |-> Carried(io[p])], life, promised,
                kept, IF kept THEN <<owners, past>> ELSE <<>>>>

=============================================================================
