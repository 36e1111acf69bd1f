------------------------------- MODULE Agents -------------------------------
(***************************************************************************)
(* The handlers that change agent records: registration, evidence          *)
(* publication, heartbeats, drain, deregistration and declared loss.       *)
(*                                                                         *)
(* A call the code rejects changes nothing, so a rejection is a guard.     *)
(* Publications also carry a generation that must not go backwards; a      *)
(* client can always send the current one, so only the capability          *)
(* generation, which assignments bind, is kept.  register_agent and        *)
(* declare_agent_lost check their conditions under a first lock and again  *)
(* under the second one that mutates: the second check alone decides.      *)
(***************************************************************************)
EXTENDS AuthorityState

FreshAgent(g, boot, m) ==
    [gen |-> g, boot |-> boot, maxc |-> m, lifecycle |-> "Registering",
     capability |-> NoEvidence(0), health |-> NoEvidence("Unknown"),
     avail |-> NoEvidence("Unknown"), lease |-> now + RegistrationTtl,
     active |-> 0, recovered |-> FALSE]

\* register_agent, the agent is unknown.  Its boot is not looked up in
\* fenced_boots on this path.
RegisterNew(a, g, boot, m) ==
    /\ ~Known(a)
    /\ agents' = [agents EXCEPT ![a] = FreshAgent(g, boot, m)]
    /\ UNCHANGED <<sched, now, fenced, work, asg, call>>

\* register_agent at a higher generation: the previous incarnation is fenced,
\* its assignments are lost and the record starts over.
Reincarnate(a, g, boot, m) ==
    LET previous == agents[a].boot
        gone == ActiveOfBoot(previous)
        as == Closed(gone, "Lost")
    IN  /\ Known(a)
        /\ g > agents[a].gen
        /\ boot \notin fenced
        /\ fenced' = fenced \cup {previous}
        /\ asg' = as
        /\ work' = WorkAfter(as, gone)
        /\ agents' = [AgentsAfter(as, gone) EXCEPT
                        ![a] = RefreshedAgent(as, FreshAgent(g, boot, m), a)]
        /\ UNCHANGED <<sched, now, call>>

\* register_agent by the current incarnation: descriptor and lease are
\* refreshed, the evidence stays.  A Lost record is always fenced, so the
\* code's Lost -> RevalidationRequired branch is kept but never taken.
Reregister(a, m) ==
    LET r == agents[a]
        renewed == [r EXCEPT !.maxc = m, !.lease = now + RegistrationTtl,
                             !.lifecycle = IF @ = "Lost"
                                           THEN "RevalidationRequired" ELSE @]
    IN  /\ Known(a)
        /\ ~stale_boot(a)
        /\ agents' = [agents EXCEPT ![a] = RefreshedAgent(asg, renewed, a)]
        /\ UNCHANGED <<sched, now, fenced, work, asg, call>>

\* Assignments that bound another capability generation keep their slot but
\* lose dispatch authority; the work record is not refreshed.
publish_capabilities(a, g, at) ==
    LET r == agents[a]
        moved == {b \in OnAgent(asg, a) : b.capGen # g}
        as == [b \in DOMAIN asg |->
                 IF b \in moved
                 THEN [asg[b] EXCEPT !.state = "RevalidationRequired",
                                     !.leaseCurrent = FALSE]
                 ELSE asg[b]]
        published == [r EXCEPT !.capability = [value |-> g, current |-> TRUE,
                                               at |-> at],
                               !.recovered = FALSE]
    IN  /\ Known(a)
        /\ ~stale_boot(a)
        /\ g >= r.capability.value
        /\ g = r.capability.value => ~r.capability.current
        /\ at <= now
        /\ asg' = as
        /\ agents' = [agents EXCEPT ![a] = RefreshedAgent(as, published, a)]
        /\ UNCHANGED <<sched, now, fenced, work, call>>

publish_health(a, v, at) ==
    LET published == [agents[a] EXCEPT
                        !.health = [value |-> v, current |-> TRUE, at |-> at],
                        !.recovered = FALSE]
    IN  /\ Known(a)
        /\ ~stale_boot(a)
        /\ at <= now
        /\ agents' = [agents EXCEPT ![a] = RefreshedAgent(asg, published, a)]
        /\ UNCHANGED <<sched, now, fenced, work, asg, call>>

publish_availability(a, v, at) ==
    LET published == [agents[a] EXCEPT
                        !.avail = [value |-> v, current |-> TRUE, at |-> at],
                        !.recovered = FALSE]
    IN  /\ Known(a)
        /\ ~stale_boot(a)
        /\ at <= now
        /\ agents' = [agents EXCEPT ![a] = RefreshedAgent(asg, published, a)]
        /\ UNCHANGED <<sched, now, fenced, work, asg, call>>

\* Renews the registration lease.  It renews no assignment lease.
heartbeat(a) ==
    /\ Known(a)
    /\ ~stale_boot(a)
    /\ agents' = [agents EXCEPT ![a].lease = now + RegistrationTtl]
    /\ UNCHANGED <<sched, now, fenced, work, asg, call>>

drain_agent(a, force) ==
    LET gone == IF force THEN ActiveOfBoot(agents[a].boot) ELSE {}
        as == Closed(gone, "Invalidated")
        draining == [agents[a] EXCEPT !.lifecycle = "Draining"]
    IN  /\ Known(a)
        /\ ~stale_boot(a)
        /\ agents[a].lifecycle # "Retired"
        /\ asg' = as
        /\ work' = WorkAfter(as, gone)
        /\ agents' = [AgentsAfter(as, gone) EXCEPT
                        ![a] = RefreshedAgent(as, draining, a)]
        /\ UNCHANGED <<sched, now, fenced, call>>

\* The record of agent a once its incarnation is over for good.
EndedAgent(as, a, lifecycle) ==
    RefreshedAgent(as, [invalidate_dynamic_evidence(agents[a])
                          EXCEPT !.lifecycle = lifecycle], a)

\* Without force, active assignments are a barrier.
deregister_agent(a, force) ==
    LET gone == IF OnAgent(asg, a) = {} THEN {} ELSE ActiveOfBoot(agents[a].boot)
        as == Closed(gone, "Invalidated")
    IN  /\ Known(a)
        /\ ~stale_boot(a)
        /\ OnAgent(asg, a) = {} \/ force
        /\ fenced' = fenced \cup {agents[a].boot}
        /\ asg' = as
        /\ work' = WorkAfter(as, gone)
        /\ agents' = [AgentsAfter(as, gone) EXCEPT
                        ![a] = EndedAgent(as, a, "Retired")]
        /\ UNCHANGED <<sched, now, call>>

\* declare_agent_lost for the current incarnation.
LoseCurrent(a) ==
    LET gone == ActiveOfBoot(agents[a].boot)
        as == Closed(gone, "Lost")
    IN  /\ Known(a)
        /\ fenced' = fenced \cup {agents[a].boot}
        /\ asg' = as
        /\ work' = WorkAfter(as, gone)
        /\ agents' = [AgentsAfter(as, gone) EXCEPT
                        ![a] = EndedAgent(as, a, "Lost")]
        /\ UNCHANGED <<sched, now, call>>

\* Deliberately wrong variant of LoseStale: fences a boot without looking
\* whose it is now.
LoseAny(a, boot) ==
    /\ fenced' = fenced \cup {boot}
    /\ UNCHANGED <<sched, now, agents, work, asg, call>>

\* declare_agent_lost for an unknown agent or for an incarnation that is not
\* the current one only fences the boot.
LoseStale(a, boot) ==
    /\ Known(a) => agents[a].boot # boot
    /\ fenced' = fenced \cup {boot}
    /\ UNCHANGED <<sched, now, agents, work, asg, call>>

AgentNext ==
    \E a \in Agent :
        \/ \E g \in 1..MaxAgentGen, boot \in BootOf[a], m \in Concurrency :
              RegisterNew(a, g, boot, m) \/ Reincarnate(a, g, boot, m)
        \/ \E m \in Concurrency : Reregister(a, m)
        \/ \E g \in 1..MaxCapGen, at \in 1..now : publish_capabilities(a, g, at)
        \/ \E v \in HealthReports, at \in 1..now : publish_health(a, v, at)
        \/ \E v \in AvailReports, at \in 1..now :
              publish_availability(a, v, at)
        \/ heartbeat(a)
        \/ \E force \in BOOLEAN : drain_agent(a, force) \/ deregister_agent(a, force)
        \/ LoseCurrent(a)
        \/ \E boot \in BootOf[a] : LoseStale(a, boot)

=============================================================================
