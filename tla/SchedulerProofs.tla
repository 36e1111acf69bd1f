--------------------------- MODULE SchedulerProofs --------------------------
(***************************************************************************)
(* Proofs about Scheduler, for every value of its constants: its types,    *)
(* what ends for good, and what becomes of work and of the assignments     *)
(* made for it.  Active ones belong to the current generation of live      *)
(* work, exclusive work has one, and each lives the life of a claim        *)
(* (AssignmentLife).                                                       *)
(***************************************************************************)
EXTENDS Scheduler, FiniteSetTheorems, TLAPS

-----------------------------------------------------------------------------
(* What the shared helpers return.                                         *)

\* The counters are cardinalities of finite sets.
LEMMA Counts ==
    ASSUME NEW as, AssignmentMap(as), NEW a, NEW w
    PROVE  /\ Cardinality(OnAgent(as, a)) \in Nat
           /\ Cardinality(OnWork(as, w)) \in Nat
<1>1. IsFiniteSet(DOMAIN as)
  BY DEF AssignmentMap
<1>2. OnAgent(as, a) \subseteq DOMAIN as /\ OnWork(as, w) \subseteq DOMAIN as
  BY DEF OnAgent, OnWork, ActiveIn
<1> QED
  BY <1>1, <1>2, FS_Subset, FS_CardinalityType

\* What refreshing an agent leaves alone: its identity, its capability
\* generation, and the lifecycles that only a handler may end.
AgentKept(r, new) ==
    /\ new.boot = r.boot
    /\ new.gen = r.gen
    /\ new.capability = r.capability
    /\ \A l \in {"Unregistered", "Lost", "Retired", "Draining"} :
          new.lifecycle = l <=> r.lifecycle = l

\* What refreshing a work item leaves alone.
WorkKept(r, new) ==
    /\ new.gen = r.gen
    /\ new.req = r.req
    /\ \A l \in {"Unknown", "Completed", "Failed", "Cancelled", "Expired"} :
          new.lifecycle = l <=> r.lifecycle = l

\* Refreshing an agent returns an agent record; it keeps what AgentKept says
\* if the record is a registered one.
LEMMA RefreshedAgentType ==
    ASSUME NEW as, AssignmentMap(as), NEW a, NEW r \in AgentRecord
    PROVE  /\ RefreshedAgent(as, r, a) \in AgentRecord
           /\ r.lifecycle # "Unregistered" => AgentKept(r, RefreshedAgent(as, r, a))
<1> DEFINE counted == [r EXCEPT !.active = Cardinality(OnAgent(as, a))]
           refreshed == [counted EXCEPT !.lifecycle = recompute_lifecycle(counted)]
<1>1. counted \in AgentRecord
  BY Counts DEF AgentRecord
<1>2. /\ counted.boot = r.boot /\ counted.gen = r.gen
      /\ counted.capability = r.capability /\ counted.lifecycle = r.lifecycle
  BY DEF AgentRecord
<1> HIDE DEF counted
<1>3. /\ counted.lifecycle \in {"Lost", "Retired", "Draining"} =>
            recompute_lifecycle(counted) = counted.lifecycle
      /\ counted.lifecycle \notin {"Lost", "Retired", "Draining"} =>
            recompute_lifecycle(counted) \in
              {"Registering", "Ready", "Busy", "Unavailable",
               "RevalidationRequired"}
  BY DEF recompute_lifecycle
<1>4. recompute_lifecycle(counted) \in AgentLifecycles
  BY <1>1, <1>3 DEF AgentLifecycles, AgentRecord
<1>5. /\ refreshed \in AgentRecord
      /\ refreshed.boot = counted.boot /\ refreshed.gen = counted.gen
      /\ refreshed.capability = counted.capability
      /\ refreshed.lifecycle = recompute_lifecycle(counted)
  BY <1>1, <1>4 DEF AgentRecord
<1>6. RefreshedAgent(as, r, a) = refreshed
  BY DEF RefreshedAgent, counted
<1> HIDE DEF refreshed
<1> QED
  BY <1>2, <1>3, <1>5, <1>6 DEF AgentKept

\* Refreshing a work item returns a work record; it keeps what WorkKept says
\* if the work item is a known one.
LEMMA RefreshedWorkType ==
    ASSUME NEW as, AssignmentMap(as), NEW w, NEW r \in WorkRecord
    PROVE  /\ RefreshedWork(as, r, w) \in WorkRecord
           /\ r.lifecycle # "Unknown" => WorkKept(r, RefreshedWork(as, r, w))
  BY Counts DEF RefreshedWork, WorkRecord, WorkLifecycles, WorkKept, TerminalWork

\* Closing keeps every identity and leaves a map of the same type.
LEMMA ClosedType ==
    ASSUME AssignmentMap(asg), NEW ids, NEW st \in TerminalStates
    PROVE  /\ AssignmentMap(Closed(ids, st))
           /\ DOMAIN Closed(ids, st) = DOMAIN asg
  BY DEF AssignmentMap, Closed, AssignmentRecord

\* Closing changes no agent's identity, and Lost, Retired and Draining stay.
LEMMA AgentsAfterType ==
    ASSUME NEW as, AssignmentMap(as), NEW ids, agents \in [Agent -> AgentRecord]
    PROVE  /\ AgentsAfter(as, ids) \in [Agent -> AgentRecord]
           /\ \A a \in Agent : AgentKept(agents[a], AgentsAfter(as, ids)[a])
<1>1. ASSUME NEW a \in Agent
      PROVE  /\ AgentsAfter(as, ids)[a] \in AgentRecord
             /\ AgentKept(agents[a], AgentsAfter(as, ids)[a])
  <2>1. agents[a] \in AgentRecord /\ AgentKept(agents[a], agents[a])
    BY DEF AgentKept
  <2>2. /\ RefreshedAgent(as, agents[a], a) \in AgentRecord
        /\ Known(a) => AgentKept(agents[a], RefreshedAgent(as, agents[a], a))
    BY <2>1, RefreshedAgentType DEF Known
  <2> QED
    BY <2>1, <2>2 DEF AgentsAfter
<1> QED
  BY <1>1 DEF AgentsAfter

\* Closing changes neither generation nor request, and terminal work stays.
LEMMA WorkAfterType ==
    ASSUME NEW as, AssignmentMap(as), NEW ids, work \in [Work -> WorkRecord]
    PROVE  /\ WorkAfter(as, ids) \in [Work -> WorkRecord]
           /\ \A w \in Work : WorkKept(work[w], WorkAfter(as, ids)[w])
<1>1. ASSUME NEW w \in Work
      PROVE  /\ WorkAfter(as, ids)[w] \in WorkRecord
             /\ WorkKept(work[w], WorkAfter(as, ids)[w])
  <2>1. work[w] \in WorkRecord /\ WorkKept(work[w], work[w])
    BY DEF WorkKept
  <2>2. /\ RefreshedWork(as, work[w], w) \in WorkRecord
        /\ KnownWork(w) => WorkKept(work[w], RefreshedWork(as, work[w], w))
    BY <2>1, RefreshedWorkType DEF KnownWork
  <2> QED
    BY <2>1, <2>2 DEF WorkAfter
<1> QED
  BY <1>1 DEF WorkAfter

-----------------------------------------------------------------------------
(* Type correctness.                                                       *)

AgentsTyped(ag) ==
    /\ ag \in [Agent -> AgentRecord]
    /\ \A a \in Agent : ag[a].lifecycle # "Unregistered" => ag[a].boot \in BootOf[a]

\* A step keeps TypeOK if it keeps the type of what it assigns.
LEMMA TypeParts ==
    ASSUME sched' \in SchedulerRecord,
           now' \in Nat,
           AgentsTyped(agents'),
           fenced' \subseteq Boot,
           work' \in [Work -> WorkRecord],
           AssignmentMap(asg'),
           call' \in [Caller -> Calls]
    PROVE  TypeOK'
  BY DEF TypeOK, AgentsTyped, Known, AssignmentMap

\* TypeOK says that the agents are typed.
LEMMA TypedAgents == TypeOK => AgentsTyped(agents)
  BY DEF TypeOK, AgentsTyped, Known

\* Closing keeps the agents typed.
LEMMA AgentsAfterTyped ==
    ASSUME NEW as, AssignmentMap(as), NEW ids, AgentsTyped(agents)
    PROVE  AgentsTyped(AgentsAfter(as, ids))
<1>1. /\ AgentsAfter(as, ids) \in [Agent -> AgentRecord]
      /\ \A a \in Agent : AgentKept(agents[a], AgentsAfter(as, ids)[a])
  BY AgentsAfterType DEF AgentsTyped
<1> QED
  BY <1>1 DEF AgentsTyped, AgentKept

\* Storing the refreshed form of a record with a boot of agent a keeps the
\* agents typed.
LEMMA StoredTyped ==
    ASSUME NEW ag, AgentsTyped(ag), NEW a \in Agent, NEW as, AssignmentMap(as),
           NEW r \in AgentRecord, r.boot \in BootOf[a],
           r.lifecycle # "Unregistered"
    PROVE  AgentsTyped([ag EXCEPT ![a] = RefreshedAgent(as, r, a)])
<1> DEFINE new == RefreshedAgent(as, r, a)
<1>1. new \in AgentRecord /\ AgentKept(r, new)
  BY RefreshedAgentType
<1> HIDE DEF new
<1>2. new.boot \in BootOf[a]
  BY <1>1 DEF AgentKept
<1> QED
  BY <1>1, <1>2 DEF AgentsTyped, new

\* A freshly registered record is an agent record.
LEMMA FreshAgentType ==
    ASSUME now \in Nat, NEW g \in Nat, NEW boot \in Boot, NEW m \in Nat
    PROVE  /\ FreshAgent(g, boot, m) \in AgentRecord
           /\ FreshAgent(g, boot, m).boot = boot
           /\ FreshAgent(g, boot, m).gen = g
           /\ FreshAgent(g, boot, m).lifecycle = "Registering"
  BY Bounds DEF FreshAgent, AgentRecord, Evidence, NoEvidence, Healths, Avails,
                AgentLifecycles

\* Ending an incarnation keeps its boot and is final.
LEMMA EndedRecordType ==
    ASSUME NEW r \in AgentRecord, NEW l \in AgentLifecycles
    PROVE  /\ [invalidate_dynamic_evidence(r) EXCEPT !.lifecycle = l] \in AgentRecord
           /\ [invalidate_dynamic_evidence(r) EXCEPT !.lifecycle = l].boot = r.boot
           /\ [invalidate_dynamic_evidence(r) EXCEPT !.lifecycle = l].gen = r.gen
           /\ [invalidate_dynamic_evidence(r) EXCEPT !.lifecycle = l].lifecycle = l
  BY DEF invalidate_dynamic_evidence, Withdrawn, AgentRecord, Evidence, Healths,
         Avails, AgentLifecycles

\* The common case: flags, clock and calls stay.
LEMMA StepType ==
    ASSUME TypeOK, UNCHANGED <<sched, now, call>>, AgentsTyped(agents'),
           fenced' \subseteq Boot, work' \in [Work -> WorkRecord],
           AssignmentMap(asg')
    PROVE  TypeOK'
<1>1. /\ sched' \in SchedulerRecord
      /\ now' \in Nat
      /\ call' \in [Caller -> Calls]
  BY DEF TypeOK
<1> QED
  BY <1>1, TypeParts

\* A handler that closes some of the stored assignments and stores the
\* refreshed form of one agent record keeps TypeOK.
LEMMA AgentStepType ==
    ASSUME TypeOK, NEW a \in Agent, Known(a), NEW ids, NEW st \in TerminalStates,
           NEW r \in AgentRecord, r.boot \in BootOf[a], r.lifecycle # "Unregistered",
           fenced' \subseteq Boot, UNCHANGED <<sched, now, call>>,
           asg' = Closed(ids, st), work' = WorkAfter(Closed(ids, st), ids),
           agents' = [AgentsAfter(Closed(ids, st), ids) EXCEPT
                        ![a] = RefreshedAgent(Closed(ids, st), r, a)]
    PROVE  TypeOK'
<1> DEFINE as == Closed(ids, st)
<1>1. AssignmentMap(as) /\ DOMAIN as = DOMAIN asg
  BY ClosedType DEF TypeOK
<1> HIDE DEF as
<1>2. AgentsTyped(AgentsAfter(as, ids))
  BY <1>1, TypedAgents, AgentsAfterTyped
<1>3. AgentsTyped(agents')
  BY <1>1, <1>2, StoredTyped DEF as
<1>4. work' \in [Work -> WorkRecord]
  BY <1>1, WorkAfterType DEF as, TypeOK
<1> QED
  BY <1>1, <1>3, <1>4, StepType DEF as

\* A handler that only stores the refreshed form of one agent record, over a
\* map of assignments with the same identities, keeps TypeOK.
LEMMA PublishType ==
    ASSUME TypeOK, NEW a \in Agent, Known(a),
           NEW r \in AgentRecord, r.boot \in BootOf[a], r.lifecycle # "Unregistered",
           UNCHANGED <<sched, now, fenced, work, call>>,
           AssignmentMap(asg'), DOMAIN asg' = DOMAIN asg,
           agents' = [agents EXCEPT ![a] = RefreshedAgent(asg', r, a)]
    PROVE  TypeOK'
<1>1. AgentsTyped([agents EXCEPT ![a] = RefreshedAgent(asg', r, a)])
  BY TypedAgents, StoredTyped
<1> QED
  BY <1>1, StepType DEF TypeOK

\* Every agent handler keeps TypeOK.
LEMMA AgentNextType ==
    ASSUME TypeOK, AgentNext
    PROVE  TypeOK'
<1> PICK a \in Agent :
        \/ \E g \in 1..MaxAgentGen, boot \in BootOf[a], m \in Concurrency :
              RegisterNew(a, g, boot, m) \/ Reincarnate(a, g, boot, m)
        \/ \E m \in Concurrency : Reregister(a, m)
        \/ \E g \in 1..MaxCapGen, at \in 1..now : publish_capabilities(a, g, at)
        \/ \E v \in HealthReports, at \in 1..now : publish_health(a, v, at)
        \/ \E v \in AvailReports, at \in 1..now : publish_availability(a, v, at)
        \/ heartbeat(a)
        \/ \E force \in BOOLEAN : drain_agent(a, force) \/ deregister_agent(a, force)
        \/ LoseCurrent(a)
        \/ \E boot \in BootOf[a] : LoseStale(a, boot)
  BY DEF AgentNext
<1>0. /\ agents[a] \in AgentRecord /\ now \in Nat /\ fenced \subseteq Boot
      /\ Known(a) => agents[a].boot \in BootOf[a]
      /\ BootOf[a] \subseteq Boot
  BY Inputs DEF TypeOK
<1>1. ASSUME NEW g \in 1..MaxAgentGen, NEW boot \in BootOf[a],
             NEW m \in Concurrency, RegisterNew(a, g, boot, m)
      PROVE  TypeOK'
  <2>1. g \in Nat /\ boot \in Boot /\ m \in Nat
    BY <1>0, Inputs, Bounds
  <2>2. /\ FreshAgent(g, boot, m) \in AgentRecord
        /\ FreshAgent(g, boot, m).boot = boot
    BY <1>0, <2>1, FreshAgentType
  <2>3. AgentsTyped(agents')
    BY <1>1, <2>2, TypedAgents DEF RegisterNew, AgentsTyped
  <2> QED
    BY <1>1, <2>3, StepType DEF RegisterNew, TypeOK
<1>2. ASSUME NEW g \in 1..MaxAgentGen, NEW boot \in BootOf[a],
             NEW m \in Concurrency, Reincarnate(a, g, boot, m)
      PROVE  TypeOK'
  <2>1. g \in Nat /\ boot \in Boot /\ m \in Nat
    BY <1>0, Inputs, Bounds
  <2>2. /\ FreshAgent(g, boot, m) \in AgentRecord
        /\ FreshAgent(g, boot, m).boot \in BootOf[a]
        /\ FreshAgent(g, boot, m).lifecycle # "Unregistered"
    BY <1>0, <2>1, FreshAgentType
  <2>3. "Lost" \in TerminalStates /\ Known(a) /\ fenced' \subseteq Boot
    BY <1>0, <1>2 DEF Reincarnate, TerminalStates
  <2> QED
    BY <1>2, <2>2, <2>3, AgentStepType DEF Reincarnate
<1>3. ASSUME NEW m \in Concurrency, Reregister(a, m)
      PROVE  TypeOK'
  <2> DEFINE r == [agents[a] EXCEPT !.maxc = m, !.lease = now + RegistrationTtl,
                                    !.lifecycle = IF @ = "Lost"
                                                  THEN "RevalidationRequired" ELSE @]
  <2>1. Known(a) /\ agents[a].lifecycle # "Unregistered"
    BY <1>3 DEF Reregister, Known
  <2>2. m \in Nat /\ now + RegistrationTtl \in Nat
    BY <1>0, Inputs, Bounds
  <2>3. r \in AgentRecord /\ r.boot = agents[a].boot /\ r.lifecycle # "Unregistered"
    BY <1>0, <2>1, <2>2 DEF AgentRecord, AgentLifecycles
  <2>4. /\ agents' = [agents EXCEPT ![a] = RefreshedAgent(asg, r, a)]
        /\ asg' = asg /\ UNCHANGED <<sched, now, fenced, work, call>>
    BY <1>3 DEF Reregister
  <2> HIDE DEF r
  <2> QED
    BY <1>0, <2>1, <2>3, <2>4, PublishType DEF TypeOK
<1>4. ASSUME NEW g \in 1..MaxCapGen, NEW at \in 1..now, publish_capabilities(a, g, at)
      PROVE  TypeOK'
  <2> DEFINE moved == {b \in OnAgent(asg, a) : b.capGen # g}
             as == [b \in DOMAIN asg |->
                      IF b \in moved
                      THEN [asg[b] EXCEPT !.state = "RevalidationRequired",
                                          !.leaseCurrent = FALSE]
                      ELSE asg[b]]
             r == [agents[a] EXCEPT !.capability = [value |-> g, current |-> TRUE,
                                                    at |-> at],
                                    !.recovered = FALSE]
  <2>1. Known(a) /\ agents[a].lifecycle # "Unregistered"
    BY <1>4 DEF publish_capabilities, Known
  <2>2. g \in Nat /\ at \in Nat
    BY <1>0, Bounds
  <2>3. [value |-> g, current |-> TRUE, at |-> at] \in Evidence(Nat)
    BY <2>2 DEF Evidence
  <2>4. r \in AgentRecord /\ r.boot = agents[a].boot /\ r.lifecycle # "Unregistered"
    BY <1>0, <2>1, <2>3 DEF AgentRecord
  <2>5. AssignmentMap(as) /\ DOMAIN as = DOMAIN asg
    BY DEF TypeOK, AssignmentMap, AssignmentRecord, ActiveStates
  <2>6. /\ agents' = [agents EXCEPT ![a] = RefreshedAgent(as, r, a)]
        /\ asg' = as /\ UNCHANGED <<sched, now, fenced, work, call>>
    BY <1>4 DEF publish_capabilities
  <2> HIDE DEF r, as
  <2> QED
    BY <1>0, <2>1, <2>4, <2>5, <2>6, PublishType
<1>5. ASSUME NEW v \in HealthReports, NEW at \in 1..now, publish_health(a, v, at)
      PROVE  TypeOK'
  <2> DEFINE r == [agents[a] EXCEPT !.health = [value |-> v, current |-> TRUE, at |-> at],
                                    !.recovered = FALSE]
  <2>1. Known(a) /\ agents[a].lifecycle # "Unregistered"
    BY <1>5 DEF publish_health, Known
  <2>2. [value |-> v, current |-> TRUE, at |-> at] \in Evidence(Healths)
    BY <1>0, Inputs DEF Evidence
  <2>3. r \in AgentRecord /\ r.boot = agents[a].boot /\ r.lifecycle # "Unregistered"
    BY <1>0, <2>1, <2>2 DEF AgentRecord
  <2>4. /\ agents' = [agents EXCEPT ![a] = RefreshedAgent(asg, r, a)]
        /\ asg' = asg /\ UNCHANGED <<sched, now, fenced, work, call>>
    BY <1>5 DEF publish_health
  <2> HIDE DEF r
  <2> QED
    BY <1>0, <2>1, <2>3, <2>4, PublishType DEF TypeOK
<1>6. ASSUME NEW v \in AvailReports, NEW at \in 1..now, publish_availability(a, v, at)
      PROVE  TypeOK'
  <2> DEFINE r == [agents[a] EXCEPT !.avail = [value |-> v, current |-> TRUE, at |-> at],
                                    !.recovered = FALSE]
  <2>1. Known(a) /\ agents[a].lifecycle # "Unregistered"
    BY <1>6 DEF publish_availability, Known
  <2>2. [value |-> v, current |-> TRUE, at |-> at] \in Evidence(Avails)
    BY <1>0, Inputs DEF Evidence
  <2>3. r \in AgentRecord /\ r.boot = agents[a].boot /\ r.lifecycle # "Unregistered"
    BY <1>0, <2>1, <2>2 DEF AgentRecord
  <2>4. /\ agents' = [agents EXCEPT ![a] = RefreshedAgent(asg, r, a)]
        /\ asg' = asg /\ UNCHANGED <<sched, now, fenced, work, call>>
    BY <1>6 DEF publish_availability
  <2> HIDE DEF r
  <2> QED
    BY <1>0, <2>1, <2>3, <2>4, PublishType DEF TypeOK
<1>7. ASSUME heartbeat(a)
      PROVE  TypeOK'
  <2>1. now + RegistrationTtl \in Nat
    BY <1>0, Bounds
  <2>2. /\ agents' \in [Agent -> AgentRecord]
        /\ \A x \in Agent : /\ agents'[x].boot = agents[x].boot
                            /\ agents'[x].lifecycle = agents[x].lifecycle
    BY <1>7, <2>1 DEF heartbeat, TypeOK, AgentRecord
  <2>3. AgentsTyped(agents')
    BY <2>2 DEF AgentsTyped, TypeOK, Known
  <2> QED
    BY <1>7, <2>3, StepType DEF heartbeat, TypeOK
<1>8. ASSUME NEW force \in BOOLEAN, drain_agent(a, force)
      PROVE  TypeOK'
  <2> DEFINE r == [agents[a] EXCEPT !.lifecycle = "Draining"]
             gone == IF force THEN ActiveOfBoot(agents[a].boot) ELSE {}
  <2>1. "Invalidated" \in TerminalStates /\ Known(a)
    BY <1>8 DEF drain_agent, TerminalStates
  <2>2. r \in AgentRecord /\ r.boot \in BootOf[a] /\ r.lifecycle # "Unregistered"
    BY <1>0, <2>1 DEF AgentRecord, AgentLifecycles
  <2>3. /\ asg' = Closed(gone, "Invalidated")
        /\ work' = WorkAfter(Closed(gone, "Invalidated"), gone)
        /\ agents' = [AgentsAfter(Closed(gone, "Invalidated"), gone) EXCEPT
                        ![a] = RefreshedAgent(Closed(gone, "Invalidated"), r, a)]
        /\ UNCHANGED <<sched, now, fenced, call>>
    BY <1>8 DEF drain_agent
  <2> HIDE DEF r, gone
  <2> QED
    BY <1>0, <2>1, <2>2, <2>3, AgentStepType
<1>9. ASSUME NEW force \in BOOLEAN, deregister_agent(a, force)
      PROVE  TypeOK'
  <2> DEFINE r == [invalidate_dynamic_evidence(agents[a]) EXCEPT
                     !.lifecycle = "Retired"]
             gone == IF OnAgent(asg, a) = {} THEN {}
                     ELSE ActiveOfBoot(agents[a].boot)
  <2>1. "Invalidated" \in TerminalStates /\ Known(a) /\ "Retired" \in AgentLifecycles
    BY <1>9 DEF deregister_agent, TerminalStates, AgentLifecycles
  <2>2. r \in AgentRecord /\ r.boot \in BootOf[a] /\ r.lifecycle # "Unregistered"
    BY <1>0, <2>1, EndedRecordType
  <2>3. /\ asg' = Closed(gone, "Invalidated")
        /\ work' = WorkAfter(Closed(gone, "Invalidated"), gone)
        /\ agents' = [AgentsAfter(Closed(gone, "Invalidated"), gone) EXCEPT
                        ![a] = RefreshedAgent(Closed(gone, "Invalidated"), r, a)]
        /\ UNCHANGED <<sched, now, call>>
        /\ fenced' = fenced \cup {agents[a].boot}
    BY <1>9 DEF deregister_agent, EndedAgent
  <2> HIDE DEF r, gone
  <2> QED
    BY <1>0, <2>1, <2>2, <2>3, AgentStepType
<1>10. ASSUME LoseCurrent(a)
       PROVE  TypeOK'
  <2> DEFINE r == [invalidate_dynamic_evidence(agents[a]) EXCEPT
                     !.lifecycle = "Lost"]
             gone == ActiveOfBoot(agents[a].boot)
  <2>1. "Lost" \in TerminalStates /\ Known(a) /\ "Lost" \in AgentLifecycles
    BY <1>10 DEF LoseCurrent, TerminalStates, AgentLifecycles
  <2>2. r \in AgentRecord /\ r.boot \in BootOf[a] /\ r.lifecycle # "Unregistered"
    BY <1>0, <2>1, EndedRecordType
  <2>3. /\ asg' = Closed(gone, "Lost")
        /\ work' = WorkAfter(Closed(gone, "Lost"), gone)
        /\ agents' = [AgentsAfter(Closed(gone, "Lost"), gone) EXCEPT
                        ![a] = RefreshedAgent(Closed(gone, "Lost"), r, a)]
        /\ UNCHANGED <<sched, now, call>>
        /\ fenced' = fenced \cup {agents[a].boot}
    BY <1>10 DEF LoseCurrent, EndedAgent
  <2> HIDE DEF r, gone
  <2> QED
    BY <1>0, <2>1, <2>2, <2>3, AgentStepType
<1>11. ASSUME NEW boot \in BootOf[a], LoseStale(a, boot)
       PROVE  TypeOK'
  BY <1>0, <1>11, StepType, TypedAgents DEF LoseStale, TypeOK
<1> QED
  BY <1>1, <1>2, <1>3, <1>4, <1>5, <1>6, <1>7, <1>8, <1>9, <1>10, <1>11

\* Closing assignments and refreshing their agents, with any typed result for
\* the work items, keeps TypeOK.
LEMMA CloseStepType ==
    ASSUME TypeOK, NEW ids, NEW st \in TerminalStates,
           UNCHANGED <<sched, now, fenced, call>>, asg' = Closed(ids, st),
           agents' = AgentsAfter(Closed(ids, st), ids),
           work' \in [Work -> WorkRecord]
    PROVE  TypeOK'
<1>1. AssignmentMap(Closed(ids, st)) /\ DOMAIN Closed(ids, st) = DOMAIN asg
  BY ClosedType DEF TypeOK
<1>2. AgentsTyped(AgentsAfter(Closed(ids, st), ids))
  BY <1>1, TypedAgents, AgentsAfterTyped
<1> QED
  BY <1>1, <1>2, StepType DEF TypeOK

\* The work items after a closing are typed.
LEMMA ClosedWorkType ==
    ASSUME TypeOK, NEW ids, NEW st \in TerminalStates
    PROVE  /\ WorkAfter(Closed(ids, st), ids) \in [Work -> WorkRecord]
           /\ \A w \in Work : WorkKept(work[w], WorkAfter(Closed(ids, st), ids)[w])
  BY ClosedType, WorkAfterType DEF TypeOK

\* Starting a work item over at a new generation keeps TypeOK.
LEMMA ReadmitType ==
    ASSUME TypeOK, NEW w \in Work, NEW g \in Nat, NEW r \in Requests,
           Readmit(w, g, r)
    PROVE  TypeOK'
<1>1. Admitted(w, g, r) \in WorkRecord
  BY Inputs DEF Admitted, WorkRecord, WorkLifecycles, TypeOK
<1>2. "Superseded" \in TerminalStates
  BY DEF TerminalStates
<1>3. work' \in [Work -> WorkRecord]
  BY <1>1 DEF Readmit, TypeOK
<1> QED
  BY <1>2, <1>3, CloseStepType DEF Readmit

\* Every work handler keeps TypeOK.
LEMMA WorkNextType ==
    ASSUME TypeOK, WorkNext
    PROVE  TypeOK'
<1>1. ASSUME NEW w \in Work, NEW g \in 1..MaxWorkGen, NEW r \in Requests,
             submit_work(w, g, r) \/ supersede_work(w, g, r)
      PROVE  TypeOK'
  <2>1. g \in Nat
    BY Bounds
  <2> QED
    BY <1>1, <2>1, ReadmitType DEF submit_work, supersede_work
<1>2. ASSUME NEW w \in Work, cancel_work(w)
      PROVE  TypeOK'
  <2>1. "Cancelled" \in TerminalStates
    BY DEF TerminalStates
  <2>2. work' \in [Work -> WorkRecord]
    BY <1>2, <2>1, ClosedWorkType DEF cancel_work, WorkRecord, WorkLifecycles
  <2> QED
    BY <1>2, <2>1, <2>2, CloseStepType DEF cancel_work
<1>3. ASSUME expire_deadlines
      PROVE  TypeOK'
  <2> DEFINE late == {w \in Work : /\ KnownWork(w)
                                   /\ work[w].lifecycle \notin TerminalWork
                                   /\ DeadlinePassed(w)}
             old == UNION {OnWork(asg, w) : w \in late}
             after == WorkAfter(Closed(old, "Expired"), old)
  <2>1. "Expired" \in TerminalStates
    BY DEF TerminalStates
  <2>2. /\ asg' = Closed(old, "Expired")
        /\ agents' = AgentsAfter(Closed(old, "Expired"), old)
        /\ work' = [w \in Work |-> IF w \in late
                                   THEN [after[w] EXCEPT !.lifecycle = "Expired"]
                                   ELSE work[w]]
        /\ UNCHANGED <<sched, now, fenced, call>>
    BY <1>3 DEF expire_deadlines
  <2>3. after \in [Work -> WorkRecord]
    BY <2>1, ClosedWorkType
  <2> HIDE DEF after, old, late
  <2>4. work' \in [Work -> WorkRecord]
    BY <2>2, <2>3 DEF WorkRecord, WorkLifecycles, TypeOK
  <2> QED
    BY <2>1, <2>2, <2>4, CloseStepType
<1> QED
  BY <1>1, <1>2, <1>3 DEF WorkNext

\* Closing, as CloseAssignments does it, keeps TypeOK.
LEMMA CloseAssignmentsType ==
    ASSUME TypeOK, NEW ids, NEW st \in TerminalStates, CloseAssignments(ids, st),
           UNCHANGED <<sched, now, fenced, call>>
    PROVE  TypeOK'
  BY CloseStepType, ClosedWorkType DEF CloseAssignments

\* What planning binds is a binding.
LEMMA BindingType ==
    ASSUME TypeOK, NEW w \in Work, NEW a \in Agent, Known(a)
    PROVE  build_binding(w, a) \in Binding
  BY Inputs DEF build_binding, Binding, TypeOK, SchedulerRecord, AgentRecord,
                WorkRecord, Evidence

\* Emplacing keeps every stored assignment and adds at most one.
LEMMA EmplacedType ==
    ASSUME AssignmentMap(asg), NEW b \in Binding, NEW expires \in Nat
    PROVE  /\ AssignmentMap(Emplaced(b, expires))
           /\ DOMAIN Emplaced(b, expires) = DOMAIN asg \cup {b}
           /\ \A x \in DOMAIN asg : Emplaced(b, expires)[x] = asg[x]
<1>1. IsFiniteSet(DOMAIN asg \cup {b})
  BY FS_AddElement DEF AssignmentMap
<1> QED
  BY <1>1 DEF AssignmentMap, Emplaced, AssignmentRecord, ActiveStates

\* A step that only changes what one caller carries keeps TypeOK.
LEMMA CallStepType ==
    ASSUME TypeOK, NEW c \in Caller, NEW m \in Calls,
           call' = [call EXCEPT ![c] = m],
           UNCHANGED <<sched, now, agents, fenced, work, asg>>
    PROVE  TypeOK'
<1>1. call' \in [Caller -> Calls]
  BY DEF TypeOK
<1> QED
  BY <1>1, TypedAgents, TypeParts DEF TypeOK

\* Idle is a call that carries nothing.
LEMMA IdleCall == Idle \in Calls
  BY DEF Calls

\* What a caller inside schedule() carries is a binding and an expiry.
LEMMA CarriedType ==
    ASSUME TypeOK, NEW c \in Caller
    PROVE  call[c].op = "schedule" => /\ call[c].b \in Binding
                                      /\ call[c].expires \in Nat
  BY DEF TypeOK, Calls, Idle

\* A commit keeps TypeOK.
LEMMA CommitType ==
    ASSUME TypeOK, NEW c \in Caller, commit_locked(c)
    PROVE  TypeOK'
<1> DEFINE b == call[c].b
           as == Emplaced(b, call[c].expires)
           stored == [work[b.work] EXCEPT !.lastGen = b.gen]
<1>1. b \in Binding /\ call[c].expires \in Nat
  BY CarriedType DEF commit_locked
<1>2. b.agent \in Agent /\ b.work \in Work /\ b.gen \in Nat
  BY <1>1 DEF Binding
<1>3. AssignmentMap(as) /\ DOMAIN as = DOMAIN asg \cup {b}
  BY <1>1, EmplacedType DEF TypeOK
<1>4. stored \in WorkRecord
  BY <1>2 DEF TypeOK, WorkRecord
<1>5. /\ asg' = as
      /\ work' = [work EXCEPT ![b.work] = RefreshedWork(as, stored, b.work)]
      /\ agents' = [agents EXCEPT ![b.agent] =
                      RefreshedAgent(as, agents[b.agent], b.agent)]
      /\ call' = [call EXCEPT ![c] = Idle]
      /\ UNCHANGED <<sched, now, fenced>>
      /\ CommitAllowed(b)
  BY <1>2 DEF commit_locked, TypeOK
<1>6. agents[b.agent].lifecycle # "Unregistered" /\ Known(b.agent)
  BY <1>5 DEF CommitAllowed, BoundAgentReady, AcceptsNewWork, Known
<1>7. /\ agents[b.agent] \in AgentRecord
      /\ agents[b.agent].boot \in BootOf[b.agent]
  BY <1>2, <1>6 DEF TypeOK
<1> HIDE DEF b, as, stored
<1>8. AgentsTyped(agents')
  BY <1>2, <1>3, <1>5, <1>6, <1>7, TypedAgents, StoredTyped
<1>9. RefreshedWork(as, stored, b.work) \in WorkRecord
  BY <1>3, <1>4, RefreshedWorkType
<1>10. work' \in [Work -> WorkRecord]
  BY <1>5, <1>9 DEF TypeOK
<1>11. call' \in [Caller -> Calls]
  BY <1>3, <1>5, IdleCall DEF TypeOK
<1> QED
  BY <1>3, <1>5, <1>8, <1>10, <1>11, TypeParts DEF TypeOK

\* A handoff keeps TypeOK.
LEMMA HandoffType ==
    ASSUME TypeOK, NEW c \in Caller, Handoff(c)
    PROVE  TypeOK'
<1>1. call[c].b \in DOMAIN asg
  BY DEF Handoff, HandoffAllowed
<1>2. now + AssignmentTtl \in Nat
  BY Bounds DEF TypeOK
<1>3. AssignmentMap(asg') /\ DOMAIN asg' = DOMAIN asg
  BY <1>1, <1>2 DEF Handoff, TypeOK, AssignmentMap, AssignmentRecord, ActiveStates
<1>4. call' \in [Caller -> Calls]
  BY <1>3, IdleCall DEF Handoff, TypeOK
<1> QED
  BY <1>3, <1>4, TypedAgents, TypeParts DEF Handoff, TypeOK

\* A step that replaces the assignment map by one with the same identities and
\* refreshes the agents and work items of `ids` keeps TypeOK.
LEMMA RefreshStepType ==
    ASSUME TypeOK, NEW ids, AssignmentMap(asg'), DOMAIN asg' = DOMAIN asg,
           agents' = agents \/ agents' = AgentsAfter(asg', ids),
           work' = work \/ work' = WorkAfter(asg', ids),
           UNCHANGED <<sched, now, fenced, call>>
    PROVE  TypeOK'
<1>1. AgentsTyped(agents')
  BY TypedAgents, AgentsAfterTyped
<1>2. work' \in [Work -> WorkRecord]
  BY WorkAfterType DEF TypeOK
<1> QED
  BY <1>1, <1>2, StepType DEF TypeOK

\* Moving one stored assignment to another state keeps the map's type.
LEMMA MovedType ==
    ASSUME TypeOK, NEW b \in DOMAIN asg, NEW st \in ActiveStates
    PROVE  /\ AssignmentMap([asg EXCEPT ![b].state = st])
           /\ DOMAIN [asg EXCEPT ![b].state = st] = DOMAIN asg
  BY DEF TypeOK, AssignmentMap, AssignmentRecord

\* Every report of an agent keeps TypeOK.
LEMMA ReportType ==
    ASSUME TypeOK, NEW b \in DOMAIN asg, Report(b)
    PROVE  TypeOK'
<1>0. /\ {"Expired", "Released", "Invalidated", "Completed", "Failed"} \subseteq TerminalStates
      /\ {"Acknowledged", "Executing"} \subseteq ActiveStates
      /\ b.work \in Work
  BY DEF TerminalStates, ActiveStates, TypeOK, AssignmentMap, Binding
<1>1. CASE acknowledge(b)
  <2>1. CASE CloseAssignments({b}, "Expired")
    BY <1>0, <1>1, <2>1, CloseAssignmentsType DEF acknowledge
  <2>2. CASE /\ asg' = [asg EXCEPT ![b].state = "Acknowledged"]
             /\ UNCHANGED <<agents, work>>
    BY <1>0, <1>1, <2>2, MovedType, RefreshStepType DEF acknowledge
  <2> QED
    BY <1>1, <2>1, <2>2 DEF acknowledge
<1>2. CASE mark_executing(b)
  <2>1. CASE CloseAssignments({b}, "Expired")
    BY <1>0, <1>2, <2>1, CloseAssignmentsType DEF mark_executing
  <2>2. CASE /\ asg' = [asg EXCEPT ![b].state = "Executing"]
             /\ work' = WorkAfter([asg EXCEPT ![b].state = "Executing"], {b})
             /\ UNCHANGED agents
    <3>1. work' = WorkAfter(asg', {b})
      BY <2>2, Zenon
    <3> QED
      BY <1>0, <1>2, <2>2, <3>1, MovedType, RefreshStepType DEF mark_executing
  <2> QED
    BY <1>2, <2>1, <2>2 DEF mark_executing
<1>3. ASSUME NEW st \in {"Released", "Invalidated"}, Return(b, st)
      PROVE  TypeOK'
  BY <1>0, <1>3, CloseAssignmentsType DEF Return
<1>4. ASSUME NEW st \in {"Completed", "Failed"}, Finish(b, st)
      PROVE  TypeOK'
  <2> DEFINE after == WorkAfter(Closed({b}, st), {b})
  <2>1. after \in [Work -> WorkRecord]
    BY <1>0, ClosedWorkType
  <2>2. /\ asg' = Closed({b}, st)
        /\ agents' = AgentsAfter(Closed({b}, st), {b})
        /\ work' = after \/ work' = [after EXCEPT ![b.work].lifecycle = st]
        /\ UNCHANGED <<sched, now, fenced, call>>
    BY <1>4 DEF Finish
  <2> HIDE DEF after
  <2>3. work' \in [Work -> WorkRecord]
    BY <1>0, <2>1, <2>2 DEF WorkRecord, WorkLifecycles
  <2> QED
    BY <1>0, <2>2, <2>3, CloseStepType
<1> QED
  BY <1>1, <1>2, <1>3, <1>4 DEF Report

\* Revalidating any set of stored assignments keeps TypeOK.
LEMMA RevalidateType ==
    ASSUME TypeOK, NEW examined, NEW promoted, Revalidate(examined, promoted)
    PROVE  TypeOK'
<1>1. now + AssignmentTtl \in Nat
  BY Bounds DEF TypeOK
<1>2. /\ AssignmentMap(Revalidated(examined, promoted))
      /\ DOMAIN Revalidated(examined, promoted) = DOMAIN asg
  BY <1>1 DEF Revalidated, TypeOK, AssignmentMap, AssignmentRecord, ActiveStates,
              TerminalStates
<1> QED
  BY <1>2, RefreshStepType DEF Revalidate

\* Every assignment handler keeps TypeOK.
LEMMA AssignmentNextType ==
    ASSUME TypeOK, AssignmentNext
    PROVE  TypeOK'
<1>1. ASSUME NEW c \in Caller, NEW w \in Work, plan_locked(c, w)
      PROVE  TypeOK'
  <2>1. PICK a \in Agent :
          /\ evaluate_eligibility(w, a)
          /\ call' = [call EXCEPT ![c] = [op |-> "schedule",
                                          b |-> build_binding(w, a),
                                          expires |-> now + AssignmentTtl]]
    BY <1>1 DEF plan_locked
  <2>2. Known(a) /\ now + AssignmentTtl \in Nat
    BY <2>1, Bounds DEF evaluate_eligibility, AcceptsNewWork, Known, TypeOK
  <2>3. build_binding(w, a) \in Binding
    BY <2>2, BindingType
  <2>4. [op |-> "schedule", b |-> build_binding(w, a), expires |-> now + AssignmentTtl]
          \in Calls
    BY <2>2, <2>3 DEF Calls
  <2> QED
    BY <1>1, <2>1, <2>4, CallStepType DEF plan_locked
<1>2. ASSUME NEW c \in Caller, CommitRejected(c) \/ HandoffRejected(c)
      PROVE  TypeOK'
  BY <1>2, IdleCall, CallStepType DEF CommitRejected, HandoffRejected
<1>3. ASSUME NEW c \in Caller, NEW b \in DOMAIN asg, dispatch(c, b)
      PROVE  TypeOK'
  <2>1. [op |-> "dispatch", b |-> b] \in Calls
    BY DEF Calls, TypeOK, AssignmentMap
  <2> QED
    BY <1>3, <2>1, CallStepType DEF dispatch
<1>4. ASSUME revalidate_assignments \/ \E a \in Agent : revalidate_agent_assignments(a)
      PROVE  TypeOK'
  BY <1>4, RevalidateType DEF revalidate_assignments, revalidate_agent_assignments
<1>5. ASSUME expire_leases
      PROVE  TypeOK'
  <2>1. "Expired" \in TerminalStates
    BY DEF TerminalStates
  <2> QED
    BY <1>5, <2>1, CloseAssignmentsType DEF expire_leases
<1> QED
  BY <1>1, <1>2, <1>3, <1>4, <1>5, CommitType, HandoffType, ReportType
     DEF AssignmentNext

\* Init is typed.
LEMMA InitType == Init => TypeOK
<1> SUFFICES ASSUME Init PROVE TypeOK
  OBVIOUS
<1>1. UnregisteredAgent \in AgentRecord /\ UnregisteredAgent.lifecycle = "Unregistered"
  BY DEF UnregisteredAgent, NoEvidence, AgentRecord, Evidence, Healths, Avails,
         AgentLifecycles
<1>2. UnknownWork \in WorkRecord
  BY DEF UnknownWork, NoRequest, WorkRecord, Request, WorkLifecycles
<1>3. AssignmentMap(asg)
  BY FS_EmptySet DEF Init, AssignmentMap
<1>4. /\ agents \in [Agent -> AgentRecord]
      /\ \A a \in Agent : ~Known(a)
  BY <1>1 DEF Init, Known
<1>5. call \in [Caller -> Calls]
  BY IdleCall DEF Init
<1>6. sched \in SchedulerRecord
  <2>1. ClosePolicies \subseteq BOOLEAN
    BY Inputs
  <2>2. PICK closes \in ClosePolicies :
          sched = [epoch |-> 1, coord |-> 0, policy |-> 1, running |-> FALSE,
                   admission |-> FALSE, shutting |-> FALSE, closes |-> closes]
    BY Zenon DEF Init
  <2> QED
    BY <2>1, <2>2 DEF SchedulerRecord
<1> QED
  BY <1>2, <1>3, <1>4, <1>5, <1>6 DEF Init, TypeOK

\* Every step of the scheduler keeps TypeOK.
LEMMA NextType ==
    ASSUME TypeOK, [Next]_vars
    PROVE  TypeOK'
<1>0. "Invalidated" \in TerminalStates
  BY DEF TerminalStates
<1>1. CASE start
  <2>1. sched' \in SchedulerRecord
    <3>1. sched \in SchedulerRecord /\ sched.coord + 1 \in Nat
      BY DEF TypeOK, SchedulerRecord
    <3> DEFINE counted == [sched EXCEPT !.coord = sched.coord + 1]
    <3>2. counted \in SchedulerRecord
      BY <3>1 DEF SchedulerRecord
    <3>3. sched' = [counted EXCEPT !.running = TRUE, !.admission = TRUE,
                                   !.shutting = FALSE]
      BY <1>1 DEF start
    <3> HIDE DEF counted
    <3> QED
      BY <3>2, <3>3 DEF SchedulerRecord
  <2> QED
    BY <1>1, <2>1, TypedAgents, TypeParts DEF start, TypeOK
<1>2. CASE Tick
  BY <1>2, TypedAgents, TypeParts DEF Tick, TypeOK
<1>3. ASSUME NEW ids, CloseAssignments(ids, "Invalidated"),
             UNCHANGED <<now, fenced, call>>,
             sched' \in SchedulerRecord
      PROVE  TypeOK'
  <2>1. /\ AssignmentMap(Closed(ids, "Invalidated"))
        /\ DOMAIN Closed(ids, "Invalidated") = DOMAIN asg
    BY <1>0, ClosedType DEF TypeOK
  <2>2. AgentsTyped(agents') /\ work' \in [Work -> WorkRecord]
    BY <1>0, <1>3, <2>1, TypedAgents, AgentsAfterTyped, ClosedWorkType
       DEF CloseAssignments
  <2> QED
    BY <1>3, <2>1, <2>2, TypeParts DEF CloseAssignments, TypeOK
<1>4. CASE shutdown
  <2>1. sched' \in SchedulerRecord
    BY <1>4 DEF shutdown, TypeOK, SchedulerRecord
  <2> QED
    BY <1>3, <1>4, <2>1 DEF shutdown
<1>5. ASSUME NEW g \in 1..MaxPolicyGen, NEW closes \in ClosePolicies,
             set_policy(g, closes)
      PROVE  TypeOK'
  <2>1. g \in Nat /\ closes \in BOOLEAN
    BY Bounds, Inputs
  <2>2. sched' \in SchedulerRecord
    BY <1>5, <2>1 DEF set_policy, TypeOK, SchedulerRecord
  <2> QED
    BY <1>3, <1>5, <2>2 DEF set_policy
<1>6. CASE UNCHANGED vars
  BY <1>6, TypedAgents, TypeParts DEF vars, TypeOK
<1> QED
  BY <1>1, <1>2, <1>4, <1>5, <1>6, AgentNextType, WorkNextType, AssignmentNextType
     DEF Next

\* Every reachable state is typed, whatever the instance: no handler stores a
\* record of the wrong shape or runs an agent as a boot nobody named for it.
THEOREM TypeCorrect == Spec => []TypeOK
  BY InitType, NextType, PTL DEF Spec

-----------------------------------------------------------------------------
(* Terminal assignments.                                                   *)

\* `as` has the assignments of asg, the terminal ones unchanged.
TerminalKept(as) ==
    /\ DOMAIN as = DOMAIN asg
    /\ \A b \in DOMAIN asg : asg[b].state \in TerminalStates => as[b] = asg[b]

\* No state is both active and terminal.
LEMMA StatesDisjoint == ActiveStates \cap TerminalStates = {}
  BY DEF ActiveStates, TerminalStates

\* Closing only ever touches active assignments.
LEMMA ClosedKept ==
    ASSUME NEW ids, NEW st
    PROVE  TerminalKept(Closed(ids, st))
  BY StatesDisjoint DEF TerminalKept, Closed

\* So does revalidating pending ones.
LEMMA RevalidatedKept ==
    ASSUME NEW examined \in SUBSET Pending, NEW promoted \in SUBSET examined
    PROVE  TerminalKept(Revalidated(examined, promoted))
  BY DEF TerminalKept, Revalidated, Pending, TerminalStates

\* No agent handler touches a terminal assignment.
LEMMA AgentNextKept ==
    ASSUME AgentNext
    PROVE  TerminalKept(asg')
<1>1. asg' = asg => TerminalKept(asg')
  BY DEF TerminalKept
<1>2. ASSUME NEW a \in Agent, NEW g, NEW at, publish_capabilities(a, g, at)
      PROVE  TerminalKept(asg')
  BY <1>2, StatesDisjoint DEF publish_capabilities, TerminalKept, OnAgent, ActiveIn
<1>3. asg' # asg => \/ \E a \in Agent : \E g, at : publish_capabilities(a, g, at)
                    \/ \E ids, st : asg' = Closed(ids, st)
  <2> SUFFICES ASSUME asg' # asg
               PROVE  \/ \E a \in Agent : \E g, at : publish_capabilities(a, g, at)
                      \/ \E ids, st : asg' = Closed(ids, st)
    OBVIOUS
  <2> PICK a \in Agent :
        \/ \E g \in 1..MaxAgentGen, boot \in BootOf[a], m \in Concurrency :
              Reincarnate(a, g, boot, m)
        \/ \E g \in 1..MaxCapGen, at \in 1..now : publish_capabilities(a, g, at)
        \/ \E force \in BOOLEAN : drain_agent(a, force) \/ deregister_agent(a, force)
        \/ LoseCurrent(a)
    BY DEF AgentNext, RegisterNew, Reregister, publish_health, publish_availability,
           heartbeat, LoseStale
  <2> QED
    BY DEF Reincarnate, drain_agent, deregister_agent, LoseCurrent
<1> QED
  BY <1>1, <1>2, <1>3, ClosedKept

\* No work handler touches a terminal assignment.
LEMMA WorkNextKept ==
    ASSUME WorkNext
    PROVE  TerminalKept(asg')
<1>1. \E ids, st : asg' = Closed(ids, st)
  BY DEF WorkNext, submit_work, supersede_work, Readmit, cancel_work,
         expire_deadlines
<1> QED
  BY <1>1, ClosedKept

\* No report touches a terminal assignment.
LEMMA ReportKept ==
    ASSUME TypeOK, NEW b \in DOMAIN asg, Report(b)
    PROVE  TerminalKept(asg')
<1>1. \/ \E ids, st : asg' = Closed(ids, st)
      \/ /\ asg[b].state \in ActiveStates
         /\ \E st : asg' = [asg EXCEPT ![b].state = st]
  BY DEF Report, acknowledge, mark_executing, Return, Finish, CloseAssignments,
         ActiveStates
<1>2. CASE /\ asg[b].state \in ActiveStates
           /\ \E st : asg' = [asg EXCEPT ![b].state = st]
  BY <1>2, StatesDisjoint DEF TerminalKept, TypeOK, AssignmentMap
<1> QED
  BY <1>1, <1>2, ClosedKept

\* No assignment handler touches a terminal assignment, and only a commit
\* stores a new one.
LEMMA AssignmentNextKept ==
    ASSUME TypeOK, AssignmentNext
    PROVE  TerminalKept(asg') \/ \E c \in Caller : commit_locked(c)
<1>1. asg' = asg => TerminalKept(asg')
  BY DEF TerminalKept
<1>2. ASSUME NEW c \in Caller, Handoff(c)
      PROVE  TerminalKept(asg')
  <2> DEFINE b == call[c].b
  <2>1. b \in DOMAIN asg /\ asg[b].state = "Assigned"
    BY <1>2 DEF Handoff, HandoffAllowed
  <2>2. PICK new : asg' = [asg EXCEPT ![b] = new]
    BY <1>2 DEF Handoff
  <2>3. asg[b].state \notin TerminalStates
    BY <2>1 DEF TerminalStates
  <2> HIDE DEF b
  <2> QED
    BY <2>1, <2>2, <2>3 DEF TerminalKept, TypeOK, AssignmentMap
<1>3. ASSUME revalidate_assignments
      PROVE  TerminalKept(asg')
  BY <1>3, RevalidatedKept DEF revalidate_assignments, Revalidate
<1>4. ASSUME NEW a \in Agent, revalidate_agent_assignments(a)
      PROVE  TerminalKept(asg')
  BY <1>4, RevalidatedKept DEF revalidate_agent_assignments, Revalidate
<1>5. ASSUME expire_leases
      PROVE  TerminalKept(asg')
  BY <1>5, ClosedKept DEF expire_leases, CloseAssignments
<1>6. ASSUME NEW c \in Caller,
             \/ \E w \in Work : plan_locked(c, w)
             \/ CommitRejected(c)
             \/ \E b \in DOMAIN asg : dispatch(c, b)
             \/ HandoffRejected(c)
      PROVE  asg' = asg
  BY <1>6 DEF plan_locked, CommitRejected, dispatch, HandoffRejected
<1> QED
  BY <1>1, <1>2, <1>3, <1>4, <1>5, <1>6, ReportKept DEF AssignmentNext

\* Every step but a commit keeps the identities and the terminal assignments.
LEMMA NextKept ==
    ASSUME TypeOK, [Next]_vars
    PROVE  TerminalKept(asg') \/ \E c \in Caller : commit_locked(c)
<1>1. asg' = asg => TerminalKept(asg')
  BY DEF TerminalKept
<1>2. ASSUME shutdown \/ \E g, closes : set_policy(g, closes)
      PROVE  TerminalKept(asg')
  <2>1. ASSUME NEW ids, CloseAssignments(ids, "Invalidated")
        PROVE  TerminalKept(asg')
    BY <2>1, ClosedKept DEF CloseAssignments
  <2> QED
    BY <1>2, <2>1 DEF shutdown, set_policy
<1>3. start \/ Tick \/ UNCHANGED vars => asg' = asg
  BY DEF start, Tick, vars
<1> QED
  BY <1>1, <1>2, <1>3, AgentNextKept, WorkNextKept, AssignmentNextKept DEF Next

\* The step keeps every stored assignment as it is and adds b.
Adds(b) ==
    /\ DOMAIN asg' = DOMAIN asg \cup {b}
    /\ \A x \in DOMAIN asg : asg'[x] = asg[x]

\* A commit changes no stored assignment and adds its binding.
LEMMA CommitStores ==
    ASSUME NEW c \in Caller, commit_locked(c)
    PROVE  Adds(call[c].b)
  BY DEF commit_locked, Emplaced, Adds

\* An assignment that is active after a step was active before it, or the
\* step is the commit that stores it.
LEMMA ActiveOrigin ==
    ASSUME TypeOK, [Next]_vars, NEW b \in ActiveIn(asg')
    PROVE  \/ b \in ActiveIn(asg)
           \/ \E c \in Caller : commit_locked(c) /\ b = call[c].b /\ b \notin DOMAIN asg
<1>1. CASE TerminalKept(asg')
  <2>1. b \in DOMAIN asg /\ asg[b].state \notin TerminalStates
    BY <1>1, StatesDisjoint DEF TerminalKept, ActiveIn
  <2> QED
    BY <2>1 DEF TypeOK, AssignmentMap, AssignmentRecord, ActiveIn
<1>2. ASSUME NEW c \in Caller, commit_locked(c)
      PROVE  b \in ActiveIn(asg) \/ (b = call[c].b /\ b \notin DOMAIN asg)
  <2>1. Adds(call[c].b)
    BY <1>2, CommitStores
  <2> QED
    BY <2>1 DEF ActiveIn, Adds
<1> QED
  BY <1>1, <1>2, NextKept

\* A terminal assignment is never revived, changed or forgotten, by whatever
\* handlers and however late a commit or a handoff comes.
THEOREM TerminalAssignmentsFinal == Spec => TerminalIsFinal
<1>1. ASSUME TypeOK, [Next]_vars
      PROVE  \A b \in DOMAIN asg :
                /\ b \in DOMAIN asg'
                /\ asg[b].state \in TerminalStates => asg'[b] = asg[b]
  BY <1>1, NextKept, CommitStores DEF TerminalKept, Adds
<1> QED
  BY <1>1, TypeCorrect, PTL DEF Spec, TerminalIsFinal

-----------------------------------------------------------------------------
(***************************************************************************)
(* Assignments never outlive what they were made for: an active one binds  *)
(* the current generation of live work, and exclusive work has one.        *)
(*                                                                         *)
(* Neither statement is inductive alone.  A commit stores what an earlier  *)
(* plan carries, so the invariant also says that a plan never runs ahead   *)
(* of the work's generation and agrees with its mode if it is not behind,  *)
(* and that work that expired under a plan is past its deadline as long as *)
(* the plan lives, which is how its commit recognises it.                  *)
(***************************************************************************)

PlannedWorkCurrent ==
    \A c \in Caller : call[c].op = "schedule" =>
        /\ KnownWork(call[c].b.work)
        /\ call[c].b.workGen <= work[call[c].b.work].gen
        /\ call[c].b.workGen = work[call[c].b.work].gen =>
              (call[c].b.exclusive <=> work[call[c].b.work].req.mode = "Exclusive")

ExpiredPlansLate ==
    \A c \in Caller :
        call[c].op = "schedule" /\ work[call[c].b.work].lifecycle = "Expired" =>
            DeadlinePassed(call[c].b.work)

WorkInv == /\ TypeOK
           /\ PlannedWorkCurrent
           /\ ExpiredPlansLate
           /\ ActiveWorkCurrent
           /\ ExclusiveAssignmentUnique

-----------------------------------------------------------------------------
(* What a step does to a work item.                                        *)

\* The step keeps generation and request of w and does not end it.
WorkSteady(w) ==
    /\ work'[w].gen = work[w].gen
    /\ work'[w].req = work[w].req
    /\ \A l \in {"Unknown", "Cancelled", "Expired"} :
          work'[w].lifecycle = l => work[w].lifecycle = l

\* A binding active in `as` is typed.
LEMMA ActiveTyped ==
    ASSUME TypeOK, NEW b \in ActiveIn(asg)
    PROVE  /\ b \in Binding /\ b.work \in Work /\ b.agent \in Agent
           /\ b \in DOMAIN asg
  BY DEF TypeOK, AssignmentMap, ActiveIn, Binding

\* Closing removes exactly `ids` from what is active.
LEMMA ClosedActive ==
    ASSUME NEW ids, NEW st \in TerminalStates
    PROVE  ActiveIn(Closed(ids, st)) \subseteq ActiveIn(asg) \ ids
  BY StatesDisjoint DEF ActiveIn, Closed

\* A kept work record is a steady one.
LEMMA KeptSteady ==
    ASSUME NEW w \in Work, WorkKept(work[w], work'[w])
    PROVE  WorkSteady(w)
  BY DEF WorkKept, WorkSteady

\* So is one that does not change.
LEMMA SameSteady ==
    ASSUME work' = work
    PROVE  \A w \in Work : WorkSteady(w)
  BY DEF WorkSteady

\* A step that makes nothing active, plans nothing and keeps the work items
\* steady preserves the invariant.
LEMMA SteadyStep ==
    ASSUME WorkInv, TypeOK', ActiveIn(asg') \subseteq ActiveIn(asg),
           \A w \in Work : WorkSteady(w),
           \A c \in Caller : \/ call'[c] = call[c] /\ now' >= now
                             \/ call'[c].op # "schedule"
    PROVE  WorkInv'
<1>1. PlannedWorkCurrent'
  <2> SUFFICES ASSUME NEW c \in Caller, call'[c].op = "schedule"
               PROVE  /\ KnownWork(call[c].b.work)'
                      /\ call'[c].b.workGen <= work'[call'[c].b.work].gen
                      /\ call'[c].b.workGen = work'[call'[c].b.work].gen =>
                           (call'[c].b.exclusive <=>
                              work'[call'[c].b.work].req.mode = "Exclusive")
    BY DEF PlannedWorkCurrent
  <2>1. call'[c] = call[c] /\ call[c].op = "schedule"
    OBVIOUS
  <2>2. call[c].b.work \in Work
    BY <2>1, CarriedType DEF Binding, WorkInv
  <2>3. WorkSteady(call[c].b.work)
    BY <2>2
  <2> QED
    BY <2>1, <2>3 DEF WorkInv, PlannedWorkCurrent, WorkSteady, KnownWork
<1>2. ExpiredPlansLate'
  <2> SUFFICES ASSUME NEW c \in Caller, call'[c].op = "schedule",
                      work'[call'[c].b.work].lifecycle = "Expired"
               PROVE  DeadlinePassed(call[c].b.work)'
    BY DEF ExpiredPlansLate
  <2> DEFINE w == call[c].b.work
  <2>1. call'[c] = call[c] /\ now' >= now /\ call[c].op = "schedule"
    OBVIOUS
  <2>2. w \in Work
    BY <2>1, CarriedType DEF Binding, WorkInv
  <2>3. WorkSteady(w) /\ DeadlinePassed(w)
    BY <2>1, <2>2 DEF WorkInv, ExpiredPlansLate, WorkSteady
  <2>4. now \in Nat /\ now' \in Nat /\ work[w].req.deadline \in Nat
    BY <2>2 DEF WorkInv, TypeOK, WorkRecord, Request
  <2> QED
    BY <2>1, <2>3, <2>4 DEF WorkSteady, DeadlinePassed
<1>3. ActiveWorkCurrent'
  <2> SUFFICES ASSUME NEW b \in ActiveIn(asg')
               PROVE  /\ work'[b.work].gen = b.workGen
                      /\ work'[b.work].lifecycle \notin
                           {"Unknown", "Cancelled", "Expired"}
                      /\ b.exclusive <=> work'[b.work].req.mode = "Exclusive"
    BY DEF ActiveWorkCurrent
  <2>1. b \in ActiveIn(asg) /\ b.work \in Work
    BY ActiveTyped DEF WorkInv
  <2>2. WorkSteady(b.work)
    BY <2>1
  <2> QED
    BY <2>1, <2>2 DEF WorkInv, ActiveWorkCurrent, WorkSteady
<1>4. ExclusiveAssignmentUnique'
  BY DEF WorkInv, ExclusiveAssignmentUnique
<1> QED
  BY <1>1, <1>2, <1>3, <1>4 DEF WorkInv

\* Work that starts over at a higher generation leaves no assignment behind.
LEMMA ReadmitInv ==
    ASSUME WorkInv, TypeOK', NEW w \in Work, NEW g \in Nat, NEW r \in Requests,
           g > work[w].gen, Readmit(w, g, r)
    PROVE  WorkInv'
<1> DEFINE old == OnWork(asg, w)
<1>0. /\ work \in [Work -> WorkRecord] /\ work[w].gen \in Nat
      /\ "Superseded" \in TerminalStates
  BY DEF WorkInv, TypeOK, WorkRecord, TerminalStates
<1>1. ActiveIn(asg') \subseteq ActiveIn(asg) \ old
  BY <1>0, ClosedActive DEF Readmit
<1>2. /\ work'[w].gen = g /\ work'[w].lifecycle = "Admitted"
      /\ \A x \in Work \ {w} : work'[x] = work[x]
      /\ call' = call /\ now' = now
  BY <1>0 DEF Readmit, Admitted
<1>3. PlannedWorkCurrent'
  <2> SUFFICES ASSUME NEW c \in Caller, call[c].op = "schedule"
               PROVE  /\ KnownWork(call[c].b.work)'
                      /\ call[c].b.workGen <= work'[call[c].b.work].gen
                      /\ call[c].b.workGen = work'[call[c].b.work].gen =>
                           (call[c].b.exclusive <=>
                              work'[call[c].b.work].req.mode = "Exclusive")
    BY <1>2 DEF PlannedWorkCurrent
  <2>1. /\ call[c].b.work \in Work /\ call[c].b.workGen \in Nat
        /\ call[c].b.workGen <= work[call[c].b.work].gen
    BY CarriedType DEF Binding, WorkInv, PlannedWorkCurrent
  <2>2. CASE call[c].b.work = w
    BY <1>0, <1>2, <2>1, <2>2 DEF KnownWork
  <2>3. CASE call[c].b.work # w
    BY <1>2, <2>1, <2>3 DEF WorkInv, PlannedWorkCurrent, KnownWork
  <2> QED
    BY <2>2, <2>3
<1>4. ExpiredPlansLate'
  <2> SUFFICES ASSUME NEW c \in Caller, call[c].op = "schedule",
                      work'[call[c].b.work].lifecycle = "Expired"
               PROVE  DeadlinePassed(call[c].b.work)'
    BY <1>2 DEF ExpiredPlansLate
  <2>1. call[c].b.work \in Work \ {w}
    BY <1>2, CarriedType DEF Binding, WorkInv
  <2> QED
    BY <1>2, <2>1 DEF WorkInv, ExpiredPlansLate, DeadlinePassed
<1>5. ActiveWorkCurrent'
  <2> SUFFICES ASSUME NEW b \in ActiveIn(asg')
               PROVE  /\ work'[b.work].gen = b.workGen
                      /\ work'[b.work].lifecycle \notin
                           {"Unknown", "Cancelled", "Expired"}
                      /\ b.exclusive <=> work'[b.work].req.mode = "Exclusive"
    BY DEF ActiveWorkCurrent
  <2>1. b \in ActiveIn(asg) /\ b.work \in Work /\ b.work # w
    BY <1>1, ActiveTyped DEF WorkInv, OnWork
  <2> QED
    BY <1>2, <2>1 DEF WorkInv, ActiveWorkCurrent
<1>6. ExclusiveAssignmentUnique'
  BY <1>1 DEF WorkInv, ExclusiveAssignmentUnique
<1> QED
  BY <1>3, <1>4, <1>5, <1>6 DEF WorkInv

\* A step that ends the work items `late`, each with all its assignments, and
\* keeps the others steady preserves the invariant.
LEMMA EndWorkInv ==
    ASSUME WorkInv, TypeOK', NEW late \in SUBSET Work,
           \A b \in ActiveIn(asg') : b \in ActiveIn(asg) /\ b.work \notin late,
           UNCHANGED <<now, call>>,
           \A w \in Work \ late : WorkSteady(w),
           \A w \in late : /\ KnownWork(w)
                           /\ work'[w].gen = work[w].gen
                           /\ work'[w].req = work[w].req
                           /\ work'[w].lifecycle # "Unknown"
                           /\ work'[w].lifecycle = "Expired" => DeadlinePassed(w)
    PROVE  WorkInv'
<1>1. PlannedWorkCurrent'
  <2> SUFFICES ASSUME NEW c \in Caller, call[c].op = "schedule"
               PROVE  /\ KnownWork(call[c].b.work)'
                      /\ call[c].b.workGen <= work'[call[c].b.work].gen
                      /\ call[c].b.workGen = work'[call[c].b.work].gen =>
                           (call[c].b.exclusive <=>
                              work'[call[c].b.work].req.mode = "Exclusive")
    BY DEF PlannedWorkCurrent
  <2>1. call[c].b.work \in Work
    BY CarriedType DEF Binding, WorkInv
  <2>2. /\ work'[call[c].b.work].gen = work[call[c].b.work].gen
        /\ work'[call[c].b.work].req = work[call[c].b.work].req
        /\ KnownWork(call[c].b.work) => KnownWork(call[c].b.work)'
    BY <2>1 DEF WorkSteady, KnownWork
  <2> QED
    BY <2>2 DEF WorkInv, PlannedWorkCurrent
<1>2. ExpiredPlansLate'
  <2> SUFFICES ASSUME NEW c \in Caller, call[c].op = "schedule",
                      work'[call[c].b.work].lifecycle = "Expired"
               PROVE  DeadlinePassed(call[c].b.work)'
    BY DEF ExpiredPlansLate
  <2>1. call[c].b.work \in Work
    BY CarriedType DEF Binding, WorkInv
  <2>2. DeadlinePassed(call[c].b.work)
    BY <2>1 DEF WorkInv, ExpiredPlansLate, WorkSteady
  <2>3. work'[call[c].b.work].req = work[call[c].b.work].req
    BY <2>1 DEF WorkSteady
  <2> QED
    BY <2>2, <2>3 DEF DeadlinePassed
<1>3. ActiveWorkCurrent'
  <2> SUFFICES ASSUME NEW b \in ActiveIn(asg')
               PROVE  /\ work'[b.work].gen = b.workGen
                      /\ work'[b.work].lifecycle \notin
                           {"Unknown", "Cancelled", "Expired"}
                      /\ b.exclusive <=> work'[b.work].req.mode = "Exclusive"
    BY DEF ActiveWorkCurrent
  <2>1. b \in ActiveIn(asg) /\ b.work \in Work \ late
    BY ActiveTyped DEF WorkInv
  <2>2. WorkSteady(b.work)
    BY <2>1
  <2> QED
    BY <2>1, <2>2 DEF WorkInv, ActiveWorkCurrent, WorkSteady
<1>4. ExclusiveAssignmentUnique'
  BY DEF WorkInv, ExclusiveAssignmentUnique
<1> QED
  BY <1>1, <1>2, <1>3, <1>4 DEF WorkInv

\* Every work handler preserves the invariant.
LEMMA WorkNextInv ==
    ASSUME WorkInv, TypeOK', WorkNext
    PROVE  WorkInv'
<1>1. ASSUME NEW w \in Work, NEW g \in 1..MaxWorkGen, NEW r \in Requests,
             submit_work(w, g, r) \/ supersede_work(w, g, r)
      PROVE  WorkInv'
  <2>1. g \in Nat
    BY Bounds
  <2> QED
    BY <1>1, <2>1, ReadmitInv DEF submit_work, supersede_work
<1>2. ASSUME NEW w \in Work, cancel_work(w)
      PROVE  WorkInv'
  <2> DEFINE old == OnWork(asg, w)
             after == WorkAfter(Closed(old, "Cancelled"), old)
  <2>1. "Cancelled" \in TerminalStates /\ TypeOK
    BY DEF TerminalStates, WorkInv
  <2>2. /\ after \in [Work -> WorkRecord]
        /\ \A x \in Work : WorkKept(work[x], after[x])
    BY <2>1, ClosedWorkType
  <2>3. \A b \in ActiveIn(asg') : b \in ActiveIn(asg) /\ b.work \notin {w}
    BY <1>2, <2>1, ClosedActive DEF cancel_work, OnWork
  <2>4. /\ work' = [after EXCEPT ![w].lifecycle = "Cancelled"]
        /\ KnownWork(w) /\ UNCHANGED <<now, call>>
    BY <1>2 DEF cancel_work
  <2> HIDE DEF after
  <2>5. \A x \in Work \ {w} : WorkSteady(x)
    BY <2>2, <2>4, KeptSteady
  <2>6. /\ work'[w].gen = work[w].gen /\ work'[w].req = work[w].req
        /\ work'[w].lifecycle = "Cancelled"
    BY <2>2, <2>4 DEF WorkRecord, WorkKept
  <2> QED
    BY <2>3, <2>4, <2>5, <2>6, EndWorkInv
<1>3. ASSUME expire_deadlines
      PROVE  WorkInv'
  <2> DEFINE late == {w \in Work : /\ KnownWork(w)
                                   /\ work[w].lifecycle \notin TerminalWork
                                   /\ DeadlinePassed(w)}
             old == UNION {OnWork(asg, w) : w \in late}
             after == WorkAfter(Closed(old, "Expired"), old)
  <2>1. "Expired" \in TerminalStates /\ TypeOK
    BY DEF TerminalStates, WorkInv
  <2>2. /\ after \in [Work -> WorkRecord]
        /\ \A x \in Work : WorkKept(work[x], after[x])
    BY <2>1, ClosedWorkType
  <2>3. /\ asg' = Closed(old, "Expired")
        /\ work' = [w \in Work |-> IF w \in late
                                   THEN [after[w] EXCEPT !.lifecycle = "Expired"]
                                   ELSE work[w]]
        /\ UNCHANGED <<now, call>>
    BY <1>3 DEF expire_deadlines
  <2>4. \A b \in ActiveIn(asg') : b \in ActiveIn(asg) /\ b.work \notin late
    BY <2>1, <2>3, ClosedActive DEF OnWork
  <2>5. late \in SUBSET Work /\ \A w \in late : KnownWork(w) /\ DeadlinePassed(w)
    OBVIOUS
  <2> HIDE DEF after, old, late
  <2>6. \A w \in Work \ late : WorkSteady(w)
    BY <2>3 DEF WorkSteady
  <2>7. ASSUME NEW w \in late
        PROVE  /\ work'[w].gen = work[w].gen /\ work'[w].req = work[w].req
               /\ work'[w].lifecycle = "Expired"
    BY <2>2, <2>3, <2>5 DEF WorkRecord, WorkKept
  <2> QED
    BY <2>3, <2>4, <2>5, <2>6, <2>7, EndWorkInv
<1> QED
  BY <1>1, <1>2, <1>3 DEF WorkNext

\* A step that keeps the terminal assignments makes none active.
LEMMA KeptShrinks ==
    ASSUME TypeOK, TerminalKept(asg')
    PROVE  ActiveIn(asg') \subseteq ActiveIn(asg)
  BY StatesDisjoint DEF TerminalKept, ActiveIn, TypeOK, AssignmentMap,
                        AssignmentRecord

\* Refreshing the work items of closed assignments keeps them steady.
LEMMA ClosedSteady ==
    ASSUME TypeOK, NEW ids, NEW st \in TerminalStates,
           work' = WorkAfter(Closed(ids, st), ids)
    PROVE  \A w \in Work : WorkSteady(w)
  BY ClosedWorkType, KeptSteady

\* Every agent handler keeps the work items steady.
LEMMA AgentNextSteady ==
    ASSUME TypeOK, AgentNext
    PROVE  /\ \A w \in Work : WorkSteady(w)
           /\ UNCHANGED <<sched, now, call>>
<1> PICK a \in Agent :
        \/ \E g \in 1..MaxAgentGen, boot \in BootOf[a], m \in Concurrency :
              RegisterNew(a, g, boot, m) \/ Reincarnate(a, g, boot, m)
        \/ \E m \in Concurrency : Reregister(a, m)
        \/ \E g \in 1..MaxCapGen, at \in 1..now : publish_capabilities(a, g, at)
        \/ \E v \in HealthReports, at \in 1..now : publish_health(a, v, at)
        \/ \E v \in AvailReports, at \in 1..now : publish_availability(a, v, at)
        \/ heartbeat(a)
        \/ \E force \in BOOLEAN : drain_agent(a, force) \/ deregister_agent(a, force)
        \/ LoseCurrent(a)
        \/ \E boot \in BootOf[a] : LoseStale(a, boot)
  BY DEF AgentNext
<1>1. UNCHANGED <<sched, now, call>>
  BY DEF RegisterNew, Reincarnate, Reregister, publish_capabilities, publish_health,
         publish_availability, heartbeat, drain_agent, deregister_agent,
         LoseCurrent, LoseStale
<1>2. {"Lost", "Invalidated"} \subseteq TerminalStates
  BY DEF TerminalStates
<1>3. ASSUME \/ \E g \in 1..MaxAgentGen, boot \in BootOf[a], m \in Concurrency :
                   Reincarnate(a, g, boot, m)
             \/ \E force \in BOOLEAN : drain_agent(a, force) \/ deregister_agent(a, force)
             \/ LoseCurrent(a)
      PROVE  \A w \in Work : WorkSteady(w)
  BY <1>2, <1>3, ClosedSteady
     DEF Reincarnate, drain_agent, deregister_agent, LoseCurrent
<1>4. ASSUME \/ \E g \in 1..MaxAgentGen, boot \in BootOf[a], m \in Concurrency :
                   RegisterNew(a, g, boot, m)
             \/ \E m \in Concurrency : Reregister(a, m)
             \/ \E g \in 1..MaxCapGen, at \in 1..now : publish_capabilities(a, g, at)
             \/ \E v \in HealthReports, at \in 1..now : publish_health(a, v, at)
             \/ \E v \in AvailReports, at \in 1..now : publish_availability(a, v, at)
             \/ heartbeat(a)
             \/ \E boot \in BootOf[a] : LoseStale(a, boot)
      PROVE  \A w \in Work : WorkSteady(w)
  BY <1>4, SameSteady DEF RegisterNew, Reregister, publish_capabilities,
     publish_health, publish_availability, heartbeat, LoseStale
<1> QED
  BY <1>1, <1>3, <1>4

\* Every report of an agent keeps the work items steady.
LEMMA ReportSteady ==
    ASSUME TypeOK, NEW b \in DOMAIN asg, Report(b)
    PROVE  /\ \A w \in Work : WorkSteady(w)
           /\ UNCHANGED <<sched, now, call>>
<1>0. /\ {"Expired", "Released", "Invalidated", "Completed", "Failed"}
            \subseteq TerminalStates
      /\ "Executing" \in ActiveStates
      /\ b.work \in Work
  BY DEF TerminalStates, ActiveStates, TypeOK, AssignmentMap, Binding
<1>1. UNCHANGED <<sched, now, call>>
  BY DEF Report, acknowledge, mark_executing, Return, Finish
<1>2. ASSUME NEW st \in TerminalStates, CloseAssignments({b}, st)
      PROVE  \A w \in Work : WorkSteady(w)
  BY <1>2, ClosedSteady DEF CloseAssignments
<1>3. CASE /\ mark_executing(b)
           /\ work' = WorkAfter([asg EXCEPT ![b].state = "Executing"], {b})
  BY <1>0, <1>1, <1>3, MovedType, WorkAfterType, KeptSteady DEF TypeOK
<1>4. ASSUME NEW st \in {"Completed", "Failed"}, Finish(b, st)
      PROVE  \A w \in Work : WorkSteady(w)
  <2> DEFINE after == WorkAfter(Closed({b}, st), {b})
  <2>1. /\ after \in [Work -> WorkRecord]
        /\ \A w \in Work : WorkKept(work[w], after[w])
    BY <1>0, ClosedWorkType
  <2>2. work' = after \/ work' = [after EXCEPT ![b.work].lifecycle = st]
    BY <1>4 DEF Finish
  <2> HIDE DEF after
  <2>3. CASE work' = after
    BY <2>1, <2>3, KeptSteady
  <2>4. CASE work' = [after EXCEPT ![b.work].lifecycle = st]
    <3> SUFFICES ASSUME NEW w \in Work PROVE WorkSteady(w)
      OBVIOUS
    <3>1. /\ work'[w].gen = after[w].gen /\ work'[w].req = after[w].req
          /\ work'[w].lifecycle = after[w].lifecycle \/ work'[w].lifecycle = st
      BY <1>0, <2>1, <2>4 DEF WorkRecord
    <3> QED
      BY <2>1, <3>1 DEF WorkKept, WorkSteady
  <2> QED
    BY <2>2, <2>3, <2>4
<1>5. CASE acknowledge(b) /\ work' = work
  BY <1>1, <1>5, SameSteady
<1>6. acknowledge(b) => work' = work \/ CloseAssignments({b}, "Expired")
  BY DEF acknowledge
<1>7. mark_executing(b) => \/ work' = WorkAfter([asg EXCEPT ![b].state = "Executing"], {b})
                           \/ CloseAssignments({b}, "Expired")
  BY DEF mark_executing
<1>8. ASSUME NEW st \in {"Released", "Invalidated"}, Return(b, st)
      PROVE  CloseAssignments({b}, st)
  BY <1>8 DEF Return
<1> QED
  BY <1>0, <1>1, <1>2, <1>3, <1>4, <1>5, <1>6, <1>7, <1>8 DEF Report

\* Revalidation keeps the work items steady.
LEMMA RevalidateSteady ==
    ASSUME TypeOK, NEW examined, NEW promoted, Revalidate(examined, promoted), TypeOK'
    PROVE  /\ \A w \in Work : WorkSteady(w)
           /\ UNCHANGED <<sched, now, call>>
<1>1. AssignmentMap(Revalidated(examined, promoted))
  BY DEF Revalidate, TypeOK
<1> QED
  BY <1>1, WorkAfterType, KeptSteady DEF Revalidate, TypeOK

\* A plan binds the work item as it is.
LEMMA PlanInv ==
    ASSUME WorkInv, TypeOK', NEW c \in Caller, NEW w \in Work, plan_locked(c, w)
    PROVE  WorkInv'
<1>1. PICK a \in Agent :
        call' = [call EXCEPT ![c] = [op |-> "schedule", b |-> build_binding(w, a),
                                     expires |-> now + AssignmentTtl]]
  BY DEF plan_locked
<1>2. /\ UNCHANGED <<sched, now, agents, fenced, work, asg>>
      /\ KnownWork(w) /\ work[w].lifecycle # "Expired"
  BY DEF plan_locked, PlanAllowed, TerminalWork
<1>3. /\ build_binding(w, a).work = w
      /\ build_binding(w, a).workGen = work[w].gen
      /\ build_binding(w, a).exclusive <=> work[w].req.mode = "Exclusive"
      /\ work[w].gen \in Nat
  BY DEF build_binding, WorkInv, TypeOK, WorkRecord, Request
<1>4. PlannedWorkCurrent'
  <2> SUFFICES ASSUME NEW d \in Caller, call'[d].op = "schedule"
               PROVE  /\ KnownWork(call'[d].b.work)
                      /\ call'[d].b.workGen <= work[call'[d].b.work].gen
                      /\ call'[d].b.workGen = work[call'[d].b.work].gen =>
                           (call'[d].b.exclusive <=>
                              work[call'[d].b.work].req.mode = "Exclusive")
    BY <1>2 DEF PlannedWorkCurrent, KnownWork
  <2>1. CASE d = c
    <3>1. call'[d].b = build_binding(w, a)
      BY <1>1, <2>1 DEF WorkInv, TypeOK
    <3> QED
      BY <1>2, <1>3, <3>1
  <2>2. CASE d # c
    BY <1>1, <2>2 DEF WorkInv, PlannedWorkCurrent, TypeOK
  <2> QED
    BY <2>1, <2>2
<1>5. ExpiredPlansLate'
  <2> SUFFICES ASSUME NEW d \in Caller, call'[d].op = "schedule",
                      work[call'[d].b.work].lifecycle = "Expired"
               PROVE  DeadlinePassed(call'[d].b.work)
    BY <1>2 DEF ExpiredPlansLate, DeadlinePassed
  <2>1. d # c
    BY <1>1, <1>2, <1>3 DEF WorkInv, TypeOK
  <2> QED
    BY <1>1, <2>1 DEF WorkInv, ExpiredPlansLate, TypeOK
<1> QED
  BY <1>2, <1>4, <1>5 DEF WorkInv, ActiveWorkCurrent, ExclusiveAssignmentUnique

\* A commit stores an assignment for the current generation of live work, and
\* for exclusive work only if nothing else is active.
LEMMA CommitInv ==
    ASSUME WorkInv, TypeOK', NEW c \in Caller, commit_locked(c),
           \A b \in ActiveIn(asg') : b \in ActiveIn(asg) \/ b = call[c].b
    PROVE  WorkInv'
<1> DEFINE b == call[c].b
           as == Emplaced(b, call[c].expires)
           stored == [work[b.work] EXCEPT !.lastGen = b.gen]
<1>1. /\ b \in Binding /\ call[c].expires \in Nat /\ TypeOK
      /\ call[c].op = "schedule"
  BY CarriedType DEF commit_locked, WorkInv
<1>2. b.work \in Work /\ b.gen \in Nat
  BY <1>1 DEF Binding
<1>3. AssignmentMap(as)
  BY <1>1, EmplacedType DEF TypeOK
<1>4. /\ stored \in WorkRecord
      /\ stored.gen = work[b.work].gen /\ stored.req = work[b.work].req
      /\ stored.lifecycle = work[b.work].lifecycle
  BY <1>1, <1>2 DEF TypeOK, WorkRecord
<1>5. /\ work' = [work EXCEPT ![b.work] = RefreshedWork(as, stored, b.work)]
      /\ call' = [call EXCEPT ![c] = Idle]
      /\ now' = now
      /\ CommitAllowed(b)
  BY <1>1, <1>2 DEF commit_locked, TypeOK
<1>6. /\ KnownWork(b.work)
      /\ work[b.work].gen = b.workGen
      /\ b.exclusive <=> work[b.work].req.mode = "Exclusive"
      /\ ~DeadlinePassed(b.work)
      /\ work[b.work].lifecycle # "Cancelled"
      /\ b.exclusive => ~\E x \in OnWork(asg, b.work) : x.exclusive
  BY <1>1, <1>5 DEF WorkInv, PlannedWorkCurrent, CommitAllowed, BoundWorkCurrent,
                        SlotOpen
<1>7. work[b.work].lifecycle \notin {"Unknown", "Cancelled", "Expired"}
  BY <1>1, <1>2, <1>6 DEF WorkInv, ExpiredPlansLate, KnownWork
<1> HIDE DEF b, as, stored
<1>8. WorkKept(stored, RefreshedWork(as, stored, b.work))
  BY <1>3, <1>4, <1>7, RefreshedWorkType
<1>9. \A w \in Work : WorkSteady(w)
  <2> SUFFICES ASSUME NEW w \in Work PROVE WorkSteady(w)
    OBVIOUS
  <2>1. CASE w = b.work
    <3>1. work'[w] = RefreshedWork(as, stored, b.work)
      BY <1>1, <1>2, <1>5, <2>1 DEF TypeOK
    <3>2. WorkKept(stored, work'[w])
      BY <1>8, <3>1
    <3> QED
      BY <1>4, <2>1, <3>2 DEF WorkKept, WorkSteady
  <2>2. CASE w # b.work
    BY <1>1, <1>5, <2>2 DEF TypeOK, WorkSteady
  <2> QED
    BY <2>1, <2>2
<1>10. PlannedWorkCurrent'
  <2> SUFFICES ASSUME NEW d \in Caller, call'[d].op = "schedule"
               PROVE  /\ KnownWork(call[d].b.work)'
                      /\ call'[d].b.workGen <= work'[call'[d].b.work].gen
                      /\ call'[d].b.workGen = work'[call'[d].b.work].gen =>
                           (call'[d].b.exclusive <=>
                              work'[call'[d].b.work].req.mode = "Exclusive")
    BY DEF PlannedWorkCurrent
  <2>1. call'[d] = call[d] /\ call[d].op = "schedule"
    BY <1>1, <1>5 DEF TypeOK, Idle
  <2>2. call[d].b.work \in Work
    BY <1>1, <2>1, CarriedType DEF Binding
  <2>3. WorkSteady(call[d].b.work)
    BY <1>9, <2>2
  <2> QED
    BY <2>1, <2>3 DEF WorkInv, PlannedWorkCurrent, WorkSteady, KnownWork
<1>11. ExpiredPlansLate'
  <2> SUFFICES ASSUME NEW d \in Caller, call'[d].op = "schedule",
                      work'[call'[d].b.work].lifecycle = "Expired"
               PROVE  DeadlinePassed(call[d].b.work)' /\ call'[d] = call[d]
    BY DEF ExpiredPlansLate
  <2>1. call'[d] = call[d] /\ call[d].op = "schedule"
    BY <1>1, <1>5 DEF TypeOK, Idle
  <2>2. call[d].b.work \in Work
    BY <1>1, <2>1, CarriedType DEF Binding
  <2>3. WorkSteady(call[d].b.work) /\ DeadlinePassed(call[d].b.work)
    BY <1>9, <2>1, <2>2 DEF WorkInv, ExpiredPlansLate, WorkSteady
  <2> QED
    BY <1>5, <2>1, <2>3 DEF WorkSteady, DeadlinePassed
<1>12. ASSUME NEW x \in ActiveIn(asg')
       PROVE  /\ x.work \in Work
              /\ work[x.work].gen = x.workGen
              /\ work[x.work].lifecycle \notin {"Unknown", "Cancelled", "Expired"}
              /\ x.exclusive <=> work[x.work].req.mode = "Exclusive"
  <2>1. CASE x = b
    BY <1>2, <1>6, <1>7, <2>1
  <2>2. CASE x \in ActiveIn(asg)
    BY <1>1, <2>2, ActiveTyped DEF WorkInv, ActiveWorkCurrent
  <2> QED
    BY <2>1, <2>2 DEF b
<1>13. ActiveWorkCurrent'
  <2> SUFFICES ASSUME NEW x \in ActiveIn(asg')
               PROVE  /\ work'[x.work].gen = x.workGen
                      /\ work'[x.work].lifecycle \notin
                           {"Unknown", "Cancelled", "Expired"}
                      /\ x.exclusive <=> work'[x.work].req.mode = "Exclusive"
    BY DEF ActiveWorkCurrent
  <2>1. WorkSteady(x.work)
    BY <1>9, <1>12
  <2> QED
    BY <1>12, <2>1 DEF WorkSteady
<1>14. ASSUME NEW x \in ActiveIn(asg), x.work = b.work, x.exclusive \/ b.exclusive
       PROVE  FALSE
  <2>1. x.exclusive <=> b.exclusive
    BY <1>6, <1>14 DEF WorkInv, ActiveWorkCurrent
  <2> QED
    BY <1>6, <1>14, <2>1 DEF OnWork
<1>15. ExclusiveAssignmentUnique'
  <2> SUFFICES ASSUME NEW x \in ActiveIn(asg'), NEW y \in ActiveIn(asg'),
                      x.exclusive, x.work = y.work
               PROVE  x = y
    BY DEF ExclusiveAssignmentUnique
  <2>1. /\ x \in ActiveIn(asg) \/ x = b
        /\ y \in ActiveIn(asg) \/ y = b
    BY DEF b
  <2>2. CASE x \in ActiveIn(asg) /\ y \in ActiveIn(asg)
    BY <2>2 DEF WorkInv, ExclusiveAssignmentUnique
  <2>3. CASE x = b /\ y \in ActiveIn(asg)
    BY <1>14, <2>3
  <2>4. CASE x \in ActiveIn(asg) /\ y = b
    BY <1>14, <2>4
  <2> QED
    BY <2>1, <2>2, <2>3, <2>4
<1> QED
  BY <1>10, <1>11, <1>13, <1>15 DEF WorkInv

\* Every assignment handler preserves the invariant.
LEMMA AssignmentNextInv ==
    ASSUME WorkInv, TypeOK', AssignmentNext
    PROVE  WorkInv'
<1>0. TypeOK /\ [Next]_vars /\ now \in Nat
  BY DEF WorkInv, TypeOK, Next
<1>1. ASSUME NEW c \in Caller, commit_locked(c)
      PROVE  WorkInv'
  <2>1. \A b \in ActiveIn(asg') : b \in ActiveIn(asg) \/ b = call[c].b
    BY <1>1, CommitStores DEF Adds, ActiveIn
  <2> QED
    BY <1>1, <2>1, CommitInv
<1>2. ASSUME ~\E c \in Caller : commit_locked(c), now' = now,
             \A w \in Work : WorkSteady(w),
             \A c \in Caller : call'[c] = call[c] \/ call'[c].op # "schedule"
      PROVE  WorkInv'
  <2>1. ActiveIn(asg') \subseteq ActiveIn(asg)
    BY <1>0, <1>2, AssignmentNextKept, KeptShrinks
  <2> QED
    BY <1>0, <1>2, <2>1, SteadyStep
<1>3. ASSUME NEW c \in Caller,
             \/ CommitRejected(c)
             \/ \E b \in DOMAIN asg : dispatch(c, b)
             \/ Handoff(c)
             \/ HandoffRejected(c)
      PROVE  /\ now' = now
             /\ \A w \in Work : WorkSteady(w)
             /\ \A d \in Caller : call'[d] = call[d] \/ call'[d].op # "schedule"
  <2>1. now' = now /\ work' = work
    BY <1>3 DEF CommitRejected, dispatch, Handoff, HandoffRejected
  <2>2. \A d \in Caller : call'[d] = call[d] \/ call'[d].op # "schedule"
    <3>1. PICK m : call' = [call EXCEPT ![c] = m] /\ m.op # "schedule"
      <4>1. CASE \E b \in DOMAIN asg : dispatch(c, b)
        <5>1. PICK x \in DOMAIN asg :
                call' = [call EXCEPT ![c] = [op |-> "dispatch", b |-> x]]
          BY <4>1 DEF dispatch
        <5>2. [op |-> "dispatch", b |-> x].op # "schedule"
          OBVIOUS
        <5> QED
          BY <5>1, <5>2
      <4>2. CASE CommitRejected(c) \/ Handoff(c) \/ HandoffRejected(c)
        BY <4>2 DEF CommitRejected, Handoff, HandoffRejected, Idle
      <4> QED
        BY <1>3, <4>1, <4>2
    <3> QED
      BY <1>0, <3>1 DEF TypeOK
  <2> QED
    BY <2>1, <2>2, SameSteady
<1>4. ASSUME expire_leases
      PROVE  /\ \A w \in Work : WorkSteady(w)
             /\ UNCHANGED <<sched, now, call>>
  <2>1. "Expired" \in TerminalStates
    BY DEF TerminalStates
  <2> QED
    BY <1>0, <1>4, <2>1, ClosedSteady DEF expire_leases, CloseAssignments
<1>5. ASSUME revalidate_assignments \/ \E a \in Agent : revalidate_agent_assignments(a)
      PROVE  /\ \A w \in Work : WorkSteady(w)
             /\ UNCHANGED <<sched, now, call>>
  <2>1. \E examined, promoted : Revalidate(examined, promoted)
    BY <1>5 DEF revalidate_assignments, revalidate_agent_assignments
  <2> QED
    BY <1>0, <2>1, RevalidateSteady
<1>6. ASSUME NEW b \in DOMAIN asg, Report(b)
      PROVE  /\ \A w \in Work : WorkSteady(w)
             /\ UNCHANGED <<sched, now, call>>
  BY <1>0, <1>6, ReportSteady
<1>7. CASE \E c \in Caller, w \in Work : plan_locked(c, w)
  BY <1>7, PlanInv
<1>8. CASE \/ \E b \in DOMAIN asg : Report(b)
           \/ revalidate_assignments
           \/ \E a \in Agent : revalidate_agent_assignments(a)
           \/ expire_leases
  BY <1>1, <1>2, <1>4, <1>5, <1>6, <1>8
<1>9. CASE \E c \in Caller : \/ CommitRejected(c)
                             \/ \E b \in DOMAIN asg : dispatch(c, b)
                             \/ Handoff(c)
                             \/ HandoffRejected(c)
  BY <1>1, <1>2, <1>3, <1>9
<1> QED
  BY <1>1, <1>7, <1>8, <1>9 DEF AssignmentNext

\* Every step preserves the invariant.
LEMMA WorkInvNext ==
    ASSUME WorkInv, [Next]_vars
    PROVE  WorkInv'
<1>0. TypeOK /\ TypeOK' /\ now \in Nat /\ now' \in Nat
  BY NextType DEF WorkInv, TypeOK
<1>1. ASSUME TerminalKept(asg'), \A w \in Work : WorkSteady(w), now' >= now,
             call' = call
      PROVE  WorkInv'
  BY <1>0, <1>1, KeptShrinks, SteadyStep
<1>2. CASE AgentNext
  BY <1>0, <1>1, <1>2, AgentNextKept, AgentNextSteady
<1>3. CASE start \/ Tick \/ UNCHANGED vars
  <2>1. TerminalKept(asg') /\ now' >= now /\ work' = work /\ call' = call
    BY <1>0, <1>3 DEF start, Tick, vars, TerminalKept
  <2> QED
    BY <1>1, <2>1, SameSteady
<1>4. CASE shutdown \/ \E g \in 1..MaxPolicyGen, closes \in ClosePolicies :
                          set_policy(g, closes)
  <2>1. "Invalidated" \in TerminalStates
    BY DEF TerminalStates
  <2>2. ASSUME NEW ids, CloseAssignments(ids, "Invalidated"), UNCHANGED <<now, call>>
        PROVE  WorkInv'
    BY <1>0, <1>1, <2>1, <2>2, ClosedKept, ClosedSteady DEF CloseAssignments
  <2> QED
    BY <1>4, <2>2 DEF shutdown, set_policy
<1> QED
  BY <1>0, <1>2, <1>3, <1>4, WorkNextInv, AssignmentNextInv DEF Next

\* The invariant holds initially: there is neither work nor an assignment.
LEMMA WorkInvInit == Init => WorkInv
<1> SUFFICES ASSUME Init PROVE WorkInv
  OBVIOUS
<1>1. ActiveIn(asg) = {} /\ \A c \in Caller : call[c].op # "schedule"
  BY DEF Init, ActiveIn, Idle
<1>2. \A w \in Work : work[w].lifecycle = "Unknown"
  BY DEF Init, UnknownWork
<1> QED
  BY <1>1, <1>2, InitType DEF WorkInv, PlannedWorkCurrent, ExpiredPlansLate,
                              ActiveWorkCurrent, ExclusiveAssignmentUnique

\* The invariant holds in every reachable state.
LEMMA WorkInvariant == Spec => []WorkInv
  BY WorkInvInit, WorkInvNext, PTL DEF Spec

\* Exclusive work never has two active assignments, for any number of agents,
\* callers and generations and however plans and commits interleave.
THEOREM ExclusiveAssignmentUniqueness == Spec => []ExclusiveAssignmentUnique
<1>1. WorkInv => ExclusiveAssignmentUnique
  BY DEF WorkInv
<1> QED
  BY <1>1, WorkInvariant, PTL

\* An active assignment is always for the current generation of work that is
\* neither cancelled nor expired, and of the mode that work has.
THEOREM ActiveWorkStaysCurrent == Spec => []ActiveWorkCurrent
<1>1. WorkInv => ActiveWorkCurrent
  BY DEF WorkInv
<1> QED
  BY <1>1, WorkInvariant, PTL

-----------------------------------------------------------------------------
(***************************************************************************)
(* The scheduler implements AssignmentLife.                                *)
(*                                                                         *)
(* All of it is a matter of looking at each handler but one thing: the     *)
(* code has a branch that makes a suspended assignment Assigned again.  It *)
(* is never taken.  An assignment is suspended when its agent's capability *)
(* generation has moved past the one it binds, or when a later epoch takes *)
(* it over from the state file; neither ever goes back (the capability     *)
(* generation not within an incarnation), and revalidation wants what is   *)
(* bound to equal what is current.  That is CapabilityOrdered.             *)
(***************************************************************************)

CapabilityOrdered ==
    \A b \in ActiveIn(asg) :
        /\ Known(b.agent)
        /\ b.agentGen <= agents[b.agent].gen
        /\ b.agentGen = agents[b.agent].gen =>
              /\ b.capGen <= agents[b.agent].capability.value
              /\ asg[b].state = "RevalidationRequired" =>
                    \/ b.epoch < sched.epoch
                    \/ b.capGen < agents[b.agent].capability.value

LifeInv == WorkInv /\ CapabilityOrdered

-----------------------------------------------------------------------------
(* Every assignment moves as a claim does.                                 *)

\* From asg to `as`, every assignment stays or takes one step of its life, and
\* none that is suspended gets a lease.
Moves(as) ==
    /\ DOMAIN as = DOMAIN asg
    /\ \A b \in DOMAIN asg :
          /\ \/ Stage(as[b].state) = Stage(asg[b].state)
             \/ Stage(as[b].state) \in Life!After(Stage(asg[b].state))
          /\ as[b].state = "RevalidationRequired" =>
                as[b] = asg[b] \/ ~as[b].leaseCurrent

\* A suspended assignment fails revalidation.
LEMMA SuspendedForGood ==
    ASSUME TypeOK, CapabilityOrdered, NEW b \in Pending
    PROVE  ~revalidate_authority(b)
<1>1. b \in ActiveIn(asg) /\ asg[b].state = "RevalidationRequired"
  BY DEF Pending, ActiveIn, ActiveStates
<1>2. /\ b.capGen \in Nat /\ b.epoch \in Nat /\ b.agent \in Agent
      /\ agents[b.agent].capability.value \in Nat
  BY <1>1, ActiveTyped DEF TypeOK, Binding, AgentRecord, Evidence
<1> QED
  BY <1>1, <1>2 DEF CapabilityOrdered, revalidate_authority, BoundEpochsCurrent

\* Nothing moves if the map does not change.
LEMMA StillMoves == asg' = asg => Moves(asg')
  BY DEF Moves

\* Closing an assignment ends it; only active ones are closed.
LEMMA ClosedMoves ==
    ASSUME NEW ids, NEW st \in TerminalStates
    PROVE  Moves(Closed(ids, st))
  BY DEF Moves, Closed, Stage, Life!After, TerminalStates, ActiveStates

\* Moving one assignment to a later state of the code.
LEMMA OneMoves ==
    ASSUME TypeOK, NEW b \in DOMAIN asg, NEW r,
           Stage(r.state) \in Life!After(Stage(asg[b].state)) \cup {Stage(asg[b].state)},
           r.state # "RevalidationRequired"
    PROVE  Moves([asg EXCEPT ![b] = r])
  BY DEF Moves, TypeOK, AssignmentMap

\* An agent handler ends assignments or suspends them.
LEMMA AgentNextMoves ==
    ASSUME TypeOK, AgentNext
    PROVE  Moves(asg')
<1>1. ASSUME NEW a \in Agent, NEW g, NEW at, publish_capabilities(a, g, at)
      PROVE  Moves(asg')
  <2> DEFINE moved == {b \in OnAgent(asg, a) : b.capGen # g}
  <2>1. asg' = [b \in DOMAIN asg |->
                  IF b \in moved
                  THEN [asg[b] EXCEPT !.state = "RevalidationRequired",
                                      !.leaseCurrent = FALSE]
                  ELSE asg[b]]
    BY <1>1 DEF publish_capabilities
  <2>2. \A b \in moved : b \in DOMAIN asg /\ asg[b].state \in ActiveStates
    BY DEF OnAgent, ActiveIn
  <2> HIDE DEF moved
  <2>3. ASSUME NEW b \in DOMAIN asg, b \in moved
        PROVE  /\ \/ Stage(asg'[b].state) = Stage(asg[b].state)
                  \/ Stage(asg'[b].state) \in Life!After(Stage(asg[b].state))
               /\ ~asg'[b].leaseCurrent
    <3>1. asg[b] \in AssignmentRecord
      BY DEF TypeOK, AssignmentMap
    <3>2. asg'[b].state = "RevalidationRequired" /\ ~asg'[b].leaseCurrent
      BY <2>1, <2>3, <3>1 DEF AssignmentRecord
    <3> QED
      BY <2>2, <2>3, <3>2 DEF ActiveStates, Stage, Life!After
  <2> QED
    BY <2>1, <2>3 DEF Moves
<1>2. ASSUME asg' # asg
      PROVE  \/ \E a \in Agent : \E g, at : publish_capabilities(a, g, at)
             \/ \E ids : \E st \in TerminalStates : asg' = Closed(ids, st)
  <2> PICK a \in Agent :
        \/ \E g \in 1..MaxAgentGen, boot \in BootOf[a], m \in Concurrency :
              Reincarnate(a, g, boot, m)
        \/ \E g \in 1..MaxCapGen, at \in 1..now : publish_capabilities(a, g, at)
        \/ \E force \in BOOLEAN : drain_agent(a, force) \/ deregister_agent(a, force)
        \/ LoseCurrent(a)
    BY <1>2 DEF AgentNext, RegisterNew, Reregister, publish_health,
                publish_availability, heartbeat, LoseStale
  <2>1. {"Lost", "Invalidated"} \subseteq TerminalStates
    BY DEF TerminalStates
  <2> QED
    BY <2>1 DEF Reincarnate, drain_agent, deregister_agent, LoseCurrent
<1> QED
  BY <1>1, <1>2, StillMoves, ClosedMoves

\* A work handler only ends assignments.
LEMMA WorkNextMoves ==
    ASSUME WorkNext
    PROVE  Moves(asg')
<1>1. {"Superseded", "Cancelled", "Expired"} \subseteq TerminalStates
  BY DEF TerminalStates
<1>2. \E ids : \E st \in TerminalStates : asg' = Closed(ids, st)
  BY <1>1 DEF WorkNext, submit_work, supersede_work, Readmit, cancel_work,
              expire_deadlines
<1> QED
  BY <1>2, ClosedMoves

\* A report moves the assignment it is about one stage on, or ends it.
LEMMA ReportMoves ==
    ASSUME TypeOK, NEW b \in DOMAIN asg, Report(b)
    PROVE  Moves(asg')
<1>0. {"Expired", "Released", "Invalidated", "Completed", "Failed"}
         \subseteq TerminalStates
  BY DEF TerminalStates
<1>1. \/ \E st \in TerminalStates : asg' = Closed({b}, st)
      \/ /\ asg[b].state = "Dispatched"
         /\ asg' = [asg EXCEPT ![b].state = "Acknowledged"]
      \/ /\ asg[b].state \in {"Dispatched", "Acknowledged", "Executing"}
         /\ asg' = [asg EXCEPT ![b].state = "Executing"]
  BY <1>0 DEF Report, acknowledge, mark_executing, Return, Finish, CloseAssignments
<1>2. asg[b] \in AssignmentRecord
  BY DEF TypeOK, AssignmentMap
<1>3. ASSUME NEW st, Stage(st) \in Life!After(Stage(asg[b].state))
                                     \cup {Stage(asg[b].state)},
             st # "RevalidationRequired"
      PROVE  Moves([asg EXCEPT ![b].state = st])
  <2>1. [asg[b] EXCEPT !.state = st].state = st
    BY <1>2 DEF AssignmentRecord
  <2> QED
    BY <1>3, <2>1, OneMoves
<1>4. CASE /\ asg[b].state = "Dispatched"
           /\ asg' = [asg EXCEPT ![b].state = "Acknowledged"]
  BY <1>3, <1>4 DEF Stage, Life!After
<1>5. CASE /\ asg[b].state \in {"Dispatched", "Acknowledged", "Executing"}
           /\ asg' = [asg EXCEPT ![b].state = "Executing"]
  BY <1>3, <1>5 DEF Stage, Life!After
<1> QED
  BY <1>1, <1>4, <1>5, ClosedMoves

\* Revalidation ends what it examines: nothing suspended passes it.
LEMMA RevalidateMoves ==
    ASSUME TypeOK, NEW examined \in SUBSET Pending, Revalidate(examined, {})
    PROVE  Moves(asg')
<1>1. asg' = [b \in DOMAIN asg |->
                IF b \in examined
                THEN [asg[b] EXCEPT !.state = "Invalidated", !.leaseCurrent = FALSE]
                ELSE asg[b]]
  BY DEF Revalidate, Revalidated
<1>2. \A b \in DOMAIN asg : asg[b] \in AssignmentRecord
  BY DEF TypeOK, AssignmentMap
<1> QED
  BY <1>1, <1>2 DEF Moves, Pending, AssignmentRecord, Stage, Life!After

\* An assignment handler moves assignments on, or it is a commit.
LEMMA AssignmentNextMoves ==
    ASSUME TypeOK, CapabilityOrdered, AssignmentNext
    PROVE  Moves(asg') \/ \E c \in Caller : commit_locked(c)
<1>1. ASSUME NEW c \in Caller, Handoff(c)
      PROVE  Moves(asg')
  <2> DEFINE b == call[c].b
             r == [state |-> "Dispatched", leaseCurrent |-> TRUE,
                   expires |-> now + AssignmentTtl]
  <2>1. /\ b \in DOMAIN asg /\ asg[b].state = "Assigned"
        /\ asg' = [asg EXCEPT ![b] = r]
    BY <1>1 DEF Handoff, HandoffAllowed
  <2>2. /\ Stage(r.state) \in Life!After(Stage(asg[b].state))
        /\ r.state # "RevalidationRequired"
    BY <2>1 DEF Stage, Life!After
  <2> HIDE DEF b, r
  <2> QED
    BY <2>1, <2>2, OneMoves
<1>2. ASSUME NEW examined \in SUBSET Pending, NEW promoted,
             \A b \in promoted : b \in Pending /\ revalidate_authority(b),
             Revalidate(examined, promoted)
      PROVE  Moves(asg')
  <2>1. promoted = {}
    BY <1>2, SuspendedForGood
  <2> QED
    BY <1>2, <2>1, RevalidateMoves
<1>3. ASSUME revalidate_assignments
      PROVE  Moves(asg')
  <2>1. PICK promoted \in SUBSET Pending :
          /\ \A b \in Pending : b \in promoted => revalidate_authority(b)
          /\ Revalidate(Pending, promoted)
    BY <1>3 DEF revalidate_assignments
  <2> QED
    BY <1>2, <2>1
<1>4. ASSUME NEW a \in Agent, revalidate_agent_assignments(a)
      PROVE  Moves(asg')
  <2> DEFINE mine == {b \in Pending : b.agent = a /\ b.boot = agents[a].boot}
  <2>1. PICK feasible \in SUBSET mine :
          Revalidate(mine, {b \in feasible : revalidate_authority(b)})
    BY <1>4 DEF revalidate_agent_assignments
  <2> QED
    BY <1>2, <2>1
<1>5. ASSUME expire_leases
      PROVE  Moves(asg')
  <2>1. "Expired" \in TerminalStates
    BY DEF TerminalStates
  <2> QED
    BY <1>5, <2>1, ClosedMoves DEF expire_leases, CloseAssignments
<1>6. ASSUME NEW c \in Caller,
             \/ \E w \in Work : plan_locked(c, w)
             \/ CommitRejected(c)
             \/ \E b \in DOMAIN asg : dispatch(c, b)
             \/ HandoffRejected(c)
      PROVE  asg' = asg
  BY <1>6 DEF plan_locked, CommitRejected, dispatch, HandoffRejected
<1> QED
  BY <1>1, <1>3, <1>4, <1>5, <1>6, StillMoves, ReportMoves DEF AssignmentNext

\* Every step moves assignments on, or it is a commit.
LEMMA NextMoves ==
    ASSUME TypeOK, CapabilityOrdered, [Next]_vars
    PROVE  Moves(asg') \/ \E c \in Caller : commit_locked(c)
<1>1. ASSUME shutdown \/ \E g, closes : set_policy(g, closes)
      PROVE  Moves(asg')
  <2>1. "Invalidated" \in TerminalStates
    BY DEF TerminalStates
  <2> QED
    BY <1>1, <2>1, ClosedMoves DEF shutdown, set_policy, CloseAssignments
<1>2. start \/ Tick \/ UNCHANGED vars => asg' = asg
  BY DEF start, Tick, vars
<1> QED
  BY <1>1, <1>2, StillMoves, AgentNextMoves, WorkNextMoves, AssignmentNextMoves
     DEF Next

-----------------------------------------------------------------------------
(* Capability generations of the active assignments stay ordered.          *)

\* The step leaves a registered agent registered, as the same incarnation and
\* with the same capability generation.
Same(a) ==
    /\ Known(a) => Known(a)'
    /\ agents'[a].gen = agents[a].gen
    /\ agents'[a].capability.value = agents[a].capability.value

\* Between asg and `as` nothing becomes active and nothing is suspended.
Settled(as) ==
    \A b \in ActiveIn(as) :
        /\ b \in ActiveIn(asg)
        /\ as[b].state = "RevalidationRequired" =>
              asg[b].state = "RevalidationRequired"

\* Closing suspends nothing.
LEMMA ClosedSettled ==
    ASSUME NEW ids, NEW st \in TerminalStates
    PROVE  Settled(Closed(ids, st))
  BY StatesDisjoint DEF Settled, Closed, ActiveIn

\* Neither does a step that leaves the assignments alone.
LEMMA StillSettled == asg' = asg => Settled(asg')
  BY DEF Settled

\* A step after which no assignment is suspended that was not, and every agent
\* is as it was or a later incarnation, preserves the order.
LEMMA SettledOrdered ==
    ASSUME TypeOK, TypeOK', CapabilityOrdered, Settled(asg'),
           sched'.epoch = sched.epoch,
           \A a \in Agent :
              \/ Same(a)
              \/ ~Known(a)
              \/ Known(a)' /\ agents'[a].gen > agents[a].gen
    PROVE  CapabilityOrdered'
<1> SUFFICES ASSUME NEW b \in ActiveIn(asg')
             PROVE  /\ Known(b.agent)'
                    /\ b.agentGen <= agents'[b.agent].gen
                    /\ b.agentGen = agents'[b.agent].gen =>
                          /\ b.capGen <= agents'[b.agent].capability.value
                          /\ asg'[b].state = "RevalidationRequired" =>
                                \/ b.epoch < sched'.epoch
                                \/ b.capGen < agents'[b.agent].capability.value
  BY DEF CapabilityOrdered
<1>1. /\ b \in ActiveIn(asg) /\ b.agent \in Agent
      /\ asg'[b].state = "RevalidationRequired" => asg[b].state = "RevalidationRequired"
  BY ActiveTyped DEF Settled
<1>2. /\ b.agentGen \in Nat
      /\ agents[b.agent].gen \in Nat /\ agents'[b.agent].gen \in Nat
  BY <1>1, ActiveTyped DEF TypeOK, Binding, AgentRecord
<1>3. Known(b.agent)
  BY <1>1 DEF CapabilityOrdered
<1>4. CASE Same(b.agent)
  BY <1>1, <1>3, <1>4 DEF CapabilityOrdered, Same
<1>5. CASE Known(b.agent)' /\ agents'[b.agent].gen > agents[b.agent].gen
  BY <1>1, <1>2, <1>5 DEF CapabilityOrdered
<1> QED
  BY <1>1, <1>3, <1>4, <1>5

\* What AgentKept keeps makes an agent the same.
LEMMA KeptSame ==
    ASSUME NEW a \in Agent, AgentKept(agents[a], agents'[a])
    PROVE  Same(a)
  BY DEF AgentKept, Same, Known

\* Refreshing the agents of some assignments leaves all agents the same.
LEMMA AfterSame ==
    ASSUME TypeOK, NEW as, AssignmentMap(as), NEW ids, agents' = AgentsAfter(as, ids)
    PROVE  \A a \in Agent : Same(a)
  BY AgentsAfterType, KeptSame DEF TypeOK

\* So does storing a refreshed record of the same incarnation.
LEMMA StoredSame ==
    ASSUME TypeOK, NEW as, AssignmentMap(as), NEW a \in Agent, NEW ag,
           ag \in [Agent -> AgentRecord],
           \A x \in Agent : AgentKept(agents[x], ag[x]),
           NEW r \in AgentRecord, r.lifecycle # "Unregistered",
           r.gen = agents[a].gen, r.capability.value = agents[a].capability.value,
           agents' = [ag EXCEPT ![a] = RefreshedAgent(as, r, a)]
    PROVE  \A x \in Agent : Same(x)
<1> SUFFICES ASSUME NEW x \in Agent PROVE Same(x)
  OBVIOUS
<1>1. CASE x = a
  <2>1. AgentKept(r, agents'[a])
    BY RefreshedAgentType
  <2> QED
    BY <1>1, <2>1 DEF AgentKept, Same, Known
<1>2. CASE x # a
  BY <1>2, KeptSame
<1> QED
  BY <1>1, <1>2

\* A publication suspends exactly what binds another generation than the one it
\* stores, and it stores none that is older.
LEMMA PublishOrdered ==
    ASSUME TypeOK, TypeOK', CapabilityOrdered, NEW a \in Agent,
           NEW g \in 1..MaxCapGen, NEW at \in 1..now, publish_capabilities(a, g, at),
           sched'.epoch = sched.epoch
    PROVE  CapabilityOrdered'
<1> DEFINE r == [agents[a] EXCEPT !.capability = [value |-> g, current |-> TRUE,
                                                  at |-> at],
                                  !.recovered = FALSE]
           moved == {b \in OnAgent(asg, a) : b.capGen # g}
<1>1. g \in Nat /\ at \in Nat
  BY Bounds DEF TypeOK
<1>2. [value |-> g, current |-> TRUE, at |-> at] \in Evidence(Nat)
  BY <1>1 DEF Evidence
<1>3. /\ r \in AgentRecord /\ r.lifecycle # "Unregistered"
      /\ r.gen = agents[a].gen /\ r.capability.value = g
  BY <1>2 DEF TypeOK, AgentRecord, publish_capabilities, Known
<1>4. AgentKept(r, agents'[a]) /\ \A x \in Agent \ {a} : agents'[x] = agents[x]
  <2>1. AssignmentMap(asg')
    BY DEF TypeOK, AssignmentMap
  <2>2. agents' = [agents EXCEPT ![a] = RefreshedAgent(asg', r, a)]
    BY DEF publish_capabilities
  <2>3. AgentKept(r, RefreshedAgent(asg', r, a))
    BY <1>3, <2>1, RefreshedAgentType
  <2> QED
    BY <2>2, <2>3 DEF TypeOK
<1>5. /\ agents'[a].gen = agents[a].gen /\ agents'[a].capability.value = g
      /\ g >= agents[a].capability.value /\ Known(a) /\ Known(a)'
  BY <1>3, <1>4 DEF AgentKept, publish_capabilities, Known
<1>6. asg' = [b \in DOMAIN asg |->
                IF b \in moved
                THEN [asg[b] EXCEPT !.state = "RevalidationRequired",
                                    !.leaseCurrent = FALSE]
                ELSE asg[b]]
  BY DEF publish_capabilities
<1>7. ActiveIn(asg') = ActiveIn(asg)
  BY <1>6 DEF TypeOK, AssignmentMap, AssignmentRecord, ActiveIn, OnAgent, ActiveStates
<1> HIDE DEF r
<1> SUFFICES ASSUME NEW b \in ActiveIn(asg)
             PROVE  /\ Known(b.agent)'
                    /\ b.agentGen <= agents'[b.agent].gen
                    /\ b.agentGen = agents'[b.agent].gen =>
                          /\ b.capGen <= agents'[b.agent].capability.value
                          /\ asg'[b].state = "RevalidationRequired" =>
                                \/ b.epoch < sched'.epoch
                                \/ b.capGen < agents'[b.agent].capability.value
  BY <1>7 DEF CapabilityOrdered
<1>8. /\ b \in DOMAIN asg /\ b.agent \in Agent /\ b.capGen \in Nat
      /\ agents[b.agent].capability.value \in Nat
  BY ActiveTyped DEF TypeOK, Binding, AgentRecord, Evidence
<1>9. CASE b.agent # a
  <2>1. asg'[b] = asg[b]
    BY <1>6, <1>8, <1>9 DEF OnAgent
  <2> QED
    BY <1>4, <1>8, <1>9, <2>1 DEF CapabilityOrdered, Known
<1>10. CASE b.agent = a /\ b.capGen = g
  <2>1. asg'[b] = asg[b]
    BY <1>6, <1>8, <1>10
  <2> QED
    BY <1>1, <1>5, <1>8, <1>10, <2>1 DEF CapabilityOrdered
<1>11. CASE b.agent = a /\ b.capGen # g
  <2>1. b.agentGen = agents[a].gen => b.capGen <= agents[a].capability.value
    BY <1>11 DEF CapabilityOrdered
  <2> QED
    BY <1>1, <1>5, <1>8, <1>11, <2>1 DEF CapabilityOrdered
<1> QED
  BY <1>9, <1>10, <1>11

\* Every agent handler preserves the order.
LEMMA AgentNextOrdered ==
    ASSUME TypeOK, TypeOK', CapabilityOrdered, AgentNext, sched'.epoch = sched.epoch
    PROVE  CapabilityOrdered'
<1> PICK a \in Agent :
        \/ \E g \in 1..MaxAgentGen, boot \in BootOf[a], m \in Concurrency :
              RegisterNew(a, g, boot, m) \/ Reincarnate(a, g, boot, m)
        \/ \E m \in Concurrency : Reregister(a, m)
        \/ \E g \in 1..MaxCapGen, at \in 1..now : publish_capabilities(a, g, at)
        \/ \E v \in HealthReports, at \in 1..now : publish_health(a, v, at)
        \/ \E v \in AvailReports, at \in 1..now : publish_availability(a, v, at)
        \/ heartbeat(a)
        \/ \E force \in BOOLEAN : drain_agent(a, force) \/ deregister_agent(a, force)
        \/ LoseCurrent(a)
        \/ \E boot \in BootOf[a] : LoseStale(a, boot)
  BY DEF AgentNext
<1>0. /\ agents \in [Agent -> AgentRecord] /\ agents[a] \in AgentRecord
      /\ now \in Nat /\ AssignmentMap(asg)
      /\ \A x \in Agent : AgentKept(agents[x], agents[x])
      /\ {"Lost", "Invalidated"} \subseteq TerminalStates
  BY DEF TypeOK, AgentKept, TerminalStates
<1>1. ASSUME NEW g \in 1..MaxAgentGen, NEW boot \in BootOf[a],
             NEW m \in Concurrency, RegisterNew(a, g, boot, m)
      PROVE  CapabilityOrdered'
  <2>1. \A x \in Agent \ {a} : Same(x)
    BY <1>0, <1>1 DEF RegisterNew, Same, Known
  <2>2. ~Known(a) /\ asg' = asg
    BY <1>1 DEF RegisterNew
  <2> QED
    BY <2>1, <2>2, StillSettled, SettledOrdered
<1>2. ASSUME NEW g \in 1..MaxAgentGen, NEW boot \in BootOf[a],
             NEW m \in Concurrency, Reincarnate(a, g, boot, m)
      PROVE  CapabilityOrdered'
  <2> DEFINE gone == ActiveOfBoot(agents[a].boot)
             as == Closed(gone, "Lost")
  <2>1. /\ asg' = as /\ g > agents[a].gen
        /\ agents' = [AgentsAfter(as, gone) EXCEPT
                        ![a] = RefreshedAgent(as, FreshAgent(g, boot, m), a)]
    BY <1>2 DEF Reincarnate
  <2>2. AssignmentMap(as) /\ Settled(as)
    BY <1>0, ClosedType, ClosedSettled
  <2>3. /\ AgentsAfter(as, gone) \in [Agent -> AgentRecord]
        /\ \A x \in Agent : AgentKept(agents[x], AgentsAfter(as, gone)[x])
    BY <1>0, <2>2, AgentsAfterType
  <2>4. /\ FreshAgent(g, boot, m) \in AgentRecord
        /\ FreshAgent(g, boot, m).gen = g
        /\ FreshAgent(g, boot, m).lifecycle = "Registering"
    <3>1. g \in Nat /\ boot \in Boot /\ m \in Nat
      BY Inputs, Bounds
    <3> QED
      BY <1>0, <3>1, FreshAgentType
  <2> HIDE DEF gone, as
  <2>5. AgentKept(FreshAgent(g, boot, m), RefreshedAgent(as, FreshAgent(g, boot, m), a))
    BY <2>2, <2>4, RefreshedAgentType
  <2>6. Known(a)' /\ agents'[a].gen = g
    BY <2>1, <2>3, <2>4, <2>5 DEF AgentKept, Known
  <2>7. \A x \in Agent \ {a} : Same(x)
    BY <2>1, <2>3, KeptSame
  <2> QED
    BY <2>1, <2>2, <2>6, <2>7, SettledOrdered
<1>3. ASSUME NEW r \in AgentRecord, Known(a),
             r.lifecycle # "Unregistered", r.gen = agents[a].gen,
             r.capability.value = agents[a].capability.value,
             agents' = [agents EXCEPT ![a] = RefreshedAgent(asg, r, a)]
      PROVE  \A x \in Agent : Same(x)
  BY <1>0, <1>3, StoredSame
<1>4. ASSUME NEW r \in AgentRecord, NEW ids, NEW st \in TerminalStates,
             r.lifecycle # "Unregistered", r.gen = agents[a].gen,
             r.capability.value = agents[a].capability.value,
             asg' = Closed(ids, st),
             agents' = [AgentsAfter(Closed(ids, st), ids) EXCEPT
                          ![a] = RefreshedAgent(Closed(ids, st), r, a)]
      PROVE  CapabilityOrdered'
  <2>1. AssignmentMap(Closed(ids, st)) /\ Settled(Closed(ids, st))
    BY <1>0, ClosedType, ClosedSettled
  <2>2. /\ AgentsAfter(Closed(ids, st), ids) \in [Agent -> AgentRecord]
        /\ \A x \in Agent : AgentKept(agents[x], AgentsAfter(Closed(ids, st), ids)[x])
    BY <1>0, <2>1, AgentsAfterType
  <2>3. \A x \in Agent : Same(x)
    BY <1>4, <2>1, <2>2, StoredSame
  <2> QED
    BY <1>4, <2>1, <2>3, SettledOrdered
<1>5. ASSUME NEW m \in Concurrency, Reregister(a, m)
      PROVE  CapabilityOrdered'
  <2> DEFINE r == [agents[a] EXCEPT !.maxc = m, !.lease = now + RegistrationTtl,
                                    !.lifecycle = IF @ = "Lost"
                                                  THEN "RevalidationRequired" ELSE @]
  <2>0. Known(a)
    BY <1>5 DEF Reregister
  <2>1. m \in Nat /\ now + RegistrationTtl \in Nat
    BY <1>0, Inputs, Bounds
  <2>2. /\ r \in AgentRecord /\ r.lifecycle # "Unregistered"
        /\ r.gen = agents[a].gen
        /\ r.capability.value = agents[a].capability.value
    BY <1>0, <2>0, <2>1 DEF AgentRecord, AgentLifecycles, Known
  <2>3. asg' = asg /\ agents' = [agents EXCEPT ![a] = RefreshedAgent(asg, r, a)]
    BY <1>5 DEF Reregister
  <2> HIDE DEF r
  <2>4. \A x \in Agent : Same(x)
    BY <1>3, <2>0, <2>2, <2>3
  <2> QED
    BY <2>3, <2>4, StillSettled, SettledOrdered
<1>6. ASSUME NEW v \in HealthReports, NEW at \in 1..now, publish_health(a, v, at)
      PROVE  CapabilityOrdered'
  <2>0. Known(a)
    BY <1>6 DEF publish_health
  <2> DEFINE r == [agents[a] EXCEPT !.health = [value |-> v, current |-> TRUE, at |-> at],
                                    !.recovered = FALSE]
  <2>1. [value |-> v, current |-> TRUE, at |-> at] \in Evidence(Healths)
    BY <1>0, Inputs DEF Evidence
  <2>2. /\ r \in AgentRecord /\ r.lifecycle # "Unregistered"
        /\ r.gen = agents[a].gen
        /\ r.capability.value = agents[a].capability.value
    BY <1>0, <2>0, <2>1 DEF AgentRecord, Known
  <2>3. asg' = asg /\ agents' = [agents EXCEPT ![a] = RefreshedAgent(asg, r, a)]
    BY <1>6 DEF publish_health
  <2> HIDE DEF r
  <2>4. \A x \in Agent : Same(x)
    BY <1>3, <2>0, <2>2, <2>3
  <2> QED
    BY <2>3, <2>4, StillSettled, SettledOrdered
<1>7. ASSUME NEW v \in AvailReports, NEW at \in 1..now, publish_availability(a, v, at)
      PROVE  CapabilityOrdered'
  <2>0. Known(a)
    BY <1>7 DEF publish_availability
  <2> DEFINE r == [agents[a] EXCEPT !.avail = [value |-> v, current |-> TRUE, at |-> at],
                                    !.recovered = FALSE]
  <2>1. [value |-> v, current |-> TRUE, at |-> at] \in Evidence(Avails)
    BY <1>0, Inputs DEF Evidence
  <2>2. /\ r \in AgentRecord /\ r.lifecycle # "Unregistered"
        /\ r.gen = agents[a].gen
        /\ r.capability.value = agents[a].capability.value
    BY <1>0, <2>0, <2>1 DEF AgentRecord, Known
  <2>3. asg' = asg /\ agents' = [agents EXCEPT ![a] = RefreshedAgent(asg, r, a)]
    BY <1>7 DEF publish_availability
  <2> HIDE DEF r
  <2>4. \A x \in Agent : Same(x)
    BY <1>3, <2>0, <2>2, <2>3
  <2> QED
    BY <2>3, <2>4, StillSettled, SettledOrdered
<1>8. ASSUME heartbeat(a) \/ \E boot \in BootOf[a] : LoseStale(a, boot)
      PROVE  CapabilityOrdered'
  <2>1. \A x \in Agent : Same(x)
    BY <1>0, <1>8 DEF heartbeat, LoseStale, Same, Known, AgentRecord
  <2>2. asg' = asg
    BY <1>8 DEF heartbeat, LoseStale
  <2> QED
    BY <2>1, <2>2, StillSettled, SettledOrdered
<1>9. ASSUME NEW force \in BOOLEAN, drain_agent(a, force)
      PROVE  CapabilityOrdered'
  <2> DEFINE r == [agents[a] EXCEPT !.lifecycle = "Draining"]
             gone == IF force THEN ActiveOfBoot(agents[a].boot) ELSE {}
  <2>1. /\ r \in AgentRecord /\ r.lifecycle # "Unregistered"
        /\ r.gen = agents[a].gen
        /\ r.capability.value = agents[a].capability.value
    BY <1>0 DEF AgentRecord, AgentLifecycles
  <2>2. /\ asg' = Closed(gone, "Invalidated")
        /\ agents' = [AgentsAfter(Closed(gone, "Invalidated"), gone) EXCEPT
                        ![a] = RefreshedAgent(Closed(gone, "Invalidated"), r, a)]
    BY <1>9 DEF drain_agent
  <2> HIDE DEF r, gone
  <2> QED
    BY <1>0, <1>4, <2>1, <2>2
<1>10. ASSUME \/ \E force \in BOOLEAN : deregister_agent(a, force)
              \/ LoseCurrent(a)
       PROVE  CapabilityOrdered'
  <2> DEFINE Record(l) == [invalidate_dynamic_evidence(agents[a]) EXCEPT !.lifecycle = l]
  <2>1. ASSUME NEW l \in {"Lost", "Retired"}
        PROVE  /\ Record(l) \in AgentRecord /\ Record(l).lifecycle # "Unregistered"
               /\ Record(l).gen = agents[a].gen
               /\ Record(l).capability.value = agents[a].capability.value
    <3>1. l \in AgentLifecycles
      BY DEF AgentLifecycles
    <3>2. Record(l).capability.value = agents[a].capability.value
      BY <1>0 DEF invalidate_dynamic_evidence, Withdrawn, AgentRecord, Evidence
    <3> QED
      BY <1>0, <3>1, <3>2, EndedRecordType
  <2>2. \E ids : \E l \in {"Lost", "Retired"}, st \in {"Lost", "Invalidated"} :
           /\ asg' = Closed(ids, st)
           /\ agents' = [AgentsAfter(Closed(ids, st), ids) EXCEPT
                           ![a] = RefreshedAgent(Closed(ids, st), Record(l), a)]
    BY <1>10 DEF deregister_agent, LoseCurrent, EndedAgent
  <2> HIDE DEF Record
  <2>3. PICK ids : \E l \in {"Lost", "Retired"}, st \in {"Lost", "Invalidated"} :
           /\ asg' = Closed(ids, st)
           /\ agents' = [AgentsAfter(Closed(ids, st), ids) EXCEPT
                           ![a] = RefreshedAgent(Closed(ids, st), Record(l), a)]
    BY <2>2
  <2>4. PICK l \in {"Lost", "Retired"}, st \in {"Lost", "Invalidated"} :
           /\ asg' = Closed(ids, st)
           /\ agents' = [AgentsAfter(Closed(ids, st), ids) EXCEPT
                           ![a] = RefreshedAgent(Closed(ids, st), Record(l), a)]
    BY <2>3
  <2> QED
    BY <1>0, <1>4, <2>1, <2>4
<1> QED
  BY <1>1, <1>2, <1>5, <1>6, <1>7, <1>8, <1>9, <1>10, PublishOrdered

\* Closing assignments and refreshing their agents preserves the order.
LEMMA ClosedOrdered ==
    ASSUME TypeOK, TypeOK', CapabilityOrdered, NEW ids, NEW st \in TerminalStates,
           asg' = Closed(ids, st), agents' = AgentsAfter(Closed(ids, st), ids),
           sched'.epoch = sched.epoch
    PROVE  CapabilityOrdered'
<1>1. AssignmentMap(Closed(ids, st)) /\ Settled(Closed(ids, st))
  BY ClosedType, ClosedSettled DEF TypeOK
<1>2. \A a \in Agent : Same(a)
  BY <1>1, AfterSame
<1> QED
  BY <1>1, <1>2, SettledOrdered

\* So does a step that leaves the agents alone and suspends nothing.
LEMMA StillOrdered ==
    ASSUME TypeOK, TypeOK', CapabilityOrdered, agents' = agents, Settled(asg'),
           sched'.epoch = sched.epoch
    PROVE  CapabilityOrdered'
<1>1. \A a \in Agent : Same(a)
  BY DEF Same, Known
<1> QED
  BY <1>1, SettledOrdered

\* A commit stores an assignment that binds its agent's capability generation.
LEMMA CommitOrdered ==
    ASSUME TypeOK, TypeOK', CapabilityOrdered, NEW c \in Caller, commit_locked(c),
           sched'.epoch = sched.epoch
    PROVE  CapabilityOrdered'
<1> DEFINE b == call[c].b
           as == Emplaced(b, call[c].expires)
<1>1. /\ b \in Binding /\ call[c].expires \in Nat
      /\ CommitAllowed(b) /\ asg' = as
      /\ agents' = [agents EXCEPT ![b.agent] = RefreshedAgent(as, @, b.agent)]
  BY CarriedType DEF commit_locked
<1>2. /\ b.agent \in Agent /\ b.agentGen \in Nat /\ b.capGen \in Nat
      /\ AssignmentMap(asg)
  BY <1>1 DEF Binding, TypeOK
<1>3. /\ AssignmentMap(as)
      /\ DOMAIN as = DOMAIN asg \cup {b}
      /\ \A x \in DOMAIN asg : as[x] = asg[x]
  BY <1>1, <1>2, EmplacedType
<1>4. /\ agents[b.agent].gen = b.agentGen
      /\ agents[b.agent].capability.value = b.capGen
      /\ agents[b.agent].lifecycle # "Unregistered"
  BY <1>1 DEF CommitAllowed, BoundIncarnationCurrent, BoundAgentReady, AcceptsNewWork
<1>5. b \notin DOMAIN asg => as[b].state = "Assigned"
  BY DEF Emplaced
<1> HIDE DEF b, as
<1>6. AgentKept(agents[b.agent], RefreshedAgent(as, agents[b.agent], b.agent))
  BY <1>2, <1>3, <1>4, RefreshedAgentType DEF TypeOK
<1>7. \A a \in Agent : Same(a)
  <2>1. ASSUME NEW a \in Agent
        PROVE  AgentKept(agents[a], agents'[a])
    BY <1>1, <1>2, <1>6 DEF TypeOK, AgentKept
  <2> QED
    BY <2>1, KeptSame
<1> SUFFICES ASSUME NEW x \in ActiveIn(as)
             PROVE  /\ Known(x.agent)'
                    /\ x.agentGen <= agents'[x.agent].gen
                    /\ x.agentGen = agents'[x.agent].gen =>
                          /\ x.capGen <= agents'[x.agent].capability.value
                          /\ as[x].state = "RevalidationRequired" =>
                                \/ x.epoch < sched'.epoch
                                \/ x.capGen < agents'[x.agent].capability.value
  BY <1>1 DEF CapabilityOrdered
<1>8. CASE x \in DOMAIN asg
  <2>1. x \in ActiveIn(asg) /\ as[x] = asg[x]
    BY <1>3, <1>8 DEF ActiveIn
  <2>2. x.agent \in Agent
    BY <2>1, ActiveTyped
  <2> QED
    BY <1>7, <2>1, <2>2 DEF CapabilityOrdered, Same
<1>9. CASE x \notin DOMAIN asg
  <2>1. x = b /\ as[x].state = "Assigned"
    BY <1>3, <1>5, <1>9 DEF ActiveIn
  <2>2. Same(x.agent)
    BY <1>2, <1>7, <2>1
  <2> QED
    BY <1>2, <1>4, <2>1, <2>2 DEF Same, Known
<1> QED
  BY <1>8, <1>9

\* Every assignment handler preserves the order.
LEMMA AssignmentNextOrdered ==
    ASSUME TypeOK, TypeOK', CapabilityOrdered, AssignmentNext,
           sched'.epoch = sched.epoch
    PROVE  CapabilityOrdered'
<1>1. ASSUME NEW c \in Caller, Handoff(c)
      PROVE  CapabilityOrdered'
  <2> DEFINE b == call[c].b
  <2>1. /\ b \in DOMAIN asg /\ asg[b].state = "Assigned" /\ agents' = agents
        /\ asg' = [asg EXCEPT ![b] = [state |-> "Dispatched", leaseCurrent |-> TRUE,
                                      expires |-> now + AssignmentTtl]]
    BY <1>1 DEF Handoff, HandoffAllowed
  <2> HIDE DEF b
  <2>2. Settled(asg')
    BY <2>1 DEF Settled, ActiveIn, ActiveStates, TypeOK, AssignmentMap
  <2> QED
    BY <2>1, <2>2, StillOrdered
<1>2. ASSUME NEW examined \in SUBSET Pending, NEW promoted,
             \A b \in promoted : b \in Pending /\ revalidate_authority(b),
             Revalidate(examined, promoted)
      PROVE  CapabilityOrdered'
  <2>1. promoted = {}
    BY <1>2, SuspendedForGood
  <2>2. /\ asg' = Revalidated(examined, {})
        /\ agents' = AgentsAfter(asg', examined)
    BY <1>2, <2>1 DEF Revalidate
  <2>3. Settled(asg')
    BY <2>2 DEF Settled, Revalidated, Pending, ActiveIn, ActiveStates, TypeOK,
                AssignmentMap, AssignmentRecord
  <2>4. AssignmentMap(asg')
    BY DEF TypeOK, AssignmentMap
  <2>5. \A a \in Agent : Same(a)
    BY <2>2, <2>4, AfterSame
  <2> QED
    BY <2>3, <2>5, SettledOrdered
<1>3. ASSUME revalidate_assignments
      PROVE  CapabilityOrdered'
  <2>1. PICK promoted \in SUBSET Pending :
          /\ \A b \in Pending : b \in promoted => revalidate_authority(b)
          /\ Revalidate(Pending, promoted)
    BY <1>3 DEF revalidate_assignments
  <2> QED
    BY <1>2, <2>1
<1>4. ASSUME NEW a \in Agent, revalidate_agent_assignments(a)
      PROVE  CapabilityOrdered'
  <2> DEFINE mine == {b \in Pending : b.agent = a /\ b.boot = agents[a].boot}
  <2>1. PICK feasible \in SUBSET mine :
          Revalidate(mine, {b \in feasible : revalidate_authority(b)})
    BY <1>4 DEF revalidate_agent_assignments
  <2> QED
    BY <1>2, <2>1
<1>5. ASSUME expire_leases
      PROVE  CapabilityOrdered'
  <2>1. "Expired" \in TerminalStates
    BY DEF TerminalStates
  <2> QED
    BY <1>5, <2>1, ClosedOrdered DEF expire_leases, CloseAssignments
<1>6. ASSUME NEW c \in Caller,
             \/ \E w \in Work : plan_locked(c, w)
             \/ CommitRejected(c)
             \/ \E b \in DOMAIN asg : dispatch(c, b)
             \/ HandoffRejected(c)
      PROVE  CapabilityOrdered'
  <2>1. asg' = asg /\ agents' = agents
    BY <1>6 DEF plan_locked, CommitRejected, dispatch, HandoffRejected
  <2> QED
    BY <2>1, StillSettled, StillOrdered
<1>7. ASSUME NEW b \in DOMAIN asg, Report(b)
      PROVE  CapabilityOrdered'
  <2>0. {"Expired", "Released", "Invalidated", "Completed", "Failed"}
           \subseteq TerminalStates
    BY DEF TerminalStates
  <2>1. \/ \E st \in TerminalStates : /\ asg' = Closed({b}, st)
                                      /\ agents' = AgentsAfter(Closed({b}, st), {b})
        \/ /\ asg[b].state \in {"Dispatched", "Acknowledged", "Executing"}
           /\ \E st \in {"Acknowledged", "Executing"} :
                 asg' = [asg EXCEPT ![b].state = st]
           /\ agents' = agents
    BY <1>7, <2>0 DEF Report, acknowledge, mark_executing, Return, Finish,
                      CloseAssignments
  <2>2. CASE /\ asg[b].state \in {"Dispatched", "Acknowledged", "Executing"}
             /\ \E st \in {"Acknowledged", "Executing"} :
                   asg' = [asg EXCEPT ![b].state = st]
             /\ agents' = agents
    <3>1. Settled(asg')
      BY <2>2 DEF Settled, ActiveIn, ActiveStates, TypeOK, AssignmentMap,
                  AssignmentRecord
    <3> QED
      BY <2>2, <3>1, StillOrdered
  <2> QED
    BY <2>1, <2>2, ClosedOrdered
<1> QED
  BY <1>1, <1>3, <1>4, <1>5, <1>6, <1>7, CommitOrdered DEF AssignmentNext

\* No handler of the scheduler lifts a fence.
LEMMA FencesGrow == [Next]_vars => fenced \subseteq fenced'
<1>1. ASSUME NEW a \in Agent PROVE
        /\ \A g \in 1..MaxAgentGen, boot \in BootOf[a], m \in Concurrency :
              /\ RegisterNew(a, g, boot, m) => fenced \subseteq fenced'
              /\ Reincarnate(a, g, boot, m) => fenced \subseteq fenced'
        /\ \A force \in BOOLEAN :
              /\ drain_agent(a, force) => fenced \subseteq fenced'
              /\ deregister_agent(a, force) => fenced \subseteq fenced'
        /\ LoseCurrent(a) => fenced \subseteq fenced'
        /\ \A boot \in BootOf[a] : LoseStale(a, boot) => fenced \subseteq fenced'
  <2>1. \A g, boot, m : RegisterNew(a, g, boot, m) => fenced \subseteq fenced'
    BY DEF RegisterNew
  <2>2. \A g, boot, m : Reincarnate(a, g, boot, m) => fenced \subseteq fenced'
    BY DEF Reincarnate
  <2>3. \A force : drain_agent(a, force) => fenced \subseteq fenced'
    BY DEF drain_agent
  <2>4. \A force : deregister_agent(a, force) => fenced \subseteq fenced'
    BY DEF deregister_agent
  <2>5. LoseCurrent(a) => fenced \subseteq fenced'
    BY DEF LoseCurrent
  <2>6. \A boot : LoseStale(a, boot) => fenced \subseteq fenced'
    BY DEF LoseStale
  <2> QED
    BY <2>1, <2>2, <2>3, <2>4, <2>5, <2>6
<1>2. ASSUME NEW a \in Agent PROVE
        /\ \A m \in Concurrency : Reregister(a, m) => UNCHANGED fenced
        /\ \A g \in 1..MaxCapGen, at \in 1..now :
              publish_capabilities(a, g, at) => UNCHANGED fenced
        /\ \A v \in HealthReports, at \in 1..now :
              publish_health(a, v, at) => UNCHANGED fenced
        /\ \A v \in AvailReports, at \in 1..now :
              publish_availability(a, v, at) => UNCHANGED fenced
        /\ heartbeat(a) => UNCHANGED fenced
  BY DEF Reregister, publish_capabilities, publish_health, publish_availability,
         heartbeat
<1>3. AgentNext => fenced \subseteq fenced'
  BY <1>1, <1>2 DEF AgentNext
<1>4. WorkNext => UNCHANGED fenced
  BY DEF WorkNext, submit_work, supersede_work, Readmit, cancel_work,
         expire_deadlines
<1>5. AssignmentNext => UNCHANGED fenced
  BY DEF AssignmentNext, plan_locked, commit_locked, CommitRejected, dispatch,
         Handoff, HandoffRejected, Report, acknowledge, mark_executing, Return,
         Finish, revalidate_assignments, revalidate_agent_assignments, Revalidate,
         expire_leases
<1>6. start \/ shutdown \/ Tick \/ (\E g, closes : set_policy(g, closes))
        => UNCHANGED fenced
  BY DEF start, shutdown, Tick, set_policy
<1> QED
  BY <1>3, <1>4, <1>5, <1>6 DEF Next, vars

\* No step of the scheduler moves its epoch.
LEMMA EpochKept ==
    ASSUME TypeOK, [Next]_vars
    PROVE  sched'.epoch = sched.epoch
<1>0. sched \in SchedulerRecord
  BY DEF TypeOK
<1>1. CASE start \/ shutdown \/ Tick \/ UNCHANGED vars
  BY <1>0, <1>1 DEF start, shutdown, Tick, vars, SchedulerRecord
<1>2. CASE \E g \in 1..MaxPolicyGen, closes \in ClosePolicies : set_policy(g, closes)
  BY <1>0, <1>2 DEF set_policy, SchedulerRecord
<1>3. CASE AgentNext
  BY <1>3, AgentNextSteady
<1>4. CASE WorkNext
  BY <1>4 DEF WorkNext, submit_work, supersede_work, Readmit, cancel_work,
              expire_deadlines
<1>5. CASE AssignmentNext
  BY <1>5 DEF AssignmentNext, plan_locked, commit_locked, CommitRejected, dispatch,
              Handoff, HandoffRejected, Report, acknowledge, mark_executing, Return,
              Finish, revalidate_assignments, revalidate_agent_assignments,
              Revalidate, expire_leases
<1> QED
  BY <1>1, <1>2, <1>3, <1>4, <1>5 DEF Next

\* Every step preserves the order.
LEMMA OrderedNext ==
    ASSUME TypeOK, CapabilityOrdered, [Next]_vars
    PROVE  CapabilityOrdered'
<1>0. TypeOK' /\ sched'.epoch = sched.epoch
  BY NextType, EpochKept
<1>1. CASE start \/ Tick \/ UNCHANGED vars
  <2>1. asg' = asg /\ agents' = agents
    BY <1>1 DEF start, Tick, vars
  <2> QED
    BY <1>0, <2>1, StillSettled, StillOrdered
<1>2. CASE shutdown \/ \E g \in 1..MaxPolicyGen, closes \in ClosePolicies :
                          set_policy(g, closes)
  <2>1. "Invalidated" \in TerminalStates
    BY DEF TerminalStates
  <2> QED
    BY <1>0, <1>2, <2>1, ClosedOrdered
       DEF shutdown, set_policy, CloseAssignments
<1>3. CASE WorkNext
  <2>1. {"Superseded", "Cancelled", "Expired"} \subseteq TerminalStates
    BY DEF TerminalStates
  <2>2. \E ids : \E st \in TerminalStates :
           asg' = Closed(ids, st) /\ agents' = AgentsAfter(Closed(ids, st), ids)
    BY <1>3, <2>1 DEF WorkNext, submit_work, supersede_work, Readmit, cancel_work,
                      expire_deadlines
  <2> QED
    BY <1>0, <2>2, ClosedOrdered
<1> QED
  BY <1>0, <1>1, <1>2, <1>3, AgentNextOrdered, AssignmentNextOrdered
     DEF Next

\* Every step preserves the invariant.
LEMMA LifeInvNext ==
    ASSUME LifeInv, [Next]_vars
    PROVE  LifeInv'
  BY WorkInvNext, OrderedNext DEF LifeInv, WorkInv

\* The invariant holds in every reachable state.
LEMMA LifeInvariant == Spec => []LifeInv
<1>1. Init => LifeInv
  <2>1. Init => CapabilityOrdered
    BY DEF Init, CapabilityOrdered, ActiveIn
  <2> QED
    BY <2>1, WorkInvInit DEF LifeInv
<1> QED
  BY <1>1, LifeInvNext, PTL DEF Spec

-----------------------------------------------------------------------------
(* The refinement.                                                         *)

\* When a plan is committed, its work has no active assignment that excludes
\* it, and none that it excludes.
LEMMA CommitUnopposed ==
    ASSUME WorkInv, NEW c \in Caller, commit_locked(c),
           NEW x \in ActiveIn(asg), x.work = call[c].b.work
    PROVE  ~call[c].b.exclusive /\ ~x.exclusive
<1> DEFINE b == call[c].b
<1>1. /\ b.workGen = work[b.work].gen
      /\ b.exclusive => ~\E y \in OnWork(asg, b.work) : y.exclusive
      /\ call[c].op = "schedule"
  BY DEF commit_locked, CommitAllowed, BoundWorkCurrent, SlotOpen
<1>2. b.exclusive <=> work[b.work].req.mode = "Exclusive"
  BY <1>1 DEF WorkInv, PlannedWorkCurrent
<1>3. x.exclusive <=> work[b.work].req.mode = "Exclusive"
  BY DEF WorkInv, ActiveWorkCurrent
<1> QED
  BY <1>1, <1>2, <1>3 DEF OnWork

\* A commit grants a claim, or the claim was there already.
LEMMA CommitGrants ==
    ASSUME LifeInv, NEW c \in Caller, commit_locked(c)
    PROVE  Life!Grant \/ Life!Advance
<1> DEFINE b == call[c].b
<1>1. /\ asg' = Emplaced(b, call[c].expires)
      /\ Adds(b)
  BY CommitStores DEF commit_locked
<1>2. \A d \in ActiveIn(asg) : d.work = b.work => ~b.exclusive /\ ~d.exclusive
  BY CommitUnopposed DEF LifeInv
<1>3. b \notin DOMAIN asg => asg'[b].state = "Assigned"
  BY <1>1 DEF Emplaced
<1>4. \A d \in DOMAIN asg : Stage(asg[d].state) # "ended" => d \in ActiveIn(asg)
  BY DEF Stage, ActiveIn, ActiveStates
<1> HIDE DEF b
<1>5. CASE b \in DOMAIN asg
  BY <1>1, <1>5 DEF Adds, Life!Advance
<1>6. CASE b \notin DOMAIN asg
  <2>1. \A d \in Life!Open : d.work = b.work => ~b.exclusive /\ ~d.exclusive
    BY <1>2, <1>4 DEF Life!Open
  <2>2. /\ DOMAIN asg' = DOMAIN asg \cup {b}
        /\ \A x \in DOMAIN asg : asg'[x] = asg[x]
        /\ Stage(asg'[b].state) = "offered"
    BY <1>1, <1>3, <1>6 DEF Adds, Stage
  <2> QED
    BY <1>6, <2>1, <2>2 DEF Life!Grant
<1> QED
  BY <1>5, <1>6

\* Every step of the scheduler is a step of the life of assignments.
LEMMA StepImplements ==
    ASSUME LifeInv, [Next]_vars
    PROVE  Life!Grant \/ Life!Advance
<1>1. Moves(asg') \/ \E c \in Caller : commit_locked(c)
  BY NextMoves DEF LifeInv, WorkInv
<1>2. Moves(asg') => Life!Advance
  BY DEF Moves, Life!Advance
<1> QED
  BY <1>1, <1>2, CommitGrants

\* The scheduler implements AssignmentLife: for any number of agents, work
\* items and callers, assignments are offered one by one and beside no
\* exclusive claim, handed over at most once, and never come back.
THEOREM SchedulerImplementsLife == Spec => ImplementsLife
<1>1. Init => Life!LifeInit
  BY DEF Init, Life!LifeInit
<1>2. LifeInv /\ [Next]_vars => Life!Grant \/ Life!Advance
  BY StepImplements
<1> QED
  BY <1>1, <1>2, LifeInvariant, PTL DEF Spec, ImplementsLife, Life!LifeSpec

\* A suspended assignment is never promoted: the branch of revalidation that
\* would do so is dead code, whatever agents publish.
THEOREM SuspendedNeverPromoted == Spec => NeverPromoted
<1>1. ASSUME LifeInv, [Next]_vars
      PROVE  \A b \in DOMAIN asg :
                asg[b].state = "RevalidationRequired" /\ b \in DOMAIN asg' =>
                    asg'[b].state # "Assigned"
  <2>1. Moves(asg') \/ \E c \in Caller : commit_locked(c)
    BY <1>1, NextMoves DEF LifeInv, WorkInv
  <2>2. Moves(asg') => \A b \in DOMAIN asg :
                asg[b].state = "RevalidationRequired" => asg'[b].state # "Assigned"
    BY DEF Moves, Stage, Life!After
  <2>3. ASSUME NEW c \in Caller, commit_locked(c)
        PROVE  \A b \in DOMAIN asg : asg'[b] = asg[b]
    BY <2>3, CommitStores DEF Adds
  <2> QED
    BY <2>1, <2>2, <2>3
<1> QED
  BY <1>1, LifeInvariant, PTL DEF Spec, NeverPromoted

=============================================================================
