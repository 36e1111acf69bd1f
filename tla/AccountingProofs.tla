-------------------------- MODULE AccountingProofs --------------------------
(***************************************************************************)
(* Counts, limits, the indexes and queues that are kept beside, and the    *)
(* audit that recounts them all.                                           *)
(***************************************************************************)
EXTENDS AuthorityProofs, Bookkeeping, InvariantChecker

-----------------------------------------------------------------------------
(***************************************************************************)
(* The stored counters and the derived lifecycles agree with the           *)
(* assignments.                                                            *)
(*                                                                         *)
(* A refresh makes the record of one agent or work item agree, so what has *)
(* to be shown is that every handler refreshes everybody whose active      *)
(* assignments it changes.  Closing refreshes known agents and work only:  *)
(* that an active assignment never belongs to an unknown one is part of    *)
(* LifeInv.                                                                *)
(***************************************************************************)

\* Record r of agent a agrees with the assignments in `as`.
AgentAgrees(as, r, a) ==
    /\ r.active = Cardinality(OnAgent(as, a))
    /\ r.lifecycle = "Busy" => OnAgent(as, a) # {}
    /\ r.lifecycle = "Ready" => OnAgent(as, a) = {}

\* Record r of work item w agrees with the assignments in `as`.
WorkAgrees(as, r, w) ==
    /\ r.current = Cardinality(OnWork(as, w))
    /\ r.lifecycle = "Admitted" => OnWork(as, w) = {}
    /\ r.lifecycle \in {"Assigned", "Executing"} => OnWork(as, w) # {}

AgentsAgree(as, ag) == \A a \in Agent : AgentAgrees(as, ag[a], a)

AllWorkAgrees(as, wk) == \A w \in Work : WorkAgrees(as, wk[w], w)

\* The two together are AccountingAgrees.
LEMMA AgreementParts ==
    /\ AccountingAgrees <=> AgentsAgree(asg, agents) /\ AllWorkAgrees(asg, work)
    /\ AccountingAgrees' <=> AgentsAgree(asg', agents') /\ AllWorkAgrees(asg', work')
  BY DEF AccountingAgrees, AgentsAgree, AllWorkAgrees, AgentAgrees, WorkAgrees

-----------------------------------------------------------------------------
(* What a refresh gives.                                                   *)

\* What is active on an agent or a work item is counted.
LEMMA Counted ==
    ASSUME NEW as, AssignmentMap(as), NEW a, NEW w
    PROVE  /\ IsFiniteSet(OnAgent(as, a)) /\ IsFiniteSet(OnWork(as, w))
           /\ Cardinality(OnAgent(as, a)) \in Nat
           /\ Cardinality(OnWork(as, w)) \in Nat
           /\ Cardinality(OnAgent(as, a)) = 0 <=> OnAgent(as, a) = {}
           /\ Cardinality(OnWork(as, w)) = 0 <=> OnWork(as, w) = {}
<1>1. IsFiniteSet(DOMAIN as)
  BY DEF AssignmentMap
<1>2. OnAgent(as, a) \subseteq DOMAIN as /\ OnWork(as, w) \subseteq DOMAIN as
  BY DEF OnAgent, OnWork, ActiveIn
<1>3. IsFiniteSet(OnAgent(as, a)) /\ IsFiniteSet(OnWork(as, w))
  BY <1>1, <1>2, FS_Subset
<1> QED
  BY <1>3, Counts, FS_EmptySet

\* A refreshed agent agrees.
LEMMA RefreshedAgentAgrees ==
    ASSUME NEW as, AssignmentMap(as), NEW a, NEW r \in AgentRecord
    PROVE  AgentAgrees(as, RefreshedAgent(as, r, a), a)
<1> DEFINE n == Cardinality(OnAgent(as, a))
           counted == [r EXCEPT !.active = n]
           new == [counted EXCEPT !.lifecycle = recompute_lifecycle(counted)]
<1>1. n \in Nat /\ (n = 0 <=> OnAgent(as, a) = {})
  BY Counted
<1>2. RefreshedAgent(as, r, a) = new
  BY DEF RefreshedAgent
<1> HIDE DEF n
<1>3. counted.active = n /\ counted \in AgentRecord
  BY <1>1 DEF AgentRecord
<1> HIDE DEF counted
<1>4. new.active = n /\ new.lifecycle = recompute_lifecycle(counted)
  BY <1>3 DEF AgentRecord
<1>5. /\ recompute_lifecycle(counted) = "Busy" => n # 0
      /\ recompute_lifecycle(counted) = "Ready" => n = 0
  <2>1. /\ recompute_lifecycle(counted) = "Busy" => counted.active > 0
        /\ recompute_lifecycle(counted) = "Ready" => ~(counted.active > 0)
    BY DEF recompute_lifecycle
  <2>2. n > 0 <=> n # 0
    BY <1>1
  <2> QED
    BY <1>3, <2>1, <2>2
<1> HIDE DEF new
<1>6. new.lifecycle = "Busy" => OnAgent(as, a) # {}
  BY <1>1, <1>4, <1>5
<1>7. new.lifecycle = "Ready" => OnAgent(as, a) = {}
  BY <1>1, <1>4, <1>5
<1> QED
  BY <1>2, <1>4, <1>6, <1>7 DEF AgentAgrees, n

\* A refreshed work item agrees.
LEMMA RefreshedWorkAgrees ==
    ASSUME NEW as, AssignmentMap(as), NEW w, NEW r \in WorkRecord
    PROVE  WorkAgrees(as, RefreshedWork(as, r, w), w)
  BY Counts DEF RefreshedWork, WorkRecord, TerminalWork, WorkAgrees

-----------------------------------------------------------------------------
(* Closing, and steps that leave the active assignments alone.             *)

\* From asg to `as` only assignments of known agents and work in `ids` change
\* between active and not.
Touches(as, ids) ==
    \A b \in ActiveIn(asg) \cup ActiveIn(as) :
        \/ b \in ActiveIn(asg) /\ b \in ActiveIn(as)
        \/ b \in ids /\ Known(b.agent) /\ KnownWork(b.work)

\* What is active has a known agent and known work.
LEMMA ActiveKnown ==
    ASSUME LifeInv, NEW b \in ActiveIn(asg)
    PROVE  Known(b.agent) /\ KnownWork(b.work)
  BY DEF LifeInv, CapabilityOrdered, WorkInv, ActiveWorkCurrent, KnownWork

\* Closing touches what it closes.
LEMMA ClosedTouches ==
    ASSUME LifeInv, NEW ids, NEW st \in TerminalStates
    PROVE  Touches(Closed(ids, st), ids)
<1> SUFFICES ASSUME NEW b \in ActiveIn(asg) \cup ActiveIn(Closed(ids, st))
             PROVE  \/ b \in ActiveIn(asg) /\ b \in ActiveIn(Closed(ids, st))
                    \/ b \in ids /\ Known(b.agent) /\ KnownWork(b.work)
  BY DEF Touches
<1>1. b \in ActiveIn(asg) /\ (b \in ids \/ b \in ActiveIn(Closed(ids, st)))
  BY ClosedActive DEF ActiveIn, Closed
<1> QED
  BY <1>1, ActiveKnown

\* Refreshing the agents and the work of what is touched makes all agree.
LEMMA AfterAgree ==
    ASSUME TypeOK, AccountingAgrees, NEW as, AssignmentMap(as), NEW ids,
           Touches(as, ids)
    PROVE  /\ AgentsAgree(as, AgentsAfter(as, ids))
           /\ AllWorkAgrees(as, WorkAfter(as, ids))
<1>1. ASSUME NEW a \in Agent
      PROVE  AgentAgrees(as, AgentsAfter(as, ids)[a], a)
  <2>1. agents[a] \in AgentRecord /\ AgentAgrees(asg, agents[a], a)
    BY AgreementParts DEF TypeOK, AgentsAgree
  <2>2. CASE Known(a) /\ \E b \in ids : b.agent = a
    <3>1. AgentsAfter(as, ids)[a] = RefreshedAgent(as, agents[a], a)
      BY <2>2 DEF AgentsAfter
    <3> QED
      BY <2>1, <3>1, RefreshedAgentAgrees
  <2>3. CASE ~(Known(a) /\ \E b \in ids : b.agent = a)
    <3>1. AgentsAfter(as, ids)[a] = agents[a]
      BY <2>3 DEF AgentsAfter
    <3>2. \A b \in ActiveIn(asg) \cup ActiveIn(as) :
             b.agent = a => b \in ActiveIn(asg) /\ b \in ActiveIn(as)
      BY <2>3 DEF Touches
    <3>3. OnAgent(as, a) = OnAgent(asg, a)
      BY <3>2 DEF OnAgent
    <3> QED
      BY <2>1, <3>1, <3>3 DEF AgentAgrees
  <2> QED
    BY <2>2, <2>3
<1>2. ASSUME NEW w \in Work
      PROVE  WorkAgrees(as, WorkAfter(as, ids)[w], w)
  <2>1. work[w] \in WorkRecord /\ WorkAgrees(asg, work[w], w)
    BY AgreementParts DEF TypeOK, AllWorkAgrees
  <2>2. CASE KnownWork(w) /\ \E b \in ids : b.work = w
    <3>1. WorkAfter(as, ids)[w] = RefreshedWork(as, work[w], w)
      BY <2>2 DEF WorkAfter
    <3> QED
      BY <2>1, <3>1, RefreshedWorkAgrees
  <2>3. CASE ~(KnownWork(w) /\ \E b \in ids : b.work = w)
    <3>1. WorkAfter(as, ids)[w] = work[w]
      BY <2>3 DEF WorkAfter
    <3>2. \A b \in ActiveIn(asg) \cup ActiveIn(as) :
             b.work = w => b \in ActiveIn(asg) /\ b \in ActiveIn(as)
      BY <2>3 DEF Touches
    <3>3. OnWork(as, w) = OnWork(asg, w)
      BY <3>2 DEF OnWork
    <3> QED
      BY <2>1, <3>1, <3>3 DEF WorkAgrees
  <2> QED
    BY <2>2, <2>3
<1> QED
  BY <1>1, <1>2 DEF AgentsAgree, AllWorkAgrees

\* The invariant gives what the lemmas below ask for.
LEMMA LifeTyped ==
    ASSUME LifeInv
    PROVE  TypeOK /\ AssignmentMap(asg) /\ agents \in [Agent -> AgentRecord]
             /\ work \in [Work -> WorkRecord]
  BY DEF LifeInv, WorkInv, TypeOK

\* Closing any assignments and refreshing whom it touches makes all agree.
LEMMA ClosedAgree ==
    ASSUME LifeInv, AccountingAgrees, NEW ids, NEW st \in TerminalStates
    PROVE  /\ AssignmentMap(Closed(ids, st))
           /\ AgentsAgree(Closed(ids, st), AgentsAfter(Closed(ids, st), ids))
           /\ AllWorkAgrees(Closed(ids, st), WorkAfter(Closed(ids, st), ids))
  BY LifeTyped, ClosedType, ClosedTouches, AfterAgree

\* Records that stay agree with any map in which the same is active.
LEMMA SameAgree ==
    ASSUME AccountingAgrees, NEW as, ActiveIn(as) = ActiveIn(asg)
    PROVE  AgentsAgree(as, agents) /\ AllWorkAgrees(as, work)
<1>1. \A a, w : OnAgent(as, a) = OnAgent(asg, a) /\ OnWork(as, w) = OnWork(asg, w)
  BY DEF OnAgent, OnWork
<1> QED
  BY <1>1, AgreementParts DEF AgentsAgree, AllWorkAgrees, AgentAgrees, WorkAgrees

\* Storing the refreshed form of one agent keeps the agreement.
LEMMA StoredAgrees ==
    ASSUME NEW as, AssignmentMap(as), NEW ag, DOMAIN ag = Agent,
           AgentsAgree(as, ag), NEW a \in Agent, NEW r \in AgentRecord
    PROVE  AgentsAgree(as, [ag EXCEPT ![a] = RefreshedAgent(as, r, a)])
<1>1. AgentAgrees(as, RefreshedAgent(as, r, a), a)
  BY RefreshedAgentAgrees
<1> QED
  BY <1>1 DEF AgentsAgree

-----------------------------------------------------------------------------
(* The handlers.                                                           *)

\* A handler that closes assignments and stores the refreshed form of one
\* agent record keeps the agreement.
LEMMA AgentStepAgrees ==
    ASSUME LifeInv, AccountingAgrees, NEW a \in Agent, NEW r \in AgentRecord,
           NEW ids, NEW st \in TerminalStates,
           asg' = Closed(ids, st), work' = WorkAfter(Closed(ids, st), ids),
           agents' = [AgentsAfter(Closed(ids, st), ids) EXCEPT
                        ![a] = RefreshedAgent(Closed(ids, st), r, a)]
    PROVE  AccountingAgrees'
<1> DEFINE as == Closed(ids, st)
           ag == AgentsAfter(as, ids)
<1>1. /\ AssignmentMap(as)
      /\ AgentsAgree(as, ag)
      /\ AllWorkAgrees(as, WorkAfter(as, ids))
  BY ClosedAgree
<1>2. /\ asg' = as /\ work' = WorkAfter(as, ids)
      /\ agents' = [ag EXCEPT ![a] = RefreshedAgent(as, r, a)]
  OBVIOUS
<1>3. DOMAIN ag = Agent
  BY DEF AgentsAfter
<1> HIDE DEF as, ag
<1>4. AgentsAgree(as, [ag EXCEPT ![a] = RefreshedAgent(as, r, a)])
  BY <1>1, <1>3, StoredAgrees
<1> QED
  BY <1>1, <1>2, <1>4, AgreementParts

\* A handler that stores the refreshed form of one agent record, with the same
\* assignments active, keeps the agreement.
LEMMA PublishAgrees ==
    ASSUME LifeInv, AccountingAgrees, NEW a \in Agent, NEW r \in AgentRecord,
           AssignmentMap(asg'), ActiveIn(asg') = ActiveIn(asg), work' = work,
           agents' = [agents EXCEPT ![a] = RefreshedAgent(asg', r, a)]
    PROVE  AccountingAgrees'
<1>1. AgentsAgree(asg', agents) /\ AllWorkAgrees(asg', work)
  BY SameAgree
<1>2. DOMAIN agents = Agent
  BY LifeTyped
<1>3. AgentsAgree(asg', agents')
  BY <1>1, <1>2, StoredAgrees
<1> QED
  BY <1>1, <1>3, AgreementParts

\* An agent without a record has no active assignment.
LEMMA UnknownIsFree ==
    ASSUME LifeInv, NEW a \in Agent, ~Known(a)
    PROVE  OnAgent(asg, a) = {}
<1>1. \A b \in ActiveIn(asg) : Known(b.agent)
  BY ActiveKnown
<1> QED
  BY <1>1 DEF OnAgent

\* Every agent handler keeps the agreement.
LEMMA AgentNextAgrees ==
    ASSUME LifeInv, AccountingAgrees, AgentNext, TypeOK'
    PROVE  AccountingAgrees'
<1> PICK a \in Agent :
        \/ \E g \in 1..MaxAgentGen, boot \in BootOf[a], m \in Concurrency :
              RegisterNew(a, g, boot, m) \/ Reincarnate(a, g, boot, m)
        \/ \E m \in Concurrency : Reregister(a, m)
        \/ \E g \in 1..MaxCapGen, at \in 1..now : publish_capabilities(a, g, at)
        \/ \E v \in HealthReports, at \in 1..now : publish_health(a, v, at)
        \/ \E v \in AvailReports, at \in 1..now : publish_availability(a, v, at)
        \/ heartbeat(a)
        \/ \E force \in BOOLEAN : drain_agent(a, force) \/ deregister_agent(a, force)
        \/ LoseCurrent(a)
        \/ \E boot \in BootOf[a] : LoseStale(a, boot)
  BY DEF AgentNext
<1>0. /\ TypeOK /\ agents \in [Agent -> AgentRecord] /\ agents[a] \in AgentRecord
      /\ now \in Nat /\ AssignmentMap(asg) /\ AssignmentMap(asg')
      /\ {"Lost", "Invalidated"} \subseteq TerminalStates
      /\ {"Lost", "Retired", "Draining"} \subseteq AgentLifecycles
  BY LifeTyped DEF TypeOK, TerminalStates, AgentLifecycles
<1>1. ASSUME NEW g \in 1..MaxAgentGen, NEW boot \in BootOf[a],
             NEW m \in Concurrency, RegisterNew(a, g, boot, m)
      PROVE  AccountingAgrees'
  <2>1. /\ agents' = [agents EXCEPT ![a] = FreshAgent(g, boot, m)]
        /\ asg' = asg /\ work' = work
    BY <1>1 DEF RegisterNew
  <2>2. OnAgent(asg, a) = {}
    BY <1>1, UnknownIsFree DEF RegisterNew
  <2>3. AgentAgrees(asg, FreshAgent(g, boot, m), a)
    BY <2>2, FS_EmptySet DEF AgentAgrees, FreshAgent
  <2>4. AgentsAgree(asg, agents')
    BY <1>0, <2>1, <2>3, AgreementParts DEF AgentsAgree
  <2> QED
    BY <2>1, <2>4, AgreementParts
<1>2. ASSUME NEW g \in 1..MaxAgentGen, NEW boot \in BootOf[a],
             NEW m \in Concurrency, Reincarnate(a, g, boot, m)
      PROVE  AccountingAgrees'
  <2>1. g \in Nat /\ boot \in Boot /\ m \in Nat
    BY Inputs, Bounds
  <2>2. FreshAgent(g, boot, m) \in AgentRecord
    BY <1>0, <2>1, FreshAgentType
  <2> QED
    BY <1>0, <1>2, <2>2, AgentStepAgrees DEF Reincarnate
<1>3. ASSUME NEW m \in Concurrency, Reregister(a, m)
      PROVE  AccountingAgrees'
  <2> DEFINE r == [agents[a] EXCEPT
                     !.maxc = m, !.lease = now + RegistrationTtl,
                     !.lifecycle = IF @ = "Lost"
                                   THEN "RevalidationRequired" ELSE @]
  <2>1. m \in Nat /\ now + RegistrationTtl \in Nat
    BY <1>0, Inputs, Bounds
  <2>2. r \in AgentRecord
    BY <1>0, <2>1 DEF AgentRecord, AgentLifecycles
  <2>3. /\ agents' = [agents EXCEPT ![a] = RefreshedAgent(asg, r, a)]
        /\ asg' = asg /\ work' = work
    BY <1>3 DEF Reregister
  <2> HIDE DEF r
  <2> QED
    BY <1>0, <2>2, <2>3, PublishAgrees
<1>4. ASSUME NEW g \in 1..MaxCapGen, NEW at \in 1..now,
             publish_capabilities(a, g, at)
      PROVE  AccountingAgrees'
  <2> DEFINE r == [agents[a] EXCEPT
                     !.capability = [value |-> g, current |-> TRUE, at |-> at],
                     !.recovered = FALSE]
  <2>0. g \in Nat /\ at \in Nat
    BY <1>0, Bounds
  <2>1. r \in AgentRecord
    BY <1>0, <2>0 DEF AgentRecord, Evidence
  <2>2. ActiveIn(asg') = ActiveIn(asg)
    BY <1>0, <1>4 DEF publish_capabilities, ActiveIn, OnAgent, ActiveStates,
                      AssignmentMap, AssignmentRecord
  <2>3. agents' = [agents EXCEPT ![a] = RefreshedAgent(asg', r, a)] /\ work' = work
    BY <1>4 DEF publish_capabilities
  <2> HIDE DEF r
  <2> QED
    BY <1>0, <2>1, <2>2, <2>3, PublishAgrees
<1>5. ASSUME NEW v \in HealthReports, NEW at \in 1..now, publish_health(a, v, at)
      PROVE  AccountingAgrees'
  <2> DEFINE r == [agents[a] EXCEPT
                     !.health = [value |-> v, current |-> TRUE, at |-> at],
                     !.recovered = FALSE]
  <2>0. v \in Healths /\ at \in Nat
    BY <1>0, Inputs
  <2>1. r \in AgentRecord
    BY <1>0, <2>0 DEF AgentRecord, Evidence
  <2>2. /\ agents' = [agents EXCEPT ![a] = RefreshedAgent(asg, r, a)]
        /\ asg' = asg /\ work' = work
    BY <1>5 DEF publish_health
  <2> HIDE DEF r
  <2> QED
    BY <1>0, <2>1, <2>2, PublishAgrees
<1>6. ASSUME NEW v \in AvailReports, NEW at \in 1..now,
             publish_availability(a, v, at)
      PROVE  AccountingAgrees'
  <2> DEFINE r == [agents[a] EXCEPT
                     !.avail = [value |-> v, current |-> TRUE, at |-> at],
                     !.recovered = FALSE]
  <2>0. v \in Avails /\ at \in Nat
    BY <1>0, Inputs
  <2>1. r \in AgentRecord
    BY <1>0, <2>0 DEF AgentRecord, Evidence
  <2>2. /\ agents' = [agents EXCEPT ![a] = RefreshedAgent(asg, r, a)]
        /\ asg' = asg /\ work' = work
    BY <1>6 DEF publish_availability
  <2> HIDE DEF r
  <2> QED
    BY <1>0, <2>1, <2>2, PublishAgrees
<1>7. CASE heartbeat(a)
  <2>1. \A x \in Agent : /\ agents'[x].active = agents[x].active
                         /\ agents'[x].lifecycle = agents[x].lifecycle
    BY <1>0, <1>7 DEF heartbeat, AgentRecord
  <2>2. asg' = asg /\ work' = work
    BY <1>7 DEF heartbeat
  <2> QED
    BY <2>1, <2>2 DEF AccountingAgrees
<1>8. ASSUME NEW force \in BOOLEAN, drain_agent(a, force)
      PROVE  AccountingAgrees'
  <2> DEFINE r == [agents[a] EXCEPT !.lifecycle = "Draining"]
             gone == IF force THEN ActiveOfBoot(agents[a].boot) ELSE {}
  <2>1. r \in AgentRecord
    BY <1>0 DEF AgentRecord
  <2>2. /\ asg' = Closed(gone, "Invalidated")
        /\ work' = WorkAfter(Closed(gone, "Invalidated"), gone)
        /\ agents' = [AgentsAfter(Closed(gone, "Invalidated"), gone) EXCEPT
                        ![a] = RefreshedAgent(Closed(gone, "Invalidated"), r, a)]
    BY <1>8 DEF drain_agent
  <2> HIDE DEF r, gone
  <2> QED
    BY <1>0, <2>1, <2>2, AgentStepAgrees
<1>9. ASSUME NEW ids, NEW st \in TerminalStates, NEW l \in {"Retired", "Lost"},
             asg' = Closed(ids, st), work' = WorkAfter(Closed(ids, st), ids),
             agents' = [AgentsAfter(Closed(ids, st), ids) EXCEPT
                          ![a] = EndedAgent(Closed(ids, st), a, l)]
      PROVE  AccountingAgrees'
  <2> DEFINE r == [invalidate_dynamic_evidence(agents[a]) EXCEPT !.lifecycle = l]
  <2>1. r \in AgentRecord
    BY <1>0, EndedRecordType
  <2>2. agents' = [AgentsAfter(Closed(ids, st), ids) EXCEPT
                     ![a] = RefreshedAgent(Closed(ids, st), r, a)]
    BY <1>9 DEF EndedAgent
  <2> HIDE DEF r
  <2> QED
    BY <1>9, <2>1, <2>2, AgentStepAgrees
<1>10. ASSUME NEW force \in BOOLEAN, deregister_agent(a, force)
       PROVE  AccountingAgrees'
  BY <1>0, <1>9, <1>10 DEF deregister_agent
<1>11. CASE LoseCurrent(a)
  BY <1>0, <1>9, <1>11 DEF LoseCurrent
<1>12. ASSUME NEW boot \in BootOf[a], LoseStale(a, boot)
       PROVE  AccountingAgrees'
  BY <1>12 DEF LoseStale, AccountingAgrees
<1> QED
  BY <1>1, <1>2, <1>3, <1>4, <1>5, <1>6, <1>7, <1>8, <1>10, <1>11, <1>12

\* Work that ended goes on agreeing, whatever is active.
LEMMA EndedAgrees ==
    ASSUME NEW as, NEW wk \in [Work -> WorkRecord], AllWorkAgrees(as, wk),
           NEW w \in Work, NEW l \in TerminalWork
    PROVE  AllWorkAgrees(as, [wk EXCEPT ![w].lifecycle = l])
<1> DEFINE new == [wk EXCEPT ![w].lifecycle = l]
<1>1. \A x \in Work : /\ new[x].current = wk[x].current
                     /\ new[x].lifecycle = IF x = w THEN l ELSE wk[x].lifecycle
  BY DEF WorkRecord
<1> HIDE DEF new
<1> QED
  BY <1>1 DEF AllWorkAgrees, WorkAgrees, TerminalWork, new

\* Closing ends exactly the active members of ids.
LEMMA ClosedExactly ==
    ASSUME NEW ids, NEW st \in TerminalStates
    PROVE  ActiveIn(Closed(ids, st)) = ActiveIn(asg) \ ids
<1>1. ASSUME NEW b \in ActiveIn(asg) \ ids
      PROVE  b \in ActiveIn(Closed(ids, st))
  BY DEF ActiveIn, Closed
<1> QED
  BY <1>1, ClosedActive

\* Re-admission of a work item closes all it has and starts over.
LEMMA ReadmitAgrees ==
    ASSUME LifeInv, AccountingAgrees, NEW w \in Work, NEW g \in Nat,
           NEW r \in Requests, Readmit(w, g, r)
    PROVE  AccountingAgrees'
<1> DEFINE old == OnWork(asg, w)
           as == Closed(old, "Superseded")
<1>1. /\ asg' = as /\ agents' = AgentsAfter(as, old)
      /\ work' = [work EXCEPT ![w] = Admitted(w, g, r)]
  BY DEF Readmit
<1>2. "Superseded" \in TerminalStates
  BY DEF TerminalStates
<1>3. AgentsAgree(as, AgentsAfter(as, old))
  BY <1>2, ClosedAgree
<1>4. OnWork(as, w) = {} /\ \A x \in Work \ {w} : OnWork(as, x) = OnWork(asg, x)
  <2>1. ActiveIn(as) = ActiveIn(asg) \ old
    BY <1>2, ClosedExactly
  <2> HIDE DEF as
  <2> QED
    BY <2>1 DEF OnWork
<1> HIDE DEF as
<1>5. WorkAgrees(as, Admitted(w, g, r), w)
  BY <1>4, FS_EmptySet DEF WorkAgrees, Admitted
<1>6. \A x \in Work \ {w} : WorkAgrees(as, work[x], x)
  BY <1>4, AgreementParts DEF AllWorkAgrees, WorkAgrees
<1>7. AllWorkAgrees(as, work')
  BY <1>1, <1>5, <1>6, LifeTyped DEF AllWorkAgrees
<1> QED
  BY <1>1, <1>3, <1>7, AgreementParts

\* Every work handler keeps the agreement.
LEMMA WorkNextAgrees ==
    ASSUME LifeInv, AccountingAgrees, WorkNext
    PROVE  AccountingAgrees'
<1>0. /\ {"Cancelled", "Expired"} \subseteq TerminalStates
      /\ {"Cancelled", "Expired"} \subseteq TerminalWork
      /\ work \in [Work -> WorkRecord] /\ TypeOK
  BY LifeTyped DEF TerminalStates, TerminalWork
<1>1. ASSUME NEW w \in Work, NEW g \in 1..MaxWorkGen, NEW r \in Requests,
             submit_work(w, g, r) \/ supersede_work(w, g, r)
      PROVE  AccountingAgrees'
  <2>1. g \in Nat /\ Readmit(w, g, r)
    BY <1>1, Bounds DEF submit_work, supersede_work
  <2> QED
    BY <2>1, ReadmitAgrees
<1>2. ASSUME NEW w \in Work, cancel_work(w)
      PROVE  AccountingAgrees'
  <2> DEFINE old == OnWork(asg, w)
             as == Closed(old, "Cancelled")
             after == WorkAfter(as, old)
  <2>1. /\ asg' = as /\ agents' = AgentsAfter(as, old)
        /\ work' = [after EXCEPT ![w].lifecycle = "Cancelled"]
    BY <1>2 DEF cancel_work
  <2>2. /\ AgentsAgree(as, AgentsAfter(as, old))
        /\ AllWorkAgrees(as, after)
    BY <1>0, ClosedAgree
  <2>3. after \in [Work -> WorkRecord]
    BY <1>0, ClosedWorkType
  <2> HIDE DEF as, after
  <2>4. AllWorkAgrees(as, work')
    BY <1>0, <2>1, <2>2, <2>3, EndedAgrees
  <2> QED
    BY <2>1, <2>2, <2>4, AgreementParts
<1>3. CASE expire_deadlines
  <2> DEFINE late == {w \in Work : /\ KnownWork(w)
                                   /\ work[w].lifecycle \notin TerminalWork
                                   /\ DeadlinePassed(w)}
             old == UNION {OnWork(asg, w) : w \in late}
             as == Closed(old, "Expired")
             after == WorkAfter(as, old)
  <2>1. /\ asg' = as /\ agents' = AgentsAfter(as, old)
        /\ work' = [w \in Work |->
                      IF w \in late THEN [after[w] EXCEPT !.lifecycle = "Expired"]
                      ELSE work[w]]
    BY <1>3 DEF expire_deadlines
  <2>2. /\ AgentsAgree(as, AgentsAfter(as, old))
        /\ AllWorkAgrees(as, after)
    BY <1>0, ClosedAgree
  <2>3. after \in [Work -> WorkRecord]
    BY <1>0, ClosedWorkType
  <2>4. \A b \in old : b.work \in late
    BY DEF OnWork
  <2> HIDE DEF late, old
  <2>5. \A w \in Work \ late : after[w] = work[w]
    BY <2>4 DEF WorkAfter
  <2> HIDE DEF as, after
  <2>6. ASSUME NEW w \in Work
        PROVE  /\ work'[w].current = after[w].current
               /\ work'[w].lifecycle = after[w].lifecycle
                    \/ work'[w].lifecycle = "Expired"
    BY <2>1, <2>3, <2>5 DEF WorkRecord
  <2>7. AllWorkAgrees(as, work')
    BY <2>2, <2>6 DEF AllWorkAgrees, WorkAgrees
  <2> QED
    BY <2>1, <2>2, <2>7, AgreementParts
<1> QED
  BY <1>1, <1>2, <1>3 DEF WorkNext

\* A commit recounts the one agent and the one work item it adds to.
LEMMA CommitAgrees ==
    ASSUME LifeInv, AccountingAgrees, NEW c \in Caller, commit_locked(c)
    PROVE  AccountingAgrees'
<1> DEFINE b == call[c].b
           as == Emplaced(b, call[c].expires)
           stored == [work[b.work] EXCEPT !.lastGen = b.gen]
<1>1. /\ b \in Binding /\ call[c].expires \in Nat
      /\ b.agent \in Agent /\ b.work \in Work /\ b.gen \in Nat
  BY LifeTyped, CarriedType DEF commit_locked, Binding
<1>2. AssignmentMap(as)
  BY <1>1, LifeTyped, EmplacedType
<1>3. stored \in WorkRecord /\ agents[b.agent] \in AgentRecord
  BY <1>1, LifeTyped DEF WorkRecord
<1>4. /\ asg' = as
      /\ work' = [work EXCEPT ![b.work] = RefreshedWork(as, stored, b.work)]
      /\ agents' = [agents EXCEPT ![b.agent] =
                      RefreshedAgent(as, agents[b.agent], b.agent)]
  BY <1>1, LifeTyped DEF commit_locked
<1>5. \A x : x # b => (x \in ActiveIn(as) <=> x \in ActiveIn(asg))
  BY DEF ActiveIn, Emplaced
<1> HIDE DEF b, as, stored
<1>6. /\ \A x : x # b.agent => OnAgent(as, x) = OnAgent(asg, x)
      /\ \A x : x # b.work => OnWork(as, x) = OnWork(asg, x)
  BY <1>5 DEF OnAgent, OnWork
<1>7. \A x \in Agent : AgentAgrees(as, agents'[x], x)
  <2>1. AgentAgrees(as, RefreshedAgent(as, agents[b.agent], b.agent), b.agent)
    BY <1>2, <1>3, RefreshedAgentAgrees
  <2>2. \A x \in Agent \ {b.agent} : AgentAgrees(as, agents[x], x)
    BY <1>6, AgreementParts DEF AgentsAgree, AgentAgrees
  <2> QED
    BY <1>4, <2>1, <2>2, LifeTyped
<1>8. \A x \in Work : WorkAgrees(as, work'[x], x)
  <2>1. WorkAgrees(as, RefreshedWork(as, stored, b.work), b.work)
    BY <1>2, <1>3, RefreshedWorkAgrees
  <2>2. \A x \in Work \ {b.work} : WorkAgrees(as, work[x], x)
    BY <1>6, AgreementParts DEF AllWorkAgrees, WorkAgrees
  <2> QED
    BY <1>4, <2>1, <2>2, LifeTyped
<1> QED
  BY <1>4, <1>7, <1>8, AgreementParts DEF AgentsAgree, AllWorkAgrees

\* A step that only closes assignments keeps the agreement.
LEMMA CloseAssignmentsAgree ==
    ASSUME LifeInv, AccountingAgrees, NEW ids, NEW st \in TerminalStates,
           CloseAssignments(ids, st)
    PROVE  AccountingAgrees'
  BY ClosedAgree, AgreementParts DEF CloseAssignments

\* Moving one active assignment to another active state leaves what is active.
LEMMA MovedActive ==
    ASSUME TypeOK, NEW b \in ActiveIn(asg), NEW st \in ActiveStates
    PROVE  ActiveIn([asg EXCEPT ![b].state = st]) = ActiveIn(asg)
  BY DEF ActiveIn, TypeOK, AssignmentMap, AssignmentRecord

\* Every report of an agent keeps the agreement.
LEMMA ReportAgrees ==
    ASSUME LifeInv, AccountingAgrees, TypeOK', NEW b \in DOMAIN asg, Report(b)
    PROVE  AccountingAgrees'
<1>0. /\ {"Expired", "Released", "Invalidated", "Completed", "Failed"}
           \subseteq TerminalStates
      /\ {"Completed", "Failed"} \subseteq TerminalWork
      /\ {"Acknowledged", "Executing"} \subseteq ActiveStates
      /\ TypeOK /\ AssignmentMap(asg) /\ AssignmentMap(asg')
      /\ b.work \in Work
  BY LifeTyped DEF TerminalStates, ActiveStates, TerminalWork, TypeOK,
                   AssignmentMap, Binding
<1>1. CASE acknowledge(b)
  <2>1. CASE CloseAssignments({b}, "Expired")
    BY <1>0, <2>1, CloseAssignmentsAgree
  <2>2. CASE /\ asg' = [asg EXCEPT ![b].state = "Acknowledged"]
             /\ UNCHANGED <<agents, work>>
    <3>1. b \in ActiveIn(asg)
      BY <1>1 DEF acknowledge, ActiveIn, ActiveStates
    <3>2. ActiveIn(asg') = ActiveIn(asg)
      BY <1>0, <2>2, <3>1, MovedActive
    <3> QED
      BY <2>2, <3>2, SameAgree, AgreementParts
  <2> QED
    BY <1>1, <2>1, <2>2 DEF acknowledge
<1>2. CASE mark_executing(b)
  <2>1. CASE CloseAssignments({b}, "Expired")
    BY <1>0, <2>1, CloseAssignmentsAgree
  <2>2. CASE /\ asg' = [asg EXCEPT ![b].state = "Executing"]
             /\ work' = WorkAfter([asg EXCEPT ![b].state = "Executing"], {b})
             /\ UNCHANGED agents
    <3>1. b \in ActiveIn(asg)
      BY <1>2 DEF mark_executing, ActiveIn, ActiveStates
    <3>2. ActiveIn(asg') = ActiveIn(asg)
      BY <1>0, <2>2, <3>1, MovedActive
    <3>3. Touches(asg', {b})
      BY <3>2 DEF Touches
    <3>4. AllWorkAgrees(asg', WorkAfter(asg', {b}))
      BY <1>0, <3>3, AfterAgree
    <3>5. work' = WorkAfter(asg', {b})
      BY <2>2, Zenon
    <3> QED
      BY <2>2, <3>2, <3>4, <3>5, SameAgree, AgreementParts
  <2> QED
    BY <1>2, <2>1, <2>2 DEF mark_executing
<1>3. ASSUME NEW st \in {"Released", "Invalidated"}, Return(b, st)
      PROVE  AccountingAgrees'
  BY <1>0, <1>3, CloseAssignmentsAgree DEF Return
<1>4. ASSUME NEW st \in {"Completed", "Failed"}, Finish(b, st)
      PROVE  AccountingAgrees'
  <2> DEFINE as == Closed({b}, st)
             after == WorkAfter(as, {b})
  <2>1. /\ asg' = as /\ agents' = AgentsAfter(as, {b})
        /\ work' = after \/ work' = [after EXCEPT ![b.work].lifecycle = st]
    BY <1>4 DEF Finish
  <2>2. AgentsAgree(as, AgentsAfter(as, {b})) /\ AllWorkAgrees(as, after)
    BY <1>0, ClosedAgree
  <2>3. after \in [Work -> WorkRecord]
    BY <1>0, ClosedWorkType
  <2> HIDE DEF as, after
  <2>4. AllWorkAgrees(as, [after EXCEPT ![b.work].lifecycle = st])
    BY <1>0, <2>2, <2>3, EndedAgrees
  <2> QED
    BY <2>1, <2>2, <2>4, AgreementParts
<1> QED
  BY <1>1, <1>2, <1>3, <1>4 DEF Report

\* Revalidating pending assignments keeps the agreement.
LEMMA RevalidateAgrees ==
    ASSUME LifeInv, AccountingAgrees, TypeOK', NEW examined \in SUBSET Pending,
           NEW promoted \in SUBSET examined, Revalidate(examined, promoted)
    PROVE  AccountingAgrees'
<1> DEFINE as == Revalidated(examined, promoted)
<1>1. /\ asg' = as /\ agents' = AgentsAfter(as, examined)
      /\ work' = WorkAfter(as, examined)
  BY DEF Revalidate
<1>2. AssignmentMap(as)
  BY <1>1 DEF TypeOK
<1>3. examined \subseteq ActiveIn(asg)
  BY DEF Pending, ActiveIn, ActiveStates
<1>4. Touches(as, examined)
  <2>1. \A b \in DOMAIN asg \ examined : b \in ActiveIn(as) <=> b \in ActiveIn(asg)
    BY DEF ActiveIn, Revalidated
  <2>2. ActiveIn(as) \subseteq DOMAIN asg /\ ActiveIn(asg) \subseteq DOMAIN asg
    BY DEF ActiveIn, Revalidated
  <2> HIDE DEF as
  <2>3. \A b \in examined : Known(b.agent) /\ KnownWork(b.work)
    BY <1>3, ActiveKnown
  <2> QED
    BY <2>1, <2>2, <2>3 DEF Touches
<1> HIDE DEF as
<1> QED
  BY <1>1, <1>2, <1>4, LifeTyped, AfterAgree, AgreementParts

\* Every assignment handler keeps the agreement.
LEMMA AssignmentNextAgrees ==
    ASSUME LifeInv, AccountingAgrees, TypeOK', AssignmentNext
    PROVE  AccountingAgrees'
<1>1. ASSUME NEW c \in Caller,
             \/ \E w \in Work : plan_locked(c, w)
             \/ CommitRejected(c)
             \/ \E b \in DOMAIN asg : dispatch(c, b)
             \/ HandoffRejected(c)
      PROVE  AccountingAgrees'
  <2>1. asg' = asg /\ agents' = agents /\ work' = work
    BY <1>1 DEF plan_locked, CommitRejected, dispatch, HandoffRejected
  <2> QED
    BY <2>1 DEF AccountingAgrees
<1>2. ASSUME NEW c \in Caller, Handoff(c)
      PROVE  AccountingAgrees'
  <2>1. ActiveIn(asg') = ActiveIn(asg)
    BY <1>2, LifeTyped DEF Handoff, HandoffAllowed, ActiveIn, ActiveStates,
                           AssignmentMap, AssignmentRecord
  <2>2. agents' = agents /\ work' = work
    BY <1>2 DEF Handoff
  <2> QED
    BY <2>1, <2>2, SameAgree, AgreementParts
<1>3. CASE revalidate_assignments
  <2>1. PICK promoted \in SUBSET Pending : Revalidate(Pending, promoted)
    BY <1>3 DEF revalidate_assignments
  <2> QED
    BY <2>1, RevalidateAgrees
<1>4. ASSUME NEW a \in Agent, revalidate_agent_assignments(a)
      PROVE  AccountingAgrees'
  <2> DEFINE mine == {b \in Pending : b.agent = a /\ b.boot = agents[a].boot}
  <2>1. PICK feasible \in SUBSET mine :
          Revalidate(mine, {b \in feasible : revalidate_authority(b)})
    BY <1>4 DEF revalidate_agent_assignments
  <2> QED
    BY <2>1, RevalidateAgrees
<1>5. CASE expire_leases
  <2>1. "Expired" \in TerminalStates
    BY DEF TerminalStates
  <2> QED
    BY <1>5, <2>1, CloseAssignmentsAgree DEF expire_leases
<1> QED
  BY <1>1, <1>2, <1>3, <1>4, <1>5, CommitAgrees, ReportAgrees DEF AssignmentNext

\* Every step keeps the agreement.
LEMMA NextAgrees ==
    ASSUME LifeInv, LifeInv', AccountingAgrees, [Next]_vars
    PROVE  AccountingAgrees'
<1>0. TypeOK'
  BY DEF LifeInv, WorkInv
<1>1. CASE start \/ Tick \/ UNCHANGED vars
  <2>1. asg' = asg /\ agents' = agents /\ work' = work
    BY <1>1 DEF start, Tick, vars
  <2> QED
    BY <2>1 DEF AccountingAgrees
<1>2. CASE shutdown \/ \E g \in 1..MaxPolicyGen, closes \in ClosePolicies :
                          set_policy(g, closes)
  <2>1. "Invalidated" \in TerminalStates
    BY DEF TerminalStates
  <2> QED
    BY <1>2, <2>1, CloseAssignmentsAgree DEF shutdown, set_policy
<1> QED
  BY <1>0, <1>1, <1>2, AgentNextAgrees, WorkNextAgrees, AssignmentNextAgrees DEF Next

\* At first nothing is active and every counter is zero.
LEMMA AgreesInit == Init => AccountingAgrees
<1>1. ASSUME Init PROVE AccountingAgrees
  <2>1. ActiveIn(asg) = {}
    BY <1>1 DEF Init, ActiveIn
  <2>2. \A x : OnAgent(asg, x) = {} /\ OnWork(asg, x) = {}
    BY <2>1 DEF OnAgent, OnWork
  <2> QED
    BY <1>1, <2>2, FS_EmptySet
       DEF Init, AccountingAgrees, UnregisteredAgent, UnknownWork
<1> QED
  BY <1>1

\* The stored counters of agents and work items, and the lifecycles derived from
\* them, agree with the assignments whatever handlers run in whatever order.
THEOREM AccountingAlwaysAgrees == Spec => []AccountingAgrees
<1>1. Init => AccountingAgrees
  BY AgreesInit
<1>2. AccountingAgrees /\ LifeInv /\ LifeInv' /\ [Next]_vars => AccountingAgrees'
  BY NextAgrees
<1> QED
  BY <1>1, <1>2, LifeInvariant, PTL DEF Spec

-----------------------------------------------------------------------------
(***************************************************************************)
(* Limits that the commit tests are not exceeded afterwards: the fan-out   *)
(* of a work item, and the concurrency of an agent as long as nobody       *)
(* declares another one.                                                   *)
(*                                                                         *)
(* The commit compares stored counts, so both rest on AccountingAgrees.    *)
(* For exclusive work it looks for an exclusive assignment only; that any  *)
(* other one would be exclusive too is part of WorkInv.                    *)
(***************************************************************************)

\* The request of every work item has consistent limits.
RequestSound ==
    \A w \in Work : /\ work[w].req.perAgent \in 1..work[w].req.maxParallel
                    /\ work[w].req.mode = "Exclusive" => work[w].req.maxParallel = 1

FanInv == RequestSound /\ FanoutBounded

\* Nobody declares another concurrency than anybody else.
OneConcurrency == \A m, n \in Concurrency : m = n

\* Every agent declares a concurrency, or none yet.
Declared == \A a \in Agent : agents[a].maxc \in Concurrency \cup {0}

CapacityInv == Declared /\ CapacityNotExceeded

-----------------------------------------------------------------------------
(* Fan-out.                                                                *)

\* Only a commit makes something active.
LEMMA OnlyCommitAdds ==
    ASSUME TypeOK, [Next]_vars, ~\E c \in Caller : commit_locked(c)
    PROVE  ActiveIn(asg') \subseteq ActiveIn(asg)
  BY ActiveOrigin

\* Work keeps its request, or is re-admitted and left without assignments.
RequestMoves(w) ==
    \/ work'[w].req = work[w].req
    \/ work'[w].req \in Requests /\ OnWork(asg', w) = {}

\* Every work handler moves requests so.
LEMMA WorkNextRequests ==
    ASSUME TypeOK, WorkNext, NEW x \in Work
    PROVE  RequestMoves(x)
<1>0. /\ {"Superseded", "Cancelled", "Expired"} \subseteq TerminalStates
      /\ work \in [Work -> WorkRecord]
  BY DEF TypeOK, TerminalStates
<1>1. ASSUME NEW w \in Work, NEW g \in 1..MaxWorkGen, NEW r \in Requests,
             submit_work(w, g, r) \/ supersede_work(w, g, r)
      PROVE  RequestMoves(x)
  <2>1. Readmit(w, g, r)
    BY <1>1 DEF submit_work, supersede_work
  <2>2. ActiveIn(asg') \subseteq ActiveIn(asg) \ OnWork(asg, w)
    BY <1>0, <2>1, ClosedActive DEF Readmit
  <2>3. OnWork(asg', w) = {}
    BY <2>2 DEF OnWork
  <2>4. work' = [work EXCEPT ![w] = Admitted(w, g, r)] /\ Admitted(w, g, r).req = r
    BY <2>1 DEF Readmit, Admitted
  <2> QED
    BY <1>0, <2>3, <2>4 DEF RequestMoves
<1>2. ASSUME NEW ids, NEW st \in TerminalStates
      PROVE  /\ WorkAfter(Closed(ids, st), ids) \in [Work -> WorkRecord]
             /\ WorkAfter(Closed(ids, st), ids)[x].req = work[x].req
  BY ClosedWorkType DEF WorkKept
<1>3. ASSUME NEW w \in Work, cancel_work(w)
      PROVE  RequestMoves(x)
  <2> DEFINE after == WorkAfter(Closed(OnWork(asg, w), "Cancelled"), OnWork(asg, w))
  <2>1. work' = [after EXCEPT ![w].lifecycle = "Cancelled"]
    BY <1>3 DEF cancel_work
  <2>2. after \in [Work -> WorkRecord] /\ after[x].req = work[x].req
    BY <1>0, <1>2
  <2> HIDE DEF after
  <2> QED
    BY <2>1, <2>2 DEF RequestMoves, WorkRecord
<1>4. CASE expire_deadlines
  <2> DEFINE late == {w \in Work : /\ KnownWork(w)
                                   /\ work[w].lifecycle \notin TerminalWork
                                   /\ DeadlinePassed(w)}
             old == UNION {OnWork(asg, w) : w \in late}
             after == WorkAfter(Closed(old, "Expired"), old)
  <2>1. work' = [w \in Work |->
                   IF w \in late THEN [after[w] EXCEPT !.lifecycle = "Expired"]
                   ELSE work[w]]
    BY <1>4 DEF expire_deadlines
  <2>2. after \in [Work -> WorkRecord] /\ after[x].req = work[x].req
    BY <1>0, <1>2
  <2> HIDE DEF late, after
  <2> QED
    BY <2>1, <2>2 DEF RequestMoves, WorkRecord
<1> QED
  BY <1>1, <1>3, <1>4 DEF WorkNext

\* A commit keeps every request.
LEMMA CommitRequests ==
    ASSUME TypeOK, NEW c \in Caller, commit_locked(c), NEW x \in Work
    PROVE  work'[x].req = work[x].req
<1> DEFINE b == call[c].b
           as == Emplaced(b, call[c].expires)
           stored == [work[b.work] EXCEPT !.lastGen = b.gen]
<1>1. b \in Binding /\ call[c].expires \in Nat /\ b.work \in Work /\ b.gen \in Nat
  BY CarriedType DEF commit_locked, Binding
<1>2. stored \in WorkRecord /\ stored.req = work[b.work].req
  BY <1>1 DEF TypeOK, WorkRecord
<1>3. work' = [work EXCEPT ![b.work] = RefreshedWork(as, stored, b.work)]
  BY <1>1 DEF commit_locked, TypeOK
<1> HIDE DEF b, as, stored
<1>4. RefreshedWork(as, stored, b.work).req = stored.req
  BY <1>2 DEF RefreshedWork, WorkRecord
<1> QED
  BY <1>1, <1>2, <1>3, <1>4 DEF TypeOK

\* Every step moves requests so.
LEMMA NextRequests ==
    ASSUME TypeOK, [Next]_vars, NEW x \in Work
    PROVE  RequestMoves(x)
<1>0. {"Invalidated", "Expired"} \subseteq TerminalStates
  BY DEF TerminalStates
<1>1. (\A w \in Work : WorkSteady(w)) => RequestMoves(x)
  BY DEF WorkSteady, RequestMoves
<1>2. work' = work => RequestMoves(x)
  BY DEF RequestMoves
<1>3. CASE AgentNext
  BY <1>1, <1>3, AgentNextSteady
<1>4. CASE start \/ Tick \/ UNCHANGED vars
  BY <1>2, <1>4 DEF start, Tick, vars
<1>5. CASE shutdown \/ \E g \in 1..MaxPolicyGen, closes \in ClosePolicies :
                          set_policy(g, closes)
  BY <1>0, <1>1, <1>5, ClosedSteady DEF shutdown, set_policy, CloseAssignments
<1>6. CASE \E c \in Caller : commit_locked(c)
  BY <1>6, CommitRequests DEF RequestMoves
<1>7. CASE \E c \in Caller : \/ \E w \in Work : plan_locked(c, w)
                             \/ CommitRejected(c)
                             \/ \E b \in DOMAIN asg : dispatch(c, b)
                             \/ Handoff(c)
                             \/ HandoffRejected(c)
  BY <1>2, <1>7 DEF plan_locked, CommitRejected, dispatch, Handoff, HandoffRejected
<1>8. CASE \E b \in DOMAIN asg : Report(b)
  BY <1>1, <1>8, ReportSteady
<1>9. CASE revalidate_assignments \/ \E a \in Agent : revalidate_agent_assignments(a)
  <2>1. TypeOK'
    BY NextType
  <2>2. \E examined, promoted : Revalidate(examined, promoted)
    BY <1>9 DEF revalidate_assignments, revalidate_agent_assignments
  <2> QED
    BY <1>1, <2>1, <2>2, RevalidateSteady
<1>10. CASE expire_leases
  BY <1>0, <1>1, <1>10, ClosedSteady DEF expire_leases, CloseAssignments
<1> QED
  BY <1>3, <1>4, <1>5, <1>6, <1>7, <1>8, <1>9, <1>10, WorkNextRequests
     DEF Next, AssignmentNext

\* Of two finite sets of assignments the included one is the smaller, and one
\* more assignment is at most one more.
LEMMA Sizes ==
    ASSUME NEW S, IsFiniteSet(S), NEW T, NEW b, T \subseteq S \cup {b}
    PROVE  /\ Cardinality(S) \in Nat /\ Cardinality(T) \in Nat
           /\ Cardinality(T) <= Cardinality(S) + 1
           /\ T \subseteq S => Cardinality(T) <= Cardinality(S)
<1>1. /\ IsFiniteSet(S \cup {b})
      /\ Cardinality(S \cup {b}) = Cardinality(S)
           \/ Cardinality(S \cup {b}) = Cardinality(S) + 1
      /\ Cardinality(S) \in Nat /\ Cardinality(S \cup {b}) \in Nat
  BY FS_AddElement, FS_CardinalityType
<1>2. /\ IsFiniteSet(T) /\ Cardinality(T) \in Nat
      /\ Cardinality(T) <= Cardinality(S \cup {b})
  BY <1>1, FS_Subset, FS_CardinalityType
<1>3. T \subseteq S => Cardinality(T) <= Cardinality(S)
  BY FS_Subset
<1> QED
  BY <1>1, <1>2, <1>3

\* What a commit may add to: an exclusive work item has nothing active, a
\* parallel one has less than its limit, and less than its limit on the agent.
LEMMA CommitRoom ==
    ASSUME LifeInv, AccountingAgrees, RequestSound, NEW c \in Caller, commit_locked(c)
    PROVE  LET b == call[c].b
           IN  /\ b.work \in Work /\ b.agent \in Agent
               /\ Cardinality(OnWork(asg, b.work)) < work[b.work].req.maxParallel
               /\ Cardinality(OnWork(asg, b.work) \cap OnAgent(asg, b.agent))
                    < work[b.work].req.perAgent
<1> DEFINE b == call[c].b
           w == b.work
<1>1. /\ b.work \in Work /\ b.agent \in Agent
  BY LifeTyped, CarriedType DEF commit_locked, Binding
<1>2. BoundWorkCurrent(b) /\ SlotOpen(w, b.exclusive) /\ HasRoom(w, b.agent)
  BY DEF commit_locked, CommitAllowed, BoundAgentReady
<1>3. b.exclusive <=> work[w].req.mode = "Exclusive"
  BY <1>2 DEF commit_locked, BoundWorkCurrent, LifeInv, WorkInv, PlannedWorkCurrent
<1>4. /\ work[w].current = Cardinality(OnWork(asg, w))
      /\ work[w].req.maxParallel \in Nat
      /\ work[w].req.perAgent \in 1..work[w].req.maxParallel
  BY <1>1, LifeTyped DEF AccountingAgrees, RequestSound, WorkRecord, Request
<1>5. CASE b.exclusive
  <2>1. \A x \in OnWork(asg, w) : x.exclusive
    BY <1>3, <1>5 DEF LifeInv, WorkInv, ActiveWorkCurrent, OnWork
  <2>2. OnWork(asg, w) = {}
    BY <1>2, <1>5, <2>1 DEF SlotOpen
  <2>3. Cardinality(OnWork(asg, w)) = 0
    BY <2>2, FS_EmptySet
  <2> QED
    BY <1>1, <1>2, <1>4, <2>3 DEF HasRoom
<1>6. CASE ~b.exclusive
  BY <1>1, <1>2, <1>4, <1>6 DEF SlotOpen, HasRoom
<1> QED
  BY <1>5, <1>6

\* A commit keeps the fan-out bounded.
LEMMA CommitBounded ==
    ASSUME LifeInv, AccountingAgrees, FanInv, NEW c \in Caller, commit_locked(c)
    PROVE  FanoutBounded'
<1> DEFINE b == call[c].b
<1>1. /\ b.work \in Work /\ b.agent \in Agent
      /\ Cardinality(OnWork(asg, b.work)) < work[b.work].req.maxParallel
      /\ Cardinality(OnWork(asg, b.work) \cap OnAgent(asg, b.agent))
           < work[b.work].req.perAgent
  BY CommitRoom DEF FanInv
<1>2. ActiveIn(asg') \subseteq ActiveIn(asg) \cup {b}
  BY CommitStores DEF Adds, ActiveIn
<1>3. TypeOK
  BY LifeTyped
<1> HIDE DEF b
<1> SUFFICES ASSUME NEW w \in Work
             PROVE  /\ Cardinality(OnWork(asg', w)) <= work'[w].req.maxParallel
                    /\ \A a \in Agent :
                          Cardinality(OnWork(asg', w) \cap OnAgent(asg', a))
                            <= work'[w].req.perAgent
  BY DEF FanoutBounded
<1>4. /\ work'[w].req = work[w].req
      /\ work[w].req.maxParallel \in Nat /\ work[w].req.perAgent \in Nat
  BY <1>3, CommitRequests DEF TypeOK, WorkRecord, Request
<1>5. IsFiniteSet(OnWork(asg, w))
  BY <1>3, Counted DEF TypeOK
<1>6. Cardinality(OnWork(asg', w)) <= work[w].req.maxParallel
  <2>1. OnWork(asg', w) \subseteq OnWork(asg, w) \cup {b}
    BY <1>2 DEF OnWork
  <2>2. w # b.work => OnWork(asg', w) \subseteq OnWork(asg, w)
    BY <1>2 DEF OnWork
  <2>3. /\ Cardinality(OnWork(asg, w)) \in Nat /\ Cardinality(OnWork(asg', w)) \in Nat
        /\ Cardinality(OnWork(asg', w)) <= Cardinality(OnWork(asg, w)) + 1
        /\ w # b.work => Cardinality(OnWork(asg', w)) <= Cardinality(OnWork(asg, w))
    BY <1>5, <2>1, <2>2, Sizes
  <2>4. Cardinality(OnWork(asg, w)) <= work[w].req.maxParallel
    BY DEF FanInv, FanoutBounded
  <2> QED
    BY <1>1, <1>4, <2>3, <2>4
<1>7. ASSUME NEW a \in Agent
      PROVE  Cardinality(OnWork(asg', w) \cap OnAgent(asg', a)) <= work[w].req.perAgent
  <2> DEFINE old == OnWork(asg, w) \cap OnAgent(asg, a)
             new == OnWork(asg', w) \cap OnAgent(asg', a)
  <2>1. /\ new \subseteq old \cup {b}
        /\ ~(w = b.work /\ a = b.agent) => new \subseteq old
    BY <1>2 DEF OnWork, OnAgent
  <2>2. IsFiniteSet(old)
    BY <1>5, FS_Subset
  <2>3. Cardinality(old) <= work[w].req.perAgent
    BY DEF FanInv, FanoutBounded
  <2>4. w = b.work /\ a = b.agent => Cardinality(old) < work[w].req.perAgent
    BY <1>1
  <2> HIDE DEF old, new
  <2>5. /\ Cardinality(old) \in Nat /\ Cardinality(new) \in Nat
        /\ Cardinality(new) <= Cardinality(old) + 1
        /\ new \subseteq old => Cardinality(new) <= Cardinality(old)
    BY <2>1, <2>2, Sizes
  <2>6. Cardinality(new) <= work[w].req.perAgent
    BY <1>4, <2>1, <2>3, <2>4, <2>5
  <2> QED
    BY <2>6 DEF new
<1> QED
  BY <1>4, <1>6, <1>7

\* Every step keeps the fan-out bounded.
LEMMA FanInvNext ==
    ASSUME LifeInv, AccountingAgrees, FanInv, [Next]_vars
    PROVE  FanInv'
<1>0. TypeOK /\ AssignmentMap(asg) /\ \A w \in Work : RequestMoves(w)
  BY LifeTyped, NextRequests
<1>1. RequestSound'
  <2> SUFFICES ASSUME NEW w \in Work
               PROVE  /\ work'[w].req.perAgent \in 1..work'[w].req.maxParallel
                      /\ work'[w].req.mode = "Exclusive" =>
                            work'[w].req.maxParallel = 1
    BY DEF RequestSound
  <2>1. CASE work'[w].req = work[w].req
    BY <2>1 DEF FanInv, RequestSound
  <2>2. CASE work'[w].req \in Requests
    BY <2>2, Inputs
  <2> QED
    BY <1>0, <2>1, <2>2 DEF RequestMoves
<1>2. CASE \E c \in Caller : commit_locked(c)
  BY <1>1, <1>2, CommitBounded DEF FanInv
<1>3. CASE ~\E c \in Caller : commit_locked(c)
  <2>1. ActiveIn(asg') \subseteq ActiveIn(asg)
    BY <1>0, <1>3, OnlyCommitAdds
  <2>2. ASSUME NEW w \in Work
        PROVE  /\ Cardinality(OnWork(asg', w)) <= work'[w].req.maxParallel
               /\ \A a \in Agent :
                     Cardinality(OnWork(asg', w) \cap OnAgent(asg', a))
                       <= work'[w].req.perAgent
    <3>1. /\ work'[w].req.perAgent \in Nat /\ work'[w].req.maxParallel \in Nat
      <4>1. TypeOK'
        BY <1>0, NextType
      <4> QED
        BY <4>1 DEF TypeOK, WorkRecord, Request
    <3>2. CASE work'[w].req = work[w].req
      <4>1. IsFiniteSet(OnWork(asg, w))
        BY <1>0, Counted
      <4>2. OnWork(asg', w) \subseteq OnWork(asg, w)
        BY <2>1 DEF OnWork
      <4>3. \A a : OnWork(asg', w) \cap OnAgent(asg', a)
                    \subseteq OnWork(asg, w) \cap OnAgent(asg, a)
        BY <2>1 DEF OnWork, OnAgent
      <4>4. /\ Cardinality(OnWork(asg, w)) \in Nat
            /\ Cardinality(OnWork(asg', w)) \in Nat
            /\ Cardinality(OnWork(asg', w)) <= Cardinality(OnWork(asg, w))
        BY <4>1, <4>2, FS_Subset, FS_CardinalityType
      <4>5. ASSUME NEW a \in Agent
            PROVE  Cardinality(OnWork(asg', w) \cap OnAgent(asg', a))
                     <= work'[w].req.perAgent
        <5> DEFINE old == OnWork(asg, w) \cap OnAgent(asg, a)
                   new == OnWork(asg', w) \cap OnAgent(asg', a)
        <5>1. new \subseteq old /\ IsFiniteSet(old)
          BY <4>1, <4>3, FS_Subset
        <5>2. Cardinality(old) <= work[w].req.perAgent
          BY DEF FanInv, FanoutBounded
        <5> HIDE DEF old, new
        <5>3. /\ Cardinality(new) \in Nat /\ Cardinality(old) \in Nat
              /\ Cardinality(new) <= Cardinality(old)
          BY <5>1, FS_Subset, FS_CardinalityType
        <5>4. Cardinality(new) <= work'[w].req.perAgent
          BY <3>1, <3>2, <5>2, <5>3
        <5> QED
          BY <5>4 DEF new
      <4>6. Cardinality(OnWork(asg, w)) <= work[w].req.maxParallel
        BY DEF FanInv, FanoutBounded
      <4> QED
        BY <3>1, <3>2, <4>4, <4>5, <4>6
    <3>3. CASE OnWork(asg', w) = {}
      <4>1. \A a : OnWork(asg', w) \cap OnAgent(asg', a) = {}
        BY <3>3
      <4> QED
        BY <3>1, <3>3, <4>1, FS_EmptySet
    <3> QED
      BY <1>0, <3>2, <3>3 DEF RequestMoves
  <2> QED
    BY <1>1, <2>2 DEF FanInv, FanoutBounded
<1> QED
  BY <1>2, <1>3

\* At first nothing is requested and nothing is active.
LEMMA FanInit == Init => FanInv
<1>1. ASSUME Init PROVE FanInv
  <2>1. ActiveIn(asg) = {}
    BY <1>1 DEF Init, ActiveIn
  <2>2. \A x : OnWork(asg, x) = {}
    BY <2>1 DEF OnWork
  <2>3. \A x, y : OnWork(asg, x) \cap OnAgent(asg, y) = {}
    BY <2>2
  <2>4. \A w \in Work : work[w].req = NoRequest
    BY <1>1 DEF Init, UnknownWork
  <2>5. RequestSound
    BY <2>4 DEF RequestSound, NoRequest
  <2>6. FanoutBounded
    BY <2>2, <2>3, <2>4, FS_EmptySet DEF FanoutBounded, NoRequest
  <2> QED
    BY <2>5, <2>6 DEF FanInv
<1> QED
  BY <1>1

\* Parallel fan-out never exceeds what the request declares, in total and on any
\* one agent, and exclusive work has no fan-out: the commit tests the limits again,
\* and the counts it tests are the true ones.
THEOREM FanoutAlwaysBounded == Spec => []FanoutBounded
<1>1. Init => FanInv
  BY FanInit
<1>2. FanInv /\ LifeInv /\ AccountingAgrees /\ [Next]_vars => FanInv'
  BY FanInvNext
<1>3. FanInv => FanoutBounded
  BY DEF FanInv
<1> QED
  BY <1>1, <1>2, <1>3, LifeInvariant, AccountingAlwaysAgrees, PTL DEF Spec

-----------------------------------------------------------------------------
(* Concurrency.                                                            *)

\* The agent keeps the concurrency it declared, or declares one.
Offers(a) == agents'[a].maxc \in {agents[a].maxc} \cup Concurrency

\* Refreshing keeps the declared concurrency.
LEMMA RefreshedOffer ==
    ASSUME NEW as, NEW a, NEW r \in AgentRecord
    PROVE  RefreshedAgent(as, r, a).maxc = r.maxc
<1> DEFINE counted == [r EXCEPT !.active = Cardinality(OnAgent(as, a))]
<1>1. /\ DOMAIN counted = DOMAIN r /\ "maxc" \in DOMAIN r
      /\ counted.maxc = r.maxc
  BY DEF AgentRecord
<1>2. RefreshedAgent(as, r, a) = [counted EXCEPT !.lifecycle = recompute_lifecycle(counted)]
  BY DEF RefreshedAgent
<1> HIDE DEF counted
<1> QED
  BY <1>1, <1>2

\* So does refreshing whomever closing touches.
LEMMA AfterOffer ==
    ASSUME TypeOK, NEW as, NEW ids, NEW a \in Agent
    PROVE  AgentsAfter(as, ids)[a].maxc = agents[a].maxc
<1>1. agents[a] \in AgentRecord
  BY DEF TypeOK
<1>2. RefreshedAgent(as, agents[a], a).maxc = agents[a].maxc
  BY <1>1, RefreshedOffer
<1>3. AgentsAfter(as, ids)[a] \in {agents[a], RefreshedAgent(as, agents[a], a)}
  BY DEF AgentsAfter
<1> QED
  BY <1>2, <1>3

\* Storing another record for one agent changes what that agent offers, to what
\* the record says.
LEMMA StoredOffer ==
    ASSUME NEW ag, DOMAIN ag = Agent, NEW a \in Agent, NEW new,
           \A x \in Agent : ag[x].maxc = agents[x].maxc,
           new.maxc \in {agents[a].maxc} \cup Concurrency,
           agents' = [ag EXCEPT ![a] = new]
    PROVE  \A x \in Agent : Offers(x)
<1> SUFFICES ASSUME NEW x \in Agent
             PROVE  agents'[x].maxc \in {agents[x].maxc} \cup Concurrency
  BY DEF Offers
<1>1. agents'[a] = new /\ x # a => agents'[x] = ag[x]
  OBVIOUS
<1> QED
  BY <1>1

\* The same of the refreshed form of a record.
LEMMA PublishOffer ==
    ASSUME TypeOK, NEW a \in Agent, NEW r \in AgentRecord, NEW as,
           r.maxc \in {agents[a].maxc} \cup Concurrency,
           agents' = [agents EXCEPT ![a] = RefreshedAgent(as, r, a)]
    PROVE  \A x \in Agent : Offers(x)
<1> DEFINE new == RefreshedAgent(as, r, a)
<1>1. new.maxc = r.maxc
  BY RefreshedOffer
<1>2. DOMAIN agents = Agent
  BY DEF TypeOK
<1>3. agents' = [agents EXCEPT ![a] = new]
  OBVIOUS
<1> HIDE DEF new
<1>4. new.maxc \in {agents[a].maxc} \cup Concurrency
  BY <1>1
<1> QED
  BY <1>2, <1>3, <1>4, StoredOffer

\* A handler that closes assignments and stores the refreshed form of one record.
LEMMA CloseOffer ==
    ASSUME TypeOK, NEW a \in Agent, NEW r \in AgentRecord, NEW as, NEW ids,
           r.maxc \in {agents[a].maxc} \cup Concurrency,
           agents' = [AgentsAfter(as, ids) EXCEPT ![a] = RefreshedAgent(as, r, a)]
    PROVE  \A x \in Agent : Offers(x)
<1>1. DOMAIN AgentsAfter(as, ids) = Agent
  BY DEF AgentsAfter
<1>2. \A x \in Agent : AgentsAfter(as, ids)[x].maxc = agents[x].maxc
  BY AfterOffer
<1>3. RefreshedAgent(as, r, a).maxc = r.maxc
  BY RefreshedOffer
<1> SUFFICES ASSUME NEW x \in Agent
             PROVE  agents'[x].maxc \in {agents[x].maxc} \cup Concurrency
  BY DEF Offers
<1>4. x = a => agents'[x] = RefreshedAgent(as, r, a)
  BY <1>1
<1>5. x # a => agents'[x] = AgentsAfter(as, ids)[x]
  BY <1>1
<1> QED
  BY <1>2, <1>3, <1>4, <1>5

\* Only registration declares a concurrency.
LEMMA AgentNextOffers ==
    ASSUME TypeOK, AgentNext
    PROVE  \A x \in Agent : Offers(x)
<1> PICK a \in Agent :
        \/ \E g \in 1..MaxAgentGen, boot \in BootOf[a], m \in Concurrency :
              RegisterNew(a, g, boot, m) \/ Reincarnate(a, g, boot, m)
        \/ \E m \in Concurrency : Reregister(a, m)
        \/ \E g \in 1..MaxCapGen, at \in 1..now : publish_capabilities(a, g, at)
        \/ \E v \in HealthReports, at \in 1..now : publish_health(a, v, at)
        \/ \E v \in AvailReports, at \in 1..now : publish_availability(a, v, at)
        \/ heartbeat(a)
        \/ \E force \in BOOLEAN : drain_agent(a, force) \/ deregister_agent(a, force)
        \/ LoseCurrent(a)
        \/ \E boot \in BootOf[a] : LoseStale(a, boot)
  BY DEF AgentNext
<1>0. /\ agents \in [Agent -> AgentRecord] /\ agents[a] \in AgentRecord
      /\ DOMAIN agents = Agent /\ now \in Nat
      /\ {"Lost", "Retired", "Draining", "RevalidationRequired"}
           \subseteq AgentLifecycles
  BY DEF TypeOK, AgentLifecycles
<1>1. ASSUME NEW g \in 1..MaxAgentGen, NEW boot \in BootOf[a], NEW m \in Concurrency,
             RegisterNew(a, g, boot, m)
      PROVE  \A x \in Agent : Offers(x)
  BY <1>0, <1>1 DEF RegisterNew, FreshAgent, Offers
<1>2. ASSUME NEW g \in 1..MaxAgentGen, NEW boot \in BootOf[a], NEW m \in Concurrency,
             Reincarnate(a, g, boot, m)
      PROVE  \A x \in Agent : Offers(x)
  <2>1. g \in Nat /\ boot \in Boot /\ m \in Nat
    BY Inputs, Bounds
  <2>2. FreshAgent(g, boot, m) \in AgentRecord /\ FreshAgent(g, boot, m).maxc = m
    BY <1>0, <2>1, FreshAgentType DEF FreshAgent
  <2> QED
    BY <1>2, <2>2, CloseOffer DEF Reincarnate
<1>3. ASSUME NEW m \in Concurrency, Reregister(a, m)
      PROVE  \A x \in Agent : Offers(x)
  <2> DEFINE r == [agents[a] EXCEPT
                     !.maxc = m, !.lease = now + RegistrationTtl,
                     !.lifecycle = IF @ = "Lost"
                                   THEN "RevalidationRequired" ELSE @]
  <2>1. m \in Nat /\ now + RegistrationTtl \in Nat
    BY <1>0, Inputs, Bounds
  <2>2. r \in AgentRecord /\ r.maxc = m
    BY <1>0, <2>1 DEF AgentRecord
  <2>3. agents' = [agents EXCEPT ![a] = RefreshedAgent(asg, r, a)]
    BY <1>3 DEF Reregister
  <2> HIDE DEF r
  <2> QED
    BY <2>2, <2>3, PublishOffer
<1>4. ASSUME NEW g \in 1..MaxCapGen, NEW at \in 1..now,
             publish_capabilities(a, g, at)
      PROVE  \A x \in Agent : Offers(x)
  <2> DEFINE r == [agents[a] EXCEPT
                     !.capability = [value |-> g, current |-> TRUE, at |-> at],
                     !.recovered = FALSE]
  <2>0. g \in Nat /\ at \in Nat
    BY <1>0, Bounds
  <2>1. r \in AgentRecord /\ r.maxc = agents[a].maxc
    BY <1>0, <2>0 DEF AgentRecord, Evidence
  <2>2. agents' = [agents EXCEPT ![a] = RefreshedAgent(asg', r, a)]
    BY <1>4 DEF publish_capabilities
  <2> HIDE DEF r
  <2> QED
    BY <2>1, <2>2, PublishOffer
<1>5. ASSUME NEW v \in HealthReports, NEW at \in 1..now, publish_health(a, v, at)
      PROVE  \A x \in Agent : Offers(x)
  <2> DEFINE r == [agents[a] EXCEPT
                     !.health = [value |-> v, current |-> TRUE, at |-> at],
                     !.recovered = FALSE]
  <2>0. v \in Healths /\ at \in Nat
    BY <1>0, Inputs
  <2>1. r \in AgentRecord /\ r.maxc = agents[a].maxc
    BY <1>0, <2>0 DEF AgentRecord, Evidence
  <2>2. agents' = [agents EXCEPT ![a] = RefreshedAgent(asg, r, a)]
    BY <1>5 DEF publish_health
  <2> HIDE DEF r
  <2> QED
    BY <2>1, <2>2, PublishOffer
<1>6. ASSUME NEW v \in AvailReports, NEW at \in 1..now, publish_availability(a, v, at)
      PROVE  \A x \in Agent : Offers(x)
  <2> DEFINE r == [agents[a] EXCEPT
                     !.avail = [value |-> v, current |-> TRUE, at |-> at],
                     !.recovered = FALSE]
  <2>0. v \in Avails /\ at \in Nat
    BY <1>0, Inputs
  <2>1. r \in AgentRecord /\ r.maxc = agents[a].maxc
    BY <1>0, <2>0 DEF AgentRecord, Evidence
  <2>2. agents' = [agents EXCEPT ![a] = RefreshedAgent(asg, r, a)]
    BY <1>6 DEF publish_availability
  <2> HIDE DEF r
  <2> QED
    BY <2>1, <2>2, PublishOffer
<1>7. CASE heartbeat(a) \/ \E boot \in BootOf[a] : LoseStale(a, boot)
  BY <1>0, <1>7 DEF heartbeat, LoseStale, Offers, AgentRecord
<1>8. ASSUME NEW force \in BOOLEAN, drain_agent(a, force)
      PROVE  \A x \in Agent : Offers(x)
  <2> DEFINE r == [agents[a] EXCEPT !.lifecycle = "Draining"]
  <2>1. r \in AgentRecord /\ r.maxc = agents[a].maxc
    BY <1>0 DEF AgentRecord
  <2>2. \E as, ids : agents' = [AgentsAfter(as, ids) EXCEPT
                                  ![a] = RefreshedAgent(as, r, a)]
    BY <1>8 DEF drain_agent
  <2> HIDE DEF r
  <2> QED
    BY <2>1, <2>2, CloseOffer
<1>9. ASSUME NEW l \in {"Retired", "Lost"}, NEW as, NEW ids,
             agents' = [AgentsAfter(as, ids) EXCEPT ![a] = EndedAgent(as, a, l)]
      PROVE  \A x \in Agent : Offers(x)
  <2> DEFINE r == [invalidate_dynamic_evidence(agents[a]) EXCEPT !.lifecycle = l]
  <2>1. r \in AgentRecord /\ r.maxc = agents[a].maxc
    BY <1>0 DEF AgentRecord, Evidence, invalidate_dynamic_evidence, Withdrawn,
                Healths, Avails
  <2>2. agents' = [AgentsAfter(as, ids) EXCEPT ![a] = RefreshedAgent(as, r, a)]
    BY <1>9 DEF EndedAgent
  <2> HIDE DEF r
  <2> QED
    BY <2>1, <2>2, CloseOffer
<1>10. CASE LoseCurrent(a) \/ \E force \in BOOLEAN : deregister_agent(a, force)
  <2>1. \E l \in {"Retired", "Lost"} : \E as, ids :
           agents' = [AgentsAfter(as, ids) EXCEPT ![a] = EndedAgent(as, a, l)]
    BY <1>10 DEF LoseCurrent, deregister_agent
  <2> QED
    BY <1>9, <2>1
<1> QED
  BY <1>1, <1>2, <1>3, <1>4, <1>5, <1>6, <1>7, <1>8, <1>10

\* Every step lets an agent keep what it offers, or is a registration.
LEMMA NextOffers ==
    ASSUME TypeOK, [Next]_vars
    PROVE  \A x \in Agent : Offers(x)
<1>1. (\A x \in Agent : agents'[x].maxc = agents[x].maxc) => \A x \in Agent : Offers(x)
  BY DEF Offers
<1>2. agents' = agents => \A x \in Agent : Offers(x)
  BY <1>1
<1>3. ASSUME NEW as, NEW ids, agents' = AgentsAfter(as, ids)
      PROVE  \A x \in Agent : Offers(x)
  BY <1>1, <1>3, AfterOffer
<1>4. CASE start \/ Tick \/ UNCHANGED vars
  BY <1>2, <1>4 DEF start, Tick, vars
<1>5. CASE shutdown \/ \E g \in 1..MaxPolicyGen, closes \in ClosePolicies :
                          set_policy(g, closes)
  BY <1>2, <1>3, <1>5 DEF shutdown, set_policy, CloseAssignments
<1>6. CASE WorkNext
  BY <1>3, <1>6 DEF WorkNext, submit_work, supersede_work, Readmit, cancel_work,
                    expire_deadlines
<1>7. ASSUME NEW c \in Caller, commit_locked(c)
      PROVE  \A x \in Agent : Offers(x)
  <2> DEFINE b == call[c].b
  <2>1. b.agent \in Agent
    BY <1>7, CarriedType DEF commit_locked, Binding
  <2>2. \E as : agents' = [agents EXCEPT
                             ![b.agent] = RefreshedAgent(as, agents[b.agent], b.agent)]
    BY <1>7, <2>1 DEF commit_locked, TypeOK
  <2>3. agents[b.agent] \in AgentRecord
    BY <2>1 DEF TypeOK
  <2> HIDE DEF b
  <2> QED
    BY <2>1, <2>2, <2>3, PublishOffer
<1>8. CASE \E c \in Caller : \/ \E w \in Work : plan_locked(c, w)
                             \/ CommitRejected(c)
                             \/ \E b \in DOMAIN asg : dispatch(c, b)
                             \/ Handoff(c)
                             \/ HandoffRejected(c)
  BY <1>2, <1>8 DEF plan_locked, CommitRejected, dispatch, Handoff, HandoffRejected
<1>9. CASE \E b \in DOMAIN asg : Report(b)
  BY <1>2, <1>3, <1>9 DEF Report, acknowledge, mark_executing, Return, Finish,
                          CloseAssignments
<1>10. CASE revalidate_assignments \/ \E a \in Agent : revalidate_agent_assignments(a)
  BY <1>3, <1>10 DEF revalidate_assignments, revalidate_agent_assignments, Revalidate
<1>11. CASE expire_leases
  BY <1>3, <1>11 DEF expire_leases, CloseAssignments
<1> QED
  BY <1>4, <1>5, <1>6, <1>7, <1>8, <1>9, <1>10, <1>11, AgentNextOffers
     DEF Next, AssignmentNext

\* No step takes an agent over its concurrency: nothing but a commit adds to what
\* is active, and it tests the count before.
LEMMA CapacityNext ==
    ASSUME OneConcurrency, LifeInv, AccountingAgrees, AccountingAgrees', CapacityInv,
           TypeOK', [Next]_vars
    PROVE  CapacityInv'
<1>0. TypeOK /\ AssignmentMap(asg) /\ Concurrency \subseteq Nat \ {0}
  BY LifeTyped, Inputs
<1> SUFFICES ASSUME NEW a \in Agent
             PROVE  /\ agents'[a].maxc \in Concurrency \cup {0}
                    /\ agents'[a].active <= agents'[a].maxc
  BY DEF CapacityInv, Declared, CapacityNotExceeded
<1>1. /\ agents[a].maxc \in Concurrency \cup {0}
      /\ agents[a].active <= agents[a].maxc
      /\ agents[a].active \in Nat /\ agents[a].maxc \in Nat
  BY <1>0 DEF CapacityInv, Declared, CapacityNotExceeded, TypeOK, AgentRecord
<1>2. agents'[a].maxc \in {agents[a].maxc} \cup Concurrency
  BY <1>0, NextOffers DEF Offers
<1>3. agents'[a].maxc \in Nat /\ agents'[a].maxc \in Concurrency \cup {0}
  BY <1>0, <1>1, <1>2
<1>4. agents'[a].maxc = agents[a].maxc \/ agents[a].maxc = 0
  BY <1>1, <1>2 DEF OneConcurrency
<1>5. /\ agents[a].active = Cardinality(OnAgent(asg, a))
      /\ agents'[a].active = Cardinality(OnAgent(asg', a))
      /\ IsFiniteSet(OnAgent(asg, a))
  BY <1>0, Counted DEF AccountingAgrees
<1>6. agents'[a].active <= agents'[a].maxc
  <2>1. CASE OnAgent(asg', a) \subseteq OnAgent(asg, a)
    <3>1. agents'[a].active \in Nat /\ agents'[a].active <= agents[a].active
      BY <1>5, <2>1, FS_Subset, FS_CardinalityType
    <3> QED
      BY <1>1, <1>3, <1>4, <3>1
  <2>2. CASE ~(OnAgent(asg', a) \subseteq OnAgent(asg, a))
    <3>1. ~(ActiveIn(asg') \subseteq ActiveIn(asg))
      BY <2>2 DEF OnAgent
    <3>2. PICK c \in Caller : commit_locked(c)
      BY <1>0, <3>1, OnlyCommitAdds
    <3> DEFINE b == call[c].b
    <3>3. /\ OnAgent(asg', a) \subseteq OnAgent(asg, a) \cup {b}
          /\ b.agent = a
      <4>1. ActiveIn(asg') \subseteq ActiveIn(asg) \cup {b}
        BY <3>2, CommitStores DEF Adds, ActiveIn
      <4> HIDE DEF b
      <4> QED
        BY <2>2, <4>1 DEF OnAgent
    <3>4. agents[a].active < agents[a].maxc
      BY <3>2, <3>3 DEF commit_locked, CommitAllowed, BoundAgentReady, HasRoom
    <3>5. /\ agents'[a].active \in Nat
          /\ agents'[a].active <= agents[a].active + 1
      BY <1>5, <3>3, Sizes
    <3> QED
      BY <1>1, <1>3, <1>4, <3>4, <3>5
  <2> QED
    BY <2>1, <2>2
<1> QED
  BY <1>3, <1>6

\* At first no agent declares a concurrency, and none holds anything.
LEMMA CapacityInit == Init => CapacityInv
<1>1. ASSUME Init PROVE CapacityInv
  <2>1. \A a \in Agent : agents[a].maxc = 0 /\ agents[a].active = 0
    BY <1>1 DEF Init, UnregisteredAgent
  <2> QED
    BY <2>1 DEF CapacityInv, Declared, CapacityNotExceeded
<1> QED
  BY <1>1

\* No agent ever holds more assignments than it declares, as long as it does not
\* declare another concurrency: the commit tests the count again, and the count it
\* tests is the true one.  A registration may lower the declared concurrency under
\* what is already held, and the code accepts that.
THEOREM CapacityNeverExceeded ==
    ASSUME OneConcurrency
    PROVE  Spec => []CapacityNotExceeded
<1>1. Init => CapacityInv
  BY CapacityInit
<1>2. /\ CapacityInv /\ LifeInv /\ LifeInv' /\ AccountingAgrees /\ AccountingAgrees'
      /\ [Next]_vars
      => CapacityInv'
  <2>1. LifeInv' => TypeOK'
    BY DEF LifeInv, WorkInv
  <2> QED
    BY <2>1, CapacityNext
<1>3. CapacityInv => CapacityNotExceeded
  BY DEF CapacityInv
<1> QED
  BY <1>1, <1>2, <1>3, LifeInvariant, AccountingAlwaysAgrees, PTL DEF Spec

-----------------------------------------------------------------------------
(***************************************************************************)
(* The derived indexes agree with the records, and known work names a      *)
(* queue that was reached (module Bookkeeping).                            *)
(*                                                                         *)
(* A handler updates the indexes piece by piece, so what each update makes *)
(* is described as the index of some records: of those the handler has     *)
(* written so far.  Agreement is then one lemma per update, and a handler  *)
(* is right if the last of its updates describes the records it leaves.    *)
(***************************************************************************)

\* The pairs that an index by lifecycle lists for the records rs of S.
Listing(rs, S, none) ==
    {<<rs[x].lifecycle, x>> : x \in {y \in S : rs[y].lifecycle # none}}

CapableOf(ag) ==
    {a \in Agent : ag[a].lifecycle # "Unregistered" /\ ag[a].capability.current}

Queued(wk, pl) ==
    {<<pl[w].queue, w>> : w \in {x \in Work : wk[x].lifecycle # "Unknown"}}

\* What a work item names: a queue, or none before it is first admitted.
PlacedRecord == [queue : Queue \cup {""}, gen : Nat]

\* The indexes of agents ag, work wk placed as in pl, and active assignments S.
Indexed(ag, wk, pl, S) ==
    [agents |-> Listing(ag, Agent, "Unregistered"),
     capable |-> CapableOf(ag),
     work |-> Listing(wk, Work, "Unknown"),
     queue |-> Queued(wk, pl),
     assignments |-> S]

\* Canonical is what Indexed says of the current records.
LEMMA CanonicalIndexed ==
    /\ Canonical = Indexed(agents, work, placed, ActiveIn(asg))
    /\ Canonical' = Indexed(agents', work', placed', ActiveIn(asg'))
  BY DEF Canonical, Indexed, Listing, CapableOf, Queued, Known, KnownWork

\* Listing some records anew, as they are in the end, gives the listing of what
\* there is in the end if no other lifecycle changed.
LEMMA ListedAnew ==
    ASSUME NEW old, NEW new, NEW rs, NEW S, NEW none, NEW xs \in SUBSET S,
           \A x \in S \ xs : new[x].lifecycle = old[x].lifecycle,
           \A x \in xs : /\ rs[x].lifecycle = new[x].lifecycle
                         /\ new[x].lifecycle # none
    PROVE  Relisted(Listing(old, S, none), rs, xs) = Listing(new, S, none)
<1>1. ASSUME NEW p \in Relisted(Listing(old, S, none), rs, xs)
      PROVE  p \in Listing(new, S, none)
  <2>1. CASE p \in Listing(old, S, none) /\ p[2] \notin xs
    <3>1. PICK x \in S : p = <<old[x].lifecycle, x>> /\ old[x].lifecycle # none
      BY <2>1 DEF Listing
    <3>2. x \in S \ xs
      BY <2>1, <3>1
    <3> QED
      BY <3>1, <3>2 DEF Listing
  <2>2. CASE \E x \in xs : p = <<rs[x].lifecycle, x>>
    BY <2>2 DEF Listing
  <2> QED
    BY <1>1, <2>1, <2>2 DEF Relisted
<1>2. ASSUME NEW p \in Listing(new, S, none)
      PROVE  p \in Relisted(Listing(old, S, none), rs, xs)
  <2>1. PICK x \in S : p = <<new[x].lifecycle, x>> /\ new[x].lifecycle # none
    BY <1>2 DEF Listing
  <2>2. CASE x \in xs
    BY <2>1, <2>2 DEF Relisted
  <2>3. CASE x \notin xs
    <3>1. p = <<old[x].lifecycle, x>> /\ old[x].lifecycle # none /\ p[2] = x
      BY <2>1, <2>3
    <3> QED
      BY <2>3, <3>1 DEF Relisted, Listing
  <2> QED
    BY <2>2, <2>3
<1> QED
  BY <1>1, <1>2

\* Only whether an item is known matters for the queue it is listed under.
LEMMA QueuedAlike ==
    ASSUME NEW old, NEW new, NEW pl,
           \A w \in Work : new[w].lifecycle = "Unknown" <=> old[w].lifecycle = "Unknown"
    PROVE  Queued(new, pl) = Queued(old, pl)
  BY DEF Queued

-----------------------------------------------------------------------------
(* What each index update makes.                                           *)

\* Listing some agents anew, known before and after and with the capabilities
\* they had, leaves the index of their records.
LEMMA AgentsSynced ==
    ASSUME NEW ag, NEW new, NEW wk, NEW pl, NEW S, NEW xs \in SUBSET Agent,
           \A x \in Agent \ xs : new[x].lifecycle = ag[x].lifecycle,
           \A x \in xs : /\ new[x].lifecycle # "Unregistered"
                         /\ ag[x].lifecycle # "Unregistered",
           \A x \in Agent : new[x].capability = ag[x].capability
    PROVE  sync_agent_lifecycle_index(Indexed(ag, wk, pl, S), new, xs)
             = Indexed(new, wk, pl, S)
<1>0. xs \in SUBSET Agent
  OBVIOUS
<1> DEFINE old == Listing(ag, Agent, "Unregistered")
           listed == Listing(new, Agent, "Unregistered")
           capable == CapableOf(ag)
           onWork == Listing(wk, Work, "Unknown")
           queued == Queued(wk, pl)
<1>1. Relisted(old, new, xs) = listed /\ CapableOf(new) = CapableOf(ag)
  BY <1>0, ListedAnew DEF CapableOf
<1>2. /\ Indexed(ag, wk, pl, S) = [agents |-> old, capable |-> capable, work |-> onWork,
                                  queue |-> queued, assignments |-> S]
      /\ Indexed(new, wk, pl, S) = [agents |-> listed, capable |-> capable,
                                   work |-> onWork, queue |-> queued,
                                   assignments |-> S]
  BY <1>1 DEF Indexed
<1> HIDE DEF old, listed, capable, onWork, queued
<1> QED
  BY <1>1, <1>2 DEF sync_agent_lifecycle_index

\* The same for work, of which a listed item was known before.
LEMMA WorkSynced ==
    ASSUME NEW ag, NEW wk, NEW new, NEW pl, NEW S, NEW ws \in SUBSET Work,
           \A x \in Work \ ws : new[x].lifecycle = wk[x].lifecycle,
           \A x \in ws : new[x].lifecycle # "Unknown" /\ wk[x].lifecycle # "Unknown"
    PROVE  sync_work_lifecycle_index(Indexed(ag, wk, pl, S), new, ws)
             = Indexed(ag, new, pl, S)
<1>1. Relisted(Listing(wk, Work, "Unknown"), new, ws) = Listing(new, Work, "Unknown")
  BY ListedAnew
<1>2. Queued(new, pl) = Queued(wk, pl)
  BY QueuedAlike
<1> QED
  BY <1>1, <1>2 DEF sync_work_lifecycle_index, Indexed

\* Of new assignments, the active ones are added.
LEMMA AssignmentsIndexed ==
    ASSUME NEW ag, NEW wk, NEW pl, NEW S, NEW bs
    PROVE  index_assignment(Indexed(ag, wk, pl, S), bs)
             = Indexed(ag, wk, pl, S \cup (bs \cap ActiveIn(asg')))
  BY DEF index_assignment, Indexed

\* Apart from a, the agents have the lifecycle and the capabilities they had.
OthersAlike(ag, new, a) ==
    \A x \in Agent \ {a} : /\ new[x].lifecycle = ag[x].lifecycle
                           /\ new[x].capability = ag[x].capability

\* Taking the record of an agent off the indexes and listing it again.
LEMMA AgentReindexed ==
    ASSUME NEW ag, NEW wk, NEW pl, NEW S, NEW a \in Agent,
           agents'[a].lifecycle # "Unregistered",
           OthersAlike(ag, agents', a)
    PROVE  refresh_agent(Indexed(ag, wk, pl, S), a) = Indexed(agents', wk, pl, S)
<1> DEFINE old == Listing(ag, Agent, "Unregistered")
           listed == Listing(agents', Agent, "Unregistered")
           was == CapableOf(ag)
           capable == CapableOf(agents')
           onWork == Listing(wk, Work, "Unknown")
           queued == Queued(wk, pl)
<1>1. Relisted(old, agents', {a}) = listed
  <2>1. {a} \in SUBSET Agent
    OBVIOUS
  <2> QED
    BY <2>1, ListedAnew DEF OthersAlike
<1>2. (IF agents'[a].capability.current THEN was \cup {a} ELSE was \ {a}) = capable
  BY DEF CapableOf, OthersAlike
<1>3. /\ Indexed(ag, wk, pl, S) = [agents |-> old, capable |-> was, work |-> onWork,
                                  queue |-> queued, assignments |-> S]
      /\ Indexed(agents', wk, pl, S) = [agents |-> listed, capable |-> capable,
                                       work |-> onWork, queue |-> queued,
                                       assignments |-> S]
  BY DEF Indexed
<1> HIDE DEF old, listed, was, capable, onWork, queued
<1> DEFINE ix == sync_agent_lifecycle_index(Indexed(ag, wk, pl, S), agents', {a})
<1>4. ix = [agents |-> listed, capable |-> was, work |-> onWork, queue |-> queued,
           assignments |-> S]
  BY <1>1, <1>3 DEF sync_agent_lifecycle_index
<1>5. ix.capable = was
  BY <1>4
<1>6. refresh_agent(Indexed(ag, wk, pl, S), a) = [ix EXCEPT !.capable = capable]
  BY <1>2, <1>5 DEF refresh_agent
<1> HIDE DEF ix
<1> QED
  BY <1>3, <1>4, <1>6

\* Taking the record of a work item off the indexes and listing it again.
LEMMA WorkReindexed ==
    ASSUME NEW ag, NEW wk, NEW pl, NEW S, NEW w \in Work,
           work'[w].lifecycle # "Unknown",
           \A x \in Work \ {w} : /\ work'[x].lifecycle = wk[x].lifecycle
                                 /\ placed'[x] = pl[x]
    PROVE  ReindexWork(Indexed(ag, wk, pl, S), w) = Indexed(ag, work', placed', S)
<1> DEFINE onAgents == Listing(ag, Agent, "Unregistered")
           capable == CapableOf(ag)
           old == Listing(wk, Work, "Unknown")
           listed == Listing(work', Work, "Unknown")
           was == Queued(wk, pl)
           queued == Queued(work', placed')
<1>1. Relisted(old, work', {w}) = listed
  <2>1. {w} \in SUBSET Work
    OBVIOUS
  <2> QED
    BY <2>1, ListedAnew
<1>2. {p \in was : p[2] # w} \cup {<<placed'[w].queue, w>>} = queued
  BY DEF Queued
<1>3. /\ Indexed(ag, wk, pl, S) = [agents |-> onAgents, capable |-> capable,
                                  work |-> old, queue |-> was, assignments |-> S]
      /\ Indexed(ag, work', placed', S) = [agents |-> onAgents, capable |-> capable,
                                          work |-> listed, queue |-> queued,
                                          assignments |-> S]
  BY DEF Indexed
<1> HIDE DEF onAgents, capable, old, listed, was, queued
<1> DEFINE ix == sync_work_lifecycle_index(Indexed(ag, wk, pl, S), work', {w})
<1>4. ix = [agents |-> onAgents, capable |-> capable, work |-> listed, queue |-> was,
           assignments |-> S]
  BY <1>1, <1>3 DEF sync_work_lifecycle_index
<1>5. ix.queue = was
  BY <1>4
<1>6. ReindexWork(Indexed(ag, wk, pl, S), w) = [ix EXCEPT !.queue = queued]
  BY <1>2, <1>5 DEF ReindexWork
<1> HIDE DEF ix
<1> QED
  BY <1>3, <1>4, <1>6

\* An agent or work item that closing refreshes is listed by what it becomes, and
\* nothing else about the others' listing changes.
LEMMA AfterListed ==
    ASSUME LifeInv, NEW as, AssignmentMap(as), NEW ids \in SUBSET ActiveIn(asg)
    PROVE  /\ \A x \in Agent :
                 /\ x \notin {b.agent : b \in ids} =>
                       AgentsAfter(as, ids)[x].lifecycle = agents[x].lifecycle
                 /\ x \in {b.agent : b \in ids} =>
                       AgentsAfter(as, ids)[x].lifecycle # "Unregistered"
                 /\ AgentsAfter(as, ids)[x].lifecycle = "Unregistered"
                       <=> agents[x].lifecycle = "Unregistered"
                 /\ AgentsAfter(as, ids)[x].capability = agents[x].capability
           /\ \A x \in Work :
                 /\ x \notin {b.work : b \in ids} =>
                       WorkAfter(as, ids)[x].lifecycle = work[x].lifecycle
                 /\ x \in {b.work : b \in ids} =>
                       /\ WorkAfter(as, ids)[x].lifecycle # "Unknown"
                       /\ work[x].lifecycle # "Unknown"
                 /\ WorkAfter(as, ids)[x].lifecycle = "Unknown"
                       <=> work[x].lifecycle = "Unknown"
<1>1. /\ \A b \in ids : Known(b.agent) /\ KnownWork(b.work)
      /\ \A x \in Agent : AgentKept(agents[x], AgentsAfter(as, ids)[x])
      /\ \A x \in Work : WorkKept(work[x], WorkAfter(as, ids)[x])
  BY LifeTyped, ActiveKnown, AgentsAfterType, WorkAfterType
<1>2. /\ \A x \in Agent : /\ AgentsAfter(as, ids)[x].lifecycle = "Unregistered"
                               <=> agents[x].lifecycle = "Unregistered"
                          /\ AgentsAfter(as, ids)[x].capability = agents[x].capability
      /\ \A x \in Work : WorkAfter(as, ids)[x].lifecycle = "Unknown"
                           <=> work[x].lifecycle = "Unknown"
  BY <1>1 DEF AgentKept, WorkKept
<1>3. \A x \in Agent :
         x \notin {b.agent : b \in ids} => AgentsAfter(as, ids)[x] = agents[x]
  BY DEF AgentsAfter
<1>4. \A x \in Work :
         x \notin {b.work : b \in ids} => WorkAfter(as, ids)[x] = work[x]
  BY DEF WorkAfter
<1>5. /\ \A x \in {b.agent : b \in ids} : agents[x].lifecycle # "Unregistered"
      /\ \A x \in {b.work : b \in ids} : work[x].lifecycle # "Unknown"
  BY <1>1 DEF Known, KnownWork
<1> QED
  BY <1>2, <1>3, <1>4, <1>5

\* Closing takes the assignments off and leaves the index of whom it refreshes.
LEMMA CloseReindexed ==
    ASSUME LifeInv, AssignmentMap(asg'), NEW pl, NEW ids \in SUBSET ActiveIn(asg)
    PROVE  CloseIndexed(Indexed(agents, work, pl, ActiveIn(asg)), ids)
             = Indexed(AgentsAfter(asg', ids), WorkAfter(asg', ids), pl,
                       ActiveIn(asg) \ ids)
<1> DEFINE ag == AgentsAfter(asg', ids)
           wk == WorkAfter(asg', ids)
           S == ActiveIn(asg) \ ids
           xs == {b.agent : b \in ids}
           ws == {b.work : b \in ids}
           off == [Indexed(agents, work, pl, ActiveIn(asg)) EXCEPT !.assignments = @ \ ids]
<1>1. off = Indexed(agents, work, pl, S)
  BY DEF Indexed
<1>2. /\ xs \in SUBSET Agent /\ ws \in SUBSET Work
      /\ \A x \in Agent \ xs : ag[x].lifecycle = agents[x].lifecycle
      /\ \A x \in xs : /\ ag[x].lifecycle # "Unregistered"
                       /\ agents[x].lifecycle # "Unregistered"
      /\ \A x \in Agent : ag[x].capability = agents[x].capability
      /\ \A x \in Work \ ws : wk[x].lifecycle = work[x].lifecycle
      /\ \A x \in ws : wk[x].lifecycle # "Unknown" /\ work[x].lifecycle # "Unknown"
  BY AfterListed, LifeTyped, ActiveTyped
<1> HIDE DEF ag, wk, xs, ws, S
<1>4. sync_agent_lifecycle_index(Indexed(agents, work, pl, S), ag, xs)
        = Indexed(ag, work, pl, S)
  BY <1>2, AgentsSynced
<1>5. sync_work_lifecycle_index(Indexed(ag, work, pl, S), wk, ws)
        = Indexed(ag, wk, pl, S)
  BY <1>2, WorkSynced
<1>6. CloseIndexed(Indexed(agents, work, pl, ActiveIn(asg)), ids)
        = sync_work_lifecycle_index(sync_agent_lifecycle_index(off, ag, xs), wk, ws)
  BY DEF CloseIndexed, ag, wk, xs, ws
<1> HIDE DEF off
<1> QED
  BY <1>1, <1>4, <1>5, <1>6 DEF ag, wk, S

-----------------------------------------------------------------------------
(* Every booked step is a step of the scheduler.                           *)

\* The handlers about agents and assignments.
LEMMA BookedHandlers ==
    /\ \A a \in Agent : AgentBooked(a) => AgentNext
    /\ AssignmentBooked => AssignmentNext
<1>1. ASSUME NEW a \in Agent, AgentBooked(a) PROVE AgentNext
  <2>1. \E force \in BOOLEAN : force = TRUE
    OBVIOUS
  <2>2. \E force \in BOOLEAN : force = FALSE
    OBVIOUS
  <2> QED
    BY <1>1, <2>1, <2>2 DEF AgentBooked, AgentNext
<1>2. ASSUME NEW b \in DOMAIN asg, ReportBooked(b) PROVE Report(b)
  BY <1>2 DEF ReportBooked, Report
<1>3. AssignmentBooked => AssignmentNext
  BY <1>2 DEF AssignmentBooked, AssignmentNext
<1> QED
  BY <1>1, <1>3

\* All of them, and what only concerns queues is a stutter.
LEMMA BookedStep == [BookedNext]_<<vars, bookVars>> => [Next]_vars
<1>1. SchedulerBooked => Next
  BY DEF SchedulerBooked, Next
<1>2. WorkBooked => WorkNext
  BY DEF WorkBooked, WorkNext
<1>3. \A q, g : register_queue(q, g) => UNCHANGED vars
  BY DEF register_queue
<1> QED
  BY <1>1, <1>2, <1>3, BookedHandlers DEF BookedNext, Next

\* Whatever holds of a scheduler holds of one that keeps its indexes and queues.
THEOREM BookedRunsScheduler == BookedSpec => Spec
<1>1. BookedInit => Init
  BY DEF BookedInit
<1> QED
  BY <1>1, BookedStep, PTL DEF BookedSpec, Spec

-----------------------------------------------------------------------------
(* The kinds of steps.                                                     *)

\* No work item becomes a known one.
NoneAdmitted == \A w \in Work : KnownWork(w)' => KnownWork(w)

\* A step that changes neither records nor what is active, nor the index.
LEMMA IndexStays ==
    ASSUME IndexesAgree, UNCHANGED <<work, placed, index>>,
           \A a \in Agent : /\ agents'[a].lifecycle = agents[a].lifecycle
                            /\ agents'[a].capability = agents[a].capability,
           ActiveIn(asg') = ActiveIn(asg)
    PROVE  IndexesAgree' /\ NoneAdmitted
<1>1. /\ Listing(agents', Agent, "Unregistered") = Listing(agents, Agent, "Unregistered")
      /\ CapableOf(agents') = CapableOf(agents)
  BY DEF Listing, CapableOf
<1>2. Indexed(agents', work', placed', ActiveIn(asg'))
        = Indexed(agents, work, placed, ActiveIn(asg))
  BY <1>1 DEF Indexed
<1> QED
  BY <1>2, CanonicalIndexed DEF IndexesAgree, NoneAdmitted, KnownWork

\* What closing leaves of an index that agreed.
LEMMA ClosedIndex ==
    ASSUME LifeInv, IndexesAgree, AssignmentMap(asg'), NEW ids \in SUBSET ActiveIn(asg)
    PROVE  CloseIndexed(index, ids)
             = Indexed(AgentsAfter(asg', ids), WorkAfter(asg', ids), placed,
                       ActiveIn(asg) \ ids)
  BY CloseReindexed, CanonicalIndexed DEF IndexesAgree

\* Closing and refreshing makes no work known.
LEMMA AfterAdmitsNone ==
    ASSUME NEW as, NEW ids, work' = WorkAfter(as, ids)
    PROVE  NoneAdmitted
  BY DEF NoneAdmitted, KnownWork, WorkAfter

\* A step that only closes.
LEMMA CloseBooked ==
    ASSUME LifeInv, IndexesAgree, NEW ids \in SUBSET ActiveIn(asg),
           NEW st \in TerminalStates, CloseAssignments(ids, st),
           Indexes(CloseIndexed(index, ids))
    PROVE  IndexesAgree' /\ NoneAdmitted
<1>1. /\ asg' = Closed(ids, st) /\ agents' = AgentsAfter(asg', ids)
      /\ work' = WorkAfter(asg', ids)
      /\ index' = CloseIndexed(index, ids) /\ placed' = placed
  BY DEF CloseAssignments, Indexes
<1>2. AssignmentMap(asg') /\ ActiveIn(asg') = ActiveIn(asg) \ ids
  BY <1>1, LifeTyped, ClosedType, ClosedExactly
<1>3. index' = Indexed(agents', work', placed', ActiveIn(asg'))
  BY <1>1, <1>2, ClosedIndex
<1> QED
  BY <1>1, <1>3, CanonicalIndexed, AfterAdmitsNone DEF IndexesAgree

\* A step that closes and then stores a new record of one agent.
LEMMA AgentStepBooked ==
    ASSUME LifeInv, IndexesAgree, NEW a \in Agent, NEW new,
           new.lifecycle # "Unregistered", NEW ids \in SUBSET ActiveIn(asg),
           NEW st \in TerminalStates,
           asg' = Closed(ids, st), work' = WorkAfter(Closed(ids, st), ids),
           agents' = [AgentsAfter(Closed(ids, st), ids) EXCEPT ![a] = new],
           Indexes(refresh_agent(CloseIndexed(index, ids), a))
    PROVE  IndexesAgree' /\ NoneAdmitted
<1> DEFINE ag == AgentsAfter(asg', ids)
<1>1. /\ AssignmentMap(asg') /\ ActiveIn(asg') = ActiveIn(asg) \ ids
      /\ work' = WorkAfter(asg', ids) /\ placed' = placed
      /\ index' = refresh_agent(CloseIndexed(index, ids), a)
  BY LifeTyped, ClosedType, ClosedExactly DEF Indexes
<1>2. CloseIndexed(index, ids) = Indexed(ag, work', placed', ActiveIn(asg'))
  BY <1>1, ClosedIndex
<1>3. DOMAIN ag = Agent /\ agents' = [ag EXCEPT ![a] = new]
  BY DEF AgentsAfter
<1> HIDE DEF ag
<1>4. /\ agents'[a].lifecycle # "Unregistered"
      /\ OthersAlike(ag, agents', a)
  BY <1>3 DEF OthersAlike
<1>5. index' = Indexed(agents', work', placed', ActiveIn(asg'))
  <2> DEFINE wk == work'
             pl == placed'
             S == ActiveIn(asg')
  <2> HIDE DEF wk, pl, S
  <2>1. refresh_agent(Indexed(ag, wk, pl, S), a) = Indexed(agents', wk, pl, S)
    BY ONLY a \in Agent, <1>4, AgentReindexed
  <2> QED
    BY <1>1, <1>2, <2>1 DEF wk, pl, S
<1> QED
  BY <1>1, <1>5, CanonicalIndexed, AfterAdmitsNone DEF IndexesAgree

\* A step that only stores a new record of one agent.
LEMMA PublishBooked ==
    ASSUME LifeInv, IndexesAgree, NEW a \in Agent, NEW new,
           new.lifecycle # "Unregistered",
           ActiveIn(asg') = ActiveIn(asg), work' = work,
           agents' = [agents EXCEPT ![a] = new],
           Indexes(refresh_agent(index, a))
    PROVE  IndexesAgree' /\ NoneAdmitted
<1>1. /\ placed' = placed /\ index' = refresh_agent(index, a)
      /\ DOMAIN agents = Agent
  BY LifeTyped DEF Indexes
<1>2. index = Indexed(agents, work', placed', ActiveIn(asg'))
  BY <1>1, CanonicalIndexed DEF IndexesAgree
<1>3. /\ agents'[a].lifecycle # "Unregistered"
      /\ OthersAlike(agents, agents', a)
  BY <1>1 DEF OthersAlike
<1>4. index' = Indexed(agents', work', placed', ActiveIn(asg'))
  <2> DEFINE wk == work'
             pl == placed'
             S == ActiveIn(asg')
  <2> HIDE DEF wk, pl, S
  <2>1. refresh_agent(Indexed(agents, wk, pl, S), a) = Indexed(agents', wk, pl, S)
    BY ONLY a \in Agent, <1>3, AgentReindexed
  <2> QED
    BY <1>1, <1>2, <2>1 DEF wk, pl, S
<1> QED
  BY <1>4, CanonicalIndexed DEF IndexesAgree, NoneAdmitted, KnownWork

-----------------------------------------------------------------------------
(* The handlers about agents.                                              *)

\* A refreshed record is never that of an unregistered agent.
LEMMA RefreshRegisters ==
    ASSUME NEW as, NEW r, NEW a, RefreshedAgent(as, r, a) \in AgentRecord
    PROVE  RefreshedAgent(as, r, a).lifecycle # "Unregistered"
<1> DEFINE counted == [r EXCEPT !.active = Cardinality(OnAgent(as, a))]
           l == recompute_lifecycle(counted)
<1>1. l # "Unregistered"
  BY DEF recompute_lifecycle
<1>2. RefreshedAgent(as, r, a) = [counted EXCEPT !.lifecycle = l]
  BY DEF RefreshedAgent
<1> HIDE DEF counted, l
<1>3. "lifecycle" \in DOMAIN counted
  <2>1. DOMAIN RefreshedAgent(as, r, a) = DOMAIN counted
    BY <1>2
  <2>2. "lifecycle" \in DOMAIN RefreshedAgent(as, r, a)
    BY DEF AgentRecord
  <2> QED
    BY <2>1, <2>2
<1> QED
  BY <1>1, <1>2, <1>3

\* Storing a refreshed record, with or without closing before, is such a step.
LEMMA RefreshBooked ==
    ASSUME LifeInv, TypeOK', IndexesAgree, NEW a \in Agent, NEW r,
           \/ /\ ActiveIn(asg') = ActiveIn(asg) /\ work' = work
              /\ agents' = [agents EXCEPT ![a] = RefreshedAgent(asg', r, a)]
              /\ Indexes(refresh_agent(index, a))
           \/ \E ids \in SUBSET ActiveIn(asg), st \in TerminalStates :
                /\ asg' = Closed(ids, st) /\ work' = WorkAfter(Closed(ids, st), ids)
                /\ agents' = [AgentsAfter(Closed(ids, st), ids) EXCEPT
                                ![a] = RefreshedAgent(Closed(ids, st), r, a)]
                /\ Indexes(refresh_agent(CloseIndexed(index, ids), a))
    PROVE  IndexesAgree' /\ NoneAdmitted
<1>0. agents'[a] \in AgentRecord
  BY DEF TypeOK
<1>1. CASE /\ ActiveIn(asg') = ActiveIn(asg) /\ work' = work
           /\ agents' = [agents EXCEPT ![a] = RefreshedAgent(asg', r, a)]
           /\ Indexes(refresh_agent(index, a))
  <2> DEFINE new == RefreshedAgent(asg', r, a)
  <2>1. DOMAIN agents = Agent
    BY LifeTyped
  <2>2. agents'[a] = new
    BY <1>1, <2>1
  <2>3. new.lifecycle # "Unregistered"
    BY <1>0, <2>2, RefreshRegisters
  <2> HIDE DEF new
  <2>4. agents' = [agents EXCEPT ![a] = new]
    BY <1>1 DEF new
  <2> QED
    BY <1>1, <2>3, <2>4, PublishBooked
<1>2. ASSUME NEW ids \in SUBSET ActiveIn(asg), NEW st \in TerminalStates,
             asg' = Closed(ids, st), work' = WorkAfter(Closed(ids, st), ids),
             agents' = [AgentsAfter(Closed(ids, st), ids) EXCEPT
                          ![a] = RefreshedAgent(Closed(ids, st), r, a)],
             Indexes(refresh_agent(CloseIndexed(index, ids), a))
      PROVE  IndexesAgree' /\ NoneAdmitted
  <2> DEFINE new == RefreshedAgent(Closed(ids, st), r, a)
             ag == AgentsAfter(Closed(ids, st), ids)
  <2>1. DOMAIN ag = Agent
    BY DEF AgentsAfter
  <2>2. agents'[a] = new
    <3> HIDE DEF ag, new
    <3> QED
      BY <1>2, <2>1 DEF ag, new
  <2>3. new.lifecycle # "Unregistered"
    BY <1>0, <2>2, RefreshRegisters
  <2> HIDE DEF new
  <2>4. agents' = [ag EXCEPT ![a] = new]
    BY <1>2 DEF new
  <2> QED
    BY <1>2, <2>3, <2>4, AgentStepBooked
<1> QED
  BY <1>1, <1>2

\* What is active with a given boot is active.
LEMMA BootActive ==
    ASSUME NEW boot
    PROVE  ActiveOfBoot(boot) \in SUBSET ActiveIn(asg) /\ {} \in SUBSET ActiveIn(asg)
  BY DEF ActiveOfBoot

\* Closing nothing changes nothing.
LEMMA NothingClosed ==
    ASSUME LifeInv, NEW st
    PROVE  /\ Closed({}, st) = asg
           /\ AgentsAfter(asg, {}) = agents /\ WorkAfter(asg, {}) = work
  BY LifeTyped DEF Closed, AgentsAfter, WorkAfter, AssignmentMap

\* Every agent handler keeps the indexes in agreement and admits nothing.
LEMMA AgentBookedAgrees ==
    ASSUME LifeInv, TypeOK', IndexesAgree, NEW a \in Agent, AgentBooked(a)
    PROVE  IndexesAgree' /\ NoneAdmitted
<1>0. {"Lost", "Invalidated"} \subseteq TerminalStates
  BY DEF TerminalStates
<1>1. ASSUME NEW g \in 1..MaxAgentGen, NEW boot \in BootOf[a],
             NEW m \in Concurrency, RegisterNew(a, g, boot, m),
             Indexes(refresh_agent(index, a))
      PROVE  IndexesAgree' /\ NoneAdmitted
  <2> DEFINE new == FreshAgent(g, boot, m)
  <2>1. /\ agents' = [agents EXCEPT ![a] = new] /\ asg' = asg /\ work' = work
        /\ new.lifecycle # "Unregistered"
    BY <1>1 DEF RegisterNew, FreshAgent
  <2> HIDE DEF new
  <2> QED
    BY <1>1, <2>1, PublishBooked
<1>2. ASSUME NEW g \in 1..MaxAgentGen, NEW boot \in BootOf[a],
             NEW m \in Concurrency, Reincarnate(a, g, boot, m),
             Indexes(refresh_agent(CloseIndexed(index, ActiveOfBoot(agents[a].boot)), a))
      PROVE  IndexesAgree' /\ NoneAdmitted
  <2> DEFINE ids == ActiveOfBoot(agents[a].boot)
             r == FreshAgent(g, boot, m)
  <2>1. /\ asg' = Closed(ids, "Lost") /\ work' = WorkAfter(Closed(ids, "Lost"), ids)
        /\ agents' = [AgentsAfter(Closed(ids, "Lost"), ids) EXCEPT
                        ![a] = RefreshedAgent(Closed(ids, "Lost"), r, a)]
        /\ Indexes(refresh_agent(CloseIndexed(index, ids), a))
        /\ ids \in SUBSET ActiveIn(asg)
    BY <1>2, BootActive DEF Reincarnate
  <2> HIDE DEF ids, r
  <2> QED
    BY <1>0, <2>1, RefreshBooked
<1>3. ASSUME NEW r, asg' = asg, work' = work, Indexes(refresh_agent(index, a)),
             agents' = [agents EXCEPT ![a] = RefreshedAgent(asg, r, a)]
      PROVE  IndexesAgree' /\ NoneAdmitted
  BY <1>3, RefreshBooked
<1>4. ASSUME NEW m \in Concurrency, Reregister(a, m), Indexes(refresh_agent(index, a))
      PROVE  IndexesAgree' /\ NoneAdmitted
  BY <1>3, <1>4 DEF Reregister
<1>5. ASSUME NEW v \in HealthReports, NEW at \in 1..now, publish_health(a, v, at),
             Indexes(refresh_agent(index, a))
      PROVE  IndexesAgree' /\ NoneAdmitted
  BY <1>3, <1>5 DEF publish_health
<1>6. ASSUME NEW v \in AvailReports, NEW at \in 1..now, publish_availability(a, v, at),
             Indexes(refresh_agent(index, a))
      PROVE  IndexesAgree' /\ NoneAdmitted
  BY <1>3, <1>6 DEF publish_availability
<1>7. ASSUME NEW g \in 1..MaxCapGen, NEW at \in 1..now, publish_capabilities(a, g, at),
             Indexes(refresh_agent(index, a))
      PROVE  IndexesAgree' /\ NoneAdmitted
  <2> DEFINE r == [agents[a] EXCEPT
                     !.capability = [value |-> g, current |-> TRUE, at |-> at],
                     !.recovered = FALSE]
  <2> DEFINE moved == {b \in OnAgent(asg, a) : b.capGen # g}
  <2>0. /\ asg' = [b \in DOMAIN asg |->
                    IF b \in moved
                    THEN [asg[b] EXCEPT !.state = "RevalidationRequired",
                                        !.leaseCurrent = FALSE]
                    ELSE asg[b]]
        /\ moved \subseteq ActiveIn(asg)
        /\ \A b \in DOMAIN asg : asg[b] \in AssignmentRecord
    BY <1>7, LifeTyped DEF publish_capabilities, OnAgent, AssignmentMap
  <2> HIDE DEF moved
  <2>1. ActiveIn(asg') = ActiveIn(asg)
    BY <2>0 DEF ActiveIn, ActiveStates, AssignmentRecord
  <2>2. agents' = [agents EXCEPT ![a] = RefreshedAgent(asg', r, a)] /\ work' = work
    BY <1>7 DEF publish_capabilities
  <2> HIDE DEF r
  <2> QED
    BY <1>7, <2>1, <2>2, RefreshBooked
<1>8. ASSUME NEW force \in BOOLEAN, drain_agent(a, force),
             Indexes(refresh_agent(IF force
                                   THEN CloseIndexed(index, ActiveOfBoot(agents[a].boot))
                                   ELSE index, a))
      PROVE  IndexesAgree' /\ NoneAdmitted
  <2> DEFINE r == [agents[a] EXCEPT !.lifecycle = "Draining"]
             ids == IF force THEN ActiveOfBoot(agents[a].boot) ELSE {}
             as == Closed(ids, "Invalidated")
  <2>1. /\ asg' = as /\ work' = WorkAfter(as, ids)
        /\ agents' = [AgentsAfter(as, ids) EXCEPT ![a] = RefreshedAgent(as, r, a)]
        /\ ids \in SUBSET ActiveIn(asg)
    BY <1>8, BootActive DEF drain_agent
  <2>2. CASE force
    <3>1. Indexes(refresh_agent(CloseIndexed(index, ids), a))
      BY <1>8, <2>2
    <3> HIDE DEF r, ids
    <3> QED
      BY <1>0, <2>1, <3>1, RefreshBooked
  <2>3. CASE ~force
    <3>1. ids = {} /\ Indexes(refresh_agent(index, a))
      BY <1>8, <2>3
    <3>2. /\ asg' = asg /\ work' = work
          /\ agents' = [agents EXCEPT ![a] = RefreshedAgent(asg, r, a)]
      BY <2>1, <3>1, NothingClosed
    <3> HIDE DEF r
    <3> QED
      BY <1>3, <3>1, <3>2
  <2> QED
    BY <2>2, <2>3
<1>9. ASSUME NEW ids \in SUBSET ActiveIn(asg), NEW st \in TerminalStates, NEW l,
             asg' = Closed(ids, st), work' = WorkAfter(Closed(ids, st), ids),
             agents' = [AgentsAfter(Closed(ids, st), ids) EXCEPT
                          ![a] = EndedAgent(Closed(ids, st), a, l)],
             Indexes(refresh_agent(CloseIndexed(index, ids), a))
      PROVE  IndexesAgree' /\ NoneAdmitted
  <2> DEFINE r == [invalidate_dynamic_evidence(agents[a]) EXCEPT !.lifecycle = l]
  <2>1. agents' = [AgentsAfter(Closed(ids, st), ids) EXCEPT
                     ![a] = RefreshedAgent(Closed(ids, st), r, a)]
    BY <1>9 DEF EndedAgent
  <2> HIDE DEF r
  <2> QED
    BY <1>9, <2>1, RefreshBooked
<1>10. ASSUME LoseCurrent(a),
              Indexes(refresh_agent(CloseIndexed(index, ActiveOfBoot(agents[a].boot)), a))
       PROVE  IndexesAgree' /\ NoneAdmitted
  BY <1>0, <1>9, <1>10, BootActive DEF LoseCurrent
<1>11. ASSUME NEW force \in BOOLEAN, deregister_agent(a, force),
              LET gone == IF OnAgent(asg, a) = {} THEN {}
                          ELSE ActiveOfBoot(agents[a].boot)
              IN  Indexes(refresh_agent(CloseIndexed(index, gone), a))
       PROVE  IndexesAgree' /\ NoneAdmitted
  <2> DEFINE ids == IF OnAgent(asg, a) = {} THEN {} ELSE ActiveOfBoot(agents[a].boot)
             as == Closed(ids, "Invalidated")
  <2>1. /\ asg' = as /\ work' = WorkAfter(as, ids)
        /\ agents' = [AgentsAfter(as, ids) EXCEPT ![a] = EndedAgent(as, a, "Retired")]
        /\ Indexes(refresh_agent(CloseIndexed(index, ids), a))
        /\ ids \in SUBSET ActiveIn(asg)
    BY <1>11, BootActive DEF deregister_agent
  <2> HIDE DEF ids
  <2> QED
    BY <1>0, <1>9, <2>1
<1>12. ASSUME heartbeat(a) \/ \E boot \in BootOf[a] : LoseStale(a, boot), Indexes(index)
       PROVE  IndexesAgree' /\ NoneAdmitted
  <2>1. /\ asg' = asg /\ UNCHANGED <<work, placed, index>>
        /\ agents' = agents \/ agents' = [agents EXCEPT ![a].lease = now + RegistrationTtl]
    BY <1>12 DEF heartbeat, LoseStale, Indexes
  <2>2. \A x \in Agent : /\ agents'[x].lifecycle = agents[x].lifecycle
                         /\ agents'[x].capability = agents[x].capability
    BY <2>1, LifeTyped DEF AgentRecord
  <2> QED
    BY <2>1, <2>2, IndexStays
<1>13. ASSUME drain_agent(a, TRUE),
              Indexes(refresh_agent(CloseIndexed(index, ActiveOfBoot(agents[a].boot)), a))
       PROVE  IndexesAgree' /\ NoneAdmitted
  BY <1>8, <1>13
<1>14. ASSUME drain_agent(a, FALSE), Indexes(refresh_agent(index, a))
       PROVE  IndexesAgree' /\ NoneAdmitted
  BY <1>8, <1>14
<1> QED
  BY <1>1, <1>2, <1>4, <1>5, <1>6, <1>7, <1>10, <1>11, <1>12, <1>13, <1>14
     DEF AgentBooked

-----------------------------------------------------------------------------
(* The handlers about assignments.                                         *)

\* Agents that are not in xs have the lifecycle they had, those in xs are known,
\* and all have the capabilities they had; and similarly for work.
AgentsMove(ag, new, xs) ==
    /\ xs \in SUBSET Agent
    /\ \A x \in Agent \ xs : new[x].lifecycle = ag[x].lifecycle
    /\ \A x \in xs : /\ new[x].lifecycle # "Unregistered"
                     /\ ag[x].lifecycle # "Unregistered"
    /\ \A x \in Agent : new[x].capability = ag[x].capability

WorkMoves(wk, new, ws) ==
    /\ ws \in SUBSET Work
    /\ \A x \in Work \ ws : new[x].lifecycle = wk[x].lifecycle
    /\ \A x \in ws : new[x].lifecycle # "Unknown" /\ wk[x].lifecycle # "Unknown"

\* Refreshing whom some assignments belong to leaves the index of the records.
LEMMA RefreshedIndex ==
    ASSUME NEW ag, NEW wk, NEW pl, NEW S, NEW bs,
           AgentsMove(ag, agents', {b.agent : b \in bs}),
           WorkMoves(wk, work', {b.work : b \in bs})
    PROVE  Refreshed(Indexed(ag, wk, pl, S), bs) = Indexed(agents', work', pl, S)
<1> DEFINE xs == {b.agent : b \in bs}
           ws == {b.work : b \in bs}
           ag2 == agents'
           wk2 == work'
<1> HIDE DEF xs, ws, ag2, wk2
<1>1. sync_agent_lifecycle_index(Indexed(ag, wk, pl, S), ag2, xs)
        = Indexed(ag2, wk, pl, S)
  <2>1. AgentsMove(ag, ag2, xs)
    BY DEF ag2, xs
  <2> QED
    BY ONLY <2>1, AgentsSynced DEF AgentsMove
<1>2. sync_work_lifecycle_index(Indexed(ag2, wk, pl, S), wk2, ws)
        = Indexed(ag2, wk2, pl, S)
  <2>1. WorkMoves(wk, wk2, ws)
    BY DEF wk2, ws
  <2> QED
    BY ONLY <2>1, WorkSynced DEF WorkMoves
<1>3. Refreshed(Indexed(ag, wk, pl, S), bs)
        = sync_work_lifecycle_index(
            sync_agent_lifecycle_index(Indexed(ag, wk, pl, S), ag2, xs), wk2, ws)
  BY DEF Refreshed, ag2, wk2, xs, ws
<1> QED
  BY <1>1, <1>2, <1>3 DEF ag2, wk2

\* The last update of a handler: if it makes the index of the new records, the
\* indexes agree.
LEMMA LastUpdate ==
    ASSUME NEW ix, Indexes(ix),
           ix = Indexed(agents', work', placed, ActiveIn(asg'))
    PROVE  IndexesAgree'
  BY CanonicalIndexed DEF Indexes, IndexesAgree

\* A single active assignment, with whom it belongs to.
LEMMA OneActive ==
    ASSUME LifeInv, NEW b \in ActiveIn(asg)
    PROVE  /\ {b} \in SUBSET ActiveIn(asg)
           /\ {x.agent : x \in {b}} = {b.agent} /\ {x.work : x \in {b}} = {b.work}
           /\ b.agent \in Agent /\ b.work \in Work
           /\ Known(b.agent) /\ KnownWork(b.work)
  BY LifeTyped, ActiveTyped, ActiveKnown

\* Every report of an agent keeps the indexes in agreement.
LEMMA ReportBookedAgrees ==
    ASSUME LifeInv, TypeOK', IndexesAgree, NEW b \in DOMAIN asg, ReportBooked(b)
    PROVE  IndexesAgree' /\ NoneAdmitted
<1>0. /\ {"Expired", "Released", "Invalidated", "Completed", "Failed"}
           \subseteq TerminalStates
      /\ {"Acknowledged", "Executing"} \subseteq ActiveStates
      /\ TypeOK /\ AssignmentMap(asg) /\ AssignmentMap(asg')
  BY LifeTyped DEF TerminalStates, ActiveStates, TypeOK
<1>1. b \in ActiveIn(asg)
  <2>1. Report(b)
    BY DEF ReportBooked, Report
  <2> QED
    BY <2>1 DEF Report, acknowledge, mark_executing, Return, Finish, ActiveIn,
                ActiveStates
<1>2. {b} \in SUBSET ActiveIn(asg)
  BY <1>1
<1>3. ASSUME NEW st \in TerminalStates, CloseAssignments({b}, st),
             Indexes(CloseIndexed(index, {b}))
      PROVE  IndexesAgree' /\ NoneAdmitted
  BY <1>2, <1>3, CloseBooked
<1>4. CASE acknowledge(b) /\ Indexes(IF LeaseValid(b) THEN index
                                     ELSE CloseIndexed(index, {b}))
  <2>1. CASE LeaseValid(b)
    <3>1. /\ asg' = [asg EXCEPT ![b].state = "Acknowledged"]
          /\ UNCHANGED <<agents, work, placed, index>>
      BY <1>4, <2>1 DEF acknowledge, Indexes
    <3>2. ActiveIn(asg') = ActiveIn(asg)
      BY <1>0, <1>1, <3>1, MovedActive
    <3> QED
      BY <3>1, <3>2, IndexStays
  <2>2. CASE ~LeaseValid(b)
    BY <1>0, <1>3, <1>4, <2>2 DEF acknowledge
  <2> QED
    BY <2>1, <2>2
<1>5. CASE /\ mark_executing(b)
           /\ Indexes(IF LeaseValid(b)
                      THEN sync_work_lifecycle_index(index, work', {b.work})
                      ELSE CloseIndexed(index, {b}))
  <2>1. CASE LeaseValid(b)
    <3>1. /\ asg' = [asg EXCEPT ![b].state = "Executing"] /\ agents' = agents
          /\ work' = WorkAfter([asg EXCEPT ![b].state = "Executing"], {b})
          /\ Indexes(sync_work_lifecycle_index(index, work', {b.work}))
      BY <1>5, <2>1 DEF mark_executing
    <3>2. work' = WorkAfter(asg', {b})
      BY <3>1, Zenon
    <3>3. ActiveIn(asg') = ActiveIn(asg)
      BY <1>0, <1>1, <3>1, MovedActive
    <3>4. WorkMoves(work, work', {b.work})
      BY <1>0, <1>1, <1>2, <3>2, OneActive, AfterListed DEF WorkMoves
    <3> DEFINE wk2 == work'
               ws == {b.work}
    <3>5. sync_work_lifecycle_index(Indexed(agents, work, placed, ActiveIn(asg)), wk2, ws)
            = Indexed(agents, wk2, placed, ActiveIn(asg))
      <4> HIDE DEF wk2, ws
      <4>1. WorkMoves(work, wk2, ws)
        BY <3>4 DEF wk2, ws
      <4> QED
        BY ONLY <4>1, WorkSynced DEF WorkMoves
    <3>6. IndexesAgree'
      BY <3>1, <3>3, <3>5, CanonicalIndexed, LastUpdate DEF IndexesAgree
    <3> QED
      BY <3>2, <3>6, AfterAdmitsNone
  <2>2. CASE ~LeaseValid(b)
    BY <1>0, <1>3, <1>5, <2>2 DEF mark_executing
  <2> QED
    BY <2>1, <2>2
<1>6. ASSUME NEW st \in {"Released", "Invalidated"}, Return(b, st),
             Indexes(CloseIndexed(index, {b}))
      PROVE  IndexesAgree' /\ NoneAdmitted
  BY <1>0, <1>3, <1>6 DEF Return
<1>7. ASSUME NEW st \in {"Completed", "Failed"}, Finish(b, st),
             Indexes(Refreshed(CloseIndexed(index, {b}), {b}))
      PROVE  IndexesAgree' /\ NoneAdmitted
  <2> DEFINE after == WorkAfter(asg', {b})
             ag == AgentsAfter(asg', {b})
  <2>1. /\ asg' = Closed({b}, st) /\ agents' = ag
        /\ work' = after \/ work' = [after EXCEPT ![b.work].lifecycle = st]
    BY <1>7 DEF Finish
  <2>2. ActiveIn(asg') = ActiveIn(asg) \ {b}
    BY <1>0, <2>1, ClosedExactly
  <2>3. CloseIndexed(index, {b}) = Indexed(ag, after, placed, ActiveIn(asg'))
    BY <1>0, <1>2, <2>2, ClosedIndex
  <2>4. /\ after \in [Work -> WorkRecord]
        /\ \A x \in Work : after[x].lifecycle = "Unknown" <=> ~KnownWork(x)
        /\ ag[b.agent].lifecycle # "Unregistered" /\ after[b.work].lifecycle # "Unknown"
    BY <1>0, <1>1, <1>2, LifeTyped, OneActive, AfterListed, WorkAfterType DEF KnownWork
  <2> HIDE DEF after, ag
  <2>5. AgentsMove(ag, agents', {b.agent})
    BY <1>1, <2>1, <2>4, OneActive DEF AgentsMove
  <2>6. WorkMoves(after, work', {b.work})
    BY <1>1, <2>1, <2>4, OneActive DEF WorkMoves, WorkRecord
  <2>7. Refreshed(CloseIndexed(index, {b}), {b})
          = Indexed(agents', work', placed, ActiveIn(asg'))
    <3> DEFINE S == ActiveIn(asg')
    <3> HIDE DEF S
    <3>1. /\ AgentsMove(ag, agents', {x.agent : x \in {b}})
          /\ WorkMoves(after, work', {x.work : x \in {b}})
      BY <1>1, <2>5, <2>6, OneActive
    <3>2. Refreshed(Indexed(ag, after, placed, S), {b})
            = Indexed(agents', work', placed, S)
      BY ONLY <3>1, RefreshedIndex
    <3> QED
      BY <2>3, <3>2 DEF S
  <2>8. NoneAdmitted
    BY <2>4, <2>6 DEF NoneAdmitted, KnownWork, WorkMoves
  <2> QED
    BY <1>7, <2>7, <2>8, LastUpdate
<1> QED
  BY <1>4, <1>5, <1>6, <1>7 DEF ReportBooked

\* A commit lists the assignment it stores and those it belongs to.
LEMMA CommitBooked ==
    ASSUME LifeInv, TypeOK', IndexesAgree, NEW c \in Caller, commit_locked(c),
           Indexes(Refreshed(index_assignment(index, {call[c].b}), {call[c].b}))
    PROVE  IndexesAgree' /\ NoneAdmitted
<1> DEFINE b == call[c].b
           as == Emplaced(b, call[c].expires)
           stored == [work[b.work] EXCEPT !.lastGen = b.gen]
           S == ActiveIn(asg')
<1>1. /\ b \in Binding /\ call[c].expires \in Nat
      /\ b.agent \in Agent /\ b.work \in Work /\ b.gen \in Nat
  BY LifeTyped, CarriedType DEF commit_locked, Binding
<1>2. /\ stored \in WorkRecord /\ stored.lifecycle = work[b.work].lifecycle
      /\ agents[b.agent] \in AgentRecord
  BY <1>1, LifeTyped DEF WorkRecord
<1>3. /\ KnownWork(b.work)
      /\ agents[b.agent].lifecycle # "Unregistered"
  BY DEF LifeInv, WorkInv, PlannedWorkCurrent, commit_locked, CommitAllowed,
         BoundAgentReady, AcceptsNewWork
<1>4. /\ asg' = as
      /\ work' = [work EXCEPT ![b.work] = RefreshedWork(as, stored, b.work)]
      /\ agents' = [agents EXCEPT ![b.agent] =
                      RefreshedAgent(as, agents[b.agent], b.agent)]
      /\ AssignmentMap(as)
  BY <1>1, LifeTyped, EmplacedType DEF commit_locked
<1>5. S = ActiveIn(asg) \cup ({b} \cap S)
  BY <1>4 DEF ActiveIn, Emplaced
<1>6. index_assignment(index, {b}) = Indexed(agents, work, placed, S)
  <2>1. index = Indexed(agents, work, placed, ActiveIn(asg))
    BY CanonicalIndexed DEF IndexesAgree
  <2> QED
    BY <1>5, <2>1, AssignmentsIndexed
<1> HIDE DEF b, as, stored, S
<1>7. /\ AgentKept(agents[b.agent], RefreshedAgent(as, agents[b.agent], b.agent))
      /\ WorkKept(stored, RefreshedWork(as, stored, b.work))
  BY <1>2, <1>3, <1>4, RefreshedAgentType, RefreshedWorkType DEF KnownWork
<1>8. AgentsMove(agents, agents', {b.agent})
  BY <1>1, <1>3, <1>4, <1>7, LifeTyped DEF AgentsMove, AgentKept
<1>9. WorkMoves(work, work', {b.work})
  BY <1>1, <1>2, <1>3, <1>4, <1>7, LifeTyped DEF WorkMoves, WorkKept, KnownWork
<1>10. Refreshed(index_assignment(index, {b}), {b}) = Indexed(agents', work', placed, S)
  <2>1. /\ AgentsMove(agents, agents', {x.agent : x \in {b}})
        /\ WorkMoves(work, work', {x.work : x \in {b}})
    <3>1. {x.agent : x \in {b}} = {b.agent} /\ {x.work : x \in {b}} = {b.work}
      OBVIOUS
    <3> QED
      BY <1>8, <1>9, <3>1
  <2>2. Refreshed(Indexed(agents, work, placed, S), {b})
          = Indexed(agents', work', placed, S)
    BY ONLY <2>1, RefreshedIndex
  <2> QED
    BY <1>6, <2>2
<1>11. NoneAdmitted
  BY <1>9 DEF NoneAdmitted, KnownWork, WorkMoves
<1> QED
  BY <1>10, <1>11, LastUpdate DEF b, S

\* Revalidation closes some of what it examines and lists the others anew.
LEMMA RevalidateBooked ==
    ASSUME LifeInv, TypeOK', IndexesAgree, NEW bs \in SUBSET Pending,
           NEW chosen \in SUBSET bs, Revalidate(bs, chosen), Examined(bs)
    PROVE  IndexesAgree' /\ NoneAdmitted
<1> DEFINE promoted == {b \in bs : asg'[b].state = "Assigned"}
           ids == bs \ promoted
           ag == AgentsAfter(asg', ids)
           wk == WorkAfter(asg', ids)
           S == ActiveIn(asg')
<1>1. /\ asg' = Revalidated(bs, chosen)
      /\ AssignmentMap(asg') /\ TypeOK
      /\ bs \in SUBSET ActiveIn(asg) /\ bs \subseteq DOMAIN asg
  BY LifeTyped DEF Revalidate, Pending, ActiveIn, ActiveStates, TypeOK
<1>2. agents' = AgentsAfter(asg', bs) /\ work' = WorkAfter(asg', bs)
  BY DEF Revalidate
<1>3. Indexes(Refreshed(index_assignment(CloseIndexed(index, ids), promoted), promoted))
  BY DEF Examined
<1>4. S = (ActiveIn(asg) \ ids) \cup (promoted \cap S)
  <2>1. \A b \in DOMAIN asg \ bs : b \in S <=> b \in ActiveIn(asg)
    BY <1>1 DEF ActiveIn, Revalidated
  <2>2. S \subseteq DOMAIN asg /\ ActiveIn(asg) \subseteq DOMAIN asg
    BY <1>1 DEF ActiveIn, Revalidated
  <2>3. \A b \in bs : asg'[b].state = "Assigned" \/ asg'[b].state = "Invalidated"
    BY <1>1, LifeTyped DEF Revalidated, AssignmentMap, AssignmentRecord
  <2>4. \A b \in bs : b \in S <=> b \in promoted
    BY <1>1, <2>3 DEF ActiveIn, ActiveStates, Revalidated
  <2> HIDE DEF S, promoted
  <2> QED
    BY <1>1, <2>1, <2>2, <2>4
<1>5. index_assignment(CloseIndexed(index, ids), promoted) = Indexed(ag, wk, placed, S)
  <2>1. CloseIndexed(index, ids) = Indexed(ag, wk, placed, ActiveIn(asg) \ ids)
    BY <1>1, ClosedIndex
  <2> HIDE DEF ag, wk, ids, promoted
  <2> QED
    BY <1>4, <2>1, AssignmentsIndexed
<1>6. /\ promoted \in SUBSET ActiveIn(asg) /\ ids \in SUBSET ActiveIn(asg)
      /\ bs = promoted \cup ids
  BY <1>1
<1> HIDE DEF promoted, ids
<1>7. \A b \in promoted : /\ b.agent \in Agent /\ b.work \in Work
                          /\ Known(b.agent) /\ KnownWork(b.work)
  BY <1>1, <1>6, ActiveTyped, ActiveKnown
<1>8. AgentsMove(ag, agents', {b.agent : b \in promoted})
  <2>1. \A x \in Agent : x \notin {b.agent : b \in promoted} => agents'[x] = ag[x]
    BY <1>2, <1>6 DEF AgentsAfter
  <2>2. \A x \in Agent : /\ agents'[x].capability = agents[x].capability
                         /\ ag[x].capability = agents[x].capability
                         /\ Known(x) => /\ agents'[x].lifecycle # "Unregistered"
                                        /\ ag[x].lifecycle # "Unregistered"
    BY <1>1, <1>2, <1>6, AfterListed DEF Known
  <2> HIDE DEF ag
  <2> QED
    BY <1>7, <2>1, <2>2 DEF AgentsMove
<1>9. WorkMoves(wk, work', {b.work : b \in promoted})
  <2>1. \A x \in Work : x \notin {b.work : b \in promoted} => work'[x] = wk[x]
    BY <1>2, <1>6 DEF WorkAfter
  <2>2. \A x \in Work : KnownWork(x) => /\ work'[x].lifecycle # "Unknown"
                                        /\ wk[x].lifecycle # "Unknown"
    BY <1>1, <1>2, <1>6, AfterListed DEF KnownWork
  <2> HIDE DEF wk
  <2> QED
    BY <1>7, <2>1, <2>2 DEF WorkMoves
<1> HIDE DEF ag, wk, S
<1>10. Refreshed(Indexed(ag, wk, placed, S), promoted)
         = Indexed(agents', work', placed, S)
  BY ONLY <1>8, <1>9, RefreshedIndex
<1> QED
  BY <1>2, <1>3, <1>5, <1>10, LastUpdate, AfterAdmitsNone DEF S

\* Every assignment handler keeps the indexes in agreement.
LEMMA AssignmentBookedAgrees ==
    ASSUME LifeInv, TypeOK', IndexesAgree, AssignmentBooked
    PROVE  IndexesAgree' /\ NoneAdmitted
<1>1. ASSUME NEW c \in Caller, commit_locked(c),
             Indexes(Refreshed(index_assignment(index, {call[c].b}), {call[c].b}))
      PROVE  IndexesAgree' /\ NoneAdmitted
  BY <1>1, CommitBooked
<1>2. ASSUME NEW c \in Caller,
             \/ \E w \in Work : plan_locked(c, w)
             \/ CommitRejected(c)
             \/ \E b \in DOMAIN asg : dispatch(c, b)
             \/ HandoffRejected(c),
             Indexes(index)
      PROVE  IndexesAgree' /\ NoneAdmitted
  <2>1. UNCHANGED <<asg, agents, work, placed, index>>
    BY <1>2 DEF plan_locked, CommitRejected, dispatch, HandoffRejected, Indexes
  <2> QED
    BY <2>1, IndexStays
<1>3. ASSUME NEW c \in Caller, Handoff(c), Indexes(index)
      PROVE  IndexesAgree' /\ NoneAdmitted
  <2>1. ActiveIn(asg') = ActiveIn(asg)
    BY <1>3, LifeTyped DEF Handoff, HandoffAllowed, ActiveIn, ActiveStates,
                           AssignmentMap, AssignmentRecord
  <2>2. UNCHANGED <<agents, work, placed, index>>
    BY <1>3 DEF Handoff, Indexes
  <2> QED
    BY <2>1, <2>2, IndexStays
<1>4. CASE revalidate_assignments /\ Examined(Pending)
  <2>1. PICK promoted \in SUBSET Pending : Revalidate(Pending, promoted)
    BY <1>4 DEF revalidate_assignments
  <2> QED
    BY <1>4, <2>1, RevalidateBooked
<1>5. ASSUME NEW a \in Agent, revalidate_agent_assignments(a),
             Examined({b \in Pending : b.agent = a /\ b.boot = agents[a].boot})
      PROVE  IndexesAgree' /\ NoneAdmitted
  <2> DEFINE mine == {b \in Pending : b.agent = a /\ b.boot = agents[a].boot}
  <2>1. PICK feasible \in SUBSET mine :
          Revalidate(mine, {b \in feasible : revalidate_authority(b)})
    BY <1>5 DEF revalidate_agent_assignments
  <2> DEFINE chosen == {b \in feasible : revalidate_authority(b)}
  <2>2. /\ mine \in SUBSET Pending /\ chosen \in SUBSET mine
        /\ Revalidate(mine, chosen) /\ Examined(mine)
    BY <1>5, <2>1
  <2> HIDE DEF mine, chosen
  <2> QED
    BY <2>2, RevalidateBooked
<1>6. ASSUME expire_leases,
             Indexes(CloseIndexed(index, {b \in ActiveIn(asg) : asg[b].expires < now}))
      PROVE  IndexesAgree' /\ NoneAdmitted
  <2> DEFINE late == {b \in ActiveIn(asg) : asg[b].expires < now}
  <2>1. /\ "Expired" \in TerminalStates /\ late \in SUBSET ActiveIn(asg)
        /\ CloseAssignments(late, "Expired") /\ Indexes(CloseIndexed(index, late))
    BY <1>6 DEF TerminalStates, expire_leases
  <2> HIDE DEF late
  <2> QED
    BY <2>1, CloseBooked
<1> QED
  BY <1>1, <1>2, <1>3, <1>4, <1>5, <1>6, ReportBookedAgrees DEF AssignmentBooked

\* So do start, shutdown, a new policy and time.
LEMMA SchedulerBookedAgrees ==
    ASSUME LifeInv, IndexesAgree, SchedulerBooked
    PROVE  IndexesAgree' /\ NoneAdmitted
<1>0. "Invalidated" \in TerminalStates
  BY DEF TerminalStates
<1>1. CASE (start \/ Tick) /\ Indexes(index)
  <2>1. UNCHANGED <<asg, agents, work, placed, index>>
    BY <1>1 DEF start, Tick, Indexes
  <2> QED
    BY <2>1, IndexStays
<1>2. ASSUME shutdown,
             Indexes(CloseIndexed(index,
                        {b \in DOMAIN asg : sched.closes /\ asg[b].state = "Assigned"}))
      PROVE  IndexesAgree' /\ NoneAdmitted
  <2> DEFINE ids == IF sched.closes THEN {b \in DOMAIN asg : asg[b].state = "Assigned"}
                    ELSE {}
  <2>1. ids = {b \in DOMAIN asg : sched.closes /\ asg[b].state = "Assigned"}
    OBVIOUS
  <2>2. /\ ids \in SUBSET ActiveIn(asg) /\ CloseAssignments(ids, "Invalidated")
        /\ Indexes(CloseIndexed(index, ids))
    BY <1>2, <2>1 DEF shutdown, ActiveIn, ActiveStates
  <2> HIDE DEF ids
  <2> QED
    BY <1>0, <2>2, CloseBooked
<1>3. ASSUME NEW g \in 1..MaxPolicyGen, NEW closes \in ClosePolicies, set_policy(g, closes),
             Indexes(CloseIndexed(index, {b \in ActiveIn(asg) : b.policy # g}))
      PROVE  IndexesAgree' /\ NoneAdmitted
  <2> DEFINE ids == {b \in ActiveIn(asg) : b.policy # g}
  <2>1. /\ ids \in SUBSET ActiveIn(asg) /\ CloseAssignments(ids, "Invalidated")
        /\ Indexes(CloseIndexed(index, ids))
    BY <1>3 DEF set_policy
  <2> HIDE DEF ids
  <2> QED
    BY <1>0, <2>1, CloseBooked
<1> QED
  BY <1>1, <1>2, <1>3 DEF SchedulerBooked

-----------------------------------------------------------------------------
(* The handlers about work.                                                *)

\* Admission lists the work anew, under the queue it now names, once all that it
\* had is closed.
LEMMA PlacedAgrees ==
    ASSUME LifeInv, IndexesAgree, placed \in [Work -> PlacedRecord],
           NEW w \in Work, NEW g, NEW r, NEW q, NEW qg,
           Readmit(w, g, r), Placed(w, q, qg)
    PROVE  /\ IndexesAgree'
           /\ \A x \in Work \ {w} : KnownWork(x)' => KnownWork(x)
<1> DEFINE ids == OnWork(asg, w)
           as == Closed(ids, "Superseded")
           ag == AgentsAfter(asg', ids)
           wk == WorkAfter(asg', ids)
           S == ActiveIn(asg')
<1>1. /\ asg' = as /\ agents' = AgentsAfter(as, ids)
      /\ work' = [work EXCEPT ![w] = Admitted(w, g, r)]
  BY DEF Readmit
<1>2. /\ index' = ReindexWork(CloseIndexed(index, ids), w)
      /\ placed' = [placed EXCEPT ![w] = [queue |-> q, gen |-> qg]]
  BY DEF Placed
<1>3. "Superseded" \in TerminalStates /\ ids \in SUBSET ActiveIn(asg)
  BY DEF TerminalStates, OnWork
<1>4. \A b \in ids : b.work = w
  BY DEF OnWork
<1> HIDE DEF ids
<1>5. AssignmentMap(asg') /\ S = ActiveIn(asg) \ ids
  BY <1>1, <1>3, LifeTyped, ClosedType, ClosedExactly
<1>6. CloseIndexed(index, ids) = Indexed(ag, wk, placed, S)
  BY <1>3, <1>5, ClosedIndex
<1>7. work'[w].lifecycle # "Unknown"
  BY <1>1, LifeTyped DEF Admitted
<1>8. \A x \in Work \ {w} : work'[x] = work[x] /\ wk[x] = work[x]
  BY <1>1, <1>4, LifeTyped DEF WorkAfter
<1>9. \A x \in Work \ {w} : /\ work'[x].lifecycle = wk[x].lifecycle
                            /\ placed'[x] = placed[x]
  BY <1>2, <1>8
<1>10. ag = agents'
  BY <1>1
<1> HIDE DEF wk, S, ag
<1>11. index' = Indexed(agents', work', placed', S)
  <2>1. ReindexWork(Indexed(ag, wk, placed, S), w) = Indexed(ag, work', placed', S)
    BY ONLY w \in Work, <1>7, <1>9, WorkReindexed
  <2> QED
    BY <1>2, <1>6, <1>10, <2>1
<1>12. IndexesAgree'
  BY <1>11, CanonicalIndexed DEF IndexesAgree, S
<1> QED
  BY <1>8, <1>12 DEF KnownWork

\* The known work items ws end as l, after the assignments ids are closed as st.
EndsWork(ids, st, ws, l) ==
    /\ ids \in SUBSET ActiveIn(asg) /\ \A b \in ids : b.work \in ws
    /\ ws \in SUBSET Work /\ \A w \in ws : KnownWork(w)
    /\ asg' = Closed(ids, st) /\ agents' = AgentsAfter(Closed(ids, st), ids)
    /\ \A w \in Work : work'[w].lifecycle = IF w \in ws THEN l ELSE work[w].lifecycle

\* Ending some work after closing what it had.
LEMMA EndedBooked ==
    ASSUME LifeInv, IndexesAgree, NEW ids, NEW st \in TerminalStates, NEW ws,
           NEW l \in TerminalWork, EndsWork(ids, st, ws, l),
           Indexes(sync_work_lifecycle_index(CloseIndexed(index, ids), work', ws))
    PROVE  IndexesAgree' /\ NoneAdmitted
<1>0. /\ ids \in SUBSET ActiveIn(asg) /\ \A b \in ids : b.work \in ws
      /\ ws \in SUBSET Work /\ \A w \in ws : KnownWork(w)
      /\ asg' = Closed(ids, st) /\ agents' = AgentsAfter(Closed(ids, st), ids)
      /\ \A w \in Work : work'[w].lifecycle = IF w \in ws THEN l
                                               ELSE work[w].lifecycle
      /\ l # "Unknown"
  BY DEF EndsWork, TerminalWork
<1> DEFINE ag == AgentsAfter(asg', ids)
           wk == WorkAfter(asg', ids)
           wk2 == work'
           S == ActiveIn(asg')
<1>1. AssignmentMap(asg') /\ S = ActiveIn(asg) \ ids
  BY <1>0, LifeTyped, ClosedType, ClosedExactly
<1>2. CloseIndexed(index, ids) = Indexed(ag, wk, placed, S)
  BY <1>0, <1>1, ClosedIndex
<1>3. \A w \in Work \ ws : wk[w] = work[w]
  BY <1>0 DEF WorkAfter
<1>4. \A w \in Work : wk[w].lifecycle = "Unknown" <=> work[w].lifecycle = "Unknown"
  BY <1>0, <1>1, AfterListed
<1> HIDE DEF wk, S
<1>5. WorkMoves(wk, wk2, ws)
  BY <1>0, <1>3, <1>4 DEF WorkMoves, KnownWork
<1> HIDE DEF wk2
<1>6. sync_work_lifecycle_index(Indexed(ag, wk, placed, S), wk2, ws)
        = Indexed(ag, wk2, placed, S)
  BY ONLY <1>5, WorkSynced DEF WorkMoves
<1>7. IndexesAgree'
  <2>1. Indexed(ag, wk2, placed, S) = Indexed(agents', work', placed, ActiveIn(asg'))
    BY <1>0 DEF wk2, S
  <2> QED
    BY <1>2, <1>6, <2>1, LastUpdate DEF wk2
<1> QED
  BY <1>0, <1>7 DEF NoneAdmitted, KnownWork

\* Cancelling and expiring work keep the indexes in agreement.
LEMMA EndingAgrees ==
    ASSUME LifeInv, IndexesAgree
    PROVE  /\ \A w \in Work :
                 /\ cancel_work(w)
                 /\ Indexes(sync_work_lifecycle_index(CloseIndexed(index, OnWork(asg, w)),
                                                      work', {w}))
                 => IndexesAgree' /\ NoneAdmitted
           /\ LET late == {w \in Work : /\ KnownWork(w)
                                        /\ work[w].lifecycle \notin TerminalWork
                                        /\ DeadlinePassed(w)}
              IN  /\ expire_deadlines
                  /\ Indexes(sync_work_lifecycle_index(
                        CloseIndexed(index, UNION {OnWork(asg, w) : w \in late}),
                        work', late))
                  => IndexesAgree' /\ NoneAdmitted
<1>0. /\ {"Cancelled", "Expired"} \subseteq TerminalStates
      /\ {"Cancelled", "Expired"} \subseteq TerminalWork
  BY DEF TerminalStates, TerminalWork
<1>1. ASSUME NEW w \in Work, cancel_work(w),
             Indexes(sync_work_lifecycle_index(CloseIndexed(index, OnWork(asg, w)),
                                               work', {w}))
      PROVE  IndexesAgree' /\ NoneAdmitted
  <2> DEFINE ids == OnWork(asg, w)
             as == Closed(ids, "Cancelled")
             after == WorkAfter(as, ids)
             ws == {w}
  <2>1. /\ asg' = as /\ agents' = AgentsAfter(as, ids)
        /\ work' = [after EXCEPT ![w].lifecycle = "Cancelled"]
        /\ KnownWork(w)
    BY <1>1 DEF cancel_work
  <2>2. ids \in SUBSET ActiveIn(asg) /\ \A b \in ids : b.work = w
    BY DEF OnWork
  <2> HIDE DEF ids
  <2>3. /\ after \in [Work -> WorkRecord]
        /\ \A x \in Work \ {w} : after[x] = work[x]
    <3>1. after \in [Work -> WorkRecord]
      BY <1>0, LifeTyped, ClosedWorkType
    <3> QED
      BY <2>2, <3>1 DEF WorkAfter
  <2> HIDE DEF after
  <2>4. \A x \in Work : work'[x].lifecycle = IF x \in ws THEN "Cancelled"
                                             ELSE work[x].lifecycle
    BY <2>1, <2>3 DEF WorkRecord
  <2>5. Indexes(sync_work_lifecycle_index(CloseIndexed(index, ids), work', ws))
    BY <1>1 DEF ids
  <2>6. EndsWork(ids, "Cancelled", ws, "Cancelled")
    BY <2>1, <2>2, <2>4 DEF EndsWork
  <2> HIDE DEF ws
  <2> QED
    BY <1>0, <2>5, <2>6, EndedBooked
<1> DEFINE late == {w \in Work : /\ KnownWork(w)
                                 /\ work[w].lifecycle \notin TerminalWork
                                 /\ DeadlinePassed(w)}
           ids == UNION {OnWork(asg, w) : w \in late}
<1>2. ASSUME expire_deadlines,
             Indexes(sync_work_lifecycle_index(CloseIndexed(index, ids), work', late))
      PROVE  IndexesAgree' /\ NoneAdmitted
  <2> DEFINE as == Closed(ids, "Expired")
             after == WorkAfter(as, ids)
  <2>1. /\ asg' = as /\ agents' = AgentsAfter(as, ids)
        /\ work' = [w \in Work |->
                      IF w \in late THEN [after[w] EXCEPT !.lifecycle = "Expired"]
                      ELSE work[w]]
    BY <1>2 DEF expire_deadlines
  <2>2. /\ ids \in SUBSET ActiveIn(asg) /\ \A b \in ids : b.work \in late
        /\ late \in SUBSET Work /\ \A w \in late : KnownWork(w)
    BY DEF OnWork
  <2> HIDE DEF late, ids
  <2>3. after \in [Work -> WorkRecord]
    BY <1>0, LifeTyped, ClosedWorkType
  <2> HIDE DEF after
  <2>4. \A w \in Work : work'[w].lifecycle = IF w \in late THEN "Expired"
                                             ELSE work[w].lifecycle
    BY <2>1, <2>3 DEF WorkRecord
  <2>5. EndsWork(ids, "Expired", late, "Expired")
    BY <2>1, <2>2, <2>4 DEF EndsWork
  <2> QED
    BY <1>0, <1>2, <2>5, EndedBooked
<1> QED
  BY <1>1, <1>2

-----------------------------------------------------------------------------
(* Queues.                                                                 *)

\* Generations of queues are natural numbers, and known work names a queue.
QueueInv == /\ queues \in [Queue -> Nat]
            /\ placed \in [Work -> PlacedRecord]
            /\ \A w \in Work : KnownWork(w) => placed[w].queue \in Queue
            /\ QueueReachedUnlessRefused

BookedInv == IndexesAgree /\ QueueInv

\* A queue that accepts a generation gets it, and no queue falls back.
LEMMA QueueEnsured ==
    ASSUME queues \in [Queue -> Nat], NEW q \in Queue, NEW g \in 1..MaxQueueGen
    PROVE  /\ ensure_queue(q, g) \in [Queue -> Nat]
           /\ \A x \in Queue : ensure_queue(q, g)[x] >= queues[x]
           /\ QueueAccepts(q, g) => /\ ensure_queue(q, g)[q] = g
                                    /\ [queues EXCEPT ![q] = g] = ensure_queue(q, g)
<1>1. MaxQueueGen \in Nat /\ g \in Nat
  BY QueueBounds
<1>2. QueueAccepts(q, g) => g >= queues[q]
  BY <1>1 DEF QueueAccepts
<1> QED
  BY <1>1, <1>2 DEF ensure_queue

\* Work that names a reached queue goes on doing so if no queue falls back.
LEMMA QueuesReached ==
    ASSUME QueueInv, NEW w \in Work, KnownWork(w), w \notin refused,
           placed'[w] = placed[w], queues' \in [Queue -> Nat],
           \A q \in Queue : queues'[q] >= queues[q]
    PROVE  placed'[w].gen \in 1..queues'[placed'[w].queue]
<1> DEFINE q == placed[w].queue
           g == placed[w].gen
<1>1. g \in 1..queues[q] /\ q \in Queue
  BY DEF QueueInv, QueueReachedUnlessRefused
<1>2. queues[q] \in Nat /\ queues'[q] \in Nat /\ queues'[q] >= queues[q]
  BY <1>1 DEF QueueInv
<1>3. g \in 1..queues'[q]
  BY <1>1, <1>2
<1> QED
  BY <1>3

\* A step that leaves queues alone and admits nothing.
LEMMA QueuesStand ==
    ASSUME QueueInv, NoneAdmitted, UNCHANGED <<queues, placed, refused>>
    PROVE  QueueInv'
  BY DEF QueueInv, NoneAdmitted, QueueReachedUnlessRefused, KnownWork

\* A queue is registered at a generation that it has not passed.
LEMMA RegisteredQueues ==
    ASSUME QueueInv, NEW q \in Queue, NEW g \in 1..MaxQueueGen, register_queue(q, g)
    PROVE  QueueInv'
<1>1. /\ queues' = ensure_queue(q, g) /\ UNCHANGED <<work, placed, refused>>
      /\ queues' \in [Queue -> Nat] /\ \A x \in Queue : queues'[x] >= queues[x]
  BY QueueEnsured DEF QueueInv, register_queue, vars
<1>2. \A w \in Work : KnownWork(w)' => KnownWork(w)
  BY <1>1 DEF KnownWork
<1>3. QueueReachedUnlessRefused'
  BY <1>1, <1>2, QueuesReached DEF QueueReachedUnlessRefused
<1> QED
  BY <1>1, <1>2, <1>3 DEF QueueInv

\* Admitted work names a queue that accepted it, or is marked as refused.
LEMMA PlacedQueues ==
    ASSUME QueueInv, NEW w \in Work, NEW q \in Queue, NEW g \in 1..MaxQueueGen,
           Placed(w, q, g), \A x \in Work \ {w} : KnownWork(x)' => KnownWork(x)
    PROVE  QueueInv'
<1>1. /\ queues' = ensure_queue(q, g)
      /\ placed' = [placed EXCEPT ![w] = [queue |-> q, gen |-> g]]
      /\ refused' = IF QueueAccepts(q, g) THEN refused \ {w} ELSE refused \cup {w}
  BY DEF Placed
<1>2. /\ queues \in [Queue -> Nat] /\ placed \in [Work -> PlacedRecord]
      /\ g \in Nat /\ g >= 1
  BY QueueBounds DEF QueueInv
<1>3. /\ queues' \in [Queue -> Nat] /\ \A x \in Queue : queues'[x] >= queues[x]
      /\ QueueAccepts(q, g) => queues'[q] = g
  BY <1>1, <1>2, QueueEnsured
<1>4. /\ placed' \in [Work -> PlacedRecord]
      /\ placed'[w].queue = q /\ placed'[w].gen = g
      /\ \A x \in Work \ {w} : placed'[x] = placed[x]
  <2> DEFINE r == [queue |-> q, gen |-> g]
  <2>1. r \in PlacedRecord /\ r.queue = q /\ r.gen = g
    BY <1>2 DEF PlacedRecord
  <2> HIDE DEF r
  <2>2. placed' = [placed EXCEPT ![w] = r]
    BY <1>1 DEF r
  <2> QED
    BY <1>2, <2>1, <2>2
<1>5. \A x \in Work : KnownWork(x)' => placed'[x].queue \in Queue
  BY <1>4 DEF QueueInv
<1>6. ASSUME NEW x \in Work, KnownWork(x)', x \notin refused'
      PROVE  placed'[x].gen \in 1..queues'[placed'[x].queue]
  <2>1. CASE x = w
    <3>1. queues'[q] = g
      BY <1>1, <1>3, <1>6, <2>1
    <3> QED
      BY <1>2, <1>4, <2>1, <3>1
  <2>2. CASE x # w
    <3>1. x \notin refused /\ KnownWork(x) /\ placed'[x] = placed[x]
      BY <1>1, <1>4, <1>6, <2>2
    <3> QED
      BY <1>3, <3>1, QueuesReached
  <2> QED
    BY <2>1, <2>2
<1>7. QueueReachedUnlessRefused'
  BY <1>6 DEF QueueReachedUnlessRefused
<1> QED
  BY <1>3, <1>4, <1>5, <1>7 DEF QueueInv

-----------------------------------------------------------------------------
(* All together.                                                           *)

\* Only admission and register_queue touch queues.
LEMMA OthersKeepQueues ==
    ASSUME SchedulerBooked \/ (\E a \in Agent : AgentBooked(a)) \/ AssignmentBooked
    PROVE  UNCHANGED <<queues, placed, refused>>
<1>1. \A ix : Indexes(ix) => UNCHANGED <<queues, placed, refused>>
  BY DEF Indexes
<1>2. SchedulerBooked => UNCHANGED <<queues, placed, refused>>
  BY <1>1 DEF SchedulerBooked
<1>3. \A a \in Agent : AgentBooked(a) => UNCHANGED <<queues, placed, refused>>
  BY <1>1 DEF AgentBooked
<1>4. \A b : ReportBooked(b) => UNCHANGED <<queues, placed, refused>>
  BY <1>1 DEF ReportBooked
<1>5. \A bs : Examined(bs) => UNCHANGED <<queues, placed, refused>>
  BY <1>1 DEF Examined
<1>6. AssignmentBooked => UNCHANGED <<queues, placed, refused>>
  BY <1>1, <1>4, <1>5 DEF AssignmentBooked
<1> QED
  BY <1>2, <1>3, <1>6

\* The handlers about work keep both parts.
LEMMA WorkBookedKeeps ==
    ASSUME LifeInv, BookedInv, WorkBooked
    PROVE  BookedInv'
<1>1. ASSUME NEW w \in Work, NEW g \in 1..MaxWorkGen, NEW r \in Requests,
             NEW q \in Queue, NEW qg \in 1..MaxQueueGen,
             submit_work(w, g, r) \/ supersede_work(w, g, r), Placed(w, q, qg)
      PROVE  BookedInv'
  <2>1. Readmit(w, g, r) /\ placed \in [Work -> PlacedRecord]
    BY <1>1 DEF submit_work, supersede_work, BookedInv, QueueInv
  <2>2. IndexesAgree' /\ \A x \in Work \ {w} : KnownWork(x)' => KnownWork(x)
    BY <1>1, <2>1, PlacedAgrees DEF BookedInv
  <2> QED
    BY <1>1, <2>2, PlacedQueues DEF BookedInv
<1>2. ASSUME UNCHANGED <<queues, placed, refused>>, IndexesAgree' /\ NoneAdmitted
      PROVE  BookedInv'
  BY <1>2, QueuesStand DEF BookedInv
<1>3. ASSUME NEW w \in Work, cancel_work(w),
             Indexes(sync_work_lifecycle_index(CloseIndexed(index, OnWork(asg, w)),
                                               work', {w}))
      PROVE  BookedInv'
  BY <1>2, <1>3, EndingAgrees DEF BookedInv, Indexes
<1> DEFINE late == {w \in Work : /\ KnownWork(w)
                                 /\ work[w].lifecycle \notin TerminalWork
                                 /\ DeadlinePassed(w)}
<1>4. ASSUME expire_deadlines,
             Indexes(sync_work_lifecycle_index(
                CloseIndexed(index, UNION {OnWork(asg, w) : w \in late}), work', late))
      PROVE  BookedInv'
  BY <1>2, <1>4, EndingAgrees DEF BookedInv, Indexes
<1> QED
  BY <1>1, <1>3, <1>4 DEF WorkBooked

\* Every booked step keeps both parts.
LEMMA BookedInvNext ==
    ASSUME LifeInv, TypeOK', BookedInv, [BookedNext]_<<vars, bookVars>>
    PROVE  BookedInv'
<1>1. CASE SchedulerBooked \/ (\E a \in Agent : AgentBooked(a)) \/ AssignmentBooked
  <2>1. IndexesAgree' /\ NoneAdmitted
    BY <1>1, SchedulerBookedAgrees, AgentBookedAgrees, AssignmentBookedAgrees
       DEF BookedInv
  <2> QED
    BY <1>1, <2>1, OthersKeepQueues, QueuesStand DEF BookedInv
<1>2. CASE WorkBooked
  BY <1>2, WorkBookedKeeps
<1>3. ASSUME UNCHANGED <<vars, index, placed>>
      PROVE  IndexesAgree' /\ NoneAdmitted
  BY <1>3, IndexStays DEF vars, BookedInv
<1>4. ASSUME NEW q \in Queue, NEW g \in 1..MaxQueueGen, register_queue(q, g)
      PROVE  BookedInv'
  <2>1. UNCHANGED <<vars, index, placed>>
    BY <1>4 DEF register_queue
  <2> QED
    BY <1>3, <1>4, <2>1, RegisteredQueues DEF BookedInv
<1>5. CASE UNCHANGED <<vars, bookVars>>
  BY <1>3, <1>5, QueuesStand DEF bookVars, BookedInv
<1> QED
  BY <1>1, <1>2, <1>4, <1>5 DEF BookedNext

\* A scheduler starts with nothing to list and no queue.
LEMMA BookedInvInit == BookedInit => BookedInv
<1> SUFFICES ASSUME BookedInit PROVE BookedInv
  OBVIOUS
<1>1. \A a \in Agent : ~Known(a)
  <2>1. agents = [a \in Agent |-> UnregisteredAgent]
    BY DEF BookedInit, Init
  <2> QED
    BY <2>1 DEF Known, UnregisteredAgent
<1>2. \A w \in Work : ~KnownWork(w)
  <2>1. work = [w \in Work |-> UnknownWork]
    BY DEF BookedInit, Init
  <2> QED
    BY <2>1 DEF KnownWork, UnknownWork
<1>3. ActiveIn(asg) = {}
  <2>1. DOMAIN asg = {}
    BY DEF BookedInit, Init
  <2> QED
    BY <2>1 DEF ActiveIn
<1>4. {a \in Agent : Known(a)} = {} /\ {w \in Work : KnownWork(w)} = {}
  BY <1>1, <1>2
<1>5. Canonical = [agents |-> {}, capable |-> {}, work |-> {}, queue |-> {},
                   assignments |-> {}]
  <2>1. {a \in Agent : Known(a) /\ agents[a].capability.current} = {}
    BY <1>1
  <2>2. /\ {<<agents[a].lifecycle, a>> : a \in {x \in Agent : Known(x)}} = {}
        /\ {<<work[w].lifecycle, w>> : w \in {x \in Work : KnownWork(x)}} = {}
        /\ {<<placed[w].queue, w>> : w \in {x \in Work : KnownWork(x)}} = {}
    BY <1>4
  <2> QED
    BY <1>3, <2>1, <2>2 DEF Canonical
<1>6. IndexesAgree
  BY <1>5 DEF BookedInit, IndexesAgree
<1>7. queues \in [Queue -> Nat] /\ placed \in [Work -> PlacedRecord]
  <2> DEFINE none == [queue |-> "", gen |-> 0]
  <2>1. none \in PlacedRecord
    BY DEF PlacedRecord
  <2>2. queues = [q \in Queue |-> 0] /\ placed = [w \in Work |-> none]
    BY DEF BookedInit
  <2> HIDE DEF none
  <2> QED
    BY <2>1, <2>2
<1> QED
  BY <1>2, <1>6, <1>7 DEF BookedInv, QueueInv, QueueReachedUnlessRefused

\* The invariant, along with that of the scheduler.
LEMMA BookedInvariant == BookedSpec => []BookedInv
<1>1. LifeInv' => TypeOK'
  BY DEF LifeInv, WorkInv
<1>2. LifeInv /\ LifeInv' /\ BookedInv /\ [BookedNext]_<<vars, bookVars>> => BookedInv'
  BY <1>1, BookedInvNext
<1> QED
  BY <1>2, BookedInvInit, BookedRunsScheduler, LifeInvariant, PTL DEF BookedSpec

\* After every handler, whichever way it went, the derived indexes list what a scan
\* of the records finds (index_matches_canonical): closing in bulk, refreshing an
\* agent or a work item and listing it again miss nothing and leave nothing behind.
THEOREM IndexesAlwaysAgree == BookedSpec => []IndexesAgree
<1>1. BookedInv => IndexesAgree
  BY DEF BookedInv
<1> QED
  BY <1>1, BookedInvariant, PTL

\* Known work names a queue that exists at a generation that it has reached, unless
\* the queue refused its last re-admission: ensure_queue and register_queue let no
\* queue fall back behind the work that names it.
THEOREM QueuesAlwaysReached == BookedSpec => []QueueReachedUnlessRefused
<1>1. BookedInv => QueueReachedUnlessRefused
  BY DEF BookedInv, QueueInv
<1> QED
  BY <1>1, BookedInvariant, PTL

-----------------------------------------------------------------------------
(***************************************************************************)
(* The audit (module InvariantChecker).                                    *)
(*                                                                         *)
(* Most codes of check_invariants() report that a property proved above    *)
(* fails.  The others are about records and what refers to them: known     *)
(* ones stay known, generations never fall behind what is bound, and what  *)
(* ended has no lease.                                                     *)
(***************************************************************************)

\* Some evidence of record r counts.
Evident(r) == r.capability.current \/ r.health.current \/ r.avail.current

\* The record `new` of an agent follows its record r: a registered agent stays one,
\* at no lower generation; nothing but a reload makes it a recovered one, and it is
\* none any more once there is evidence again.
AgentFollows(r, new) ==
    /\ r.lifecycle # "Unregistered" => /\ new.lifecycle # "Unregistered"
                                       /\ new.gen >= r.gen
    /\ new.lifecycle # "Unregistered" =>
          new.gen >= 1 \/ (r.lifecycle # "Unregistered" /\ new.gen = r.gen)
    /\ new.recovered => r.recovered /\ (Evident(new) => Evident(r))

\* Likewise for work, whose last assignment generation stays as well.
WorkFollows(r, new) ==
    /\ r.lifecycle # "Unknown" => new.lifecycle # "Unknown" /\ new.gen >= r.gen
    /\ new.lifecycle # "Unknown" =>
          new.gen >= 1 \/ (r.lifecycle # "Unknown" /\ new.gen = r.gen)
    /\ new.lastGen = r.lastGen

AgentsFollow == \A a \in Agent : AgentFollows(agents[a], agents'[a])

WorkFollowing == \A w \in Work : WorkFollows(work[w], work'[w])

\* What refreshing an agent keeps of its record, in any assignment map.
LEMMA RefreshedParts ==
    ASSUME NEW as, NEW a, NEW r \in AgentRecord
    PROVE  /\ RefreshedAgent(as, r, a).gen = r.gen
           /\ RefreshedAgent(as, r, a).recovered = r.recovered
           /\ Evident(RefreshedAgent(as, r, a)) <=> Evident(r)
           /\ r.lifecycle # "Unregistered" =>
                 RefreshedAgent(as, r, a).lifecycle # "Unregistered"
<1> DEFINE counted == [r EXCEPT !.active = Cardinality(OnAgent(as, a))]
           l == recompute_lifecycle(counted)
<1>1. /\ DOMAIN counted = DOMAIN r
      /\ {"gen", "recovered", "lifecycle", "capability", "health", "avail"}
           \subseteq DOMAIN r
      /\ counted.gen = r.gen /\ counted.recovered = r.recovered
      /\ counted.lifecycle = r.lifecycle /\ counted.capability = r.capability
      /\ counted.health = r.health /\ counted.avail = r.avail
  BY DEF AgentRecord
<1>2. RefreshedAgent(as, r, a) = [counted EXCEPT !.lifecycle = l]
  BY DEF RefreshedAgent
<1> HIDE DEF counted
<1>3. l # "Unregistered"
  BY <1>1 DEF recompute_lifecycle
<1> HIDE DEF l
<1> QED
  BY <1>1, <1>2, <1>3 DEF Evident

\* A refreshed record follows what the record itself follows.
LEMMA RefreshedFollows ==
    ASSUME NEW as, NEW a, NEW old, NEW r \in AgentRecord,
           r.lifecycle # "Unregistered", AgentFollows(old, r)
    PROVE  AgentFollows(old, RefreshedAgent(as, r, a))
<1> DEFINE new == RefreshedAgent(as, r, a)
<1>1. /\ new.gen = r.gen /\ new.recovered = r.recovered
      /\ new.lifecycle # "Unregistered" /\ (Evident(new) <=> Evident(r))
  BY RefreshedParts
<1> HIDE DEF new
<1>2. AgentFollows(old, new)
  BY <1>1 DEF AgentFollows
<1> QED
  BY <1>2 DEF new

\* A record follows itself.
LEMMA SameFollows ==
    /\ \A r \in AgentRecord : AgentFollows(r, r)
    /\ \A r \in WorkRecord : WorkFollows(r, r)
  BY DEF AgentFollows, WorkFollows, AgentRecord, WorkRecord

\* What closing refreshes follows what was there.
LEMMA AfterFollows ==
    ASSUME TypeOK, NEW as, NEW ids
    PROVE  /\ \A x \in Agent : AgentFollows(agents[x], AgentsAfter(as, ids)[x])
           /\ \A x \in Work : WorkFollows(work[x], WorkAfter(as, ids)[x])
<1>1. ASSUME NEW x \in Agent
      PROVE  AgentFollows(agents[x], AgentsAfter(as, ids)[x])
  <2>1. agents[x] \in AgentRecord /\ AgentFollows(agents[x], agents[x])
    BY SameFollows DEF TypeOK
  <2>2. Known(x) => AgentFollows(agents[x], RefreshedAgent(as, agents[x], x))
    BY <2>1, RefreshedFollows DEF Known
  <2>3. \/ AgentsAfter(as, ids)[x] = agents[x]
        \/ Known(x) /\ AgentsAfter(as, ids)[x] = RefreshedAgent(as, agents[x], x)
    BY DEF AgentsAfter
  <2> QED
    BY <2>1, <2>2, <2>3
<1>2. ASSUME NEW x \in Work
      PROVE  WorkFollows(work[x], WorkAfter(as, ids)[x])
  <2>1. work[x] \in WorkRecord /\ WorkFollows(work[x], work[x])
    BY SameFollows DEF TypeOK
  <2> DEFINE new == RefreshedWork(as, work[x], x)
  <2>2. /\ new.gen = work[x].gen /\ new.lastGen = work[x].lastGen
        /\ work[x].lifecycle # "Unknown" => new.lifecycle # "Unknown"
    BY <2>1 DEF RefreshedWork, WorkRecord
  <2> HIDE DEF new
  <2>3. KnownWork(x) => WorkFollows(work[x], new)
    BY <2>1, <2>2 DEF WorkFollows, KnownWork, WorkRecord
  <2>4. \/ WorkAfter(as, ids)[x] = work[x]
        \/ KnownWork(x) /\ WorkAfter(as, ids)[x] = new
    BY DEF WorkAfter, new
  <2> QED
    BY <2>1, <2>3, <2>4
<1> QED
  BY <1>1, <1>2

\* A handler that stores the refreshed form of one record.
LEMMA StoredFollows ==
    ASSUME TypeOK, NEW a \in Agent, NEW r \in AgentRecord, NEW as, NEW ids,
           r.lifecycle # "Unregistered", AgentFollows(agents[a], r),
           \/ agents' = [agents EXCEPT ![a] = RefreshedAgent(as, r, a)]
           \/ agents' = [AgentsAfter(as, ids) EXCEPT ![a] = RefreshedAgent(as, r, a)]
    PROVE  AgentsFollow
<1> DEFINE new == RefreshedAgent(as, r, a)
           after == AgentsAfter(as, ids)
<1>1. AgentFollows(agents[a], new)
  BY RefreshedFollows
<1>2. \A x \in Agent : /\ AgentFollows(agents[x], agents[x])
                       /\ AgentFollows(agents[x], after[x])
  BY AfterFollows, SameFollows DEF TypeOK
<1>3. DOMAIN agents = Agent /\ DOMAIN after = Agent
  BY DEF TypeOK, AgentsAfter
<1>4. agents' = [agents EXCEPT ![a] = new] \/ agents' = [after EXCEPT ![a] = new]
  OBVIOUS
<1> HIDE DEF new, after
<1>5. \A x \in Agent : \/ x = a /\ agents'[x] = new
                       \/ agents'[x] \in {agents[x], after[x]}
  BY <1>3, <1>4
<1> QED
  BY <1>1, <1>2, <1>5 DEF AgentsFollow

\* Records that stay follow, and so do those that closing refreshes.
LEMMA KeptFollow ==
    ASSUME TypeOK
    PROVE  /\ agents' = agents => AgentsFollow
           /\ work' = work => WorkFollowing
           /\ \A as, ids : /\ agents' = AgentsAfter(as, ids) => AgentsFollow
                           /\ work' = WorkAfter(as, ids) => WorkFollowing
  BY SameFollows, AfterFollows DEF TypeOK, AgentsFollow, WorkFollowing

\* Every agent handler only lets agents go on or start over at a higher generation.
LEMMA AgentNextFollows ==
    ASSUME TypeOK, AgentNext
    PROVE  AgentsFollow
<1> PICK a \in Agent :
        \/ \E g \in 1..MaxAgentGen, boot \in BootOf[a], m \in Concurrency :
              RegisterNew(a, g, boot, m) \/ Reincarnate(a, g, boot, m)
        \/ \E m \in Concurrency : Reregister(a, m)
        \/ \E g \in 1..MaxCapGen, at \in 1..now : publish_capabilities(a, g, at)
        \/ \E v \in HealthReports, at \in 1..now : publish_health(a, v, at)
        \/ \E v \in AvailReports, at \in 1..now : publish_availability(a, v, at)
        \/ heartbeat(a)
        \/ \E force \in BOOLEAN : drain_agent(a, force) \/ deregister_agent(a, force)
        \/ LoseCurrent(a)
        \/ \E boot \in BootOf[a] : LoseStale(a, boot)
  BY DEF AgentNext
<1>0. /\ agents \in [Agent -> AgentRecord] /\ agents[a] \in AgentRecord
      /\ DOMAIN agents = Agent /\ now \in Nat
      /\ {"Lost", "Retired", "Draining", "RevalidationRequired"}
           \subseteq AgentLifecycles
  BY DEF TypeOK, AgentLifecycles
<1>1. ASSUME NEW r \in AgentRecord, r.lifecycle # "Unregistered",
             r.gen = agents[a].gen,
             r.recovered => /\ agents[a].recovered
                            /\ Evident(r) => Evident(agents[a]),
             Known(a), NEW as, NEW ids,
             \/ agents' = [agents EXCEPT ![a] = RefreshedAgent(as, r, a)]
             \/ agents' = [AgentsAfter(as, ids) EXCEPT ![a] = RefreshedAgent(as, r, a)]
      PROVE  AgentsFollow
  <2>1. AgentFollows(agents[a], r)
    BY <1>0, <1>1 DEF AgentFollows, Known, AgentRecord
  <2> QED
    BY <1>1, <2>1, StoredFollows
<1>2. ASSUME NEW g \in 1..MaxAgentGen, NEW boot \in BootOf[a], NEW m \in Concurrency,
             RegisterNew(a, g, boot, m) \/ Reincarnate(a, g, boot, m)
      PROVE  AgentsFollow
  <2> DEFINE r == FreshAgent(g, boot, m)
  <2>1. g \in Nat /\ g >= 1 /\ boot \in Boot /\ m \in Nat
    BY Inputs, Bounds
  <2>2. /\ r \in AgentRecord /\ r.gen = g /\ r.lifecycle = "Registering"
        /\ r.recovered = FALSE
    BY <1>0, <2>1, FreshAgentType DEF FreshAgent
  <2>3. Known(a) => g > agents[a].gen
    BY <1>2 DEF RegisterNew, Reincarnate
  <2>4. \/ agents' = [agents EXCEPT ![a] = r]
        \/ \E as, ids : agents' = [AgentsAfter(as, ids) EXCEPT
                                     ![a] = RefreshedAgent(as, r, a)]
    BY <1>2 DEF RegisterNew, Reincarnate
  <2> HIDE DEF r
  <2>5. AgentFollows(agents[a], r)
    BY <1>0, <2>1, <2>2, <2>3 DEF AgentFollows, Known, AgentRecord
  <2>6. CASE agents' = [agents EXCEPT ![a] = r]
    BY <1>0, <2>5, <2>6, SameFollows DEF AgentsFollow
  <2>7. CASE \E as, ids : agents' = [AgentsAfter(as, ids) EXCEPT
                                       ![a] = RefreshedAgent(as, r, a)]
    BY <2>2, <2>5, <2>7, StoredFollows
  <2> QED
    BY <2>4, <2>6, <2>7
<1>3. ASSUME NEW m \in Concurrency, Reregister(a, m)
      PROVE  AgentsFollow
  <2> DEFINE r == [agents[a] EXCEPT
                     !.maxc = m, !.lease = now + RegistrationTtl,
                     !.lifecycle = IF @ = "Lost"
                                   THEN "RevalidationRequired" ELSE @]
  <2>1. m \in Nat /\ now + RegistrationTtl \in Nat
    BY <1>0, Inputs, Bounds
  <2>2. Known(a) /\ agents' = [agents EXCEPT ![a] = RefreshedAgent(asg, r, a)]
    BY <1>3 DEF Reregister
  <2>3. /\ r \in AgentRecord /\ r.gen = agents[a].gen
        /\ r.recovered = agents[a].recovered /\ r.lifecycle # "Unregistered"
        /\ Evident(r) => Evident(agents[a])
    BY <1>0, <2>1, <2>2 DEF AgentRecord, Known, Evident
  <2> HIDE DEF r
  <2> QED
    BY <1>1, <2>2, <2>3
<1>4. ASSUME NEW g \in 1..MaxCapGen, NEW at \in 1..now, publish_capabilities(a, g, at)
      PROVE  AgentsFollow
  <2> DEFINE r == [agents[a] EXCEPT
                     !.capability = [value |-> g, current |-> TRUE, at |-> at],
                     !.recovered = FALSE]
  <2>1. g \in Nat /\ at \in Nat
    BY <1>0, Bounds
  <2>2. Known(a) /\ agents' = [agents EXCEPT ![a] = RefreshedAgent(asg', r, a)]
    BY <1>4 DEF publish_capabilities
  <2>3. /\ r \in AgentRecord /\ r.gen = agents[a].gen
        /\ r.recovered = FALSE /\ r.lifecycle # "Unregistered"
    BY <1>0, <2>1, <2>2 DEF AgentRecord, Evidence, Known
  <2> HIDE DEF r
  <2> QED
    BY <1>1, <2>2, <2>3
<1>5. ASSUME NEW v \in HealthReports, NEW at \in 1..now, publish_health(a, v, at)
      PROVE  AgentsFollow
  <2> DEFINE r == [agents[a] EXCEPT
                     !.health = [value |-> v, current |-> TRUE, at |-> at],
                     !.recovered = FALSE]
  <2>1. v \in Healths /\ at \in Nat
    BY <1>0, Inputs
  <2>2. Known(a) /\ agents' = [agents EXCEPT ![a] = RefreshedAgent(asg, r, a)]
    BY <1>5 DEF publish_health
  <2>3. /\ r \in AgentRecord /\ r.gen = agents[a].gen
        /\ r.recovered = FALSE /\ r.lifecycle # "Unregistered"
    BY <1>0, <2>1, <2>2 DEF AgentRecord, Evidence, Known
  <2> HIDE DEF r
  <2> QED
    BY <1>1, <2>2, <2>3
<1>6. ASSUME NEW v \in AvailReports, NEW at \in 1..now, publish_availability(a, v, at)
      PROVE  AgentsFollow
  <2> DEFINE r == [agents[a] EXCEPT
                     !.avail = [value |-> v, current |-> TRUE, at |-> at],
                     !.recovered = FALSE]
  <2>1. v \in Avails /\ at \in Nat
    BY <1>0, Inputs
  <2>2. Known(a) /\ agents' = [agents EXCEPT ![a] = RefreshedAgent(asg, r, a)]
    BY <1>6 DEF publish_availability
  <2>3. /\ r \in AgentRecord /\ r.gen = agents[a].gen
        /\ r.recovered = FALSE /\ r.lifecycle # "Unregistered"
    BY <1>0, <2>1, <2>2 DEF AgentRecord, Evidence, Known
  <2> HIDE DEF r
  <2> QED
    BY <1>1, <2>2, <2>3
<1>7. CASE heartbeat(a)
  <2>1. agents' = [agents EXCEPT ![a].lease = now + RegistrationTtl]
    BY <1>7 DEF heartbeat
  <2>2. AgentFollows(agents[a], agents'[a])
    BY <1>0, <2>1 DEF AgentFollows, AgentRecord, Evident
  <2> QED
    BY <1>0, <2>1, <2>2, SameFollows DEF AgentsFollow
<1>8. CASE \E boot \in BootOf[a] : LoseStale(a, boot)
  BY <1>8, KeptFollow DEF LoseStale
<1>9. ASSUME NEW force \in BOOLEAN, drain_agent(a, force)
      PROVE  AgentsFollow
  <2> DEFINE r == [agents[a] EXCEPT !.lifecycle = "Draining"]
  <2>1. /\ r \in AgentRecord /\ r.gen = agents[a].gen
        /\ r.recovered = agents[a].recovered /\ r.lifecycle # "Unregistered"
        /\ Evident(r) => Evident(agents[a])
    BY <1>0 DEF AgentRecord, Evident
  <2>2. Known(a) /\ \E as, ids : agents' = [AgentsAfter(as, ids) EXCEPT
                                              ![a] = RefreshedAgent(as, r, a)]
    BY <1>9 DEF drain_agent
  <2> HIDE DEF r
  <2> QED
    BY <1>1, <2>1, <2>2
<1>10. ASSUME NEW l \in {"Retired", "Lost"}, NEW as, NEW ids, Known(a),
             agents' = [AgentsAfter(as, ids) EXCEPT ![a] = EndedAgent(as, a, l)]
      PROVE  AgentsFollow
  <2> DEFINE r == [invalidate_dynamic_evidence(agents[a]) EXCEPT !.lifecycle = l]
  <2>1. /\ r \in AgentRecord /\ r.gen = agents[a].gen
        /\ r.recovered = agents[a].recovered /\ r.lifecycle # "Unregistered"
        /\ ~Evident(r)
    BY <1>0 DEF AgentRecord, Evidence, invalidate_dynamic_evidence, Withdrawn,
                Healths, Avails, Evident
  <2>2. agents' = [AgentsAfter(as, ids) EXCEPT ![a] = RefreshedAgent(as, r, a)]
    BY <1>10 DEF EndedAgent
  <2> HIDE DEF r
  <2> QED
    BY <1>1, <1>10, <2>1, <2>2
<1>11. CASE LoseCurrent(a) \/ \E force \in BOOLEAN : deregister_agent(a, force)
  <2>1. Known(a) /\ \E l \in {"Retired", "Lost"} : \E as, ids :
           agents' = [AgentsAfter(as, ids) EXCEPT ![a] = EndedAgent(as, a, l)]
    BY <1>11 DEF LoseCurrent, deregister_agent
  <2> QED
    BY <1>10, <2>1
<1> QED
  BY <1>2, <1>3, <1>4, <1>5, <1>6, <1>7, <1>8, <1>9, <1>11


\* So does every other handler.
LEMMA NextAgentsFollow ==
    ASSUME TypeOK, [Next]_vars
    PROVE  AgentsFollow
<1>1. agents' = agents => AgentsFollow
  BY KeptFollow
<1>2. ASSUME NEW as, NEW ids, agents' = AgentsAfter(as, ids)
      PROVE  AgentsFollow
  BY <1>2, KeptFollow
<1>3. CASE start \/ Tick \/ UNCHANGED vars
  BY <1>1, <1>3 DEF start, Tick, vars
<1>4. CASE shutdown \/ \E g \in 1..MaxPolicyGen, closes \in ClosePolicies :
                          set_policy(g, closes)
  BY <1>2, <1>4 DEF shutdown, set_policy, CloseAssignments
<1>5. CASE WorkNext
  BY <1>2, <1>5 DEF WorkNext, submit_work, supersede_work, Readmit, cancel_work,
                    expire_deadlines
<1>6. ASSUME NEW c \in Caller, commit_locked(c)
      PROVE  AgentsFollow
  <2> DEFINE a == call[c].b.agent
  <2>1. a \in Agent
    BY <1>6, CarriedType DEF commit_locked, Binding
  <2>2. /\ \E as : agents' = [agents EXCEPT ![a] = RefreshedAgent(as, agents[a], a)]
        /\ agents[a].lifecycle \in AcceptsNewWork
    BY <1>6, <2>1 DEF commit_locked, CommitAllowed, BoundAgentReady, TypeOK
  <2>3. /\ agents[a] \in AgentRecord /\ AgentFollows(agents[a], agents[a])
        /\ agents[a].lifecycle # "Unregistered"
    BY <2>1, <2>2, SameFollows DEF TypeOK, AcceptsNewWork
  <2> HIDE DEF a
  <2> QED
    BY <2>1, <2>2, <2>3, StoredFollows
<1>7. CASE \E c \in Caller : \/ \E w \in Work : plan_locked(c, w)
                             \/ CommitRejected(c)
                             \/ \E b \in DOMAIN asg : dispatch(c, b)
                             \/ Handoff(c)
                             \/ HandoffRejected(c)
  BY <1>1, <1>7 DEF plan_locked, CommitRejected, dispatch, Handoff, HandoffRejected
<1>8. CASE \E b \in DOMAIN asg : Report(b)
  BY <1>1, <1>2, <1>8 DEF Report, acknowledge, mark_executing, Return, Finish,
                          CloseAssignments
<1>9. CASE revalidate_assignments \/ \E a \in Agent : revalidate_agent_assignments(a)
  BY <1>2, <1>9 DEF revalidate_assignments, revalidate_agent_assignments, Revalidate
<1>10. CASE expire_leases
  BY <1>2, <1>10 DEF expire_leases, CloseAssignments
<1> QED
  BY <1>3, <1>4, <1>5, <1>6, <1>7, <1>8, <1>9, <1>10, AgentNextFollows
     DEF Next, AssignmentNext

\* Ending work by its lifecycle alone follows.
LEMMA EndedFollows ==
    ASSUME TypeOK, NEW as, NEW ids, NEW w \in Work, NEW l \in TerminalWork
    PROVE  LET after == WorkAfter(as, ids)
           IN  KnownWork(w) => WorkFollows(work[w], [after[w] EXCEPT !.lifecycle = l])
<1> DEFINE after == WorkAfter(as, ids)
           ended == [after[w] EXCEPT !.lifecycle = l]
<1>1. WorkFollows(work[w], after[w]) /\ work[w] \in WorkRecord
  BY AfterFollows DEF TypeOK
<1>2. {"gen", "lastGen", "lifecycle"} \subseteq DOMAIN after[w]
  BY DEF WorkAfter, RefreshedWork, TypeOK, WorkRecord
<1> HIDE DEF after
<1>3. /\ ended.gen = after[w].gen /\ ended.lastGen = after[w].lastGen
      /\ ended.lifecycle = l /\ l # "Unknown"
  BY <1>2 DEF TerminalWork
<1> HIDE DEF ended
<1>4. KnownWork(w) => WorkFollows(work[w], ended)
  BY <1>1, <1>3 DEF KnownWork, WorkFollows
<1> QED
  BY <1>4 DEF after, ended

\* Every work handler lets work go on, ends it or re-admits it.
LEMMA WorkNextFollows ==
    ASSUME TypeOK, WorkNext
    PROVE  WorkFollowing
<1>0. /\ {"Cancelled", "Expired"} \subseteq TerminalWork
      /\ work \in [Work -> WorkRecord]
      /\ \A w \in Work : WorkFollows(work[w], work[w])
  BY SameFollows DEF TypeOK, TerminalWork
<1>1. ASSUME NEW w \in Work, NEW g \in 1..MaxWorkGen, NEW r,
             submit_work(w, g, r) \/ supersede_work(w, g, r)
      PROVE  WorkFollowing
  <2>1. work' = [work EXCEPT ![w] = Admitted(w, g, r)] /\ g > work[w].gen
    BY <1>1 DEF submit_work, supersede_work, Readmit
  <2>2. /\ Admitted(w, g, r).gen = g /\ Admitted(w, g, r).lifecycle = "Admitted"
        /\ Admitted(w, g, r).lastGen = work[w].lastGen
    BY DEF Admitted
  <2>3. g >= 1 /\ g \in Nat /\ work[w].gen \in Nat
    BY <1>0, Bounds DEF WorkRecord
  <2>4. WorkFollows(work[w], Admitted(w, g, r))
    BY <2>1, <2>2, <2>3 DEF WorkFollows
  <2> QED
    BY <1>0, <2>1, <2>4 DEF WorkFollowing
<1>2. ASSUME NEW w \in Work, cancel_work(w)
      PROVE  WorkFollowing
  <2> DEFINE after == WorkAfter(Closed(OnWork(asg, w), "Cancelled"), OnWork(asg, w))
             ended == [after[w] EXCEPT !.lifecycle = "Cancelled"]
  <2>1. work' = [after EXCEPT ![w] = ended] /\ KnownWork(w)
    BY <1>2 DEF cancel_work
  <2>2. DOMAIN after = Work /\ \A x \in Work : WorkFollows(work[x], after[x])
    BY AfterFollows DEF WorkAfter
  <2>3. WorkFollows(work[w], ended)
    BY <1>0, <2>1, EndedFollows
  <2> HIDE DEF after, ended
  <2> QED
    BY <2>1, <2>2, <2>3 DEF WorkFollowing
<1>3. CASE expire_deadlines
  <2> DEFINE late == {w \in Work : /\ KnownWork(w)
                                   /\ work[w].lifecycle \notin TerminalWork
                                   /\ DeadlinePassed(w)}
             old == UNION {OnWork(asg, w) : w \in late}
             after == WorkAfter(Closed(old, "Expired"), old)
  <2>1. \A w \in Work :
           work'[w] = IF w \in late THEN [after[w] EXCEPT !.lifecycle = "Expired"]
                      ELSE work[w]
    BY <1>3 DEF expire_deadlines
  <2>2. \A w \in late : WorkFollows(work[w], [after[w] EXCEPT !.lifecycle = "Expired"])
    BY <1>0, EndedFollows
  <2> HIDE DEF late, after
  <2> QED
    BY <1>0, <2>1, <2>2 DEF WorkFollowing
<1> QED
  BY <1>1, <1>2, <1>3 DEF WorkNext

\* A finished assignment ends its work or lets it go on.
LEMMA FinishFollows ==
    ASSUME TypeOK, NEW b \in DOMAIN asg, NEW st \in {"Completed", "Failed"},
           Finish(b, st), KnownWork(b.work)
    PROVE  WorkFollowing
<1> DEFINE after == WorkAfter(Closed({b}, st), {b})
           ended == [after[b.work] EXCEPT !.lifecycle = st]
<1>1. work' = after \/ work' = [after EXCEPT ![b.work] = ended]
  BY DEF Finish
<1>2. DOMAIN after = Work /\ \A x \in Work : WorkFollows(work[x], after[x])
  BY AfterFollows DEF WorkAfter
<1>3. b.work \in Work /\ st \in TerminalWork
  BY DEF TypeOK, AssignmentMap, Binding, TerminalWork
<1>4. WorkFollows(work[b.work], ended)
  BY <1>3, EndedFollows
<1> HIDE DEF after, ended
<1> QED
  BY <1>1, <1>2, <1>3, <1>4 DEF WorkFollowing

\* So does every step; only a commit moves a last assignment generation.
LEMMA NextWorkFollows ==
    ASSUME LifeInv, [Next]_vars
    PROVE  WorkFollowing \/ \E c \in Caller : commit_locked(c)
<1>0. TypeOK
  BY LifeTyped
<1>1. work' = work => WorkFollowing
  BY <1>0, KeptFollow
<1>2. ASSUME NEW as, NEW ids, work' = WorkAfter(as, ids)
      PROVE  WorkFollowing
  BY <1>0, <1>2, KeptFollow
<1>3. CASE start \/ Tick \/ UNCHANGED vars
  BY <1>1, <1>3 DEF start, Tick, vars
<1>4. CASE shutdown \/ \E g \in 1..MaxPolicyGen, closes \in ClosePolicies :
                          set_policy(g, closes)
  BY <1>2, <1>4 DEF shutdown, set_policy, CloseAssignments
<1>5. CASE AgentNext
  <2>1. work' = work \/ \E as, ids : work' = WorkAfter(as, ids)
    <3> PICK a \in Agent :
          \/ \E g \in 1..MaxAgentGen, boot \in BootOf[a], m \in Concurrency :
                RegisterNew(a, g, boot, m) \/ Reincarnate(a, g, boot, m)
          \/ \E m \in Concurrency : Reregister(a, m)
          \/ \E g \in 1..MaxCapGen, at \in 1..now : publish_capabilities(a, g, at)
          \/ \E v \in HealthReports, at \in 1..now : publish_health(a, v, at)
          \/ \E v \in AvailReports, at \in 1..now : publish_availability(a, v, at)
          \/ heartbeat(a)
          \/ \E force \in BOOLEAN : drain_agent(a, force) \/ deregister_agent(a, force)
          \/ LoseCurrent(a)
          \/ \E boot \in BootOf[a] : LoseStale(a, boot)
      BY <1>5 DEF AgentNext
    <3> QED
      BY DEF RegisterNew, Reincarnate, Reregister, publish_capabilities,
             publish_health, publish_availability, heartbeat, drain_agent,
             deregister_agent, LoseCurrent, LoseStale
  <2> QED
    BY <1>1, <1>2, <2>1
<1>6. CASE \E c \in Caller : \/ \E w \in Work : plan_locked(c, w)
                             \/ CommitRejected(c)
                             \/ \E b \in DOMAIN asg : dispatch(c, b)
                             \/ Handoff(c)
                             \/ HandoffRejected(c)
  BY <1>1, <1>6 DEF plan_locked, CommitRejected, dispatch, Handoff, HandoffRejected
<1>7. ASSUME NEW b \in DOMAIN asg, Report(b)
      PROVE  WorkFollowing
  <2>1. \/ work' = work
        \/ \E as, ids : work' = WorkAfter(as, ids)
        \/ \E st \in {"Completed", "Failed"} : Finish(b, st)
    BY <1>7 DEF Report, acknowledge, mark_executing, Return, CloseAssignments
  <2>2. ASSUME NEW st \in {"Completed", "Failed"}, Finish(b, st)
        PROVE  WorkFollowing
    <3>1. b \in ActiveIn(asg)
      BY <2>2 DEF Finish, ActiveIn
    <3>2. KnownWork(b.work)
      BY <3>1 DEF LifeInv, WorkInv, ActiveWorkCurrent, KnownWork
    <3> QED
      BY <1>0, <2>2, <3>2, FinishFollows
  <2> QED
    BY <1>1, <1>2, <2>1, <2>2
<1>8. CASE revalidate_assignments \/ \E a \in Agent : revalidate_agent_assignments(a)
  BY <1>2, <1>8 DEF revalidate_assignments, revalidate_agent_assignments, Revalidate
<1>9. CASE expire_leases
  BY <1>2, <1>9 DEF expire_leases, CloseAssignments
<1> QED
  BY <1>0, <1>3, <1>4, <1>5, <1>6, <1>7, <1>8, <1>9, WorkNextFollows
     DEF Next, AssignmentNext

\* A commit makes its own generation the last one of its work, and nothing else.
LEMMA CommitFollows ==
    ASSUME LifeInv, NEW c \in Caller, commit_locked(c), NEW x \in Work
    PROVE  /\ work'[x].gen = work[x].gen
           /\ work[x].lifecycle = "Unknown" <=> work'[x].lifecycle = "Unknown"
           /\ work'[x].lastGen = IF x = call[c].b.work THEN call[c].b.gen
                                 ELSE work[x].lastGen
<1> DEFINE b == call[c].b
           as == Emplaced(b, call[c].expires)
           stored == [work[b.work] EXCEPT !.lastGen = b.gen]
           new == RefreshedWork(as, stored, b.work)
<1>0. TypeOK /\ call[c].op = "schedule"
  BY LifeTyped DEF commit_locked
<1>1. b \in Binding /\ b.work \in Work /\ b.gen \in Nat
  BY <1>0, CarriedType DEF Binding
<1>2. /\ stored \in WorkRecord /\ stored.gen = work[b.work].gen
      /\ stored.lifecycle = work[b.work].lifecycle /\ stored.lastGen = b.gen
  BY <1>0, <1>1 DEF TypeOK, WorkRecord
<1>3. work' = [work EXCEPT ![b.work] = new]
  BY <1>0, <1>1 DEF commit_locked, TypeOK
<1>4. KnownWork(b.work)
  BY <1>0 DEF LifeInv, WorkInv, PlannedWorkCurrent
<1> HIDE DEF b, as, stored
<1>5. /\ new.gen = stored.gen /\ new.lastGen = stored.lastGen
      /\ stored.lifecycle # "Unknown" => new.lifecycle # "Unknown"
  BY <1>2 DEF RefreshedWork, WorkRecord
<1> HIDE DEF new
<1>6. DOMAIN work = Work
  BY <1>0 DEF TypeOK
<1>7. /\ work'[x].gen = work[x].gen
      /\ work[x].lifecycle = "Unknown" <=> work'[x].lifecycle = "Unknown"
      /\ work'[x].lastGen = IF x = b.work THEN b.gen ELSE work[x].lastGen
  BY <1>1, <1>2, <1>3, <1>4, <1>5, <1>6 DEF KnownWork
<1> QED
  BY <1>7 DEF b


-----------------------------------------------------------------------------
(* What is stored and what is planned.                                     *)

\* What binding b names exists, at generations that have not fallen behind.
BoundSound(b) ==
    /\ b.gen >= 1
    /\ KnownWork(b.work) /\ work[b.work].gen >= b.workGen
    /\ Known(b.agent) /\ agents[b.agent].gen >= b.agentGen

\* No assignment in `as` that ended has a lease.
NoLease(as) ==
    \A b \in DOMAIN as : as[b].state \in TerminalStates => ~as[b].leaseCurrent

\* The last assignment generation of every work item is that of an assignment.
LastStored ==
    \A w \in Work : work[w].lastGen # 0 =>
        \E b \in DOMAIN asg : b.work = w /\ b.gen = work[w].lastGen

\* Known records have a generation, and a recovered one has no evidence that counts.
RecordsSound ==
    /\ \A w \in Work : KnownWork(w) => work[w].gen >= 1
    /\ \A a \in Agent : /\ agents[a].recovered => ~Evident(agents[a])
                        /\ Known(a) => agents[a].gen >= 1

\* The scheduler runs in an epoch, under a policy that somebody set.
EpochSound ==
    /\ sched.epoch # 0
    /\ sched.running => sched.coord # 0
    /\ sched.closes \in ClosePolicies

LedgerInv ==
    /\ \A b \in DOMAIN asg : BoundSound(b)
    /\ \A c \in Caller : call[c].op = "schedule" => BoundSound(call[c].b)
    /\ NoLease(asg)
    /\ LastStored
    /\ RecordsSound
    /\ EpochSound

\* What a caller carries to a commit it carried before, or it just planned it.
LEMMA PlansOrigin ==
    ASSUME TypeOK, [Next]_vars, NEW c \in Caller, call'[c].op = "schedule"
    PROVE  call'[c] = call[c] \/ \E w \in Work : plan_locked(c, w)
<1>0. DOMAIN call = Caller /\ Idle.op # "schedule"
  BY DEF TypeOK, Idle
<1>1. ASSUME NEW d \in Caller, commit_locked(d) \/ CommitRejected(d) \/ Handoff(d)
                                 \/ HandoffRejected(d)
      PROVE  call'[c] = call[c]
  <2>1. call' = [call EXCEPT ![d] = Idle]
    BY <1>1 DEF commit_locked, CommitRejected, Handoff, HandoffRejected
  <2> QED
    BY <1>0, <2>1
<1>2. ASSUME NEW d \in Caller, NEW b, dispatch(d, b)
      PROVE  call'[c] = call[c]
  BY <1>0, <1>2 DEF dispatch
<1>3. ASSUME NEW d \in Caller, NEW w \in Work, plan_locked(d, w)
      PROVE  call'[c] = call[c] \/ plan_locked(c, w)
  BY <1>0, <1>3 DEF plan_locked
<1>4. CASE start \/ shutdown \/ Tick \/ UNCHANGED vars
             \/ \E g \in 1..MaxPolicyGen, closes \in ClosePolicies : set_policy(g, closes)
  BY <1>4 DEF start, shutdown, set_policy, Tick, vars
<1>5. CASE AgentNext
  <2>1. call' = call
    BY <1>5, AgentNextSteady
  <2> QED
    BY <2>1
<1>6. CASE WorkNext
  BY <1>6 DEF WorkNext, submit_work, supersede_work, Readmit, cancel_work,
              expire_deadlines
<1>7. ASSUME NEW b \in DOMAIN asg, Report(b)
      PROVE  call' = call
  BY <1>7 DEF Report, acknowledge, mark_executing, Return, Finish
<1>8. CASE revalidate_assignments \/ expire_leases
             \/ \E a \in Agent : revalidate_agent_assignments(a)
  BY <1>8 DEF revalidate_assignments, revalidate_agent_assignments, Revalidate,
              expire_leases
<1> QED
  BY <1>1, <1>2, <1>3, <1>4, <1>5, <1>6, <1>7, <1>8 DEF Next, AssignmentNext

\* A plan names what exists, at the generations it has.
LEMMA PlanSound ==
    ASSUME TypeOK, NEW c \in Caller, NEW w \in Work, plan_locked(c, w)
    PROVE  BoundSound(call'[c].b) /\ call'[c].b.work = w
<1>1. PICK a \in Agent : /\ agents[a].lifecycle \in AcceptsNewWork
                         /\ call'[c].b = build_binding(w, a)
  BY DEF plan_locked, evaluate_eligibility, TypeOK
<1>2. KnownWork(w) /\ Known(a)
  BY <1>1 DEF plan_locked, PlanAllowed, Known, AcceptsNewWork
<1>3. /\ work[w].gen \in Nat /\ work[w].lastGen \in Nat /\ agents[a].gen \in Nat
  BY DEF TypeOK, WorkRecord, AgentRecord
<1>4. /\ call'[c].b.gen = work[w].lastGen + 1 /\ call'[c].b.work = w
      /\ call'[c].b.workGen = work[w].gen /\ call'[c].b.agent = a
      /\ call'[c].b.agentGen = agents[a].gen
  BY <1>1 DEF build_binding
<1> QED
  BY <1>2, <1>3, <1>4 DEF BoundSound

\* What every step does to a work record.
LEMMA NextWork ==
    ASSUME LifeInv, [Next]_vars, NEW w \in Work
    PROVE  /\ work[w].lifecycle # "Unknown" =>
                 work'[w].lifecycle # "Unknown" /\ work'[w].gen >= work[w].gen
           /\ work'[w].lifecycle # "Unknown" =>
                 \/ work'[w].gen >= 1
                 \/ work[w].lifecycle # "Unknown" /\ work'[w].gen = work[w].gen
           /\ \/ work'[w].lastGen = work[w].lastGen
              \/ \E c \in Caller : /\ commit_locked(c)
                                   /\ w = call[c].b.work
                                   /\ work'[w].lastGen = call[c].b.gen
<1>0. work[w].gen \in Nat
  BY LifeTyped DEF TypeOK, WorkRecord
<1>1. CASE WorkFollowing
  <2>1. WorkFollows(work[w], work'[w])
    BY <1>1 DEF WorkFollowing
  <2> QED
    BY <2>1 DEF WorkFollows
<1>2. CASE \E c \in Caller : commit_locked(c)
  BY <1>0, <1>2, CommitFollows
<1> QED
  BY <1>1, <1>2, NextWorkFollows

\* No step deletes an assignment, and a commit stores its binding.
LEMMA StoredStay ==
    ASSUME TypeOK, [Next]_vars
    PROVE  /\ DOMAIN asg \subseteq DOMAIN asg'
           /\ \A c \in Caller : commit_locked(c) => call[c].b \in DOMAIN asg'
           /\ \A b \in DOMAIN asg' :
                 b \in DOMAIN asg \/ \E c \in Caller : commit_locked(c) /\ b = call[c].b
<1>1. \A c \in Caller : commit_locked(c) => Adds(call[c].b)
  BY CommitStores
<1>2. TerminalKept(asg') => DOMAIN asg' = DOMAIN asg
  BY DEF TerminalKept
<1> QED
  BY <1>1, <1>2, NextKept DEF Adds

\* Whatever is sound stays sound.
LEMMA SoundStays ==
    ASSUME LifeInv, [Next]_vars, NEW b \in Binding, BoundSound(b)
    PROVE  BoundSound(b)'
<1>1. b.work \in Work /\ b.agent \in Agent /\ b.workGen \in Nat /\ b.agentGen \in Nat
  BY DEF Binding
<1>2. TypeOK /\ TypeOK'
  BY LifeTyped, NextType
<1>3. /\ work[b.work].gen \in Nat /\ work'[b.work].gen \in Nat
      /\ agents[b.agent].gen \in Nat /\ agents'[b.agent].gen \in Nat
  BY <1>1, <1>2 DEF TypeOK, WorkRecord, AgentRecord
<1>4. work'[b.work].lifecycle # "Unknown" /\ work'[b.work].gen >= work[b.work].gen
  BY <1>1, NextWork DEF BoundSound, KnownWork
<1>5. AgentFollows(agents[b.agent], agents'[b.agent])
  BY <1>1, <1>2, NextAgentsFollow DEF AgentsFollow
<1>6. /\ agents'[b.agent].lifecycle # "Unregistered"
      /\ agents'[b.agent].gen >= agents[b.agent].gen
  BY <1>5 DEF AgentFollows, BoundSound, Known
<1> QED
  BY <1>1, <1>3, <1>4, <1>6 DEF BoundSound, KnownWork, Known


\* Whatever ends, or is changed, ends without a lease.
LEMMA NextNoLease ==
    ASSUME TypeOK, NoLease(asg), [Next]_vars
    PROVE  NoLease(asg')
<1>0. /\ \A b \in DOMAIN asg : asg[b] \in AssignmentRecord
      /\ TerminalStates \cap {"Assigned", "Dispatched", "Acknowledged", "Executing",
                              "RevalidationRequired"} = {}
  BY DEF TerminalStates, TypeOK, AssignmentMap
<1>1. CASE asg' = asg
  BY <1>1 DEF NoLease
<1>2. ASSUME NEW ids, NEW st, asg' = Closed(ids, st)
      PROVE  NoLease(asg')
  BY <1>0, <1>2 DEF NoLease, Closed, AssignmentRecord
<1>3. ASSUME NEW a \in Agent, NEW g, NEW at, publish_capabilities(a, g, at)
      PROVE  NoLease(asg')
  BY <1>0, <1>3 DEF publish_capabilities, NoLease, AssignmentRecord
<1>4. CASE AgentNext
  <2>1. ASSUME asg' # asg
        PROVE  \/ \E a \in Agent : \E g, at : publish_capabilities(a, g, at)
               \/ \E ids, st : asg' = Closed(ids, st)
    <3> PICK a \in Agent :
          \/ \E g \in 1..MaxAgentGen, boot \in BootOf[a], m \in Concurrency :
                Reincarnate(a, g, boot, m)
          \/ \E g \in 1..MaxCapGen, at \in 1..now : publish_capabilities(a, g, at)
          \/ \E force \in BOOLEAN : drain_agent(a, force) \/ deregister_agent(a, force)
          \/ LoseCurrent(a)
      BY <1>4, <2>1 DEF AgentNext, RegisterNew, Reregister, publish_health,
                        publish_availability, heartbeat, LoseStale
    <3> QED
      BY DEF Reincarnate, drain_agent, deregister_agent, LoseCurrent
  <2> QED
    BY <1>1, <1>2, <1>3, <2>1
<1>5. CASE WorkNext
  <2>1. \E ids, st : asg' = Closed(ids, st)
    BY <1>5 DEF WorkNext, submit_work, supersede_work, Readmit, cancel_work,
                expire_deadlines
  <2> QED
    BY <1>2, <2>1
<1>6. ASSUME NEW b \in DOMAIN asg, Report(b)
      PROVE  NoLease(asg')
  <2>1. \/ \E ids, st : asg' = Closed(ids, st)
        \/ \E st \in {"Acknowledged", "Executing"} : asg' = [asg EXCEPT ![b].state = st]
    BY <1>6 DEF Report, acknowledge, mark_executing, Return, Finish, CloseAssignments
  <2>2. ASSUME NEW st \in {"Acknowledged", "Executing"},
               asg' = [asg EXCEPT ![b].state = st]
        PROVE  NoLease(asg')
    BY <1>0, <2>2 DEF NoLease, AssignmentRecord
  <2> QED
    BY <1>2, <2>1, <2>2
<1>7. ASSUME NEW examined, NEW promoted, Revalidate(examined, promoted)
      PROVE  NoLease(asg')
  BY <1>0, <1>7 DEF Revalidate, Revalidated, NoLease, AssignmentRecord
<1>8. CASE shutdown \/ expire_leases
             \/ \E g \in 1..MaxPolicyGen, closes \in ClosePolicies : set_policy(g, closes)
  <2>1. \E ids, st : asg' = Closed(ids, st)
    BY <1>8 DEF shutdown, set_policy, expire_leases, CloseAssignments
  <2> QED
    BY <1>2, <2>1
<1>9. CASE revalidate_assignments \/ \E a \in Agent : revalidate_agent_assignments(a)
  BY <1>7, <1>9 DEF revalidate_assignments, revalidate_agent_assignments
<1>10. ASSUME NEW c \in Caller, commit_locked(c)
       PROVE  NoLease(asg')
  BY <1>0, <1>10 DEF commit_locked, Emplaced, NoLease
<1>11. ASSUME NEW c \in Caller, Handoff(c)
       PROVE  NoLease(asg')
  <2> DEFINE new == [state |-> "Dispatched", leaseCurrent |-> TRUE,
                     expires |-> now + AssignmentTtl]
  <2>1. asg' = [asg EXCEPT ![call[c].b] = new] /\ new.state = "Dispatched"
    BY <1>11 DEF Handoff
  <2> HIDE DEF new
  <2> QED
    BY <1>0, <2>1 DEF NoLease
<1>12. CASE \E c \in Caller : \/ \E w \in Work : plan_locked(c, w)
                              \/ CommitRejected(c)
                              \/ \E b \in DOMAIN asg : dispatch(c, b)
                              \/ HandoffRejected(c)
  BY <1>1, <1>12 DEF plan_locked, CommitRejected, dispatch, HandoffRejected
<1>13. CASE start \/ Tick \/ UNCHANGED vars
  BY <1>1, <1>13 DEF start, Tick, vars
<1> QED
  BY <1>4, <1>5, <1>6, <1>8, <1>9, <1>10, <1>11, <1>12, <1>13 DEF Next, AssignmentNext

\* Every step keeps what is stored, planned and known sound.
LEMMA LedgerNext ==
    ASSUME LifeInv, LedgerInv, [Next]_vars
    PROVE  LedgerInv'
<1>0. TypeOK /\ TypeOK'
  BY LifeTyped, NextType
<1>1. ASSUME NEW c \in Caller, call[c].op = "schedule"
      PROVE  call[c].b \in Binding /\ BoundSound(call[c].b)
  BY <1>0, <1>1, CarriedType DEF LedgerInv
<1>2. \A b \in DOMAIN asg' : BoundSound(b)'
  <2> SUFFICES ASSUME NEW b \in DOMAIN asg' PROVE BoundSound(b)'
    OBVIOUS
  <2>1. b \in Binding
    BY <1>0 DEF TypeOK, AssignmentMap
  <2>2. b \in DOMAIN asg \/ \E c \in Caller : commit_locked(c) /\ b = call[c].b
    BY <1>0, StoredStay
  <2>3. \A c \in Caller : commit_locked(c) => call[c].op = "schedule"
    BY DEF commit_locked
  <2>4. BoundSound(b)
    BY <1>1, <2>2, <2>3 DEF LedgerInv
  <2> QED
    BY <2>1, <2>4, SoundStays
<1>3. ASSUME NEW c \in Caller, call'[c].op = "schedule"
      PROVE  BoundSound(call[c].b)'
  <2>1. call'[c].b \in Binding /\ BoundSound(call'[c].b)
    <3>1. call'[c].b \in Binding
      BY <1>0, <1>3 DEF TypeOK, Calls, Idle
    <3>2. CASE call'[c] = call[c]
      BY <1>1, <1>3, <3>1, <3>2
    <3>3. CASE \E w \in Work : plan_locked(c, w)
      BY <1>0, <3>1, <3>3, PlanSound
    <3> QED
      BY <1>0, <1>3, <3>1, <3>2, <3>3, PlansOrigin
  <2>2. PICK b \in Binding : b = call'[c].b /\ BoundSound(b)
    BY <2>1
  <2>3. BoundSound(b)'
    BY <2>2, SoundStays
  <2> QED
    BY <2>2, <2>3 DEF BoundSound
<1>4. NoLease(asg')
  BY <1>0, NextNoLease DEF LedgerInv
<1>5. LastStored'
  <2> SUFFICES ASSUME NEW w \in Work, work'[w].lastGen # 0
               PROVE  \E b \in DOMAIN asg' : b.work = w /\ b.gen = work'[w].lastGen
    BY DEF LastStored
  <2>1. CASE work'[w].lastGen = work[w].lastGen
    BY <1>0, <2>1, StoredStay DEF LedgerInv, LastStored
  <2>2. CASE \E c \in Caller : /\ commit_locked(c)
                               /\ w = call[c].b.work
                               /\ work'[w].lastGen = call[c].b.gen
    BY <1>0, <2>2, StoredStay
  <2> QED
    BY <2>1, <2>2, NextWork
<1>6. RecordsSound'
  <2>1. ASSUME NEW w \in Work, work'[w].lifecycle # "Unknown"
        PROVE  work'[w].gen >= 1
    BY <2>1, NextWork DEF LedgerInv, RecordsSound, KnownWork
  <2>2. ASSUME NEW a \in Agent
        PROVE  /\ agents'[a].recovered => ~Evident(agents'[a])
               /\ agents'[a].lifecycle # "Unregistered" => agents'[a].gen >= 1
    <3>1. AgentFollows(agents[a], agents'[a])
      BY <1>0, NextAgentsFollow DEF AgentsFollow
    <3> QED
      BY <3>1 DEF AgentFollows, LedgerInv, RecordsSound, Known
  <2> QED
    BY <2>1, <2>2 DEF RecordsSound, KnownWork, Known
<1>7. EpochSound'
  <2>0. sched \in SchedulerRecord /\ EpochSound
    BY <1>0 DEF TypeOK, LedgerInv
  <2>1. CASE sched' = sched
    BY <2>0, <2>1 DEF EpochSound
  <2>2. CASE start
    BY <2>0, <2>2 DEF EpochSound, start, SchedulerRecord
  <2>3. CASE shutdown
    BY <2>0, <2>3 DEF EpochSound, shutdown, SchedulerRecord
  <2>4. CASE \E g \in 1..MaxPolicyGen, closes \in ClosePolicies : set_policy(g, closes)
    BY <2>0, <2>4 DEF EpochSound, set_policy, SchedulerRecord
  <2> QED
    BY <1>0, <2>1, <2>2, <2>3, <2>4, SchedulerMoves
<1> QED
  BY <1>2, <1>3, <1>4, <1>5, <1>6, <1>7 DEF LedgerInv, NoLease

\* At first nothing is bound, and the epoch and the shutdown rule are sound.
LEMMA LedgerInit == Init => LedgerInv
<1> SUFFICES ASSUME Init PROVE LedgerInv
  OBVIOUS
<1>1. /\ agents = [a \in Agent |-> UnregisteredAgent]
      /\ work = [w \in Work |-> UnknownWork]
      /\ DOMAIN asg = {} /\ call = [c \in Caller |-> Idle]
  BY DEF Init
<1>2. RecordsSound /\ LastStored
  BY <1>1 DEF RecordsSound, LastStored, Known, KnownWork, UnregisteredAgent,
              UnknownWork
<1>3. EpochSound
  <2>1. sched \in [epoch : {1}, coord : {0}, policy : {1}, running : {FALSE},
                   admission : {FALSE}, shutting : {FALSE}, closes : ClosePolicies]
    BY DEF Init
  <2>2. sched.epoch = 1 /\ sched.running = FALSE /\ sched.closes \in ClosePolicies
    BY <2>1
  <2> QED
    BY <2>2 DEF EpochSound
<1> QED
  BY <1>1, <1>2, <1>3 DEF LedgerInv, NoLease, Idle

\* The books are in order in every reachable state.
LEMMA LedgerInvariant == Spec => []LedgerInv
<1>1. Init => LedgerInv
  BY LedgerInit
<1>2. LedgerInv /\ LifeInv /\ [Next]_vars => LedgerInv'
  BY LedgerNext
<1> QED
  BY <1>1, <1>2, LifeInvariant, PTL DEF Spec


-----------------------------------------------------------------------------
(***************************************************************************)
(* Work that has ended has no assignment, where nothing is planned beside  *)
(* it.                                                                     *)
(*                                                                         *)
(* complete_assignment ends the work when its last active assignment ends, *)
(* and commit_locked looks for neither Completed nor Failed, so a plan that*)
(* was made before can still be committed.  With one caller and exclusive  *)
(* work alone there is no such plan: it is made when its work has no active*)
(* assignment, and nothing is committed before it.                         *)
(***************************************************************************)

OneCaller == \A c, d \in Caller : c = d

ExclusiveWork == \A r \in Requests : r.mode = "Exclusive"

ModesExclusive == \A w \in Work : work[w].req.mode = "Exclusive"

\* A plan that its work has not left behind has nothing beside it.
PlanAlone ==
    \A c \in Caller :
        call[c].op = "schedule" /\ call[c].b.workGen = work[call[c].b.work].gen =>
            /\ OnWork(asg, call[c].b.work) = {}
            /\ work[call[c].b.work].lifecycle \notin Done

AloneInv == ModesExclusive /\ PlanAlone /\ NoActiveOnTerminalWork

\* An exclusive work item is planned for when it has no active assignment.
LEMMA PlannedAlone ==
    ASSUME LifeInv, AccountingAgrees, ModesExclusive,
           NEW c \in Caller, NEW w \in Work, plan_locked(c, w)
    PROVE  /\ call'[c].b.work = w
           /\ OnWork(asg', w) = {} /\ work'[w].lifecycle \notin Done
<1>1. TypeOK
  BY LifeTyped
<1>2. PlanAllowed(w) /\ asg' = asg /\ work' = work
  BY DEF plan_locked
<1>3. work[w].lifecycle = "Admitted" \/ work[w].current = 0
  BY <1>2 DEF PlanAllowed, SlotOpen, FanoutOpen, ModesExclusive
<1>4. work[w].current = Cardinality(OnWork(asg, w))
      /\ (work[w].lifecycle = "Admitted" => OnWork(asg, w) = {})
  BY DEF AccountingAgrees
<1>5. Cardinality(OnWork(asg, w)) = 0 <=> OnWork(asg, w) = {}
  BY <1>1, Counted DEF TypeOK
<1>6. work[w].lifecycle \notin Done
  BY <1>2 DEF PlanAllowed, TerminalWork, Done
<1> QED
  BY <1>1, <1>2, <1>3, <1>4, <1>5, <1>6, PlanSound

\* Nothing comes beside a plan, neither an assignment nor the end of its work.
LEMMA PlanStaysAlone ==
    ASSUME OneCaller, LifeInv, AccountingAgrees, ModesExclusive, PlanAlone, [Next]_vars
    PROVE  PlanAlone'
<1>0. TypeOK /\ TypeOK'
  BY LifeTyped, NextType
<1> SUFFICES ASSUME NEW c \in Caller, NEW b \in Binding, call'[c].b = b,
                    call'[c].op = "schedule", b.workGen = work'[b.work].gen
             PROVE  OnWork(asg', b.work) = {} /\ work'[b.work].lifecycle \notin Done
  <2>1. \A c \in Caller : call'[c].op = "schedule" => call'[c].b \in Binding
    BY <1>0 DEF TypeOK, Calls, Idle
  <2> QED
    BY <2>1 DEF PlanAlone
<1>1. CASE \E w \in Work : plan_locked(c, w)
  BY <1>1, PlannedAlone
<1>2. CASE call'[c] = call[c]
  <2>1. /\ b.work \in Work /\ b.workGen \in Nat
        /\ work[b.work].gen \in Nat /\ work'[b.work].gen \in Nat
    BY <1>0 DEF Binding, TypeOK, WorkRecord
  <2>2. work[b.work].lifecycle # "Unknown" /\ b.workGen <= work[b.work].gen
    BY <1>2 DEF LifeInv, WorkInv, PlannedWorkCurrent, KnownWork
  <2>3. work'[b.work].gen >= work[b.work].gen
    BY <2>1, <2>2, NextWork
  <2>4. b.workGen = work[b.work].gen
    BY <2>1, <2>2, <2>3
  <2>5. OnWork(asg, b.work) = {} /\ work[b.work].lifecycle \notin Done
    BY <1>2, <2>4 DEF PlanAlone
  <2>6. ~\E d \in Caller : commit_locked(d)
    <3> SUFFICES ASSUME NEW d \in Caller, commit_locked(d) PROVE FALSE
      OBVIOUS
    <3>1. d = c
      BY DEF OneCaller
    <3>2. call' = [call EXCEPT ![c] = Idle]
      BY <3>1 DEF commit_locked
    <3> QED
      BY <1>0, <3>2 DEF TypeOK, Idle
  <2>7. OnWork(asg', b.work) = {}
    <3>1. ActiveIn(asg') \subseteq ActiveIn(asg)
      BY <1>0, <2>6, OnlyCommitAdds
    <3> QED
      BY <2>5, <3>1 DEF OnWork
  <2>8. ASSUME NEW l \in Done, work'[b.work].lifecycle = l
        PROVE  FALSE
    <3>1. CASE NotBrought(b.work, l)
      BY <2>5, <2>8, <3>1 DEF NotBrought
    <3>2. ASSUME NEW x \in DOMAIN asg, Finish(x, l), x.work = b.work
          PROVE  FALSE
      <4>1. x \in OnWork(asg, b.work)
        BY <3>2 DEF Finish, OnWork, ActiveIn
      <4> QED
        BY <2>5, <4>1
    <3> QED
      BY <1>0, <2>1, <3>1, <3>2, NextDone
  <2> QED
    BY <2>7, <2>8
<1> QED
  BY <1>0, <1>1, <1>2, PlansOrigin

\* No step leaves an assignment active on work that has ended.
LEMMA AloneNext ==
    ASSUME OneCaller, ExclusiveWork, LifeInv, LifeInv', AccountingAgrees, AloneInv,
           [Next]_vars
    PROVE  AloneInv'
<1>0. TypeOK /\ TypeOK'
  BY LifeTyped, NextType
<1>1. ModesExclusive'
  <2> SUFFICES ASSUME NEW w \in Work PROVE work'[w].req.mode = "Exclusive"
    BY DEF ModesExclusive
  <2>1. RequestMoves(w)
    BY <1>0, NextRequests
  <2> QED
    BY <2>1 DEF RequestMoves, AloneInv, ModesExclusive, ExclusiveWork
<1>2. PlanAlone'
  BY PlanStaysAlone DEF AloneInv
<1>3. NoActiveOnTerminalWork'
  <2> SUFFICES ASSUME NEW b \in ActiveIn(asg'),
                      work'[b.work].lifecycle \in TerminalWork
               PROVE  FALSE
    BY DEF NoActiveOnTerminalWork
  <2>1. b \in Binding /\ b.work \in Work
    BY <1>0 DEF TypeOK, AssignmentMap, ActiveIn, Binding
  <2>2. work'[b.work].lifecycle \notin {"Cancelled", "Expired"}
    BY DEF LifeInv, WorkInv, ActiveWorkCurrent
  <2>3. PICK l \in Done : work'[b.work].lifecycle = l
    BY <2>2 DEF TerminalWork, Done
  <2>4. CASE NotBrought(b.work, l)
    <3>1. work[b.work].lifecycle = l
      BY <2>3, <2>4 DEF NotBrought
    <3>2. CASE b \in ActiveIn(asg)
      BY <3>1, <3>2 DEF AloneInv, NoActiveOnTerminalWork, Done, TerminalWork
    <3>3. ASSUME NEW c \in Caller, commit_locked(c), b = call[c].b
          PROVE  FALSE
      <4>1. call[c].op = "schedule" /\ b.workGen = work[b.work].gen
        BY <3>3 DEF commit_locked, CommitAllowed, BoundWorkCurrent
      <4> QED
        BY <3>1, <3>3, <4>1 DEF AloneInv, PlanAlone
    <3> QED
      BY <1>0, <3>2, <3>3, ActiveOrigin
  <2>5. ASSUME NEW x \in DOMAIN asg, Finish(x, l), x.work = b.work
        PROVE  FALSE
    <3>1. x \in ActiveIn(asg) /\ asg' = Closed({x}, l) /\ l \in TerminalStates
      BY <2>5 DEF Finish, ActiveIn, Done, TerminalStates
    <3>2. b \in ActiveIn(asg) /\ b # x
      BY <1>0, <3>1, ClosedActive DEF TypeOK
    <3>3. b.exclusive
      BY <2>1, <3>2 DEF LifeInv, WorkInv, ActiveWorkCurrent, AloneInv, ModesExclusive
    <3> QED
      BY <2>5, <3>1, <3>2, <3>3 DEF LifeInv, WorkInv, ExclusiveAssignmentUnique
  <2> QED
    BY <1>0, <2>1, <2>4, <2>5, NextDone
<1> QED
  BY <1>1, <1>2, <1>3 DEF AloneInv

\* At first no work has a request of another mode, and nothing is planned.
LEMMA AloneInit == Init => AloneInv
<1> SUFFICES ASSUME Init PROVE AloneInv
  OBVIOUS
<1>1. /\ work = [w \in Work |-> UnknownWork] /\ DOMAIN asg = {}
      /\ call = [c \in Caller |-> Idle]
  BY DEF Init
<1> QED
  BY <1>1 DEF AloneInv, ModesExclusive, PlanAlone, NoActiveOnTerminalWork, ActiveIn,
              UnknownWork, NoRequest, Idle

\* As long as a single caller schedules, and exclusive work only, no assignment is
\* active on work that has ended.  With two callers, or parallel work, the code
\* does leave one (run terminal_work).
THEOREM EndedWorkHasNoActive ==
    ASSUME OneCaller, ExclusiveWork
    PROVE  Spec => []NoActiveOnTerminalWork
<1>1. Init => AloneInv
  BY AloneInit
<1>2. /\ AloneInv /\ LifeInv /\ LifeInv' /\ AccountingAgrees /\ [Next]_vars
      => AloneInv'
  BY AloneNext
<1>3. AloneInv => NoActiveOnTerminalWork
  BY DEF AloneInv
<1> QED
  BY <1>1, <1>2, <1>3, LifeInvariant, AccountingAlwaysAgrees, PTL DEF Spec


-----------------------------------------------------------------------------
(* The audit itself.                                                       *)

\* An active assignment gives the audit nothing to complain of.
LEMMA ActiveSilent ==
    ASSUME LifeInv, FanoutBounded, ActiveIncarnationCurrent, NoActiveOnTerminalWork,
           NEW b \in ActiveIn(asg)
    PROVE  ActiveReport(b) = {}
<1>1. b.work \in Work /\ b.agent \in Agent
  BY LifeTyped, ActiveTyped
<1>2. /\ b.boot \notin fenced
      /\ agents[b.agent].lifecycle \notin {"Retired", "Lost"}
  BY DEF ActiveIncarnationCurrent
<1>3. /\ work[b.work].lifecycle \notin TerminalWork
      /\ b.exclusive => work[b.work].req.mode = "Exclusive"
  BY DEF NoActiveOnTerminalWork, LifeInv, WorkInv, ActiveWorkCurrent
<1>4. Cardinality(OnWork(asg, b.work)) <= work[b.work].req.maxParallel
  BY <1>1 DEF FanoutBounded
<1> QED
  BY <1>2, <1>3, <1>4 DEF ActiveReport, Check

\* Nor does one that dispatch() could hand out.
LEMMA DispatchableSilent ==
    ASSUME sched.closes, ActiveIncarnationCurrent, DispatchableAuthorityCurrent,
           NEW b \in ActiveIn(asg), asg[b].state = "Assigned"
    PROVE  DispatchableReport(b) = {}
<1>1. /\ BoundEpochsCurrent(b) /\ ~sched.shutting
      /\ agents[b.agent].capability.value = b.capGen
      /\ agents[b.agent].boot = b.boot
  BY DEF DispatchableAuthorityCurrent, ActiveIncarnationCurrent
<1> QED
  BY <1>1 DEF DispatchableReport, Check

\* Nor any stored one.
LEMMA AssignmentSilent ==
    ASSUME LifeInv, LedgerInv, FanoutBounded, sched.closes, ActiveIncarnationCurrent,
           DispatchableAuthorityCurrent, NoActiveOnTerminalWork, NEW b \in DOMAIN asg
    PROVE  AssignmentReport(b) = {}
<1>1. BoundSound(b) /\ (asg[b].state \in TerminalStates => ~asg[b].leaseCurrent)
  BY DEF LedgerInv, NoLease
<1>2. asg[b].state \in ActiveStates => ActiveReport(b) = {}
  BY ActiveSilent DEF ActiveIn
<1>3. asg[b].state = "Assigned" => DispatchableReport(b) = {}
  BY DispatchableSilent DEF ActiveIn, ActiveStates
<1>4. b.gen # 0
  BY <1>1 DEF BoundSound
<1> QED
  BY <1>1, <1>2, <1>3, <1>4 DEF AssignmentReport, Check, BoundSound

\* Nor any known work item.
LEMMA WorkSilent ==
    ASSUME LifeInv, LedgerInv, AccountingAgrees, FanoutBounded, NoActiveOnTerminalWork,
           NEW w \in Work, KnownWork(w)
    PROVE  WorkReport(w) = {}
<1> DEFINE active == OnWork(asg, w)
           sole == {b \in active : b.exclusive}
<1>1. work[w].gen # 0 /\ (work[w].lastGen # 0 =>
         \E b \in DOMAIN asg : b.work = w /\ b.gen = work[w].lastGen)
  BY DEF LedgerInv, RecordsSound, LastStored
<1>2. Cardinality(sole) <= 1
  <2>1. \A x, y \in sole : x = y
    BY DEF LifeInv, WorkInv, ExclusiveAssignmentUnique, OnWork
  <2> HIDE DEF sole
  <2>2. sole = {} \/ \E x : sole = {x}
    BY <2>1
  <2>3. sole = {} => Cardinality(sole) = 0
    BY FS_EmptySet
  <2>4. ASSUME NEW x, sole = {x} PROVE Cardinality(sole) = 1
    BY <2>4, FS_Singleton
  <2> QED
    BY <2>2, <2>3, <2>4
<1>3. \A a \in Agent :
         Cardinality(active \cap OnAgent(asg, a)) <= work[w].req.perAgent
  BY DEF FanoutBounded
<1>4. /\ work[w].current = Cardinality(active)
      /\ work[w].lifecycle = "Admitted" => active = {}
      /\ work[w].lifecycle = "Assigned" => active # {}
  BY DEF AccountingAgrees
<1>5. work[w].lifecycle \in TerminalWork => active = {}
  BY DEF NoActiveOnTerminalWork, OnWork
<1> HIDE DEF sole
<1>6. /\ Check(work[w].gen # 0, "work_generation_monotonic") = {}
      /\ Check(Cardinality(sole) <= 1, "exclusive_assignment_uniqueness") = {}
      /\ Check(\A a \in Agent :
                  Cardinality(active \cap OnAgent(asg, a)) <= work[w].req.perAgent,
               "parallel_fanout_bounded") = {}
  BY <1>1, <1>2, <1>3 DEF Check
<1>7. /\ Check(work[w].current = Cardinality(active), "queue_accounting_agrees") = {}
      /\ Check(/\ work[w].lifecycle \in TerminalWork \cup {"Admitted"} => active = {}
               /\ work[w].lifecycle = "Assigned" => active # {},
               "work_lifecycle_agrees") = {}
      /\ Check(work[w].lastGen # 0 =>
                  \E b \in DOMAIN asg : b.work = w /\ b.gen = work[w].lastGen,
               "assignment_generation_monotonic") = {}
  BY <1>1, <1>4, <1>5 DEF Check
<1> QED
  BY <1>6, <1>7 DEF WorkReport, sole

\* Nor any known agent.
LEMMA AgentSilent ==
    ASSUME LedgerInv, AccountingAgrees, CapacityNotExceeded, FencedNeverAccepts,
           NEW a \in Agent, Known(a)
    PROVE  AgentReport(a) = {}
<1>1. agents[a].gen # 0 /\ (agents[a].recovered => ~Evident(agents[a]))
  BY DEF LedgerInv, RecordsSound
<1>2. /\ agents[a].active = Cardinality(OnAgent(asg, a))
      /\ agents[a].active <= agents[a].maxc
      /\ agents[a].boot \in fenced => agents[a].lifecycle \notin AcceptsNewWork
  BY DEF AccountingAgrees, CapacityNotExceeded, FencedNeverAccepts
<1> QED
  BY <1>1, <1>2 DEF AgentReport, Check, Evident

\* What the audit looks at, in one formula.
AuditedInv ==
    /\ LifeInv /\ LedgerInv /\ AccountingAgrees
    /\ FanoutBounded /\ CapacityNotExceeded
    /\ ActiveIncarnationCurrent /\ FencedNeverAccepts
    /\ DispatchableAuthorityCurrent

\* It complains of nothing else than active assignments on work that has ended.
LEMMA AuditedSilent ==
    ASSUME ClosePolicies = {TRUE}, AuditedInv, NoActiveOnTerminalWork
    PROVE  AuditSilent
<1>1. sched.closes
  <2>1. sched.closes \in ClosePolicies
    BY DEF AuditedInv, LedgerInv, EpochSound
  <2> QED
    BY <2>1
<1>2. \A b \in DOMAIN asg : AssignmentReport(b) = {}
  BY <1>1, AssignmentSilent DEF AuditedInv
<1>3. \A w \in {x \in Work : KnownWork(x)} : WorkReport(w) = {}
  BY WorkSilent DEF AuditedInv
<1>4. \A a \in {x \in Agent : Known(x)} : AgentReport(a) = {}
  BY AgentSilent DEF AuditedInv
<1>5. EpochReport = {}
  BY DEF EpochReport, Check, AuditedInv, LedgerInv, EpochSound
<1>6. /\ UNION {AssignmentReport(b) : b \in DOMAIN asg} = {}
      /\ UNION {WorkReport(w) : w \in {x \in Work : KnownWork(x)}} = {}
      /\ UNION {AgentReport(a) : a \in {x \in Agent : Known(x)}} = {}
  BY <1>2, <1>3, <1>4
<1>7. check_invariants = DigestReport
  BY <1>5, <1>6 DEF check_invariants
<1> QED
  BY <1>7 DEF AuditSilent, DigestReport, Check

\* If no boot is named for two agents, agents keep the concurrency they declare and
\* the policy closes offers at shutdown, check_invariants() complains of nothing, in
\* any reachable state, but assignments that are active on work that has ended.
THEOREM AuditComplainsOfNothingElse ==
    ASSUME OwnBoots, OneConcurrency, ClosePolicies = {TRUE}
    PROVE  Spec => [](NoActiveOnTerminalWork => AuditSilent)
<1>1. AuditedInv => (NoActiveOnTerminalWork => AuditSilent)
  BY AuditedSilent
<1>2. Spec => []AuditedInv
  BY LifeInvariant, LedgerInvariant, AccountingAlwaysAgrees, FanoutAlwaysBounded,
     CapacityNeverExceeded, ActiveIncarnationStaysCurrent, FencedStaysOut,
     DispatchableAuthorityStaysCurrent, PTL DEF AuditedInv
<1> QED
  BY <1>1, <1>2, PTL

\* And if a single caller schedules, and exclusive work only, it is silent: what the
\* handlers maintain step by step is what it finds when it recounts everything.
THEOREM AuditStaysSilent ==
    ASSUME OwnBoots, OneConcurrency, ClosePolicies = {TRUE}, OneCaller, ExclusiveWork
    PROVE  Spec => []AuditSilent
  BY AuditComplainsOfNothingElse, EndedWorkHasNoActive, PTL

=============================================================================
