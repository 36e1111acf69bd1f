-------------------------- MODULE AuthorityProofs ---------------------------
(***************************************************************************)
(* Incarnations and authority: who is fenced has none, and what is offered *)
(* or handed over is bound to what is current.                             *)
(***************************************************************************)
EXTENDS SchedulerProofs

-----------------------------------------------------------------------------
(***************************************************************************)
(* Fenced incarnations have no authority.                                  *)
(*                                                                         *)
(* Calls name boots, fences are kept per boot, and active assignments are  *)
(* closed by boot, so all of it rests on OwnBoots: no boot is named for two*)
(* agents.  The code does not check that; boots are random 128-bit numbers.*)
(*                                                                         *)
(* An agent that does not accept work could start to: its lifecycle is     *)
(* derived from its evidence at every refresh.  The invariant therefore    *)
(* says that a fenced incarnation is Spent: it is over, or its capability  *)
(* profile is not current, and refreshing it keeps it so.                  *)
(***************************************************************************)

OwnBoots ==
    \A x, y \in Agent : x # y => BootOf[x] \cap BootOf[y] = {}

Gone == {"Unregistered", "Lost", "Retired"}

Spent(r) ==
    /\ r.lifecycle \notin AcceptsNewWork
    /\ r.lifecycle \in {"Lost", "Retired"} \/ ~r.capability.current

FencedSpent ==
    \A a \in Agent :
        ~Known(a) \/ agents[a].boot \in fenced => Spent(agents[a])

IncarnationInv == TypeOK /\ FencedSpent /\ ActiveIncarnationCurrent

-----------------------------------------------------------------------------
(* What a step does to an agent's incarnation.                             *)

\* Agent a goes on as the incarnation it is; it does not come back to life.
GoesOn(a) ==
    /\ agents'[a].boot = agents[a].boot
    /\ agents'[a].gen = agents[a].gen
    /\ agents[a].lifecycle \notin Gone => agents'[a].lifecycle \notin Gone
    /\ ~Known(a) \/ agents[a].boot \in fenced => Spent(agents'[a])
    /\ Known(a) => agents'[a].lifecycle # "Unregistered"

\* Refreshing does not bring a spent record back to life.
LEMMA RefreshedSpent ==
    ASSUME NEW as, AssignmentMap(as), NEW a, NEW r \in AgentRecord, Spent(r)
    PROVE  Spent(RefreshedAgent(as, r, a))
<1> DEFINE counted == [r EXCEPT !.active = Cardinality(OnAgent(as, a))]
<1>1. /\ counted \in AgentRecord /\ counted.lifecycle = r.lifecycle
      /\ counted.capability = r.capability
  BY Counts DEF AgentRecord
<1> HIDE DEF counted
<1>2. [counted EXCEPT !.lifecycle = recompute_lifecycle(counted)].lifecycle
        = recompute_lifecycle(counted)
  BY <1>1 DEF AgentRecord
<1>3. [counted EXCEPT !.lifecycle = recompute_lifecycle(counted)].capability
        = r.capability
  BY <1>1 DEF AgentRecord
<1>4. \/ recompute_lifecycle(counted) = r.lifecycle
      \/ /\ recompute_lifecycle(counted) \in {"RevalidationRequired", "Registering"}
         /\ ~r.capability.current
  BY <1>1 DEF Spent, recompute_lifecycle
<1> QED
  BY <1>2, <1>3, <1>4 DEF Spent, RefreshedAgent, counted, AcceptsNewWork

\* An agent whose record does not change goes on.
LEMMA SameGoesOn ==
    ASSUME FencedSpent, NEW a \in Agent, agents'[a] = agents[a]
    PROVE  GoesOn(a)
  BY DEF GoesOn, FencedSpent, Known

\* So does one that is refreshed because assignments were closed.
LEMMA AfterGoesOn ==
    ASSUME IncarnationInv, NEW as, AssignmentMap(as), NEW ids, NEW a \in Agent,
           agents'[a] = AgentsAfter(as, ids)[a]
    PROVE  GoesOn(a)
<1>1. agents[a] \in AgentRecord /\ agents \in [Agent -> AgentRecord]
  BY DEF IncarnationInv, TypeOK
<1>2. AgentKept(agents[a], agents'[a])
  BY <1>1, AgentsAfterType
<1>3. agents'[a] = agents[a] \/ agents'[a] = RefreshedAgent(as, agents[a], a)
  BY DEF AgentsAfter
<1>4. ~Known(a) \/ agents[a].boot \in fenced => Spent(agents'[a])
  BY <1>1, <1>3, RefreshedSpent DEF IncarnationInv, FencedSpent
<1> QED
  BY <1>2, <1>4 DEF GoesOn, AgentKept, Known, Gone

\* And one that stores a refreshed record of its incarnation, if that is
\* neither over nor fenced.
LEMMA StoredGoesOn ==
    ASSUME NEW as, AssignmentMap(as), NEW a \in Agent, NEW r \in AgentRecord,
           Known(a), agents[a].boot \notin fenced,
           agents'[a] = RefreshedAgent(as, r, a),
           r.boot = agents[a].boot, r.gen = agents[a].gen,
           r.lifecycle # "Unregistered",
           r.lifecycle \in Gone => agents[a].lifecycle \in Gone
    PROVE  GoesOn(a)
<1>1. AgentKept(r, agents'[a])
  BY RefreshedAgentType
<1> QED
  BY <1>1 DEF AgentKept, GoesOn, Known, Gone

\* A step in which every agent goes on, nothing is fenced and nothing becomes
\* active preserves the invariant.
LEMMA QuietStep ==
    ASSUME IncarnationInv, TypeOK', fenced' = fenced,
           ActiveIn(asg') \subseteq ActiveIn(asg),
           \A a \in Agent : GoesOn(a)
    PROVE  IncarnationInv'
<1>1. FencedSpent'
  BY DEF FencedSpent, GoesOn, Known
<1>2. ASSUME NEW b \in ActiveIn(asg')
      PROVE  /\ agents'[b.agent].boot = b.boot
             /\ agents'[b.agent].gen = b.agentGen
             /\ b.boot \notin fenced'
             /\ agents'[b.agent].lifecycle \notin Gone
  <2>1. b \in ActiveIn(asg) /\ b.agent \in Agent
    BY <1>2, ActiveTyped DEF IncarnationInv
  <2>2. GoesOn(b.agent)
    BY <2>1
  <2> QED
    BY <2>1, <2>2 DEF IncarnationInv, ActiveIncarnationCurrent, GoesOn, Gone
<1> QED
  BY <1>1, <1>2 DEF IncarnationInv, ActiveIncarnationCurrent, Gone

\* A step that ends the incarnation of agent a, with all its assignments, and
\* fences none but that, preserves the invariant: here OwnBoots is needed.
LEMMA EndStep ==
    ASSUME OwnBoots, IncarnationInv, TypeOK', NEW a \in Agent,
           fenced' = fenced \/ (Known(a) /\ fenced' = fenced \cup {agents[a].boot}),
           \A b \in ActiveIn(asg') : b \in ActiveIn(asg) /\ b.agent # a,
           \A x \in Agent \ {a} : GoesOn(x),
           Spent(agents'[a])
    PROVE  IncarnationInv'
<1>1. ASSUME NEW x \in Agent \ {a}, Known(x), agents[x].boot \in fenced'
      PROVE  agents[x].boot \in fenced
  BY <1>1 DEF OwnBoots, IncarnationInv, TypeOK
<1>2. ASSUME NEW x \in Agent, ~Known(x)' \/ agents'[x].boot \in fenced'
      PROVE  Spent(agents'[x])
  BY <1>1, <1>2 DEF GoesOn, Known
<1>3. FencedSpent'
  BY <1>2 DEF FencedSpent
<1>4. ASSUME NEW b \in ActiveIn(asg')
      PROVE  /\ agents'[b.agent].boot = b.boot
             /\ agents'[b.agent].gen = b.agentGen
             /\ b.boot \notin fenced'
             /\ agents'[b.agent].lifecycle \notin Gone
  <2>1. b \in ActiveIn(asg) /\ b.agent \in Agent \ {a}
    BY <1>4, ActiveTyped DEF IncarnationInv
  <2>2. /\ agents[b.agent].boot = b.boot /\ agents[b.agent].gen = b.agentGen
        /\ b.boot \notin fenced /\ agents[b.agent].lifecycle \notin Gone
    BY <2>1 DEF IncarnationInv, ActiveIncarnationCurrent, Gone
  <2>3. GoesOn(b.agent) /\ Known(b.agent)
    BY <2>1, <2>2 DEF Known, Gone
  <2> QED
    BY <1>1, <2>1, <2>2, <2>3 DEF GoesOn
<1> QED
  BY <1>3, <1>4 DEF IncarnationInv, ActiveIncarnationCurrent, Gone

-----------------------------------------------------------------------------
(* Every step preserves the invariant.                                     *)

\* Closing the assignments of a's boot leaves agent a none.
LEMMA BootClosed ==
    ASSUME IncarnationInv, NEW a \in Agent, NEW st \in TerminalStates
    PROVE  \A b \in ActiveIn(Closed(ActiveOfBoot(agents[a].boot), st)) :
              b \in ActiveIn(asg) /\ b.agent # a
<1> SUFFICES ASSUME NEW b \in ActiveIn(Closed(ActiveOfBoot(agents[a].boot), st))
             PROVE  b \in ActiveIn(asg) /\ b.agent # a
  OBVIOUS
<1>1. b \in ActiveIn(asg) \ ActiveOfBoot(agents[a].boot)
  BY ClosedActive
<1> QED
  BY <1>1 DEF ActiveOfBoot, IncarnationInv, ActiveIncarnationCurrent

\* Without evidence a new record is spent until it publishes.
LEMMA FreshSpent ==
    ASSUME now \in Nat, NEW g \in Nat, NEW boot \in Boot, NEW m \in Nat
    PROVE  Spent(FreshAgent(g, boot, m))
  BY DEF Spent, FreshAgent, NoEvidence, AcceptsNewWork

\* The record of an incarnation that is over is spent.
LEMMA EndedSpent ==
    ASSUME NEW r \in AgentRecord, NEW l \in {"Lost", "Retired"}
    PROVE  Spent([invalidate_dynamic_evidence(r) EXCEPT !.lifecycle = l])
<1>1. [invalidate_dynamic_evidence(r) EXCEPT !.lifecycle = l].lifecycle = l
  BY EndedRecordType DEF AgentLifecycles
<1> QED
  BY <1>1 DEF Spent, AcceptsNewWork

\* Every agent handler preserves the invariant.
LEMMA AgentNextInc ==
    ASSUME OwnBoots, IncarnationInv, TypeOK', AgentNext
    PROVE  IncarnationInv'
<1> PICK a \in Agent :
        \/ \E g \in 1..MaxAgentGen, boot \in BootOf[a], m \in Concurrency :
              RegisterNew(a, g, boot, m) \/ Reincarnate(a, g, boot, m)
        \/ \E m \in Concurrency : Reregister(a, m)
        \/ \E g \in 1..MaxCapGen, at \in 1..now : publish_capabilities(a, g, at)
        \/ \E v \in HealthReports, at \in 1..now : publish_health(a, v, at)
        \/ \E v \in AvailReports, at \in 1..now : publish_availability(a, v, at)
        \/ heartbeat(a)
        \/ \E force \in BOOLEAN : drain_agent(a, force) \/ deregister_agent(a, force)
        \/ LoseCurrent(a)
        \/ \E boot \in BootOf[a] : LoseStale(a, boot)
  BY DEF AgentNext
<1>0. /\ agents \in [Agent -> AgentRecord] /\ agents[a] \in AgentRecord
      /\ now \in Nat /\ AssignmentMap(asg) /\ TypeOK /\ FencedSpent
      /\ {"Lost", "Invalidated"} \subseteq TerminalStates
      /\ BootOf[a] \subseteq Boot
      /\ Known(a) => agents[a].boot \in BootOf[a]
  BY Inputs DEF IncarnationInv, TypeOK, TerminalStates
\* Agent a stores a refreshed record of the incarnation it is.
<1>1. ASSUME NEW r \in AgentRecord, Known(a), ~stale_boot(a),
             r.boot = agents[a].boot, r.gen = agents[a].gen,
             r.lifecycle # "Unregistered",
             r.lifecycle \in Gone => agents[a].lifecycle \in Gone,
             AssignmentMap(asg'), ActiveIn(asg') \subseteq ActiveIn(asg),
             agents' = [agents EXCEPT ![a] = RefreshedAgent(asg', r, a)],
             fenced' = fenced
      PROVE  IncarnationInv'
  <2>1. \A x \in Agent \ {a} : GoesOn(x)
    BY <1>0, <1>1, SameGoesOn
  <2>2. agents'[a] = RefreshedAgent(asg', r, a)
    BY <1>0, <1>1
  <2>3. GoesOn(a)
    BY <1>1, <2>2, StoredGoesOn DEF stale_boot
  <2> QED
    BY <1>1, <2>1, <2>3, QuietStep
\* The incarnation of a ends with all its assignments.
<1>2. ASSUME NEW ids, NEW st \in TerminalStates, NEW r \in AgentRecord, Spent(r),
             asg' = Closed(ids, st),
             \A b \in ActiveIn(asg') : b \in ActiveIn(asg) /\ b.agent # a,
             Known(a), fenced' = fenced \cup {agents[a].boot},
             agents' = [AgentsAfter(Closed(ids, st), ids) EXCEPT
                          ![a] = RefreshedAgent(Closed(ids, st), r, a)]
      PROVE  IncarnationInv'
  <2>1. AssignmentMap(Closed(ids, st))
    BY <1>0, ClosedType
  <2>2. AgentsAfter(Closed(ids, st), ids) \in [Agent -> AgentRecord]
    BY <1>0, <2>1, AgentsAfterType
  <2>3. ASSUME NEW x \in Agent \ {a} PROVE GoesOn(x)
    BY <1>2, <2>1, <2>2, AfterGoesOn
  <2>4. Spent(agents'[a])
    BY <1>2, <2>1, <2>2, RefreshedSpent
  <2> QED
    BY <1>2, <2>3, <2>4, EndStep
<1>3. ASSUME NEW g \in 1..MaxAgentGen, NEW boot \in BootOf[a],
             NEW m \in Concurrency, RegisterNew(a, g, boot, m)
      PROVE  IncarnationInv'
  <2>1. g \in Nat /\ boot \in Boot /\ m \in Nat
    BY <1>0, Inputs, Bounds
  <2>2. Spent(agents'[a]) /\ \A x \in Agent \ {a} : agents'[x] = agents[x]
    BY <1>0, <1>3, <2>1, FreshSpent DEF RegisterNew
  <2>3. \A b \in ActiveIn(asg) : b.agent # a
    BY <1>3 DEF RegisterNew, IncarnationInv, ActiveIncarnationCurrent, Known
  <2> QED
    BY <1>0, <1>3, <2>2, <2>3, SameGoesOn, EndStep DEF RegisterNew
<1>4. ASSUME NEW g \in 1..MaxAgentGen, NEW boot \in BootOf[a],
             NEW m \in Concurrency, Reincarnate(a, g, boot, m)
      PROVE  IncarnationInv'
  <2> DEFINE gone == ActiveOfBoot(agents[a].boot)
  <2>1. g \in Nat /\ boot \in Boot /\ m \in Nat
    BY <1>0, Inputs, Bounds
  <2>2. FreshAgent(g, boot, m) \in AgentRecord /\ Spent(FreshAgent(g, boot, m))
    BY <1>0, <2>1, FreshAgentType, FreshSpent
  <2>3. /\ asg' = Closed(gone, "Lost") /\ Known(a)
        /\ fenced' = fenced \cup {agents[a].boot}
        /\ agents' = [AgentsAfter(Closed(gone, "Lost"), gone) EXCEPT
                        ![a] = RefreshedAgent(Closed(gone, "Lost"),
                                              FreshAgent(g, boot, m), a)]
    BY <1>4 DEF Reincarnate
  <2>4. \A b \in ActiveIn(asg') : b \in ActiveIn(asg) /\ b.agent # a
    BY <1>0, <2>3, BootClosed
  <2> HIDE DEF gone
  <2> QED
    BY <1>0, <1>2, <2>2, <2>3, <2>4
<1>5. ASSUME NEW m \in Concurrency, Reregister(a, m)
      PROVE  IncarnationInv'
  <2> DEFINE r == [agents[a] EXCEPT !.maxc = m, !.lease = now + RegistrationTtl,
                                    !.lifecycle = IF @ = "Lost"
                                                  THEN "RevalidationRequired" ELSE @]
  <2>1. Known(a) /\ ~stale_boot(a) /\ asg' = asg /\ fenced' = fenced
    BY <1>5 DEF Reregister
  <2>2. m \in Nat /\ now + RegistrationTtl \in Nat
    BY <1>0, Inputs, Bounds
  <2>3. /\ r \in AgentRecord /\ r.boot = agents[a].boot /\ r.gen = agents[a].gen
        /\ r.lifecycle # "Unregistered"
        /\ r.lifecycle \in Gone => agents[a].lifecycle \in Gone
    BY <1>0, <2>1, <2>2 DEF AgentRecord, AgentLifecycles, Known, Gone
  <2>4. agents' = [agents EXCEPT ![a] = RefreshedAgent(asg', r, a)]
    BY <1>5, <2>1 DEF Reregister
  <2> HIDE DEF r
  <2> QED
    BY <1>0, <1>1, <2>1, <2>3, <2>4
<1>6. ASSUME NEW g \in 1..MaxCapGen, NEW at \in 1..now, publish_capabilities(a, g, at)
      PROVE  IncarnationInv'
  <2> DEFINE r == [agents[a] EXCEPT !.capability = [value |-> g, current |-> TRUE,
                                                    at |-> at],
                                    !.recovered = FALSE]
  <2>1. Known(a) /\ ~stale_boot(a) /\ fenced' = fenced
    BY <1>6 DEF publish_capabilities
  <2>2. g \in Nat /\ at \in Nat
    BY <1>0, Bounds
  <2>3. [value |-> g, current |-> TRUE, at |-> at] \in Evidence(Nat)
    BY <2>2 DEF Evidence
  <2>4. /\ r \in AgentRecord /\ r.boot = agents[a].boot /\ r.gen = agents[a].gen
        /\ r.lifecycle # "Unregistered"
        /\ r.lifecycle \in Gone => agents[a].lifecycle \in Gone
    BY <1>0, <2>1, <2>3 DEF AgentRecord, Known, Gone
  <2>5. AssignmentMap(asg')
    BY DEF TypeOK, AssignmentMap
  <2>6. agents' = [agents EXCEPT ![a] = RefreshedAgent(asg', r, a)]
    BY <1>6 DEF publish_capabilities
  <2>7. ActiveIn(asg') \subseteq ActiveIn(asg)
    BY <1>0, AgentNextKept, KeptShrinks
  <2> HIDE DEF r
  <2> QED
    BY <1>1, <2>1, <2>4, <2>5, <2>6, <2>7
<1>7. ASSUME NEW v \in HealthReports, NEW at \in 1..now, publish_health(a, v, at)
      PROVE  IncarnationInv'
  <2> DEFINE r == [agents[a] EXCEPT !.health = [value |-> v, current |-> TRUE, at |-> at],
                                    !.recovered = FALSE]
  <2>1. Known(a) /\ ~stale_boot(a) /\ asg' = asg /\ fenced' = fenced
    BY <1>7 DEF publish_health
  <2>2. [value |-> v, current |-> TRUE, at |-> at] \in Evidence(Healths)
    BY <1>0, Inputs DEF Evidence
  <2>3. /\ r \in AgentRecord /\ r.boot = agents[a].boot /\ r.gen = agents[a].gen
        /\ r.lifecycle # "Unregistered"
        /\ r.lifecycle \in Gone => agents[a].lifecycle \in Gone
    BY <1>0, <2>1, <2>2 DEF AgentRecord, Known, Gone
  <2>4. agents' = [agents EXCEPT ![a] = RefreshedAgent(asg', r, a)]
    BY <1>7, <2>1 DEF publish_health
  <2> HIDE DEF r
  <2> QED
    BY <1>0, <1>1, <2>1, <2>3, <2>4
<1>8. ASSUME NEW v \in AvailReports, NEW at \in 1..now, publish_availability(a, v, at)
      PROVE  IncarnationInv'
  <2> DEFINE r == [agents[a] EXCEPT !.avail = [value |-> v, current |-> TRUE, at |-> at],
                                    !.recovered = FALSE]
  <2>1. Known(a) /\ ~stale_boot(a) /\ asg' = asg /\ fenced' = fenced
    BY <1>8 DEF publish_availability
  <2>2. [value |-> v, current |-> TRUE, at |-> at] \in Evidence(Avails)
    BY <1>0, Inputs DEF Evidence
  <2>3. /\ r \in AgentRecord /\ r.boot = agents[a].boot /\ r.gen = agents[a].gen
        /\ r.lifecycle # "Unregistered"
        /\ r.lifecycle \in Gone => agents[a].lifecycle \in Gone
    BY <1>0, <2>1, <2>2 DEF AgentRecord, Known, Gone
  <2>4. agents' = [agents EXCEPT ![a] = RefreshedAgent(asg', r, a)]
    BY <1>8, <2>1 DEF publish_availability
  <2> HIDE DEF r
  <2> QED
    BY <1>0, <1>1, <2>1, <2>3, <2>4
<1>9. ASSUME heartbeat(a)
      PROVE  IncarnationInv'
  <2>1. Known(a) /\ ~stale_boot(a) /\ asg' = asg /\ fenced' = fenced
    BY <1>9 DEF heartbeat
  <2>2. /\ agents'[a].boot = agents[a].boot /\ agents'[a].gen = agents[a].gen
        /\ agents'[a].lifecycle = agents[a].lifecycle
        /\ \A x \in Agent \ {a} : agents'[x] = agents[x]
    BY <1>0, <1>9 DEF heartbeat, AgentRecord
  <2>3. GoesOn(a)
    BY <2>1, <2>2 DEF GoesOn, Known, stale_boot
  <2> QED
    BY <1>0, <2>1, <2>2, <2>3, SameGoesOn, QuietStep
<1>10. ASSUME NEW force \in BOOLEAN, drain_agent(a, force)
       PROVE  IncarnationInv'
  <2> DEFINE r == [agents[a] EXCEPT !.lifecycle = "Draining"]
             gone == IF force THEN ActiveOfBoot(agents[a].boot) ELSE {}
             as == Closed(gone, "Invalidated")
  <2>1. Known(a) /\ ~stale_boot(a) /\ fenced' = fenced
    BY <1>10 DEF drain_agent
  <2>2. /\ r \in AgentRecord /\ r.boot = agents[a].boot /\ r.gen = agents[a].gen
        /\ r.lifecycle # "Unregistered"
        /\ r.lifecycle \in Gone => agents[a].lifecycle \in Gone
    BY <1>0 DEF AgentRecord, AgentLifecycles, Gone
  <2>3. /\ asg' = as
        /\ agents' = [AgentsAfter(as, gone) EXCEPT ![a] = RefreshedAgent(as, r, a)]
    BY <1>10 DEF drain_agent
  <2>4. AssignmentMap(as)
    BY <1>0, ClosedType
  <2>5. ActiveIn(asg') \subseteq ActiveIn(asg)
    BY <1>0, AgentNextKept, KeptShrinks
  <2> HIDE DEF r, gone, as
  <2>6. AgentsAfter(as, gone) \in [Agent -> AgentRecord]
    BY <1>0, <2>4, AgentsAfterType
  <2>7. \A x \in Agent \ {a} : GoesOn(x)
    BY <2>3, <2>4, <2>6, AfterGoesOn
  <2>8. agents'[a] = RefreshedAgent(as, r, a)
    BY <2>3, <2>6
  <2>9. GoesOn(a)
    BY <2>1, <2>2, <2>4, <2>8, StoredGoesOn DEF stale_boot
  <2> QED
    BY <2>1, <2>5, <2>7, <2>9, QuietStep
<1>11. ASSUME NEW force \in BOOLEAN, deregister_agent(a, force)
       PROVE  IncarnationInv'
  <2> DEFINE r == [invalidate_dynamic_evidence(agents[a]) EXCEPT
                     !.lifecycle = "Retired"]
             gone == IF OnAgent(asg, a) = {} THEN {}
                     ELSE ActiveOfBoot(agents[a].boot)
  <2>1. r \in AgentRecord /\ Spent(r)
    BY <1>0, EndedRecordType, EndedSpent DEF AgentLifecycles
  <2>2. /\ asg' = Closed(gone, "Invalidated")
        /\ agents' = [AgentsAfter(Closed(gone, "Invalidated"), gone) EXCEPT
                        ![a] = RefreshedAgent(Closed(gone, "Invalidated"), r, a)]
        /\ Known(a) /\ fenced' = fenced \cup {agents[a].boot}
    BY <1>11 DEF deregister_agent, EndedAgent
  <2>3. \A b \in ActiveIn(asg') : b \in ActiveIn(asg) /\ b.agent # a
    <3>1. CASE OnAgent(asg, a) = {}
      <4>1. ActiveIn(asg') \subseteq ActiveIn(asg)
        BY <1>0, AgentNextKept, KeptShrinks
      <4> QED
        BY <3>1, <4>1 DEF OnAgent
    <3>2. CASE OnAgent(asg, a) # {}
      BY <1>0, <2>2, <3>2, BootClosed
    <3> QED
      BY <3>1, <3>2
  <2> HIDE DEF r, gone
  <2> QED
    BY <1>0, <1>2, <2>1, <2>2, <2>3
<1>12. ASSUME LoseCurrent(a)
       PROVE  IncarnationInv'
  <2> DEFINE r == [invalidate_dynamic_evidence(agents[a]) EXCEPT !.lifecycle = "Lost"]
             gone == ActiveOfBoot(agents[a].boot)
  <2>1. r \in AgentRecord /\ Spent(r)
    BY <1>0, EndedRecordType, EndedSpent DEF AgentLifecycles
  <2>2. /\ asg' = Closed(gone, "Lost")
        /\ agents' = [AgentsAfter(Closed(gone, "Lost"), gone) EXCEPT
                        ![a] = RefreshedAgent(Closed(gone, "Lost"), r, a)]
        /\ Known(a) /\ fenced' = fenced \cup {agents[a].boot}
    BY <1>12 DEF LoseCurrent, EndedAgent
  <2>3. \A b \in ActiveIn(asg') : b \in ActiveIn(asg) /\ b.agent # a
    BY <1>0, <2>2, BootClosed
  <2> HIDE DEF r, gone
  <2> QED
    BY <1>0, <1>2, <2>1, <2>2, <2>3
<1>13. ASSUME NEW boot \in BootOf[a], LoseStale(a, boot)
       PROVE  IncarnationInv'
  <2>1. /\ fenced' = fenced \cup {boot} /\ agents' = agents /\ asg' = asg
        /\ Known(a) => agents[a].boot # boot
    BY <1>13 DEF LoseStale
  <2>2. ASSUME NEW x \in Agent, Known(x), agents[x].boot = boot
        PROVE  FALSE
    BY <1>0, <2>1, <2>2 DEF OwnBoots, TypeOK
  <2>3. FencedSpent'
    BY <1>0, <2>1, <2>2 DEF FencedSpent, Known
  <2>4. ActiveIncarnationCurrent'
    <3> SUFFICES ASSUME NEW b \in ActiveIn(asg)
                 PROVE  /\ agents[b.agent].boot = b.boot
                        /\ agents[b.agent].gen = b.agentGen
                        /\ b.boot \notin fenced'
                        /\ agents[b.agent].lifecycle \notin Gone
      BY <2>1 DEF ActiveIncarnationCurrent, Gone
    <3>1. /\ agents[b.agent].boot = b.boot
          /\ agents[b.agent].gen = b.agentGen
          /\ b.boot \notin fenced
          /\ agents[b.agent].lifecycle \notin Gone
      BY DEF IncarnationInv, ActiveIncarnationCurrent, Gone
    <3>2. b.agent \in Agent /\ Known(b.agent)
      BY <1>0, <3>1, ActiveTyped DEF Known, Gone
    <3> QED
      BY <2>1, <2>2, <3>1, <3>2
  <2> QED
    BY <2>3, <2>4 DEF IncarnationInv
<1> QED
  BY <1>3, <1>4, <1>5, <1>6, <1>7, <1>8, <1>9, <1>10, <1>11, <1>12, <1>13

\* So does every step that changes no agent but by refreshing it.
LEMMA RefreshStep ==
    ASSUME IncarnationInv, TypeOK', fenced' = fenced,
           ActiveIn(asg') \subseteq ActiveIn(asg),
           agents' = agents \/ \E ids : agents' = AgentsAfter(asg', ids)
    PROVE  IncarnationInv'
<1>1. AssignmentMap(asg')
  BY DEF TypeOK, AssignmentMap
<1>2. \A a \in Agent : GoesOn(a)
  BY <1>1, SameGoesOn, AfterGoesOn DEF IncarnationInv
<1> QED
  BY <1>2, QuietStep

\* A commit stores an assignment of an incarnation that accepts work.
LEMMA CommitInc ==
    ASSUME IncarnationInv, TypeOK', NEW c \in Caller, commit_locked(c)
    PROVE  IncarnationInv'
<1> DEFINE b == call[c].b
           as == Emplaced(b, call[c].expires)
<1>1. /\ b \in Binding /\ call[c].expires \in Nat /\ AssignmentMap(asg)
      /\ CommitAllowed(b) /\ asg' = as /\ fenced' = fenced
      /\ agents' = [agents EXCEPT ![b.agent] = RefreshedAgent(as, @, b.agent)]
  BY CarriedType DEF commit_locked, IncarnationInv, TypeOK
<1>2. b.agent \in Agent
  BY <1>1 DEF Binding
<1>3. /\ AssignmentMap(as)
      /\ DOMAIN as = DOMAIN asg \cup {b}
      /\ \A x \in DOMAIN asg : as[x] = asg[x]
  BY <1>1, EmplacedType
<1>4. /\ agents[b.agent].boot = b.boot /\ agents[b.agent].gen = b.agentGen
      /\ b.boot \notin fenced
      /\ agents[b.agent].lifecycle \notin Gone
  BY <1>1 DEF CommitAllowed, BoundIncarnationCurrent, BoundAgentReady,
              AcceptsNewWork, Gone
<1> HIDE DEF b, as
<1>5. ASSUME NEW a \in Agent PROVE GoesOn(a)
  <2>1. CASE a # b.agent
    BY <1>1, <2>1, SameGoesOn DEF IncarnationInv, TypeOK
  <2>2. CASE a = b.agent
    <3>1. agents[a] \in AgentRecord /\ agents'[a] = RefreshedAgent(as, agents[a], a)
      BY <1>1, <2>2 DEF IncarnationInv, TypeOK
    <3> QED
      BY <1>3, <1>4, <2>2, <3>1, StoredGoesOn DEF Known, Gone
  <2> QED
    BY <2>1, <2>2
<1>6. FencedSpent'
  <2>1. fenced' = fenced
    BY <1>1
  <2> QED
    BY <1>5, <2>1 DEF FencedSpent, GoesOn, Known
<1>7. ASSUME NEW x \in ActiveIn(as)
      PROVE  /\ agents'[x.agent].boot = x.boot
             /\ agents'[x.agent].gen = x.agentGen
             /\ x.boot \notin fenced'
             /\ agents'[x.agent].lifecycle \notin Gone
  <2>1. /\ agents[x.agent].boot = x.boot /\ agents[x.agent].gen = x.agentGen
        /\ x.boot \notin fenced
        /\ agents[x.agent].lifecycle \notin Gone
        /\ x.agent \in Agent
    <3>1. CASE x = b
      BY <1>2, <1>4, <3>1
    <3>2. CASE x \in ActiveIn(asg)
      BY <3>2, ActiveTyped DEF IncarnationInv, ActiveIncarnationCurrent, Gone
    <3> QED
      BY <1>3, <3>1, <3>2 DEF ActiveIn
  <2>2. GoesOn(x.agent)
    BY <1>5, <2>1
  <2> QED
    BY <1>1, <2>1, <2>2 DEF GoesOn
<1> QED
  BY <1>1, <1>6, <1>7 DEF IncarnationInv, ActiveIncarnationCurrent, Gone

\* Every step preserves the invariant.
LEMMA IncNext ==
    ASSUME OwnBoots, IncarnationInv, [Next]_vars
    PROVE  IncarnationInv'
<1>0. TypeOK /\ TypeOK'
  BY NextType DEF IncarnationInv
<1>1. CASE AgentNext
  BY <1>0, <1>1, AgentNextInc
<1>2. CASE \E c \in Caller : commit_locked(c)
  BY <1>0, <1>2, CommitInc
<1>3. ASSUME ~AgentNext, ~\E c \in Caller : commit_locked(c)
      PROVE  IncarnationInv'
  <2>1. ActiveIn(asg') \subseteq ActiveIn(asg)
    BY <1>0, <1>3, NextKept, KeptShrinks
  <2>2. /\ fenced' = fenced
        /\ agents' = agents \/ \E ids : agents' = AgentsAfter(asg', ids)
    <3>1. CASE start \/ Tick \/ UNCHANGED vars
      BY <3>1 DEF start, Tick, vars
    <3>2. CASE shutdown \/ \E g, closes : set_policy(g, closes)
      BY <3>2 DEF shutdown, set_policy, CloseAssignments
    <3>3. CASE WorkNext
      BY <3>3 DEF WorkNext, submit_work, supersede_work, Readmit, cancel_work,
                  expire_deadlines
    <3>4. CASE \E b \in DOMAIN asg : Report(b)
      BY <3>4 DEF Report, acknowledge, mark_executing, Return, Finish,
                  CloseAssignments
    <3>5. CASE revalidate_assignments \/ expire_leases
               \/ \E a \in Agent : revalidate_agent_assignments(a)
      BY <3>5 DEF revalidate_assignments, revalidate_agent_assignments,
                  Revalidate, expire_leases, CloseAssignments
    <3>6. CASE \E c \in Caller : \/ \E w \in Work : plan_locked(c, w)
                                 \/ CommitRejected(c)
                                 \/ \E b \in DOMAIN asg : dispatch(c, b)
                                 \/ Handoff(c)
                                 \/ HandoffRejected(c)
      BY <3>6 DEF plan_locked, CommitRejected, dispatch, Handoff, HandoffRejected
    <3> QED
      BY <1>3, <3>1, <3>2, <3>3, <3>4, <3>5, <3>6 DEF Next, AssignmentNext
  <2> QED
    BY <1>0, <2>1, <2>2, RefreshStep
<1> QED
  BY <1>1, <1>2, <1>3

\* The invariant holds initially: nothing is fenced, nobody is registered.
LEMMA IncInit == Init => IncarnationInv
<1> SUFFICES ASSUME Init PROVE IncarnationInv
  OBVIOUS
<1>1. FencedSpent
  BY DEF Init, FencedSpent, Spent, UnregisteredAgent, NoEvidence, AcceptsNewWork
<1>2. ActiveIncarnationCurrent
  BY DEF Init, ActiveIncarnationCurrent, ActiveIn
<1> QED
  BY <1>1, <1>2, InitType DEF IncarnationInv

\* If no boot is named for two agents, an active assignment always belongs to
\* the incarnation its agent runs, and that is neither fenced, lost nor retired.
THEOREM ActiveIncarnationStaysCurrent ==
    ASSUME OwnBoots
    PROVE  Spec => []ActiveIncarnationCurrent
<1>1. IncarnationInv /\ [Next]_vars => IncarnationInv'
  BY IncNext
<1>2. IncarnationInv => ActiveIncarnationCurrent
  BY DEF IncarnationInv
<1> QED
  BY <1>1, <1>2, IncInit, PTL DEF Spec

\* Under the same assumption no fenced incarnation ever accepts work again, not
\* even after late publications, heartbeats or registrations.
THEOREM FencedStaysOut ==
    ASSUME OwnBoots
    PROVE  Spec => []FencedNeverAccepts
<1>1. IncarnationInv /\ [Next]_vars => IncarnationInv'
  BY IncNext
<1>2. IncarnationInv => FencedNeverAccepts
  BY DEF IncarnationInv, FencedSpent, Spent, FencedNeverAccepts
<1> QED
  BY <1>1, <1>2, IncInit, PTL DEF Spec

\* And a boot is only ever fenced by a call about the agent it is named for: no
\* other agent that accepts work loses its authority.
THEOREM FencingIsForTheOwner ==
    ASSUME OwnBoots
    PROVE  Spec => FencedForOwnerOnly
<1> DEFINE Owned ==
             /\ fenced \subseteq fenced'
             /\ \A a \in Agent :
                   /\ agents[a].lifecycle \in AcceptsNewWork
                   /\ agents[a].boot \in fenced' \ fenced
                   => agents'[a].lifecycle \in {"Lost", "Retired", "Registering"}
<1>1. ASSUME TypeOK, [Next]_vars PROVE Owned
  <2>1. CASE fenced' = fenced
    BY <2>1
  <2>2. CASE fenced' # fenced
    <3>1. PICK a \in Agent :
            \/ \E g \in 1..MaxAgentGen, boot \in BootOf[a], m \in Concurrency :
                  Reincarnate(a, g, boot, m)
            \/ \E force \in BOOLEAN : deregister_agent(a, force)
            \/ LoseCurrent(a)
            \/ \E boot \in BootOf[a] : LoseStale(a, boot)
      <4>1. AgentNext
        BY <1>1, <2>2 DEF Next, vars, start, Tick, shutdown, set_policy, WorkNext,
             submit_work, supersede_work, Readmit, cancel_work, expire_deadlines,
             AssignmentNext, Report, acknowledge, mark_executing, Return, Finish,
             revalidate_assignments, revalidate_agent_assignments, Revalidate,
             expire_leases, plan_locked, commit_locked, CommitRejected, dispatch,
             Handoff, HandoffRejected
      <4> QED
        BY <2>2, <4>1 DEF AgentNext, RegisterNew, Reregister, publish_capabilities,
             publish_health, publish_availability, heartbeat, drain_agent
    <3>2. /\ agents \in [Agent -> AgentRecord] /\ AssignmentMap(asg) /\ now \in Nat
          /\ \A x \in Agent : Known(x) => agents[x].boot \in BootOf[x]
          /\ {"Lost", "Invalidated"} \subseteq TerminalStates
      BY <1>1 DEF TypeOK, TerminalStates
    \* The owner ends up with a record that is refreshed from one of these.
    <3>3. ASSUME NEW ids, NEW st \in TerminalStates, NEW r \in AgentRecord,
                 \/ r.lifecycle \in {"Lost", "Retired"}
                 \/ r.lifecycle = "Registering" /\ ~r.capability.current /\ ~r.recovered,
                 Known(a), fenced' = fenced \cup {agents[a].boot},
                 agents' = [AgentsAfter(Closed(ids, st), ids) EXCEPT
                              ![a] = RefreshedAgent(Closed(ids, st), r, a)]
          PROVE  Owned
      <4>1. AssignmentMap(Closed(ids, st))
        BY <3>2, ClosedType
      <4>2. AgentsAfter(Closed(ids, st), ids) \in [Agent -> AgentRecord]
        BY <3>2, <4>1, AgentsAfterType
      <4>3. agents'[a] = RefreshedAgent(Closed(ids, st), r, a)
        BY <3>3, <4>2
      <4> DEFINE counted == [r EXCEPT !.active =
                               Cardinality(OnAgent(Closed(ids, st), a))]
      <4>4. /\ counted \in AgentRecord
            /\ counted.lifecycle = r.lifecycle
            /\ counted.capability = r.capability
            /\ counted.recovered = r.recovered
        BY <4>1, Counts DEF AgentRecord
      <4> HIDE DEF counted
      <4>5. recompute_lifecycle(counted) \in {"Lost", "Retired", "Registering"}
        BY <3>3, <4>4 DEF recompute_lifecycle
      <4>6. agents'[a].lifecycle = recompute_lifecycle(counted)
        BY <4>3, <4>4 DEF RefreshedAgent, counted, AgentRecord
      <4>7. ASSUME NEW x \in Agent, x # a, Known(x), agents[x].boot = agents[a].boot
            PROVE  FALSE
        BY <3>2, <3>3, <4>7 DEF OwnBoots
      <4> QED
        BY <3>3, <4>5, <4>6, <4>7 DEF AcceptsNewWork, Known
    <3>4. ASSUME NEW g \in 1..MaxAgentGen, NEW boot \in BootOf[a],
                 NEW m \in Concurrency, Reincarnate(a, g, boot, m)
          PROVE  Owned
      <4>1. g \in Nat /\ boot \in Boot /\ m \in Nat
        BY Inputs, Bounds
      <4>2. /\ FreshAgent(g, boot, m) \in AgentRecord
            /\ FreshAgent(g, boot, m).lifecycle = "Registering"
            /\ ~FreshAgent(g, boot, m).capability.current
            /\ ~FreshAgent(g, boot, m).recovered
        BY <3>2, <4>1, FreshAgentType DEF FreshAgent, NoEvidence
      <4> QED
        BY <3>2, <3>3, <3>4, <4>2 DEF Reincarnate
    <3>5. ASSUME \/ \E force \in BOOLEAN : deregister_agent(a, force)
                 \/ LoseCurrent(a)
          PROVE  Owned
      <4> DEFINE Record(l) == [invalidate_dynamic_evidence(agents[a]) EXCEPT !.lifecycle = l]
      <4>1. ASSUME NEW l \in {"Lost", "Retired"}
            PROVE  Record(l) \in AgentRecord /\ Record(l).lifecycle = l
        <5>1. agents[a] \in AgentRecord /\ l \in AgentLifecycles
          BY <3>2 DEF AgentLifecycles
        <5> QED
          BY <5>1, EndedRecordType
      <4>2. PICK ids : \E l \in {"Lost", "Retired"}, st \in {"Lost", "Invalidated"} :
               agents' = [AgentsAfter(Closed(ids, st), ids) EXCEPT
                            ![a] = RefreshedAgent(Closed(ids, st), Record(l), a)]
        BY <3>5 DEF deregister_agent, LoseCurrent, EndedAgent
      <4>3. PICK l \in {"Lost", "Retired"}, st \in {"Lost", "Invalidated"} :
               agents' = [AgentsAfter(Closed(ids, st), ids) EXCEPT
                            ![a] = RefreshedAgent(Closed(ids, st), Record(l), a)]
        BY <4>2
      <4>4. Known(a) /\ fenced' = fenced \cup {agents[a].boot}
        BY <3>5 DEF deregister_agent, LoseCurrent
      <4> HIDE DEF Record
      <4> QED
        BY <3>2, <3>3, <4>1, <4>3, <4>4
    <3>6. ASSUME NEW boot \in BootOf[a], LoseStale(a, boot)
          PROVE  Owned
      <4>1. /\ fenced' = fenced \cup {boot}
            /\ Known(a) => agents[a].boot # boot
        BY <3>6 DEF LoseStale
      <4>2. ASSUME NEW x \in Agent, Known(x), agents[x].boot = boot
            PROVE  FALSE
        BY <3>2, <4>1, <4>2 DEF OwnBoots
      <4> QED
        BY <4>1, <4>2 DEF AcceptsNewWork, Known
    <3> QED
      BY <3>1, <3>4, <3>5, <3>6
  <2> QED
    BY <2>1, <2>2
<1> QED
  BY <1>1, TypeCorrect, PTL DEF Spec, FencedForOwnerOnly

-----------------------------------------------------------------------------
(***************************************************************************)
(* What the authority of an assignment rests on.                           *)
(*                                                                         *)
(* A handoff tests the epochs, but neither the running flag nor the        *)
(* policy's shutdown rule.  What makes it right is an invariant about what *)
(* is offered, that is Assigned and not yet handed over: it is bound to    *)
(* the current policy and capability generation, and while the policy      *)
(* closes at shutdown there are offers only on a scheduler that runs.      *)
(*                                                                         *)
(* The last section is about the other end: work is Completed only by an   *)
(* assignment of its current generation.                                   *)
(***************************************************************************)

Offered(b) == b \in DOMAIN asg /\ asg[b].state = "Assigned"

\* What is active belongs to the boot its agent runs, and what is offered binds
\* its agent's capability generation.
Attached ==
    \A b \in ActiveIn(asg) :
        /\ agents[b.agent].boot = b.boot
        /\ Offered(b) => b.capGen = agents[b.agent].capability.value

\* Offers are bound to the policy in force.  If it closes offers at shutdown, they
\* are bound to the current epochs and the scheduler runs.
OfferedUnderPolicy ==
    \A b \in DOMAIN asg : asg[b].state = "Assigned" =>
        /\ b.policy = sched.policy
        /\ sched.closes => BoundEpochsCurrent(b) /\ sched.running

RunsOrShuts == sched.running => ~sched.shutting

AuthorityInv == Attached /\ OfferedUnderPolicy /\ RunsOrShuts

-----------------------------------------------------------------------------
(* Offers and handovers.                                                   *)

\* Moving on makes no offer.
LEMMA MovesOffers ==
    ASSUME Moves(asg'), NEW b, Offered(b)'
    PROVE  Offered(b)
<1>1. /\ b \in DOMAIN asg
      /\ \/ Stage(asg'[b].state) = Stage(asg[b].state)
         \/ Stage(asg'[b].state) \in Life!After(Stage(asg[b].state))
  BY DEF Offered, Moves
<1>2. asg'[b].state = "Assigned"
  BY DEF Offered
<1> QED
  BY <1>1, <1>2 DEF Offered, Stage, Life!After

\* Only a commit offers.
LEMMA OnlyCommitOffers ==
    ASSUME TypeOK, CapabilityOrdered, [Next]_vars, NEW b, Offered(b)'
    PROVE  Offered(b) \/ \E c \in Caller : commit_locked(c) /\ b = call[c].b
<1>1. CASE Moves(asg')
  BY <1>1, MovesOffers
<1>2. ASSUME NEW c \in Caller, commit_locked(c)
      PROVE  Offered(b) \/ b = call[c].b
  <2>1. Adds(call[c].b)
    BY <1>2, CommitStores
  <2> QED
    BY <2>1 DEF Adds, Offered
<1> QED
  BY <1>1, <1>2, NextMoves

\* From asg to `as` nothing is handed over.
HandsNothing(as) ==
    \A b \in DOMAIN asg : as[b].state = "Dispatched" => asg[b].state = "Dispatched"

\* Closing assignments hands none over.
LEMMA ClosedHandsNothing ==
    ASSUME NEW ids, NEW st \in TerminalStates
    PROVE  HandsNothing(Closed(ids, st))
  BY DEF HandsNothing, Closed, TerminalStates

\* Only the second section of dispatch() hands over.
LEMMA OnlyHandoffHands ==
    ASSUME TypeOK, CapabilityOrdered, [Next]_vars
    PROVE  HandsNothing(asg') \/ \E c \in Caller : Handoff(c)
<1>0. /\ {"Superseded", "Cancelled", "Expired", "Lost", "Invalidated", "Released",
          "Completed", "Failed"} \subseteq TerminalStates
      /\ \A b \in DOMAIN asg : asg[b] \in AssignmentRecord
  BY DEF TerminalStates, TypeOK, AssignmentMap
<1>1. asg' = asg => HandsNothing(asg')
  BY DEF HandsNothing
<1>2. ASSUME NEW a \in Agent, NEW g, NEW at, publish_capabilities(a, g, at)
      PROVE  HandsNothing(asg')
  BY <1>0, <1>2 DEF publish_capabilities, HandsNothing, AssignmentRecord
<1>3. CASE AgentNext
  <2>1. ASSUME asg' # asg
        PROVE  \/ \E a \in Agent : \E g, at : publish_capabilities(a, g, at)
               \/ \E ids : \E st \in TerminalStates : asg' = Closed(ids, st)
    <3> PICK a \in Agent :
          \/ \E g \in 1..MaxAgentGen, boot \in BootOf[a], m \in Concurrency :
                Reincarnate(a, g, boot, m)
          \/ \E g \in 1..MaxCapGen, at \in 1..now : publish_capabilities(a, g, at)
          \/ \E force \in BOOLEAN : drain_agent(a, force) \/ deregister_agent(a, force)
          \/ LoseCurrent(a)
      BY <1>3, <2>1 DEF AgentNext, RegisterNew, Reregister, publish_health,
                        publish_availability, heartbeat, LoseStale
    <3> QED
      BY <1>0 DEF Reincarnate, drain_agent, deregister_agent, LoseCurrent
  <2> QED
    BY <1>1, <1>2, <2>1, ClosedHandsNothing
<1>4. CASE WorkNext
  <2>1. \E ids : \E st \in TerminalStates : asg' = Closed(ids, st)
    BY <1>0, <1>4 DEF WorkNext, submit_work, supersede_work, Readmit, cancel_work,
                      expire_deadlines
  <2> QED
    BY <2>1, ClosedHandsNothing
<1>5. ASSUME NEW b \in DOMAIN asg, Report(b)
      PROVE  HandsNothing(asg')
  <2>1. \/ \E st \in TerminalStates : asg' = Closed({b}, st)
        \/ \E st \in {"Acknowledged", "Executing"} : asg' = [asg EXCEPT ![b].state = st]
    BY <1>0, <1>5 DEF Report, acknowledge, mark_executing, Return, Finish,
                      CloseAssignments
  <2>2. ASSUME NEW st \in {"Acknowledged", "Executing"},
               asg' = [asg EXCEPT ![b].state = st]
        PROVE  HandsNothing(asg')
    BY <1>0, <2>2 DEF HandsNothing, AssignmentRecord
  <2> QED
    BY <2>1, <2>2, ClosedHandsNothing
<1>6. ASSUME NEW examined, NEW promoted, Revalidate(examined, promoted)
      PROVE  HandsNothing(asg')
  BY <1>0, <1>6 DEF Revalidate, Revalidated, HandsNothing, AssignmentRecord
<1>7. CASE shutdown \/ expire_leases
             \/ \E g \in 1..MaxPolicyGen, closes \in ClosePolicies : set_policy(g, closes)
  <2>1. \E ids : \E st \in TerminalStates : asg' = Closed(ids, st)
    BY <1>0, <1>7 DEF shutdown, set_policy, expire_leases, CloseAssignments
  <2> QED
    BY <2>1, ClosedHandsNothing
<1>8. CASE revalidate_assignments \/ \E a \in Agent : revalidate_agent_assignments(a)
  BY <1>6, <1>8 DEF revalidate_assignments, revalidate_agent_assignments
<1>9. ASSUME NEW c \in Caller, commit_locked(c)
      PROVE  HandsNothing(asg')
  BY <1>9, CommitStores DEF Adds, HandsNothing
<1>10. CASE \E c \in Caller : \/ \E w \in Work : plan_locked(c, w)
                              \/ CommitRejected(c)
                              \/ \E b \in DOMAIN asg : dispatch(c, b)
                              \/ HandoffRejected(c)
  BY <1>1, <1>10 DEF plan_locked, CommitRejected, dispatch, HandoffRejected
<1>11. CASE start \/ Tick \/ UNCHANGED vars
  BY <1>1, <1>11 DEF start, Tick, vars
<1> QED
  BY <1>3, <1>4, <1>5, <1>7, <1>8, <1>9, <1>10, <1>11 DEF Next, AssignmentNext

-----------------------------------------------------------------------------
(* What is active stays attached to its agent.                             *)

\* The step keeps the boot and the capability generation of an agent.
Holds(a) ==
    /\ agents'[a].boot = agents[a].boot
    /\ agents'[a].capability.value = agents[a].capability.value

\* What the next state says of the assignments of one agent.
AttachedTo(a) ==
    \A b \in OnAgent(asg', a) :
        /\ agents'[a].boot = b.boot
        /\ asg'[b].state = "Assigned" => b.capGen = agents'[a].capability.value

\* Attachment in the next state, agent by agent.
LEMMA AttachedParts ==
    ASSUME TypeOK'
    PROVE  Attached' <=> \A a \in Agent : AttachedTo(a)
<1>1. \A b \in ActiveIn(asg') : b \in DOMAIN asg' /\ b.agent \in Agent
  BY DEF TypeOK, AssignmentMap, ActiveIn, Binding
<1> QED
  BY <1>1 DEF Attached, AttachedTo, OnAgent, Offered

\* An agent that holds keeps its assignments attached, if nothing becomes active
\* and nothing is offered.
LEMMA HeldAttached ==
    ASSUME Attached, NEW a \in Agent, Holds(a),
           ActiveIn(asg') \subseteq ActiveIn(asg),
           \A b \in ActiveIn(asg') : Offered(b)' => Offered(b)
    PROVE  AttachedTo(a)
<1> SUFFICES ASSUME NEW b \in ActiveIn(asg'), b.agent = a
             PROVE  /\ agents'[a].boot = b.boot
                    /\ asg'[b].state = "Assigned" =>
                          b.capGen = agents'[a].capability.value
  BY DEF AttachedTo, OnAgent
<1>1. /\ agents[a].boot = b.boot
      /\ Offered(b) => b.capGen = agents[a].capability.value
  BY DEF Attached
<1>2. asg'[b].state = "Assigned" => Offered(b)
  BY DEF Offered, ActiveIn
<1> QED
  BY <1>1, <1>2 DEF Holds

\* Refreshing keeps boot and capability generation.
LEMMA RefreshedHolds ==
    ASSUME NEW as, NEW a, NEW r \in AgentRecord
    PROVE  /\ RefreshedAgent(as, r, a).boot = r.boot
           /\ RefreshedAgent(as, r, a).capability = r.capability
<1> DEFINE counted == [r EXCEPT !.active = Cardinality(OnAgent(as, a))]
<1>1. /\ DOMAIN counted = DOMAIN r
      /\ "boot" \in DOMAIN r /\ "capability" \in DOMAIN r
      /\ counted.boot = r.boot /\ counted.capability = r.capability
  BY DEF AgentRecord
<1>2. RefreshedAgent(as, r, a) = [counted EXCEPT !.lifecycle = recompute_lifecycle(counted)]
  BY DEF RefreshedAgent
<1> HIDE DEF counted
<1> QED
  BY <1>1, <1>2

\* So does refreshing the agents of the assignments that were closed.
LEMMA AfterHolds ==
    ASSUME TypeOK, NEW as, NEW ids, NEW a \in Agent
    PROVE  /\ AgentsAfter(as, ids)[a].boot = agents[a].boot
           /\ AgentsAfter(as, ids)[a].capability = agents[a].capability
<1>1. agents[a] \in AgentRecord
  BY DEF TypeOK
<1> DEFINE r == agents[a]
<1>2. /\ RefreshedAgent(as, r, a).boot = r.boot
      /\ RefreshedAgent(as, r, a).capability = r.capability
  <2>1. r \in AgentRecord
    BY <1>1
  <2> HIDE DEF r
  <2> QED
    BY <2>1, RefreshedHolds
<1>3. AgentsAfter(as, ids)[a] \in {agents[a], RefreshedAgent(as, agents[a], a)}
  BY DEF AgentsAfter
<1> QED
  BY <1>2, <1>3

\* Storing another record for one agent leaves the others as they are.
LEMMA StoredHolds ==
    ASSUME NEW ag, DOMAIN ag = Agent, NEW a \in Agent, NEW new,
           \A x \in Agent : /\ ag[x].boot = agents[x].boot
                            /\ ag[x].capability = agents[x].capability,
           agents' = [ag EXCEPT ![a] = new]
    PROVE  agents'[a] = new /\ \A x \in Agent \ {a} : Holds(x)
<1> SUFFICES ASSUME NEW x \in Agent \ {a}
             PROVE  Holds(x)
  OBVIOUS
<1>1. agents'[x] = ag[x]
  OBVIOUS
<1> QED
  BY <1>1 DEF Holds

\* A handler that stores the refreshed form of one record.
LEMMA PublishHolds ==
    ASSUME TypeOK, NEW a \in Agent, NEW r \in AgentRecord, NEW as,
           agents' = [agents EXCEPT ![a] = RefreshedAgent(as, r, a)]
    PROVE  /\ \A x \in Agent \ {a} : Holds(x)
           /\ agents'[a].boot = r.boot /\ agents'[a].capability = r.capability
<1> DEFINE new == RefreshedAgent(as, r, a)
<1>1. new.boot = r.boot /\ new.capability = r.capability
  BY RefreshedHolds
<1>2. DOMAIN agents = Agent
  BY DEF TypeOK
<1>3. agents' = [agents EXCEPT ![a] = new]
  OBVIOUS
<1> HIDE DEF new
<1>4. agents'[a] = new /\ \A x \in Agent \ {a} : Holds(x)
  BY <1>2, <1>3, StoredHolds
<1> QED
  BY <1>1, <1>4

\* A handler that closes assignments and stores the refreshed form of one record.
LEMMA CloseHolds ==
    ASSUME TypeOK, NEW a \in Agent, NEW r \in AgentRecord, NEW as, NEW ids,
           agents' = [AgentsAfter(as, ids) EXCEPT ![a] = RefreshedAgent(as, r, a)]
    PROVE  /\ \A x \in Agent \ {a} : Holds(x)
           /\ agents'[a].boot = r.boot /\ agents'[a].capability = r.capability
<1> DEFINE new == RefreshedAgent(as, r, a)
<1>1. new.boot = r.boot /\ new.capability = r.capability
  BY RefreshedHolds
<1>2. DOMAIN AgentsAfter(as, ids) = Agent
  BY DEF AgentsAfter
<1>3. \A x \in Agent : /\ AgentsAfter(as, ids)[x].boot = agents[x].boot
                       /\ AgentsAfter(as, ids)[x].capability = agents[x].capability
  BY AfterHolds
<1>4. agents' = [AgentsAfter(as, ids) EXCEPT ![a] = new]
  OBVIOUS
<1> HIDE DEF new
<1>5. agents'[a] = new
  BY <1>2, <1>4
<1>6. ASSUME NEW x \in Agent \ {a} PROVE Holds(x)
  <2>1. agents'[x] = AgentsAfter(as, ids)[x]
    BY <1>2, <1>4
  <2> QED
    BY <1>3, <2>1 DEF Holds
<1> QED
  BY <1>1, <1>5, <1>6

\* Every agent handler keeps what is active attached: a publication suspends what
\* binds another capability generation, a new incarnation closes all of the old one.
LEMMA AgentNextAttached ==
    ASSUME TypeOK, TypeOK', CapabilityOrdered, Attached, AgentNext
    PROVE  Attached'
<1> PICK a \in Agent :
        \/ \E g \in 1..MaxAgentGen, boot \in BootOf[a], m \in Concurrency :
              RegisterNew(a, g, boot, m) \/ Reincarnate(a, g, boot, m)
        \/ \E m \in Concurrency : Reregister(a, m)
        \/ \E g \in 1..MaxCapGen, at \in 1..now : publish_capabilities(a, g, at)
        \/ \E v \in HealthReports, at \in 1..now : publish_health(a, v, at)
        \/ \E v \in AvailReports, at \in 1..now : publish_availability(a, v, at)
        \/ heartbeat(a)
        \/ \E force \in BOOLEAN : drain_agent(a, force) \/ deregister_agent(a, force)
        \/ LoseCurrent(a)
        \/ \E boot \in BootOf[a] : LoseStale(a, boot)
  BY DEF AgentNext
<1>0. /\ agents \in [Agent -> AgentRecord] /\ agents[a] \in AgentRecord
      /\ DOMAIN agents = Agent /\ now \in Nat
      /\ {"Lost", "Retired", "Draining", "RevalidationRequired"}
           \subseteq AgentLifecycles
  BY DEF TypeOK, AgentLifecycles
<1>1. /\ ActiveIn(asg') \subseteq ActiveIn(asg)
      /\ \A b \in ActiveIn(asg') : Offered(b)' => Offered(b)
  BY AgentNextKept, KeptShrinks, AgentNextMoves, MovesOffers
<1>2. ASSUME \A x \in Agent \ {a} : Holds(x), AttachedTo(a)
      PROVE  Attached'
  BY <1>1, <1>2, HeldAttached, AttachedParts
<1>3. ASSUME \A x \in Agent \ {a} : Holds(x),
             agents'[a].boot = agents[a].boot,
             agents'[a].capability.value = agents[a].capability.value
      PROVE  Attached'
  <2>1. Holds(a)
    BY <1>3 DEF Holds
  <2> QED
    BY <1>1, <1>2, <1>3, <2>1, HeldAttached
<1>4. ASSUME OnAgent(asg', a) = {}
      PROVE  AttachedTo(a)
  BY <1>4 DEF AttachedTo
<1>5. ASSUME NEW g \in 1..MaxAgentGen, NEW boot \in BootOf[a], NEW m \in Concurrency,
             RegisterNew(a, g, boot, m)
      PROVE  Attached'
  <2>1. OnAgent(asg', a) = {}
    BY <1>1, <1>5 DEF RegisterNew, CapabilityOrdered, OnAgent
  <2>2. \A x \in Agent \ {a} : Holds(x)
    BY <1>0, <1>5 DEF RegisterNew, Holds
  <2> QED
    BY <1>2, <1>4, <2>1, <2>2
<1>6. ASSUME NEW g \in 1..MaxAgentGen, NEW boot \in BootOf[a], NEW m \in Concurrency,
             Reincarnate(a, g, boot, m)
      PROVE  Attached'
  <2> DEFINE gone == ActiveOfBoot(agents[a].boot)
             as == Closed(gone, "Lost")
  <2>1. /\ asg' = as
        /\ agents' = [AgentsAfter(as, gone) EXCEPT
                        ![a] = RefreshedAgent(as, FreshAgent(g, boot, m), a)]
    BY <1>6 DEF Reincarnate
  <2>2. ActiveIn(asg') \subseteq ActiveIn(asg) \ gone
    <3>1. "Lost" \in TerminalStates
      BY DEF TerminalStates
    <3> QED
      BY <2>1, <3>1, ClosedActive
  <2>3. \A b \in OnAgent(asg', a) : b \in gone
    BY <2>2 DEF OnAgent, Attached, ActiveOfBoot
  <2>4. OnAgent(asg', a) = {}
    BY <2>2, <2>3 DEF OnAgent
  <2>5. FreshAgent(g, boot, m) \in AgentRecord
    <3>1. g \in Nat /\ boot \in Boot /\ m \in Nat
      BY Inputs, Bounds
    <3> QED
      BY <1>0, <3>1, FreshAgentType
  <2> HIDE DEF gone, as
  <2>6. \A x \in Agent \ {a} : Holds(x)
    BY <2>1, <2>5, CloseHolds
  <2> QED
    BY <1>2, <1>4, <2>4, <2>6
<1>7. ASSUME NEW r \in AgentRecord, r.boot = agents[a].boot,
             r.capability.value = agents[a].capability.value, NEW as,
             agents' = [agents EXCEPT ![a] = RefreshedAgent(as, r, a)]
      PROVE  Attached'
  BY <1>3, <1>7, PublishHolds
<1>8. ASSUME NEW r \in AgentRecord, r.boot = agents[a].boot,
             r.capability.value = agents[a].capability.value, NEW as, NEW ids,
             agents' = [AgentsAfter(as, ids) EXCEPT ![a] = RefreshedAgent(as, r, a)]
      PROVE  Attached'
  BY <1>3, <1>8, CloseHolds
<1>9. ASSUME NEW m \in Concurrency, Reregister(a, m)
      PROVE  Attached'
  <2> DEFINE r == [agents[a] EXCEPT
                     !.maxc = m, !.lease = now + RegistrationTtl,
                     !.lifecycle = IF @ = "Lost"
                                   THEN "RevalidationRequired" ELSE @]
  <2>1. m \in Nat /\ now + RegistrationTtl \in Nat
    BY <1>0, Inputs, Bounds
  <2>2. r \in AgentRecord /\ r.boot = agents[a].boot
        /\ r.capability = agents[a].capability
    BY <1>0, <2>1 DEF AgentRecord
  <2>3. agents' = [agents EXCEPT ![a] = RefreshedAgent(asg, r, a)]
    BY <1>9 DEF Reregister
  <2> HIDE DEF r
  <2> QED
    BY <1>7, <2>2, <2>3
<1>10. ASSUME NEW g \in 1..MaxCapGen, NEW at \in 1..now,
              publish_capabilities(a, g, at)
       PROVE  Attached'
  <2> DEFINE r == [agents[a] EXCEPT
                     !.capability = [value |-> g, current |-> TRUE, at |-> at],
                     !.recovered = FALSE]
             moved == {b \in OnAgent(asg, a) : b.capGen # g}
  <2>0. g \in Nat /\ at \in Nat
    BY <1>0, Bounds
  <2>1. /\ r \in AgentRecord /\ r.boot = agents[a].boot
        /\ r.capability.value = g
    BY <1>0, <2>0 DEF AgentRecord, Evidence
  <2>2. agents' = [agents EXCEPT ![a] = RefreshedAgent(asg', r, a)]
    BY <1>10 DEF publish_capabilities
  <2> HIDE DEF r
  <2>3. /\ \A x \in Agent \ {a} : Holds(x)
        /\ agents'[a].boot = agents[a].boot /\ agents'[a].capability.value = g
    BY <2>1, <2>2, PublishHolds
  <2>4. asg' = [b \in DOMAIN asg |->
                  IF b \in moved
                  THEN [asg[b] EXCEPT !.state = "RevalidationRequired",
                                      !.leaseCurrent = FALSE]
                  ELSE asg[b]]
    BY <1>10 DEF publish_capabilities
  <2>5. ASSUME NEW b \in OnAgent(asg', a)
        PROVE  /\ agents'[a].boot = b.boot
               /\ asg'[b].state = "Assigned" => b.capGen = agents'[a].capability.value
    <3>1. b \in OnAgent(asg, a) /\ b \in DOMAIN asg
      BY <1>1 DEF OnAgent, ActiveIn
    <3>2. agents[a].boot = b.boot
      BY <3>1 DEF OnAgent, Attached
    <3>3. asg[b] \in AssignmentRecord
      BY <3>1 DEF TypeOK, AssignmentMap
    <3>4. b \in moved => asg'[b].state = "RevalidationRequired"
      BY <2>4, <3>1, <3>3 DEF AssignmentRecord
    <3>5. b \notin moved => b.capGen = g
      BY <3>1
    <3> QED
      BY <2>3, <3>2, <3>4, <3>5
  <2>6. AttachedTo(a)
    BY <2>5 DEF AttachedTo
  <2> QED
    BY <1>2, <2>3, <2>6
<1>11. ASSUME NEW v \in HealthReports, NEW at \in 1..now, publish_health(a, v, at)
       PROVE  Attached'
  <2> DEFINE r == [agents[a] EXCEPT
                     !.health = [value |-> v, current |-> TRUE, at |-> at],
                     !.recovered = FALSE]
  <2>0. v \in Healths /\ at \in Nat
    BY <1>0, Inputs
  <2>1. r \in AgentRecord /\ r.boot = agents[a].boot
        /\ r.capability = agents[a].capability
    BY <1>0, <2>0 DEF AgentRecord, Evidence
  <2>2. agents' = [agents EXCEPT ![a] = RefreshedAgent(asg, r, a)]
    BY <1>11 DEF publish_health
  <2> HIDE DEF r
  <2> QED
    BY <1>7, <2>1, <2>2
<1>12. ASSUME NEW v \in AvailReports, NEW at \in 1..now, publish_availability(a, v, at)
       PROVE  Attached'
  <2> DEFINE r == [agents[a] EXCEPT
                     !.avail = [value |-> v, current |-> TRUE, at |-> at],
                     !.recovered = FALSE]
  <2>0. v \in Avails /\ at \in Nat
    BY <1>0, Inputs
  <2>1. r \in AgentRecord /\ r.boot = agents[a].boot
        /\ r.capability = agents[a].capability
    BY <1>0, <2>0 DEF AgentRecord, Evidence
  <2>2. agents' = [agents EXCEPT ![a] = RefreshedAgent(asg, r, a)]
    BY <1>12 DEF publish_availability
  <2> HIDE DEF r
  <2> QED
    BY <1>7, <2>1, <2>2
<1>13. CASE heartbeat(a) \/ \E boot \in BootOf[a] : LoseStale(a, boot)
  <2>1. \A x \in Agent : Holds(x)
    BY <1>0, <1>13 DEF heartbeat, LoseStale, Holds, AgentRecord
  <2> QED
    BY <1>3, <2>1 DEF Holds
<1>14. ASSUME NEW force \in BOOLEAN, drain_agent(a, force)
       PROVE  Attached'
  <2> DEFINE r == [agents[a] EXCEPT !.lifecycle = "Draining"]
  <2>1. r \in AgentRecord /\ r.boot = agents[a].boot
        /\ r.capability = agents[a].capability
    BY <1>0 DEF AgentRecord
  <2>2. \E as, ids : agents' = [AgentsAfter(as, ids) EXCEPT
                                  ![a] = RefreshedAgent(as, r, a)]
    BY <1>14 DEF drain_agent
  <2> HIDE DEF r
  <2> QED
    BY <1>8, <2>1, <2>2
<1>15. ASSUME NEW l \in {"Retired", "Lost"}, NEW as, NEW ids,
              agents' = [AgentsAfter(as, ids) EXCEPT ![a] = EndedAgent(as, a, l)]
       PROVE  Attached'
  <2> DEFINE r == [invalidate_dynamic_evidence(agents[a]) EXCEPT !.lifecycle = l]
  <2>1. r \in AgentRecord /\ r.boot = agents[a].boot
    BY <1>0, EndedRecordType
  <2>2. r.capability.value = agents[a].capability.value
    BY <1>0 DEF AgentRecord, Evidence, invalidate_dynamic_evidence, Withdrawn
  <2>3. agents' = [AgentsAfter(as, ids) EXCEPT ![a] = RefreshedAgent(as, r, a)]
    BY <1>15 DEF EndedAgent
  <2> HIDE DEF r
  <2> QED
    BY <1>8, <2>1, <2>2, <2>3
<1>16. CASE LoseCurrent(a) \/ \E force \in BOOLEAN : deregister_agent(a, force)
  <2>1. \E l \in {"Retired", "Lost"} : \E as, ids :
           agents' = [AgentsAfter(as, ids) EXCEPT ![a] = EndedAgent(as, a, l)]
    BY <1>16 DEF LoseCurrent, deregister_agent
  <2> QED
    BY <1>15, <2>1
<1> QED
  BY <1>5, <1>6, <1>9, <1>10, <1>11, <1>12, <1>13, <1>14, <1>16

\* A commit attaches what it stores to the agent as it is.
LEMMA CommitAttached ==
    ASSUME TypeOK, TypeOK', Attached, NEW c \in Caller, commit_locked(c)
    PROVE  Attached'
<1> DEFINE b == call[c].b
<1>1. /\ Adds(b) /\ BoundIncarnationCurrent(b) /\ BoundAgentReady(b)
      /\ b.agent \in Agent
  BY CommitStores, CarriedType DEF commit_locked, CommitAllowed, Binding
<1>2. \A x \in Agent : Holds(x)
  <2>1. agents[b.agent] \in AgentRecord
    BY <1>1 DEF TypeOK
  <2>2. \E as : agents' = [agents EXCEPT
                             ![b.agent] = RefreshedAgent(as, agents[b.agent], b.agent)]
    BY <1>1 DEF commit_locked, TypeOK
  <2> HIDE DEF b
  <2>3. PICK as : agents' = [agents EXCEPT
                               ![b.agent] = RefreshedAgent(as, agents[b.agent], b.agent)]
    BY <2>2
  <2> DEFINE r == agents[b.agent]
  <2>4. r \in AgentRecord /\ agents' = [agents EXCEPT ![b.agent] = RefreshedAgent(as, r, b.agent)]
    BY <2>1, <2>3
  <2>5. r.boot = agents[b.agent].boot /\ r.capability = agents[b.agent].capability
    OBVIOUS
  <2> HIDE DEF r
  <2>6. /\ \A x \in Agent \ {b.agent} : Holds(x)
        /\ agents'[b.agent].boot = r.boot /\ agents'[b.agent].capability = r.capability
    BY <1>1, <2>4, PublishHolds
  <2> QED
    BY <2>5, <2>6 DEF Holds
<1> SUFFICES ASSUME NEW x \in ActiveIn(asg')
             PROVE  /\ agents'[x.agent].boot = x.boot
                    /\ asg'[x].state = "Assigned" =>
                          x.capGen = agents'[x.agent].capability.value
  BY DEF Attached, Offered
<1>3. x.agent \in Agent
  BY DEF TypeOK, AssignmentMap, ActiveIn, Binding
<1>4. Holds(x.agent)
  BY <1>2, <1>3
<1>5. CASE x \in DOMAIN asg
  <2>1. asg'[x] = asg[x] /\ x \in ActiveIn(asg)
    BY <1>1, <1>5 DEF Adds, ActiveIn
  <2> QED
    BY <1>4, <1>5, <2>1 DEF Attached, Offered, Holds
<1>6. CASE x \notin DOMAIN asg
  <2>1. x = b
    BY <1>1, <1>6 DEF Adds, ActiveIn
  <2> QED
    BY <1>1, <1>4, <2>1 DEF BoundIncarnationCurrent, BoundAgentReady, Holds
<1> QED
  BY <1>5, <1>6

\* Every step keeps what is active attached.
LEMMA NextAttached ==
    ASSUME LifeInv, TypeOK', Attached, [Next]_vars
    PROVE  Attached'
<1>0. TypeOK /\ CapabilityOrdered
  BY DEF LifeInv, WorkInv
<1>1. CASE AgentNext
  BY <1>0, <1>1, AgentNextAttached
<1>2. CASE \E c \in Caller : commit_locked(c)
  BY <1>0, <1>2, CommitAttached
<1>3. ASSUME ~AgentNext, ~\E c \in Caller : commit_locked(c)
      PROVE  Attached'
  <2>1. /\ ActiveIn(asg') \subseteq ActiveIn(asg)
        /\ \A b \in ActiveIn(asg') : Offered(b)' => Offered(b)
    BY <1>0, <1>3, ActiveOrigin, OnlyCommitOffers
  <2>2. agents' = agents \/ \E as, ids : agents' = AgentsAfter(as, ids)
    <3>1. CASE start \/ Tick \/ UNCHANGED vars
      BY <3>1 DEF start, Tick, vars
    <3>2. CASE shutdown \/ \E g, closes : set_policy(g, closes)
      BY <3>2 DEF shutdown, set_policy, CloseAssignments
    <3>3. CASE WorkNext
      BY <3>3 DEF WorkNext, submit_work, supersede_work, Readmit, cancel_work,
                  expire_deadlines
    <3>4. CASE \E b \in DOMAIN asg : Report(b)
      BY <3>4 DEF Report, acknowledge, mark_executing, Return, Finish,
                  CloseAssignments
    <3>5. CASE revalidate_assignments \/ expire_leases
               \/ \E a \in Agent : revalidate_agent_assignments(a)
      BY <3>5 DEF revalidate_assignments, revalidate_agent_assignments,
                  Revalidate, expire_leases, CloseAssignments
    <3>6. CASE \E c \in Caller : \/ \E w \in Work : plan_locked(c, w)
                                 \/ CommitRejected(c)
                                 \/ \E b \in DOMAIN asg : dispatch(c, b)
                                 \/ Handoff(c)
                                 \/ HandoffRejected(c)
      BY <3>6 DEF plan_locked, CommitRejected, dispatch, Handoff, HandoffRejected
    <3> QED
      BY <1>3, <3>1, <3>2, <3>3, <3>4, <3>5, <3>6 DEF Next, AssignmentNext
  <2>3. \A x \in Agent : Holds(x)
    BY <1>0, <2>2, AfterHolds DEF Holds
  <2> QED
    BY <2>1, <2>3, HeldAttached, AttachedParts
<1> QED
  BY <1>1, <1>2, <1>3

-----------------------------------------------------------------------------
(* Offers stay under the policy.                                           *)

\* A step that leaves the scheduler record alone.
LEMMA SteadyPolicy ==
    ASSUME LifeInv, OfferedUnderPolicy, RunsOrShuts, [Next]_vars, sched' = sched
    PROVE  OfferedUnderPolicy' /\ RunsOrShuts'
<1>1. TypeOK /\ CapabilityOrdered
  BY DEF LifeInv, WorkInv
<1> SUFFICES ASSUME NEW b, Offered(b)'
             PROVE  /\ b.policy = sched.policy
                    /\ sched.closes => BoundEpochsCurrent(b) /\ sched.running
  BY DEF OfferedUnderPolicy, RunsOrShuts, Offered, BoundEpochsCurrent
<1>2. CASE Offered(b)
  BY <1>2 DEF OfferedUnderPolicy, Offered
<1>3. ASSUME NEW c \in Caller, commit_locked(c), b = call[c].b
      PROVE  BoundEpochsCurrent(b) /\ sched.running
  BY <1>3 DEF commit_locked, CommitAllowed
<1> QED
  BY <1>1, <1>2, <1>3, OnlyCommitOffers DEF BoundEpochsCurrent

\* start, shutdown and set_policy: there is nothing offered where they change what
\* offers are bound to.
LEMMA LifecyclePolicy ==
    ASSUME TypeOK, OfferedUnderPolicy, RunsOrShuts,
           \/ start
           \/ shutdown
           \/ \E g \in 1..MaxPolicyGen, closes \in ClosePolicies : set_policy(g, closes)
    PROVE  OfferedUnderPolicy' /\ RunsOrShuts'
<1>0. /\ sched \in SchedulerRecord /\ "Invalidated" \in TerminalStates
      /\ \A b \in DOMAIN asg : asg[b] \in AssignmentRecord
  BY DEF TypeOK, TerminalStates, AssignmentMap
<1>1. ASSUME NEW ids, asg' = Closed(ids, "Invalidated"), NEW b, Offered(b)'
      PROVE  Offered(b) /\ b \notin ids
  BY <1>0, <1>1 DEF Offered, Closed, AssignmentRecord, ActiveStates
<1>2. CASE start
  <2>1. /\ sched'.closes = sched.closes /\ sched'.policy = sched.policy
        /\ ~sched.running /\ sched'.running /\ ~sched'.shutting /\ asg' = asg
    BY <1>0, <1>2 DEF start, SchedulerRecord
  <2> QED
    BY <2>1 DEF OfferedUnderPolicy, RunsOrShuts
<1>3. CASE shutdown
  <2>1. /\ sched'.closes = sched.closes /\ sched'.policy = sched.policy
        /\ ~sched'.running
    BY <1>0, <1>3 DEF shutdown, SchedulerRecord
  <2>2. ASSUME NEW b, Offered(b)'
        PROVE  Offered(b) /\ ~sched.closes
    <3> DEFINE undispatched == IF sched.closes
                               THEN {x \in DOMAIN asg : asg[x].state = "Assigned"}
                               ELSE {}
    <3>1. asg' = Closed(undispatched, "Invalidated")
      BY <1>3 DEF shutdown, CloseAssignments
    <3>2. Offered(b) /\ b \notin undispatched
      BY <1>1, <2>2, <3>1
    <3> QED
      BY <3>2 DEF Offered
  <2> QED
    BY <2>1, <2>2 DEF OfferedUnderPolicy, RunsOrShuts, Offered
<1>4. ASSUME NEW g \in 1..MaxPolicyGen, NEW closes \in ClosePolicies,
             set_policy(g, closes)
      PROVE  OfferedUnderPolicy' /\ RunsOrShuts'
  <2>0. sched' = [sched EXCEPT !.policy = g, !.closes = closes] /\ g > sched.policy
    BY <1>4 DEF set_policy
  <2>1. /\ sched'.running = sched.running /\ sched'.shutting = sched.shutting
        /\ sched.policy < g
    <3>1. sched.policy \in Nat
      BY <1>0 DEF SchedulerRecord
    <3>2. g \in Nat
      BY Bounds
    <3>3. /\ sched'.running = sched.running /\ sched'.shutting = sched.shutting
      BY <1>0, <2>0 DEF SchedulerRecord
    <3> QED
      BY <2>0, <3>1, <3>2, <3>3
  <2>2. ASSUME NEW b, Offered(b)'
        PROVE  FALSE
    <3> DEFINE bound == {x \in ActiveIn(asg) : x.policy # g}
    <3>1. asg' = Closed(bound, "Invalidated")
      BY <1>4 DEF set_policy, CloseAssignments
    <3>2. Offered(b) /\ b \notin bound
      BY <1>1, <2>2, <3>1
    <3>3. b.policy = g
      BY <3>2 DEF Offered, ActiveIn, ActiveStates
    <3>4. b.policy = sched.policy
      BY <3>2 DEF OfferedUnderPolicy, Offered
    <3>5. sched.policy \in Nat
      BY <1>0 DEF SchedulerRecord
    <3> QED
      BY <2>1, <3>3, <3>4, <3>5
  <2> QED
    BY <2>1, <2>2 DEF OfferedUnderPolicy, RunsOrShuts, Offered
<1> QED
  BY <1>2, <1>3, <1>4

\* Only the scheduler's own handlers move its epochs, its flags or its policy.
LEMMA SchedulerMoves ==
    ASSUME TypeOK, [Next]_vars
    PROVE  \/ sched' = sched
           \/ start
           \/ shutdown
           \/ \E g \in 1..MaxPolicyGen, closes \in ClosePolicies : set_policy(g, closes)
<1>1. AgentNext => sched' = sched
  BY AgentNextSteady
<1>2. WorkNext => sched' = sched
  BY DEF WorkNext, submit_work, supersede_work, Readmit, cancel_work,
         expire_deadlines
<1>3. \A b \in DOMAIN asg : Report(b) => sched' = sched
  BY ReportSteady
<1>4. AssignmentNext => sched' = sched
  BY <1>3 DEF AssignmentNext, plan_locked, commit_locked, CommitRejected, dispatch,
              Handoff, HandoffRejected, revalidate_assignments,
              revalidate_agent_assignments, Revalidate, expire_leases
<1>5. Tick \/ UNCHANGED vars => sched' = sched
  BY DEF Tick, vars
<1> QED
  BY <1>1, <1>2, <1>4, <1>5 DEF Next

\* Every step preserves the invariant.
LEMMA AuthorityInvNext ==
    ASSUME LifeInv, TypeOK', AuthorityInv, [Next]_vars
    PROVE  AuthorityInv'
<1>0. TypeOK
  BY DEF LifeInv, WorkInv
<1>1. Attached'
  BY NextAttached DEF AuthorityInv
<1> QED
  BY <1>0, <1>1, SchedulerMoves, SteadyPolicy, LifecyclePolicy DEF AuthorityInv

\* At first nothing is assigned.
LEMMA AuthorityInit == Init => AuthorityInv
  BY DEF Init, AuthorityInv, Attached, OfferedUnderPolicy, RunsOrShuts, ActiveIn

\* The three parts hold together in every state of every handler's execution.
LEMMA AuthorityInvariant == Spec => []AuthorityInv
<1>1. Init => AuthorityInv
  BY AuthorityInit
<1>2. AuthorityInv /\ LifeInv /\ LifeInv' /\ [Next]_vars => AuthorityInv'
  <2>1. LifeInv' => TypeOK'
    BY DEF LifeInv, WorkInv
  <2> QED
    BY <2>1, AuthorityInvNext
<1> QED
  BY <1>1, <1>2, LifeInvariant, PTL DEF Spec

\* The assignments that are offered have a current authority.
LEMMA AuthorityCurrent == AuthorityInv => DispatchableAuthorityCurrent
  BY DEF AuthorityInv, Attached, OfferedUnderPolicy, RunsOrShuts, Offered, ActiveIn,
         DispatchableAuthorityCurrent

\* Whatever dispatch() could hand out is bound to the policy and to the capability
\* generation in force, and is gone or current where the policy closes dispatch
\* authority at shutdown, whatever happened since it was planned.
THEOREM DispatchableAuthorityStaysCurrent == Spec => []DispatchableAuthorityCurrent
  BY AuthorityCurrent, AuthorityInvariant, PTL

\* An assignment is handed over only while all that it was bound to is current and,
\* under a policy that closes dispatch authority at shutdown, only by a scheduler
\* that runs, although the handoff does not test that it does.
THEOREM HandoffHasAuthority == Spec => HandoffOnlyUnderAuthority
<1> DEFINE Current(b) ==
              /\ BoundEpochsCurrent(b)
              /\ work[b.work].gen = b.workGen
              /\ work[b.work].lifecycle \notin TerminalWork
              /\ agents[b.agent].boot = b.boot
              /\ agents[b.agent].boot \notin fenced
              /\ agents[b.agent].capability.value = b.capGen
              /\ agents[b.agent].lifecycle \notin {"Draining", "Lost", "Retired"}
              /\ sched.closes => sched.running
<1>1. ASSUME LifeInv, AuthorityInv, [Next]_vars
      PROVE  \A b \in DOMAIN asg :
                asg[b].state # "Dispatched" /\ asg'[b].state = "Dispatched" => Current(b)
  <2>0. TypeOK /\ CapabilityOrdered
    BY <1>1 DEF LifeInv, WorkInv
  <2> SUFFICES ASSUME NEW b \in DOMAIN asg, asg[b].state # "Dispatched",
                      asg'[b].state = "Dispatched"
               PROVE  Current(b)
    OBVIOUS
  <2>1. PICK c \in Caller : Handoff(c)
    BY <1>1, <2>0, OnlyHandoffHands DEF HandsNothing
  <2>2. b = call[c].b
    BY <2>1 DEF Handoff
  <2>3. HandoffAllowed(b)
    BY <2>1, <2>2 DEF Handoff
  <2>4. sched.closes => sched.running
    BY <1>1, <2>3 DEF HandoffAllowed, AuthorityInv, OfferedUnderPolicy
  <2> QED
    BY <2>3, <2>4 DEF HandoffAllowed, revalidate_authority
<1> HIDE DEF Current
<1>2. LifeInv /\ AuthorityInv /\ [Next]_vars =>
        \A b \in DOMAIN asg :
           asg[b].state # "Dispatched" /\ asg'[b].state = "Dispatched" => Current(b)
  BY <1>1
<1> USE DEF Current
<1> QED
  BY <1>2, LifeInvariant, AuthorityInvariant, PTL DEF Spec, HandoffOnlyUnderAuthority

-----------------------------------------------------------------------------
(* Completion.                                                             *)

\* The lifecycles in which a report about an assignment can leave its work.
Done == {"Completed", "Failed"}

\* The step does not take w to lifecycle l, nor leave it there at another generation.
NotBrought(w, l) ==
    work'[w].lifecycle = l => work[w].lifecycle = l /\ work'[w].gen = work[w].gen

\* Some assignment in `as` that was made for generation g of w was completed.
CompletedIn(as, w, g) ==
    \E b \in DOMAIN as : b.work = w /\ b.workGen = g /\ as[b].state = "Completed"

\* Nothing that is kept is done.
LEMMA KeptNotDone ==
    ASSUME NEW w \in Work, WorkKept(work[w], work'[w]), NEW l \in Done
    PROVE  NotBrought(w, l)
  BY DEF WorkKept, NotBrought, Done

\* Every work handler ends work otherwise or starts it over.
LEMMA WorkNextNotDone ==
    ASSUME TypeOK, WorkNext, NEW x \in Work, NEW l \in Done
    PROVE  NotBrought(x, l)
<1>0. /\ {"Cancelled", "Expired"} \subseteq TerminalStates
      /\ work \in [Work -> WorkRecord]
  BY DEF TypeOK, TerminalStates
<1>1. ASSUME NEW w \in Work, NEW g, NEW r, submit_work(w, g, r) \/ supersede_work(w, g, r)
      PROVE  NotBrought(x, l)
  <2>1. work' = [work EXCEPT ![w] = Admitted(w, g, r)]
    BY <1>1 DEF submit_work, supersede_work, Readmit
  <2> QED
    BY <1>0, <2>1 DEF Admitted, NotBrought, Done
<1>2. ASSUME NEW w \in Work, cancel_work(w)
      PROVE  NotBrought(x, l)
  <2> DEFINE after == WorkAfter(Closed(OnWork(asg, w), "Cancelled"), OnWork(asg, w))
  <2>1. work' = [after EXCEPT ![w].lifecycle = "Cancelled"]
    BY <1>2 DEF cancel_work
  <2>2. after \in [Work -> WorkRecord] /\ WorkKept(work[x], after[x])
    BY <1>0, ClosedWorkType
  <2> HIDE DEF after
  <2> QED
    BY <2>1, <2>2 DEF NotBrought, Done, WorkKept, WorkRecord
<1>3. CASE expire_deadlines
  <2> DEFINE late == {w \in Work : /\ KnownWork(w)
                                   /\ work[w].lifecycle \notin TerminalWork
                                   /\ DeadlinePassed(w)}
             old == UNION {OnWork(asg, w) : w \in late}
             after == WorkAfter(Closed(old, "Expired"), old)
  <2>1. work' = [w \in Work |->
                   IF w \in late THEN [after[w] EXCEPT !.lifecycle = "Expired"]
                   ELSE work[w]]
    BY <1>3 DEF expire_deadlines
  <2>2. after \in [Work -> WorkRecord]
    BY <1>0, ClosedWorkType
  <2> HIDE DEF late, after
  <2> QED
    BY <2>1, <2>2 DEF NotBrought, Done, WorkRecord
<1> QED
  BY <1>1, <1>2, <1>3 DEF WorkNext

\* A report of the end of an assignment does it to the work of that assignment.
LEMMA FinishBrings ==
    ASSUME TypeOK, NEW b \in DOMAIN asg, NEW st \in Done, Finish(b, st),
           NEW x \in Work, NEW l \in Done
    PROVE  NotBrought(x, l) \/ (x = b.work /\ l = st /\ work'[x].gen = work[x].gen)
<1> DEFINE after == WorkAfter(Closed({b}, st), {b})
<1>0. st \in TerminalStates
  BY DEF TerminalStates, Done
<1>1. after \in [Work -> WorkRecord] /\ \A w \in Work : WorkKept(work[w], after[w])
  BY <1>0, ClosedWorkType DEF TypeOK
<1>2. work' = after \/ work' = [after EXCEPT ![b.work].lifecycle = st]
  BY DEF Finish
<1> HIDE DEF after
<1>3. CASE x # b.work \/ st # l \/ work' = after
  BY <1>1, <1>2, <1>3 DEF NotBrought, Done, WorkKept, WorkRecord
<1>4. CASE x = b.work /\ st = l /\ work' = [after EXCEPT ![b.work].lifecycle = st]
  BY <1>1, <1>4 DEF WorkKept, WorkRecord
<1> QED
  BY <1>2, <1>3, <1>4

\* If it brings Completed, an assignment of the work's generation was completed.
LEMMA FinishEarns ==
    ASSUME LifeInv, NEW b \in DOMAIN asg, Finish(b, "Completed"),
           work'[b.work].gen = work[b.work].gen
    PROVE  CompletedIn(asg', b.work, work'[b.work].gen)
<1>1. asg' = Closed({b}, "Completed") /\ asg[b].state \in ActiveStates
  BY DEF Finish
<1>2. work[b.work].gen = b.workGen
  BY <1>1 DEF LifeInv, WorkInv, ActiveWorkCurrent, ActiveIn
<1>3. asg[b] \in AssignmentRecord
  BY DEF LifeInv, WorkInv, TypeOK, AssignmentMap
<1>4. b \in DOMAIN asg' /\ asg'[b].state = "Completed"
  BY <1>1, <1>3 DEF Closed, AssignmentRecord
<1> QED
  BY <1>2, <1>4 DEF CompletedIn

\* Nothing is done by a commit.
LEMMA CommitNotDone ==
    ASSUME TypeOK, NEW c \in Caller, commit_locked(c), NEW x \in Work, NEW l \in Done
    PROVE  NotBrought(x, l)
<1> DEFINE b == call[c].b
           as == Emplaced(b, call[c].expires)
           stored == [work[b.work] EXCEPT !.lastGen = b.gen]
<1>1. b \in Binding /\ call[c].expires \in Nat /\ b.work \in Work /\ b.gen \in Nat
  BY CarriedType DEF commit_locked, Binding
<1>2. /\ stored \in WorkRecord /\ stored.gen = work[b.work].gen
      /\ stored.lifecycle = work[b.work].lifecycle
  BY <1>1 DEF TypeOK, WorkRecord
<1>3. work' = [work EXCEPT ![b.work] = RefreshedWork(as, stored, b.work)]
  BY <1>1 DEF commit_locked, TypeOK
<1> HIDE DEF b, as, stored
<1>4. /\ RefreshedWork(as, stored, b.work).gen = stored.gen
      /\ RefreshedWork(as, stored, b.work).lifecycle = l => stored.lifecycle = l
  BY <1>2 DEF RefreshedWork, WorkRecord, Done
<1> QED
  BY <1>1, <1>2, <1>3, <1>4 DEF TypeOK, NotBrought

\* Work is done by such a report about an assignment of it only.
LEMMA NextDone ==
    ASSUME TypeOK, TypeOK', [Next]_vars, NEW x \in Work, NEW l \in Done
    PROVE  \/ NotBrought(x, l)
           \/ \E b \in DOMAIN asg : /\ Finish(b, l) /\ b.work = x
                                    /\ work'[x].gen = work[x].gen
<1>0. AssignmentMap(asg)
      /\ {"Lost", "Expired", "Released", "Invalidated"} \subseteq TerminalStates
  BY DEF TypeOK, TerminalStates
<1>1. work' = work => NotBrought(x, l)
  BY DEF NotBrought
<1>2. ASSUME NEW ids, NEW st \in TerminalStates,
             work' = WorkAfter(Closed(ids, st), ids)
      PROVE  NotBrought(x, l)
  BY <1>0, <1>2, ClosedWorkType, KeptNotDone
<1>3. ASSUME NEW ids, work' = WorkAfter(asg', ids)
      PROVE  NotBrought(x, l)
  BY <1>0, <1>3, WorkAfterType, KeptNotDone DEF TypeOK
<1>4. CASE AgentNext
  <2>1. \/ work' = work
        \/ \E ids : \E st \in TerminalStates : work' = WorkAfter(Closed(ids, st), ids)
    <3> PICK a \in Agent :
          \/ \E g \in 1..MaxAgentGen, boot \in BootOf[a], m \in Concurrency :
                RegisterNew(a, g, boot, m) \/ Reincarnate(a, g, boot, m)
          \/ \E m \in Concurrency : Reregister(a, m)
          \/ \E g \in 1..MaxCapGen, at \in 1..now : publish_capabilities(a, g, at)
          \/ \E v \in HealthReports, at \in 1..now : publish_health(a, v, at)
          \/ \E v \in AvailReports, at \in 1..now : publish_availability(a, v, at)
          \/ heartbeat(a)
          \/ \E force \in BOOLEAN : drain_agent(a, force) \/ deregister_agent(a, force)
          \/ LoseCurrent(a)
          \/ \E boot \in BootOf[a] : LoseStale(a, boot)
      BY <1>4 DEF AgentNext
    <3> QED
      BY <1>0 DEF RegisterNew, Reincarnate, Reregister, publish_capabilities,
                  publish_health, publish_availability, heartbeat, drain_agent,
                  deregister_agent, LoseCurrent, LoseStale
  <2> QED
    BY <1>1, <1>2, <2>1
<1>5. CASE start \/ Tick \/ UNCHANGED vars
  BY <1>1, <1>5 DEF start, Tick, vars
<1>6. CASE shutdown \/ expire_leases
             \/ \E g \in 1..MaxPolicyGen, closes \in ClosePolicies : set_policy(g, closes)
  <2>1. \E ids : \E st \in TerminalStates : work' = WorkAfter(Closed(ids, st), ids)
    BY <1>0, <1>6 DEF shutdown, set_policy, expire_leases, CloseAssignments
  <2> QED
    BY <1>2, <2>1
<1>7. CASE \E c \in Caller : \/ \E w \in Work : plan_locked(c, w)
                             \/ CommitRejected(c)
                             \/ \E b \in DOMAIN asg : dispatch(c, b)
                             \/ Handoff(c)
                             \/ HandoffRejected(c)
  BY <1>1, <1>7 DEF plan_locked, CommitRejected, dispatch, Handoff, HandoffRejected
<1>8. CASE revalidate_assignments \/ \E a \in Agent : revalidate_agent_assignments(a)
  <2>1. \E ids : work' = WorkAfter(asg', ids)
    BY <1>8 DEF revalidate_assignments, revalidate_agent_assignments, Revalidate
  <2> QED
    BY <1>3, <2>1
<1>9. ASSUME NEW b \in DOMAIN asg, Report(b)
      PROVE  \/ NotBrought(x, l)
             \/ Finish(b, l) /\ b.work = x /\ work'[x].gen = work[x].gen
  <2>1. \/ work' = work
        \/ \E ids : work' = WorkAfter(asg', ids)
        \/ \E st \in Done : Finish(b, st)
    BY <1>9 DEF Report, Done, acknowledge, mark_executing, Return, CloseAssignments
  <2> QED
    BY <1>1, <1>3, <2>1, FinishBrings
<1> QED
  BY <1>0, <1>4, <1>5, <1>6, <1>7, <1>8, <1>9, WorkNextNotDone,
     CommitNotDone DEF Next, AssignmentNext

\* Work counts as Completed only if an assignment made for its current generation
\* was completed: a report about an older one cannot complete it, and the record
\* of the one that did stays.
THEOREM CompletionAlwaysEarned == Spec => []CompletionEarned
<1>1. Init => CompletionEarned
  BY DEF Init, CompletionEarned, UnknownWork
<1>2. ASSUME LifeInv, TypeOK', CompletionEarned, [Next]_vars
      PROVE  CompletionEarned'
  <2>0. TypeOK
    BY <1>2 DEF LifeInv, WorkInv
  <2> SUFFICES ASSUME NEW w \in Work, work'[w].lifecycle = "Completed"
               PROVE  CompletedIn(asg', w, work'[w].gen)
    BY DEF CompletionEarned, CompletedIn
  <2>1. CASE NotBrought(w, "Completed")
    <3>1. work[w].lifecycle = "Completed" /\ work'[w].gen = work[w].gen
      BY <2>1 DEF NotBrought
    <3>2. PICK b \in DOMAIN asg : /\ b.work = w /\ b.workGen = work[w].gen
                                  /\ asg[b].state = "Completed"
      BY <1>2, <3>1 DEF CompletionEarned
    <3>3. asg[b].state \in TerminalStates
      BY <3>2 DEF TerminalStates
    <3>4. b \in DOMAIN asg' /\ asg'[b] = asg[b]
      <4>1. CASE TerminalKept(asg')
        BY <3>3, <4>1 DEF TerminalKept
      <4>2. ASSUME NEW c \in Caller, commit_locked(c)
            PROVE  b \in DOMAIN asg' /\ asg'[b] = asg[b]
        BY <4>2, CommitStores DEF Adds
      <4> QED
        BY <1>2, <2>0, <4>1, <4>2, NextKept
    <3> QED
      BY <3>1, <3>2, <3>4 DEF CompletedIn
  <2>2. ASSUME NEW b \in DOMAIN asg, Finish(b, "Completed"), b.work = w,
               work'[w].gen = work[w].gen
        PROVE  CompletedIn(asg', w, work'[w].gen)
    BY <1>2, <2>2, FinishEarns
  <2>3. "Completed" \in Done
    BY DEF Done
  <2> QED
    BY <1>2, <2>0, <2>1, <2>2, <2>3, NextDone
<1>3. CompletionEarned /\ LifeInv /\ LifeInv' /\ [Next]_vars => CompletionEarned'
  <2>1. LifeInv' => TypeOK'
    BY DEF LifeInv, WorkInv
  <2> QED
    BY <1>2, <2>1
<1> QED
  BY <1>1, <1>3, LifeInvariant, PTL DEF Spec

=============================================================================
