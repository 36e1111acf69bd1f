--------------------------- MODULE RecoveryProofs ---------------------------
(***************************************************************************)
(* Proofs about Recovery, for every value of its constants.                *)
(***************************************************************************)
EXTENDS Recovery, AccountingProofs

-----------------------------------------------------------------------------
(* Fences.                                                                 *)

\* Every image in the file or in a thread holds the fences that were promised,
\* and an image that is still to be written holds no fence that is not in force.
FenceInv ==
    /\ DOMAIN io = Persister
    /\ promised \subseteq fenced
    /\ disk # NoImage => promised \subseteq disk.fenced
    /\ \A p \in Persister :
          /\ io[p] # Idle => promised \subseteq io[p].image.fenced
          /\ io[p].op = "save" => io[p].image.fenced \subseteq fenced

\* Initially nothing is promised and nothing is in flight.
LEMMA FenceInit == RecoveryInit => FenceInv
  BY DEF RecoveryInit, FenceInv, Idle

\* With one persister no step breaks FenceInv: while an image is on its way no
\* reload can take a fence back, and none is on its way when the state is
\* reloaded.
LEMMA FenceStep ==
    ASSUME \A p, q \in Persister : p = q, FenceInv, [RNext]_rvars
    PROVE  FenceInv'
<1>0. Idle.op = "idle"
  BY DEF Idle
<1>1. CASE SchedulerStep
  BY <1>1, FencesGrow DEF SchedulerStep, FenceInv
<1>2. ASSUME NEW p \in Persister, save(p)
      PROVE  FenceInv'
  <2> DEFINE m == [op |-> "save", image |-> Image]
  <2>1. /\ io' = [io EXCEPT ![p] = m]
        /\ UNCHANGED <<vars, disk, promised>>
    BY <1>2 DEF save
  <2>2. m.image.fenced = fenced
    BY DEF Image
  <2> HIDE DEF m
  <2> QED
    BY <2>1, <2>2 DEF FenceInv, vars
<1>3. ASSUME NEW p \in Persister, write_atomically(p)
      PROVE  FenceInv'
  <2>1. io[p] # Idle /\ io[p].op = "save"
    BY <1>0, <1>3 DEF write_atomically
  <2>2. /\ disk' = io[p].image
        /\ promised' = promised \cup io[p].image.fenced
        /\ fenced' = fenced
        /\ io' = [io EXCEPT ![p] = Idle]
    BY <1>3 DEF write_atomically, vars
  <2>3. \A q \in Persister : io'[q] = Idle
    BY <2>2 DEF FenceInv
  <2> QED
    BY <1>0, <2>1, <2>2, <2>3 DEF FenceInv
<1>4. ASSUME NEW p \in Persister, WriteFailed(p) \/ LoadRejected(p)
      PROVE  FenceInv'
  BY <1>0, <1>4 DEF WriteFailed, LoadRejected, FenceInv, vars
<1>5. ASSUME NEW p \in Persister, load(p)
      PROVE  FenceInv'
  <2> DEFINE m == [op |-> "load", image |-> disk]
  <2>1. /\ io' = [io EXCEPT ![p] = m]
        /\ disk # NoImage
        /\ UNCHANGED <<vars, disk, promised>>
    BY <1>5 DEF load
  <2>2. m.image = disk /\ m.op # "save"
    OBVIOUS
  <2> HIDE DEF m
  <2> QED
    BY <2>1, <2>2 DEF FenceInv, vars
<1>6. ASSUME NEW p \in Persister, LoadCommitted(p)
      PROVE  FenceInv'
  <2>1. io[p] # Idle /\ fenced' = io[p].image.fenced
    BY <1>0, <1>6 DEF LoadCommitted, Restore
  <2>2. io' = [io EXCEPT ![p] = Idle] /\ UNCHANGED <<disk, promised>>
    BY <1>6 DEF LoadCommitted
  <2>3. \A q \in Persister : io'[q] = Idle
    BY <2>2 DEF FenceInv
  <2> QED
    BY <1>0, <2>1, <2>2, <2>3 DEF FenceInv
<1>7. CASE Restart
  <2>1. /\ disk # NoImage /\ fenced' = disk.fenced
        /\ io' = [p \in Persister |-> Idle] /\ UNCHANGED <<disk, promised>>
    BY <1>7 DEF Restart, Restore
  <2> QED
    BY <1>0, <2>1 DEF FenceInv
<1>8. CASE UNCHANGED rvars
  BY <1>8 DEF rvars, vars, FenceInv
<1> QED
  BY <1>1, <1>2, <1>3, <1>4, <1>5, <1>6, <1>7, <1>8 DEF RNext

\* A fence that a successful save() wrote is in force in every later life,
\* however the process dies and whatever happens between the halves of save()
\* and load(), as long as one thread does all saving and loading.
THEOREM SavedFencesSurvive ==
    ASSUME \A p, q \in Persister : p = q
    PROVE  RSpec => []FencesSurvive
<1>1. FenceInv => FencesSurvive
  BY DEF FenceInv, FencesSurvive
<1> QED
  BY <1>1, FenceInit, FenceStep, PTL DEF RSpec

-----------------------------------------------------------------------------
(* Types of images and of what they restore to.                            *)

\* What save() encodes in a typed state is an image.
LEMMA ImageTyped ==
    ASSUME TypeOK
    PROVE  IsImage(Image)
<1>1. /\ {Image.epoch, Image.coord, Image.policy} \subseteq Nat
      /\ Image.closes \in BOOLEAN
      /\ Image.fenced \subseteq Boot
  BY DEF Image, TypeOK, SchedulerRecord
<1>2. ASSUME NEW a \in Agent
      PROVE  /\ SavedAgent(agents[a]) \in AgentImage
             /\ SavedAgent(agents[a]).lifecycle # "Unregistered" =>
                   SavedAgent(agents[a]).boot \in BootOf[a]
  <2>1. agents[a] \in AgentRecord /\ (Known(a) => agents[a].boot \in BootOf[a])
    BY DEF TypeOK
  <2> QED
    BY <2>1 DEF SavedAgent, AgentImage, AgentRecord, Evidence, lifecycle_hint, Known
<1>3. /\ Image.agents \in [Agent -> AgentImage]
      /\ \A a \in Agent : Image.agents[a].lifecycle # "Unregistered" =>
                           Image.agents[a].boot \in BootOf[a]
  BY <1>2 DEF Image
<1>4. Image.work \in [Work -> WorkImage]
  BY DEF Image, SavedWork, WorkImage, TypeOK, WorkRecord
<1>5. /\ DOMAIN Image.asg = DOMAIN asg
      /\ Image.asg \in [DOMAIN asg -> [state : ActiveStates \cup TerminalStates,
                                       expires : Nat]]
  BY DEF Image, TypeOK, AssignmentMap, AssignmentRecord
<1>6. DOMAIN asg \subseteq Binding /\ IsFiniteSet(DOMAIN asg)
  BY DEF TypeOK, AssignmentMap
<1> HIDE DEF Image
<1> QED
  BY <1>1, <1>3, <1>4, <1>5, <1>6 DEF IsImage

\* The restored assignments form an assignment map.
LEMMA RestoredMap ==
    ASSUME NEW i, IsImage(i)
    PROVE  AssignmentMap(RestoredAssignments(i))
<1>1. ASSUME NEW b \in DOMAIN i.asg
      PROVE  RestoredAssignment(i.asg[b]) \in AssignmentRecord
  <2>1. i.asg[b] \in [state : ActiveStates \cup TerminalStates, expires : Nat]
    BY DEF IsImage
  <2> QED
    BY <2>1 DEF RestoredAssignment, AssignmentRecord, ActiveStates
<1>2. DOMAIN i.asg \subseteq Binding /\ IsFiniteSet(DOMAIN i.asg)
  BY DEF IsImage
<1> QED
  BY <1>1, <1>2 DEF RestoredAssignments, AssignmentMap

\* The restored agents are typed.
LEMMA RestoredAgentsTyped ==
    ASSUME NEW i, IsImage(i)
    PROVE  AgentsTyped(RestoredAgents(i))
<1> DEFINE as == RestoredAssignments(i)
<1>1. AssignmentMap(as)
  BY RestoredMap
<1> HIDE DEF as
<1>2. ASSUME NEW a \in Agent
      PROVE  /\ RestoredAgents(i)[a] \in AgentRecord
             /\ RestoredAgents(i)[a].lifecycle # "Unregistered" =>
                   RestoredAgents(i)[a].boot \in BootOf[a]
  <2> DEFINE r == RestoredAgent(i.agents[a])
  <2>1. /\ i.agents[a] \in AgentImage
        /\ i.agents[a].lifecycle # "Unregistered" => i.agents[a].boot \in BootOf[a]
    BY DEF IsImage
  <2>2. /\ r \in AgentRecord
        /\ r.lifecycle = i.agents[a].lifecycle /\ r.boot = i.agents[a].boot
    BY <2>1 DEF RestoredAgent, AgentImage, AgentRecord, AgentLifecycles, Evidence,
                NoEvidence, Healths, Avails
  <2>3. RestoredAgents(i)[a] = IF r.lifecycle = "Unregistered" THEN r
                               ELSE RefreshedAgent(as, r, a)
    BY DEF RestoredAgents, as
  <2> HIDE DEF r
  <2>4. r.lifecycle # "Unregistered" =>
          /\ RefreshedAgent(as, r, a) \in AgentRecord
          /\ AgentKept(r, RefreshedAgent(as, r, a))
    BY <1>1, <2>2, RefreshedAgentType
  <2> QED
    BY <2>1, <2>2, <2>3, <2>4 DEF AgentKept
<1> QED
  BY <1>2 DEF AgentsTyped, RestoredAgents

\* The restored work items are work records.
LEMMA RestoredWorkTyped ==
    ASSUME NEW i, IsImage(i)
    PROVE  RestoredWorkItems(i) \in [Work -> WorkRecord]
<1> DEFINE as == RestoredAssignments(i)
<1>1. AssignmentMap(as)
  BY RestoredMap
<1> HIDE DEF as
<1>2. ASSUME NEW w \in Work
      PROVE  RestoredWorkItems(i)[w] \in WorkRecord
  <2> DEFINE r == RestoredWork(i.work[w])
  <2>1. i.work[w] \in WorkImage
    BY DEF IsImage
  <2>2. r \in WorkRecord
    BY <2>1 DEF RestoredWork, WorkImage, WorkRecord, WorkLifecycles
  <2>3. RestoredWorkItems(i)[w] = IF r.lifecycle = "Unknown" THEN r
                                  ELSE RefreshedWork(as, r, w)
    BY DEF RestoredWorkItems, as
  <2> HIDE DEF r
  <2> QED
    BY <1>1, <2>2, <2>3, RefreshedWorkType
<1> QED
  BY <1>2 DEF RestoredWorkItems

\* A reload leaves a typed state, if clock and calls are typed.
LEMMA RestoreTyped ==
    ASSUME NEW i, IsImage(i), Restore(i), now' \in Nat, call' \in [Caller -> Calls]
    PROVE  TypeOK'
<1>1. sched' \in SchedulerRecord
  BY DEF Restore, RestoredScheduler, IsImage, SchedulerRecord
<1>2. fenced' \subseteq Boot
  BY DEF Restore, IsImage
<1>3. AssignmentMap(asg')
  BY RestoredMap DEF Restore
<1>4. AgentsTyped(agents') /\ work' \in [Work -> WorkRecord]
  BY RestoredAgentsTyped, RestoredWorkTyped DEF Restore
<1> QED
  BY <1>1, <1>2, <1>3, <1>4, TypeParts

\* The type invariant without TypeOK: what the file and the threads hold.
HeldTyped ==
    /\ disk = NoImage \/ IsImage(disk)
    /\ DOMAIN io = Persister
    /\ \A p \in Persister :
          \/ io[p] = Idle
          \/ io[p].op \in {"save", "load"} /\ IsImage(io[p].image)
    /\ life \in 1..MaxLives

\* What persister p carries, when it carries anything, is an image.
LEMMA CarriedImage ==
    ASSUME HeldTyped, NEW p \in Persister, io[p].op \in {"save", "load"}
    PROVE  IsImage(io[p].image)
  BY DEF HeldTyped, Idle

\* Whether anything was lost so far stays a truth value.
LEMMA KeptTyped ==
    ASSUME kept \in BOOLEAN, [RNext]_rvars
    PROVE  kept' \in BOOLEAN
<1>1. SchedulerStep => kept' = kept
  BY DEF SchedulerStep
<1>2. ASSUME NEW p \in Persister PROVE
        /\ save(p) \/ write_atomically(p) \/ WriteFailed(p) \/ load(p) \/ LoadRejected(p)
             => kept' = kept
        /\ LoadCommitted(p) => kept' \in BOOLEAN
  BY DEF save, write_atomically, WriteFailed, load, LoadRejected, LoadCommitted,
         Restore
<1>3. Restart => kept' \in BOOLEAN
  BY DEF Restart, Restore
<1> QED
  BY <1>1, <1>2, <1>3 DEF RNext, rvars

\* Every step keeps the types.
LEMMA RTypeStep ==
    ASSUME RTypeOK, [RNext]_rvars
    PROVE  RTypeOK'
<1>0. TypeOK /\ HeldTyped
  BY DEF RTypeOK, HeldTyped
<1>1. TypeOK' /\ HeldTyped' => RTypeOK'
  BY KeptTyped DEF RTypeOK, HeldTyped
<1>2. CASE SchedulerStep
  <2>1. TypeOK'
    BY <1>0, <1>2, NextType DEF SchedulerStep
  <2>2. HeldTyped'
    BY <1>0, <1>2 DEF SchedulerStep, HeldTyped, IsImage
  <2> QED
    BY <1>1, <2>1, <2>2
<1>3. ASSUME NEW m, NEW p \in Persister, UNCHANGED <<vars, life>>,
             m = Idle \/ (m.op \in {"save", "load"} /\ IsImage(m.image)),
             io' = [io EXCEPT ![p] = m],
             disk' = disk \/ IsImage(disk')
      PROVE  RTypeOK'
  <2>1. TypeOK'
    BY <1>0, <1>3, NextType DEF vars
  <2>2. HeldTyped'
    BY <1>0, <1>3 DEF HeldTyped, IsImage
  <2> QED
    BY <1>1, <2>1, <2>2
<1>4. ASSUME NEW p \in Persister, save(p)
      PROVE  RTypeOK'
  <2> DEFINE m == [op |-> "save", image |-> Image]
  <2>1. io' = [io EXCEPT ![p] = m] /\ UNCHANGED <<vars, disk, life>>
    BY <1>4 DEF save
  <2>2. m.op = "save" /\ IsImage(m.image)
    BY <1>0, ImageTyped
  <2> HIDE DEF m
  <2> QED
    BY <1>3, <2>1, <2>2
<1>5. ASSUME NEW p \in Persister, write_atomically(p)
      PROVE  RTypeOK'
  <2>1. IsImage(io[p].image)
    BY <1>0, <1>5, CarriedImage DEF write_atomically
  <2> QED
    BY <1>3, <1>5, <2>1 DEF write_atomically
<1>6. ASSUME NEW p \in Persister, WriteFailed(p) \/ LoadRejected(p)
      PROVE  RTypeOK'
  BY <1>3, <1>6 DEF WriteFailed, LoadRejected
<1>7. ASSUME NEW p \in Persister, load(p)
      PROVE  RTypeOK'
  <2> DEFINE m == [op |-> "load", image |-> disk]
  <2>1. io' = [io EXCEPT ![p] = m] /\ UNCHANGED <<vars, disk, life>>
    BY <1>7 DEF load
  <2>2. m.op = "load" /\ IsImage(m.image)
    BY <1>0, <1>7 DEF load, HeldTyped
  <2> HIDE DEF m
  <2> QED
    BY <1>3, <2>1, <2>2
<1>8. ASSUME NEW i, IsImage(i), Restore(i), now' \in Nat,
             call' \in [Caller -> Calls], disk' = disk, DOMAIN io' = Persister,
             \A p \in Persister : io'[p] = io[p] \/ io'[p] = Idle
      PROVE  RTypeOK'
  <2>1. TypeOK'
    BY <1>8, RestoreTyped
  <2>2. life' \in 1..MaxLives
    BY <1>0, <1>8, Lives DEF Restore, HeldTyped
  <2>3. HeldTyped'
    BY <1>0, <1>8, <2>2 DEF HeldTyped, IsImage
  <2> QED
    BY <1>1, <2>1, <2>3
<1>9. ASSUME NEW p \in Persister, LoadCommitted(p)
      PROVE  RTypeOK'
  <2>1. IsImage(io[p].image) /\ Restore(io[p].image)
    BY <1>0, <1>9, CarriedImage DEF LoadCommitted
  <2>2. now' \in Nat /\ call' \in [Caller -> Calls]
    BY <1>0, <1>9 DEF LoadCommitted, TypeOK
  <2>3. /\ disk' = disk /\ DOMAIN io' = Persister
        /\ \A q \in Persister : io'[q] = io[q] \/ io'[q] = Idle
    BY <1>0, <1>9 DEF LoadCommitted, HeldTyped
  <2> QED
    BY <1>8, <2>1, <2>2, <2>3
<1>10. CASE Restart
  <2>1. IsImage(disk) /\ Restore(disk)
    BY <1>0, <1>10 DEF Restart, HeldTyped
  <2>2. now' \in Nat /\ call' \in [Caller -> Calls]
    BY <1>10, Bounds, IdleCall DEF Restart
  <2>3. /\ disk' = disk /\ DOMAIN io' = Persister
        /\ \A q \in Persister : io'[q] = io[q] \/ io'[q] = Idle
    BY <1>10 DEF Restart
  <2> QED
    BY <1>8, <2>1, <2>2, <2>3
<1>11. CASE UNCHANGED rvars
  <2>1. TypeOK'
    BY <1>0, <1>11, NextType DEF rvars
  <2>2. HeldTyped'
    BY <1>0, <1>11 DEF rvars, HeldTyped, IsImage
  <2> QED
    BY <1>1, <2>1, <2>2
<1> QED
  BY <1>2, <1>4, <1>5, <1>6, <1>7, <1>9, <1>10, <1>11 DEF RNext

\* Types survive every save, reload and death of the process: whatever is
\* restored is a well formed scheduler, with agents that run as boots somebody
\* named for them.
THEOREM RecoveryTypeCorrect == RSpec => []RTypeOK
<1>1. Init /\ RecoveryInit => RTypeOK
  BY InitType, Lives DEF RecoveryInit, RTypeOK
<1> QED
  BY <1>1, RTypeStep, PTL DEF RSpec

-----------------------------------------------------------------------------
(***************************************************************************)
(* What a reload leaves of authority.                                      *)
(*                                                                         *)
(* Every image has assignments bound to its own epoch or an earlier one,   *)
(* and to generations its agents have reached, because the state it was    *)
(* taken from had.  The reload moves the epoch on and suspends what was    *)
(* active, so nothing suspended can pass revalidation: the order that      *)
(* AssignmentLife rests on survives any reload of any image, however old.  *)
(***************************************************************************)

EpochsBehind == \A b \in DOMAIN asg : b.epoch <= sched.epoch

ImageFields == {"epoch", "coord", "policy", "closes", "fenced", "agents", "work",
                "asg"}

ImageOrdered(i) ==
    /\ DOMAIN i = ImageFields
    /\ \A b \in DOMAIN i.asg : b.epoch <= i.epoch
    /\ \A b \in DOMAIN i.asg : i.asg[b].state \in ActiveStates =>
          /\ i.agents[b.agent].lifecycle # "Unregistered"
          /\ b.agentGen <= i.agents[b.agent].gen
          /\ b.agentGen = i.agents[b.agent].gen =>
                b.capGen <= i.agents[b.agent].capGen

ImagesOrdered ==
    /\ disk = NoImage \/ ImageOrdered(disk)
    /\ \A p \in Persister : io[p] = Idle \/ ImageOrdered(io[p].image)

ReloadInv == RTypeOK /\ CapabilityOrdered /\ EpochsBehind /\ ImagesOrdered

\* What save() encodes is as ordered as the state.
LEMMA ImageInOrder ==
    ASSUME TypeOK, CapabilityOrdered, EpochsBehind
    PROVE  ImageOrdered(Image)
<1>1. /\ DOMAIN Image = ImageFields
      /\ DOMAIN Image.asg = DOMAIN asg /\ Image.epoch = sched.epoch
  BY DEF Image, ImageFields
<1>2. \A b \in DOMAIN asg : Image.asg[b].state = asg[b].state
  BY DEF Image
<1>3. ASSUME NEW b \in ActiveIn(asg)
      PROVE  /\ Image.agents[b.agent].lifecycle # "Unregistered"
             /\ b.agentGen <= Image.agents[b.agent].gen
             /\ b.agentGen = Image.agents[b.agent].gen =>
                   b.capGen <= Image.agents[b.agent].capGen
  <2>1. b.agent \in Agent
    BY ActiveTyped
  <2>2. Image.agents[b.agent] = SavedAgent(agents[b.agent])
    BY <2>1 DEF Image
  <2>3. /\ SavedAgent(agents[b.agent]).gen = agents[b.agent].gen
        /\ SavedAgent(agents[b.agent]).capGen = agents[b.agent].capability.value
        /\ Known(b.agent) => SavedAgent(agents[b.agent]).lifecycle # "Unregistered"
    BY DEF SavedAgent, lifecycle_hint, Known
  <2> QED
    BY <2>2, <2>3 DEF CapabilityOrdered
<1> HIDE DEF Image
<1> QED
  BY <1>1, <1>2, <1>3 DEF ImageOrdered, EpochsBehind, ActiveIn

\* What becomes of the assignments of an image: the active ones are active
\* again, suspended and without a lease, and none is Assigned.
LEMMA RestoredStates ==
    ASSUME NEW i, IsImage(i)
    PROVE  /\ DOMAIN RestoredAssignments(i) = DOMAIN i.asg
           /\ ActiveIn(RestoredAssignments(i)) =
                 {b \in DOMAIN i.asg : i.asg[b].state \in ActiveStates}
           /\ \A b \in ActiveIn(RestoredAssignments(i)) :
                 /\ RestoredAssignments(i)[b].state = "RevalidationRequired"
                 /\ ~RestoredAssignments(i)[b].leaseCurrent
           /\ \A b \in DOMAIN i.asg : RestoredAssignments(i)[b].state # "Assigned"
  BY DEF RestoredAssignments, RestoredAssignment, ActiveIn, ActiveStates

\* The restored agents are the saved ones, with their generations.
LEMMA RestoredAgentSame ==
    ASSUME NEW i, IsImage(i), NEW a \in Agent
    PROVE  /\ RestoredAgents(i)[a].gen = i.agents[a].gen
           /\ RestoredAgents(i)[a].capability.value = i.agents[a].capGen
           /\ i.agents[a].lifecycle # "Unregistered" =>
                 RestoredAgents(i)[a].lifecycle # "Unregistered"
<1> DEFINE as == RestoredAssignments(i)
           r == RestoredAgent(i.agents[a])
<1>1. AssignmentMap(as)
  BY RestoredMap
<1>2. i.agents[a] \in AgentImage
  BY DEF IsImage
<1>3. /\ r \in AgentRecord
      /\ r.lifecycle = i.agents[a].lifecycle /\ r.gen = i.agents[a].gen
      /\ r.capability.value = i.agents[a].capGen
  BY <1>2 DEF RestoredAgent, AgentImage, AgentRecord, AgentLifecycles, Evidence,
              NoEvidence, Healths, Avails
<1>4. RestoredAgents(i)[a] = IF r.lifecycle = "Unregistered" THEN r
                             ELSE RefreshedAgent(as, r, a)
  BY DEF RestoredAgents
<1> HIDE DEF as, r
<1>5. r.lifecycle # "Unregistered" => AgentKept(r, RefreshedAgent(as, r, a))
  BY <1>1, <1>3, RefreshedAgentType
<1> QED
  BY <1>3, <1>4, <1>5 DEF AgentKept

\* A reload restores order.
LEMMA RestoreOrdered ==
    ASSUME NEW i, IsImage(i), ImageOrdered(i), Restore(i)
    PROVE  CapabilityOrdered' /\ EpochsBehind'
<1>1. /\ asg' = RestoredAssignments(i) /\ agents' = RestoredAgents(i)
      /\ sched'.epoch = i.epoch + 1 /\ i.epoch \in Nat
  BY DEF Restore, RestoredScheduler, IsImage
<1>2. \A b \in DOMAIN i.asg : b.epoch \in Nat /\ b.agent \in Agent
  BY DEF IsImage, Binding
<1>3. EpochsBehind'
  BY <1>1, <1>2, RestoredStates DEF EpochsBehind, ImageOrdered
<1>4. CapabilityOrdered'
  <2> SUFFICES ASSUME NEW b \in ActiveIn(asg')
               PROVE  /\ agents'[b.agent].lifecycle # "Unregistered"
                      /\ b.agentGen <= agents'[b.agent].gen
                      /\ b.agentGen = agents'[b.agent].gen =>
                            b.capGen <= agents'[b.agent].capability.value
                      /\ b.epoch < sched'.epoch
    BY DEF CapabilityOrdered, Known
  <2>1. b \in DOMAIN i.asg /\ i.asg[b].state \in ActiveStates
    BY <1>1, RestoredStates
  <2> QED
    BY <1>1, <1>2, <2>1, RestoredAgentSame DEF ImageOrdered
<1> QED
  BY <1>3, <1>4

\* A step of the scheduler binds nothing to a later epoch than its own.
LEMMA EpochsBehindNext ==
    ASSUME TypeOK, EpochsBehind, [Next]_vars
    PROVE  EpochsBehind'
<1>1. TerminalKept(asg') \/ \E c \in Caller : commit_locked(c)
  BY NextKept
<1>2. ASSUME NEW c \in Caller, commit_locked(c)
      PROVE  EpochsBehind'
  <2>1. /\ call[c].b.epoch = sched.epoch /\ sched' = sched
        /\ call[c].b \in Binding
    BY <1>2, CarriedType DEF commit_locked, CommitAllowed, BoundEpochsCurrent
  <2>2. DOMAIN asg' = DOMAIN asg \cup {call[c].b}
    BY <1>2, CommitStores DEF Adds
  <2> QED
    BY <2>1, <2>2 DEF EpochsBehind, Binding
<1>3. CASE TerminalKept(asg')
  BY <1>3, EpochKept DEF TerminalKept, EpochsBehind
<1> QED
  BY <1>1, <1>2, <1>3

\* Every step keeps the order, of the state and of every image.
LEMMA ReloadStep ==
    ASSUME ReloadInv, [RNext]_rvars
    PROVE  ReloadInv'
<1>0. /\ RTypeOK /\ RTypeOK' /\ TypeOK /\ HeldTyped
      /\ CapabilityOrdered /\ EpochsBehind /\ ImagesOrdered
  BY RTypeStep DEF ReloadInv, RTypeOK, HeldTyped
<1>1. CASE SchedulerStep
  <2>1. Next /\ UNCHANGED <<disk, io>>
    BY <1>1 DEF SchedulerStep
  <2>2. CapabilityOrdered' /\ EpochsBehind'
    BY <1>0, <2>1, OrderedNext, EpochsBehindNext
  <2> QED
    BY <1>0, <2>1, <2>2 DEF ReloadInv, ImagesOrdered, ImageOrdered
<1>2. ASSUME NEW m, NEW p \in Persister, UNCHANGED vars,
             m = Idle \/ ImageOrdered(m.image), io' = [io EXCEPT ![p] = m],
             disk' = disk \/ ImageOrdered(disk')
      PROVE  ReloadInv'
  <2>1. CapabilityOrdered' /\ EpochsBehind'
    BY <1>0, <1>2, OrderedNext, EpochsBehindNext
  <2>2. ASSUME NEW q \in Persister
        PROVE  io'[q] = Idle \/ ImageOrdered(io'[q].image)
    <3>1. io'[q] = IF q = p THEN m ELSE io[q]
      BY <1>0, <1>2 DEF HeldTyped
    <3> QED
      BY <1>0, <1>2, <3>1 DEF ImagesOrdered
  <2>3. disk' = NoImage \/ ImageOrdered(disk')
    BY <1>0, <1>2 DEF ImagesOrdered
  <2>4. ImagesOrdered'
    BY <2>2, <2>3 DEF ImagesOrdered, ImageOrdered
  <2> QED
    BY <1>0, <2>1, <2>4 DEF ReloadInv
<1>3. ASSUME NEW p \in Persister, save(p)
      PROVE  ReloadInv'
  <2> DEFINE m == [op |-> "save", image |-> Image]
  <2>1. io' = [io EXCEPT ![p] = m] /\ UNCHANGED <<vars, disk>>
    BY <1>3 DEF save
  <2>2. ImageOrdered(m.image)
    BY <1>0, ImageInOrder
  <2> HIDE DEF m
  <2> QED
    BY <1>2, <2>1, <2>2
<1>4. ASSUME NEW p \in Persister, write_atomically(p)
      PROVE  ReloadInv'
  <2>1. io[p] # Idle /\ disk' = io[p].image
    BY <1>4 DEF write_atomically, Idle
  <2>2. ImageOrdered(disk')
    BY <1>0, <2>1 DEF ImagesOrdered
  <2> QED
    BY <1>2, <1>4, <2>2 DEF write_atomically
<1>5. ASSUME NEW p \in Persister, WriteFailed(p) \/ LoadRejected(p)
      PROVE  ReloadInv'
  BY <1>2, <1>5 DEF WriteFailed, LoadRejected
<1>6. ASSUME NEW p \in Persister, load(p)
      PROVE  ReloadInv'
  <2> DEFINE m == [op |-> "load", image |-> disk]
  <2>1. io' = [io EXCEPT ![p] = m] /\ UNCHANGED <<vars, disk>>
    BY <1>6 DEF load
  <2>2. ImageOrdered(m.image)
    BY <1>0, <1>6 DEF load, ImagesOrdered
  <2> HIDE DEF m
  <2> QED
    BY <1>2, <2>1, <2>2
<1>7. ASSUME NEW i, IsImage(i), ImageOrdered(i), Restore(i), disk' = disk,
             \A p \in Persister : io'[p] = io[p] \/ io'[p] = Idle
      PROVE  ReloadInv'
  <2>1. CapabilityOrdered' /\ EpochsBehind'
    BY <1>7, RestoreOrdered
  <2>2. ImagesOrdered'
    BY <1>0, <1>7 DEF ImagesOrdered, ImageOrdered
  <2> QED
    BY <1>0, <2>1, <2>2 DEF ReloadInv
<1>8. ASSUME NEW p \in Persister, LoadCommitted(p)
      PROVE  ReloadInv'
  <2>1. io[p] # Idle /\ IsImage(io[p].image) /\ Restore(io[p].image)
    BY <1>0, <1>8, CarriedImage DEF LoadCommitted, Idle
  <2>2. /\ disk' = disk
        /\ \A q \in Persister : io'[q] = io[q] \/ io'[q] = Idle
    BY <1>0, <1>8 DEF LoadCommitted, HeldTyped
  <2>3. ImageOrdered(io[p].image)
    BY <1>0, <2>1 DEF ImagesOrdered
  <2> QED
    BY <1>7, <2>1, <2>2, <2>3
<1>9. CASE Restart
  <2>1. IsImage(disk) /\ ImageOrdered(disk) /\ Restore(disk)
    BY <1>0, <1>9 DEF Restart, HeldTyped, ImagesOrdered
  <2>2. disk' = disk /\ \A q \in Persister : io'[q] = io[q] \/ io'[q] = Idle
    BY <1>9 DEF Restart
  <2> QED
    BY <1>7, <2>1, <2>2
<1>10. CASE UNCHANGED rvars
  <2>1. UNCHANGED vars /\ UNCHANGED <<disk, io>>
    BY <1>10 DEF rvars
  <2>2. CapabilityOrdered' /\ EpochsBehind'
    BY <1>0, <2>1, OrderedNext, EpochsBehindNext
  <2> QED
    BY <1>0, <2>1, <2>2 DEF ReloadInv, ImagesOrdered, ImageOrdered
<1> QED
  BY <1>1, <1>3, <1>4, <1>5, <1>6, <1>8, <1>9, <1>10 DEF RNext

\* The order holds in every reachable state.
LEMMA ReloadInvariant == RSpec => []ReloadInv
<1>1. Init /\ RecoveryInit => ReloadInv
  <2> SUFFICES ASSUME Init, RecoveryInit PROVE ReloadInv
    OBVIOUS
  <2>1. RTypeOK
    BY InitType, Lives DEF RecoveryInit, RTypeOK
  <2>2. CapabilityOrdered /\ EpochsBehind
    BY DEF Init, CapabilityOrdered, EpochsBehind, ActiveIn
  <2>3. ImagesOrdered
    BY DEF RecoveryInit, ImagesOrdered
  <2> QED
    BY <2>1, <2>2, <2>3 DEF ReloadInv
<1> QED
  BY <1>1, ReloadStep, PTL DEF RSpec

\* A step that reloads: which image it takes, and what it does to the calls.
LEMMA RStepCases ==
    ASSUME ReloadInv, [RNext]_rvars
    PROVE  \/ SchedulerStep
           \/ UNCHANGED <<vars, owners, past, kept>>
           \/ \E i : /\ IsImage(i) /\ ImageOrdered(i) /\ Restore(i)
                     /\ \A c \in Caller : \/ call'[c] = call[c] /\ now' = now
                                          \/ call'[c].op = "idle"
<1>0. HeldTyped /\ ImagesOrdered
  BY DEF ReloadInv, RTypeOK, HeldTyped
<1>1. ASSUME NEW p \in Persister,
             save(p) \/ write_atomically(p) \/ WriteFailed(p) \/ load(p)
               \/ LoadRejected(p)
      PROVE  UNCHANGED <<vars, owners, past, kept>>
  BY <1>1 DEF save, write_atomically, WriteFailed, load, LoadRejected
<1>2. ASSUME NEW p \in Persister, LoadCommitted(p)
      PROVE  /\ IsImage(io[p].image) /\ ImageOrdered(io[p].image)
             /\ Restore(io[p].image) /\ call' = call /\ now' = now
  BY <1>0, <1>2, CarriedImage DEF LoadCommitted, ImagesOrdered, Idle
<1>3. CASE Restart
  BY <1>0, <1>3 DEF Restart, HeldTyped, ImagesOrdered, Idle
<1>4. CASE UNCHANGED rvars
  BY <1>4 DEF rvars
<1> QED
  BY <1>1, <1>2, <1>3, <1>4 DEF RNext

\* No suspended assignment is promoted, in any life and by any reload, however
\* old the image it takes and whatever calls were in flight.
THEOREM NeverPromotedInAnyLife == RSpec => NeverPromoted
<1>1. ASSUME ReloadInv, [RNext]_rvars
      PROVE  \A b \in DOMAIN asg :
                asg[b].state = "RevalidationRequired" /\ b \in DOMAIN asg' =>
                    asg'[b].state # "Assigned"
  <2>0. RTypeOK /\ TypeOK /\ CapabilityOrdered
    BY <1>1 DEF ReloadInv, RTypeOK
  <2>1. CASE SchedulerStep
    <3>1. Moves(asg') \/ \E c \in Caller : commit_locked(c)
      BY <2>0, <2>1, NextMoves DEF SchedulerStep
    <3>2. Moves(asg') => \A b \in DOMAIN asg :
                asg[b].state = "RevalidationRequired" => asg'[b].state # "Assigned"
      BY DEF Moves, Stage, Life!After
    <3>3. ASSUME NEW c \in Caller, commit_locked(c)
          PROVE  \A b \in DOMAIN asg : asg'[b] = asg[b]
      BY <3>3, CommitStores DEF Adds
    <3> QED
      BY <3>1, <3>2, <3>3
  <2>2. CASE UNCHANGED vars
    BY <2>2 DEF vars
  <2>3. ASSUME NEW i, IsImage(i), Restore(i)
        PROVE  \A b \in DOMAIN asg' : asg'[b].state # "Assigned"
    BY <2>3, RestoredStates DEF Restore
  <2> QED
    BY <1>1, <2>0, <2>1, <2>2, <2>3, RStepCases
<1> QED
  BY <1>1, ReloadInvariant, PTL DEF RSpec, NeverPromoted

-----------------------------------------------------------------------------
(***************************************************************************)
(* Ownership across lives.                                                 *)
(*                                                                         *)
(* As long as every life was read back as it ended, a reload changes       *)
(* neither which assignments are active nor what they were made for, and   *)
(* the calls that survive it find their work as they left it.  So the      *)
(* invariant of the work items (WorkInv) holds throughout, what agents     *)
(* hold is active whichever life handed it out, and what is held from an   *)
(* earlier life is bound to an earlier epoch, suspended and without lease. *)
(***************************************************************************)

PastSuspended ==
    /\ past \subseteq DOMAIN asg
    /\ \A b \in past :
          /\ b.epoch < sched.epoch
          /\ b \in ActiveIn(asg) => /\ asg[b].state = "RevalidationRequired"
                                    /\ ~asg[b].leaseCurrent

OwnershipInv ==
    kept => /\ WorkInv
            /\ owners \subseteq ActiveIn(asg)
            /\ PastSuspended

\* An image that reads back as the state does has the same work items and the
\* same assignments, active or not.
LEMMA ReadBackSame ==
    ASSUME TypeOK, NEW i, IsImage(i), ImageOrdered(i),
           ReadBack(i) = ReadBack(Image)
    PROVE  /\ i.epoch = sched.epoch
           /\ i.work = [w \in Work |-> SavedWork(work[w])]
           /\ DOMAIN i.asg = DOMAIN asg
           /\ \A b \in DOMAIN asg :
                 i.asg[b].state \in ActiveStates <=> asg[b].state \in ActiveStates
<1>1. /\ ReadBack(i).epoch = i.epoch /\ ReadBack(i).work = i.work
      /\ ReadBack(i).asg = [b \in DOMAIN i.asg |-> i.asg[b].state \in ActiveStates]
  BY DEF ReadBack, ImageOrdered, ImageFields
<1>2. /\ ReadBack(Image).epoch = sched.epoch
      /\ ReadBack(Image).work = [w \in Work |-> SavedWork(work[w])]
      /\ ReadBack(Image).asg = [b \in DOMAIN asg |-> asg[b].state \in ActiveStates]
  <2>1. /\ DOMAIN Image = ImageFields
        /\ Image.epoch = sched.epoch
        /\ Image.work = [w \in Work |-> SavedWork(work[w])]
        /\ Image.asg = [b \in DOMAIN asg |-> [state |-> asg[b].state,
                                              expires |-> asg[b].expires]]
    BY DEF Image, ImageFields
  <2>2. /\ DOMAIN Image.asg = DOMAIN asg
        /\ \A b \in DOMAIN asg : Image.asg[b].state = asg[b].state
    BY <2>1
  <2>3. ReadBack(Image).asg = [b \in DOMAIN Image.asg |->
                                  Image.asg[b].state \in ActiveStates]
    BY <2>1 DEF ReadBack, ImageFields
  <2>4. ReadBack(Image).epoch = Image.epoch /\ ReadBack(Image).work = Image.work
    BY <2>1 DEF ReadBack, ImageFields
  <2> QED
    BY <2>1, <2>2, <2>3, <2>4
<1> DEFINE f == [b \in DOMAIN i.asg |-> i.asg[b].state \in ActiveStates]
           g == [b \in DOMAIN asg |-> asg[b].state \in ActiveStates]
<1>3. f = g
  BY <1>1, <1>2
<1>4. DOMAIN f = DOMAIN i.asg /\ DOMAIN g = DOMAIN asg
  OBVIOUS
<1>5. \A b \in DOMAIN asg : f[b] = g[b]
  BY <1>3
<1>6. DOMAIN i.asg = DOMAIN asg
  BY <1>3, <1>4
<1>7. \A b \in DOMAIN asg :
         f[b] = (i.asg[b].state \in ActiveStates) /\ g[b] = (asg[b].state \in ActiveStates)
  BY <1>6
<1> HIDE DEF f, g
<1>8. \A b \in DOMAIN asg :
         (i.asg[b].state \in ActiveStates) = (asg[b].state \in ActiveStates)
  BY <1>5, <1>7
<1> QED
  BY <1>1, <1>2, <1>6, <1>8

\* The work items such an image restores are steady.
LEMMA RestoredSteady ==
    ASSUME TypeOK, NEW i, IsImage(i), Restore(i),
           i.work = [w \in Work |-> SavedWork(work[w])], NEW w \in Work
    PROVE  WorkSteady(w)
<1> DEFINE as == RestoredAssignments(i)
           r == RestoredWork(i.work[w])
<1>1. AssignmentMap(as)
  BY RestoredMap
<1>2. i.work[w] = SavedWork(work[w]) /\ work[w] \in WorkRecord
  BY DEF TypeOK
<1>3. /\ r \in WorkRecord
      /\ r.gen = work[w].gen /\ r.req = work[w].req
      /\ \A l \in {"Unknown", "Cancelled", "Expired"} :
            r.lifecycle = l <=> work[w].lifecycle = l
  BY <1>2 DEF RestoredWork, SavedWork, WorkRecord, WorkLifecycles
<1>4. work'[w] = IF r.lifecycle = "Unknown" THEN r ELSE RefreshedWork(as, r, w)
  BY DEF Restore, RestoredWorkItems
<1> HIDE DEF as, r
<1>5. r.lifecycle # "Unknown" => WorkKept(r, RefreshedWork(as, r, w))
  BY <1>1, <1>3, RefreshedWorkType
<1> QED
  BY <1>3, <1>4, <1>5 DEF WorkKept, WorkSteady

\* A reload that reads back the state keeps ownership.
LEMMA RestoreOwnership ==
    ASSUME ReloadInv, RTypeOK', OwnershipInv, NEW i, IsImage(i), ImageOrdered(i),
           Restore(i),
           \A c \in Caller : \/ call'[c] = call[c] /\ now' = now
                             \/ call'[c].op = "idle"
    PROVE  OwnershipInv'
<1> SUFFICES ASSUME kept' PROVE WorkInv' /\ (owners \subseteq ActiveIn(asg))'
                                /\ PastSuspended'
  BY DEF OwnershipInv
<1>0. TypeOK /\ TypeOK' /\ EpochsBehind /\ now \in Nat
  BY DEF ReloadInv, RTypeOK, TypeOK
<1>1. kept /\ ReadBack(i) = ReadBack(Image)
  BY DEF Restore
<1>2. WorkInv /\ owners \subseteq ActiveIn(asg)
  BY <1>1 DEF OwnershipInv
<1>3. /\ i.epoch = sched.epoch
      /\ i.work = [w \in Work |-> SavedWork(work[w])]
      /\ DOMAIN i.asg = DOMAIN asg
      /\ \A b \in DOMAIN asg :
            i.asg[b].state \in ActiveStates <=> asg[b].state \in ActiveStates
  BY <1>0, <1>1, ReadBackSame
<1>4. /\ asg' = RestoredAssignments(i) /\ past' = owners /\ owners' = owners
      /\ sched'.epoch = i.epoch + 1
  BY DEF Restore, RestoredScheduler
<1>5. DOMAIN asg' = DOMAIN asg /\ ActiveIn(asg') = ActiveIn(asg)
  BY <1>3, <1>4, RestoredStates DEF ActiveIn
<1>6. WorkInv'
  <2>1. \A w \in Work : WorkSteady(w)
    BY <1>0, <1>3, RestoredSteady
  <2>2. \A c \in Caller : \/ call'[c] = call[c] /\ now' >= now
                          \/ call'[c].op # "schedule"
    BY <1>0
  <2> QED
    BY <1>0, <1>2, <1>5, <2>1, <2>2, SteadyStep
<1>7. PastSuspended'
  <2>1. \A b \in owners : b \in DOMAIN asg /\ b.epoch < sched'.epoch
    <3>1. \A b \in DOMAIN asg : b.epoch \in Nat
      BY <1>0 DEF TypeOK, AssignmentMap, Binding
    <3>2. sched.epoch \in Nat
      BY <1>0 DEF TypeOK, SchedulerRecord
    <3> QED
      BY <1>0, <1>2, <1>3, <1>4, <3>1, <3>2 DEF EpochsBehind, ActiveIn
  <2>2. \A b \in ActiveIn(asg') : /\ asg'[b].state = "RevalidationRequired"
                                  /\ ~asg'[b].leaseCurrent
    BY <1>4, RestoredStates
  <2> QED
    BY <1>4, <1>5, <2>1, <2>2 DEF PastSuspended
<1> QED
  BY <1>2, <1>4, <1>5, <1>6, <1>7

\* A step of the scheduler keeps ownership.
LEMMA SchedulerOwnership ==
    ASSUME ReloadInv, RTypeOK', OwnershipInv, SchedulerStep
    PROVE  OwnershipInv'
<1> SUFFICES ASSUME kept' PROVE WorkInv' /\ (owners \subseteq ActiveIn(asg))'
                                /\ PastSuspended'
  BY DEF OwnershipInv
<1>0. /\ TypeOK /\ TypeOK' /\ CapabilityOrdered /\ Next
      /\ past' = past
      /\ WorkInv /\ owners \subseteq ActiveIn(asg) /\ PastSuspended
  BY DEF ReloadInv, RTypeOK, SchedulerStep, OwnershipInv
<1>1. WorkInv'
  BY <1>0, WorkInvNext
<1>2. /\ DOMAIN asg \subseteq DOMAIN asg'
      /\ \A b \in DOMAIN asg :
            \/ asg'[b] = asg[b]
            \/ /\ Stage(asg'[b].state) = Stage(asg[b].state)
                    \/ Stage(asg'[b].state) \in Life!After(Stage(asg[b].state))
               /\ asg'[b].state = "RevalidationRequired" => ~asg'[b].leaseCurrent
  <2>1. Moves(asg') \/ \E c \in Caller : commit_locked(c)
    BY <1>0, NextMoves
  <2>2. CASE Moves(asg')
    BY <2>2 DEF Moves
  <2>3. ASSUME NEW c \in Caller, commit_locked(c)
        PROVE  DOMAIN asg \subseteq DOMAIN asg' /\ \A b \in DOMAIN asg : asg'[b] = asg[b]
    BY <2>3, CommitStores DEF Adds
  <2> QED
    BY <2>1, <2>2, <2>3
<1>3. \A b \in DOMAIN asg' : asg'[b].state \in ActiveStates \cup TerminalStates
  BY <1>0 DEF TypeOK, AssignmentMap, AssignmentRecord
<1>4. (owners \subseteq ActiveIn(asg))'
  <2>1. owners' = (owners \cup {b \in DOMAIN asg' : asg'[b].state = "Dispatched"})
                     \ {b \in ActiveIn(asg) : asg'[b].state \in TerminalStates}
    BY DEF SchedulerStep
  <2>2. \A b \in owners : b \in ActiveIn(asg) /\ b \in DOMAIN asg'
    BY <1>0, <1>2 DEF ActiveIn
  <2>3. "Dispatched" \in ActiveStates
    BY DEF ActiveStates
  <2> QED
    BY <1>3, <2>1, <2>2, <2>3 DEF ActiveIn
<1>5. PastSuspended'
  <2>1. sched'.epoch = sched.epoch
    BY <1>0, EpochKept
  <2>2. ASSUME NEW b \in past, b \in ActiveIn(asg')
        PROVE  asg'[b].state = "RevalidationRequired" /\ ~asg'[b].leaseCurrent
    <3>1. b \in DOMAIN asg /\ asg[b].state \in ActiveStates \cup TerminalStates
      BY <1>0 DEF PastSuspended, TypeOK, AssignmentMap, AssignmentRecord
    <3>2. asg'[b].state \in ActiveStates
      BY <2>2 DEF ActiveIn
    <3>3. b \in ActiveIn(asg)
      <4> SUFFICES ASSUME asg[b].state \in TerminalStates PROVE FALSE
        BY <3>1 DEF ActiveIn
      <4>1. Stage(asg[b].state) = "ended"
        BY DEF TerminalStates, Stage
      <4>2. Stage(asg'[b].state) # "ended"
        BY <3>2 DEF ActiveStates, Stage
      <4> QED
        BY <1>2, <3>1, <4>1, <4>2 DEF Life!After
    <3>4. asg[b].state = "RevalidationRequired" /\ ~asg[b].leaseCurrent
      BY <1>0, <3>3 DEF PastSuspended
    <3>5. asg'[b].state = "RevalidationRequired"
      <4>1. Stage(asg[b].state) = "suspended"
        BY <3>4 DEF Stage
      <4>2. Stage(asg'[b].state) = "suspended"
        <5>1. Stage(asg'[b].state) # "ended"
          BY <3>2 DEF ActiveStates, Stage
        <5> QED
          BY <1>2, <3>1, <4>1, <5>1 DEF Life!After
      <4> QED
        BY <4>2 DEF Stage
    <3> QED
      BY <1>2, <3>1, <3>4, <3>5
  <2> QED
    BY <1>0, <1>2, <2>1, <2>2 DEF PastSuspended
<1> QED
  BY <1>1, <1>4, <1>5

\* Every step keeps ownership.
LEMMA OwnershipStep ==
    ASSUME ReloadInv, OwnershipInv, [RNext]_rvars
    PROVE  OwnershipInv'
<1>0. RTypeOK /\ RTypeOK' /\ ImagesOrdered /\ HeldTyped
  BY RTypeStep DEF ReloadInv, RTypeOK, HeldTyped
<1>1. CASE UNCHANGED <<vars, owners, past, kept>>
  BY <1>0, <1>1 DEF OwnershipInv, WorkInv, PlannedWorkCurrent, ExpiredPlansLate,
       ActiveWorkCurrent, ExclusiveAssignmentUnique, PastSuspended, vars, RTypeOK,
       KnownWork, DeadlinePassed
<1>2. ASSUME NEW i, IsImage(i), ImageOrdered(i), Restore(i),
             \A c \in Caller : \/ call'[c] = call[c] /\ now' = now
                               \/ call'[c].op = "idle"
      PROVE  OwnershipInv'
  BY <1>0, <1>2, RestoreOwnership
<1> QED
  BY <1>0, <1>1, <1>2, SchedulerOwnership, RStepCases

\* Ownership is kept in every reachable state.
LEMMA OwnershipInvariant == RSpec => []OwnershipInv
<1>1. Init /\ RecoveryInit => OwnershipInv
  BY WorkInvInit DEF RecoveryInit, OwnershipInv, PastSuspended
<1> QED
  BY <1>1, OwnershipStep, ReloadInvariant, PTL DEF RSpec

\* Exclusive work never has two owners, in whichever lives they became owners,
\* as long as no life ended with anything that the next one did not read back.
THEOREM SingleOwnerAcrossLives == RSpec => []SingleOwner
<1>1. OwnershipInv => SingleOwner
  BY DEF OwnershipInv, SingleOwner, WorkInv, ExclusiveAssignmentUnique
<1> QED
  BY <1>1, OwnershipInvariant, PTL

\* What agents hold from an earlier life carries no authority in this one: it is
\* suspended or over, has no lease and binds no present epoch.
THEOREM PastLivesCarryNoAuthority == RSpec => []NoAuthorityFromPastLife
<1>1. ReloadInv /\ OwnershipInv => NoAuthorityFromPastLife
  <2> SUFFICES ASSUME ReloadInv, OwnershipInv, kept, NEW b \in past, b \in ActiveIn(asg)
               PROVE  /\ asg[b].state = "RevalidationRequired"
                      /\ ~asg[b].leaseCurrent
                      /\ ~BoundEpochsCurrent(b)
    BY DEF NoAuthorityFromPastLife
  <2>1. PastSuspended
    BY DEF OwnershipInv
  <2>2. b.epoch \in Nat
    BY ActiveTyped DEF ReloadInv, RTypeOK, Binding
  <2> QED
    BY <2>1, <2>2 DEF PastSuspended, BoundEpochsCurrent
<1> QED
  BY <1>1, OwnershipInvariant, ReloadInvariant, PTL

-----------------------------------------------------------------------------
(***************************************************************************)
(* The audit across lives.                                                 *)
(*                                                                         *)
(* A reload that reads back what it replaces brings every record back with *)
(* the generations, requests and limits it had, without evidence, and      *)
(* counts anew what is active, which is what was active.  Each part of     *)
(* what the audit looks at, proved step by step for one life in            *)
(* AccountingProofs, holds again for that reason alone.                    *)
(***************************************************************************)

\* Agent a returns as the incarnation it was, without evidence, and counted.
AgentReturns(a) ==
    /\ agents'[a].gen = agents[a].gen
    /\ agents'[a].boot = agents[a].boot
    /\ agents'[a].maxc = agents[a].maxc
    /\ \A l \in Gone : agents'[a].lifecycle = l <=> agents[a].lifecycle = l
    /\ Spent(agents'[a]) /\ ~Evident(agents'[a])
    /\ AgentAgrees(asg', agents'[a], a)

\* Work item w returns with its request, ended or not as it was, and counted.
WorkReturns(w) ==
    /\ work'[w].gen = work[w].gen
    /\ work'[w].req = work[w].req
    /\ work'[w].lastGen = work[w].lastGen
    /\ \A l \in TerminalWork \cup {"Unknown"} :
          work'[w].lifecycle = l <=> work[w].lifecycle = l
    /\ WorkAgrees(asg', work'[w], w)

\* The step is a reload that reads back what it replaces.
Returns ==
    /\ DOMAIN asg' = DOMAIN asg /\ ActiveIn(asg') = ActiveIn(asg)
    /\ \A b \in DOMAIN asg' : asg'[b].state # "Assigned" /\ ~asg'[b].leaseCurrent
    /\ fenced' = fenced
    /\ sched'.epoch = sched.epoch + 1 /\ ~sched'.running
    /\ sched'.closes = sched.closes
    /\ \A a \in Agent : AgentReturns(a)
    /\ \A w \in Work : WorkReturns(w)
    /\ \A c \in Caller : call'[c] = call[c] \/ call'[c].op = "idle"

\* An image that reads back as the state does has the same agents, fences and
\* shutdown rule.
LEMMA ReadBackRest ==
    ASSUME NEW i, ImageOrdered(i), ReadBack(i) = ReadBack(Image)
    PROVE  /\ i.agents = [a \in Agent |-> SavedAgent(agents[a])]
           /\ i.fenced = fenced /\ i.closes = sched.closes
<1>1. /\ ReadBack(i).agents = i.agents /\ ReadBack(i).fenced = i.fenced
      /\ ReadBack(i).closes = i.closes
  BY DEF ReadBack, ImageOrdered, ImageFields
<1>2. /\ DOMAIN Image = ImageFields
      /\ Image.agents = [a \in Agent |-> SavedAgent(agents[a])]
      /\ Image.fenced = fenced /\ Image.closes = sched.closes
  BY DEF Image, ImageFields
<1>3. /\ ReadBack(Image).agents = Image.agents /\ ReadBack(Image).fenced = Image.fenced
      /\ ReadBack(Image).closes = Image.closes
  BY <1>2 DEF ReadBack, ImageFields
<1> QED
  BY <1>1, <1>2, <1>3

\* The agents such an image restores return.
LEMMA AgentsReturn ==
    ASSUME TypeOK, CapabilityOrdered, NEW i, IsImage(i), Restore(i),
           i.agents = [a \in Agent |-> SavedAgent(agents[a])],
           ActiveIn(asg') = ActiveIn(asg), NEW a \in Agent
    PROVE  AgentReturns(a)
<1> DEFINE as == RestoredAssignments(i)
           r == RestoredAgent(i.agents[a])
<1>1. AssignmentMap(as) /\ asg' = as
  BY RestoredMap DEF Restore
<1>2. i.agents[a] = SavedAgent(agents[a]) /\ agents[a] \in AgentRecord
  BY DEF TypeOK
<1>3. i.agents[a] \in AgentImage
  BY DEF IsImage
<1>4. /\ r \in AgentRecord
      /\ r.lifecycle = i.agents[a].lifecycle /\ r.gen = i.agents[a].gen
      /\ r.boot = i.agents[a].boot /\ r.maxc = i.agents[a].maxc
      /\ ~Evident(r) /\ r.active = 0
  BY <1>3 DEF RestoredAgent, AgentImage, AgentRecord, AgentLifecycles, Evidence,
              NoEvidence, Healths, Avails, Evident
<1>5. /\ r.gen = agents[a].gen /\ r.boot = agents[a].boot /\ r.maxc = agents[a].maxc
      /\ r.lifecycle \notin AcceptsNewWork
      /\ \A l \in Gone : r.lifecycle = l <=> agents[a].lifecycle = l
  BY <1>2, <1>4 DEF SavedAgent, lifecycle_hint, Gone, AcceptsNewWork
<1>6. agents'[a] = IF r.lifecycle = "Unregistered" THEN r ELSE RefreshedAgent(as, r, a)
  BY DEF Restore, RestoredAgents
<1> HIDE DEF as, r
<1>7. CASE r.lifecycle = "Unregistered"
  <2>1. agents'[a] = r /\ ~Known(a)
    BY <1>5, <1>6, <1>7 DEF Gone, Known
  <2>2. OnAgent(asg', a) = {}
    BY <2>1 DEF CapabilityOrdered, OnAgent
  <2>3. AgentAgrees(asg', r, a)
    BY <1>4, <1>7, <2>2, FS_EmptySet DEF AgentAgrees
  <2>4. Spent(r)
    BY <1>4, <1>5 DEF Spent, Evident
  <2> QED
    BY <1>4, <1>5, <2>1, <2>3, <2>4 DEF AgentReturns
<1>8. CASE r.lifecycle # "Unregistered"
  <2>1. agents'[a] = RefreshedAgent(as, r, a)
    BY <1>6, <1>8
  <2> DEFINE new == RefreshedAgent(as, r, a)
  <2>2. AgentKept(r, new)
    BY <1>1, <1>4, <1>8, RefreshedAgentType
  <2>3. AgentAgrees(as, new, a)
    BY <1>1, <1>4, RefreshedAgentAgrees
  <2>4. new.maxc = r.maxc /\ Spent(new) /\ ~Evident(new)
    <3>1. AssignmentMap(as) /\ r \in AgentRecord /\ ~Evident(r)
      BY <1>1, <1>4
    <3>2. r.lifecycle \notin AcceptsNewWork
      BY <1>5
    <3>3. Spent(r)
      BY <3>1, <3>2 DEF Spent, Evident
    <3>4. Spent(new)
      BY <3>1, <3>3, RefreshedSpent
    <3>5. ~Evident(new)
      BY <3>1, RefreshedParts
    <3>6. new.maxc = r.maxc
      BY <3>1 DEF RefreshedAgent, AgentRecord
    <3> QED
      BY <3>4, <3>5, <3>6
  <2> HIDE DEF new
  <2>5. agents'[a] = new /\ asg' = as
    BY <1>1, <2>1 DEF new
  <2> QED
    BY <1>5, <2>2, <2>3, <2>4, <2>5 DEF AgentReturns, AgentKept, Gone
<1> QED
  BY <1>7, <1>8

\* So do the work items.
LEMMA WorkItemsReturn ==
    ASSUME TypeOK, ActiveWorkCurrent, NEW i, IsImage(i), Restore(i),
           i.work = [w \in Work |-> SavedWork(work[w])],
           ActiveIn(asg') = ActiveIn(asg), NEW w \in Work
    PROVE  WorkReturns(w)
<1> DEFINE as == RestoredAssignments(i)
           r == RestoredWork(i.work[w])
<1>1. AssignmentMap(as) /\ asg' = as
  BY RestoredMap DEF Restore
<1>2. i.work[w] = SavedWork(work[w]) /\ work[w] \in WorkRecord
  BY DEF TypeOK
<1>3. /\ r \in WorkRecord
      /\ r.gen = work[w].gen /\ r.req = work[w].req /\ r.lastGen = work[w].lastGen
      /\ r.current = 0
      /\ \A l \in TerminalWork \cup {"Unknown"} :
            r.lifecycle = l <=> work[w].lifecycle = l
  BY <1>2 DEF RestoredWork, SavedWork, WorkRecord, WorkLifecycles, TerminalWork
<1>4. work'[w] = IF r.lifecycle = "Unknown" THEN r ELSE RefreshedWork(as, r, w)
  BY DEF Restore, RestoredWorkItems
<1> HIDE DEF as, r
<1>5. CASE r.lifecycle = "Unknown"
  <2>1. work'[w] = r /\ work[w].lifecycle = "Unknown"
    BY <1>3, <1>4, <1>5
  <2>2. OnWork(asg', w) = {}
    BY <2>1 DEF ActiveWorkCurrent, OnWork
  <2>3. WorkAgrees(asg', r, w)
    BY <1>3, <1>5, <2>2, FS_EmptySet DEF WorkAgrees
  <2> QED
    BY <1>3, <2>1, <2>3 DEF WorkReturns
<1>6. CASE r.lifecycle # "Unknown"
  <2>1. work'[w] = RefreshedWork(as, r, w)
    BY <1>4, <1>6
  <2> DEFINE new == RefreshedWork(as, r, w)
  <2>2. WorkKept(r, new)
    BY <1>1, <1>3, <1>6, RefreshedWorkType
  <2>3. WorkAgrees(as, new, w)
    BY <1>1, <1>3, RefreshedWorkAgrees
  <2>4. new.lastGen = r.lastGen
    BY <1>3 DEF RefreshedWork, WorkRecord
  <2> HIDE DEF new
  <2>5. work'[w] = new /\ asg' = as
    BY <1>1, <2>1 DEF new
  <2> QED
    BY <1>3, <2>2, <2>3, <2>4, <2>5 DEF WorkReturns, WorkKept, TerminalWork
<1> QED
  BY <1>5, <1>6

\* A reload that reads back what it replaces returns everything.
LEMMA ReloadReturns ==
    ASSUME ReloadInv, WorkInv, NEW i, IsImage(i), ImageOrdered(i), Restore(i),
           ReadBack(i) = ReadBack(Image),
           \A c \in Caller : call'[c] = call[c] \/ call'[c].op = "idle"
    PROVE  Returns
<1>1. TypeOK /\ CapabilityOrdered /\ ActiveWorkCurrent
  BY DEF ReloadInv, WorkInv
<1>2. /\ i.epoch = sched.epoch
      /\ i.work = [w \in Work |-> SavedWork(work[w])]
      /\ DOMAIN i.asg = DOMAIN asg
      /\ \A b \in DOMAIN asg :
            i.asg[b].state \in ActiveStates <=> asg[b].state \in ActiveStates
  BY <1>1, ReadBackSame
<1>3. /\ i.agents = [a \in Agent |-> SavedAgent(agents[a])]
      /\ i.fenced = fenced /\ i.closes = sched.closes
  BY ReadBackRest
<1>4. asg' = RestoredAssignments(i) /\ fenced' = i.fenced
  BY DEF Restore
<1>5. /\ sched'.epoch = sched.epoch + 1 /\ ~sched'.running
      /\ sched'.closes = sched.closes
  BY <1>2, <1>3 DEF Restore, RestoredScheduler
<1>6. DOMAIN asg' = DOMAIN asg /\ ActiveIn(asg') = ActiveIn(asg)
  BY <1>2, <1>4, RestoredStates DEF ActiveIn
<1>7. ASSUME NEW b \in DOMAIN asg'
      PROVE  asg'[b].state # "Assigned" /\ ~asg'[b].leaseCurrent
  <2>1. asg'[b] = RestoredAssignment(i.asg[b])
    BY <1>2, <1>4, <1>6 DEF RestoredAssignments
  <2> QED
    BY <2>1 DEF RestoredAssignment, ActiveStates
<1>8. \A a \in Agent : AgentReturns(a)
  BY <1>1, <1>3, <1>6, AgentsReturn
<1>9. \A w \in Work : WorkReturns(w)
  BY <1>1, <1>2, <1>6, WorkItemsReturn
<1> QED
  BY <1>3, <1>4, <1>5, <1>6, <1>7, <1>8, <1>9 DEF Returns

-----------------------------------------------------------------------------
(* What the audit looks at returns with it.                                *)

\* All but the last part of what the audit looks at: what is planned beside work
\* that has ended.
BooksInv ==
    /\ LedgerInv /\ AccountingAgrees /\ FanInv /\ CapacityInv /\ IncarnationInv
    /\ AuthorityInv

\* Who is known, and what is active on whom, is what it was.
LEMMA SameAfterReturn ==
    ASSUME Returns
    PROVE  /\ \A a \in Agent : Known(a)' <=> Known(a)
           /\ \A w \in Work : KnownWork(w)' <=> KnownWork(w)
           /\ \A x : /\ OnAgent(asg', x) = OnAgent(asg, x)
                     /\ OnWork(asg', x) = OnWork(asg, x)
<1>1. \A a \in Agent : Known(a)' <=> Known(a)
  BY DEF Returns, AgentReturns, Known, Gone
<1>2. \A w \in Work : KnownWork(w)' <=> KnownWork(w)
  BY DEF Returns, WorkReturns, KnownWork
<1>3. ActiveIn(asg') = ActiveIn(asg)
  BY DEF Returns
<1> QED
  BY <1>1, <1>2, <1>3 DEF OnAgent, OnWork

\* The books are in order.
LEMMA LedgerReturns ==
    ASSUME TypeOK, TypeOK', LedgerInv, Returns
    PROVE  LedgerInv'
<1>1. ASSUME NEW b \in Binding, BoundSound(b)
      PROVE  BoundSound(b)'
  <2>1. b.work \in Work /\ b.agent \in Agent
    BY DEF Binding
  <2>2. /\ work'[b.work].gen = work[b.work].gen
        /\ agents'[b.agent].gen = agents[b.agent].gen
    BY <2>1 DEF Returns, WorkReturns, AgentReturns
  <2> QED
    BY <1>1, <2>1, <2>2, SameAfterReturn DEF BoundSound
<1>2. ASSUME NEW b \in DOMAIN asg'
      PROVE  BoundSound(b)'
  <2>1. b \in DOMAIN asg /\ b \in Binding
    BY DEF Returns, TypeOK, AssignmentMap
  <2> QED
    BY <1>1, <2>1 DEF LedgerInv
<1>3. ASSUME NEW c \in Caller, call'[c].op = "schedule"
      PROVE  BoundSound(call[c].b)'
  <2>1. call'[c] = call[c]
    BY <1>3 DEF Returns
  <2>2. PICK b \in Binding : b = call[c].b /\ BoundSound(b)
    BY <1>3, <2>1, CarriedType DEF LedgerInv
  <2>3. BoundSound(b)'
    BY <1>1, <2>2
  <2> QED
    BY <2>1, <2>2, <2>3 DEF BoundSound
<1>4. NoLease(asg')
  BY DEF Returns, NoLease
<1>5. LastStored'
  BY DEF Returns, WorkReturns, LedgerInv, LastStored
<1>6. RecordsSound'
  BY SameAfterReturn DEF Returns, WorkReturns, AgentReturns, LedgerInv, RecordsSound
<1>7. EpochSound'
  BY DEF Returns, LedgerInv, EpochSound, TypeOK, SchedulerRecord
<1> QED
  BY <1>2, <1>3, <1>4, <1>5, <1>6, <1>7 DEF LedgerInv

\* The counts agree, and stay within what is requested and declared.
LEMMA CountsReturn ==
    ASSUME AccountingAgrees, FanInv, CapacityInv, Returns
    PROVE  AccountingAgrees' /\ FanInv' /\ CapacityInv'
<1>1. AccountingAgrees'
  BY AgreementParts DEF Returns, AgentReturns, WorkReturns, AgentsAgree, AllWorkAgrees
<1>2. \A w \in Work : work'[w].req = work[w].req
  BY DEF Returns, WorkReturns
<1>3. FanInv'
  BY <1>2, SameAfterReturn DEF FanInv, RequestSound, FanoutBounded
<1>4. \A a \in Agent : /\ agents'[a].maxc = agents[a].maxc
                       /\ agents'[a].active = agents[a].active
  BY <1>1, SameAfterReturn DEF Returns, AgentReturns, AccountingAgrees
<1>5. CapacityInv'
  BY <1>4 DEF CapacityInv, Declared, CapacityNotExceeded
<1> QED
  BY <1>1, <1>3, <1>5

\* Every incarnation is spent until it publishes evidence, what is active belongs
\* to it, and nothing is offered.
LEMMA AuthorityReturns ==
    ASSUME TypeOK', IncarnationInv, AuthorityInv, Returns
    PROVE  IncarnationInv' /\ AuthorityInv'
<1>1. FencedSpent'
  BY DEF Returns, AgentReturns, FencedSpent
<1>2. ASSUME NEW b \in ActiveIn(asg')
      PROVE  /\ b \in ActiveIn(asg) /\ b.agent \in Agent
             /\ agents'[b.agent].boot = agents[b.agent].boot
             /\ agents'[b.agent].gen = agents[b.agent].gen
             /\ \A l \in Gone : agents'[b.agent].lifecycle = l <=>
                                   agents[b.agent].lifecycle = l
  <2>1. b \in ActiveIn(asg)
    BY DEF Returns
  <2>2. b.agent \in Agent
    BY <2>1, ActiveTyped DEF IncarnationInv
  <2> QED
    BY <2>1, <2>2 DEF Returns, AgentReturns
<1>3. ActiveIncarnationCurrent'
  <2>1. fenced' = fenced
    BY DEF Returns
  <2> QED
    BY <1>2, <2>1 DEF IncarnationInv, ActiveIncarnationCurrent, Gone
<1>4. \A b \in DOMAIN asg' : asg'[b].state # "Assigned"
  BY DEF Returns
<1>5. Attached'
  BY <1>2, <1>4 DEF AuthorityInv, Attached, Offered
<1>6. OfferedUnderPolicy' /\ RunsOrShuts'
  BY <1>4 DEF Returns, OfferedUnderPolicy, RunsOrShuts
<1> QED
  BY <1>1, <1>3, <1>5, <1>6 DEF IncarnationInv, AuthorityInv

\* Exclusive work that has ended has still nothing planned or active beside it.
LEMMA AloneReturns ==
    ASSUME TypeOK, AloneInv, Returns
    PROVE  AloneInv'
<1>1. ModesExclusive'
  BY DEF Returns, WorkReturns, AloneInv, ModesExclusive
<1>2. PlanAlone'
  <2> SUFFICES ASSUME NEW c \in Caller, call'[c].op = "schedule",
                      call'[c].b.workGen = work'[call'[c].b.work].gen
               PROVE  /\ OnWork(asg', call'[c].b.work) = {}
                      /\ work'[call'[c].b.work].lifecycle \notin Done
    BY DEF PlanAlone
  <2>1. call'[c] = call[c]
    BY DEF Returns
  <2>2. call[c].b.work \in Work
    BY <2>1, CarriedType DEF Binding
  <2>3. /\ work'[call[c].b.work].gen = work[call[c].b.work].gen
        /\ \A l \in Done : work'[call[c].b.work].lifecycle = l <=>
                              work[call[c].b.work].lifecycle = l
    BY <2>2 DEF Returns, WorkReturns, Done, TerminalWork
  <2>4. OnWork(asg, call[c].b.work) = {} /\ work[call[c].b.work].lifecycle \notin Done
    BY <2>1, <2>3 DEF AloneInv, PlanAlone
  <2> QED
    BY <2>1, <2>3, <2>4, SameAfterReturn
<1>3. NoActiveOnTerminalWork'
  <2> SUFFICES ASSUME NEW b \in ActiveIn(asg'),
                      work'[b.work].lifecycle \in TerminalWork
               PROVE  FALSE
    BY DEF NoActiveOnTerminalWork
  <2>1. b \in ActiveIn(asg)
    BY DEF Returns
  <2>2. b.work \in Work
    BY <2>1, ActiveTyped
  <2>3. work[b.work].lifecycle \in TerminalWork
    BY <2>2 DEF Returns, WorkReturns
  <2> QED
    BY <2>1, <2>3 DEF AloneInv, NoActiveOnTerminalWork
<1> QED
  BY <1>1, <1>2, <1>3 DEF AloneInv

-----------------------------------------------------------------------------
(* The audit stays silent.                                                 *)

\* As long as every life was read back, a step runs the scheduler or returns all.
LEMMA KeptCases ==
    ASSUME ReloadInv, OwnershipInv, [RNext]_rvars, kept'
    PROVE  kept /\ ([Next]_vars \/ Returns)
<1>1. CASE SchedulerStep
  BY <1>1 DEF SchedulerStep
<1>2. CASE UNCHANGED <<vars, owners, past, kept>>
  BY <1>2
<1>3. ASSUME NEW i, IsImage(i), ImageOrdered(i), Restore(i),
             \A c \in Caller : \/ call'[c] = call[c] /\ now' = now
                               \/ call'[c].op = "idle"
      PROVE  kept /\ Returns
  <2>1. kept /\ ReadBack(i) = ReadBack(Image)
    BY <1>3 DEF Restore
  <2>2. WorkInv
    BY <2>1 DEF OwnershipInv
  <2>3. \A c \in Caller : call'[c] = call[c] \/ call'[c].op = "idle"
    BY <1>3
  <2> QED
    BY <1>3, <2>1, <2>2, <2>3, ReloadReturns
<1> QED
  BY <1>1, <1>2, <1>3, RStepCases

\* In a scheduler that read back everything the invariant of one life holds.
LEMMA KeptLife ==
    ASSUME ReloadInv, OwnershipInv, kept
    PROVE  LifeInv
  BY DEF ReloadInv, OwnershipInv, LifeInv

\* Every step keeps the books in order.
LEMMA BooksStep ==
    ASSUME OwnBoots, OneConcurrency, LifeInv, LifeInv', BooksInv, [Next]_vars \/ Returns
    PROVE  BooksInv'
<1>0. TypeOK /\ TypeOK'
  BY DEF LifeInv, WorkInv
<1>1. CASE [Next]_vars
  <2>1. AccountingAgrees'
    BY <1>1, NextAgrees DEF BooksInv
  <2>2. LedgerInv' /\ FanInv'
    BY <1>1, LedgerNext, FanInvNext DEF BooksInv
  <2>3. CapacityInv'
    BY <1>0, <1>1, <2>1, CapacityNext DEF BooksInv
  <2>4. IncarnationInv' /\ AuthorityInv'
    BY <1>0, <1>1, IncNext, AuthorityInvNext DEF BooksInv
  <2> QED
    BY <2>1, <2>2, <2>3, <2>4 DEF BooksInv
<1>2. CASE Returns
  <2>1. LedgerInv'
    BY <1>0, <1>2, LedgerReturns DEF BooksInv
  <2>2. AccountingAgrees' /\ FanInv' /\ CapacityInv'
    BY <1>2, CountsReturn DEF BooksInv
  <2>3. IncarnationInv' /\ AuthorityInv'
    BY <1>0, <1>2, AuthorityReturns DEF BooksInv
  <2> QED
    BY <2>1, <2>2, <2>3 DEF BooksInv
<1> QED
  BY <1>1, <1>2

\* At first the books are in order.
LEMMA BooksInit == Init => BooksInv
  BY LedgerInit, AgreesInit, FanInit, CapacityInit, IncInit, AuthorityInit DEF BooksInv

\* They are in order in every reachable state, as long as every life was read back.
LEMMA BooksKept ==
    ASSUME OwnBoots, OneConcurrency
    PROVE  RSpec => [](kept => BooksInv)
<1>1. Init /\ RecoveryInit => (kept => BooksInv)
  BY BooksInit
<1>2. /\ (kept => BooksInv) /\ ReloadInv /\ OwnershipInv
      /\ ReloadInv' /\ OwnershipInv' /\ [RNext]_rvars
      => (kept => BooksInv)'
  <2> SUFFICES ASSUME kept => BooksInv, ReloadInv, OwnershipInv, ReloadInv',
                      OwnershipInv', [RNext]_rvars, kept'
               PROVE  BooksInv'
    OBVIOUS
  <2>1. kept /\ ([Next]_vars \/ Returns)
    BY KeptCases
  <2>2. LifeInv /\ LifeInv'
    BY <2>1 DEF ReloadInv, OwnershipInv, LifeInv
  <2> QED
    BY <2>1, <2>2, BooksStep
<1> QED
  BY <1>1, <1>2, ReloadInvariant, OwnershipInvariant, PTL DEF RSpec

\* So is what is planned and active beside work that has ended: there is nothing,
\* if a single caller schedules, and exclusive work only.
LEMMA AloneKept ==
    ASSUME OwnBoots, OneConcurrency, OneCaller, ExclusiveWork
    PROVE  RSpec => [](kept => AloneInv)
<1>1. Init /\ RecoveryInit => (kept => AloneInv)
  BY AloneInit
<1>2. /\ (kept => AloneInv) /\ (kept => BooksInv) /\ ReloadInv /\ OwnershipInv
      /\ ReloadInv' /\ OwnershipInv' /\ [RNext]_rvars
      => (kept => AloneInv)'
  <2> SUFFICES ASSUME kept => AloneInv, kept => BooksInv, ReloadInv, OwnershipInv,
                      ReloadInv', OwnershipInv', [RNext]_rvars, kept'
               PROVE  AloneInv'
    OBVIOUS
  <2>1. kept /\ ([Next]_vars \/ Returns)
    BY KeptCases
  <2>2. LifeInv /\ LifeInv' /\ AccountingAgrees /\ TypeOK
    BY <2>1 DEF ReloadInv, OwnershipInv, LifeInv, WorkInv, BooksInv
  <2>3. CASE [Next]_vars
    BY <2>1, <2>2, <2>3, AloneNext
  <2>4. CASE Returns
    BY <2>1, <2>2, <2>4, AloneReturns
  <2> QED
    BY <2>1, <2>3, <2>4
<1> QED
  BY <1>1, <1>2, BooksKept, ReloadInvariant, OwnershipInvariant, PTL DEF RSpec

\* Books in order are what the audit asks for.
LEMMA BooksAudited ==
    ASSUME ClosePolicies = {TRUE}, LifeInv, BooksInv, NoActiveOnTerminalWork
    PROVE  AuditSilent
<1>1. LedgerInv /\ AccountingAgrees /\ FanoutBounded /\ CapacityNotExceeded
  BY DEF BooksInv, FanInv, CapacityInv
<1>2. ActiveIncarnationCurrent /\ FencedNeverAccepts
  BY DEF BooksInv, IncarnationInv, FencedSpent, Spent, FencedNeverAccepts
<1>3. DispatchableAuthorityCurrent
  BY AuthorityCurrent DEF BooksInv
<1> QED
  BY <1>1, <1>2, <1>3, AuditedSilent DEF AuditedInv

\* Whatever is saved, stopped and reloaded, and in whatever order, in a scheduler
\* whose every life was read back check_invariants() complains of nothing but
\* assignments that are active on work that has ended, under the assumptions that
\* one life needs.
THEOREM AuditComplainsOfNothingElseAcrossLives ==
    ASSUME OwnBoots, OneConcurrency, ClosePolicies = {TRUE}
    PROVE  RSpec => [](kept /\ NoActiveOnTerminalWork => AuditSilent)
<1>1. ReloadInv /\ OwnershipInv /\ (kept => BooksInv)
      => (kept /\ NoActiveOnTerminalWork => AuditSilent)
  BY KeptLife, BooksAudited
<1> QED
  BY <1>1, BooksKept, ReloadInvariant, OwnershipInvariant, PTL

\* And if a single caller schedules, and exclusive work only, it is silent: what
\* RestoreMode::Live rebuilds passes the audit, and goes on passing it.
THEOREM AuditStaysSilentAcrossLives ==
    ASSUME OwnBoots, OneConcurrency, ClosePolicies = {TRUE}, OneCaller, ExclusiveWork
    PROVE  RSpec => []AuditSilentWhileKept
<1>1. (kept => AloneInv) /\ (kept /\ NoActiveOnTerminalWork => AuditSilent)
      => AuditSilentWhileKept
  BY DEF AloneInv, AuditSilentWhileKept
<1> QED
  BY <1>1, AloneKept, AuditComplainsOfNothingElseAcrossLives, PTL

=============================================================================
