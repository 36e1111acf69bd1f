---------------------------- MODULE Bookkeeping -----------------------------
(***************************************************************************)
(* What a scheduler keeps beside its authoritative records: the derived    *)
(* indexes, which the handlers update in place, and the queue table.       *)
(*                                                                         *)
(* The other modules count assignments by scanning them; the code counts   *)
(* what its indexes list.  Here every handler of Scheduler is composed     *)
(* with the index updates it makes, in their order, and with what it does  *)
(* to the queues.  Of the agent indexes, those by tenant and by domain     *)
(* follow the one by lifecycle and are left out; so are the class, weight  *)
(* and counters of a queue and the tenant table, which nothing reads.      *)
(***************************************************************************)
EXTENDS Scheduler

CONSTANTS
    Queue,         \* queue identities (QueueId)
    MaxQueues,     \* limits.max_queues
    MaxQueueGen    \* bound of the model on queue generations

VARIABLES
    index,     \* the derived indexes, as relations
    queues,    \* the generation of each queue; 0: no record
    placed,    \* the queue and queue generation that each work item names
    refused    \* work whose last re-admission was answered with an error

bookVars == <<index, queues, placed, refused>>

ASSUME QueueBounds == {MaxQueues, MaxQueueGen} \subseteq Nat \ {0}

-----------------------------------------------------------------------------
(* The indexes.                                                            *)

\* What rebuild_indexes makes, and the audit expects.
Canonical ==
    [agents |-> {<<agents[a].lifecycle, a>> : a \in {x \in Agent : Known(x)}},
     capable |-> {a \in Agent : Known(a) /\ agents[a].capability.current},
     work |-> {<<work[w].lifecycle, w>> : w \in {x \in Work : KnownWork(x)}},
     queue |-> {<<placed[w].queue, w>> : w \in {x \in Work : KnownWork(x)}},
     assignments |-> ActiveIn(asg)]

\* The pairs of an index by lifecycle once the records rs of xs are listed anew.
Relisted(pairs, rs, xs) ==
    {p \in pairs : p[2] \notin xs} \cup {<<rs[x].lifecycle, x>> : x \in xs}

sync_agent_lifecycle_index(ix, rs, as) ==
    [ix EXCEPT !.agents = Relisted(@, rs, as)]

\* Deliberately wrong variant of sync_work_lifecycle_index: adds without removing.
ListedTwice(ix, rs, ws) ==
    [ix EXCEPT !.work = @ \cup {<<rs[w].lifecycle, w>> : w \in ws}]

sync_work_lifecycle_index(ix, rs, ws) ==
    [ix EXCEPT !.work = Relisted(@, rs, ws)]

\* index_assignment lists active assignments only.
index_assignment(ix, bs) ==
    [ix EXCEPT !.assignments = @ \cup (bs \cap ActiveIn(asg'))]

\* close_assignment on every member of ids: each is taken off the index, then
\* its agent and its work are refreshed.
CloseIndexed(ix, ids) ==
    LET as == {b.agent : b \in ids}
        ws == {b.work : b \in ids}
        off == [ix EXCEPT !.assignments = @ \ ids]
        onAgents == sync_agent_lifecycle_index(off, AgentsAfter(asg', ids), as)
    IN  sync_work_lifecycle_index(onAgents, WorkAfter(asg', ids), ws)

\* deindex_agent and index_agent around a change of a's record.
refresh_agent(ix, a) ==
    [sync_agent_lifecycle_index(ix, agents', {a})
       EXCEPT !.capable = IF agents'[a].capability.current THEN @ \cup {a}
                          ELSE @ \ {a}]

\* deindex_work and index_work around a change of w's record.
ReindexWork(ix, w) ==
    [sync_work_lifecycle_index(ix, work', {w})
       EXCEPT !.queue = {p \in @ : p[2] # w} \cup {<<placed'[w].queue, w>>}]

\* The agents and the work of bs are refreshed, which lists them anew.
Refreshed(ix, bs) ==
    sync_work_lifecycle_index(
        sync_agent_lifecycle_index(ix, agents', {b.agent : b \in bs}),
        work', {b.work : b \in bs})

Indexes(ix) == index' = ix /\ UNCHANGED <<queues, placed, refused>>

-----------------------------------------------------------------------------
(* The handlers with their index updates.                                  *)

AgentBooked(a) ==
    \/ \E g \in 1..MaxAgentGen, boot \in BootOf[a], m \in Concurrency :
          \/ RegisterNew(a, g, boot, m) /\ Indexes(refresh_agent(index, a))
          \/ /\ Reincarnate(a, g, boot, m)
             /\ Indexes(refresh_agent(CloseIndexed(index, ActiveOfBoot(agents[a].boot)), a))
    \/ /\ \/ \E m \in Concurrency : Reregister(a, m)
          \/ \E g \in 1..MaxCapGen, at \in 1..now : publish_capabilities(a, g, at)
          \/ \E v \in HealthReports, at \in 1..now : publish_health(a, v, at)
          \/ \E v \in AvailReports, at \in 1..now : publish_availability(a, v, at)
          \/ drain_agent(a, FALSE)
       /\ Indexes(refresh_agent(index, a))
    \/ /\ drain_agent(a, TRUE) \/ LoseCurrent(a)
       /\ Indexes(refresh_agent(CloseIndexed(index, ActiveOfBoot(agents[a].boot)), a))
    \/ /\ \E force \in BOOLEAN : deregister_agent(a, force)
       /\ LET gone == IF OnAgent(asg, a) = {} THEN {} ELSE ActiveOfBoot(agents[a].boot)
          IN  Indexes(refresh_agent(CloseIndexed(index, gone), a))
    \/ heartbeat(a) /\ Indexes(index)
    \/ \E boot \in BootOf[a] : LoseStale(a, boot) /\ Indexes(index)

ReportBooked(b) ==
    \/ acknowledge(b) /\ Indexes(IF LeaseValid(b) THEN index
                                 ELSE CloseIndexed(index, {b}))
    \/ mark_executing(b) /\ Indexes(IF LeaseValid(b)
                                    THEN sync_work_lifecycle_index(index, work', {b.work})
                                    ELSE CloseIndexed(index, {b}))
    \/ \E st \in {"Released", "Invalidated"} :
          Return(b, st) /\ Indexes(CloseIndexed(index, {b}))
    \/ \E st \in {"Completed", "Failed"} :
          Finish(b, st) /\ Indexes(Refreshed(CloseIndexed(index, {b}), {b}))

\* The pending assignments of bs are examined: those that were promoted are listed
\* again and their records refreshed, the others are closed.
Examined(bs) ==
    LET promoted == {b \in bs : asg'[b].state = "Assigned"}
    IN  Indexes(Refreshed(index_assignment(CloseIndexed(index, bs \ promoted), promoted),
                          promoted))

AssignmentBooked ==
    \/ \E c \in Caller :
          \/ /\ commit_locked(c)
             /\ Indexes(Refreshed(index_assignment(index, {call[c].b}), {call[c].b}))
          \/ /\ \/ \E w \in Work : plan_locked(c, w)
                \/ CommitRejected(c)
                \/ \E b \in DOMAIN asg : dispatch(c, b)
                \/ Handoff(c)
                \/ HandoffRejected(c)
             /\ Indexes(index)
    \/ \E b \in DOMAIN asg : ReportBooked(b)
    \/ revalidate_assignments /\ Examined(Pending)
    \/ \E a \in Agent :
          /\ revalidate_agent_assignments(a)
          /\ Examined({b \in Pending : b.agent = a /\ b.boot = agents[a].boot})
    \/ expire_leases /\ Indexes(CloseIndexed(index, {b \in ActiveIn(asg) : asg[b].expires < now}))

SchedulerBooked ==
    \/ (start \/ Tick) /\ Indexes(index)
    \/ shutdown /\ Indexes(CloseIndexed(index,
                       {b \in DOMAIN asg : sched.closes /\ asg[b].state = "Assigned"}))
    \/ \E g \in 1..MaxPolicyGen, closes \in ClosePolicies :
          /\ set_policy(g, closes)
          /\ Indexes(CloseIndexed(index, {b \in ActiveIn(asg) : b.policy # g}))

-----------------------------------------------------------------------------
(* Queues and admission.                                                   *)

\* Whether ensure_queue and register_queue accept generation g of queue q.
QueueAccepts(q, g) ==
    IF queues[q] = 0
    THEN Cardinality({x \in Queue : queues[x] # 0}) < MaxQueues
    ELSE g >= queues[q]

\* Deliberately wrong variant of ensure_queue: a queue that exists is left alone.
EnsuredOnce(q, g) ==
    IF QueueAccepts(q, g) /\ queues[q] = 0 THEN [queues EXCEPT ![q] = g] ELSE queues

ensure_queue(q, g) ==
    IF QueueAccepts(q, g) THEN [queues EXCEPT ![q] = g] ELSE queues

\* The same generation changes nothing, whatever else is published with it.
register_queue(q, g) ==
    /\ QueueAccepts(q, g)
    /\ g # queues[q]
    /\ queues' = [queues EXCEPT ![q] = g]
    /\ UNCHANGED <<vars, index, placed, refused>>

\* A new work item is stored after its queue; a known one is rewritten and
\* indexed first, and stays so when its queue is refused.
Placed(w, q, g) ==
    /\ KnownWork(w) \/ QueueAccepts(q, g)
    /\ queues' = ensure_queue(q, g)
    /\ placed' = [placed EXCEPT ![w] = [queue |-> q, gen |-> g]]
    /\ refused' = IF QueueAccepts(q, g) THEN refused \ {w} ELSE refused \cup {w}
    /\ index' = ReindexWork(CloseIndexed(index, OnWork(asg, w)), w)

WorkBooked ==
    \/ \E w \in Work :
          \/ \E g \in 1..MaxWorkGen, r \in Requests, q \in Queue, qg \in 1..MaxQueueGen :
                (submit_work(w, g, r) \/ supersede_work(w, g, r)) /\ Placed(w, q, qg)
          \/ /\ cancel_work(w)
             /\ Indexes(sync_work_lifecycle_index(CloseIndexed(index, OnWork(asg, w)),
                                                  work', {w}))
    \/ LET late == {w \in Work : /\ KnownWork(w)
                                 /\ work[w].lifecycle \notin TerminalWork
                                 /\ DeadlinePassed(w)}
       IN  /\ expire_deadlines
           /\ Indexes(sync_work_lifecycle_index(
                 CloseIndexed(index, UNION {OnWork(asg, w) : w \in late}), work', late))

BookedInit ==
    /\ Init
    /\ index = [agents |-> {}, capable |-> {}, work |-> {}, queue |-> {},
                assignments |-> {}]
    /\ queues = [q \in Queue |-> 0]
    /\ placed = [w \in Work |-> [queue |-> "", gen |-> 0]]
    /\ refused = {}

BookedNext ==
    \/ SchedulerBooked
    \/ \E a \in Agent : AgentBooked(a)
    \/ AssignmentBooked
    \/ WorkBooked
    \/ \E q \in Queue, g \in 1..MaxQueueGen : register_queue(q, g)

BookedSpec == BookedInit /\ [][BookedNext]_<<vars, bookVars>>

-----------------------------------------------------------------------------
(* Properties.                                                             *)

\* index_matches_canonical: after every handler, whichever way it went, the
\* indexes list what a scan of the records finds.  The scheduler counts by them,
\* so the counts of the other modules are those of the code.
IndexesAgree == index = Canonical

\* "work references an unknown queue": a work item names a queue that exists, at a
\* generation the queue has reached, unless its re-admission was refused: then the
\* caller saw an error for a change that was made.
QueueReachedUnlessRefused ==
    \A w \in Work : KnownWork(w) /\ w \notin refused =>
        placed[w].gen \in 1..queues[placed[w].queue]

=============================================================================
