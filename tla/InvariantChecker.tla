-------------------------- MODULE InvariantChecker --------------------------
(***************************************************************************)
(* check_invariants(): the scheduler's own audit of its state, which its   *)
(* tests, the synthetic laboratory and the inspection tool rely on.  A     *)
(* report is the set of the codes it complains about.                      *)
(*                                                                         *)
(* Of the code's checks, those on the derived indexes are in Bookkeeping,  *)
(* those on the limits are what Recovery's loader refuses, and those that  *)
(* a total function from identities to records cannot fail are left out.   *)
(***************************************************************************)
EXTENDS Scheduler

\* One check: the code it reports when the condition does not hold.
Check(condition, code) == IF condition THEN {} ELSE {code}

EpochReport ==
    Check(/\ sched.epoch # 0
          /\ sched.running => sched.coord # 0, "single_scheduler_epoch")

\* An active assignment: its incarnation, its work, its agent, the fan-out.
ActiveReport(b) ==
    Check(Known(b.agent) => b.boot \notin fenced, "fenced_boot_has_no_authority")
    \cup Check(work[b.work].lifecycle \notin TerminalWork,
               "no_dispatchable_cancelled_work")
    \cup Check(agents[b.agent].lifecycle \notin {"Retired", "Lost"},
               "no_work_for_retired_agent")
    \cup (IF ~KnownWork(b.work) THEN {}
          ELSE Check(Cardinality(OnWork(asg, b.work)) <= work[b.work].req.maxParallel,
                     "parallel_fanout_bounded")
               \cup Check(b.exclusive => work[b.work].req.mode = "Exclusive",
                          "exclusive_work_single_assignment"))

\* An assignment that dispatch() could still hand out.
DispatchableReport(b) ==
    Check(/\ BoundEpochsCurrent(b)
          /\ Known(b.agent) => agents[b.agent].capability.value = b.capGen,
          "no_stale_authority_dispatchable")
    \cup Check(Known(b.agent) => agents[b.agent].boot = b.boot,
               "dispatchable_boot_current")
    \cup Check(~sched.shutting, "shutdown_blocks_new_assignment")

AssignmentReport(b) ==
    Check(b.gen # 0, "assignment_generation_monotonic")
    \cup Check(KnownWork(b.work), "assignment_references_known_work")
    \cup Check(KnownWork(b.work) => work[b.work].gen >= b.workGen,
               "work_generation_monotonic")
    \cup Check(Known(b.agent), "assignment_references_known_agent")
    \cup Check(Known(b.agent) => agents[b.agent].gen >= b.agentGen,
               "agent_generation_monotonic")
    \cup (IF asg[b].state \in ActiveStates THEN ActiveReport(b) ELSE {})
    \cup Check(asg[b].state \in TerminalStates => ~asg[b].leaseCurrent,
               "lease_does_not_resurrect")
    \cup (IF asg[b].state = "Assigned" THEN DispatchableReport(b) ELSE {})

WorkReport(w) ==
    LET r == work[w]
        active == OnWork(asg, w)
    IN  Check(r.gen # 0, "work_generation_monotonic")
        \cup Check(Cardinality({b \in active : b.exclusive}) <= 1,
                   "exclusive_assignment_uniqueness")
        \cup Check(\A a \in Agent : Cardinality(active \cap OnAgent(asg, a)) <= r.req.perAgent,
                   "parallel_fanout_bounded")
        \cup Check(r.current = Cardinality(active), "queue_accounting_agrees")
        \cup Check(/\ r.lifecycle \in TerminalWork \cup {"Admitted"} => active = {}
                   /\ r.lifecycle = "Assigned" => active # {},
                   "work_lifecycle_agrees")
        \cup Check(r.lastGen # 0 => \E b \in DOMAIN asg : b.work = w /\ b.gen = r.lastGen,
                   "assignment_generation_monotonic")

AgentReport(a) ==
    LET r == agents[a]
    IN  Check(r.gen # 0, "agent_generation_monotonic")
        \cup Check(r.active = Cardinality(OnAgent(asg, a)), "agent_accounting_agrees")
        \cup Check(r.active <= r.maxc, "capacity_not_exceeded")
        \cup Check(r.boot \in fenced => r.lifecycle \notin AcceptsNewWork,
                   "fenced_boot_has_no_authority")
        \cup Check(r.recovered => ~(r.capability.current \/ r.health.current
                                      \/ r.avail.current),
                   "recovered_evidence_not_current")

\* The digest of the state is a SHA-256 over the scheduler's identity and more, so
\* it is never zero, and a scheduler without a record is expected to have zero.
Empty == /\ \A a \in Agent : ~Known(a)
         /\ \A w \in Work : ~KnownWork(w)
         /\ DOMAIN asg = {} /\ fenced = {}

DigestReport == Check(~Empty, "digest_matches_canonical")

check_invariants ==
    EpochReport
    \cup DigestReport
    \cup UNION {AssignmentReport(b) : b \in DOMAIN asg}
    \cup UNION {WorkReport(w) : w \in {x \in Work : KnownWork(x)}}
    \cup UNION {AgentReport(a) : a \in {x \in Agent : Known(x)}}

-----------------------------------------------------------------------------
\* README: the state is "checked against a canonical scan by
\* check_invariants()".  The audit stays silent in every reachable state, through
\* stops and starts, provided one caller at a time plans and hands off, the work
\* is exclusive, agents keep the concurrency they declared, and the policy closes
\* undispatched assignments at shutdown; except that it complains of a scheduler that
\* has no record yet.  For reloads see AuditSilentWhileKept.
AuditSilent ==
    check_invariants = IF Empty THEN {"digest_matches_canonical"} ELSE {}

=============================================================================
