------------------------------ MODULE WorkItems -----------------------------
(***************************************************************************)
(* The handlers that change work records: admission, supersession,         *)
(* cancellation and deadline expiry.                                       *)
(*                                                                         *)
(* As for agents, a rejected call is a guard, and the two-lock handlers    *)
(* (submit_work, cancel_work) are decided by what they check under the     *)
(* second lock.  Queue and tenant bookkeeping is not part of this module.  *)
(***************************************************************************)
EXTENDS AuthorityState

\* The record of w once generation g with request r is admitted.  The last
\* assignment generation survives.
Admitted(w, g, r) ==
    [gen |-> g, req |-> r, lifecycle |-> "Admitted", current |-> 0,
     lastGen |-> work[w].lastGen]

\* Deliberately wrong variant of Readmit: old assignments stay active.
ReadmitOnly(w, g, r) ==
    /\ work' = [work EXCEPT ![w] = Admitted(w, g, r)]
    /\ UNCHANGED <<sched, now, agents, fenced, asg, call>>

\* Every active assignment of the work is superseded and the work starts
\* over at generation g.
Readmit(w, g, r) ==
    LET old == OnWork(asg, w)
        as == Closed(old, "Superseded")
    IN  /\ asg' = as
        /\ agents' = AgentsAfter(as, old)
        /\ work' = [work EXCEPT ![w] = Admitted(w, g, r)]
        /\ UNCHANGED <<sched, now, fenced, call>>

\* An unknown work item has generation 0 and no assignment, so admitting it
\* is the same step as admitting a higher generation.
submit_work(w, g, r) ==
    /\ sched.admission
    /\ g > work[w].gen
    /\ Readmit(w, g, r)

\* Does not look at admission_open: it also works on a scheduler that stopped.
supersede_work(w, g, r) ==
    /\ KnownWork(w)
    /\ work[w].lifecycle # "Cancelled"
    /\ g > work[w].gen
    /\ Readmit(w, g, r)

cancel_work(w) ==
    LET old == OnWork(asg, w)
        as == Closed(old, "Cancelled")
    IN  /\ KnownWork(w)
        /\ work[w].lifecycle \notin TerminalWork
        /\ asg' = as
        /\ agents' = AgentsAfter(as, old)
        /\ work' = [WorkAfter(as, old) EXCEPT ![w].lifecycle = "Cancelled"]
        /\ UNCHANGED <<sched, now, fenced, call>>

\* One sweep over all work items; nothing in the repository but its tests
\* calls it.
expire_deadlines ==
    LET late == {w \in Work : /\ KnownWork(w)
                              /\ work[w].lifecycle \notin TerminalWork
                              /\ DeadlinePassed(w)}
        old == UNION {OnWork(asg, w) : w \in late}
        as == Closed(old, "Expired")
    IN  /\ late # {}
        /\ asg' = as
        /\ agents' = AgentsAfter(as, old)
        /\ work' = [w \in Work |->
                      IF w \in late
                      THEN [WorkAfter(as, old)[w] EXCEPT !.lifecycle = "Expired"]
                      ELSE work[w]]
        /\ UNCHANGED <<sched, now, fenced, call>>

WorkNext ==
    \/ \E w \in Work :
          \/ \E g \in 1..MaxWorkGen, r \in Requests :
                submit_work(w, g, r) \/ supersede_work(w, g, r)
          \/ cancel_work(w)
    \/ expire_deadlines

=============================================================================
