--------------------------- MODULE MCBookkeeping ----------------------------
(***************************************************************************)
(* A small instance of Bookkeeping for TLC: one agent that reincarnates,   *)
(* one work item, two queues of which one may exist.                       *)
(***************************************************************************)
EXTENDS Bookkeeping, TLC

CONSTANTS a1, b1, b2, w1, c1, q1, q2

AllFit == Work \X Agent
EveryBoot == [a \in Agent |-> Boot]
Exclusive == [NoRequest EXCEPT !.require = {"healthy", "reachable", "lease"}]
ExclusiveOnly == {[Exclusive EXCEPT !.deadline = 1]}
QueueSymmetry == Permutations(Queue)
\* Nothing grows too old within MaxTime here, so when evidence was observed and
\* how long a registration lasts make no difference; nor does the way in which an
\* assignment ended, unless it was completed.
DatesAside ==
    <<sched, now, fenced, work, call, bookVars,
      [a \in Agent |-> [agents[a] EXCEPT !.capability.at = 0, !.health.at = 0,
                                        !.avail.at = 0, !.lease = @ # 0]],
      [b \in DOMAIN asg |-> IF asg[b].state \in TerminalStates \ {"Completed"}
                            THEN "ended" ELSE asg[b]]>>

\* Time, policy, capabilities, incarnation, work and queues move on from 1
\* twice altogether: each of them alone, and each pair.
FewChanges ==
    LET moves(n) == IF n > 1 THEN n - 1 ELSE 0
    IN  moves(now) + moves(sched.policy) + moves(agents[a1].capability.value)
          + moves(agents[a1].gen) + moves(work[w1].gen)
          + moves(queues[q1]) + moves(queues[q2]) <= 2

Ageless == [k \in {"capability", "health", "availability"} |-> 10]

=============================================================================
