------------------------------ MODULE Fairness ------------------------------
(***************************************************************************)
(* schedule_batch(): which admissible work items one batch serves, and how *)
(* long the others can be passed over.                                     *)
(*                                                                         *)
(* A batch runs under one lock, so it is one action.  The agents are a     *)
(* pool of interchangeable slots.  For each item a batch reaches, the      *)
(* environment decides whether its plan could succeed on a free slot       *)
(* ("fits"), ends Deferred, ends with a rejection, or is planned but       *)
(* refused by the feasibility provider at the commit ("withdrawn").        *)
(***************************************************************************)
EXTENDS Integers, SequencesExt

CONSTANTS
    Item,               \* work items
    Priority, Class,    \* request.priority and request.fairness_class of each
    Width,              \* requirements.max_parallel of each (1: exclusive)
    Weights,            \* policy.fairness_class_weights: classes listed -> weight
    MaxPriorityBypass,  \* policy.max_priority_bypass
    AgingStep,          \* policy.aging_rounds_per_step
    Unbounded,          \* policy.allow_unbounded_starvation
    MaxAssignments,     \* values of request.max_assignments
    DryRuns,            \* values of request.dry_run
    Selections,         \* the sets of items that request filters let through
    Slots,              \* free slots of all agents together
    CounterMax          \* stands for 0xFFFFFFFF, where the counters stop

VARIABLES
    admitted,  \* the live work items
    older,     \* pairs of them: the first has the smaller admitted_sequence
    active,    \* active[i]: the active assignments of i
    bypass,    \* bypass[i]: bypass_count
    missed     \* history: batches in a row that could have served i and did not

vars == <<admitted, older, active, bypass, missed>>

\* What validate() demands of a policy, as far as fairness goes.
PolicyValid ==
    /\ AgingStep \in Nat \ {0}
    /\ Unbounded \in BOOLEAN
    /\ MaxPriorityBypass \in Nat
    /\ ~Unbounded => MaxPriorityBypass >= 1
    /\ \A c \in DOMAIN Weights : Weights[c] \in 1..1000

ASSUME PolicyAssumption == PolicyValid

ASSUME Inputs ==
    /\ IsFiniteSet(Item)
    /\ Width \in [Item -> Nat \ {0}]
    /\ Priority \in [Item -> Int]
    /\ MaxAssignments \subseteq Nat \ {0}
    /\ Selections \subseteq SUBSET Item
    /\ Slots \in Nat /\ CounterMax \in Nat \ {0}

-----------------------------------------------------------------------------
(* The order of a batch.                                                   *)

\* A class the policy does not list weighs 1.
fairness_class_weight(c) == IF c \in DOMAIN Weights THEN Weights[c] ELSE 1

bypass_ceiling(i) ==
    IF Unbounded THEN CounterMax
    ELSE Max({1, MaxPriorityBypass \div fairness_class_weight(Class[i])})

effective_priority(i, passed) ==
    Priority[i] + Min({passed[i] \div AgingStep, Max({1, MaxPriorityBypass})})

\* Deliberately wrong variant of must_run: aging alone decides.
never_must_run(i, passed) == FALSE

must_run(i, passed) == ~Unbounded /\ passed[i] >= bypass_ceiling(i)

pressure(i, passed) == (passed[i] * 1024) \div bypass_ceiling(i)

\* Items that must run go first, by bypass pressure; the others go by
\* effective priority; equals go by age.
fairness_before(i, j, passed) ==
    IF must_run(i, passed) # must_run(j, passed) THEN must_run(i, passed)
    ELSE LET key(x) == IF must_run(x, passed) THEN pressure(x, passed)
                       ELSE effective_priority(x, passed)
         IN  key(i) > key(j) \/ (key(i) = key(j) /\ <<i, j>> \in older)

\* The items in that order.
InOrder(items, passed) ==
    LET before == {p \in items \X items : fairness_before(p[1], p[2], passed)}
    IN  CHOOSE s \in SetToSeqs(items) :
            \A x, y \in DOMAIN s : x < y => <<s[x], s[y]>> \in before

-----------------------------------------------------------------------------
(* One batch.  Its state so far: what is active and how often each item    *)
(* was passed over, and the assignments made.                              *)

FanoutOpen(i, running) == running[i] > 0 /\ running[i] < Width[i]

\* What one batch could serve: no active assignment, or open fan-out.
Candidates(selected) ==
    {i \in admitted \cap selected : active[i] = 0 \/ FanoutOpen(i, active)}

FreeSlots(running) == Slots - FoldFunction(+, 0, running)

Charged(b, i) == [b EXCEPT !.passed[i] = Min({@ + 1, CounterMax})]

Served(b, i) == [b EXCEPT !.running[i] = @ + 1, !.passed[i] = 0, !.assigned = @ + 1]

\* The loop body of one pass at item i.  Only the first pass charges.
Reached(b, i, request, answers, first) ==
    LET planned == answers[i] \in {"fits", "withdrawn"} /\ FreeSlots(b.running) > 0
    IN  IF b.assigned >= request.max \/ (~planned /\ answers[i] # "deferred")
        THEN IF first THEN Charged(b, i) ELSE b
        ELSE IF planned /\ answers[i] = "fits" /\ ~request.dry
             THEN Served(b, i) ELSE b

\* One pass over the given items, in the order that holds when it starts.
Pass(b, items, request, answers, first) ==
    LET order == InOrder(items, b.passed)
    IN  FoldLeft(LAMBDA acc, i : Reached(acc, i, request, answers, first), b, order)

\* Deliberately wrong variant of Continued: a served item is offered the next
\* slot before the rest of its pass.
ContinuedAtOnce(b, items, request, answers) ==
    FoldLeft(LAMBDA acc, i : Reached(Reached(acc, i, request, answers, FALSE), i,
                                     request, answers, FALSE),
             b, SetToSeq({i \in items : Width[i] > 1}))

\* A later pass offers what is left to items whose fan-out is still open.  A
\* pass without progress changes nothing, so ending the loop there is implied.
Continued(b, items, request, answers) ==
    IF b.assigned >= request.max THEN b
    ELSE Pass(b, {i \in items : FanoutOpen(i, b.running)}, request, answers, FALSE)

\* Deliberately wrong variant of Batch: the later passes come first.
BatchFanoutFirst(items, request, answers) ==
    Pass(ContinuedAtOnce([running |-> active, passed |-> bypass, assigned |-> 0],
                         items, request, answers),
         items, request, answers, TRUE)

\* As many passes as the widest candidate has replicas.
Batch(items, request, answers) ==
    LET widest == Max({1} \cup {Width[i] : i \in items})
        first == Pass([running |-> active, passed |-> bypass, assigned |-> 0],
                      items, request, answers, TRUE)
    IN  FoldLeft(LAMBDA acc, n : Continued(acc, items, request, answers),
                 first, [n \in 1..(widest - 1) |-> n])

\* History: i counts as missed by a batch that had a slot, could have placed i
\* and did not; it starts over when i is served or not eligible.
MissedAfter(items, request, answers, running) ==
    [i \in Item |->
        IF i \in items /\ answers[i] = "fits" /\ running[i] = active[i] /\ ~request.dry
        THEN IF FreeSlots(active) > 0 THEN missed[i] + 1 ELSE missed[i]
        ELSE 0]

schedule_batch ==
    \E max \in MaxAssignments, dry \in DryRuns, selected \in Selections :
      LET items == Candidates(selected)
          request == [max |-> max, dry |-> dry]
      IN  \E answers \in [items -> {"fits", "deferred", "rejected", "withdrawn"}] :
            LET b == Batch(items, request, answers)
            IN  /\ active' = b.running
                /\ bypass' = b.passed
                /\ missed' = MissedAfter(items, request, answers, b.running)
                /\ UNCHANGED <<admitted, older>>

-----------------------------------------------------------------------------
(* What else touches the fairness state of an item.                        *)

\* What is left of the age order without i.
OlderWithout(i) == {p \in older : i \notin {p[1], p[2]}}

\* Admission, re-admission and supersession: the item is the youngest and starts
\* over.
Admit(i) ==
    /\ admitted' = admitted \cup {i}
    /\ older' = OlderWithout(i) \cup ((admitted \ {i}) \X {i})
    /\ active' = [active EXCEPT ![i] = 0]
    /\ bypass' = [bypass EXCEPT ![i] = 0]
    /\ missed' = [missed EXCEPT ![i] = 0]

\* Work that ended: cancelled, expired, completed or failed.
Withdraw(i) ==
    /\ i \in admitted
    /\ admitted' = admitted \ {i}
    /\ older' = OlderWithout(i)
    /\ active' = [active EXCEPT ![i] = 0]
    /\ missed' = [missed EXCEPT ![i] = 0]
    /\ UNCHANGED bypass

\* One assignment is given back; the counters stay.
Return(i) ==
    /\ i \in admitted
    /\ active[i] > 0
    /\ active' = [active EXCEPT ![i] = @ - 1]
    /\ UNCHANGED <<admitted, older, bypass, missed>>

Init ==
    /\ admitted = {}
    /\ older = {}
    /\ active = [i \in Item |-> 0]
    /\ bypass = [i \in Item |-> 0]
    /\ missed = [i \in Item |-> 0]

Next == schedule_batch \/ \E i \in Item : Admit(i) \/ Withdraw(i) \/ Return(i)

Spec == Init /\ [][Next]_vars

\* Where the counters stop is out of reach: 2^32 batches.
NotSaturated == \A i \in Item : bypass[i] < CounterMax

-----------------------------------------------------------------------------
(* Properties.                                                             *)

\* The ages of the live items order them strictly and totally, whatever was
\* re-admitted or withdrawn.
AgesOrdered ==
    /\ admitted \subseteq Item
    /\ older \subseteq admitted \X admitted
    /\ \A i \in admitted : <<i, i>> \notin older
    /\ \A i, j, k \in admitted : <<i, j>> \in older /\ <<j, k>> \in older => <<i, k>> \in older
    /\ \A i, j \in admitted : i # j => <<i, j>> \in older \/ <<j, i>> \in older

\* Types; an item that an admission or a withdrawal touched keeps no stale place
\* in the order of ages.
TypeOK ==
    /\ AgesOrdered
    /\ active \in [Item -> Nat]
    /\ bypass \in [Item -> 0..CounterMax]
    /\ missed \in [Item -> Nat]

\* "a continuously eligible item runs within ceiling + (admissible - 1)
\* scheduling rounds": counted in batches that had a slot to give.
StarvationBounded ==
    \A i \in admitted : missed[i] + 1 <= bypass_ceiling(i) + Cardinality(Item) - 1

\* "Later passes only continue explicitly parallel fan-out": no item gets a
\* second replica in a batch that passes over an item it could have placed.
FanoutTakesLeftovers ==
    [][(\E i \in Item : active'[i] >= active[i] + 2) =>
         \A j \in Item : missed'[j] <= missed[j]]_vars

=============================================================================
