------------------------------ MODULE Recovery ------------------------------
(***************************************************************************)
(* A scheduler with its state file: save(), load(), and the death of the   *)
(* process at any moment.                                                  *)
(*                                                                         *)
(* save() encodes under the lock and writes without it; load() reads       *)
(* without the lock and replaces the state under it.  Each is two steps    *)
(* here, between which anything else may happen.  The file is replaced by  *)
(* a rename, so it always holds one complete image; a file that fails its  *)
(* integrity checks changes nothing and is left out.                       *)
(***************************************************************************)
EXTENDS InvariantChecker

CONSTANTS
    Persister,   \* threads that may be inside save() or load()
    NoImage,     \* there is no state file yet
    MaxLeases,       \* limits.max_leases
    MaxAssignments,  \* limits.max_active_assignments + max_historical_assignments
    MaxFencedBoots,  \* limits.max_fenced_boots
    MaxLives     \* bound of the model on restarts and reloads

VARIABLES
    disk,      \* the image in the state file, or NoImage
    io,        \* io[p]: the image persister p carries between its two steps
    life,      \* how often the state was taken from the file, plus one
    owners,    \* handed to an agent in some life and not closed in any
    past,      \* the owners when the present life began
    promised,  \* the fences in the images whose save() returned success
    kept       \* no life ended with anything that the next one did not read back

rvars == <<vars, disk, io, life, owners, past, promised, kept>>

ASSUME Lives ==
    /\ MaxLives \in Nat \ {0}
    /\ {MaxLeases, MaxAssignments, MaxFencedBoots} \subseteq Nat

-----------------------------------------------------------------------------
(* The image.                                                              *)

\* Everything but Retired and Lost comes back as RevalidationRequired.
lifecycle_hint(lifecycle) ==
    IF lifecycle \in {"Unregistered", "Retired", "Lost"} THEN lifecycle
    ELSE "RevalidationRequired"

SavedAgent(r) ==
    [gen |-> r.gen, boot |-> r.boot, maxc |-> r.maxc,
     lifecycle |-> lifecycle_hint(r.lifecycle), capGen |-> r.capability.value]

SavedWork(r) == [gen |-> r.gen, req |-> r.req, lifecycle |-> r.lifecycle,
                 lastGen |-> r.lastGen]

\* What save() encodes.  The lifecycle flags are written too, but no load
\* looks at them; so are the leases, which always come back expired.
Image ==
    [epoch |-> sched.epoch, coord |-> sched.coord, policy |-> sched.policy,
     closes |-> sched.closes, fenced |-> fenced,
     agents |-> [a \in Agent |-> SavedAgent(agents[a])],
     work |-> [w \in Work |-> SavedWork(work[w])],
     asg |-> [b \in DOMAIN asg |-> [state |-> asg[b].state,
                                    expires |-> asg[b].expires]]]

\* The collections that grow without a test and that the decoder refuses when
\* they exceed their limit.  Every assignment ever made has a lease of its own.
Decodable(image) ==
    /\ Cardinality(DOMAIN image.asg) <= MaxAssignments
    /\ Cardinality(DOMAIN image.asg) <= MaxLeases
    /\ Cardinality(image.fenced) <= MaxFencedBoots

\* Deliberately wrong variant of RestoredAssignment: a dispatched assignment
\* goes on where it was.
ResumedAssignment(r) ==
    IF r.state = "Assigned"
    THEN [state |-> "RevalidationRequired", leaseCurrent |-> FALSE, expires |-> 0]
    ELSE [state |-> r.state, leaseCurrent |-> FALSE, expires |-> r.expires]

\* Deliberately wrong variant of RestoredAssignment: recovery gives up what was
\* under way.
AbandonedAssignment(r) ==
    [state |-> IF r.state \in ActiveStates THEN "Invalidated" ELSE r.state,
     leaseCurrent |-> FALSE, expires |-> r.expires]

\* An active assignment keeps its slot and loses its authority and its lease.
RestoredAssignment(r) ==
    IF r.state \in ActiveStates
    THEN [state |-> "RevalidationRequired", leaseCurrent |-> FALSE, expires |-> 0]
    ELSE [state |-> r.state, leaseCurrent |-> FALSE, expires |-> r.expires]

\* No observation comes back as current.
RestoredAgent(r) ==
    [gen |-> r.gen, boot |-> r.boot, maxc |-> r.maxc, lifecycle |-> r.lifecycle,
     capability |-> NoEvidence(r.capGen), health |-> NoEvidence("Unknown"),
     avail |-> NoEvidence("Unknown"), lease |-> 0, active |-> 0,
     recovered |-> r.lifecycle # "Unregistered"]

RestoredWork(r) ==
    [gen |-> r.gen, req |-> r.req, current |-> 0, lastGen |-> r.lastGen,
     lifecycle |-> IF r.lifecycle \in {"Assigned", "Executing"} THEN "Admitted"
                   ELSE r.lifecycle]

\* Deliberately wrong variant of RestoredScheduler: the epoch stays.
SameEpoch(image) ==
    [epoch |-> image.epoch, coord |-> image.coord, policy |-> image.policy,
     running |-> FALSE, admission |-> FALSE, shutting |-> FALSE,
     closes |-> image.closes]

\* The scheduler epoch moves on; start() moves the coordinator epoch.
RestoredScheduler(image) ==
    [epoch |-> image.epoch + 1, coord |-> image.coord, policy |-> image.policy,
     running |-> FALSE, admission |-> FALSE, shutting |-> FALSE,
     closes |-> image.closes]

RestoredAssignments(image) ==
    [b \in DOMAIN image.asg |-> RestoredAssignment(image.asg[b])]

\* Deliberately wrong variant of RestoredAgents: nothing is counted.
UncountedAgents(image) == [a \in Agent |-> RestoredAgent(image.agents[a])]

RestoredAgents(image) ==
    [a \in Agent |->
        LET r == RestoredAgent(image.agents[a])
        IN  IF r.lifecycle = "Unregistered" THEN r
            ELSE RefreshedAgent(RestoredAssignments(image), r, a)]

RestoredWorkItems(image) ==
    [w \in Work |->
        LET r == RestoredWork(image.work[w])
        IN  IF r.lifecycle = "Unknown" THEN r
            ELSE RefreshedWork(RestoredAssignments(image), r, w)]

\* What a life reads back of an image: of an assignment, whether it was active.
ReadBack(image) ==
    [image EXCEPT !.asg = [b \in DOMAIN @ |-> @[b].state \in ActiveStates]]

\* The end of load(): the state is replaced and a new life begins.
Restore(image) ==
    /\ life < MaxLives
    /\ kept' = (kept /\ ReadBack(image) = ReadBack(Image))
    /\ life' = life + 1
    /\ past' = owners
    /\ sched' = RestoredScheduler(image)
    /\ fenced' = image.fenced
    /\ asg' = RestoredAssignments(image)
    /\ agents' = RestoredAgents(image)
    /\ work' = RestoredWorkItems(image)
    /\ UNCHANGED owners

-----------------------------------------------------------------------------
(* The handlers.                                                           *)

\* Deliberately wrong variant of save: success is reported before the file is
\* replaced.
ReportedEarly(p) ==
    /\ io[p] = Idle
    /\ io' = [io EXCEPT ![p] = [op |-> "save", image |-> Image]]
    /\ promised' = promised \cup fenced
    /\ UNCHANGED <<vars, disk, life, owners, past, kept>>

\* save(), under the lock.
save(p) ==
    /\ io[p] = Idle
    /\ io' = [io EXCEPT ![p] = [op |-> "save", image |-> Image]]
    /\ UNCHANGED <<vars, disk, life, owners, past, promised, kept>>

\* The rest of save(): a temporary file is written, checked and renamed, and
\* the caller learns of it.
write_atomically(p) ==
    /\ io[p].op = "save"
    /\ disk' = io[p].image
    /\ promised' = promised \cup io[p].image.fenced
    /\ io' = [io EXCEPT ![p] = Idle]
    /\ UNCHANGED <<vars, life, owners, past, kept>>

\* The write, the check or the rename fails: the file stays what it was.
WriteFailed(p) ==
    /\ io[p].op = "save"
    /\ io' = [io EXCEPT ![p] = Idle]
    /\ UNCHANGED <<vars, disk, life, owners, past, promised, kept>>

\* load() by the running process: the file is read and decoded.
load(p) ==
    /\ io[p] = Idle
    /\ ~sched.running
    /\ disk # NoImage /\ Decodable(disk)
    /\ io' = [io EXCEPT ![p] = [op |-> "load", image |-> disk]]
    /\ UNCHANGED <<vars, disk, life, owners, past, promised, kept>>

\* The end of load(), under the lock.  Calls in flight go on with what they
\* carry.
LoadCommitted(p) ==
    /\ io[p].op = "load"
    /\ ~sched.running
    /\ Restore(io[p].image)
    /\ io' = [io EXCEPT ![p] = Idle]
    /\ UNCHANGED <<now, call, disk, promised>>

LoadRejected(p) ==
    /\ io[p].op = "load"
    /\ sched.running
    /\ io' = [io EXCEPT ![p] = Idle]
    /\ UNCHANGED <<vars, disk, life, owners, past, promised, kept>>

\* The process dies and another one loads the file before it takes any call.
\* Its steady clock has another origin.  Without a file it would be a new
\* scheduler, which is Init; with a file it cannot decode it does not start.
Restart ==
    /\ disk # NoImage /\ Decodable(disk)
    /\ Restore(disk)
    /\ now' \in 1..MaxTime
    /\ call' = [c \in Caller |-> Idle]
    /\ io' = [p \in Persister |-> Idle]
    /\ UNCHANGED <<disk, promised>>

\* A step of the scheduler itself; owners records what it hands out and closes.
SchedulerStep ==
    /\ Next
    /\ owners' = (owners \cup {b \in DOMAIN asg' : asg'[b].state = "Dispatched"})
                   \ {b \in ActiveIn(asg) : asg'[b].state \in TerminalStates}
    /\ UNCHANGED <<disk, io, life, past, promised, kept>>

RecoveryInit ==
    /\ disk = NoImage
    /\ io = [p \in Persister |-> Idle]
    /\ life = 1
    /\ owners = {}
    /\ past = {}
    /\ promised = {}
    /\ kept = TRUE

RNext ==
    \/ SchedulerStep
    \/ \E p \in Persister :
          \/ save(p)
          \/ write_atomically(p)
          \/ WriteFailed(p)
          \/ load(p)
          \/ LoadCommitted(p)
          \/ LoadRejected(p)
    \/ Restart

RSpec == Init /\ RecoveryInit /\ [][RNext]_rvars

-----------------------------------------------------------------------------
(* Properties.                                                             *)

AgentImage == [gen : Nat, boot : Boot \cup {NoBoot}, maxc : Nat, capGen : Nat,
               lifecycle : {"Unregistered", "RevalidationRequired", "Retired",
                            "Lost"}]

WorkImage == [gen : Nat, req : Request, lifecycle : WorkLifecycles, lastGen : Nat]

IsImage(i) ==
    /\ {i.epoch, i.coord, i.policy} \subseteq Nat
    /\ i.closes \in BOOLEAN
    /\ i.fenced \subseteq Boot
    /\ i.agents \in [Agent -> AgentImage]
    /\ \A a \in Agent : i.agents[a].lifecycle # "Unregistered" =>
                          i.agents[a].boot \in BootOf[a]
    /\ i.work \in [Work -> WorkImage]
    /\ DOMAIN i.asg \subseteq Binding
    /\ IsFiniteSet(DOMAIN i.asg)
    /\ i.asg \in [DOMAIN i.asg -> [state : ActiveStates \cup TerminalStates,
                                   expires : Nat]]

\* The state is typed through every reload, and so is every image that a file or
\* a thread holds.
RTypeOK ==
    /\ TypeOK
    /\ disk = NoImage \/ IsImage(disk)
    /\ DOMAIN io = Persister
    /\ \A p \in Persister :
          \/ io[p] = Idle
          \/ io[p].op \in {"save", "load"} /\ IsImage(io[p].image)
    /\ life \in 1..MaxLives
    /\ kept \in BOOLEAN

\* "they keep their exclusive slot (so recovery cannot create a duplicate
\* owner)": at any time at most one agent was handed an assignment of exclusive
\* work that the scheduler never closed, in whichever life it was handed out, as
\* long as every life was saved before it ended.
SingleOwner ==
    kept => \A x, y \in owners : x.exclusive /\ x.work = y.work => x = y

\* "carry no dispatch authority": what an agent holds from an earlier life is
\* pending or over in this one, without a lease, and never bound to the present
\* epochs; no assignment of this life has the same identity.
NoAuthorityFromPastLife ==
    kept => \A b \in past \cap ActiveIn(asg) :
               /\ asg[b].state = "RevalidationRequired"
               /\ ~asg[b].leaseCurrent
               /\ ~BoundEpochsCurrent(b)

\* README: the state is "checked against a canonical scan by check_invariants()".
\* The audit stays silent in a scheduler that was reloaded too, as long as every
\* life was saved before it ended; what it needs besides is said at AuditSilent.  A
\* reload that forgets something may take the scheduler through the same epoch
\* twice, and a plan that survives the reload then passes every test of its commit
\* on work that has ended meanwhile.
AuditSilentWhileKept == kept => AuditSilent

\* limits.hpp: "nothing in the runtime grows without a configured ceiling".  What
\* save() wrote and reported as saved is a file that load() accepts.
SavedStateLoads == disk # NoImage => Decodable(disk)

\* "fenced incarnations are restored": a fence that a successful save() wrote
\* is in force in every later life.
FencesSurvive == promised \subseteq fenced

=============================================================================
