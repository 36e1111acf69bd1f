--------------------------- MODULE AssignmentLife ---------------------------
(***************************************************************************)
(* What a scheduler promises about assignments, without agents, evidence,  *)
(* epochs, leases or calls.  A claim on a work item is offered, handed to  *)
(* its agent at most once, accepted, worked on, and ended for good; a claim*)
(* whose authority is in doubt is suspended and can only end.  A work item *)
(* with an exclusive claim has no other claim that has not ended.          *)
(*                                                                         *)
(* A claim is any record with a field `work` and a field `exclusive`.      *)
(***************************************************************************)

VARIABLE stage  \* stage[c] of every claim c ever made

\* The stages that can follow a stage.
After(s) ==
    CASE s = "offered" -> {"handed", "suspended", "ended"}
      [] s = "handed" -> {"accepted", "working", "suspended", "ended"}
      [] s = "accepted" -> {"working", "suspended", "ended"}
      [] s = "working" -> {"suspended", "ended"}
      [] s = "suspended" -> {"ended"}
      [] OTHER -> {}

Open == {c \in DOMAIN stage : stage[c] # "ended"}

LifeInit == DOMAIN stage = {}

\* One new claim, with nothing in its way.
Grant ==
    \E c \in DOMAIN stage' \ DOMAIN stage :
        /\ \A d \in Open : d.work = c.work => ~c.exclusive /\ ~d.exclusive
        /\ stage' = [x \in DOMAIN stage \cup {c} |->
                       IF x = c THEN "offered" ELSE stage[x]]

\* Any number of claims move on together.
Advance ==
    /\ DOMAIN stage' = DOMAIN stage
    /\ \A c \in DOMAIN stage :
          stage'[c] = stage[c] \/ stage'[c] \in After(stage[c])

LifeSpec == LifeInit /\ [][Grant \/ Advance]_stage

=============================================================================
