---------------------------- MODULE JobLifecycle ----------------------------
(***************************************************************************)
(* What the queue promises about its jobs, with no Redis, no rows and no   *)
(* workers in it: a job that was asked for is tried, one attempt at a      *)
(* time, at most MaxTries times; it ends done or, with every attempt       *)
(* spent, dead; what has ended stays ended; and it does end.  Jobs are     *)
(* independent: one step may move several of them, each along its own      *)
(* lifecycle.                                                              *)
(***************************************************************************)
EXTENDS Naturals

CONSTANTS Jobs,
          Unserved,   \* the jobs no handler serves
          MaxTries    \* attempts a job may have

VARIABLES state, tries

lvars == <<state, tries>>

LInit == state = [j \in Jobs |-> "none"] /\ tries = [j \in Jobs |-> 0]

\* j goes from one state to the other and keeps its count.
Moves(j, from, to) == state[j] = from /\ state'[j] = to /\ tries'[j] = tries[j]

Stays(j) == state'[j] = state[j] /\ tries'[j] = tries[j]

Accept(j) == Moves(j, "none", "queued")

Start(j) == /\ j \notin Unserved /\ tries[j] < MaxTries
            /\ state[j] = "queued" /\ state'[j] = "running" /\ tries'[j] = tries[j] + 1

Succeed(j) == Moves(j, "running", "done")

\* A failed attempt, or one whose worker was lost.
TryAgain(j) == tries[j] < MaxTries /\ Moves(j, "running", "queued")

GiveUp(j) == tries[j] = MaxTries /\ Moves(j, "running", "dead")

Refuse(j) == j \in Unserved /\ Moves(j, "queued", "dead")

Step(j) == Accept(j) \/ Start(j) \/ Succeed(j) \/ TryAgain(j) \/ GiveUp(j) \/ Refuse(j)

LNext == \A j \in Jobs : Step(j) \/ Stays(j)

Open == {j \in Jobs : state[j] \in {"queued", "running"}}

\* Every job that was asked for comes to an end.
Ends == <>[](Open = {})

LSpec == LInit /\ [][LNext]_lvars
=============================================================================
