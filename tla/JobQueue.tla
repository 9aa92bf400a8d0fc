------------------------------ MODULE JobQueue ------------------------------
(***************************************************************************)
(* The job queue of app/queue: Postgres rows that hold the truth, a Redis  *)
(* list and a Redis delayed set that hold the work, and worker instances   *)
(* that promote, reap, dequeue, claim, run and finish.                     *)
(*                                                                         *)
(* One step of this module is one transaction, one Redis command or one    *)
(* handler outcome; everything the code does in several of those is        *)
(* several steps, so that another worker, a crash or the passing of time   *)
(* can come in between.                                                    *)
(*                                                                         *)
(* Abstractions.                                                           *)
(*  - A job is identified with its dedupe key; kind and payload are not    *)
(*    kept, except that the kind of a job in Unknown has no handler.       *)
(*  - Time is kept as timers that Tick counts down: dueIn stands for       *)
(*    scheduled_for, youngFor for created_at, staleIn for started_at, and  *)
(*    the number in delayed for the score of the delayed envelope.         *)
(*  - The Redis list is a count of envelopes per job.  Its order is told   *)
(*    apart by no property; that BRPOP starves no envelope is kept as      *)
(*    fairness.  MAX_COPIES bounds the count: the list itself has no       *)
(*    bound in the code.                                                   *)
(*  - Every crash, lost push and failed transaction costs one of           *)
(*    MAX_FAULTS.                                                          *)
(*  - MAX_RUN bounds how long an instance holds a job it has claimed.      *)
(***************************************************************************)
EXTENDS Integers, FiniteSets

CONSTANTS Workers,        \* worker instances, old and new ones of a deploy included
          Jobs,           \* jobs that may be asked for
          Unknown,        \* the jobs whose kind no handler serves
          NoJob,          \* what an idle worker holds
          MAX_ATTEMPTS, BACKOFF, STALE_RUNNING, STALE_QUEUED,
          DELAYS,         \* the delays a caller may ask for; 0 is "now"
          MAX_RUN, MAX_COPIES, MAX_FAULTS

ASSUME QueueConstants ==
  /\ Unknown \subseteq Jobs
  /\ NoJob \notin Jobs
  /\ MAX_ATTEMPTS \in Nat \ {0}
  /\ BACKOFF \in [1..MAX_ATTEMPTS -> Nat]
  /\ STALE_RUNNING \in Nat
  /\ STALE_QUEUED \in Nat
  /\ DELAYS \subseteq Nat
  /\ MAX_RUN \in Nat
  /\ MAX_COPIES \in Nat \ {0}
  /\ MAX_FAULTS \in Nat

VARIABLES row,       \* the jobs table
          list,      \* envelopes of a job on the Redis list
          delayed,   \* score of a job's envelope in the delayed set, or NoEntry
          unpushed,  \* rows committed whose enqueue has not pushed yet
          wk,        \* what each worker instance is doing
          faults     \* crashes, lost pushes and failed transactions so far

vars == <<row, list, delayed, unpushed, wk, faults>>

NoEntry == -1

Status == {"none", "queued", "running", "done", "dead"}

Row == [status : Status, attempts : Nat, dueIn : Nat, youngFor : Nat, staleIn : Nat]

PC == {"loop",                        \* the top of main's loop
       "reap_push", "reap_commit",    \* between the steps of reap
       "claim",                       \* an envelope has been popped
       "run",                         \* inside the handler
       "done", "retry", "dead"}       \* the outcome _finish is about to write

Worker == [pc : PC, job : Jobs \union {NoJob}, attempt : Nat, ran : Nat, wait : Nat,
           toRetry : SUBSET Jobs, toBury : SUBSET Jobs]

NoRow == [status |-> "none", attempts |-> 0, dueIn |-> 0, youngFor |-> 0, staleIn |-> 0]

Idle == [pc |-> "loop", job |-> NoJob, attempt |-> 0, ran |-> 0, wait |-> 0,
         toRetry |-> {}, toBury |-> {}]

TypeOK ==
  /\ row \in [Jobs -> Row]
  /\ list \in [Jobs -> 0..MAX_COPIES]
  /\ delayed \in [Jobs -> Nat \union {NoEntry}]
  /\ unpushed \subseteq Jobs
  /\ wk \in [Workers -> Worker]
  /\ faults \in 0..MAX_FAULTS

\* The worker has claimed a job and has not yet written how it ended.
Holding == {"run", "done", "retry", "dead"}

Holds(w) == wk[w].pc \in Holding

Init ==
  /\ row = [j \in Jobs |-> NoRow]
  /\ list = [j \in Jobs |-> 0]
  /\ delayed = [j \in Jobs |-> NoEntry]
  /\ unpushed = {}
  /\ wk = [w \in Workers |-> Idle]
  /\ faults = 0

-----------------------------------------------------------------------------
(* Redis and faults *)

NoFault == UNCHANGED faults

Fault == faults < MAX_FAULTS /\ faults' = faults + 1

\* LPUSH one envelope of each job of S.
Lpush(S) == list' = [j \in Jobs |-> IF j \in S /\ list[j] < MAX_COPIES
                                    THEN list[j] + 1 ELSE list[j]]

\* _push of each job of S to the main list; a RedisError loses some of them
\* and the caller goes on.
PushAll(S) ==
  \/ Lpush(S) /\ NoFault
  \/ \E lost \in SUBSET S : lost # {} /\ Lpush(S \ lost) /\ Fault

\* _push of j: a time ahead goes to the delayed set (the same envelope again
\* only moves its score), anything else to the list.
Push(j, d) ==
  IF d > 0 THEN delayed' = [delayed EXCEPT ![j] = d] /\ UNCHANGED list
           ELSE Lpush({j}) /\ UNCHANGED delayed

-----------------------------------------------------------------------------
(* The producers: enqueue, and ingest's add_job followed by push_job. *)

\* A second request with the same dedupe key finds the row and adds nothing.
\* The columns not written here have their defaults, as in NoRow.
AddJob(j, d) ==
  /\ row[j].status = "none"
  /\ row' = [row EXCEPT ![j].status = "queued", ![j].dueIn = d, ![j].youngFor = STALE_QUEUED]
  /\ unpushed' = unpushed \union {j}
  /\ UNCHANGED <<list, delayed, wk, faults>>

PushJob(j) ==
  /\ j \in unpushed
  /\ unpushed' = unpushed \ {j}
  /\ \/ Push(j, row[j].dueIn) /\ NoFault
     \/ UNCHANGED <<list, delayed>> /\ Fault      \* RedisError, or a crash before it
  /\ UNCHANGED <<row, wk>>

-----------------------------------------------------------------------------
(* Worker: housekeeping *)

Due == {j \in Jobs : delayed[j] = 0}

Promote(w) ==
  /\ wk[w].pc = "loop"
  /\ Due # {}
  /\ Lpush(Due)
  /\ delayed' = [j \in Jobs |-> IF j \in Due THEN NoEntry ELSE delayed[j]]
  /\ UNCHANGED <<row, unpushed, wk, faults>>

\* Mutant: the reaper looks only for rows that were never tried.
StaleQueued_NeverTried == {j \in Jobs : row[j].status = "queued" /\ row[j].attempts = 0
                                        /\ row[j].youngFor = 0 /\ row[j].dueIn = 0}

StaleQueued == {j \in Jobs : row[j].status = "queued" /\ row[j].youngFor = 0
                                                      /\ row[j].dueIn = 0}

StaleRunning == {j \in Jobs : row[j].status = "running" /\ row[j].staleIn = 0}

\* reap: push the stale queued rows again and read the stale running ones.
\* The first half needs no step of its own: an envelope that arrives later
\* than its row was read is one more leftover for Skip, whenever it comes.
ReapRead(w) ==
  /\ wk[w].pc = "loop"
  /\ PushAll(StaleQueued)
  /\ wk' = [wk EXCEPT ![w].pc = "reap_push",
                      ![w].toRetry = {j \in StaleRunning : row[j].attempts < MAX_ATTEMPTS},
                      ![w].toBury = {j \in StaleRunning : row[j].attempts >= MAX_ATTEMPTS}]
  /\ UNCHANGED <<row, delayed, unpushed>>

\* Then push those that have attempts left ...
ReapPush(w) ==
  /\ wk[w].pc = "reap_push"
  /\ PushAll(wk[w].toRetry)
  /\ wk' = [wk EXCEPT ![w].pc = "reap_commit"]
  /\ UNCHANGED <<row, delayed, unpushed>>

\* ... and write the new statuses, by primary key, whatever the rows hold now.
ReapCommit(w) ==
  /\ wk[w].pc = "reap_commit"
  /\ row' = [j \in Jobs |->
               CASE j \in wk[w].toRetry -> [row[j] EXCEPT !.status = "queued"]
                 [] j \in wk[w].toBury  -> [row[j] EXCEPT !.status = "dead"]
                 [] OTHER               -> row[j]]
  /\ wk' = [wk EXCEPT ![w] = Idle]
  /\ UNCHANGED <<list, delayed, unpushed, faults>>

-----------------------------------------------------------------------------
(* Worker: run_once *)

Dequeue(w, j) ==
  /\ wk[w].pc = "loop"
  /\ list[j] > 0
  /\ list' = [list EXCEPT ![j] = @ - 1]
  /\ wk' = [wk EXCEPT ![w].pc = "claim", ![w].job = j]
  /\ UNCHANGED <<row, delayed, unpushed, faults>>

\* Mutant: a kind without a handler is dropped, and its row left as it is.
BuryUnknown_LeavesRow(w) ==
  /\ wk[w].pc = "claim"
  /\ wk[w].job \in Unknown
  /\ wk' = [wk EXCEPT ![w] = Idle]
  /\ UNCHANGED <<row, list, delayed, unpushed, faults>>

\* No handler for the kind: the row is finished without being claimed.
BuryUnknown(w) ==
  /\ wk[w].pc = "claim"
  /\ wk[w].job \in Unknown
  /\ row' = [row EXCEPT ![wk[w].job].status = "dead"]
  /\ wk' = [wk EXCEPT ![w] = Idle]
  /\ UNCHANGED <<list, delayed, unpushed, faults>>

\* Mutant: the UPDATE does not ask for status "queued".
Claimable_AnyStatus(j) == row[j].dueIn = 0

Claimable(j) == row[j].status = "queued" /\ row[j].dueIn = 0

\* Mutant: the UPDATE does not count the attempt.
Claim_Uncounted(w) == LET j == wk[w].job IN
  /\ wk[w].pc = "claim"
  /\ j \notin Unknown
  /\ Claimable(j)
  /\ row' = [row EXCEPT ![j].status = "running", ![j].staleIn = STALE_RUNNING]
  /\ wk' = [wk EXCEPT ![w].pc = "run", ![w].attempt = row[j].attempts + 1]
  /\ UNCHANGED <<list, delayed, unpushed, faults>>

Claim(w) == LET j == wk[w].job IN
  /\ wk[w].pc = "claim"
  /\ j \notin Unknown
  /\ Claimable(j)
  /\ row' = [row EXCEPT ![j].status = "running", ![j].attempts = @ + 1,
                        ![j].staleIn = STALE_RUNNING]
  /\ wk' = [wk EXCEPT ![w].pc = "run", ![w].attempt = row[j].attempts + 1]
  /\ UNCHANGED <<list, delayed, unpushed, faults>>

\* The conditional UPDATE matched no row: the envelope is a leftover.
Skip(w) ==
  /\ wk[w].pc = "claim"
  /\ wk[w].job \notin Unknown
  /\ ~Claimable(wk[w].job)
  /\ wk' = [wk EXCEPT ![w] = Idle]
  /\ UNCHANGED <<row, list, delayed, unpushed, faults>>

HandlerReturns(w) ==
  /\ wk[w].pc = "run"
  /\ wk' = [wk EXCEPT ![w].pc = "done"]
  /\ UNCHANGED <<row, list, delayed, unpushed, faults>>

\* Mutant: <= for <, one retry too many.
RetryLater_OneTooMany(w) == LET d == BACKOFF[wk[w].attempt] IN
  /\ wk[w].pc = "run"
  /\ wk[w].attempt <= MAX_ATTEMPTS
  /\ \/ Push(wk[w].job, d) /\ NoFault
     \/ UNCHANGED <<list, delayed>> /\ Fault
  /\ wk' = [wk EXCEPT ![w].pc = "retry", ![w].wait = d]
  /\ UNCHANGED <<row, unpushed>>

\* The handler raised with attempts left: retry_later pushes the delayed
\* envelope before the row says so.
RetryLater(w) == LET d == BACKOFF[wk[w].attempt] IN
  /\ wk[w].pc = "run"
  /\ wk[w].attempt < MAX_ATTEMPTS
  /\ \/ Push(wk[w].job, d) /\ NoFault
     \/ UNCHANGED <<list, delayed>> /\ Fault
  /\ wk' = [wk EXCEPT ![w].pc = "retry", ![w].wait = d]
  /\ UNCHANGED <<row, unpushed>>

\* Mutant: off by one, the last retry is not made.
HandlerExhausted_OneEarly(w) ==
  /\ wk[w].pc = "run"
  /\ wk[w].attempt >= MAX_ATTEMPTS - 1
  /\ wk' = [wk EXCEPT ![w].pc = "dead"]
  /\ UNCHANGED <<row, list, delayed, unpushed, faults>>

HandlerExhausted(w) ==
  /\ wk[w].pc = "run"
  /\ wk[w].attempt >= MAX_ATTEMPTS
  /\ wk' = [wk EXCEPT ![w].pc = "dead"]
  /\ UNCHANGED <<row, list, delayed, unpushed, faults>>

\* _finish: writes the status by primary key, whatever the row holds now.
Finish(w) == LET j == wk[w].job IN
  /\ row' = CASE wk[w].pc = "done"  -> [row EXCEPT ![j].status = "done"]
              [] wk[w].pc = "dead"  -> [row EXCEPT ![j].status = "dead"]
              [] wk[w].pc = "retry" -> [row EXCEPT ![j].status = "queued",
                                                   ![j].dueIn = wk[w].wait]
              [] OTHER -> row
  /\ wk[w].pc \in {"done", "retry", "dead"}
  /\ wk' = [wk EXCEPT ![w] = Idle]
  /\ UNCHANGED <<list, delayed, unpushed, faults>>

-----------------------------------------------------------------------------
(* The environment *)

\* The instance dies and is started again, or the database refuses the
\* transaction it was about to commit: what it held in memory is gone.
LoseWorker(w) ==
  /\ wk[w].pc # "loop"
  /\ wk' = [wk EXCEPT ![w] = Idle]
  /\ Fault
  /\ UNCHANGED <<row, list, delayed, unpushed>>

Minus1(n) == IF n > 0 THEN n - 1 ELSE n

Tick ==
  /\ \A w \in Workers : Holds(w) => wk[w].ran < MAX_RUN
  /\ row' = [j \in Jobs |->
               [row[j] EXCEPT !.dueIn = Minus1(@), !.youngFor = Minus1(@),
                              !.staleIn = IF row[j].status = "running" THEN Minus1(@) ELSE @]]
  /\ delayed' = [j \in Jobs |-> Minus1(delayed[j])]
  /\ wk' = [w \in Workers |->
               [wk[w] EXCEPT !.ran = IF Holds(w) THEN @ + 1 ELSE @, !.wait = Minus1(@)]]
  /\ UNCHANGED <<list, unpushed, faults>>

-----------------------------------------------------------------------------
Housekeeping(w) == Promote(w) \/ ReapRead(w) \/ ReapPush(w) \/ ReapCommit(w)

RunOnce(w) ==
  \/ \E j \in Jobs : Dequeue(w, j)
  \/ BuryUnknown(w) \/ Claim(w) \/ Skip(w)
  \/ HandlerReturns(w) \/ RetryLater(w) \/ HandlerExhausted(w)
  \/ Finish(w)

Enqueue(j) == (\E d \in DELAYS : AddJob(j, d)) \/ PushJob(j)

Next ==
  \/ \E j \in Jobs : Enqueue(j)
  \/ \E w \in Workers : Housekeeping(w) \/ RunOnce(w) \/ LoseWorker(w)
  \/ Tick

Spec == Init /\ [][Next]_vars

\* A worker finishes what it has begun (its own steps between two visits to
\* the top of the loop) ...
Carries(w) == ReapPush(w) \/ ReapCommit(w)
              \/ BuryUnknown(w) \/ Claim(w) \/ Skip(w)
              \/ HandlerReturns(w) \/ RetryLater(w) \/ HandlerExhausted(w) \/ Finish(w)

\* ... time passes, and main's loop comes round to each of its chores:
\* promote every PROMOTE_EVERY, reap every REAP_EVERY, and BRPOP, which is
\* first in first out and so leaves no envelope behind forever.
Fairness ==
  /\ WF_vars(Tick)
  /\ \A j \in Jobs : WF_vars(PushJob(j))
  /\ \A w \in Workers : WF_vars(Carries(w))
  /\ SF_vars(\E w \in Workers : Promote(w))
  /\ SF_vars(\E w \in Workers : ReapRead(w))
  /\ \A j \in Jobs : SF_vars(\E w \in Workers : Dequeue(w, j))

FairSpec == Spec /\ Fairness

-----------------------------------------------------------------------------
(* Properties *)

\* No attempt number is handed out twice: two instances that hold the same
\* job hold different attempts of it, and neither is beyond the count the row
\* keeps.  (worker._claim: "A read-then-write here let both run the job and
\* lost an attempt count.")
DistinctAttempts ==
  /\ \A w \in Workers : Holds(w) => wk[w].attempt <= row[wk[w].job].attempts
  /\ \A v, w \in Workers : v # w /\ Holds(v) /\ Holds(w) /\ wk[v].job = wk[w].job
                             => wk[v].attempt # wk[w].attempt

\* A job is given up only after MAX_ATTEMPTS claims, whoever writes "dead": the
\* instance that ran the last attempt or a reaper acting on an old read.
DeadOnlyWhenExhausted ==
  \A j \in Jobs \ Unknown : row[j].status = "dead" => row[j].attempts >= MAX_ATTEMPTS

\* What render.yaml promises of scaling out: two instances never run one job.
OneInstancePerJob ==
  \A v, w \in Workers : Holds(v) /\ Holds(w) /\ wk[v].job = wk[w].job => v = w

\* As long as nothing has failed and no handler outlives STALE_RUNNING, that
\* promise holds, however often an envelope was pushed and whatever the reapers do.
FaultFreeExclusive == MAX_RUN < STALE_RUNNING /\ faults = 0 => OneInstancePerJob

\* Once the faults are over every job that was asked for ends, done or dead,
\* and stays so: no envelope, row or attempt is lost for good.
Settled == \A j \in Jobs : row[j].status \in {"none", "done", "dead"}

EventuallySettled == <>[]Settled

\* One instance, however often it crashes or loses a push, gives every job the
\* lifecycle JobLifecycle promises, step by step (KeepsLifecycle) and to its end.
Lifecycle == INSTANCE JobLifecycle WITH
               Unserved <- Unknown, MaxTries <- MAX_ATTEMPTS,
               state <- [j \in Jobs |-> row[j].status],
               tries <- [j \in Jobs |-> row[j].attempts]

KeepsLifecycle == Lifecycle!LSpec

ImplementsLifecycle == KeepsLifecycle /\ Lifecycle!Ends
=============================================================================
