--------------------------- MODULE JobQueueProofs ---------------------------
(***************************************************************************)
(* What holds of JobQueue for any number of instances, jobs, attempts and  *)
(* faults.                                                                 *)
(***************************************************************************)
EXTENDS JobQueue, TLAPS

-----------------------------------------------------------------------------
(* Types *)

\* A worker whose program counter agrees with what it has in hand: a job of
\* the table once an envelope is popped, an attempt number once it is claimed.
SoundWorker ==
  {x \in Worker : /\ x.pc = "claim" \/ x.pc \in Holding => x.job \in Jobs
                  /\ x.pc \in Holding => x.attempt > 0}

TypeInv ==
  /\ row \in [Jobs -> Row]
  /\ list \in [Jobs -> 0..MAX_COPIES]
  /\ delayed \in [Jobs -> Nat \union {NoEntry}]
  /\ unpushed \subseteq Jobs
  /\ wk \in [Workers -> SoundWorker]
  /\ faults \in 0..MAX_FAULTS

LEMMA TypeInvTypeOK == TypeInv => TypeOK
BY DEF TypeInv, TypeOK, SoundWorker

LEMMA IdleSound == Idle \in SoundWorker
BY DEF Idle, SoundWorker, Worker, PC, Holding

LEMMA InitTypeInv == Init => TypeInv
<1>1. NoRow \in Row
  BY DEF NoRow, Row, Status
<1> QED BY <1>1, IdleSound, QueueConstants DEF Init, TypeInv

LEMMA LpushType ==
  ASSUME list \in [Jobs -> 0..MAX_COPIES], NEW S, Lpush(S)
  PROVE  list' \in [Jobs -> 0..MAX_COPIES]
BY QueueConstants DEF Lpush

LEMMA FaultType ==
  ASSUME faults \in 0..MAX_FAULTS, Fault \/ NoFault
  PROVE  faults' \in 0..MAX_FAULTS
BY QueueConstants DEF Fault, NoFault

LEMMA PushAllType ==
  ASSUME TypeInv, NEW S, PushAll(S)
  PROVE  list' \in [Jobs -> 0..MAX_COPIES] /\ faults' \in 0..MAX_FAULTS
<1>1. list \in [Jobs -> 0..MAX_COPIES] /\ faults \in 0..MAX_FAULTS
  BY DEF TypeInv
<1>2. CASE Lpush(S) /\ NoFault
  BY <1>1, <1>2, LpushType, FaultType
<1>3. ASSUME NEW lost \in SUBSET S, Lpush(S \ lost), Fault
      PROVE  list' \in [Jobs -> 0..MAX_COPIES] /\ faults' \in 0..MAX_FAULTS
  BY <1>1, <1>3, LpushType, FaultType
<1> QED BY <1>2, <1>3 DEF PushAll

LEMMA PushType ==
  ASSUME TypeInv, NEW j \in Jobs, NEW d \in Nat, Push(j, d)
  PROVE  /\ list' \in [Jobs -> 0..MAX_COPIES]
         /\ delayed' \in [Jobs -> Nat \union {NoEntry}]
<1>1. /\ list \in [Jobs -> 0..MAX_COPIES]
      /\ delayed \in [Jobs -> Nat \union {NoEntry}]
  BY DEF TypeInv
<1>2. CASE d > 0
  BY <1>1, <1>2 DEF Push
<1>3. CASE ~(d > 0)
  BY <1>1, <1>3, LpushType DEF Push
<1> QED BY <1>2, <1>3

\* The records the longer updates of a row and of a worker produce.
LEMMA RowAdded ==
  ASSUME NEW r \in Row, NEW d \in Nat, NEW y \in Nat
  PROVE  [r EXCEPT !.status = "queued", !.dueIn = d, !.youngFor = y] \in Row
BY DEF Row, Status

LEMMA RowClaimed ==
  ASSUME NEW r \in Row, NEW a \in Nat, NEW s \in Nat
  PROVE  [r EXCEPT !.status = "running", !.attempts = a, !.staleIn = s] \in Row
BY DEF Row, Status

LEMMA RowRetried ==
  ASSUME NEW r \in Row, NEW d \in Nat
  PROVE  [r EXCEPT !.status = "queued", !.dueIn = d] \in Row
BY DEF Row, Status

LEMMA RowAged ==
  ASSUME NEW r \in Row, NEW d \in Nat, NEW y \in Nat, NEW s \in Nat
  PROVE  [r EXCEPT !.dueIn = d, !.youngFor = y, !.staleIn = s] \in Row
BY DEF Row

LEMMA WorkerReaping ==
  ASSUME NEW x \in SoundWorker, NEW A \in SUBSET Jobs, NEW B \in SUBSET Jobs
  PROVE  [x EXCEPT !.pc = "reap_push", !.toRetry = A, !.toBury = B] \in SoundWorker
<1>1. [x EXCEPT !.pc = "reap_push", !.toRetry = A, !.toBury = B] \in Worker
  BY DEF SoundWorker, Worker, PC
<1> QED BY <1>1 DEF SoundWorker, Worker, Holding

LEMMA WorkerDequeuing ==
  ASSUME NEW x \in SoundWorker, NEW j \in Jobs
  PROVE  [x EXCEPT !.pc = "claim", !.job = j] \in SoundWorker
<1>1. [x EXCEPT !.pc = "claim", !.job = j] \in Worker
  BY DEF SoundWorker, Worker, PC
<1> QED BY <1>1 DEF SoundWorker, Worker, Holding

LEMMA WorkerClaiming ==
  ASSUME NEW x \in SoundWorker, x.job \in Jobs, NEW a \in Nat, a > 0
  PROVE  [x EXCEPT !.pc = "run", !.attempt = a] \in SoundWorker
<1>1. [x EXCEPT !.pc = "run", !.attempt = a] \in Worker
  BY DEF SoundWorker, Worker, PC
<1> QED BY <1>1 DEF SoundWorker, Worker, Holding

LEMMA WorkerRetrying ==
  ASSUME NEW x \in SoundWorker, x.pc = "run", NEW d \in Nat
  PROVE  [x EXCEPT !.pc = "retry", !.wait = d] \in SoundWorker
<1>1. [x EXCEPT !.pc = "retry", !.wait = d] \in Worker
  BY DEF SoundWorker, Worker, PC
<1> QED BY <1>1 DEF SoundWorker, Worker, Holding

LEMMA WorkerAged ==
  ASSUME NEW x \in SoundWorker, NEW n \in Nat, NEW m \in Nat
  PROVE  [x EXCEPT !.ran = n, !.wait = m] \in SoundWorker
<1>1. [x EXCEPT !.ran = n, !.wait = m] \in Worker
  BY DEF SoundWorker, Worker
<1> QED BY <1>1 DEF SoundWorker, Worker

LEMMA NextTypeInv ==
  ASSUME TypeInv, Next
  PROVE  TypeInv'
<1>t. /\ row \in [Jobs -> Row]
      /\ list \in [Jobs -> 0..MAX_COPIES]
      /\ delayed \in [Jobs -> Nat \union {NoEntry}]
      /\ unpushed \subseteq Jobs
      /\ faults \in 0..MAX_FAULTS
  BY DEF TypeInv
<1>w. wk \in [Workers -> SoundWorker]
  BY DEF TypeInv
<1>1. ASSUME NEW j \in Jobs, NEW d \in DELAYS, AddJob(j, d) PROVE TypeInv'
  <2>1. [row[j] EXCEPT !.status = "queued", !.dueIn = d, !.youngFor = STALE_QUEUED] \in Row
    BY <1>t, QueueConstants, RowAdded
  <2>2. row' \in [Jobs -> Row]
    BY <1>t, <1>1, <2>1 DEF AddJob
  <2> QED BY <1>t, <1>w, <1>1, <2>2 DEF AddJob, TypeInv
<1>2. ASSUME NEW j \in Jobs, PushJob(j) PROVE TypeInv'
  <2>1. row[j].dueIn \in Nat
    BY <1>t DEF Row
  <2>2. /\ list' \in [Jobs -> 0..MAX_COPIES]
        /\ delayed' \in [Jobs -> Nat \union {NoEntry}]
    BY <1>t, <1>2, <2>1, PushType DEF PushJob
  <2>3. faults' \in 0..MAX_FAULTS
    BY <1>t, <1>2, FaultType DEF PushJob
  <2> QED BY <1>t, <1>w, <1>2, <2>2, <2>3 DEF TypeInv, PushJob
<1>3. ASSUME NEW w \in Workers, Promote(w) PROVE TypeInv'
  <2>1. list' \in [Jobs -> 0..MAX_COPIES]
    BY <1>t, <1>3, LpushType DEF Promote
  <2>2. delayed' \in [Jobs -> Nat \union {NoEntry}]
    BY <1>t, <1>3 DEF Promote
  <2> QED BY <1>t, <1>w, <1>3, <2>1, <2>2 DEF Promote, TypeInv
<1>4. ASSUME NEW w \in Workers, ReapRead(w) PROVE TypeInv'
  <2> DEFINE A == {j \in StaleRunning : row[j].attempts < MAX_ATTEMPTS}
             B == {j \in StaleRunning : row[j].attempts >= MAX_ATTEMPTS}
  <2>a. /\ A \in SUBSET Jobs /\ B \in SUBSET Jobs
        /\ wk' = [wk EXCEPT ![w].pc = "reap_push", ![w].toRetry = A, ![w].toBury = B]
    BY <1>4 DEF ReapRead, StaleRunning
  <2> HIDE DEF A, B
  <2>1. wk' \in [Workers -> SoundWorker]
    <3>1. [wk[w] EXCEPT !.pc = "reap_push", !.toRetry = A, !.toBury = B] \in SoundWorker
      BY <1>w, <2>a, WorkerReaping
    <3> QED BY <1>w, <2>a, <3>1
  <2>2. list' \in [Jobs -> 0..MAX_COPIES] /\ faults' \in 0..MAX_FAULTS
    BY <1>4, PushAllType DEF ReapRead
  <2> QED BY <1>t, <1>4, <2>1, <2>2 DEF TypeInv, ReapRead
<1>5. ASSUME NEW w \in Workers, ReapPush(w) PROVE TypeInv'
  <2>1. wk' \in [Workers -> SoundWorker]
    BY <1>w, <1>5 DEF ReapPush, SoundWorker, Worker, PC, Holding
  <2>2. list' \in [Jobs -> 0..MAX_COPIES] /\ faults' \in 0..MAX_FAULTS
    BY <1>5, PushAllType DEF ReapPush
  <2> QED BY <1>t, <1>5, <2>1, <2>2 DEF TypeInv, ReapPush
<1>6. ASSUME NEW w \in Workers, ReapCommit(w) PROVE TypeInv'
  <2>1. wk' \in [Workers -> SoundWorker]
    BY <1>w, <1>6, IdleSound DEF ReapCommit
  <2>2. row' \in [Jobs -> Row]
    BY <1>t, <1>6 DEF ReapCommit, Row, Status
  <2> QED BY <1>t, <1>6, <2>1, <2>2 DEF TypeInv, ReapCommit
<1>7. ASSUME NEW w \in Workers, NEW j \in Jobs, Dequeue(w, j) PROVE TypeInv'
  <2>1. wk' \in [Workers -> SoundWorker]
    <3>1. [wk[w] EXCEPT !.pc = "claim", !.job = j] \in SoundWorker
      BY <1>w, WorkerDequeuing
    <3> QED BY <1>w, <1>7, <3>1 DEF Dequeue
  <2>2. list' \in [Jobs -> 0..MAX_COPIES]
    BY <1>t, <1>7, QueueConstants DEF Dequeue
  <2> QED BY <1>t, <1>7, <2>1, <2>2 DEF TypeInv, Dequeue
<1>8. ASSUME NEW w \in Workers, BuryUnknown(w) PROVE TypeInv'
  <2>1. row' \in [Jobs -> Row]
    BY ZenonT(60), <1>t, <1>8 DEF BuryUnknown, Row, Status
  <2>2. wk' \in [Workers -> SoundWorker]
    BY <1>w, <1>8, IdleSound DEF BuryUnknown
  <2> QED BY <1>t, <1>8, <2>1, <2>2 DEF TypeInv, BuryUnknown
<1>9. ASSUME NEW w \in Workers, Claim(w) PROVE TypeInv'
  <2>1. wk[w].job \in Jobs
    BY <1>w, <1>9 DEF Claim, SoundWorker
  <2>2. row[wk[w].job].attempts \in Nat
    BY <1>t, <2>1 DEF Row
  <2> DEFINE n == row[wk[w].job].attempts + 1
  <2>a. n \in Nat /\ n > 0
    BY <2>2
  <2>3. /\ row' = [row EXCEPT ![wk[w].job] =
                     [row[wk[w].job] EXCEPT !.status = "running", !.attempts = n,
                                            !.staleIn = STALE_RUNNING]]
        /\ wk' = [wk EXCEPT ![w] = [wk[w] EXCEPT !.pc = "run", !.attempt = n]]
    BY <1>9 DEF Claim
  <2> HIDE DEF n
  <2>4. row' \in [Jobs -> Row]
    <3>1. row[wk[w].job] \in Row
      BY <1>t, <2>1
    <3>2. [row[wk[w].job] EXCEPT !.status = "running", !.attempts = n,
                                 !.staleIn = STALE_RUNNING] \in Row
      BY <2>a, <3>1, RowClaimed, QueueConstants
    <3> QED BY <1>t, <2>1, <2>3, <3>2
  <2>5. wk' \in [Workers -> SoundWorker]
    <3>1. [wk[w] EXCEPT !.pc = "run", !.attempt = n] \in SoundWorker
      BY <1>w, <2>1, <2>a, WorkerClaiming
    <3> QED BY <1>w, <2>3, <3>1
  <2> QED BY <1>t, <1>9, <2>4, <2>5 DEF TypeInv, Claim
<1>10. ASSUME NEW w \in Workers, Skip(w) PROVE TypeInv'
  BY <1>t, <1>w, <1>10, IdleSound DEF Skip, TypeInv
<1>11. ASSUME NEW w \in Workers, HandlerReturns(w) PROVE TypeInv'
  <2>1. wk' \in [Workers -> SoundWorker]
    BY <1>w, <1>11 DEF HandlerReturns, SoundWorker, Worker, PC, Holding
  <2> QED BY <1>t, <1>11, <2>1 DEF TypeInv, HandlerReturns
<1>12. ASSUME NEW w \in Workers, RetryLater(w) PROVE TypeInv'
  <2>1. wk[w].job \in Jobs /\ wk[w].attempt \in 1..MAX_ATTEMPTS
    BY <1>w, <1>12, QueueConstants DEF RetryLater, SoundWorker, Worker, Holding
  <2> DEFINE d == BACKOFF[wk[w].attempt]
  <2>2. d \in Nat
    BY <2>1, QueueConstants
  <2>3. Push(wk[w].job, d) \/ UNCHANGED <<list, delayed>>
    BY <1>12 DEF RetryLater
  <2>4. faults' \in 0..MAX_FAULTS
    BY <1>t, <1>12, FaultType DEF RetryLater
  <2>5. wk' = [wk EXCEPT ![w].pc = "retry", ![w].wait = d] /\ UNCHANGED <<row, unpushed>>
    BY <1>12 DEF RetryLater
  <2> HIDE DEF d
  <2>6. /\ list' \in [Jobs -> 0..MAX_COPIES]
        /\ delayed' \in [Jobs -> Nat \union {NoEntry}]
    BY <1>t, <2>1, <2>2, <2>3, PushType
  <2>7. wk' \in [Workers -> SoundWorker]
    <3>1. wk[w].pc = "run"
      BY <1>12 DEF RetryLater
    <3>2. [wk[w] EXCEPT !.pc = "retry", !.wait = d] \in SoundWorker
      BY <1>w, <2>2, <3>1, WorkerRetrying
    <3> QED BY <1>w, <2>5, <3>2
  <2> QED BY <1>t, <2>4, <2>5, <2>6, <2>7 DEF TypeInv
<1>13. ASSUME NEW w \in Workers, HandlerExhausted(w) PROVE TypeInv'
  <2>1. wk' \in [Workers -> SoundWorker]
    BY <1>w, <1>13 DEF HandlerExhausted, SoundWorker, Worker, PC, Holding
  <2> QED BY <1>t, <1>13, <2>1 DEF TypeInv, HandlerExhausted
<1>14. ASSUME NEW w \in Workers, Finish(w) PROVE TypeInv'
  <2>1. wk[w].wait \in Nat
    BY <1>w DEF SoundWorker, Worker
  <2>2. row' \in [Jobs -> Row]
    <3>1. CASE wk[w].pc = "done"
      BY ZenonT(60), <1>t, <1>14, <3>1 DEF Finish, Row, Status
    <3>2. CASE wk[w].pc = "dead"
      BY ZenonT(60), <1>t, <1>14, <3>2 DEF Finish, Row, Status
    <3>3. CASE wk[w].pc = "retry"
      <4>1. wk[w].job \in Jobs 
        BY <1>w, <3>3 DEF SoundWorker, Holding
      <4>2. [row[wk[w].job] EXCEPT !.status = "queued", !.dueIn = wk[w].wait] \in Row
        BY <1>t, <2>1, <4>1, RowRetried
      <4>3. row' = [row EXCEPT ![wk[w].job] =
                     [row[wk[w].job] EXCEPT !.status = "queued", !.dueIn = wk[w].wait]]
        BY <1>14, <3>3 DEF Finish
      <4> QED BY <1>t, <4>2, <4>3
    <3> QED BY <1>14, <3>1, <3>2, <3>3 DEF Finish
  <2>3. wk' \in [Workers -> SoundWorker]
    BY <1>w, <1>14, IdleSound DEF Finish
  <2> QED BY <1>t, <1>14, <2>2, <2>3 DEF TypeInv, Finish
<1>15. ASSUME NEW w \in Workers, LoseWorker(w) PROVE TypeInv'
  BY <1>t, <1>w, <1>15, IdleSound, FaultType DEF LoseWorker, TypeInv
<1>16. ASSUME Tick PROVE TypeInv'
  <2>0. \A n \in Nat : Minus1(n) \in Nat
    BY DEF Minus1
  <2> DEFINE r(j) == [row[j] EXCEPT !.dueIn = Minus1(@), !.youngFor = Minus1(@),
                        !.staleIn = IF row[j].status = "running" THEN Minus1(@) ELSE @]
             x(w) == [wk[w] EXCEPT !.ran = IF Holds(w) THEN @ + 1 ELSE @, !.wait = Minus1(@)]
  <2>1. row' \in [Jobs -> Row]
    <3>1. ASSUME NEW j \in Jobs PROVE r(j) \in Row
      <4>1. row[j] \in Row
        BY <1>t
      <4>2. row[j].dueIn \in Nat /\ row[j].youngFor \in Nat /\ row[j].staleIn \in Nat
        BY <4>1 DEF Row
      <4> DEFINE s == IF row[j].status = "running" THEN Minus1(row[j].staleIn)
                                                   ELSE row[j].staleIn
      <4>3. s \in Nat /\ Minus1(row[j].dueIn) \in Nat /\ Minus1(row[j].youngFor) \in Nat
        BY <4>2, <2>0
      <4>4. r(j) = [row[j] EXCEPT !.dueIn = Minus1(row[j].dueIn),
                                  !.youngFor = Minus1(row[j].youngFor), !.staleIn = s]
        OBVIOUS
      <4> HIDE DEF s, r
      <4>5. [row[j] EXCEPT !.dueIn = Minus1(row[j].dueIn),
                           !.youngFor = Minus1(row[j].youngFor), !.staleIn = s] \in Row
        BY <4>1, <4>3, RowAged
      <4> QED BY <4>4, <4>5
    <3>2. row' = [j \in Jobs |-> r(j)]
      BY <1>16 DEF Tick
    <3> QED BY <3>1, <3>2
  <2>2. wk' \in [Workers -> SoundWorker]
    <3>1. ASSUME NEW w \in Workers PROVE x(w) \in SoundWorker
      <4>1. wk[w] \in SoundWorker /\ wk[w].ran \in Nat /\ wk[w].wait \in Nat
        BY <1>w DEF SoundWorker, Worker
      <4> DEFINE n == IF Holds(w) THEN wk[w].ran + 1 ELSE wk[w].ran
      <4>2. n \in Nat /\ Minus1(wk[w].wait) \in Nat
        BY <4>1, <2>0
      <4>3. x(w) = [wk[w] EXCEPT !.ran = n, !.wait = Minus1(wk[w].wait)]
        OBVIOUS
      <4> HIDE DEF n, x
      <4> QED BY ZenonT(60), <4>1, <4>2, <4>3, WorkerAged
    <3>2. wk' = [w \in Workers |-> x(w)]
      BY <1>16 DEF Tick
    <3> QED BY <3>1, <3>2
  <2>3. delayed' \in [Jobs -> Nat \union {NoEntry}]
    <3>1. \A n \in Nat \union {NoEntry} : Minus1(n) \in Nat \union {NoEntry}
      BY DEF Minus1, NoEntry
    <3> QED BY <1>t, <1>16, <3>1 DEF Tick
  <2> QED BY <1>t, <1>16, <2>1, <2>2, <2>3 DEF TypeInv, Tick
<1> QED
  BY <1>1, <1>2, <1>3, <1>4, <1>5, <1>6, <1>7, <1>8, <1>9, <1>10, <1>11, <1>12, <1>13,
     <1>14, <1>15, <1>16 DEF Next, Enqueue, Housekeeping, RunOnce

LEMMA StepTypeInv == TypeInv /\ [Next]_vars => TypeInv'
<1>1. TypeInv /\ UNCHANGED vars => TypeInv'
  BY DEF TypeInv, vars
<1> QED BY <1>1, NextTypeInv

\* Every state of every run is well typed.
THEOREM TypeCorrect == Spec => []TypeOK
<1>1. Spec => []TypeInv
  BY InitTypeInv, StepTypeInv, PTL DEF Spec
<1> QED BY <1>1, TypeInvTypeOK, PTL

-----------------------------------------------------------------------------
(* Attempts *)

\* What makes the two properties of attempts inductive: a worker that is about
\* to write "dead" ran the last attempt, and so did every job a reaper has read
\* as exhausted, since no step takes an attempt back.
AttemptInv ==
  /\ DistinctAttempts
  /\ DeadOnlyWhenExhausted
  /\ \A w \in Workers : wk[w].pc = "dead" => wk[w].attempt >= MAX_ATTEMPTS
  /\ \A w \in Workers : \A j \in wk[w].toBury : row[j].attempts >= MAX_ATTEMPTS

\* The step counts no attempt and hands no job to a worker.
NoNewAttempt ==
  /\ \A j \in Jobs : row'[j].attempts = row[j].attempts
  /\ \A w \in Workers : Holds(w)' => /\ Holds(w)
                                    /\ wk'[w].job = wk[w].job
                                    /\ wk'[w].attempt = wk[w].attempt

\* The step gives up no job that has attempts left.
NoEarlyDeath ==
  \A j \in Jobs \ Unknown :
     row'[j].status = "dead" => row[j].status = "dead" \/ row[j].attempts >= MAX_ATTEMPTS

\* What the step makes a worker intend to give up has no attempt left.
NoEarlyVerdict ==
  \A w \in Workers :
    /\ wk'[w].pc = "dead" => wk'[w].attempt >= MAX_ATTEMPTS
    /\ \A j \in wk'[w].toBury : j \in Jobs /\ row[j].attempts >= MAX_ATTEMPTS

LEMMA InitAttemptInv == Init => AttemptInv
BY DEF Init, AttemptInv, DistinctAttempts, DeadOnlyWhenExhausted, Holds, Holding, Idle, NoRow

LEMMA AttemptStep ==
  ASSUME TypeInv, AttemptInv, NoNewAttempt, NoEarlyDeath, NoEarlyVerdict
  PROVE  AttemptInv'
<1>1. \A w \in Workers : Holds(w) => wk[w].job \in Jobs
  BY DEF TypeInv, SoundWorker, Holds
<1>2. DistinctAttempts'
  BY <1>1 DEF AttemptInv, DistinctAttempts, NoNewAttempt
<1>3. DeadOnlyWhenExhausted'
  BY DEF AttemptInv, DeadOnlyWhenExhausted, NoEarlyDeath, NoNewAttempt
<1> QED BY <1>2, <1>3 DEF AttemptInv, NoEarlyVerdict, NoNewAttempt

\* A claim hands out the next number of its job's row.
LEMMA ClaimAttemptInv ==
  ASSUME TypeInv, AttemptInv, NEW w \in Workers, Claim(w)
  PROVE  AttemptInv'
<1> DEFINE c == wk[w].job
           n == row[c].attempts + 1
<1>1. c \in Jobs /\ row[c].attempts \in Nat /\ \A j \in Jobs : row[j] \in Row
  <2>1. c \in Jobs
    BY DEF TypeInv, SoundWorker, Claim
  <2> QED BY <2>1 DEF TypeInv, Row
<1>2. \A v \in Workers : Holds(v) => wk[v].job \in Jobs /\ wk[v].attempt \in Nat
  BY DEF TypeInv, SoundWorker, Worker, Holds
<1>3. /\ row'[c].attempts = n /\ row'[c].status = "running"
      /\ \A j \in Jobs \ {c} : row'[j] = row[j]
  BY <1>1 DEF Claim, TypeInv, Row
<1>4. /\ wk'[w].pc = "run" /\ wk'[w].job = c /\ wk'[w].attempt = n
      /\ wk'[w].toBury = wk[w].toBury
      /\ \A v \in Workers \ {w} : wk'[v] = wk[v]
  BY DEF Claim, TypeInv, SoundWorker, Worker
<1>5. n > row[c].attempts /\ n \in Nat
  BY <1>1
<1> HIDE DEF n, c
<1>6. DistinctAttempts'
  <2>1. \A v \in Workers : Holds(v)' =>
          \/ v = w
          \/ Holds(v) /\ wk'[v].job = wk[v].job /\ wk'[v].attempt = wk[v].attempt
    BY <1>4 DEF Holds
  <2>2. \A v \in Workers : Holds(v) => wk[v].attempt <= row[wk[v].job].attempts
    BY DEF AttemptInv, DistinctAttempts
  <2>3. \A v \in Workers \ {w} : Holds(v)' /\ wk'[v].job = c => wk'[v].attempt < n
    BY <1>1, <1>2, <1>5, <2>1, <2>2
  <2>4. \A v \in Workers : Holds(v)' => wk'[v].attempt <= row'[wk'[v].job].attempts
    BY <1>1, <1>2, <1>3, <1>4, <1>5, <2>1, <2>2, <2>3
  <2>5. ASSUME NEW u \in Workers, NEW v \in Workers, u # v, Holds(u)', Holds(v)',
               wk'[u].job = wk'[v].job
        PROVE  wk'[u].attempt # wk'[v].attempt
    <3>1. CASE u = w
      BY <1>2, <1>4, <1>5, <2>1, <2>3, <2>5, <3>1
    <3>2. CASE v = w
      BY <1>2, <1>4, <1>5, <2>1, <2>3, <2>5, <3>2
    <3>3. CASE u # w /\ v # w
      BY <2>1, <2>5, <3>3 DEF AttemptInv, DistinctAttempts
    <3> QED BY <3>1, <3>2, <3>3
  <2> QED BY <2>4, <2>5 DEF DistinctAttempts
<1>7. DeadOnlyWhenExhausted'
  BY <1>3 DEF AttemptInv, DeadOnlyWhenExhausted
<1>8. \A v \in Workers : wk'[v].pc = "dead" => wk'[v].attempt >= MAX_ATTEMPTS
  BY <1>4 DEF AttemptInv
<1>9. \A v \in Workers : \A j \in wk'[v].toBury : row'[j].attempts >= MAX_ATTEMPTS
  <2>1. \A v \in Workers : wk'[v].toBury = wk[v].toBury /\ wk[v].toBury \subseteq Jobs
    BY <1>4 DEF TypeInv, SoundWorker, Worker
  <2>2. \A j \in Jobs : row[j].attempts >= MAX_ATTEMPTS => row'[j].attempts >= MAX_ATTEMPTS
    BY <1>1, <1>3, <1>5, QueueConstants
  <2> QED BY <2>1, <2>2 DEF AttemptInv
<1> QED BY <1>6, <1>7, <1>8, <1>9 DEF AttemptInv

\* The steps that leave every row as it is keep AttemptInv when what they do
\* to a worker does; so do the ones that only write a status.
LEMMA OtherAttemptInv ==
  ASSUME TypeInv, AttemptInv, Next, \A w \in Workers : ~Claim(w)
  PROVE  NoNewAttempt /\ NoEarlyDeath /\ NoEarlyVerdict
<1>r. row \in [Jobs -> Row]
  BY DEF TypeInv
<1>w. wk \in [Workers -> SoundWorker] /\ \A w \in Workers : wk[w].toBury \subseteq Jobs
  BY DEF TypeInv, SoundWorker, Worker
<1>a. /\ \A w \in Workers : wk[w].pc = "dead" => wk[w].attempt >= MAX_ATTEMPTS
      /\ \A w \in Workers : \A j \in wk[w].toBury : row[j].attempts >= MAX_ATTEMPTS
  BY DEF AttemptInv
<1>s. ASSUME UNCHANGED wk
      PROVE  /\ NoEarlyVerdict
             /\ \A w \in Workers : Holds(w)' => /\ Holds(w)
                                               /\ wk'[w].job = wk[w].job
                                               /\ wk'[w].attempt = wk[w].attempt
  BY <1>s, <1>w, <1>a DEF NoEarlyVerdict, Holds
<1>i. ASSUME NEW w \in Workers, wk' = [wk EXCEPT ![w] = Idle]
      PROVE  /\ NoEarlyVerdict
             /\ \A v \in Workers : Holds(v)' => /\ Holds(v)
                                               /\ wk'[v].job = wk[v].job
                                               /\ wk'[v].attempt = wk[v].attempt
  BY <1>i, <1>w, <1>a DEF NoEarlyVerdict, Holds, Idle, Holding
<1>u. ASSUME UNCHANGED row
      PROVE  NoEarlyDeath /\ \A j \in Jobs : row'[j].attempts = row[j].attempts
  BY <1>u DEF NoEarlyDeath
<1> DEFINE Good == NoNewAttempt /\ NoEarlyDeath /\ NoEarlyVerdict
<1>1. ASSUME NEW j \in Jobs, NEW d \in DELAYS, AddJob(j, d) PROVE Good
  <2>1. NoEarlyDeath /\ \A k \in Jobs : row'[k].attempts = row[k].attempts
    BY <1>1, <1>r DEF AddJob, NoEarlyDeath, Row
  <2> QED BY <1>1, <1>s, <2>1 DEF AddJob, NoNewAttempt
<1>2. ASSUME NEW j \in Jobs, PushJob(j) PROVE Good
  BY <1>2, <1>s, <1>u DEF PushJob, NoNewAttempt
<1>3. ASSUME NEW w \in Workers, Promote(w) PROVE Good
  BY <1>3, <1>s, <1>u DEF Promote, NoNewAttempt
<1>4. ASSUME NEW w \in Workers, ReapRead(w) PROVE Good
  <2>1. /\ wk'[w].pc = "reap_push"
        /\ wk'[w].toBury = {j \in StaleRunning : row[j].attempts >= MAX_ATTEMPTS}
        /\ \A v \in Workers \ {w} : wk'[v] = wk[v]
    BY <1>4, <1>w DEF ReapRead, SoundWorker, Worker
  <2>2. NoEarlyVerdict
    BY <1>w, <1>a, <2>1 DEF NoEarlyVerdict, StaleRunning
  <2> QED BY <1>4, <1>u, <2>1, <2>2 DEF ReapRead, NoNewAttempt, Holds, Holding
<1>5. ASSUME NEW w \in Workers, ReapPush(w) PROVE Good
  <2>1. /\ wk'[w].pc = "reap_commit" /\ wk'[w].toBury = wk[w].toBury
        /\ \A v \in Workers \ {w} : wk'[v] = wk[v]
    BY <1>5, <1>w DEF ReapPush, SoundWorker, Worker
  <2>2. NoEarlyVerdict
    BY <1>w, <1>a, <2>1 DEF NoEarlyVerdict
  <2> QED BY <1>5, <1>u, <2>1, <2>2 DEF ReapPush, NoNewAttempt, Holds, Holding
<1>6. ASSUME NEW w \in Workers, ReapCommit(w) PROVE Good
  <2>1. \A j \in Jobs : row'[j].attempts = row[j].attempts
    BY <1>6, <1>r DEF ReapCommit, Row
  <2>2. NoEarlyDeath
    BY <1>6, <1>r, <1>a DEF ReapCommit, Row, NoEarlyDeath
  <2> QED BY <1>6, <1>i, <2>1, <2>2 DEF ReapCommit, NoNewAttempt
<1>7. ASSUME NEW w \in Workers, NEW j \in Jobs, Dequeue(w, j) PROVE Good
  <2>1. /\ wk'[w].pc = "claim" /\ wk'[w].toBury = wk[w].toBury
        /\ \A v \in Workers \ {w} : wk'[v] = wk[v]
    BY <1>7, <1>w DEF Dequeue, SoundWorker, Worker
  <2>2. NoEarlyVerdict
    BY <1>w, <1>a, <2>1 DEF NoEarlyVerdict
  <2> QED BY <1>7, <1>u, <2>1, <2>2 DEF Dequeue, NoNewAttempt, Holds, Holding
<1>8. ASSUME NEW w \in Workers, BuryUnknown(w) PROVE Good
  <2>1. \A j \in Jobs : row'[j].attempts = row[j].attempts
    BY <1>8, <1>r DEF BuryUnknown, Row
  <2>2. NoEarlyDeath
    BY <1>8, <1>r DEF BuryUnknown, Row, NoEarlyDeath
  <2> QED BY <1>8, <1>i, <2>1, <2>2 DEF BuryUnknown, NoNewAttempt
<1>9. ASSUME NEW w \in Workers, Skip(w) PROVE Good
  BY <1>9, <1>i, <1>u DEF Skip, NoNewAttempt
<1>10. ASSUME NEW w \in Workers, HandlerReturns(w) PROVE Good
  <2>1. /\ wk[w].pc = "run" /\ wk'[w].pc = "done" /\ wk'[w].toBury = wk[w].toBury
        /\ wk'[w].job = wk[w].job /\ wk'[w].attempt = wk[w].attempt
        /\ \A v \in Workers \ {w} : wk'[v] = wk[v]
    BY <1>10, <1>w DEF HandlerReturns, SoundWorker, Worker
  <2>2. NoEarlyVerdict
    BY <1>w, <1>a, <2>1 DEF NoEarlyVerdict
  <2> QED BY <1>10, <1>u, <2>1, <2>2 DEF HandlerReturns, NoNewAttempt, Holds, Holding
<1>11. ASSUME NEW w \in Workers, RetryLater(w) PROVE Good
  <2>1. /\ wk[w].pc = "run" /\ wk'[w].pc = "retry" /\ wk'[w].toBury = wk[w].toBury
        /\ wk'[w].job = wk[w].job /\ wk'[w].attempt = wk[w].attempt
        /\ \A v \in Workers \ {w} : wk'[v] = wk[v]
    BY <1>11, <1>w DEF RetryLater, SoundWorker, Worker
  <2>2. NoEarlyVerdict
    BY <1>w, <1>a, <2>1 DEF NoEarlyVerdict
  <2>3. UNCHANGED row
    BY <1>11 DEF RetryLater
  <2> QED BY <1>u, <2>1, <2>2, <2>3 DEF NoNewAttempt, Holds, Holding
<1>12. ASSUME NEW w \in Workers, HandlerExhausted(w) PROVE Good
  <2>1. /\ wk[w].pc = "run" /\ wk'[w].pc = "dead" /\ wk'[w].toBury = wk[w].toBury
        /\ wk'[w].job = wk[w].job /\ wk'[w].attempt = wk[w].attempt
        /\ wk[w].attempt >= MAX_ATTEMPTS
        /\ \A v \in Workers \ {w} : wk'[v] = wk[v]
    BY <1>12, <1>w DEF HandlerExhausted, SoundWorker, Worker
  <2>2. NoEarlyVerdict
    BY <1>w, <1>a, <2>1 DEF NoEarlyVerdict
  <2> QED BY <1>12, <1>u, <2>1, <2>2 DEF HandlerExhausted, NoNewAttempt, Holds, Holding
<1>13. ASSUME NEW w \in Workers, Finish(w) PROVE Good
  <2>1. wk[w].job \in Jobs /\ Holds(w) /\ wk[w].pc \in {"done", "retry", "dead"}
    BY <1>13, <1>w DEF Finish, SoundWorker, Holds, Holding
  <2>2. \A j \in Jobs : row'[j].attempts = row[j].attempts
    BY <1>13, <1>r, <2>1 DEF Finish, Row
  <2>3. wk[w].pc = "dead" => row[wk[w].job].attempts >= MAX_ATTEMPTS
    <3>1. wk[w].attempt <= row[wk[w].job].attempts
      BY <2>1 DEF AttemptInv, DistinctAttempts
    <3>2. wk[w].attempt \in Nat /\ row[wk[w].job].attempts \in Nat
      BY <1>r, <1>w, <2>1 DEF SoundWorker, Worker, Row
    <3> QED BY <1>a, <3>1, <3>2, QueueConstants
  <2>4. \A j \in Jobs : row'[j].status = "dead" =>
           row[j].status = "dead" \/ (wk[w].pc = "dead" /\ j = wk[w].job)
    <3>1. CASE wk[w].pc = "done"
      BY <1>13, <1>r, <2>1, <3>1 DEF Finish, Row
    <3>2. CASE wk[w].pc = "dead"
      BY <1>13, <1>r, <2>1, <3>2 DEF Finish, Row
    <3>3. CASE wk[w].pc = "retry"
      BY <1>13, <1>r, <2>1, <3>3 DEF Finish, Row
    <3> QED BY <2>1, <3>1, <3>2, <3>3
  <2> QED BY <1>13, <1>i, <2>2, <2>3, <2>4 DEF Finish, NoNewAttempt, NoEarlyDeath
<1>14. ASSUME NEW w \in Workers, LoseWorker(w) PROVE Good
  BY <1>14, <1>i, <1>u DEF LoseWorker, NoNewAttempt
<1>15. ASSUME Tick PROVE Good
  <2>1. \A j \in Jobs : row'[j].attempts = row[j].attempts /\ row'[j].status = row[j].status
    BY <1>15, <1>r DEF Tick, Row
  <2>2. \A w \in Workers : /\ wk'[w].pc = wk[w].pc /\ wk'[w].job = wk[w].job
                           /\ wk'[w].attempt = wk[w].attempt
                           /\ wk'[w].toBury = wk[w].toBury
    BY <1>15, <1>w DEF Tick, SoundWorker, Worker
  <2> QED BY <1>w, <1>a, <2>1, <2>2 DEF NoNewAttempt, NoEarlyDeath, NoEarlyVerdict, Holds
<1> QED
  BY <1>1, <1>2, <1>3, <1>4, <1>5, <1>6, <1>7, <1>8, <1>9, <1>10, <1>11, <1>12, <1>13,
     <1>14, <1>15 DEF Next, Enqueue, Housekeeping, RunOnce

LEMMA StepAttemptInv == TypeInv /\ AttemptInv /\ [Next]_vars => AttemptInv'
<1>1. ASSUME TypeInv, AttemptInv, UNCHANGED vars PROVE AttemptInv'
  BY <1>1 DEF AttemptInv, DistinctAttempts, DeadOnlyWhenExhausted, Holds, vars
<1>2. ASSUME TypeInv, AttemptInv, Next PROVE AttemptInv'
  <2>1. CASE \E w \in Workers : Claim(w)
    BY <1>2, <2>1, ClaimAttemptInv
  <2>2. CASE \A w \in Workers : ~Claim(w)
    BY <1>2, <2>2, OtherAttemptInv, AttemptStep
  <2> QED BY <2>1, <2>2
<1> QED BY <1>1, <1>2

LEMMA AttemptInvHolds == Spec => [](TypeInv /\ AttemptInv)
BY InitTypeInv, StepTypeInv, InitAttemptInv, StepAttemptInv, PTL DEF Spec

\* Whatever the interleaving, the crashes and the duplicate envelopes, one
\* attempt number of a job is never held by two instances.
THEOREM AttemptsDistinct == Spec => []DistinctAttempts
BY AttemptInvHolds, PTL DEF AttemptInv

\* No job is given up while it has attempts left, by its worker or by a reaper.
THEOREM NoneGivenUpEarly == Spec => []DeadOnlyWhenExhausted
BY AttemptInvHolds, PTL DEF AttemptInv

-----------------------------------------------------------------------------
(* One instance per job *)

\* Without faults a row says "running" exactly while one instance holds its
\* job, at the row's own attempt; and the time it has been held and the time
\* left before a reaper would take the row for abandoned add up to
\* STALE_RUNNING.  So no reaper finds anything to take back.
Owned(w) == LET j == wk[w].job IN
  /\ j \notin Unknown
  /\ row[j].status = "running"
  /\ row[j].attempts = wk[w].attempt
  /\ row[j].staleIn + wk[w].ran = STALE_RUNNING
  /\ wk[w].ran <= MAX_RUN

OwnershipCore ==
  /\ \A w \in Workers : wk[w].toRetry = {} /\ wk[w].toBury = {}
  /\ \A w \in Workers : Holds(w) => Owned(w)
  /\ \A w \in Workers : ~Holds(w) => wk[w].ran = 0
  /\ \A j \in Jobs : row[j].status = "running" => \E w \in Workers : Holds(w) /\ wk[w].job = j

Ownership == MAX_RUN < STALE_RUNNING /\ faults = 0 => OwnershipCore

LEMMA InitOwnership == Init => Ownership
BY DEF Init, Ownership, OwnershipCore, Holds, Holding, Idle, NoRow

\* Two owners of a job would hold the same attempt of it.
LEMMA OwnerUnique ==
  ASSUME TypeInv, AttemptInv, OwnershipCore
  PROVE  OneInstancePerJob
BY DEF AttemptInv, DistinctAttempts, OwnershipCore, Owned, OneInstancePerJob

LEMMA NoStaleRow ==
  ASSUME TypeInv, OwnershipCore, MAX_RUN < STALE_RUNNING
  PROVE  StaleRunning = {}
<1>1. SUFFICES ASSUME NEW j \in Jobs, row[j].status = "running", row[j].staleIn = 0
               PROVE  FALSE
  BY DEF StaleRunning
<1>2. PICK w \in Workers : Holds(w) /\ wk[w].job = j
  BY <1>1 DEF OwnershipCore
<1>3. row[j].staleIn + wk[w].ran = STALE_RUNNING /\ wk[w].ran <= MAX_RUN /\ wk[w].ran \in Nat
  BY <1>2 DEF OwnershipCore, Owned, TypeInv, SoundWorker, Worker
<1> QED BY <1>1, <1>3, QueueConstants

\* A step that writes no row and moves no worker in or out of a job.
LEMMA OwnershipKept ==
  ASSUME TypeInv, OwnershipCore, UNCHANGED row,
         \A w \in Workers : /\ wk'[w].toRetry = {} /\ wk'[w].toBury = {}
                            /\ wk'[w].ran = wk[w].ran
                            /\ Holds(w)' <=> Holds(w)
                            /\ Holds(w) => /\ wk'[w].job = wk[w].job
                                           /\ wk'[w].attempt = wk[w].attempt
  PROVE  OwnershipCore'
<1>1. \A w \in Workers : Holds(w)' => Owned(w)'
  BY DEF OwnershipCore, Owned
<1>2. \A j \in Jobs : row'[j].status = "running" =>
                        \E w \in Workers : Holds(w)' /\ wk'[w].job = j
  BY DEF OwnershipCore
<1> QED BY <1>1, <1>2 DEF OwnershipCore

LEMMA NextOwnership ==
  ASSUME TypeInv, AttemptInv, Ownership, Next
  PROVE  Ownership'
<1> SUFFICES ASSUME MAX_RUN < STALE_RUNNING, faults' = 0
             PROVE  OwnershipCore'
  BY DEF Ownership
<1>r. row \in [Jobs -> Row]
  BY DEF TypeInv
<1>w. wk \in [Workers -> SoundWorker]
  BY DEF TypeInv
<1>f. ~Fault
  BY DEF Fault, TypeInv
<1>n. /\ \A j \in Jobs : PushJob(j) => faults' = faults
      /\ \A w \in Workers : ReapRead(w) \/ ReapPush(w) \/ RetryLater(w) => faults' = faults
  BY <1>f DEF PushJob, ReapRead, ReapPush, RetryLater, PushAll, NoFault
<1>c. OwnershipCore
  <2>1. faults' = faults
    BY <1>f, <1>n DEF Next, Enqueue, Housekeeping, RunOnce, AddJob, Promote, ReapCommit, Dequeue,
       BuryUnknown, Claim, Skip, HandlerReturns, HandlerExhausted, Finish, LoseWorker, Tick
  <2> QED BY <2>1 DEF Ownership
<1>o. OneInstancePerJob
  BY <1>c, OwnerUnique
<1>i. ASSUME NEW w \in Workers, ~Holds(w), wk' = [wk EXCEPT ![w] = Idle], UNCHANGED row
      PROVE  OwnershipCore'
  BY <1>c, <1>w, <1>i, OwnershipKept DEF OwnershipCore, Idle, Holds, Holding
<1>m. ASSUME NEW w \in Workers, UNCHANGED row,
             wk'[w].toRetry = {}, wk'[w].toBury = {}, wk'[w].ran = wk[w].ran,
             Holds(w)' <=> Holds(w),
             Holds(w) => wk'[w].job = wk[w].job /\ wk'[w].attempt = wk[w].attempt,
             \A v \in Workers \ {w} : wk'[v] = wk[v]
      PROVE  OwnershipCore'
  BY <1>c, <1>m, OwnershipKept DEF OwnershipCore, Holds
<1>1. ASSUME NEW j \in Jobs, NEW d \in DELAYS, AddJob(j, d) PROVE OwnershipCore'
  <2>1. \A k \in Jobs : k # j => row'[k] = row[k]
    BY <1>1, <1>r DEF AddJob
  <2>2. row'[j].status = "queued" /\ row[j].status = "none" /\ wk' = wk
    BY <1>1, <1>r DEF AddJob, Row
  <2>3. \A w \in Workers : Holds(w) => wk[w].job # j /\ wk[w].job \in Jobs
    BY <1>c, <1>w, <2>2 DEF OwnershipCore, Owned, SoundWorker, Holds
  <2> QED BY <1>c, <2>1, <2>2, <2>3 DEF OwnershipCore, Owned, Holds
<1>2. ASSUME NEW j \in Jobs, PushJob(j) PROVE OwnershipCore'
  BY <1>2, <1>c, OwnershipKept DEF PushJob, OwnershipCore, Holds
<1>3. ASSUME NEW w \in Workers, Promote(w) PROVE OwnershipCore'
  BY <1>3, <1>c, OwnershipKept DEF Promote, OwnershipCore, Holds
<1>4. ASSUME NEW w \in Workers, ReapRead(w) PROVE OwnershipCore'
  <2>1. {j \in StaleRunning : row[j].attempts < MAX_ATTEMPTS} = {}
        /\ {j \in StaleRunning : row[j].attempts >= MAX_ATTEMPTS} = {}
    BY <1>c, NoStaleRow
  <2>2. wk' = [wk EXCEPT ![w].pc = "reap_push", ![w].toRetry = {}, ![w].toBury = {}]
        /\ wk[w].pc = "loop" /\ UNCHANGED row
    BY <1>4, <2>1 DEF ReapRead
  <2>3. /\ wk'[w].pc = "reap_push" /\ wk'[w].toRetry = {} /\ wk'[w].toBury = {}
        /\ wk'[w].ran = wk[w].ran
        /\ \A v \in Workers \ {w} : wk'[v] = wk[v]
    BY <1>w, <2>2 DEF SoundWorker, Worker
  <2> QED BY <1>m, <2>2, <2>3 DEF Holds, Holding
<1>5. ASSUME NEW w \in Workers, ReapPush(w) PROVE OwnershipCore'
  <2>1. /\ wk'[w].pc = "reap_commit" /\ wk'[w].toRetry = {} /\ wk'[w].toBury = {}
        /\ wk'[w].ran = wk[w].ran /\ wk[w].pc = "reap_push" /\ UNCHANGED row
        /\ \A v \in Workers \ {w} : wk'[v] = wk[v]
    BY <1>5, <1>c, <1>w DEF ReapPush, SoundWorker, Worker, OwnershipCore
  <2> QED BY <1>m, <2>1 DEF Holds, Holding
<1>6. ASSUME NEW w \in Workers, ReapCommit(w) PROVE OwnershipCore'
  <2>1. row' = row
    BY <1>6, <1>c, <1>r DEF ReapCommit, OwnershipCore
  <2> QED BY <1>6, <1>i, <2>1 DEF ReapCommit, Holds, Holding
<1>7. ASSUME NEW w \in Workers, NEW j \in Jobs, Dequeue(w, j) PROVE OwnershipCore'
  <2>1. /\ wk'[w].pc = "claim" /\ wk'[w].toRetry = wk[w].toRetry /\ wk'[w].toBury = wk[w].toBury
        /\ wk'[w].ran = wk[w].ran /\ wk[w].pc = "loop" /\ UNCHANGED row
        /\ \A v \in Workers \ {w} : wk'[v] = wk[v]
    BY <1>7, <1>w DEF Dequeue, SoundWorker, Worker
  <2> QED BY <1>c, <1>m, <2>1 DEF OwnershipCore, Holds, Holding
<1>8. ASSUME NEW w \in Workers, BuryUnknown(w) PROVE OwnershipCore'
  <2> DEFINE c == wk[w].job
  <2>1. c \in Jobs /\ c \in Unknown /\ ~Holds(w)
    BY <1>8, <1>w DEF BuryUnknown, SoundWorker, Holds, Holding
  <2>2. row'[c].status = "dead" /\ \A k \in Jobs : k # c => row'[k] = row[k]
    BY <1>8, <1>r, <2>1 DEF BuryUnknown, Row
  <2>3. wk'[w] = Idle /\ \A v \in Workers \ {w} : wk'[v] = wk[v]
    BY <1>8, <1>w DEF BuryUnknown
  <2>4. \A v \in Workers : Holds(v) => wk[v].job # c /\ wk[v].job \in Jobs
    BY <1>c, <1>w, <2>1 DEF OwnershipCore, Owned, SoundWorker, Holds
  <2>5. ~Holds(w)' /\ \A v \in Workers \ {w} : Holds(v)' <=> Holds(v)
    BY <2>3 DEF Holds, Holding, Idle
  <2> HIDE DEF c
  <2>6. \A v \in Workers : Holds(v)' => Owned(v)'
    BY <1>c, <2>2, <2>3, <2>4, <2>5 DEF OwnershipCore, Owned
  <2>7. \A j \in Jobs : row'[j].status = "running" =>
                          \E v \in Workers : Holds(v)' /\ wk'[v].job = j
    BY <1>c, <2>1, <2>2, <2>3, <2>5 DEF OwnershipCore
  <2> QED BY <1>c, <2>3, <2>5, <2>6, <2>7 DEF OwnershipCore, Idle
<1>9. ASSUME NEW w \in Workers, Claim(w) PROVE OwnershipCore'
  <2> DEFINE c == wk[w].job
             n == row[c].attempts + 1
  <2>1. c \in Jobs /\ c \notin Unknown /\ row[c].status = "queued" /\ ~Holds(w)
    BY <1>9, <1>w DEF Claim, Claimable, SoundWorker, Holds, Holding
  <2>2. /\ row'[c].status = "running" /\ row'[c].attempts = n
        /\ row'[c].staleIn = STALE_RUNNING
        /\ \A k \in Jobs : k # c => row'[k] = row[k]
    BY <1>9, <1>r, <2>1 DEF Claim, Row
  <2>3. /\ wk'[w].pc = "run" /\ wk'[w].job = c /\ wk'[w].attempt = n
        /\ wk'[w].ran = wk[w].ran
        /\ wk'[w].toRetry = wk[w].toRetry /\ wk'[w].toBury = wk[w].toBury
        /\ \A v \in Workers \ {w} : wk'[v] = wk[v]
    BY <1>9, <1>w DEF Claim, SoundWorker, Worker
  <2>4. \A v \in Workers : Holds(v) => wk[v].job # c /\ wk[v].job \in Jobs
    BY <1>c, <1>w, <2>1 DEF OwnershipCore, Owned, SoundWorker, Holds
  <2>5. Holds(w)' /\ \A v \in Workers \ {w} : Holds(v)' <=> Holds(v)
    BY <2>3 DEF Holds, Holding
  <2> HIDE DEF c, n
  <2>6. wk[w].ran = 0
    BY <1>c, <2>1 DEF OwnershipCore
  <2>7. Owned(w)'
    BY <2>1, <2>2, <2>3, <2>6, QueueConstants DEF Owned
  <2>8. \A v \in Workers \ {w} : Holds(v)' => Owned(v)'
    BY <1>c, <2>2, <2>3, <2>4, <2>5 DEF OwnershipCore, Owned
  <2>9. \A j \in Jobs : row'[j].status = "running" =>
                          \E v \in Workers : Holds(v)' /\ wk'[v].job = j
    <3> SUFFICES ASSUME NEW j \in Jobs, row'[j].status = "running"
                 PROVE  \E v \in Workers : Holds(v)' /\ wk'[v].job = j
      OBVIOUS
    <3>1. CASE j = c
      BY <2>3, <2>5, <3>1
    <3>2. CASE j # c
      <4>1. PICK v \in Workers : Holds(v) /\ wk[v].job = j
        BY <1>c, <2>2, <3>2 DEF OwnershipCore
      <4>2. v # w
        BY <2>1, <4>1
      <4> QED BY <2>3, <2>5, <4>1, <4>2
    <3> QED BY <3>1, <3>2
  <2>10. \A v \in Workers : ~Holds(v)' => wk'[v].ran = 0
    BY <1>c, <2>3, <2>5 DEF OwnershipCore
  <2>11. \A v \in Workers : wk'[v].toRetry = {} /\ wk'[v].toBury = {}
    BY <1>c, <2>3 DEF OwnershipCore
  <2> QED BY <2>5, <2>7, <2>8, <2>9, <2>10, <2>11 DEF OwnershipCore
<1>10. ASSUME NEW w \in Workers, Skip(w) PROVE OwnershipCore'
  BY <1>10, <1>i DEF Skip, Holds, Holding
<1>11. ASSUME NEW w \in Workers, HandlerReturns(w) PROVE OwnershipCore'
  <2>1. /\ wk'[w].pc = "done" /\ wk'[w].toRetry = wk[w].toRetry /\ wk'[w].toBury = wk[w].toBury
        /\ wk'[w].job = wk[w].job /\ wk'[w].attempt = wk[w].attempt
        /\ wk'[w].ran = wk[w].ran /\ wk[w].pc = "run" /\ UNCHANGED row
        /\ \A v \in Workers \ {w} : wk'[v] = wk[v]
    BY <1>11, <1>w DEF HandlerReturns, SoundWorker, Worker
  <2> QED BY <1>c, <1>m, <2>1 DEF OwnershipCore, Holds, Holding
<1>12. ASSUME NEW w \in Workers, RetryLater(w) PROVE OwnershipCore'
  <2>1. /\ wk'[w].pc = "retry" /\ wk'[w].toRetry = wk[w].toRetry /\ wk'[w].toBury = wk[w].toBury
        /\ wk'[w].job = wk[w].job /\ wk'[w].attempt = wk[w].attempt
        /\ wk'[w].ran = wk[w].ran /\ wk[w].pc = "run" /\ UNCHANGED row
        /\ \A v \in Workers \ {w} : wk'[v] = wk[v]
    BY <1>12, <1>w DEF RetryLater, SoundWorker, Worker
  <2> QED BY <1>c, <1>m, <2>1 DEF OwnershipCore, Holds, Holding
<1>13. ASSUME NEW w \in Workers, HandlerExhausted(w) PROVE OwnershipCore'
  <2>1. /\ wk'[w].pc = "dead" /\ wk'[w].toRetry = wk[w].toRetry /\ wk'[w].toBury = wk[w].toBury
        /\ wk'[w].job = wk[w].job /\ wk'[w].attempt = wk[w].attempt
        /\ wk'[w].ran = wk[w].ran /\ wk[w].pc = "run" /\ UNCHANGED row
        /\ \A v \in Workers \ {w} : wk'[v] = wk[v]
    BY <1>13, <1>w DEF HandlerExhausted, SoundWorker, Worker
  <2> QED BY <1>c, <1>m, <2>1 DEF OwnershipCore, Holds, Holding
<1>14. ASSUME NEW w \in Workers, Finish(w) PROVE OwnershipCore'
  <2> DEFINE c == wk[w].job
  <2>1. c \in Jobs /\ Holds(w) /\ wk[w].pc \in {"done", "retry", "dead"}
    BY <1>14, <1>w DEF Finish, SoundWorker, Holds, Holding
  <2>2. row'[c].status # "running" /\ \A k \in Jobs : k # c => row'[k] = row[k]
    <3>1. CASE wk[w].pc = "done"
      BY <1>14, <1>r, <2>1, <3>1 DEF Finish, Row
    <3>2. CASE wk[w].pc = "dead"
      BY <1>14, <1>r, <2>1, <3>2 DEF Finish, Row
    <3>3. CASE wk[w].pc = "retry"
      BY <1>14, <1>r, <2>1, <3>3 DEF Finish, Row
    <3> QED BY <2>1, <3>1, <3>2, <3>3
  <2>3. wk'[w] = Idle /\ \A v \in Workers \ {w} : wk'[v] = wk[v]
    BY <1>14, <1>w DEF Finish
  <2>4. \A v \in Workers \ {w} : Holds(v) => wk[v].job # c /\ wk[v].job \in Jobs
    BY <1>o, <1>w, <2>1 DEF OneInstancePerJob, SoundWorker, Holds
  <2>5. ~Holds(w)' /\ \A v \in Workers \ {w} : Holds(v)' <=> Holds(v)
    BY <2>3 DEF Holds, Holding, Idle
  <2> HIDE DEF c
  <2>6. \A v \in Workers : Holds(v)' => Owned(v)'
    BY <1>c, <2>2, <2>3, <2>4, <2>5 DEF OwnershipCore, Owned
  <2>7. \A j \in Jobs : row'[j].status = "running" =>
                          \E v \in Workers : Holds(v)' /\ wk'[v].job = j
    <3> SUFFICES ASSUME NEW j \in Jobs, row'[j].status = "running"
                 PROVE  \E v \in Workers : Holds(v)' /\ wk'[v].job = j
      OBVIOUS
    <3>1. PICK v \in Workers : Holds(v) /\ wk[v].job = j
      BY <1>c, <2>2 DEF OwnershipCore
    <3>2. v # w
      BY <2>2, <3>1 DEF c
    <3> QED BY <2>3, <2>5, <3>1, <3>2
  <2> QED BY <1>c, <2>3, <2>5, <2>6, <2>7 DEF OwnershipCore, Idle
<1>15. ASSUME NEW w \in Workers, LoseWorker(w) PROVE OwnershipCore'
  BY <1>15, <1>f DEF LoseWorker
<1>16. ASSUME Tick PROVE OwnershipCore'
  <2>1. \A j \in Jobs :
          /\ row'[j].status = row[j].status /\ row'[j].attempts = row[j].attempts
          /\ row[j].status = "running" => row'[j].staleIn = Minus1(row[j].staleIn)
    BY <1>16, <1>r DEF Tick, Row
  <2>2. \A w \in Workers :
          /\ wk'[w].pc = wk[w].pc /\ wk'[w].job = wk[w].job /\ wk'[w].attempt = wk[w].attempt
          /\ wk'[w].toRetry = wk[w].toRetry /\ wk'[w].toBury = wk[w].toBury
          /\ wk'[w].ran = IF Holds(w) THEN wk[w].ran + 1 ELSE wk[w].ran
    BY <1>16, <1>w DEF Tick, SoundWorker, Worker
  <2>3. \A w \in Workers : Holds(w)' <=> Holds(w)
    BY <2>2 DEF Holds
  <2>4. ASSUME NEW w \in Workers, Holds(w) PROVE Owned(w)'
    <3>1. wk[w].job \in Jobs /\ wk[w].ran \in Nat /\ row[wk[w].job].staleIn \in Nat
      BY <1>r, <1>w, <2>4 DEF SoundWorker, Worker, Holds, Row
    <3>2. Owned(w) /\ wk[w].ran < MAX_RUN
      BY <1>16, <1>c, <2>4 DEF OwnershipCore, Tick
    <3>3. row[wk[w].job].staleIn > 0
      BY <3>1, <3>2, QueueConstants DEF Owned
    <3>4. row'[wk[w].job].staleIn = row[wk[w].job].staleIn - 1 /\ wk'[w].ran = wk[w].ran + 1
      BY <2>1, <2>2, <2>4, <3>1, <3>2, <3>3 DEF Owned, Minus1
    <3>5. /\ row[wk[w].job].staleIn + wk[w].ran = STALE_RUNNING
          /\ wk[w].job \notin Unknown /\ row[wk[w].job].status = "running"
          /\ row[wk[w].job].attempts = wk[w].attempt
      BY <3>2 DEF Owned
    <3>6. /\ row'[wk[w].job].staleIn + wk'[w].ran = STALE_RUNNING
          /\ wk'[w].ran <= MAX_RUN
      <4>1. PICK s \in Int, n \in Int : s = row[wk[w].job].staleIn /\ n = wk[w].ran
        BY <3>1
      <4>2. s + n = STALE_RUNNING /\ n < MAX_RUN /\ MAX_RUN \in Int
        BY <3>2, <3>5, <4>1, QueueConstants
      <4>3. (s - 1) + (n + 1) = STALE_RUNNING /\ n + 1 <= MAX_RUN
        BY <4>2
      <4> QED BY <3>4, <4>1, <4>3
    <3> QED BY <2>1, <2>2, <3>1, <3>5, <3>6 DEF Owned
  <2> QED BY <1>c, <2>1, <2>2, <2>3, <2>4 DEF OwnershipCore
<1> QED
  BY <1>1, <1>2, <1>3, <1>4, <1>5, <1>6, <1>7, <1>8, <1>9, <1>10, <1>11, <1>12, <1>13,
     <1>14, <1>15, <1>16 DEF Next, Enqueue, Housekeeping, RunOnce

LEMMA StepOwnership == TypeInv /\ AttemptInv /\ Ownership /\ [Next]_vars => Ownership'
<1>1. ASSUME Ownership, UNCHANGED vars PROVE Ownership'
  BY <1>1 DEF Ownership, OwnershipCore, Owned, Holds, vars
<1> QED BY <1>1, NextOwnership

\* With no fault so far and handlers that end before STALE_RUNNING, no two
\* instances ever hold one job, for any number of instances.
THEOREM ExclusiveWithoutFaults == Spec => []FaultFreeExclusive
<1>1. TypeInv /\ AttemptInv /\ Ownership => FaultFreeExclusive
  BY OwnerUnique DEF Ownership, FaultFreeExclusive
<1>2. Spec => [](TypeInv /\ AttemptInv /\ Ownership)
  BY InitTypeInv, StepTypeInv, InitAttemptInv, StepAttemptInv, InitOwnership, StepOwnership,
     PTL DEF Spec
<1> QED BY <1>1, <1>2, PTL

-----------------------------------------------------------------------------
(* The lifecycle of a job *)

\* With one instance nobody comes in between: what an instance has in hand is as it was when
\* it was read or claimed.  A job that has a row in hand, on the list, in the delayed set or
\* to be pushed was asked for, and one that waits has an attempt left.
Lone == \A v, w \in Workers : v = w

RowOk(j) ==
  /\ row[j].attempts <= MAX_ATTEMPTS
  /\ row[j].status \in {"none", "queued"} => row[j].attempts < MAX_ATTEMPTS
  /\ j \in Unknown => row[j].status \in {"none", "queued", "dead"}

WorkerOk(x) ==
  /\ x.pc = "claim" => row[x.job].status # "none"
  /\ x.pc \in Holding => /\ x.job \notin Unknown /\ row[x.job].status = "running"
                         /\ row[x.job].attempts = x.attempt
  /\ x.pc = "retry" => x.attempt < MAX_ATTEMPTS
  /\ x.pc = "dead" => x.attempt >= MAX_ATTEMPTS
  /\ x.pc \in {"reap_push", "reap_commit"} =>
       /\ \A j \in x.toRetry : row[j].status = "running" /\ row[j].attempts < MAX_ATTEMPTS
       /\ \A j \in x.toBury : row[j].status = "running" /\ row[j].attempts >= MAX_ATTEMPTS

Asked(j) == list[j] > 0 \/ delayed[j] # NoEntry \/ j \in unpushed

LoneInv ==
  /\ \A j \in Jobs : RowOk(j)
  /\ \A j \in Jobs : Asked(j) => row[j].status # "none"
  /\ \A w \in Workers : WorkerOk(wk[w])

\* What a step does to a row, in the words of JobLifecycle.
RowStep(j) ==
  LET r == row[j]
      q == row'[j]
  IN \/ q.status = r.status /\ q.attempts = r.attempts
     \/ r.status = "none" /\ q.status = "queued" /\ q.attempts = r.attempts
     \/ /\ j \notin Unknown /\ r.attempts < MAX_ATTEMPTS
        /\ r.status = "queued" /\ q.status = "running" /\ q.attempts = r.attempts + 1
     \/ r.status = "running" /\ q.status = "done" /\ q.attempts = r.attempts
     \/ r.attempts < MAX_ATTEMPTS /\ r.status = "running" /\ q.status = "queued" /\ q.attempts = r.attempts
     \/ r.attempts = MAX_ATTEMPTS /\ r.status = "running" /\ q.status = "dead" /\ q.attempts = r.attempts
     \/ j \in Unknown /\ r.status = "queued" /\ q.status = "dead" /\ q.attempts = r.attempts

LEMMA RowStepIsLifecycle == (\A j \in Jobs : RowStep(j)) => Lifecycle!LNext
<1> SUFFICES ASSUME \A j \in Jobs : RowStep(j), NEW j \in Jobs
             PROVE  Lifecycle!Step(j) \/ Lifecycle!Stays(j)
  BY DEF Lifecycle!LNext
<1>1. RowStep(j)
  OBVIOUS
<1> QED BY <1>1 DEF RowStep, Lifecycle!Step, Lifecycle!Stays, Lifecycle!Moves, Lifecycle!Accept,
           Lifecycle!Start, Lifecycle!Succeed, Lifecycle!TryAgain, Lifecycle!GiveUp, Lifecycle!Refuse

\* A push puts nothing on the list but what is pushed.
LEMMA Pushed ==
  ASSUME TypeInv, NEW S, PushAll(S) \/ Lpush(S)
  PROVE  \A j \in Jobs : list'[j] > 0 => list[j] > 0 \/ j \in S
<1>1. list \in [Jobs -> 0..MAX_COPIES]
  BY DEF TypeInv
<1>2. PICK T : T \subseteq S /\ Lpush(T)
  BY DEF PushAll
<1>3. \A j \in Jobs : j \notin T => list'[j] = list[j]
  BY <1>2 DEF Lpush
<1> QED BY <1>2, <1>3

LEMMA InitLone == Init => LoneInv
<1> SUFFICES ASSUME Init PROVE LoneInv
  OBVIOUS
<1>1. ASSUME NEW j \in Jobs PROVE RowOk(j) /\ ~Asked(j)
  <2>1. row[j].status = "none" /\ row[j].attempts = 0
    BY DEF Init, NoRow
  <2>2. list[j] = 0 /\ delayed[j] = NoEntry /\ unpushed = {}
    BY DEF Init
  <2> QED BY <2>1, <2>2, QueueConstants DEF RowOk, Asked
<1>2. ASSUME NEW w \in Workers PROVE WorkerOk(wk[w])
  BY DEF Init, Idle, WorkerOk, Holding
<1> QED BY <1>1, <1>2 DEF LoneInv

\* A step that writes no status and counts no attempt.
LEMMA RowsStay ==
  ASSUME TypeInv', LoneInv,
         \A j \in Jobs : row'[j].status = row[j].status /\ row'[j].attempts = row[j].attempts,
         \A j \in Jobs : Asked(j)' => row[j].status # "none",
         \A w \in Workers : WorkerOk(wk'[w])
  PROVE  LoneInv' /\ \A j \in Jobs : RowStep(j)
<1>1. \A j \in Jobs : RowOk(j)' /\ RowStep(j)
  BY DEF LoneInv, RowOk, RowStep
<1>2. ASSUME NEW w \in Workers PROVE WorkerOk(wk[w])'
  <2> DEFINE x == wk'[w]
  <2>1. WorkerOk(x)
    OBVIOUS
  <2>2. x \in SoundWorker /\ x.toRetry \subseteq Jobs /\ x.toBury \subseteq Jobs
    BY DEF TypeInv, SoundWorker, Worker
  <2> QED BY <2>1, <2>2 DEF WorkerOk, SoundWorker, Worker
<1> QED BY <1>1, <1>2 DEF LoneInv

\* The only instance: what is said of it is said of all.
LEMMA LoneWorker ==
  ASSUME Lone, TypeInv, NEW w \in Workers, NEW x, wk' = [wk EXCEPT ![w] = x]
  PROVE  /\ \A v \in Workers : v = w /\ wk'[v] = x
         /\ wk[w] \in SoundWorker /\ wk[w] \in Worker
  BY DEF Lone, TypeInv, SoundWorker

LEMMA LoneQueue ==
  ASSUME TypeInv, TypeInv', LoneInv, NEW j \in Jobs, Enqueue(j)
  PROVE  LoneInv' /\ \A k \in Jobs : RowStep(k)
<1>t. /\ row \in [Jobs -> Row] /\ list \in [Jobs -> 0..MAX_COPIES]
      /\ delayed \in [Jobs -> Nat \union {NoEntry}] /\ wk \in [Workers -> SoundWorker]
  BY DEF TypeInv
<1>1. ASSUME NEW d \in DELAYS, AddJob(j, d) PROVE LoneInv' /\ \A k \in Jobs : RowStep(k)
  <2>1. row[j].status = "none" /\ UNCHANGED <<list, delayed, wk>> /\ unpushed' = unpushed \union {j}
    BY <1>1 DEF AddJob
  <2>2. /\ row'[j].status = "queued" /\ row'[j].attempts = row[j].attempts
        /\ \A k \in Jobs \ {j} : row'[k] = row[k]
    BY <1>t, <1>1 DEF AddJob, Row
  <2>3. \A k \in Jobs : RowOk(k)' /\ RowStep(k)
    BY <2>1, <2>2 DEF LoneInv, RowOk, RowStep
  <2>4. \A k \in Jobs : Asked(k)' => row'[k].status # "none"
    BY <2>1, <2>2 DEF LoneInv, Asked
  <2>5. ASSUME NEW w \in Workers PROVE WorkerOk(wk[w])'
    <3>1. WorkerOk(wk[w])
      BY DEF LoneInv
    <3>2. /\ wk[w].pc = "claim" \/ wk[w].pc \in Holding => wk[w].job \in Jobs
          /\ wk[w].toRetry \subseteq Jobs /\ wk[w].toBury \subseteq Jobs
      BY <1>t DEF SoundWorker, Worker
    <3> QED BY <2>1, <2>2, <3>1, <3>2 DEF WorkerOk, Holding
  <2> QED BY <2>3, <2>4, <2>5 DEF LoneInv
<1>2. CASE PushJob(j)
  <2>1. j \in unpushed /\ unpushed' = unpushed \ {j} /\ UNCHANGED <<row, wk>>
    BY <1>2 DEF PushJob
  <2>2. \A k \in Jobs : list'[k] > 0 \/ delayed'[k] # NoEntry => Asked(k)
    <3>1. CASE UNCHANGED <<list, delayed>>
      BY <3>1 DEF Asked
    <3>2. CASE Push(j, row[j].dueIn)
      <4>1. CASE row[j].dueIn > 0
        BY <1>t, <2>1, <3>2, <4>1 DEF Push, Asked
      <4>2. CASE ~(row[j].dueIn > 0)
        <5>1. Lpush({j}) /\ UNCHANGED delayed
          BY <3>2, <4>2 DEF Push
        <5>2. \A k \in Jobs : list'[k] > 0 => list[k] > 0 \/ k \in {j}
          BY <5>1, Pushed
        <5> QED BY <2>1, <5>1, <5>2 DEF Asked
      <4> QED BY <4>1, <4>2
    <3> QED BY <1>2, <3>1, <3>2 DEF PushJob
  <2>3. \A k \in Jobs : Asked(k)' => row[k].status # "none"
    BY <2>1, <2>2 DEF LoneInv, Asked
  <2>4. \A w \in Workers : WorkerOk(wk'[w])
    BY <2>1 DEF LoneInv
  <2> QED BY <2>1, <2>3, <2>4, RowsStay
<1> QED BY <1>1, <1>2 DEF Enqueue

\* The steps of housekeeping.
LEMMA LoneHousekeeping ==
  ASSUME Lone, TypeInv, TypeInv', LoneInv, NEW w \in Workers, Housekeeping(w)
  PROVE  LoneInv' /\ \A k \in Jobs : RowStep(k)
<1>t. /\ row \in [Jobs -> Row] /\ list \in [Jobs -> 0..MAX_COPIES]
      /\ delayed \in [Jobs -> Nat \union {NoEntry}] /\ wk \in [Workers -> SoundWorker]
  BY DEF TypeInv
<1>w. wk[w] \in Worker /\ WorkerOk(wk[w])
  BY <1>t DEF SoundWorker, LoneInv
<1>1. CASE Promote(w)
  <2>1. /\ Lpush(Due) /\ UNCHANGED <<row, unpushed, wk>>
        /\ delayed' = [j \in Jobs |-> IF j \in Due THEN NoEntry ELSE delayed[j]]
    BY <1>1 DEF Promote
  <2>2. \A k \in Jobs : list'[k] > 0 => list[k] > 0 \/ k \in Due
    BY <2>1, Pushed
  <2>3. \A k \in Due : delayed[k] # NoEntry
    BY DEF Due, NoEntry
  <2>4. \A k \in Jobs : Asked(k)' => row[k].status # "none"
    BY <2>1, <2>2, <2>3 DEF LoneInv, Asked
  <2>5. \A v \in Workers : WorkerOk(wk'[v])
    BY <2>1 DEF LoneInv
  <2> QED BY <2>1, <2>4, <2>5, RowsStay
<1>2. CASE ReapRead(w)
  <2> DEFINE R == {j \in StaleRunning : row[j].attempts < MAX_ATTEMPTS}
             B == {j \in StaleRunning : row[j].attempts >= MAX_ATTEMPTS}
             x == [wk[w] EXCEPT !.pc = "reap_push", !.toRetry = R, !.toBury = B]
  <2>1. /\ PushAll(StaleQueued) /\ UNCHANGED <<row, delayed, unpushed>>
        /\ wk' = [wk EXCEPT ![w] = x]
    BY <1>2 DEF ReapRead
  <2>2. \A k \in Jobs : list'[k] > 0 => list[k] > 0 \/ k \in StaleQueued
    BY <2>1, Pushed
  <2>3. \A k \in Jobs : Asked(k)' => row[k].status # "none"
    BY <2>1, <2>2 DEF LoneInv, Asked, StaleQueued
  <2>4. x.pc = "reap_push" /\ x.toRetry = R /\ x.toBury = B
    BY <1>w DEF Worker
  <2> HIDE DEF x
  <2>5. WorkerOk(x)
    BY <2>4 DEF WorkerOk, Holding, StaleRunning
  <2>6. \A v \in Workers : wk'[v] = x
    BY <2>1, LoneWorker
  <2> QED BY <2>1, <2>3, <2>5, <2>6, RowsStay
<1>3. CASE ReapPush(w)
  <2> DEFINE x == [wk[w] EXCEPT !.pc = "reap_commit"]
  <2>1. /\ PushAll(wk[w].toRetry) /\ UNCHANGED <<row, delayed, unpushed>>
        /\ wk' = [wk EXCEPT ![w] = x] /\ wk[w].pc = "reap_push"
    BY <1>3 DEF ReapPush
  <2>2. \A k \in Jobs : list'[k] > 0 => list[k] > 0 \/ k \in wk[w].toRetry
    BY <2>1, Pushed
  <2>3. \A k \in Jobs : Asked(k)' => row[k].status # "none"
    BY <1>w, <2>1, <2>2 DEF LoneInv, Asked, WorkerOk
  <2>4. x.pc = "reap_commit" /\ x.toRetry = wk[w].toRetry /\ x.toBury = wk[w].toBury
    BY <1>w DEF Worker
  <2> HIDE DEF x
  <2>5. WorkerOk(x)
    BY <1>w, <2>1, <2>4 DEF WorkerOk, Holding
  <2>6. \A v \in Workers : wk'[v] = x
    BY <2>1, LoneWorker
  <2> QED BY <2>1, <2>3, <2>5, <2>6, RowsStay
\* What is written is what was read: nobody has been there since.
<1>4. CASE ReapCommit(w)
  <2>1. /\ wk[w].pc = "reap_commit" /\ wk' = [wk EXCEPT ![w] = Idle]
        /\ UNCHANGED <<list, delayed, unpushed>>
        /\ row' = [j \in Jobs |->
                     CASE j \in wk[w].toRetry -> [row[j] EXCEPT !.status = "queued"]
                       [] j \in wk[w].toBury  -> [row[j] EXCEPT !.status = "dead"]
                       [] OTHER               -> row[j]]
    BY <1>4 DEF ReapCommit
  <2>2. /\ \A j \in wk[w].toRetry : row[j].status = "running" /\ row[j].attempts < MAX_ATTEMPTS
        /\ \A j \in wk[w].toBury : row[j].status = "running" /\ row[j].attempts >= MAX_ATTEMPTS
    BY <1>w, <2>1 DEF WorkerOk
  <2>3. ASSUME NEW j \in Jobs PROVE RowOk(j)' /\ RowStep(j) /\ (row'[j].status = "none" => row[j].status = "none")
    <3>1. /\ row[j] \in Row /\ RowOk(j) /\ row[j].attempts \in Nat /\ MAX_ATTEMPTS \in Nat
      BY <1>t, QueueConstants DEF LoneInv, Row
    <3>2. CASE j \in wk[w].toRetry
      <4>1. row'[j].status = "queued" /\ row'[j].attempts = row[j].attempts
        <5>1. j \notin wk[w].toBury
          BY <2>2, <3>1, <3>2
        <5>2. row'[j] = CASE j \in wk[w].toRetry -> [row[j] EXCEPT !.status = "queued"]
                          [] j \in wk[w].toBury  -> [row[j] EXCEPT !.status = "dead"]
                          [] OTHER               -> row[j]
          BY <2>1
        <5>3. row'[j] = [row[j] EXCEPT !.status = "queued"]
          BY <3>2, <5>1, <5>2
        <5> QED BY <3>1, <5>3 DEF Row
      <4> QED BY <2>2, <3>1, <3>2, <4>1 DEF RowOk, RowStep
    <3>3. CASE j \notin wk[w].toRetry /\ j \in wk[w].toBury
      <4>1. row'[j].status = "dead" /\ row'[j].attempts = row[j].attempts
        BY <2>1, <3>1, <3>3 DEF Row
      <4>2. row[j].attempts = MAX_ATTEMPTS
        BY <2>2, <3>1, <3>3 DEF RowOk
      <4> QED BY <2>2, <3>1, <3>3, <4>1, <4>2 DEF RowOk, RowStep
    <3>4. CASE j \notin wk[w].toRetry /\ j \notin wk[w].toBury
      <4>1. row'[j] = row[j]
        BY <2>1, <3>4
      <4> QED BY <3>1, <4>1 DEF RowOk, RowStep
    <3> QED BY <3>2, <3>3, <3>4
  <2>4. \A k \in Jobs : Asked(k)' => row'[k].status # "none"
    BY <2>1, <2>3 DEF LoneInv, Asked
  <2>5. \A v \in Workers : wk'[v] = Idle
    BY <2>1, LoneWorker
  <2>6. \A v \in Workers : WorkerOk(wk[v])'
    BY <2>5 DEF WorkerOk, Holding, Idle
  <2> QED BY <2>3, <2>4, <2>6 DEF LoneInv
<1> QED BY <1>1, <1>2, <1>3, <1>4 DEF Housekeeping

\* An instance alone writes the row of a job that it holds.
LEMMA LoneWrites ==
  ASSUME Lone, TypeInv, TypeInv', LoneInv, NEW w \in Workers, NEW x \in Worker, NEW j \in Jobs,
         wk' = [wk EXCEPT ![w] = x], UNCHANGED <<list, delayed, unpushed>>,
         \A k \in Jobs \ {j} : row'[k] = row[k],
         row[j].status # "none", row'[j].status # "none",
         RowOk(j)', RowStep(j), WorkerOk(x)'
  PROVE  LoneInv' /\ \A k \in Jobs : RowStep(k)
<1>1. \A k \in Jobs : RowOk(k)' /\ RowStep(k)
  BY DEF LoneInv, RowOk, RowStep
<1>2. \A k \in Jobs : Asked(k)' => row'[k].status # "none"
  BY DEF LoneInv, Asked
<1>3. \A v \in Workers : wk'[v] = x
  BY LoneWorker
<1>4. \A v \in Workers : WorkerOk(wk[v])'
  BY <1>3 DEF WorkerOk
<1> QED BY <1>1, <1>2, <1>4 DEF LoneInv

LEMMA LoneRuns ==
  ASSUME Lone, TypeInv, TypeInv', LoneInv, NEW w \in Workers, RunOnce(w) \/ LoseWorker(w)
  PROVE  LoneInv' /\ \A k \in Jobs : RowStep(k)
<1>t. /\ row \in [Jobs -> Row] /\ list \in [Jobs -> 0..MAX_COPIES]
      /\ delayed \in [Jobs -> Nat \union {NoEntry}] /\ wk \in [Workers -> SoundWorker]
  BY DEF TypeInv
<1>w. /\ wk[w] \in Worker /\ WorkerOk(wk[w])
      /\ wk[w].pc = "claim" \/ wk[w].pc \in Holding => wk[w].job \in Jobs
  BY <1>t DEF SoundWorker, LoneInv
<1>i. Idle \in Worker /\ WorkerOk(Idle) /\ WorkerOk(Idle)'
  BY IdleSound DEF WorkerOk, Holding, Idle, SoundWorker
<1>n. MAX_ATTEMPTS \in Nat
  BY QueueConstants
\* Steps that write no row, and put in no envelope but of the job in hand.
<1>q. ASSUME NEW x, UNCHANGED row, wk' = [wk EXCEPT ![w] = x], WorkerOk(x),
             \A k \in Jobs : Asked(k)' => row[k].status # "none"
      PROVE  LoneInv' /\ \A k \in Jobs : RowStep(k)
  <2>1. \A v \in Workers : wk'[v] = x
    BY <1>q, LoneWorker
  <2> QED BY <1>q, <2>1, RowsStay
<1>e. UNCHANGED <<list, delayed, unpushed>> => \A k \in Jobs : Asked(k)' => row[k].status # "none"
  BY DEF LoneInv, Asked
<1>1. ASSUME NEW j \in Jobs, Dequeue(w, j) PROVE LoneInv' /\ \A k \in Jobs : RowStep(k)
  <2> DEFINE x == [wk[w] EXCEPT !.pc = "claim", !.job = j]
  <2>1. /\ list[j] > 0 /\ list' = [list EXCEPT ![j] = @ - 1] /\ wk' = [wk EXCEPT ![w] = x]
        /\ UNCHANGED <<row, delayed, unpushed>>
    BY <1>1 DEF Dequeue
  <2>2. x.pc = "claim" /\ x.job = j
    BY <1>w DEF Worker
  <2> HIDE DEF x
  <2>3. row[j].status # "none"
    BY <2>1 DEF LoneInv, Asked
  <2>4. WorkerOk(x)
    BY <2>2, <2>3 DEF WorkerOk, Holding
  <2>5. \A k \in Jobs : list'[k] > 0 => list[k] > 0
    BY <1>t, <2>1
  <2>6. \A k \in Jobs : Asked(k)' => row[k].status # "none"
    BY <2>1, <2>5 DEF LoneInv, Asked
  <2> QED BY <1>q, <2>1, <2>4, <2>6
<1>2. CASE BuryUnknown(w)
  <2>0. PICK j \in Jobs : j = wk[w].job
    BY <1>2, <1>w DEF BuryUnknown
  <2>1. /\ wk[w].pc = "claim" /\ j \in Unknown /\ row' = [row EXCEPT ![j].status = "dead"]
        /\ wk' = [wk EXCEPT ![w] = Idle] /\ UNCHANGED <<list, delayed, unpushed>>
    BY <1>2, <2>0 DEF BuryUnknown
  <2>2. /\ row'[j].status = "dead" /\ row'[j].attempts = row[j].attempts
        /\ \A k \in Jobs \ {j} : row'[k] = row[k]
    BY <1>t, <2>1 DEF Row
  <2>3. row[j].status # "none" /\ RowOk(j)
    BY <1>w, <2>0, <2>1 DEF WorkerOk, LoneInv
  <2>4. RowOk(j)' /\ RowStep(j)
    BY <2>1, <2>2, <2>3 DEF RowOk, RowStep
  <2>5. row'[j].status # "none"
    BY <2>2
  <2> QED BY <1>i, <2>1, <2>2, <2>3, <2>4, <2>5, LoneWrites
<1>3. CASE Claim(w)
  <2>0. PICK j \in Jobs : j = wk[w].job
    BY <1>3, <1>w DEF Claim
  <2> DEFINE x == [wk[w] EXCEPT !.pc = "run", !.attempt = row[j].attempts + 1]
  <2>1. /\ wk[w].pc = "claim" /\ j \notin Unknown /\ row[j].status = "queued"
        /\ row' = [row EXCEPT ![j].status = "running", ![j].attempts = @ + 1,
                              ![j].staleIn = STALE_RUNNING]
        /\ wk' = [wk EXCEPT ![w] = x] /\ UNCHANGED <<list, delayed, unpushed>>
    BY <1>3, <2>0 DEF Claim, Claimable
  <2>2. /\ row'[j].status = "running" /\ row'[j].attempts = row[j].attempts + 1
        /\ \A k \in Jobs \ {j} : row'[k] = row[k]
    BY <1>t, <2>1 DEF Row
  <2>3. row[j].attempts < MAX_ATTEMPTS /\ row[j].attempts \in Nat
    BY <1>t, <2>1 DEF LoneInv, RowOk, Row
  <2>4. RowOk(j)' /\ RowStep(j)
    BY <1>n, <2>1, <2>2, <2>3 DEF RowOk, RowStep
  <2>5. PICK a \in Nat : a = row[j].attempts + 1
    BY <2>3
  <2>6. PICK y \in Worker : /\ wk' = [wk EXCEPT ![w] = y]
                            /\ y.pc = "run" /\ y.job = j /\ y.attempt = a
    <3> DEFINE z == [wk[w] EXCEPT !.pc = "run", !.attempt = a]
    <3>1. wk' = [wk EXCEPT ![w] = z]
      BY <2>1, <2>5
    <3>2. z.pc = "run" /\ z.attempt = a /\ z.job = j
      BY <1>w, <2>0 DEF Worker
    <3>3. z \in Worker
      BY <1>w DEF Worker, PC
    <3> QED BY <3>1, <3>2, <3>3
  <2> HIDE DEF x
  <2>7. WorkerOk(y)'
    BY <2>1, <2>2, <2>5, <2>6 DEF WorkerOk, Holding
  <2>8. row'[j].status # "none" /\ row[j].status # "none"
    BY <2>1, <2>2
  <2>9. UNCHANGED <<list, delayed, unpushed>>
    BY <2>1
  <2> QED BY <2>2, <2>4, <2>6, <2>7, <2>8, <2>9, LoneWrites
<1>4. CASE Skip(w) \/ LoseWorker(w)
  BY <1>4, <1>i, <1>e, <1>q DEF Skip, LoseWorker
<1>5. CASE HandlerReturns(w)
  <2> DEFINE x == [wk[w] EXCEPT !.pc = "done"]
  <2>1. /\ wk[w].pc = "run" /\ wk' = [wk EXCEPT ![w] = x]
        /\ UNCHANGED <<row, list, delayed, unpushed>>
    BY <1>5 DEF HandlerReturns
  <2>2. x.pc = "done" /\ x.job = wk[w].job /\ x.attempt = wk[w].attempt
    BY <1>w DEF Worker
  <2> HIDE DEF x
  <2>3. WorkerOk(x)
    BY <1>w, <2>1, <2>2 DEF WorkerOk, Holding
  <2> QED BY <1>e, <1>q, <2>1, <2>3
<1>6. CASE RetryLater(w)
  <2>0. PICK j \in Jobs : j = wk[w].job
    BY <1>6, <1>w DEF RetryLater, Holding
  <2> DEFINE d == BACKOFF[wk[w].attempt]
             x == [wk[w] EXCEPT !.pc = "retry", !.wait = d]
  <2>1. /\ wk[w].pc = "run" /\ wk[w].attempt < MAX_ATTEMPTS /\ wk' = [wk EXCEPT ![w] = x]
        /\ UNCHANGED <<row, unpushed>>
        /\ Push(j, d) \/ UNCHANGED <<list, delayed>>
    BY <1>6, <2>0 DEF RetryLater
  <2>2. x.pc = "retry" /\ x.job = wk[w].job /\ x.attempt = wk[w].attempt
    BY <1>w DEF Worker
  <2> HIDE DEF x
  <2>3. WorkerOk(x) /\ row[j].status = "running"
    BY <1>w, <2>0, <2>1, <2>2 DEF WorkerOk, Holding
  <2> HIDE DEF d
  <2>4. \A k \in Jobs : list'[k] > 0 \/ delayed'[k] # NoEntry => Asked(k) \/ k = j
    <3>1. CASE UNCHANGED <<list, delayed>>
      BY <3>1 DEF Asked
    <3>2. CASE Push(j, d) /\ d > 0
      BY <1>t, <3>2 DEF Push, Asked
    <3>3. CASE Push(j, d) /\ ~(d > 0)
      <4>1. Lpush({j}) /\ UNCHANGED delayed
        BY <3>3 DEF Push
      <4>2. \A k \in Jobs : list'[k] > 0 => list[k] > 0 \/ k \in {j}
        BY <4>1, Pushed
      <4> QED BY <4>1, <4>2 DEF Asked
    <3> QED BY <2>1, <3>1, <3>2, <3>3
  <2>5. \A k \in Jobs : Asked(k)' => row[k].status # "none"
    BY <2>1, <2>3, <2>4 DEF LoneInv, Asked
  <2> QED BY <1>q, <2>1, <2>3, <2>5
<1>7. CASE HandlerExhausted(w)
  <2> DEFINE x == [wk[w] EXCEPT !.pc = "dead"]
  <2>1. /\ wk[w].pc = "run" /\ wk[w].attempt >= MAX_ATTEMPTS /\ wk' = [wk EXCEPT ![w] = x]
        /\ UNCHANGED <<row, list, delayed, unpushed>>
    BY <1>7 DEF HandlerExhausted
  <2>2. x.pc = "dead" /\ x.job = wk[w].job /\ x.attempt = wk[w].attempt
    BY <1>w DEF Worker
  <2> HIDE DEF x
  <2>3. WorkerOk(x)
    BY <1>w, <2>1, <2>2 DEF WorkerOk, Holding
  <2> QED BY <1>e, <1>q, <2>1, <2>3
<1>8. CASE Finish(w)
  <2>0. PICK j \in Jobs : j = wk[w].job
    BY <1>8, <1>w DEF Finish, Holding
  <2>1. /\ wk[w].pc \in {"done", "retry", "dead"} /\ wk' = [wk EXCEPT ![w] = Idle]
        /\ UNCHANGED <<list, delayed, unpushed>>
    BY <1>8 DEF Finish
  <2>2. /\ row[j].status = "running" /\ row[j].attempts = wk[w].attempt /\ j \notin Unknown
        /\ wk[w].pc = "retry" => wk[w].attempt < MAX_ATTEMPTS
        /\ wk[w].pc = "dead" => wk[w].attempt >= MAX_ATTEMPTS
    BY <1>w, <2>0, <2>1 DEF WorkerOk, Holding
  <2>3. /\ row'[j].attempts = row[j].attempts
        /\ row'[j].status = CASE wk[w].pc = "done" -> "done" [] wk[w].pc = "dead" -> "dead"
                              [] OTHER -> "queued"
        /\ \A k \in Jobs \ {j} : row'[k] = row[k]
    <3>1. CASE wk[w].pc = "done"
      <4>1. row' = [row EXCEPT ![j].status = "done"]
        BY <1>8, <2>0, <3>1 DEF Finish
      <4> QED BY <1>t, <3>1, <4>1 DEF Row
    <3>2. CASE wk[w].pc = "dead"
      <4>1. row' = [row EXCEPT ![j].status = "dead"]
        BY <1>8, <2>0, <3>2 DEF Finish
      <4> QED BY <1>t, <3>2, <4>1 DEF Row
    <3>3. CASE wk[w].pc = "retry"
      <4>1. row' = [row EXCEPT ![j].status = "queued", ![j].dueIn = wk[w].wait]
        BY <1>8, <2>0, <3>3 DEF Finish
      <4> QED BY <1>t, <3>3, <4>1 DEF Row
    <3> QED BY <2>1, <3>1, <3>2, <3>3
  <2>4. row[j].attempts \in Nat /\ row[j].attempts <= MAX_ATTEMPTS
    BY <1>t DEF LoneInv, RowOk, Row
  <2>5. RowOk(j)' /\ RowStep(j)
    BY <1>n, <2>1, <2>2, <2>3, <2>4 DEF RowOk, RowStep
  <2>6. row'[j].status # "none" /\ row[j].status # "none"
    BY <2>1, <2>2, <2>3
  <2>7. \A k \in Jobs \ {j} : row'[k] = row[k]
    BY <2>3
  <2> QED BY <1>i, <2>1, <2>5, <2>6, <2>7, LoneWrites
<1> QED BY <1>1, <1>2, <1>3, <1>4, <1>5, <1>6, <1>7, <1>8 DEF RunOnce

LEMMA LoneTick ==
  ASSUME TypeInv, TypeInv', LoneInv, Tick
  PROVE  LoneInv' /\ \A k \in Jobs : RowStep(k)
<1>t. /\ row \in [Jobs -> Row] /\ delayed \in [Jobs -> Nat \union {NoEntry}]
      /\ wk \in [Workers -> SoundWorker]
  BY DEF TypeInv
<1>1. ASSUME NEW j \in Jobs
      PROVE  row'[j].status = row[j].status /\ row'[j].attempts = row[j].attempts
  BY <1>t DEF Tick, Row
<1>2. \A j \in Jobs : delayed'[j] # NoEntry => delayed[j] # NoEntry
  <2> SUFFICES ASSUME NEW j \in Jobs, delayed[j] = NoEntry PROVE delayed'[j] = NoEntry
    OBVIOUS
  <2>1. delayed'[j] = Minus1(delayed[j])
    BY DEF Tick
  <2> QED BY <2>1 DEF Minus1, NoEntry
<1>3. \A j \in Jobs : Asked(j)' => row[j].status # "none"
  BY <1>2 DEF Tick, LoneInv, Asked
<1>4. ASSUME NEW v \in Workers PROVE WorkerOk(wk'[v])
  <2>1. wk[v] \in Worker /\ WorkerOk(wk[v])
    BY <1>t DEF SoundWorker, LoneInv
  <2>2. /\ wk'[v].pc = wk[v].pc /\ wk'[v].job = wk[v].job /\ wk'[v].attempt = wk[v].attempt
        /\ wk'[v].toRetry = wk[v].toRetry /\ wk'[v].toBury = wk[v].toBury
    BY <2>1 DEF Tick, Worker
  <2> QED BY <2>1, <2>2 DEF WorkerOk
<1> QED BY <1>1, <1>3, <1>4, RowsStay

LEMMA StepLone ==
  ASSUME Lone
  PROVE  TypeInv /\ LoneInv /\ [Next]_vars => LoneInv' /\ \A j \in Jobs : RowStep(j)
<1> SUFFICES ASSUME TypeInv, LoneInv, [Next]_vars PROVE LoneInv' /\ \A j \in Jobs : RowStep(j)
  OBVIOUS
<1>1. TypeInv'
  BY StepTypeInv
<1>2. CASE UNCHANGED vars
  <2>1. \A j \in Jobs : RowStep(j)
    BY <1>2 DEF vars, RowStep
  <2>2. LoneInv'
    BY <1>2 DEF vars, LoneInv, RowOk, Asked, WorkerOk
  <2> QED BY <2>1, <2>2
<1>3. CASE Next
  BY <1>1, <1>3, LoneQueue, LoneHousekeeping, LoneRuns, LoneTick DEF Next
<1> QED BY <1>2, <1>3

\* One instance, however often it is lost, however many pushes are and whenever it reaps, makes
\* of every job what JobLifecycle says step by step: attempts one at a time and MAX_ATTEMPTS of
\* them, an end that stands, and no job refused but the one nobody serves (worker.py, client.py).
\* That each job does end needs fairness, and is checked.
THEOREM OneInstanceKeepsLifecycle == ASSUME Lone PROVE Spec => KeepsLifecycle
<1>1. Init => Lifecycle!LInit
  <2> SUFFICES ASSUME Init PROVE Lifecycle!LInit
    OBVIOUS
  <2>1. \A j \in Jobs : row[j].status = "none" /\ row[j].attempts = 0
    BY DEF Init, NoRow
  <2> QED BY <2>1 DEF Lifecycle!LInit
<1>2. TypeInv /\ LoneInv /\ [Next]_vars => LoneInv' /\ [Lifecycle!LNext]_(Lifecycle!lvars)
  BY StepLone, RowStepIsLifecycle
<1> QED BY <1>1, <1>2, InitTypeInv, StepTypeInv, InitLone, PTL
  DEF Spec, KeepsLifecycle, Lifecycle!LSpec
=============================================================================
