---------------------------- MODULE CreativeBilling ----------------------------
(***************************************************************************)
(* Making a creative and paying for it: pipeline.generate, the credit      *)
(* ledger of billing/credits.py, reap_stuck_creatives, and the turns that  *)
(* call them, for one account and its brand.                               *)
(*                                                                         *)
(* generate charges first and builds afterwards, in five transactions and  *)
(* minutes of vendor calls; this module makes each transaction a step, so  *)
(* that a second worker, the reaper, a crash or a refused commit can come  *)
(* between any two of them.                                                *)
(*                                                                         *)
(* Abstractions.                                                           *)
(*  - A request is one inbound message; its job is run as JobLifecycle     *)
(*    says: again STALE_RUNNING after it was claimed, if nobody has        *)
(*    finished it by then.  Every attempt calls generate once, under a     *)
(*    group id of its own: group <<r, n>> is the one attempt n of r makes. *)
(*  - A call to the vendor, the checks and the rendering are a slide that  *)
(*    comes out good or bad.  Sending the pictures changes nothing here.   *)
(*  - cost_of("generate_creative") is 1, so an amount is a number of       *)
(*    slides.  A ledger entry of 0 is an entry that is not there: no       *)
(*    branch of charge or refund writes a row with a delta of 0.           *)
(*  - Both account-locking operations hold the lock to the commit, so each *)
(*    is one step.  Reading the creatives is a step of its own.            *)
(*  - fresh counts down from STUCK_AFTER, stale from STALE_RUNNING;        *)
(*    MAX_RUN bounds a turn, MAX_FAULTS the losses, and FAULTS_AT says     *)
(*    where a worker may be lost.                                          *)
(***************************************************************************)
EXTENDS Integers, FiniteSets

CONSTANTS Workers, Requests, NoRequest,
          Slides,        \* the positions of a creative, 1..n
          Payments,      \* Razorpay payments of PACK credits
          START,         \* free_trial_credits
          PACK,
          MAX_ATTEMPTS, STALE_RUNNING, STUCK_AFTER,
          MAX_RUN, MAX_FAULTS,
          FAULTS_AT      \* the program points a fault may strike

Steps == {"gate", "layout", "charge", "build", "mark", "answer", "reap"}

PC == Steps \union {"idle"}

ASSUME BillingConstants ==
  /\ IsFiniteSet(Requests) /\ NoRequest \notin Requests
  /\ IsFiniteSet(Slides) /\ Slides \subseteq Nat \ {0}
  /\ START \in Nat
  /\ PACK \in Nat \ {0}
  /\ MAX_ATTEMPTS \in Nat \ {0}
  /\ STALE_RUNNING \in Nat
  /\ STUCK_AFTER \in Nat
  /\ MAX_RUN \in Nat
  /\ MAX_FAULTS \in Nat
  /\ FAULTS_AT \subseteq Steps

Groups == Requests \X (1..MAX_ATTEMPTS)

\* Idempotency keys: a reason, what it is about, the slide of a stuck one.
ChargeKey(g) == <<"generate_creative", g, 0>>
FailedKey(g) == <<"creative_failed", g, 0>>
PartialKey(g) == <<"partial_carousel", g, 0>>
StuckKey(g, s) == <<"stuck_creative", g, s>>
TopupKey(p) == <<"topup", p, 0>>

Keys == {ChargeKey(g) : g \in Groups} \union {FailedKey(g) : g \in Groups}
        \union {PartialKey(g) : g \in Groups}
        \union {StuckKey(c[1], c[2]) : c \in Groups \X Slides}
        \union {TopupKey(p) : p \in Payments}

VARIABLES balance,   \* accounts.credits_balance
          ledger,    \* credit_ledger: the delta under each key, 0 if there is none
          status,    \* creatives.status of each slide of a group
          billed,    \* the slides of a group whose row says billed
          fresh,     \* how much longer a group counts as younger than STUCK_AFTER
          req,       \* the job of each request
          wk,        \* what each worker is doing
          faults

vars == <<balance, ledger, status, billed, fresh, req, wk, faults>>

SlideStatus == {"none", "generating", "ready", "failed"}

Request == [state : {"open", "running", "done", "dead"}, tries : 0..MAX_ATTEMPTS, stale : Nat]

\* todo: at "build" the slides not finished yet, at "mark" the bad ones not yet
\* marked failed.  seen: the rows reap_stuck_creatives has read.
Worker == [pc : PC, req : Requests \union {NoRequest}, attempt : 0..MAX_ATTEMPTS,
           todo : SUBSET Slides, bad : SUBSET Slides, ran : Nat,
           seen : SUBSET (Groups \X Slides)]

Idle == [pc |-> "idle", req |-> NoRequest, attempt |-> 0, todo |-> {}, bad |-> {},
         ran |-> 0, seen |-> {}]

TypeOK ==
  /\ balance \in Int
  /\ ledger \in [Keys -> Int]
  /\ status \in [Groups -> [Slides -> SlideStatus]]
  /\ billed \in [Groups -> SUBSET Slides]
  /\ fresh \in [Groups -> Nat]
  /\ req \in [Requests -> Request]
  /\ wk \in [Workers -> Worker]
  /\ faults \in 0..MAX_FAULTS

Init ==
  /\ balance = START
  /\ ledger = [k \in Keys |-> 0]
  /\ status = [g \in Groups |-> [s \in Slides |-> "none"]]
  /\ billed = [g \in Groups |-> {}]
  /\ fresh = [g \in Groups |-> 0]
  /\ req = [r \in Requests |-> [state |-> "open", tries |-> 0, stale |-> 0]]
  /\ wk = [w \in Workers |-> Idle]
  /\ faults = 0

-----------------------------------------------------------------------------
(* billing/credits.py *)

Entered(k) == ledger[k] # 0

\* refund, and topup, which is refund under another name.
Refund(k, amount) ==
  IF Entered(k) THEN UNCHANGED <<balance, ledger>>
  ELSE /\ balance' = balance + amount
       /\ ledger' = [ledger EXCEPT ![k] = amount]

\* Mutant: spends what is not there.
Charge_Overdraws(k, amount) ==
  IF amount = 0 \/ Entered(k) THEN UNCHANGED <<balance, ledger>>
  ELSE /\ balance' = balance - amount
       /\ ledger' = [ledger EXCEPT ![k] = -amount]

\* charge, when it does not raise.  Nothing is entered for a free creative.
Charge(k, amount) ==
  IF amount = 0 \/ Entered(k) THEN UNCHANGED <<balance, ledger>>
  ELSE /\ balance >= amount
       /\ balance' = balance - amount
       /\ ledger' = [ledger EXCEPT ![k] = -amount]

\* charge, when it raises InsufficientCredits.
CannotPay(k, amount) == amount > 0 /\ ~Entered(k) /\ balance < amount

\* The webhook of payment p, however often it comes.
Topup(p) ==
  /\ Refund(TopupKey(p), PACK)
  /\ UNCHANGED <<status, billed, fresh, req, wk, faults>>

-----------------------------------------------------------------------------
(* The turn around generate *)

InFlight == {c \in Groups \X Slides : status[c[1]][c[2]] = "generating" /\ fresh[c[1]] > 0}

Group(w) == <<wk[w].req, wk[w].attempt>>

Goto(w, pc) == wk' = [wk EXCEPT ![w].pc = pc]

\* Mutant: a job that was running when its worker died is never taken up again.
BeginTurn_OpenOnly(w, r) ==
  /\ wk[w].pc = "idle"
  /\ req[r].state = "open" /\ req[r].tries < MAX_ATTEMPTS
  /\ req' = [req EXCEPT ![r] = [state |-> "running", tries |-> @.tries + 1,
                                stale |-> STALE_RUNNING]]
  /\ wk' = [wk EXCEPT ![w] = [Idle EXCEPT !.pc = "gate", !.req = r,
                                          !.attempt = req[r].tries + 1]]
  /\ UNCHANGED <<balance, ledger, status, billed, fresh, faults>>

\* An instance claims the job of r, for the first time or because it has been
\* running for STALE_RUNNING and attempts are left.
BeginTurn(w, r) ==
  /\ wk[w].pc = "idle"
  /\ req[r].state \in {"open", "running"} /\ req[r].stale = 0
  /\ req[r].tries < MAX_ATTEMPTS
  /\ req' = [req EXCEPT ![r] = [state |-> "running", tries |-> @.tries + 1,
                                stale |-> STALE_RUNNING]]
  /\ wk' = [wk EXCEPT ![w] = [Idle EXCEPT !.pc = "gate", !.req = r,
                                          !.attempt = req[r].tries + 1]]
  /\ UNCHANGED <<balance, ledger, status, billed, fresh, faults>>

\* reap buries a job whose worker was lost in its last attempt.
GiveUp(r) ==
  /\ req[r].state = "running" /\ req[r].stale = 0 /\ req[r].tries = MAX_ATTEMPTS
  /\ req' = [req EXCEPT ![r].state = "dead"]
  /\ UNCHANGED <<balance, ledger, status, billed, fresh, wk, faults>>

\* in_flight_gate, asked twice: "layout" stands for the seconds in between.
Gate(w) ==
  /\ wk[w].pc \in {"gate", "layout"}
  /\ Goto(w, CASE InFlight # {}          -> "answer"
               [] wk[w].pc = "gate"      -> "layout"
               [] OTHER                  -> "charge")
  /\ UNCHANGED <<balance, ledger, status, billed, fresh, req, faults>>

\* The brand rules, the claim rules or the layout turn the brief down, or the
\* model never calls the tool.
TurnDown(w) ==
  /\ wk[w].pc = "layout"
  /\ Goto(w, "answer")
  /\ UNCHANGED <<balance, ledger, status, billed, fresh, req, faults>>

\* The rows and the charge, in one transaction; the slides in free have a
\* photo of the owner's or keep their picture.
PayAndStart(w) == LET g == Group(w) IN
  /\ wk[w].pc = "charge"
  /\ \E free \in SUBSET Slides : LET n == Cardinality(Slides \ free)
                                     k == ChargeKey(g) IN
       /\ billed' = [billed EXCEPT ![g] = Slides \ free]
       /\ fresh' = [fresh EXCEPT ![g] = STUCK_AFTER]
       /\ \/ /\ Charge(k, n)
             /\ status' = [status EXCEPT ![g] = [s \in Slides |-> "generating"]]
             /\ wk' = [wk EXCEPT ![w].pc = "build", ![w].todo = Slides]
          \/ /\ CannotPay(k, n)
             /\ status' = [status EXCEPT ![g] = [s \in Slides |-> "failed"]]
             /\ Goto(w, "answer")
             /\ UNCHANGED <<balance, ledger>>
  /\ UNCHANGED <<req, faults>>

\* _build_one stores a finished slide, whatever its row holds now ...
SlideReady(w, s) ==
  /\ wk[w].pc = "build" /\ s \in wk[w].todo
  /\ status' = [status EXCEPT ![Group(w)][s] = "ready"]
  /\ wk' = [wk EXCEPT ![w].todo = @ \ {s}]
  /\ UNCHANGED <<balance, ledger, billed, fresh, req, faults>>

\* ... or raises: gather keeps the exception until the others have finished.
SlideBad(w, s) ==
  /\ wk[w].pc = "build" /\ s \in wk[w].todo
  /\ wk' = [wk EXCEPT ![w].todo = @ \ {s}, ![w].bad = @ \union {s}]
  /\ UNCHANGED <<balance, ledger, status, billed, fresh, req, faults>>

Gathered(w) ==
  /\ wk[w].pc = "build" /\ wk[w].todo = {}
  /\ wk' = [wk EXCEPT ![w].pc = "mark", ![w].todo = wk[w].bad]
  /\ UNCHANGED <<balance, ledger, status, billed, fresh, req, faults>>

\* _mark_failed, a transaction for each bad slide, in their order.
MarkFailed(w) ==
  /\ wk[w].pc = "mark"
  /\ \E s \in wk[w].todo :
       /\ \A t \in wk[w].todo : s <= t
       /\ status' = [status EXCEPT ![Group(w)][s] = "failed"]
       /\ wk' = [wk EXCEPT ![w].todo = @ \ {s}]
  /\ UNCHANGED <<balance, ledger, billed, fresh, req, faults>>

\* Mutant: refunds the free slides too.
GiveBack_AllBad(w) ==
  LET key == IF wk[w].bad = Slides THEN FailedKey(Group(w)) ELSE PartialKey(Group(w))
      units == Cardinality(wk[w].bad)
  IN
  /\ wk[w].pc = "mark" /\ wk[w].todo = {}
  /\ IF units = 0 THEN UNCHANGED <<balance, ledger>>
                  ELSE Refund(key, units)
  /\ Goto(w, "answer")
  /\ UNCHANGED <<status, billed, fresh, req, faults>>

\* _refund: everything paid if no slide came out, else the bad ones paid for.
GiveBack(w) ==
  LET g == Group(w)
      bad == wk[w].bad
      key == IF bad = Slides THEN FailedKey(g) ELSE PartialKey(g)
      units == Cardinality(IF bad = Slides THEN billed[g] ELSE bad \intersect billed[g])
  IN
  /\ wk[w].pc = "mark" /\ wk[w].todo = {}
  /\ IF units = 0 THEN UNCHANGED <<balance, ledger>>
                  ELSE Refund(key, units)
  /\ Goto(w, "answer")
  /\ UNCHANGED <<status, billed, fresh, req, faults>>

\* The owner gets a reply, the message is marked answered and the job done.
Answer(w) ==
  /\ wk[w].pc = "answer"
  /\ req' = [req EXCEPT ![wk[w].req].state = "done"]
  /\ wk' = [wk EXCEPT ![w] = Idle]
  /\ UNCHANGED <<balance, ledger, status, billed, fresh, faults>>

-----------------------------------------------------------------------------
(* reap_stuck_creatives *)

\* Mutant: takes what a live worker is still making for stuck.
Stuck_AnyAge == {c \in Groups \X Slides : status[c[1]][c[2]] = "generating"}

Stuck == {c \in Groups \X Slides : status[c[1]][c[2]] = "generating" /\ fresh[c[1]] = 0}

ReapRead(w) ==
  /\ wk[w].pc = "idle"
  /\ Stuck # {}
  /\ wk' = [wk EXCEPT ![w].pc = "reap", ![w].seen = Stuck]
  /\ UNCHANGED <<balance, ledger, status, billed, fresh, req, faults>>

\* Mutant: does not look at billed.
ReapCommit_Unbilled(w) ==
  LET due == {c \in wk[w].seen : ~Entered(StuckKey(c[1], c[2]))} IN
  /\ wk[w].pc = "reap"
  /\ status' = [g \in Groups |-> [s \in Slides |->
                  IF <<g, s>> \in wk[w].seen THEN "failed" ELSE status[g][s]]]
  /\ balance' = balance + Cardinality(due)
  /\ ledger' = [k \in Keys |-> IF \E c \in due : k = StuckKey(c[1], c[2])
                               THEN 1 ELSE ledger[k]]
  /\ wk' = [wk EXCEPT ![w] = Idle]
  /\ UNCHANGED <<billed, fresh, req, faults>>

\* The rows it read are failed and the billed ones refunded, each under its
\* own key, in one transaction.
ReapCommit(w) ==
  LET due == {c \in wk[w].seen : c[2] \in billed[c[1]]
                                 /\ ~Entered(StuckKey(c[1], c[2]))} IN
  /\ wk[w].pc = "reap"
  /\ status' = [g \in Groups |-> [s \in Slides |->
                  IF <<g, s>> \in wk[w].seen THEN "failed" ELSE status[g][s]]]
  /\ balance' = balance + Cardinality(due)
  /\ ledger' = [k \in Keys |-> IF \E c \in due : k = StuckKey(c[1], c[2])
                               THEN 1 ELSE ledger[k]]
  /\ wk' = [wk EXCEPT ![w] = Idle]
  /\ UNCHANGED <<billed, fresh, req, faults>>

-----------------------------------------------------------------------------
(* The environment *)

Fault(w) == wk[w].pc \in FAULTS_AT /\ faults < MAX_FAULTS /\ faults' = faults + 1

\* The instance dies; its job stays "running" until it is stale.
Crash(w) ==
  /\ Fault(w)
  /\ wk' = [wk EXCEPT ![w] = Idle]
  /\ UNCHANGED <<balance, ledger, status, billed, fresh, req>>

\* A transaction of generate is refused: dispatch turns the exception into a
\* result for the model and the turn goes on to its answer.
ToolError(w) ==
  /\ wk[w].pc \in {"gate", "layout", "charge", "mark"}
  /\ Fault(w)
  /\ Goto(w, "answer")
  /\ UNCHANGED <<balance, ledger, status, billed, fresh, req>>

Minus1(n) == IF n > 0 THEN n - 1 ELSE n

Tick ==
  /\ \A w \in Workers : wk[w].req # NoRequest => wk[w].ran < MAX_RUN
  /\ fresh' = [g \in Groups |-> Minus1(fresh[g])]
  /\ req' = [r \in Requests |->
               [req[r] EXCEPT !.stale = IF req[r].state = "running" THEN Minus1(@) ELSE @]]
  /\ wk' = [w \in Workers |-> [wk[w] EXCEPT !.ran = IF wk[w].req # NoRequest
                                                    THEN @ + 1 ELSE @]]
  /\ UNCHANGED <<balance, ledger, status, billed, faults>>

-----------------------------------------------------------------------------
Generate(w) ==
  \/ Gate(w) \/ TurnDown(w) \/ PayAndStart(w)
  \/ \E s \in Slides : SlideReady(w, s) \/ SlideBad(w, s)
  \/ Gathered(w) \/ MarkFailed(w) \/ GiveBack(w)

Works(w) == Generate(w) \/ Answer(w) \/ ReapCommit(w)

Next ==
  \/ \E w \in Workers, r \in Requests : BeginTurn(w, r)
  \/ \E r \in Requests : GiveUp(r)
  \/ \E w \in Workers : Works(w) \/ ReapRead(w) \/ Crash(w) \/ ToolError(w)
  \/ \E p \in Payments : Topup(p)
  \/ Tick

Spec == Init /\ [][Next]_vars

\* A worker goes on with what it has begun; the loop comes round to the queue
\* and, every REAP_EVERY, to the reapers; time passes.
Fairness ==
  /\ WF_vars(Tick)
  /\ \A w \in Workers : WF_vars(Works(w))
  /\ \A r \in Requests : SF_vars(\E w \in Workers : BeginTurn(w, r)) /\ WF_vars(GiveUp(r))
  /\ SF_vars(\E w \in Workers : ReapRead(w))

FairSpec == Spec /\ Fairness
-----------------------------------------------------------------------------
(* Properties *)

\* No turn outlives STUCK_AFTER: test_timing_windows.py holds the code to this.
Timely == MAX_RUN < STUCK_AFTER

StuckRefunds(g) == {s \in Slides : Entered(StuckKey(g, s))}

\* What the owner has paid for a group, refunds deducted.
Paid(g) == -ledger[ChargeKey(g)] - ledger[FailedKey(g)] - ledger[PartialKey(g)]
           - Cardinality(StuckRefunds(g))

Building(w) == wk[w].pc \in {"build", "mark"}

AtRest(g) ==
  /\ \A s \in Slides : status[g][s] # "generating"
  /\ \A w \in Workers : Building(w) => Group(w) # g

\* No creative gives back more than was charged for it, though its slides may be
\* refunded by generate and by the reaper, each under keys the other never reads.
RefundsWithinCharge == Timely => \A g \in Groups : Paid(g) >= 0

\* README: "a partial failure refunds only the slides that did not ship".  Once
\* nobody works on a creative the owner has paid for exactly the slides that are
\* ready and were not free.
PaidForWhatShipped ==
  Timely => \A g \in Groups :
              AtRest(g) => Paid(g) = Cardinality({s \in billed[g] : status[g][s] = "ready"})

\* A slide that is ready stays ready and one that failed stays failed: neither a
\* worker nor a reaper acting on what it read earlier rewrites an outcome, so
\* that nobody is refunded for a picture they then get.
OutcomeStands ==
  [][Timely => \A g \in Groups, s \in Slides :
       status[g][s] \in {"ready", "failed"} => status'[g][s] = status[g][s]]_vars

\* Whatever is lost on the way, every request is answered or given up and no
\* slide stays in flight.
AllSettled ==
  /\ \A r \in Requests : req[r].state \in {"done", "dead"}
  /\ \A g \in Groups, s \in Slides : status[g][s] # "generating"

EventuallyAllSettled == <>[]AllSettled

\* The comment at the second in_flight_gate: "here the loser still walks away
\* before a credit moves".  A brand has one creative being made at a time.
OneCreativeAtATime ==
  \A v, w \in Workers : Building(v) /\ Building(w) => v = w

\* credits.py: "Every charge carries an idempotency key -- the creative id --
\* because job retries are normal".  The attempts at one request are paid once.
PaidOncePerRequest ==
  \A r \in Requests :
    Cardinality({n \in 1..MAX_ATTEMPTS : AtRest(<<r, n>>) /\ Paid(<<r, n>>) > 0}) <= 1

\* repo.py: IN_FLIGHT are "the statuses that mean "a worker is making this right
\* now"".  When the gate has the owner told that their picture is being made, a
\* worker is making one.
Busy(w) == Gate(w) /\ InFlight # {}

BusyMeansBeingMade ==
  [][\A w \in Workers : Busy(w) => \E v \in Workers : Building(v)]_vars

\* The ledger keeps the promise of CreditAccount: no credit is made or lost.
Account == INSTANCE CreditAccount WITH
             Creatives <- Groups,
             kept <- [g \in Groups |-> Paid(g)],
             bought <- {g \in Groups : Entered(ChargeKey(g))},
             received <- {p \in Payments : Entered(TopupKey(p))}

ImplementsAccount == Account!ASpec
=============================================================================
