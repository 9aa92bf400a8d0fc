------------------------- MODULE CreativeBillingProofs -------------------------
(***************************************************************************)
(* Theorems about CreativeBilling, for every value of its constants.       *)
(***************************************************************************)
EXTENDS CreativeBilling, FiniteSetTheorems, WellFoundedInduction, TLAPS

-----------------------------------------------------------------------------
(* Types *)

\* The key operators make keys of the ledger.
LEMMA KeysOfGroups ==
  ASSUME NEW g \in Groups
  PROVE  /\ ChargeKey(g) \in Keys /\ FailedKey(g) \in Keys /\ PartialKey(g) \in Keys
         /\ \A s \in Slides : StuckKey(g, s) \in Keys
<1>1. \A s \in Slides : StuckKey(g, s) \in Keys
  <2> SUFFICES ASSUME NEW s \in Slides PROVE StuckKey(g, s) \in Keys
    OBVIOUS
  <2> DEFINE c == <<g, s>>
  <2>1. c \in Groups \X Slides /\ c[1] = g /\ c[2] = s
    OBVIOUS
  <2> QED BY <2>1 DEF Keys
<1> QED BY <1>1 DEF Keys

\* A payment's key is a key of the ledger.
LEMMA KeysOfPayments == ASSUME NEW p \in Payments PROVE TopupKey(p) \in Keys
  BY DEF Keys

\* Different things have different keys.
LEMMA KeysDiffer ==
  ASSUME NEW g, NEW h, NEW s, NEW t, NEW p
  PROVE  /\ ChargeKey(g) # FailedKey(h) /\ ChargeKey(g) # PartialKey(h)
         /\ FailedKey(g) # PartialKey(h)
         /\ StuckKey(g, s) # ChargeKey(h) /\ StuckKey(g, s) # FailedKey(h)
         /\ StuckKey(g, s) # PartialKey(h)
         /\ TopupKey(p) # ChargeKey(g) /\ TopupKey(p) # FailedKey(g)
         /\ TopupKey(p) # PartialKey(g) /\ TopupKey(p) # StuckKey(g, s)
         /\ (ChargeKey(g) = ChargeKey(h)) => g = h
         /\ (FailedKey(g) = FailedKey(h)) => g = h
         /\ (PartialKey(g) = PartialKey(h)) => g = h
         /\ (StuckKey(g, s) = StuckKey(h, t)) => g = h /\ s = t
  BY DEF ChargeKey, FailedKey, PartialKey, StuckKey, TopupKey

\* Slides are few, so counting them gives a number.
LEMMA CountSlides ==
  ASSUME NEW S \in SUBSET Slides PROVE IsFiniteSet(S) /\ Cardinality(S) \in Nat
<1>1. IsFiniteSet(Slides)
  BY BillingConstants
<1> QED BY <1>1, FS_Subset, FS_CardinalityType

\* What a worker holds between its claim and its answer: a request of the table,
\* an attempt that has been counted, and a clock that has not run out.
Turn(w) ==
  /\ (wk[w].req = NoRequest) <=> wk[w].pc \in {"idle", "reap"}
  /\ wk[w].req # NoRequest => wk[w].attempt \in 1..req[wk[w].req].tries
  /\ wk[w].ran <= MAX_RUN

TypeInv == TypeOK /\ \A w \in Workers : Turn(w)

\* A step of w that leaves its request, attempt and clock alone.
Moves(w, p, T, B, S) ==
  /\ wk' \in [Workers -> Worker]
  /\ \A v \in Workers : v # w => wk'[v] = wk[v]
  /\ wk'[w].pc = p /\ wk'[w].todo = T /\ wk'[w].bad = B /\ wk'[w].seen = S
  /\ wk'[w].req = wk[w].req /\ wk'[w].attempt = wk[w].attempt /\ wk'[w].ran = wk[w].ran

\* The steps that change only the program counter.
LEMMA GotoMoves ==
  ASSUME wk \in [Workers -> Worker], NEW w \in Workers, NEW p \in PC, Goto(w, p)
  PROVE  Moves(w, p, wk[w].todo, wk[w].bad, wk[w].seen)
<1>1. wk[w] \in Worker
  OBVIOUS
<1>2. [wk[w] EXCEPT !.pc = p] \in Worker
  BY <1>1 DEF Worker
<1>3. wk' = [wk EXCEPT ![w] = [wk[w] EXCEPT !.pc = p]]
  BY DEF Goto
<1> QED BY <1>1, <1>2, <1>3 DEF Moves, Worker

\* The records that the longer updates of a worker produce.
LEMMA WorkerSet ==
  ASSUME NEW x \in Worker, NEW p \in PC, NEW T \in SUBSET Slides, NEW B \in SUBSET Slides,
         NEW S \in SUBSET (Groups \X Slides)
  PROVE  /\ [x EXCEPT !.pc = p, !.todo = T] \in Worker
         /\ [x EXCEPT !.todo = T] \in Worker
         /\ [x EXCEPT !.todo = T, !.bad = B] \in Worker
         /\ [x EXCEPT !.pc = p, !.seen = S] \in Worker
  BY DEF Worker

\* The steps inside generate that change what the worker holds.
LEMMA MakerMoves ==
  ASSUME wk \in [Workers -> Worker], NEW w \in Workers, NEW p \in PC,
         NEW T \in SUBSET Slides, NEW B \in SUBSET Slides,
         NEW S \in SUBSET (Groups \X Slides)
  PROVE  /\ wk' = [wk EXCEPT ![w].pc = p, ![w].todo = T]
               => Moves(w, p, T, wk[w].bad, wk[w].seen)
         /\ wk' = [wk EXCEPT ![w].todo = T]
               => Moves(w, wk[w].pc, T, wk[w].bad, wk[w].seen)
         /\ wk' = [wk EXCEPT ![w].todo = T, ![w].bad = B]
               => Moves(w, wk[w].pc, T, B, wk[w].seen)
         /\ wk' = [wk EXCEPT ![w].pc = p, ![w].seen = S]
               => Moves(w, p, wk[w].todo, wk[w].bad, S)
<1>1. wk[w] \in Worker
  OBVIOUS
<1>2. /\ [wk[w] EXCEPT !.pc = p, !.todo = T] \in Worker
      /\ [wk[w] EXCEPT !.todo = T] \in Worker
      /\ [wk[w] EXCEPT !.todo = T, !.bad = B] \in Worker
      /\ [wk[w] EXCEPT !.pc = p, !.seen = S] \in Worker
  BY <1>1, WorkerSet
<1>3. ASSUME wk' = [wk EXCEPT ![w].pc = p, ![w].todo = T]
      PROVE  Moves(w, p, T, wk[w].bad, wk[w].seen)
  <2>1. wk' = [wk EXCEPT ![w] = [wk[w] EXCEPT !.pc = p, !.todo = T]]
    BY <1>3
  <2> QED BY <1>1, <1>2, <2>1 DEF Moves, Worker
<1>4. ASSUME wk' = [wk EXCEPT ![w].todo = T]
      PROVE  Moves(w, wk[w].pc, T, wk[w].bad, wk[w].seen)
  <2>1. wk' = [wk EXCEPT ![w] = [wk[w] EXCEPT !.todo = T]]
    BY <1>4
  <2> QED BY <1>1, <1>2, <2>1 DEF Moves, Worker
<1>5. ASSUME wk' = [wk EXCEPT ![w].todo = T, ![w].bad = B]
      PROVE  Moves(w, wk[w].pc, T, B, wk[w].seen)
  <2>1. wk' = [wk EXCEPT ![w] = [wk[w] EXCEPT !.todo = T, !.bad = B]]
    BY <1>5
  <2> QED BY <1>1, <1>2, <2>1 DEF Moves, Worker
<1>6. ASSUME wk' = [wk EXCEPT ![w].pc = p, ![w].seen = S]
      PROVE  Moves(w, p, wk[w].todo, wk[w].bad, S)
  <2>1. wk' = [wk EXCEPT ![w] = [wk[w] EXCEPT !.pc = p, !.seen = S]]
    BY <1>6
  <2> QED BY <1>1, <1>2, <2>1 DEF Moves, Worker
<1> QED BY <1>3, <1>4, <1>5, <1>6

\* Whoever is neither idle nor reaping works for a group.
LEMMA GroupOfTurn ==
  ASSUME TypeInv, NEW w \in Workers, wk[w].pc \notin {"idle", "reap"}
  PROVE  wk[w].req \in Requests /\ Group(w) \in Groups
<1>1. wk[w] \in Worker /\ req \in [Requests -> Request] /\ Turn(w)
  BY DEF TypeInv, TypeOK
<1>2. wk[w].req \in Requests /\ wk[w].attempt \in 1..req[wk[w].req].tries
  BY <1>1 DEF Turn, Worker
<1>3. req[wk[w].req].tries \in 0..MAX_ATTEMPTS
  BY <1>1, <1>2 DEF Request
<1>4. wk[w].attempt \in 1..MAX_ATTEMPTS
  BY <1>2, <1>3, BillingConstants
<1> QED BY <1>2, <1>4 DEF Group, Groups

\* A step inside a turn, or inside a reaper's visit, keeps the turns in order.
LEMMA MovesTurn ==
  ASSUME TypeInv, NEW w \in Workers, NEW p, NEW T, NEW B, NEW S, Moves(w, p, T, B, S),
         req' = req, (wk[w].req = NoRequest) <=> p \in {"idle", "reap"}
  PROVE  wk' \in [Workers -> Worker] /\ \A v \in Workers : Turn(v)'
<1>1. \A v \in Workers : Turn(v)
  BY DEF TypeInv
<1> QED BY <1>1 DEF Moves, Turn

\* A worker that has finished, or has been lost, leaves the others' turns alone.
LEMMA IdleTurn ==
  ASSUME TypeInv, NEW w \in Workers, wk' = [wk EXCEPT ![w] = Idle],
         \A r \in Requests : req'[r].tries = req[r].tries
  PROVE  wk' \in [Workers -> Worker] /\ \A v \in Workers : Turn(v)'
<1>1. wk \in [Workers -> Worker] /\ \A v \in Workers : Turn(v)
  BY DEF TypeInv, TypeOK
<1>2. Idle \in Worker
  BY BillingConstants DEF Idle, Worker, PC
<1>3. wk' \in [Workers -> Worker]
  BY <1>1, <1>2
<1>4. \A v \in Workers : wk[v].req \in Requests \union {NoRequest}
  BY <1>1 DEF Worker
<1>5. Turn(w)'
  BY <1>1, BillingConstants DEF Idle, Turn
<1>6. ASSUME NEW v \in Workers, v # w PROVE Turn(v)'
  BY <1>1, <1>4, <1>6 DEF Turn
<1> QED BY <1>3, <1>5, <1>6

\* An entry keeps the balance and the ledger well typed.
LEMMA RefundType ==
  ASSUME TypeOK, NEW k \in Keys, NEW n \in Nat, Refund(k, n)
  PROVE  balance' \in Int /\ ledger' \in [Keys -> Int]
<1>1. balance \in Int /\ ledger \in [Keys -> Int]
  BY DEF TypeOK
<1> QED BY <1>1 DEF Refund

\* The same of a charge.
LEMMA ChargeType ==
  ASSUME TypeOK, NEW k \in Keys, NEW n \in Nat, Charge(k, n)
  PROVE  balance' \in Int /\ ledger' \in [Keys -> Int]
<1>1. balance \in Int /\ ledger \in [Keys -> Int]
  BY DEF TypeOK
<1> QED BY <1>1 DEF Charge

\* There are finitely many rows for a reaper to read.
LEMMA RowsFinite ==
  ASSUME NEW S \in SUBSET (Groups \X Slides)
  PROVE  IsFiniteSet(S) /\ Cardinality(S) \in Nat
<1>1. IsFiniteSet(1..MAX_ATTEMPTS)
  BY BillingConstants, FS_Interval
<1>2. IsFiniteSet(Groups)
  BY <1>1, BillingConstants, FS_Product DEF Groups
<1>3. IsFiniteSet(Groups \X Slides)
  BY <1>2, BillingConstants, FS_Product
<1> QED BY <1>3, FS_Subset, FS_CardinalityType

\* A job that is claimed and a worker that claims it.
LEMMA BeginTypeInv ==
  ASSUME TypeInv, NEW w \in Workers, NEW r \in Requests, BeginTurn(w, r)
  PROVE  /\ TypeInv'
         /\ wk'[w].pc = "gate" /\ wk'[w].req = r /\ wk'[w].attempt = req[r].tries + 1
         /\ wk'[w].seen = {} /\ wk'[w].bad = {} /\ req'[r].tries = req[r].tries + 1
         /\ req[r].tries + 1 \in 1..MAX_ATTEMPTS
         /\ \A v \in Workers : v # w => wk'[v] = wk[v]
         /\ \A q \in Requests : q # r => req'[q] = req[q]
<1>1. /\ req \in [Requests -> Request] /\ wk \in [Workers -> Worker]
      /\ \A v \in Workers : Turn(v)
  BY DEF TypeInv, TypeOK
<1>2. req[r] \in Request /\ req[r].tries \in 0..MAX_ATTEMPTS
  BY <1>1 DEF Request
<1> DEFINE n == req[r].tries + 1
<1>3. n \in 1..MAX_ATTEMPTS /\ n \in 0..MAX_ATTEMPTS /\ n > req[r].tries
  BY <1>2, BillingConstants DEF BeginTurn
<1> DEFINE new == [state |-> "running", tries |-> n, stale |-> STALE_RUNNING]
           turn == [Idle EXCEPT !.pc = "gate", !.req = r, !.attempt = n]
<1>4. req' = [req EXCEPT ![r] = new]
  BY DEF BeginTurn
<1>5. wk' = [wk EXCEPT ![w] = turn]
  BY DEF BeginTurn
<1> HIDE DEF n
<1>6. new \in Request
  BY <1>3, BillingConstants DEF Request
<1>x. /\ turn \in Worker /\ turn.pc = "gate" /\ turn.req = r /\ turn.attempt = n
      /\ turn.seen = {} /\ turn.bad = {} /\ turn.ran = 0
  <2>1. Idle \in Worker /\ Idle.seen = {} /\ Idle.bad = {} /\ Idle.ran = 0
    BY BillingConstants DEF Idle, Worker, PC
  <2>2. turn = [Idle EXCEPT !.pc = "gate", !.req = r, !.attempt = n]
    OBVIOUS
  <2> HIDE DEF turn
  <2>3. n \in 0..MAX_ATTEMPTS /\ r \in Requests
    BY <1>3
  <2>4. /\ turn \in Worker /\ turn.pc = "gate" /\ turn.req = r /\ turn.attempt = n
        /\ turn.seen = Idle.seen /\ turn.bad = Idle.bad /\ turn.ran = Idle.ran
    BY <2>1, <2>2, <2>3 DEF Worker, PC, Steps
  <2> QED BY <2>1, <2>4
<1> HIDE DEF turn
<1>7. req' \in [Requests -> Request] /\ wk' \in [Workers -> Worker]
  BY <1>1, <1>4, <1>5, <1>6, <1>x
<1>8. /\ wk'[w].pc = "gate" /\ wk'[w].req = r /\ wk'[w].attempt = n
      /\ wk'[w].seen = {} /\ wk'[w].bad = {} /\ wk'[w].ran = 0
      /\ req'[r].tries = n
      /\ \A v \in Workers : v # w => wk'[v] = wk[v]
      /\ \A q \in Requests : q # r => req'[q] = req[q]
  BY <1>1, <1>4, <1>5, <1>x
<1>9. ASSUME NEW v \in Workers PROVE Turn(v)'
  <2>1. CASE v = w
    BY <1>3, <1>8, <2>1, BillingConstants DEF Turn
  <2>2. CASE v # w
    <3>1. wk'[v] = wk[v] /\ Turn(v) /\ wk[v].req \in Requests \union {NoRequest}
          /\ wk[v].attempt \in Nat
      BY <1>1, <1>8, <2>2 DEF Worker
    <3>2. wk[v].req \in Requests => /\ req'[wk[v].req].tries \in Nat
                                    /\ req[wk[v].req].tries \in Nat
                                    /\ req'[wk[v].req].tries >= req[wk[v].req].tries
      BY <1>1, <1>2, <1>3, <1>8 DEF Request
    <3> QED BY <3>1, <3>2 DEF Turn
  <2> QED BY <2>1, <2>2
<1>10. /\ balance' \in Int /\ ledger' \in [Keys -> Int]
       /\ status' \in [Groups -> [Slides -> SlideStatus]] /\ billed' \in [Groups -> SUBSET Slides]
       /\ fresh' \in [Groups -> Nat] /\ faults' \in 0..MAX_FAULTS
  BY DEF TypeInv, TypeOK, BeginTurn
<1> QED BY <1>3, <1>7, <1>8, <1>9, <1>10 DEF TypeInv, TypeOK, n

\* The turns are in order at the start.
LEMMA InitTypeInv == Init => TypeInv
<1> SUFFICES ASSUME Init PROVE TypeInv
  OBVIOUS
<1>1. Idle \in Worker
  BY BillingConstants DEF Idle, Worker, PC
<1>2. TypeOK
  BY <1>1, BillingConstants DEF Init, TypeOK, SlideStatus, Request
<1>3. \A w \in Workers : Turn(w)
  BY BillingConstants DEF Init, Turn, Idle
<1> QED BY <1>2, <1>3 DEF TypeInv

\* The gate lets the turn on or sends it to its answer.
LEMMA GateMoves ==
  ASSUME TypeInv, NEW w \in Workers, Gate(w)
  PROVE  /\ wk[w].pc \in {"gate", "layout"}
         /\ \E p \in {"layout", "charge", "answer"} :
              Moves(w, p, wk[w].todo, wk[w].bad, wk[w].seen)
<1> DEFINE p == CASE InFlight # {}          -> "answer"
                  [] wk[w].pc = "gate"      -> "layout"
                  [] OTHER                  -> "charge"
<1>1. wk \in [Workers -> Worker]
  BY DEF TypeInv, TypeOK
<1>2. p \in {"layout", "charge", "answer"}
  OBVIOUS
<1>3. Goto(w, p) /\ wk[w].pc \in {"gate", "layout"}
  BY DEF Gate
<1> HIDE DEF p
<1>4. p \in PC
  BY <1>2 DEF PC, Steps
<1> QED BY <1>1, <1>2, <1>3, <1>4, GotoMoves

\* The two ways out of the charging transaction, for the group it is about.
LEMMA PayCases ==
  ASSUME TypeInv, NEW w \in Workers, PayAndStart(w)
  PROVE  \E B \in SUBSET Slides :
           LET g == Group(w)
               n == Cardinality(B)
           IN  /\ wk[w].pc = "charge" /\ g \in Groups /\ n \in Nat
               /\ billed' = [billed EXCEPT ![g] = B]
               /\ fresh' = [fresh EXCEPT ![g] = STUCK_AFTER]
               /\ req' = req /\ faults' = faults
               /\ \/ /\ Charge(ChargeKey(g), n)
                     /\ status' = [status EXCEPT ![g] = [s \in Slides |-> "generating"]]
                     /\ Moves(w, "build", Slides, wk[w].bad, wk[w].seen)
                  \/ /\ status' = [status EXCEPT ![g] = [s \in Slides |-> "failed"]]
                     /\ UNCHANGED <<balance, ledger>>
                     /\ Moves(w, "answer", wk[w].todo, wk[w].bad, wk[w].seen)
<1>1. wk \in [Workers -> Worker] /\ wk[w].pc = "charge" /\ req' = req /\ faults' = faults
  BY DEF TypeInv, TypeOK, PayAndStart
<1>2. Group(w) \in Groups
  BY <1>1, GroupOfTurn
<1> DEFINE Builds == wk' = [wk EXCEPT ![w].pc = "build", ![w].todo = Slides]
<1>3. PICK free \in SUBSET Slides :
        LET n == Cardinality(Slides \ free) IN
        /\ billed' = [billed EXCEPT ![Group(w)] = Slides \ free]
        /\ fresh' = [fresh EXCEPT ![Group(w)] = STUCK_AFTER]
        /\ \/ /\ Charge(ChargeKey(Group(w)), n)
              /\ status' = [status EXCEPT ![Group(w)] = [s \in Slides |-> "generating"]]
              /\ Builds
           \/ /\ status' = [status EXCEPT ![Group(w)] = [s \in Slides |-> "failed"]]
              /\ Goto(w, "answer")
              /\ UNCHANGED <<balance, ledger>>
  BY DEF PayAndStart
<1>4. Builds => Moves(w, "build", Slides, wk[w].bad, wk[w].seen)
  <2>1. wk[w].bad \in SUBSET Slides /\ wk[w].seen \in SUBSET (Groups \X Slides)
    BY <1>1 DEF Worker
  <2>2. "build" \in PC
    BY DEF PC, Steps
  <2> QED BY ZenonT(60), <1>1, <2>1, <2>2, MakerMoves
<1>5. Goto(w, "answer") => Moves(w, "answer", wk[w].todo, wk[w].bad, wk[w].seen)
  <2>1. "answer" \in PC
    BY DEF PC, Steps
  <2> QED BY <1>1, <2>1, GotoMoves
<1> HIDE DEF Builds
<1>6. Slides \ free \in SUBSET Slides /\ Cardinality(Slides \ free) \in Nat
  BY CountSlides
<1> QED BY <1>1, <1>2, <1>3, <1>4, <1>5, <1>6

\* What the steps of generate that finish, mark and refund do to the worker.
LEMMA MakeMoves ==
  ASSUME TypeInv, NEW w \in Workers
  PROVE  /\ \A s \in Slides : SlideReady(w, s) =>
              /\ wk[w].pc = "build"
              /\ Moves(w, "build", wk[w].todo \ {s}, wk[w].bad, wk[w].seen)
         /\ \A s \in Slides : SlideBad(w, s) =>
              /\ wk[w].pc = "build"
              /\ Moves(w, "build", wk[w].todo \ {s}, wk[w].bad \union {s}, wk[w].seen)
         /\ Gathered(w) =>
              /\ wk[w].pc = "build"
              /\ Moves(w, "mark", wk[w].bad, wk[w].bad, wk[w].seen)
         /\ MarkFailed(w) =>
              /\ wk[w].pc = "mark"
              /\ \E s \in wk[w].todo :
                   /\ s \in Slides
                   /\ status' = [status EXCEPT ![Group(w)][s] = "failed"]
                   /\ Moves(w, "mark", wk[w].todo \ {s}, wk[w].bad, wk[w].seen)
         /\ GiveBack(w) =>
              /\ wk[w].pc = "mark"
              /\ Moves(w, "answer", wk[w].todo, wk[w].bad, wk[w].seen)
<1>1. wk \in [Workers -> Worker]
  BY DEF TypeInv, TypeOK
<1>2. /\ wk[w].todo \in SUBSET Slides /\ wk[w].bad \in SUBSET Slides
      /\ wk[w].seen \in SUBSET (Groups \X Slides)
  BY <1>1 DEF Worker
<1>3. "build" \in PC /\ "mark" \in PC /\ "answer" \in PC
  BY DEF PC, Steps
<1>4. ASSUME NEW s \in Slides, SlideReady(w, s)
      PROVE  /\ wk[w].pc = "build"
             /\ Moves(w, "build", wk[w].todo \ {s}, wk[w].bad, wk[w].seen)
  <2>1. wk' = [wk EXCEPT ![w].todo = wk[w].todo \ {s}] /\ wk[w].pc = "build"
    BY <1>1, <1>4 DEF SlideReady
  <2>2. wk[w].todo \ {s} \in SUBSET Slides
    BY <1>2
  <2> QED BY <1>1, <1>2, <1>3, <2>1, <2>2, MakerMoves
<1>5. ASSUME NEW s \in Slides, SlideBad(w, s)
      PROVE  /\ wk[w].pc = "build"
             /\ Moves(w, "build", wk[w].todo \ {s}, wk[w].bad \union {s}, wk[w].seen)
  <2>1. /\ wk' = [wk EXCEPT ![w].todo = wk[w].todo \ {s}, ![w].bad = wk[w].bad \union {s}]
        /\ wk[w].pc = "build"
    BY <1>1, <1>5 DEF SlideBad
  <2>2. wk[w].todo \ {s} \in SUBSET Slides /\ wk[w].bad \union {s} \in SUBSET Slides
    BY <1>2
  <2> QED BY <1>1, <1>2, <1>3, <2>1, <2>2, MakerMoves
<1>6. ASSUME Gathered(w)
      PROVE  /\ wk[w].pc = "build"
             /\ Moves(w, "mark", wk[w].bad, wk[w].bad, wk[w].seen)
  <2>1. /\ wk' = [wk EXCEPT ![w].pc = "mark", ![w].todo = wk[w].bad]
        /\ wk[w].pc = "build"
    BY <1>6 DEF Gathered
  <2> QED BY <1>1, <1>2, <1>3, <2>1, MakerMoves
<1>7. ASSUME MarkFailed(w)
      PROVE  /\ wk[w].pc = "mark"
             /\ \E s \in wk[w].todo :
                  /\ s \in Slides
                  /\ status' = [status EXCEPT ![Group(w)][s] = "failed"]
                  /\ Moves(w, "mark", wk[w].todo \ {s}, wk[w].bad, wk[w].seen)
  <2>1. wk[w].pc = "mark"
    BY <1>7 DEF MarkFailed
  <2>2. PICK s \in wk[w].todo : /\ status' = [status EXCEPT ![Group(w)][s] = "failed"]
                                /\ wk' = [wk EXCEPT ![w].todo = @ \ {s}]
    BY <1>7 DEF MarkFailed
  <2>3. wk' = [wk EXCEPT ![w].todo = wk[w].todo \ {s}]
    BY <1>1, <2>2
  <2>4. wk[w].todo \ {s} \in SUBSET Slides /\ s \in Slides
    BY <1>2
  <2>5. Moves(w, "mark", wk[w].todo \ {s}, wk[w].bad, wk[w].seen)
    BY <1>1, <1>2, <1>3, <2>1, <2>3, <2>4, MakerMoves
  <2> QED BY <2>1, <2>2, <2>4, <2>5
<1>8. ASSUME GiveBack(w)
      PROVE  /\ wk[w].pc = "mark"
             /\ Moves(w, "answer", wk[w].todo, wk[w].bad, wk[w].seen)
  <2>1. Goto(w, "answer") /\ wk[w].pc = "mark"
    BY <1>8 DEF GiveBack
  <2> QED BY <1>1, <1>3, <2>1, GotoMoves
<1> QED BY <1>4, <1>5, <1>6, <1>7, <1>8

\* A refund of generate, with the key it is under.
LEMMA GiveBackCases ==
  ASSUME TypeInv, NEW w \in Workers, GiveBack(w)
  PROVE  LET g == Group(w)
             key == IF wk[w].bad = Slides THEN FailedKey(g) ELSE PartialKey(g)
             due == IF wk[w].bad = Slides THEN billed[g] ELSE wk[w].bad \intersect billed[g]
         IN  /\ g \in Groups /\ due \in SUBSET Slides /\ key \in Keys
             /\ wk[w].todo = {}
             /\ \/ Cardinality(due) = 0 /\ UNCHANGED <<balance, ledger>>
                \/ Refund(key, Cardinality(due))
             /\ UNCHANGED <<status, billed, fresh, req, faults>>
<1>1. wk[w].pc = "mark" /\ Group(w) \in Groups
  <2>1. wk[w].pc = "mark"
    BY DEF GiveBack
  <2> QED BY <2>1, GroupOfTurn
<1>2. billed[Group(w)] \in SUBSET Slides
  BY <1>1 DEF TypeInv, TypeOK
<1>3. FailedKey(Group(w)) \in Keys /\ PartialKey(Group(w)) \in Keys
  BY <1>1, KeysOfGroups
<1>4. CASE wk[w].bad = Slides
  BY <1>1, <1>2, <1>3, <1>4 DEF GiveBack
<1>5. CASE wk[w].bad # Slides
  BY <1>1, <1>2, <1>3, <1>5 DEF GiveBack
<1> QED BY <1>4, <1>5

\* The first half of the reaper's visit.
LEMMA ReapReadMoves ==
  ASSUME TypeInv, NEW w \in Workers, ReapRead(w)
  PROVE  /\ Moves(w, "reap", wk[w].todo, wk[w].bad, Stuck)
         /\ wk[w].pc = "idle"
         /\ UNCHANGED <<balance, ledger, status, billed, fresh, req, faults>>
<1>1. wk \in [Workers -> Worker]
  BY DEF TypeInv, TypeOK
<1>2. Stuck \in SUBSET (Groups \X Slides) /\ "reap" \in PC
  BY DEF Stuck, PC, Steps
<1>3. /\ wk' = [wk EXCEPT ![w].pc = "reap", ![w].seen = Stuck]
      /\ wk[w].pc = "idle"
      /\ UNCHANGED <<balance, ledger, status, billed, fresh, req, faults>>
  BY DEF ReapRead
<1>4. wk[w].todo \in SUBSET Slides /\ wk[w].bad \in SUBSET Slides
  BY <1>1 DEF Worker
<1> QED BY <1>1, <1>2, <1>3, <1>4, MakerMoves

\* Only clocks move when time passes.
LEMMA TickMoves ==
  ASSUME TypeInv, Tick
  PROVE  /\ TypeInv'
         /\ \A w \in Workers :
              /\ wk'[w].pc = wk[w].pc /\ wk'[w].req = wk[w].req
              /\ wk'[w].attempt = wk[w].attempt /\ wk'[w].todo = wk[w].todo
              /\ wk'[w].bad = wk[w].bad /\ wk'[w].seen = wk[w].seen
              /\ wk[w].ran \in Nat
              /\ wk[w].req # NoRequest => wk'[w].ran = wk[w].ran + 1
         /\ \A r \in Requests : req'[r].tries = req[r].tries
<1>1. /\ req \in [Requests -> Request] /\ wk \in [Workers -> Worker]
      /\ fresh \in [Groups -> Nat] /\ \A w \in Workers : Turn(w)
  BY DEF TypeInv, TypeOK
<1>2. \A n \in Nat : Minus1(n) \in Nat
  BY DEF Minus1
<1>3. fresh' \in [Groups -> Nat]
  BY <1>1, <1>2 DEF Tick
<1>4. ASSUME NEW r \in Requests
      PROVE  req'[r] \in Request /\ req'[r].tries = req[r].tries
  <2>1. req[r] \in Request /\ req[r].stale \in Nat
    BY <1>1 DEF Request
  <2> DEFINE n == IF req[r].state = "running" THEN Minus1(req[r].stale) ELSE req[r].stale
  <2>2. req'[r] = [req[r] EXCEPT !.stale = n]
    BY <1>1 DEF Tick
  <2>3. n \in Nat
    BY <2>1, <1>2
  <2> HIDE DEF n
  <2> QED BY <2>1, <2>2, <2>3 DEF Request
<1>5. req' \in [Requests -> Request]
  <2>1. req' = [r \in Requests |-> req'[r]]
    BY DEF Tick
  <2> QED BY <1>4, <2>1
<1>6. ASSUME NEW w \in Workers
      PROVE  /\ wk'[w] \in Worker
             /\ wk'[w].pc = wk[w].pc /\ wk'[w].req = wk[w].req
             /\ wk'[w].attempt = wk[w].attempt /\ wk'[w].todo = wk[w].todo
             /\ wk'[w].bad = wk[w].bad /\ wk'[w].seen = wk[w].seen
             /\ wk[w].ran \in Nat
             /\ wk[w].req # NoRequest => wk'[w].ran = wk[w].ran + 1
             /\ wk[w].req = NoRequest => wk'[w].ran = wk[w].ran
  <2>1. wk[w] \in Worker /\ wk[w].ran \in Nat
    BY <1>1 DEF Worker
  <2> DEFINE n == IF wk[w].req # NoRequest THEN wk[w].ran + 1 ELSE wk[w].ran
  <2>2. wk'[w] = [wk[w] EXCEPT !.ran = n]
    BY <1>1 DEF Tick
  <2>3. n \in Nat /\ (wk[w].req # NoRequest => n = wk[w].ran + 1)
        /\ (wk[w].req = NoRequest => n = wk[w].ran)
    BY <2>1
  <2> HIDE DEF n
  <2> QED BY <2>1, <2>2, <2>3 DEF Worker
<1>7. wk' \in [Workers -> Worker]
  <2>1. wk' = [w \in Workers |-> wk'[w]]
    BY DEF Tick
  <2> QED BY <1>6, <2>1
<1>8. ASSUME NEW w \in Workers PROVE Turn(w)'
  <2>1. /\ Turn(w) /\ wk[w].ran \in Nat /\ (wk[w].req # NoRequest => wk[w].ran < MAX_RUN)
        /\ wk[w].req \in Requests \union {NoRequest}
    BY <1>1, <1>6 DEF Tick, Worker
  <2>2. wk'[w].ran <= MAX_RUN
    BY <1>6, <2>1, BillingConstants DEF Turn
  <2> QED BY <1>4, <1>6, <2>1, <2>2 DEF Turn
<1>9. /\ balance' \in Int /\ ledger' \in [Keys -> Int]
      /\ status' \in [Groups -> [Slides -> SlideStatus]] /\ billed' \in [Groups -> SUBSET Slides]
      /\ faults' \in 0..MAX_FAULTS
  BY DEF TypeInv, TypeOK, Tick
<1> QED BY <1>3, <1>4, <1>5, <1>6, <1>7, <1>8, <1>9 DEF TypeInv, TypeOK

\* What is left of a lost or finished turn.
LEMMA FaultType ==
  ASSUME TypeOK, NEW w, Fault(w) PROVE faults' \in 0..MAX_FAULTS
  BY BillingConstants DEF TypeOK, Fault

\* Types and turns are inductive.
LEMMA NextTypeInv ==
  ASSUME TypeInv, Next
  PROVE  TypeInv'
<1>t. /\ balance \in Int /\ ledger \in [Keys -> Int]
      /\ status \in [Groups -> [Slides -> SlideStatus]] /\ billed \in [Groups -> SUBSET Slides]
      /\ fresh \in [Groups -> Nat] /\ req \in [Requests -> Request]
      /\ wk \in [Workers -> Worker] /\ faults \in 0..MAX_FAULTS
      /\ TypeOK /\ \A w \in Workers : Turn(w)
  BY DEF TypeInv, TypeOK
<1>1. ASSUME NEW w \in Workers, NEW r \in Requests, BeginTurn(w, r) PROVE TypeInv'
  BY <1>1, BeginTypeInv
<1>2. ASSUME NEW r \in Requests, GiveUp(r) PROVE TypeInv'
  <2>1. req' \in [Requests -> Request] /\ \A q \in Requests : req'[q].tries = req[q].tries
    BY <1>t, <1>2 DEF GiveUp, Request
  <2>2. \A w \in Workers : Turn(w)'
    BY <1>t, <1>2, <2>1 DEF GiveUp, Turn, Worker
  <2> QED BY <1>t, <1>2, <2>1, <2>2 DEF GiveUp, TypeInv, TypeOK
<1>3. ASSUME NEW w \in Workers, Gate(w) PROVE TypeInv'
  <2>1. PICK p \in {"layout", "charge", "answer"} :
           Moves(w, p, wk[w].todo, wk[w].bad, wk[w].seen)
    BY <1>3, GateMoves
  <2>2. req' = req /\ wk[w].pc \in {"gate", "layout"}
    BY <1>3, GateMoves DEF Gate
  <2>3. (wk[w].req = NoRequest) <=> p \in {"idle", "reap"}
    BY <1>t, <2>2 DEF Turn
  <2>4. wk' \in [Workers -> Worker] /\ \A v \in Workers : Turn(v)'
    BY <2>1, <2>2, <2>3, MovesTurn
  <2> QED BY <1>t, <1>3, <2>4 DEF Gate, TypeInv, TypeOK
<1>4. ASSUME NEW w \in Workers, TurnDown(w) PROVE TypeInv'
  <2>1. Goto(w, "answer") /\ wk[w].pc = "layout" /\ req' = req
    BY <1>4 DEF TurnDown
  <2>2. Moves(w, "answer", wk[w].todo, wk[w].bad, wk[w].seen)
    BY <1>t, <2>1, GotoMoves DEF PC, Steps
  <2>3. (wk[w].req = NoRequest) <=> "answer" \in {"idle", "reap"}
    BY <1>t, <2>1 DEF Turn
  <2>4. wk' \in [Workers -> Worker] /\ \A v \in Workers : Turn(v)'
    BY <2>1, <2>2, <2>3, MovesTurn
  <2> QED BY <1>t, <1>4, <2>4 DEF TurnDown, TypeInv, TypeOK
<1>5. ASSUME NEW w \in Workers, PayAndStart(w) PROVE TypeInv'
  <2> DEFINE g == Group(w)
  <2>1. PICK B \in SUBSET Slides :
           /\ wk[w].pc = "charge" /\ g \in Groups /\ Cardinality(B) \in Nat
           /\ billed' = [billed EXCEPT ![g] = B]
           /\ fresh' = [fresh EXCEPT ![g] = STUCK_AFTER]
           /\ req' = req /\ faults' = faults
           /\ \/ /\ Charge(ChargeKey(g), Cardinality(B))
                 /\ status' = [status EXCEPT ![g] = [s \in Slides |-> "generating"]]
                 /\ Moves(w, "build", Slides, wk[w].bad, wk[w].seen)
              \/ /\ status' = [status EXCEPT ![g] = [s \in Slides |-> "failed"]]
                 /\ UNCHANGED <<balance, ledger>>
                 /\ Moves(w, "answer", wk[w].todo, wk[w].bad, wk[w].seen)
    BY <1>5, PayCases
  <2> HIDE DEF g
  <2>2. /\ billed' \in [Groups -> SUBSET Slides] /\ fresh' \in [Groups -> Nat]
        /\ status' \in [Groups -> [Slides -> SlideStatus]]
    BY <1>t, <2>1, BillingConstants DEF SlideStatus
  <2>3. balance' \in Int /\ ledger' \in [Keys -> Int]
    BY <1>t, <2>1, ChargeType, KeysOfGroups
  <2>4. wk[w].req # NoRequest
    BY <1>t, <2>1 DEF Turn
  <2>5. wk' \in [Workers -> Worker] /\ \A v \in Workers : Turn(v)'
    <3>1. CASE Moves(w, "build", Slides, wk[w].bad, wk[w].seen)
      BY <2>1, <2>4, <3>1, MovesTurn
    <3>2. CASE Moves(w, "answer", wk[w].todo, wk[w].bad, wk[w].seen)
      BY <2>1, <2>4, <3>2, MovesTurn
    <3> QED BY <2>1, <3>1, <3>2
  <2> QED BY <1>t, <2>1, <2>2, <2>3, <2>5 DEF TypeInv, TypeOK
<1>6. ASSUME NEW w \in Workers, NEW s \in Slides, SlideReady(w, s) PROVE TypeInv'
  <2>1. wk[w].pc = "build" /\ Moves(w, "build", wk[w].todo \ {s}, wk[w].bad, wk[w].seen)
    BY <1>6, MakeMoves
  <2>2. wk[w].req # NoRequest /\ req' = req
    BY <1>t, <1>6, <2>1 DEF Turn, SlideReady
  <2>3. wk' \in [Workers -> Worker] /\ \A v \in Workers : Turn(v)'
    BY <2>1, <2>2, MovesTurn
  <2>4. status' \in [Groups -> [Slides -> SlideStatus]]
    BY <1>t, <1>6 DEF SlideReady, SlideStatus
  <2> QED BY <1>t, <1>6, <2>3, <2>4 DEF SlideReady, TypeInv, TypeOK
<1>7. ASSUME NEW w \in Workers, NEW s \in Slides, SlideBad(w, s) PROVE TypeInv'
  <2>1. /\ wk[w].pc = "build"
        /\ Moves(w, "build", wk[w].todo \ {s}, wk[w].bad \union {s}, wk[w].seen)
    BY <1>7, MakeMoves
  <2>2. wk[w].req # NoRequest /\ req' = req
    BY <1>t, <1>7, <2>1 DEF Turn, SlideBad
  <2>3. wk' \in [Workers -> Worker] /\ \A v \in Workers : Turn(v)'
    BY <2>1, <2>2, MovesTurn
  <2> QED BY <1>t, <1>7, <2>3 DEF SlideBad, TypeInv, TypeOK
<1>8. ASSUME NEW w \in Workers, Gathered(w) PROVE TypeInv'
  <2>1. wk[w].pc = "build" /\ Moves(w, "mark", wk[w].bad, wk[w].bad, wk[w].seen)
    BY <1>8, MakeMoves
  <2>2. wk[w].req # NoRequest /\ req' = req
    BY <1>t, <1>8, <2>1 DEF Turn, Gathered
  <2>3. wk' \in [Workers -> Worker] /\ \A v \in Workers : Turn(v)'
    BY <2>1, <2>2, MovesTurn
  <2> QED BY <1>t, <1>8, <2>3 DEF Gathered, TypeInv, TypeOK
<1>9. ASSUME NEW w \in Workers, MarkFailed(w) PROVE TypeInv'
  <2>1. PICK s \in wk[w].todo :
           /\ wk[w].pc = "mark"
           /\ status' = [status EXCEPT ![Group(w)][s] = "failed"]
           /\ Moves(w, "mark", wk[w].todo \ {s}, wk[w].bad, wk[w].seen)
    BY <1>9, MakeMoves
  <2>2. wk[w].req # NoRequest /\ req' = req
    BY <1>t, <1>9, <2>1 DEF Turn, MarkFailed
  <2>3. wk' \in [Workers -> Worker] /\ \A v \in Workers : Turn(v)'
    BY <2>1, <2>2, MovesTurn
  <2>4. status' \in [Groups -> [Slides -> SlideStatus]]
    BY <1>t, <2>1 DEF SlideStatus
  <2> QED BY <1>t, <1>9, <2>3, <2>4 DEF MarkFailed, TypeInv, TypeOK
<1>10. ASSUME NEW w \in Workers, GiveBack(w) PROVE TypeInv'
  <2>1. /\ wk[w].pc = "mark" /\ Moves(w, "answer", wk[w].todo, wk[w].bad, wk[w].seen)
    BY <1>10, MakeMoves
  <2>2. wk[w].req # NoRequest /\ req' = req
    BY <1>t, <1>10, <2>1 DEF Turn, GiveBack
  <2>3. wk' \in [Workers -> Worker] /\ \A v \in Workers : Turn(v)'
    BY <2>1, <2>2, MovesTurn
  <2> DEFINE g == Group(w)
             key == IF wk[w].bad = Slides THEN FailedKey(g) ELSE PartialKey(g)
             due == IF wk[w].bad = Slides THEN billed[g] ELSE wk[w].bad \intersect billed[g]
  <2>4. /\ due \in SUBSET Slides /\ key \in Keys
        /\ UNCHANGED <<balance, ledger>> \/ Refund(key, Cardinality(due))
        /\ UNCHANGED <<status, billed, fresh, req, faults>>
    BY <1>10, GiveBackCases
  <2> HIDE DEF key, due
  <2>5. balance' \in Int /\ ledger' \in [Keys -> Int]
    BY <1>t, <2>4, RefundType, CountSlides
  <2> QED BY <1>t, <2>3, <2>4, <2>5 DEF TypeInv, TypeOK
<1>11. ASSUME NEW w \in Workers, Answer(w) PROVE TypeInv'
  <2>1. /\ req' \in [Requests -> Request] /\ wk' = [wk EXCEPT ![w] = Idle]
        /\ \A q \in Requests : req'[q].tries = req[q].tries
    BY <1>t, <1>11 DEF Answer, Request
  <2>2. wk' \in [Workers -> Worker] /\ \A v \in Workers : Turn(v)'
    BY <2>1, IdleTurn
  <2> QED BY <1>t, <1>11, <2>1, <2>2 DEF Answer, TypeInv, TypeOK
<1>12. ASSUME NEW w \in Workers, ReapCommit(w) PROVE TypeInv'
  <2> DEFINE due == {c \in wk[w].seen : c[2] \in billed[c[1]]
                                         /\ ~Entered(StuckKey(c[1], c[2]))}
  <2>1. /\ wk' = [wk EXCEPT ![w] = Idle] /\ req' = req
        /\ balance' = balance + Cardinality(due)
        /\ ledger' = [k \in Keys |-> IF \E c \in due : k = StuckKey(c[1], c[2])
                                      THEN 1 ELSE ledger[k]]
        /\ status' = [g \in Groups |-> [s \in Slides |->
                        IF <<g, s>> \in wk[w].seen THEN "failed" ELSE status[g][s]]]
        /\ UNCHANGED <<billed, fresh, req, faults>>
    BY <1>12 DEF ReapCommit
  <2>2. due \in SUBSET (Groups \X Slides)
    BY <1>t DEF Worker
  <2> HIDE DEF due
  <2>3. Cardinality(due) \in Nat
    BY <2>2, RowsFinite
  <2>4. balance' \in Int /\ ledger' \in [Keys -> Int]
    BY <1>t, <2>1, <2>3
  <2>5. status' \in [Groups -> [Slides -> SlideStatus]]
    BY <1>t, <2>1 DEF SlideStatus
  <2>6. wk' \in [Workers -> Worker] /\ \A v \in Workers : Turn(v)'
    BY <2>1, IdleTurn
  <2> QED BY <1>t, <2>1, <2>4, <2>5, <2>6 DEF TypeInv, TypeOK
<1>13. ASSUME NEW w \in Workers, ReapRead(w) PROVE TypeInv'
  <2>1. /\ Moves(w, "reap", wk[w].todo, wk[w].bad, Stuck) /\ wk[w].pc = "idle"
        /\ UNCHANGED <<balance, ledger, status, billed, fresh, req, faults>>
    BY <1>13, ReapReadMoves
  <2>2. wk[w].req = NoRequest
    BY <1>t, <2>1 DEF Turn
  <2>3. wk' \in [Workers -> Worker] /\ \A v \in Workers : Turn(v)'
    BY <2>1, <2>2, MovesTurn
  <2> QED BY <1>t, <2>1, <2>3 DEF TypeInv, TypeOK
<1>14. ASSUME NEW w \in Workers, Crash(w) PROVE TypeInv'
  <2>1. wk' = [wk EXCEPT ![w] = Idle] /\ UNCHANGED <<balance, ledger, status, billed, fresh, req>>
    BY <1>14 DEF Crash
  <2>2. wk' \in [Workers -> Worker] /\ \A v \in Workers : Turn(v)'
    BY <2>1, IdleTurn
  <2>3. faults' \in 0..MAX_FAULTS
    BY <1>t, <1>14, FaultType DEF Crash
  <2> QED BY <1>t, <2>1, <2>2, <2>3 DEF TypeInv, TypeOK
<1>15. ASSUME NEW w \in Workers, ToolError(w) PROVE TypeInv'
  <2>1. /\ Goto(w, "answer") /\ wk[w].pc \in {"gate", "layout", "charge", "mark"}
        /\ UNCHANGED <<balance, ledger, status, billed, fresh, req>>
    BY <1>15 DEF ToolError
  <2>2. Moves(w, "answer", wk[w].todo, wk[w].bad, wk[w].seen)
    BY <1>t, <2>1, GotoMoves DEF PC, Steps
  <2>3. wk[w].req # NoRequest
    BY <1>t, <2>1 DEF Turn
  <2>4. wk' \in [Workers -> Worker] /\ \A v \in Workers : Turn(v)'
    BY <2>1, <2>2, <2>3, MovesTurn
  <2>5. faults' \in 0..MAX_FAULTS
    BY <1>t, <1>15, FaultType DEF ToolError
  <2> QED BY <1>t, <2>1, <2>4, <2>5 DEF TypeInv, TypeOK
<1>16. ASSUME NEW p \in Payments, Topup(p) PROVE TypeInv'
  <2>1. balance' \in Int /\ ledger' \in [Keys -> Int]
    BY <1>t, <1>16, RefundType, KeysOfPayments, BillingConstants DEF Topup
  <2>2. UNCHANGED <<status, billed, fresh, req, wk, faults>>
    BY <1>16 DEF Topup
  <2> QED BY <1>t, <2>1, <2>2 DEF TypeInv, TypeOK, Turn
<1>17. ASSUME Tick PROVE TypeInv'
  BY <1>17, TickMoves
<1> QED BY <1>1, <1>2, <1>3, <1>4, <1>5, <1>6, <1>7, <1>8, <1>9, <1>10, <1>11, <1>12, <1>13,
           <1>14, <1>15, <1>16, <1>17 DEF Next, Works, Generate

\* So every reachable state has them.
LEMMA SpecTypeInv == Spec => []TypeInv
<1>1. ASSUME TypeInv, UNCHANGED vars PROVE TypeInv'
  BY <1>1 DEF TypeInv, TypeOK, Turn, vars
<1> QED BY <1>1, InitTypeInv, NextTypeInv, PTL DEF Spec

\* Every reachable state of the billing is well typed; that an account's balance is
\* a number rests on a turn holding a group of the table whenever it pays.
THEOREM TypeCorrect == Spec => []TypeOK
<1>1. TypeInv => TypeOK
  BY DEF TypeInv
<1> QED BY <1>1, SpecTypeInv, PTL

-----------------------------------------------------------------------------
(* The books of a group *)

\* Two workers never make the same attempt at a request.
Alone == \A v, w \in Workers :
           v # w /\ wk[v].req = wk[w].req /\ wk[v].req # NoRequest
             => wk[v].attempt # wk[w].attempt

NoEntries(g) ==
  /\ ledger[ChargeKey(g)] = 0 /\ ledger[FailedKey(g)] = 0 /\ ledger[PartialKey(g)] = 0
  /\ \A s \in Slides : ledger[StuckKey(g, s)] = 0

\* A worker is making g.
Made(g) == \E v \in Workers : Building(v) /\ Group(v) = g

\* Before the charge, and for good if it never comes.
Untouched(g) ==
  /\ NoEntries(g) /\ billed[g] = {}
  /\ \A s \in Slides : status[g][s] = "none"

\* The credits were short.
Unpaid(g) == NoEntries(g) /\ \A s \in Slides : status[g][s] = "failed"

\* Charged, and only the reaper has given back.
Live(g) ==
  /\ ledger[ChargeKey(g)] = -Cardinality(billed[g])
  /\ ledger[FailedKey(g)] = 0 /\ ledger[PartialKey(g)] = 0
  /\ \A s \in Slides : /\ status[g][s] # "none"
                       /\ ledger[StuckKey(g, s)] # 0 => s \in billed[g] /\ status[g][s] = "failed"

\* A group its maker has left holds no failed slide that the reaper did not
\* give back, unless the maker may be lost while it marks.
Exact(g) ==
  "mark" \notin FAULTS_AT /\ ~Made(g) =>
    \A s \in Slides : s \in billed[g] /\ status[g][s] = "failed" => ledger[StuckKey(g, s)] # 0

FailedBilled(g) == {s \in billed[g] : status[g][s] = "failed"}

\* Charged, finished, and the failed slides given back by generate.
Closed(g) ==
  /\ ledger[ChargeKey(g)] = -Cardinality(billed[g])
  /\ ledger[FailedKey(g)] + ledger[PartialKey(g)] = Cardinality(FailedBilled(g))
  /\ \A s \in Slides : status[g][s] \in {"ready", "failed"} /\ ledger[StuckKey(g, s)] = 0

Books(g) == Untouched(g) \/ Unpaid(g) \/ (Live(g) /\ Exact(g)) \/ Closed(g)

\* Nothing has happened to a group before its charge ...
Prepares(w) ==
  wk[w].pc \in {"gate", "layout", "charge"} =>
    /\ wk[w].bad = {}
    /\ \A g \in Groups : Group(w) = g => Untouched(g)

\* ... and nothing but its maker's doing to one being made, which is too young
\* for the reaper: its age and the maker's clock add up.
Making(w, g) ==
  /\ Live(g) /\ \A s \in Slides : ledger[StuckKey(g, s)] = 0
  /\ fresh[g] + wk[w].ran >= STUCK_AFTER
  /\ wk[w].pc = "build" =>
       /\ wk[w].todo \intersect wk[w].bad = {}
       /\ \A s \in Slides : status[g][s] = IF s \in wk[w].todo \union wk[w].bad
                                          THEN "generating" ELSE "ready"
  /\ wk[w].pc = "mark" =>
       /\ wk[w].todo \subseteq wk[w].bad
       /\ \A s \in Slides : status[g][s] = IF s \in wk[w].todo THEN "generating"
                                          ELSE IF s \in wk[w].bad THEN "failed" ELSE "ready"

Makes(w) == \A g \in Groups : Building(w) /\ Group(w) = g => Making(w, g)

\* What a reaper has read stays old, left by its maker, and unfinished, though
\* another reaper may have failed it meanwhile.
Reaps(w) ==
  /\ wk[w].pc # "reap" => wk[w].seen = {}
  /\ \A g \in Groups, s \in Slides : <<g, s>> \in wk[w].seen =>
       /\ fresh[g] = 0 /\ Live(g) /\ Exact(g)
       /\ status[g][s] \in {"generating", "failed"}

\* An attempt not yet made has no rows and no entries.
Unused == \A r \in Requests, n \in 1..MAX_ATTEMPTS : n > req[r].tries => Untouched(<<r, n>>)

BooksInv ==
  /\ \A g \in Groups : Books(g)
  /\ \A w \in Workers : Prepares(w) /\ Makes(w) /\ Reaps(w)
  /\ Unused

\* A step that leaves the rows and the entries of g alone.
Same(g) ==
  /\ status'[g] = status[g] /\ billed'[g] = billed[g]
  /\ ledger'[ChargeKey(g)] = ledger[ChargeKey(g)]
  /\ ledger'[FailedKey(g)] = ledger[FailedKey(g)]
  /\ ledger'[PartialKey(g)] = ledger[PartialKey(g)]
  /\ \A s \in Slides : ledger'[StuckKey(g, s)] = ledger[StuckKey(g, s)]

\* Then its books are what they were.
LEMMA SameBooks ==
  ASSUME NEW g \in Groups, Same(g)
  PROVE  /\ Untouched(g) => Untouched(g)'
         /\ Unpaid(g) => Unpaid(g)'
         /\ Live(g) => Live(g)'
         /\ Closed(g) => Closed(g)'
         /\ Exact(g) /\ (Made(g) => Made(g)') => Exact(g)'
<1>1. NoEntries(g) => NoEntries(g)'
  BY DEF Same, NoEntries
<1>2. FailedBilled(g)' = FailedBilled(g)
  BY DEF Same, FailedBilled
<1>3. Untouched(g) => Untouched(g)'
  BY <1>1 DEF Same, Untouched
<1>4. Unpaid(g) => Unpaid(g)'
  BY <1>1 DEF Same, Unpaid
<1>5. Live(g) => Live(g)'
  BY DEF Same, Live
<1>6. Closed(g) => Closed(g)'
  BY <1>2 DEF Same, Closed
<1>7. Exact(g) /\ (Made(g) => Made(g)') => Exact(g)'
  BY DEF Same, Exact
<1> QED BY <1>3, <1>4, <1>5, <1>6, <1>7

\* The step of a worker on the groups in H, seen from outside H: the makers and
\* the books of the other groups are left as they were ...
LEMMA OutsideBooks ==
  ASSUME NEW w \in Workers, NEW H, NEW g \in Groups, g \notin H, Books(g), Same(g),
         \A v \in Workers : v # w => wk'[v] = wk[v],
         Building(w) /\ Group(w) \notin H => Building(w)' /\ Group(w)' = Group(w)
  PROVE  Books(g)' /\ (Made(g) => Made(g)')
<1>1. Made(g) => Made(g)'
  <2> SUFFICES ASSUME NEW v \in Workers, Building(v), Group(v) = g
               PROVE  \E u \in Workers : Building(u)' /\ Group(u)' = g
    BY DEF Made
  <2>1. CASE v = w
    BY <2>1
  <2>2. CASE v # w
    BY <2>2 DEF Building, Group
  <2> QED BY <2>1, <2>2
<1> QED BY <1>1, SameBooks DEF Books

\* ... a worker that takes no part keeps its group ...
LEMMA OutsideMaker ==
  ASSUME NEW v \in Workers, Prepares(v), Makes(v), wk'[v] = wk[v],
         \A g \in Groups : g = Group(v) /\ wk[v].pc \notin {"idle", "reap", "answer"}
                         => Same(g) /\ fresh'[g] = fresh[g]
  PROVE  Prepares(v)' /\ Makes(v)'
<1>1. Group(v)' = Group(v) /\ Building(v)' = Building(v)
  BY DEF Group, Building
<1>2. Prepares(v)'
  <2> SUFFICES ASSUME NEW g \in Groups, wk'[v].pc \in {"gate", "layout", "charge"}, Group(v)' = g
               PROVE  Untouched(g)'
    BY <1>1 DEF Prepares
  <2>1. Same(g) /\ Untouched(g)
    BY <1>1 DEF Prepares
  <2> QED BY <2>1, SameBooks
<1>3. Makes(v)'
  <2> SUFFICES ASSUME NEW g \in Groups, Building(v)', Group(v)' = g PROVE Making(v, g)'
    BY DEF Makes
  <2>1. Building(v) /\ Group(v) = g
    BY <1>1
  <2>2. Same(g) /\ fresh'[g] = fresh[g]
    BY <2>1 DEF Building
  <2>3. Live(g)'
    BY <2>1, <2>2, SameBooks DEF Makes, Making
  <2> QED BY <2>1, <2>2, <2>3 DEF Makes, Making, Same
<1> QED BY <1>2, <1>3

\* ... and so does a reaper.
LEMMA OutsideReaper ==
  ASSUME NEW v \in Workers, Reaps(v),
         wk'[v].pc = wk[v].pc, wk'[v].seen = wk[v].seen,
         \A g \in Groups, s \in Slides : <<g, s>> \in wk[v].seen =>
           /\ Same(g) /\ fresh'[g] = 0
           /\ Made(g) => Made(g)'
  PROVE  Reaps(v)'
<1>1. ASSUME NEW g \in Groups, NEW s \in Slides, <<g, s>> \in wk'[v].seen
      PROVE  /\ fresh'[g] = 0 /\ Live(g)' /\ Exact(g)'
             /\ status'[g][s] \in {"generating", "failed"}
  <2>1. /\ Live(g) /\ Exact(g) /\ status[g][s] \in {"generating", "failed"}
        /\ Same(g) /\ fresh'[g] = 0 /\ (Made(g) => Made(g)')
    BY <1>1 DEF Reaps
  <2>2. Live(g)' /\ Exact(g)'
    BY <2>1, SameBooks
  <2> QED BY <2>1, <2>2 DEF Same
<1>2. wk'[v].pc # "reap" => wk'[v].seen = {}
  BY DEF Reaps
<1> QED BY <1>1, <1>2 DEF Reaps

\* All of it: a step of w that touches nothing but its own group, or nothing at
\* all, leaves to prove what it does to that group and to w.
LEMMA Outside ==
  ASSUME TypeInv, Alone, BooksInv, NEW w \in Workers, NEW H,
         H = {} \/ (H = {Group(w)} /\ wk[w].pc \notin {"idle", "reap"}),
         \A g \in Groups : g \notin H => Same(g) /\ fresh'[g] = fresh[g],
         \A v \in Workers : v # w => wk'[v] = wk[v],
         \A v \in Workers, g \in Groups, s \in Slides : g \in H => <<g, s>> \notin wk[v].seen,
         Building(w) /\ Group(w) \notin H => Building(w)' /\ Group(w)' = Group(w)
  PROVE  /\ \A g \in Groups : g \notin H => Books(g)'
         /\ \A v \in Workers : v # w => Prepares(v)' /\ Makes(v)' /\ Reaps(v)'
         /\ wk'[w].seen = {} => Reaps(w)'
         /\ (\A r \in Requests : req'[r].tries = req[r].tries) => Unused'
<1>1. /\ \A v \in Workers : Turn(v)
      /\ wk \in [Workers -> Worker] /\ req \in [Requests -> Request]
  BY DEF TypeInv, TypeOK
<1>2. ASSUME NEW g \in Groups, g \notin H PROVE Books(g)' /\ (Made(g) => Made(g)')
  <2>1. Books(g) /\ Same(g)
    BY <1>2 DEF BooksInv
  <2> QED BY <1>2, <2>1, OutsideBooks
<1>3. ASSUME NEW v \in Workers, v # w PROVE Prepares(v)' /\ Makes(v)' /\ Reaps(v)'
  <2>1. Prepares(v) /\ Makes(v) /\ Reaps(v) /\ wk'[v] = wk[v]
    BY <1>3 DEF BooksInv
  <2>2. ASSUME NEW g \in Groups, g = Group(v), wk[v].pc \notin {"idle", "reap", "answer"}
        PROVE  Same(g) /\ fresh'[g] = fresh[g]
    <3>1. wk[v].req # NoRequest
      BY <1>1, <2>2 DEF Turn
    <3>2. CASE H = {Group(w)} /\ wk[w].pc \notin {"idle", "reap"}
      <4>1. Group(v) # Group(w)
        BY <1>3, <3>1 DEF Alone, Group
      <4> QED BY <2>2, <3>2, <4>1
    <3> QED BY <3>2
  <2>3. Prepares(v)' /\ Makes(v)'
    BY <2>1, <2>2, OutsideMaker
  <2>4. ASSUME NEW g \in Groups, NEW s \in Slides, <<g, s>> \in wk[v].seen
        PROVE  Same(g) /\ fresh'[g] = 0 /\ (Made(g) => Made(g)')
    <3>1. g \notin H
      BY <2>4
    <3>2. fresh[g] = 0
      BY <2>1, <2>4 DEF Reaps
    <3> QED BY <1>2, <3>1, <3>2
  <2>5. Reaps(v)'
    BY <2>1, <2>4, OutsideReaper
  <2> QED BY <2>3, <2>5
<1>4. wk'[w].seen = {} => Reaps(w)'
  BY DEF Reaps
<1>5. ASSUME \A r \in Requests : req'[r].tries = req[r].tries PROVE Unused'
  <2> SUFFICES ASSUME NEW r \in Requests, NEW n \in 1..MAX_ATTEMPTS, n > req'[r].tries,
                      NEW g, g = <<r, n>>
               PROVE  Untouched(g)'
    BY DEF Unused
  <2>1. g \in Groups /\ n > req[r].tries
    BY <1>5 DEF Groups
  <2>2. Untouched(g)
    BY <2>1 DEF BooksInv, Unused
  <2>3. g \notin H
    <3>1. CASE H = {Group(w)} /\ wk[w].pc \notin {"idle", "reap"}
      <4>1. wk[w].req \in Requests /\ wk[w].attempt \in 1..req[wk[w].req].tries
        BY <1>1, <3>1, GroupOfTurn DEF Turn
      <4>2. req[wk[w].req].tries \in Nat /\ req[r].tries \in Nat
        BY <1>1, <4>1 DEF Request
      <4> QED BY <2>1, <3>1, <4>1, <4>2 DEF Group
    <3> QED BY <3>1
  <2> QED BY <2>1, <2>2, <2>3, SameBooks
<1> QED BY <1>2, <1>3, <1>4, <1>5

\* A reaper never holds a row of a group that somebody is about to pay for ...
LEMMA UnpaidUnseen ==
  ASSUME BooksInv, NEW w \in Workers, wk[w].pc \in {"gate", "layout", "charge"},
         NEW g \in Groups, g = Group(w), NEW v \in Workers, NEW s \in Slides
  PROVE  <<g, s>> \notin wk[v].seen
<1>1. Untouched(g)
  BY DEF BooksInv, Prepares
<1>2. <<g, s>> \in wk[v].seen => Live(g)
  BY DEF BooksInv, Reaps
<1> QED BY <1>1, <1>2 DEF Untouched, Live

\* ... nor, while turns are shorter than STUCK_AFTER, of one that is being made.
LEMMA MadeUnseen ==
  ASSUME TypeInv, BooksInv, Timely, NEW w \in Workers, Building(w),
         NEW g \in Groups, g = Group(w)
  PROVE  /\ fresh[g] > 0
         /\ \A v \in Workers, s \in Slides : <<g, s>> \notin wk[v].seen
<1>1. fresh[g] \in Nat /\ wk[w] \in Worker /\ Turn(w)
  BY DEF TypeInv, TypeOK
<1>2. wk[w].ran \in Nat /\ wk[w].ran <= MAX_RUN
  BY <1>1 DEF Worker, Turn
<1>3. fresh[g] + wk[w].ran >= STUCK_AFTER
  BY DEF BooksInv, Makes, Making
<1>4. fresh[g] > 0
  BY <1>1, <1>2, <1>3, BillingConstants DEF Timely
<1> QED BY <1>4 DEF BooksInv, Reaps

-----------------------------------------------------------------------------
(* Steps that move no money and write no row *)

Quiet == UNCHANGED <<ledger, status, billed, fresh>>

\* They leave every group as it was.
LEMMA QuietSame == ASSUME Quiet, NEW g \in Groups PROVE Same(g) /\ fresh'[g] = fresh[g]
  BY DEF Quiet, Same

\* Claims and clocks of the queue, and payments, which have keys of their own.
LEMMA StillStep ==
  ASSUME BooksInv, wk' = wk, fresh' = fresh, \A g \in Groups : Same(g),
         \A r \in Requests : req'[r].tries = req[r].tries
  PROVE  BooksInv'
<1>1. ASSUME NEW g \in Groups PROVE Books(g)' /\ (Made(g) => Made(g)')
  <2>1. Made(g) => Made(g)'
    BY DEF Made, Building, Group
  <2>2. Books(g) /\ Same(g)
    BY DEF BooksInv
  <2> QED BY <2>1, <2>2, SameBooks DEF Books
<1>2. ASSUME NEW v \in Workers PROVE Prepares(v)' /\ Makes(v)' /\ Reaps(v)'
  <2>1. Prepares(v) /\ Makes(v) /\ Reaps(v)
    BY DEF BooksInv
  <2>2. Prepares(v)' /\ Makes(v)'
    BY <2>1, OutsideMaker
  <2>3. Reaps(v)'
    <3>1. ASSUME NEW g \in Groups, NEW s \in Slides, <<g, s>> \in wk[v].seen
          PROVE  Same(g) /\ fresh'[g] = 0 /\ (Made(g) => Made(g)')
      BY <1>1, <2>1, <3>1 DEF Reaps
    <3> QED BY <2>1, <3>1, OutsideReaper
  <2> QED BY <2>2, <2>3
<1>3. Unused'
  <2> SUFFICES ASSUME NEW r \in Requests, NEW n \in 1..MAX_ATTEMPTS, n > req'[r].tries,
                      NEW g, g = <<r, n>>
               PROVE  Untouched(g)'
    BY DEF Unused
  <2>1. g \in Groups /\ Untouched(g)
    BY DEF Groups, BooksInv, Unused
  <2> QED BY <2>1, SameBooks
<1> QED BY <1>1, <1>2, <1>3 DEF BooksInv

\* A turn that has not paid yet goes on, or stops.
LEMMA PrepareStep ==
  ASSUME TypeInv, Alone, BooksInv, NEW w \in Workers, NEW p \in {"layout", "charge", "answer"},
         wk[w].pc \in {"gate", "layout", "charge"},
         Moves(w, p, wk[w].todo, wk[w].bad, wk[w].seen), Quiet, req' = req
  PROVE  BooksInv'
<1>1. wk'[w].seen = {}
  BY DEF BooksInv, Reaps, Moves
<1>2. \A v \in Workers : v # w => wk'[v] = wk[v]
  BY DEF Moves
<1>3. ~Building(w) /\ ~Building(w)' /\ Group(w)' = Group(w)
  BY DEF Building, Moves, Group
<1>4. /\ \A g \in Groups : Books(g)'
      /\ \A v \in Workers : v # w => Prepares(v)' /\ Makes(v)' /\ Reaps(v)'
      /\ Reaps(w)' /\ Unused'
  BY <1>1, <1>2, <1>3, QuietSame, Outside
<1>5. Prepares(w)'
  <2>b. wk'[w].bad = {}
    BY DEF BooksInv, Prepares, Moves
  <2> SUFFICES ASSUME NEW g \in Groups, Group(w)' = g PROVE Untouched(g)'
    BY <2>b DEF Prepares
  <2>1. Untouched(g)
    BY <1>3 DEF BooksInv, Prepares
  <2> QED BY <2>1, QuietSame, SameBooks
<1>6. Makes(w)'
  BY <1>3 DEF Makes, Making
<1> QED BY <1>4, <1>5, <1>6 DEF BooksInv

\* A turn that is not making anything ends, by its answer or by a crash; so does
\* a reaper that is lost.
LEMMA EndStep ==
  ASSUME TypeInv, Alone, BooksInv, NEW w \in Workers, ~Building(w),
         wk' = [wk EXCEPT ![w] = Idle], Quiet,
         \A r \in Requests : req'[r].tries = req[r].tries
  PROVE  BooksInv'
<1>1. wk'[w] = Idle /\ \A v \in Workers : v # w => wk'[v] = wk[v]
  BY DEF TypeInv, TypeOK
<1>2. ~Building(w)' /\ wk'[w].seen = {} /\ wk'[w].pc = "idle"
  BY <1>1 DEF Building, Idle
<1>3. /\ \A g \in Groups : Books(g)'
      /\ \A v \in Workers : v # w => Prepares(v)' /\ Makes(v)' /\ Reaps(v)'
      /\ Reaps(w)' /\ Unused'
  BY <1>1, <1>2, QuietSame, Outside
<1>4. Prepares(w)' /\ Makes(w)'
  BY <1>2 DEF Prepares, Makes, Making
<1> QED BY <1>3, <1>4 DEF BooksInv

\* A maker is lost, or its transaction refused: the rows stay as they are, and
\* no slide has failed yet unless it happens in "mark".
LEMMA LeaveStep ==
  ASSUME TypeInv, Alone, BooksInv, Timely, NEW w \in Workers, Building(w),
         wk[w].pc \in FAULTS_AT,
         \A v \in Workers : v # w => wk'[v] = wk[v],
         wk'[w].pc \in {"idle", "answer"}, wk'[w].seen = {}, Quiet, req' = req
  PROVE  BooksInv'
<1>1. wk[w].pc \in {"build", "mark"}
  BY DEF Building
<1>2. PICK g \in Groups : g = Group(w)
  BY <1>1, GroupOfTurn
<1> DEFINE H == {g}
<1>3. \A v \in Workers, h \in Groups, s \in Slides : h \in H => <<h, s>> \notin wk[v].seen
  BY <1>2, MadeUnseen
<1>4. /\ H = {Group(w)} /\ wk[w].pc \notin {"idle", "reap"}
      /\ Group(w) \in H
  BY <1>1, <1>2
<1> HIDE DEF H
<1>5. /\ \A h \in Groups : h \notin H => Books(h)'
      /\ \A v \in Workers : v # w => Prepares(v)' /\ Makes(v)' /\ Reaps(v)'
      /\ Reaps(w)' /\ Unused'
  BY <1>3, <1>4, QuietSame, Outside
<1>6. Books(g)'
  <2>1. Live(g)'
    BY <1>2, QuietSame, SameBooks DEF BooksInv, Makes, Making
  <2>2. Exact(g)'
    <3>1. CASE wk[w].pc = "mark"
      BY <3>1 DEF Exact
    <3>2. CASE wk[w].pc = "build"
      <4>1. \A s \in Slides : status[g][s] # "failed"
        BY <1>2, <3>2 DEF BooksInv, Makes, Making, Building
      <4> QED BY <4>1 DEF Exact, Quiet
    <3> QED BY <1>1, <3>1, <3>2
  <2> QED BY <2>1, <2>2 DEF Books
<1>7. Prepares(w)' /\ Makes(w)'
  BY DEF Prepares, Makes, Making, Building
<1> QED BY <1>5, <1>6, <1>7 DEF BooksInv, H

\* An attempt is claimed that nobody has made before.
LEMMA BeginStep ==
  ASSUME TypeInv, Alone, BooksInv, NEW w \in Workers, NEW r \in Requests, BeginTurn(w, r)
  PROVE  BooksInv'
<1>1. /\ wk'[w].pc = "gate" /\ wk'[w].req = r /\ wk'[w].attempt = req[r].tries + 1
      /\ wk'[w].seen = {} /\ wk'[w].bad = {} /\ req'[r].tries = req[r].tries + 1
      /\ req[r].tries + 1 \in 1..MAX_ATTEMPTS
      /\ \A v \in Workers : v # w => wk'[v] = wk[v]
      /\ \A q \in Requests : q # r => req'[q] = req[q]
  BY BeginTypeInv
<1>2. wk[w].pc = "idle" /\ Quiet /\ ~Building(w) /\ ~Building(w)'
  BY <1>1 DEF BeginTurn, Quiet, Building
<1>3. /\ \A g \in Groups : Books(g)'
      /\ \A v \in Workers : v # w => Prepares(v)' /\ Makes(v)' /\ Reaps(v)'
      /\ Reaps(w)'
  BY <1>1, <1>2, QuietSame, Outside
<1>4. \A q \in Requests : req[q].tries \in Nat
  BY DEF TypeInv, TypeOK, Request
<1>5. ASSUME NEW q \in Requests, NEW n \in 1..MAX_ATTEMPTS, n > req[q].tries,
             NEW g, g = <<q, n>>
      PROVE  g \in Groups /\ Untouched(g)'
  <2>1. g \in Groups /\ Untouched(g)
    BY <1>5 DEF Groups, BooksInv, Unused
  <2> QED BY <1>2, <2>1, QuietSame, SameBooks
<1>6. Unused'
  <2> SUFFICES ASSUME NEW q \in Requests, NEW n \in 1..MAX_ATTEMPTS, n > req'[q].tries,
                      NEW g, g = <<q, n>>
               PROVE  Untouched(g)'
    BY DEF Unused
  <2>1. n > req[q].tries
    BY <1>1, <1>4
  <2> QED BY <1>5, <2>1
<1>7. Prepares(w)'
  <2> SUFFICES ASSUME NEW g \in Groups, Group(w)' = g PROVE Untouched(g)'
    BY <1>1 DEF Prepares
  <2>1. g = <<r, req[r].tries + 1>>
    BY <1>1 DEF Group
  <2> QED BY <1>1, <1>4, <1>5, <2>1
<1>8. Makes(w)'
  BY <1>2 DEF Makes, Making
<1> QED BY <1>3, <1>6, <1>7, <1>8 DEF BooksInv

\* What a reaper finds stuck was charged and has been left by its maker.
LEMMA ReapReadStep ==
  ASSUME TypeInv, Alone, BooksInv, NEW w \in Workers, ReapRead(w)
  PROVE  BooksInv'
<1>1. /\ Moves(w, "reap", wk[w].todo, wk[w].bad, Stuck) /\ wk[w].pc = "idle"
      /\ Quiet /\ req' = req
  BY ReapReadMoves DEF Quiet
<1>2. /\ wk'[w].pc = "reap" /\ wk'[w].seen = Stuck
      /\ \A v \in Workers : v # w => wk'[v] = wk[v]
  BY <1>1 DEF Moves
<1>3. ~Building(w) /\ ~Building(w)'
  BY <1>1, <1>2 DEF Building
<1>4. /\ \A g \in Groups : Books(g)'
      /\ \A v \in Workers : v # w => Prepares(v)' /\ Makes(v)' /\ Reaps(v)'
      /\ Unused'
  <2>1. /\ Quiet /\ \A r \in Requests : req'[r].tries = req[r].tries
        /\ \A v \in Workers : v # w => wk'[v] = wk[v]
    BY <1>1, <1>2
  <2> DEFINE H == {}
  <2>2. /\ H = {} \/ (H = {Group(w)} /\ wk[w].pc \notin {"idle", "reap"})
        /\ \A v \in Workers, g \in Groups, s \in Slides : g \in H => <<g, s>> \notin wk[v].seen
        /\ \A g \in Groups : g \notin H
    OBVIOUS
  <2>3. \A g \in Groups : g \notin H => Same(g) /\ fresh'[g] = fresh[g]
    BY <2>1, QuietSame
  <2> HIDE DEF H
  <2> QED BY <1>3, <2>1, <2>2, <2>3, Outside
<1>5. Prepares(w)' /\ Makes(w)'
  BY <1>2, <1>3 DEF Prepares, Makes, Making
<1>6. Reaps(w)'
  <2>1. ASSUME NEW g \in Groups, NEW s \in Slides, <<g, s>> \in Stuck
        PROVE  /\ fresh'[g] = 0 /\ Live(g)' /\ Exact(g)'
               /\ status'[g][s] \in {"generating", "failed"}
    <3>1. fresh'[g] = 0 /\ status'[g][s] = "generating"
      BY <1>1, <2>1 DEF Stuck, Quiet
    <3>2. Live(g)' /\ Exact(g)'
      BY <1>4, <3>1 DEF Books, Untouched, Unpaid, Closed
    <3> QED BY <3>1, <3>2
  <2> QED BY <1>2, <2>1 DEF Reaps
<1> QED BY <1>4, <1>5, <1>6 DEF BooksInv

\* A step of the maker of g that nobody else sees.
LEMMA MakerStep ==
  ASSUME TypeInv, Alone, BooksInv, Timely, NEW w \in Workers, NEW g \in Groups, g = Group(w),
         Building(w), \A v \in Workers : v # w => wk'[v] = wk[v],
         wk'[w].seen = {}, wk'[w].pc \in {"build", "mark", "answer"},
         \A h \in Groups : h # g => Same(h) /\ fresh'[h] = fresh[h],
         \A r \in Requests : req'[r].tries = req[r].tries,
         Books(g)', Makes(w)'
  PROVE  BooksInv'
<1> DEFINE H == {g}
<1>1. wk[w].pc \in {"build", "mark"}
  BY DEF Building
<1>2. \A v \in Workers, h \in Groups, s \in Slides : h \in H => <<h, s>> \notin wk[v].seen
  BY MadeUnseen
<1>3. /\ H = {Group(w)} /\ wk[w].pc \notin {"idle", "reap"} /\ Group(w) \in H
      /\ \A h \in Groups : h \notin H => Same(h) /\ fresh'[h] = fresh[h]
  BY <1>1
<1>4. \A h \in Groups : h \in H => h = g
  OBVIOUS
<1> HIDE DEF H
<1>5. /\ \A h \in Groups : h \notin H => Books(h)'
      /\ \A v \in Workers : v # w => Prepares(v)' /\ Makes(v)' /\ Reaps(v)'
      /\ Reaps(w)' /\ Unused'
  BY <1>2, <1>3, Outside
<1>6. \A h \in Groups : Books(h)'
  <2> SUFFICES ASSUME NEW h \in Groups PROVE Books(h)'
    OBVIOUS
  <2>1. CASE h = g
    BY <2>1
  <2>2. CASE h # g
    BY <1>4, <1>5, <2>2
  <2> QED BY <2>1, <2>2
<1>7. Prepares(w)'
  BY DEF Prepares
<1> QED BY <1>5, <1>6, <1>7 DEF BooksInv

\* The slides of a making come out one by one, good ...
LEMMA SlideReadyStep ==
  ASSUME TypeInv, Alone, BooksInv, Timely, NEW w \in Workers, NEW s \in Slides, SlideReady(w, s)
  PROVE  BooksInv'
<1>1. /\ wk[w].pc = "build" /\ Moves(w, "build", wk[w].todo \ {s}, wk[w].bad, wk[w].seen)
      /\ s \in wk[w].todo /\ status' = [status EXCEPT ![Group(w)][s] = "ready"]
      /\ UNCHANGED <<ledger, billed, fresh, req>>
  BY MakeMoves DEF SlideReady
<1>2. PICK g \in Groups : g = Group(w)
  BY <1>1, GroupOfTurn
<1>t. status \in [Groups -> [Slides -> SlideStatus]]
  BY DEF TypeInv, TypeOK
<1>3. \A h \in Groups : h # g => Same(h) /\ fresh'[h] = fresh[h]
  BY <1>1, <1>2, <1>t DEF Same
<1>4. /\ \A t \in Slides : status'[g][t] = IF t = s THEN "ready" ELSE status[g][t]
      /\ \A k : ledger'[k] = ledger[k]
      /\ billed'[g] = billed[g] /\ fresh'[g] = fresh[g]
  BY <1>1, <1>2, <1>t
<1>5. /\ wk'[w].pc = "build" /\ wk'[w].todo = wk[w].todo \ {s} /\ wk'[w].bad = wk[w].bad
      /\ wk'[w].ran = wk[w].ran /\ wk'[w].seen = {} /\ Group(w)' = g
      /\ Building(w) /\ Building(w)'
      /\ \A v \in Workers : v # w => wk'[v] = wk[v]
  BY <1>1, <1>2 DEF Moves, Group, Building, BooksInv, Reaps
<1>6. /\ Live(g) /\ \A t \in Slides : ledger[StuckKey(g, t)] = 0
      /\ fresh[g] + wk[w].ran >= STUCK_AFTER
      /\ wk[w].todo \intersect wk[w].bad = {}
      /\ \A t \in Slides : status[g][t] = IF t \in wk[w].todo \union wk[w].bad
                                         THEN "generating" ELSE "ready"
  BY <1>1, <1>2, <1>5 DEF BooksInv, Makes, Making
<1>7. Live(g)'
  BY <1>4, <1>6 DEF Live
<1>8. Exact(g)'
  BY <1>5 DEF Exact, Made
<1>9. Makes(w)'
  <2>1. /\ wk'[w].todo \intersect wk'[w].bad = {}
        /\ \A t \in Slides : status'[g][t] = IF t \in wk'[w].todo \union wk'[w].bad
                                           THEN "generating" ELSE "ready"
    BY <1>1, <1>4, <1>5, <1>6
  <2> QED BY <1>4, <1>5, <1>6, <1>7, <2>1 DEF Makes, Making
<1>10. Books(g)'
  BY <1>7, <1>8 DEF Books
<1>11. \A r \in Requests : req'[r].tries = req[r].tries
  BY <1>1
<1> QED BY <1>2, <1>3, <1>5, <1>9, <1>10, <1>11, MakerStep

\* ... or bad.
LEMMA SlideBadStep ==
  ASSUME TypeInv, Alone, BooksInv, Timely, NEW w \in Workers, NEW s \in Slides, SlideBad(w, s)
  PROVE  BooksInv'
<1>1. /\ wk[w].pc = "build"
      /\ Moves(w, "build", wk[w].todo \ {s}, wk[w].bad \union {s}, wk[w].seen)
      /\ s \in wk[w].todo /\ Quiet /\ req' = req
  BY MakeMoves DEF SlideBad, Quiet
<1>2. PICK g \in Groups : g = Group(w)
  BY <1>1, GroupOfTurn
<1>3. \A h \in Groups : Same(h) /\ fresh'[h] = fresh[h]
  BY <1>1, QuietSame
<1>5. /\ wk'[w].pc = "build" /\ wk'[w].todo = wk[w].todo \ {s}
      /\ wk'[w].bad = wk[w].bad \union {s}
      /\ wk'[w].ran = wk[w].ran /\ wk'[w].seen = {} /\ Group(w)' = g
      /\ Building(w) /\ Building(w)'
      /\ \A v \in Workers : v # w => wk'[v] = wk[v]
  BY <1>1, <1>2 DEF Moves, Group, Building, BooksInv, Reaps
<1>6. /\ Live(g) /\ \A t \in Slides : ledger[StuckKey(g, t)] = 0
      /\ fresh[g] + wk[w].ran >= STUCK_AFTER
      /\ wk[w].todo \intersect wk[w].bad = {}
      /\ \A t \in Slides : status[g][t] = IF t \in wk[w].todo \union wk[w].bad
                                         THEN "generating" ELSE "ready"
  BY <1>1, <1>2, <1>5 DEF BooksInv, Makes, Making
<1>7. Live(g)' /\ Exact(g)'
  BY <1>3, <1>5, <1>6, SameBooks DEF Exact, Made
<1>8. Makes(w)'
  <2>1. /\ wk'[w].todo \intersect wk'[w].bad = {}
        /\ \A t \in Slides : status'[g][t] = IF t \in wk'[w].todo \union wk'[w].bad
                                           THEN "generating" ELSE "ready"
    BY <1>1, <1>3, <1>5, <1>6 DEF Same
  <2>2. \A t \in Slides : ledger'[StuckKey(g, t)] = 0
    BY <1>3, <1>6 DEF Same
  <2> QED BY <1>3, <1>5, <1>6, <1>7, <2>1, <2>2 DEF Makes, Making
<1>9. Books(g)'
  BY <1>7 DEF Books
<1>10. \A r \in Requests : req'[r].tries = req[r].tries
  BY <1>1
<1> QED BY <1>2, <1>3, <1>5, <1>8, <1>9, <1>10, MakerStep

\* All slides are there, and the bad ones are still generating.
LEMMA GatheredStep ==
  ASSUME TypeInv, Alone, BooksInv, Timely, NEW w \in Workers, Gathered(w)
  PROVE  BooksInv'
<1>1. /\ wk[w].pc = "build"
      /\ Moves(w, "mark", wk[w].bad, wk[w].bad, wk[w].seen)
      /\ wk[w].todo = {} /\ Quiet /\ req' = req
  BY MakeMoves DEF Gathered, Quiet
<1>2. PICK g \in Groups : g = Group(w)
  BY <1>1, GroupOfTurn
<1>3. \A h \in Groups : Same(h) /\ fresh'[h] = fresh[h]
  BY <1>1, QuietSame
<1>5. /\ wk'[w].pc = "mark" /\ wk'[w].todo = wk[w].bad /\ wk'[w].bad = wk[w].bad
      /\ wk'[w].ran = wk[w].ran /\ wk'[w].seen = {} /\ Group(w)' = g
      /\ Building(w) /\ Building(w)'
      /\ \A v \in Workers : v # w => wk'[v] = wk[v]
  BY <1>1, <1>2 DEF Moves, Group, Building, BooksInv, Reaps
<1>6. /\ Live(g) /\ \A t \in Slides : ledger[StuckKey(g, t)] = 0
      /\ fresh[g] + wk[w].ran >= STUCK_AFTER
      /\ \A t \in Slides : status[g][t] = IF t \in wk[w].todo \union wk[w].bad
                                         THEN "generating" ELSE "ready"
  BY <1>1, <1>2, <1>5 DEF BooksInv, Makes, Making
<1>7. Live(g)' /\ Exact(g)'
  BY <1>3, <1>5, <1>6, SameBooks DEF Exact, Made
<1>8. Makes(w)'
  <2>1. /\ wk'[w].todo \subseteq wk'[w].bad
        /\ \A t \in Slides : status'[g][t] = IF t \in wk'[w].todo THEN "generating"
                                           ELSE IF t \in wk'[w].bad THEN "failed" ELSE "ready"
    BY <1>1, <1>3, <1>5, <1>6 DEF Same
  <2>2. \A t \in Slides : ledger'[StuckKey(g, t)] = 0
    BY <1>3, <1>6 DEF Same
  <2> QED BY <1>3, <1>5, <1>6, <1>7, <2>1, <2>2 DEF Makes, Making
<1>9. Books(g)'
  BY <1>7 DEF Books
<1>10. \A r \in Requests : req'[r].tries = req[r].tries
  BY <1>1
<1> QED BY <1>2, <1>3, <1>5, <1>8, <1>9, <1>10, MakerStep

\* A bad slide is marked: charged, failed and not given back, for the moment.
LEMMA MarkFailedStep ==
  ASSUME TypeInv, Alone, BooksInv, Timely, NEW w \in Workers, MarkFailed(w)
  PROVE  BooksInv'
<1>1. PICK s \in wk[w].todo :
        /\ s \in Slides /\ wk[w].pc = "mark"
        /\ status' = [status EXCEPT ![Group(w)][s] = "failed"]
        /\ Moves(w, "mark", wk[w].todo \ {s}, wk[w].bad, wk[w].seen)
        /\ UNCHANGED <<ledger, billed, fresh, req>>
  BY MakeMoves DEF MarkFailed
<1>2. PICK g \in Groups : g = Group(w)
  BY <1>1, GroupOfTurn
<1>t. status \in [Groups -> [Slides -> SlideStatus]]
  BY DEF TypeInv, TypeOK
<1>3. \A h \in Groups : h # g => Same(h) /\ fresh'[h] = fresh[h]
  BY <1>1, <1>2, <1>t DEF Same
<1>4. /\ \A t \in Slides : status'[g][t] = IF t = s THEN "failed" ELSE status[g][t]
      /\ \A k : ledger'[k] = ledger[k]
      /\ billed'[g] = billed[g] /\ fresh'[g] = fresh[g]
  BY <1>1, <1>2, <1>t
<1>5. /\ wk'[w].pc = "mark" /\ wk'[w].todo = wk[w].todo \ {s} /\ wk'[w].bad = wk[w].bad
      /\ wk'[w].ran = wk[w].ran /\ wk'[w].seen = {} /\ Group(w)' = g
      /\ Building(w) /\ Building(w)'
      /\ \A v \in Workers : v # w => wk'[v] = wk[v]
  BY <1>1, <1>2 DEF Moves, Group, Building, BooksInv, Reaps
<1>6. /\ Live(g) /\ \A t \in Slides : ledger[StuckKey(g, t)] = 0
      /\ fresh[g] + wk[w].ran >= STUCK_AFTER
      /\ wk[w].todo \subseteq wk[w].bad
      /\ \A t \in Slides : status[g][t] = IF t \in wk[w].todo THEN "generating"
                                         ELSE IF t \in wk[w].bad THEN "failed" ELSE "ready"
  BY <1>1, <1>2, <1>5 DEF BooksInv, Makes, Making
<1>7. Live(g)'
  BY <1>4, <1>6 DEF Live
<1>8. Exact(g)'
  BY <1>5 DEF Exact, Made
<1>9. Makes(w)'
  <2>1. /\ wk'[w].todo \subseteq wk'[w].bad
        /\ \A t \in Slides : status'[g][t] = IF t \in wk'[w].todo THEN "generating"
                                           ELSE IF t \in wk'[w].bad THEN "failed" ELSE "ready"
    BY <1>1, <1>4, <1>5, <1>6
  <2> QED BY <1>4, <1>5, <1>6, <1>7, <2>1 DEF Makes, Making
<1>10. Books(g)'
  BY <1>7, <1>8 DEF Books
<1>11. \A r \in Requests : req'[r].tries = req[r].tries
  BY <1>1
<1> QED BY <1>2, <1>3, <1>5, <1>9, <1>10, <1>11, MakerStep

\* An entry under a key of g leaves the other groups alone.
LEMMA EntryOutside ==
  ASSUME TypeOK, NEW g \in Groups, NEW h \in Groups, h # g, NEW k,
         k \in {ChargeKey(g), FailedKey(g), PartialKey(g)},
         \A j \in Keys : j # k => ledger'[j] = ledger[j],
         status'[h] = status[h], billed'[h] = billed[h]
  PROVE  Same(h)
<1>1. /\ ChargeKey(h) \in Keys /\ FailedKey(h) \in Keys /\ PartialKey(h) \in Keys
      /\ \A s \in Slides : StuckKey(h, s) \in Keys
  BY KeysOfGroups
<1>2. /\ ChargeKey(h) # k /\ FailedKey(h) # k /\ PartialKey(h) # k
      /\ \A s \in Slides : StuckKey(h, s) # k
  BY KeysDiffer
<1> QED BY <1>1, <1>2 DEF Same

\* The charging transaction, paid or not.
LEMMA PayAndStartStep ==
  ASSUME TypeInv, Alone, BooksInv, NEW w \in Workers, PayAndStart(w)
  PROVE  BooksInv'
<1>a. wk[w].pc = "charge"
  BY DEF PayAndStart
<1>b. PICK g \in Groups : g = Group(w)
  BY <1>a, GroupOfTurn
<1>1. PICK B \in SUBSET Slides :
        /\ Cardinality(B) \in Nat
        /\ billed' = [billed EXCEPT ![g] = B]
        /\ fresh' = [fresh EXCEPT ![g] = STUCK_AFTER]
        /\ req' = req
        /\ \/ /\ Charge(ChargeKey(g), Cardinality(B))
              /\ status' = [status EXCEPT ![g] = [s \in Slides |-> "generating"]]
              /\ Moves(w, "build", Slides, wk[w].bad, wk[w].seen)
           \/ /\ status' = [status EXCEPT ![g] = [s \in Slides |-> "failed"]]
              /\ ledger' = ledger
              /\ Moves(w, "answer", wk[w].todo, wk[w].bad, wk[w].seen)
  BY <1>b, PayCases
<1>t. /\ status \in [Groups -> [Slides -> SlideStatus]] /\ ledger \in [Keys -> Int]
      /\ billed \in [Groups -> SUBSET Slides] /\ fresh \in [Groups -> Nat] /\ TypeOK
  BY DEF TypeInv, TypeOK
<1>2. Untouched(g) /\ wk[w].seen = {} /\ wk[w].bad = {}
  BY <1>a, <1>b DEF BooksInv, Prepares, Reaps
<1>3. \/ ledger' = ledger
      \/ ledger' = [ledger EXCEPT ![ChargeKey(g)] = -Cardinality(B)]
  BY <1>1 DEF Charge
<1>4. \A j \in Keys : j # ChargeKey(g) => ledger'[j] = ledger[j]
  BY <1>t, <1>3
<1>5. \A h \in Groups : h # g => Same(h) /\ fresh'[h] = fresh[h]
  <2> SUFFICES ASSUME NEW h \in Groups, h # g PROVE Same(h) /\ fresh'[h] = fresh[h]
    OBVIOUS
  <2>1. status'[h] = status[h] /\ billed'[h] = billed[h] /\ fresh'[h] = fresh[h]
    BY <1>t, <1>1
  <2> QED BY <1>t, <1>4, <2>1, EntryOutside
<1>6. /\ \A v \in Workers : v # w => wk'[v] = wk[v]
      /\ wk'[w].seen = {} /\ Group(w)' = g /\ ~Building(w) /\ wk'[w].ran = wk[w].ran
      /\ wk'[w].pc \in {"build", "answer"}
  BY <1>a, <1>b, <1>1, <1>2 DEF Moves, Group, Building
<1> DEFINE H == {g}
<1>7. /\ H = {Group(w)} /\ wk[w].pc \notin {"idle", "reap"}
      /\ \A h \in Groups : h \notin H => Same(h) /\ fresh'[h] = fresh[h]
      /\ \A h \in Groups : h \in H => h = g
  BY <1>a, <1>b, <1>5
<1>8. \A v \in Workers, h \in Groups, s \in Slides : h \in H => <<h, s>> \notin wk[v].seen
  BY <1>a, <1>b, UnpaidUnseen
<1>9. \A r \in Requests : req'[r].tries = req[r].tries
  BY <1>1
<1> HIDE DEF H
<1>10. /\ \A h \in Groups : h \notin H => Books(h)'
       /\ \A v \in Workers : v # w => Prepares(v)' /\ Makes(v)' /\ Reaps(v)'
       /\ Reaps(w)' /\ Unused'
  BY <1>6, <1>7, <1>8, <1>9, Outside
<1>11. /\ ledger'[FailedKey(g)] = 0 /\ ledger'[PartialKey(g)] = 0
       /\ \A s \in Slides : ledger'[StuckKey(g, s)] = 0
       /\ ledger[ChargeKey(g)] = 0 /\ ChargeKey(g) \in Keys
  <2>1. /\ FailedKey(g) \in Keys /\ PartialKey(g) \in Keys /\ ChargeKey(g) \in Keys
        /\ \A s \in Slides : StuckKey(g, s) \in Keys
    BY KeysOfGroups
  <2>2. /\ FailedKey(g) # ChargeKey(g) /\ PartialKey(g) # ChargeKey(g)
        /\ \A s \in Slides : StuckKey(g, s) # ChargeKey(g)
    BY KeysDiffer
  <2>3. NoEntries(g)
    BY <1>2 DEF Untouched
  <2> QED BY <1>4, <2>1, <2>2, <2>3 DEF NoEntries
<1>12. ASSUME /\ Charge(ChargeKey(g), Cardinality(B))
              /\ status' = [status EXCEPT ![g] = [s \in Slides |-> "generating"]]
              /\ Moves(w, "build", Slides, wk[w].bad, wk[w].seen)
       PROVE  Books(g)' /\ Prepares(w)' /\ Makes(w)'
  <2>1. ledger'[ChargeKey(g)] = -Cardinality(B)
    BY <1>t, <1>1, <1>11, <1>12 DEF Charge, Entered
  <2>2. /\ \A s \in Slides : status'[g][s] = "generating"
        /\ billed'[g] = B /\ fresh'[g] = STUCK_AFTER
    BY <1>t, <1>1, <1>12
  <2>3. Live(g)'
    BY <1>11, <2>1, <2>2 DEF Live
  <2>4. Exact(g)'
    BY <2>2 DEF Exact
  <2>5. /\ wk'[w].pc = "build" /\ wk'[w].todo = Slides /\ wk'[w].bad = {}
        /\ wk'[w].ran \in Nat
    BY <1>2, <1>12 DEF Moves, TypeInv, TypeOK, Worker
  <2>6. fresh'[g] + wk'[w].ran >= STUCK_AFTER
    BY <2>2, <2>5, BillingConstants
  <2>7. Makes(w)'
    BY <1>6, <1>11, <2>2, <2>3, <2>5, <2>6 DEF Makes, Making
  <2>8. Prepares(w)'
    BY <2>5 DEF Prepares
  <2> QED BY <2>3, <2>4, <2>7, <2>8 DEF Books
<1>13. ASSUME /\ status' = [status EXCEPT ![g] = [s \in Slides |-> "failed"]]
              /\ ledger' = ledger
              /\ Moves(w, "answer", wk[w].todo, wk[w].bad, wk[w].seen)
       PROVE  Books(g)' /\ Prepares(w)' /\ Makes(w)'
  <2>1. Unpaid(g)'
    <3>1. NoEntries(g)'
      BY <1>11, <1>13 DEF NoEntries
    <3> QED BY <1>t, <1>13, <3>1 DEF Unpaid
  <2>2. wk'[w].pc = "answer"
    BY <1>13 DEF Moves
  <2>3. Prepares(w)' /\ Makes(w)'
    BY <2>2 DEF Prepares, Makes, Making, Building
  <2> QED BY <2>1, <2>3 DEF Books
<1>14. Books(g)' /\ Prepares(w)' /\ Makes(w)'
  BY <1>1, <1>12, <1>13
<1> QED BY <1>7, <1>10, <1>14 DEF BooksInv

\* generate gives back exactly the failed slides that were paid for.
LEMMA GiveBackStep ==
  ASSUME TypeInv, Alone, BooksInv, Timely, NEW w \in Workers, GiveBack(w)
  PROVE  BooksInv'
<1>1. wk[w].pc = "mark" /\ Moves(w, "answer", wk[w].todo, wk[w].bad, wk[w].seen)
  BY MakeMoves
<1>2. PICK g \in Groups : g = Group(w)
  BY <1>1, GroupOfTurn
<1> DEFINE key == IF wk[w].bad = Slides THEN FailedKey(g) ELSE PartialKey(g)
           due == IF wk[w].bad = Slides THEN billed[g] ELSE wk[w].bad \intersect billed[g]
<1>3. /\ due \in SUBSET Slides /\ key \in Keys /\ wk[w].todo = {}
      /\ \/ Cardinality(due) = 0 /\ UNCHANGED <<balance, ledger>>
         \/ Refund(key, Cardinality(due))
      /\ UNCHANGED <<status, billed, fresh, req, faults>>
  BY <1>2, GiveBackCases
<1>t. ledger \in [Keys -> Int] /\ billed \in [Groups -> SUBSET Slides] /\ TypeOK
  BY DEF TypeInv, TypeOK
<1>4. /\ wk'[w].pc = "answer" /\ wk'[w].seen = {} /\ Building(w) /\ ~Building(w)'
      /\ \A v \in Workers : v # w => wk'[v] = wk[v]
  BY <1>1 DEF Moves, Building, BooksInv, Reaps
<1>5. /\ Live(g) /\ \A s \in Slides : ledger[StuckKey(g, s)] = 0
      /\ \A s \in Slides : status[g][s] = IF s \in wk[w].bad THEN "failed" ELSE "ready"
  BY <1>1, <1>2, <1>3, <1>4 DEF BooksInv, Makes, Making
<1>6. key \in {FailedKey(g), PartialKey(g)} /\ ledger[key] = 0
  BY <1>5 DEF Live
<1>7. due = FailedBilled(g)
  BY <1>t, <1>5 DEF FailedBilled
<1>8. Cardinality(due) \in Nat
  BY <1>3, CountSlides
<1> HIDE DEF key, due
<1>9. ledger' = ledger \/ ledger' = [ledger EXCEPT ![key] = Cardinality(due)]
  BY <1>3 DEF Refund
<1>10. /\ ledger'[key] = Cardinality(due)
       /\ \A j \in Keys : j # key => ledger'[j] = ledger[j]
  BY <1>t, <1>3, <1>6, <1>8, <1>9 DEF Refund, Entered
<1>11. \A h \in Groups : h # g => Same(h) /\ fresh'[h] = fresh[h]
  <2> SUFFICES ASSUME NEW h \in Groups, h # g PROVE Same(h)
    BY <1>3
  <2>1. status'[h] = status[h] /\ billed'[h] = billed[h]
    BY <1>3
  <2>2. key \in {ChargeKey(g), FailedKey(g), PartialKey(g)}
    BY <1>6
  <2> QED BY <1>t, <1>10, <2>1, <2>2, EntryOutside
<1>12. Closed(g)'
  <2>1. /\ FailedKey(g) \in Keys /\ PartialKey(g) \in Keys /\ ChargeKey(g) \in Keys
        /\ \A s \in Slides : StuckKey(g, s) \in Keys
    BY KeysOfGroups
  <2>2. /\ FailedKey(g) # ChargeKey(g) /\ PartialKey(g) # ChargeKey(g)
        /\ FailedKey(g) # PartialKey(g)
        /\ \A s \in Slides : StuckKey(g, s) # FailedKey(g) /\ StuckKey(g, s) # PartialKey(g)
    BY KeysDiffer
  <2>3. /\ ledger'[ChargeKey(g)] = ledger[ChargeKey(g)]
        /\ \A s \in Slides : ledger'[StuckKey(g, s)] = 0
    BY <1>5, <1>6, <1>10, <2>1, <2>2
  <2>4. ledger[FailedKey(g)] = 0 /\ ledger[PartialKey(g)] = 0
    BY <1>5 DEF Live
  <2>5. ledger'[FailedKey(g)] + ledger'[PartialKey(g)] = Cardinality(due)
    BY <1>6, <1>8, <1>10, <2>1, <2>2, <2>4
  <2>6. FailedBilled(g)' = due /\ billed' = billed /\ status' = status
    BY <1>3, <1>7 DEF FailedBilled
  <2> QED BY <1>5, <2>3, <2>5, <2>6 DEF Live, Closed
<1>13. Books(g)' /\ Makes(w)'
  BY <1>4, <1>12 DEF Books, Makes, Making
<1>14. \A r \in Requests : req'[r].tries = req[r].tries
  BY <1>3
<1> QED BY <1>2, <1>4, <1>11, <1>13, <1>14, MakerStep

\* A payment's key is nobody else's.
LEMMA TopupStep ==
  ASSUME TypeInv, BooksInv, NEW p \in Payments, Topup(p)
  PROVE  BooksInv'
<1>1. ledger \in [Keys -> Int]
  BY DEF TypeInv, TypeOK
<1>2. UNCHANGED <<status, billed, fresh, req, wk>>
  BY DEF Topup
<1>3. \A j \in Keys : j # TopupKey(p) => ledger'[j] = ledger[j]
  BY <1>1, KeysOfPayments DEF Topup, Refund
<1>4. ASSUME NEW g \in Groups PROVE Same(g)
  <2>1. /\ ChargeKey(g) \in Keys /\ FailedKey(g) \in Keys /\ PartialKey(g) \in Keys
        /\ \A s \in Slides : StuckKey(g, s) \in Keys
    BY KeysOfGroups
  <2>2. /\ ChargeKey(g) # TopupKey(p) /\ FailedKey(g) # TopupKey(p)
        /\ PartialKey(g) # TopupKey(p) /\ \A s \in Slides : StuckKey(g, s) # TopupKey(p)
    BY KeysDiffer
  <2> QED BY <1>2, <1>3, <2>1, <2>2 DEF Same
<1> QED BY <1>2, <1>4, StillStep

\* Time makes a group older by as much as it takes from its maker.
LEMMA TickStep ==
  ASSUME TypeInv, Alone, BooksInv, Tick
  PROVE  BooksInv'
<1>1. /\ \A w \in Workers :
           /\ wk'[w].pc = wk[w].pc /\ wk'[w].req = wk[w].req
           /\ wk'[w].attempt = wk[w].attempt /\ wk'[w].todo = wk[w].todo
           /\ wk'[w].bad = wk[w].bad /\ wk'[w].seen = wk[w].seen
           /\ wk[w].ran \in Nat
           /\ wk[w].req # NoRequest => wk'[w].ran = wk[w].ran + 1
      /\ \A r \in Requests : req'[r].tries = req[r].tries
  BY TickMoves
<1>2. \A w \in Workers : Building(w)' = Building(w) /\ Group(w)' = Group(w)
  BY <1>1 DEF Building, Group
<1>3. UNCHANGED <<ledger, status, billed>>
  BY DEF Tick
<1>4. \A g \in Groups : Same(g) /\ (Made(g) => Made(g)')
  BY <1>2, <1>3 DEF Same, Made
<1>5. ASSUME NEW g \in Groups
      PROVE  /\ fresh[g] \in Nat /\ fresh'[g] \in Nat
             /\ fresh'[g] + 1 >= fresh[g] /\ (fresh[g] = 0 => fresh'[g] = 0)
  <2>1. fresh[g] \in Nat
    BY DEF TypeInv, TypeOK
  <2>2. fresh'[g] = Minus1(fresh[g])
    BY DEF Tick
  <2> QED BY <2>1, <2>2 DEF Minus1
<1>6. \A g \in Groups : Books(g)'
  BY <1>4, SameBooks DEF BooksInv, Books
<1>7. ASSUME NEW w \in Workers PROVE Prepares(w)'
  <2> SUFFICES ASSUME wk'[w].pc \in {"gate", "layout", "charge"}
               PROVE  wk'[w].bad = {} /\ \A g \in Groups : Group(w)' = g => Untouched(g)'
    BY DEF Prepares
  <2>1. wk[w].bad = {} /\ \A g \in Groups : Group(w) = g => Untouched(g)
    BY <1>1 DEF BooksInv, Prepares
  <2>2. ASSUME NEW g \in Groups, Group(w)' = g PROVE Untouched(g)'
    BY <1>2, <1>4, <2>1, <2>2, SameBooks
  <2> QED BY <1>1, <2>1, <2>2
<1>8. ASSUME NEW w \in Workers PROVE Makes(w)'
  <2> SUFFICES ASSUME NEW g \in Groups, Building(w)', Group(w)' = g PROVE Making(w, g)'
    BY DEF Makes
  <2>1. Building(w) /\ Group(w) = g
    BY <1>2
  <2>2. /\ Live(g) /\ \A s \in Slides : ledger[StuckKey(g, s)] = 0
        /\ fresh[g] + wk[w].ran >= STUCK_AFTER
    BY <2>1 DEF BooksInv, Makes, Making
  <2>3. Live(g)'
    BY <1>4, <2>2, SameBooks
  <2>4. wk[w].req # NoRequest
    BY <2>1 DEF TypeInv, Turn, Building
  <2>5. fresh'[g] + wk'[w].ran >= STUCK_AFTER
    BY <1>1, <1>5, <2>2, <2>4, BillingConstants
  <2>6. /\ wk[w].pc = "build" =>
             /\ wk[w].todo \intersect wk[w].bad = {}
             /\ \A s \in Slides : status[g][s] = IF s \in wk[w].todo \union wk[w].bad
                                                THEN "generating" ELSE "ready"
        /\ wk[w].pc = "mark" =>
             /\ wk[w].todo \subseteq wk[w].bad
             /\ \A s \in Slides : status[g][s] = IF s \in wk[w].todo THEN "generating"
                                                ELSE IF s \in wk[w].bad THEN "failed" ELSE "ready"
    BY <2>1 DEF BooksInv, Makes, Making
  <2> QED BY <1>1, <1>3, <2>2, <2>3, <2>5, <2>6 DEF Making
<1>9. ASSUME NEW w \in Workers PROVE Reaps(w)'
  <2>1. ASSUME NEW g \in Groups, NEW s \in Slides, <<g, s>> \in wk[w].seen
        PROVE  Same(g) /\ fresh'[g] = 0 /\ (Made(g) => Made(g)')
    BY <1>4, <1>5, <2>1 DEF BooksInv, Reaps
  <2>2. Reaps(w) /\ wk'[w].pc = wk[w].pc /\ wk'[w].seen = wk[w].seen
    BY <1>1 DEF BooksInv
  <2> QED BY <2>1, <2>2, OutsideReaper
<1>10. Unused'
  <2> SUFFICES ASSUME NEW r \in Requests, NEW n \in 1..MAX_ATTEMPTS, n > req'[r].tries,
                      NEW g, g = <<r, n>>
               PROVE  Untouched(g)'
    BY DEF Unused
  <2>1. g \in Groups /\ Untouched(g)
    BY <1>1 DEF Groups, BooksInv, Unused
  <2> QED BY <1>4, <2>1, SameBooks
<1> QED BY <1>6, <1>7, <1>8, <1>9, <1>10 DEF BooksInv

\* What a reaper gives back: a credit for each slide that it has read, that was billed
\* and that no reaper has given back.
Due(w) == {c \in wk[w].seen : c[2] \in billed[c[1]] /\ ~Entered(StuckKey(c[1], c[2]))}

LEMMA ReapEntries ==
  ASSUME TypeInv, NEW w \in Workers, ReapCommit(w), NEW g \in Groups
  PROVE  /\ Due(w) \in SUBSET (Groups \X Slides)
         /\ ledger'[ChargeKey(g)] = ledger[ChargeKey(g)]
         /\ ledger'[FailedKey(g)] = ledger[FailedKey(g)]
         /\ ledger'[PartialKey(g)] = ledger[PartialKey(g)]
         /\ \A s \in Slides : ledger'[StuckKey(g, s)] = IF <<g, s>> \in Due(w) THEN 1
                                                        ELSE ledger[StuckKey(g, s)]
<1>1. ledger' = [k \in Keys |-> IF \E c \in Due(w) : k = StuckKey(c[1], c[2])
                                THEN 1 ELSE ledger[k]]
  BY DEF ReapCommit, Due
<1>2. Due(w) \in SUBSET (Groups \X Slides)
  BY DEF TypeInv, TypeOK, Worker, Due
<1>3. \A c \in Due(w) : \E h \in Groups, s \in Slides : c = <<h, s>>
  BY <1>2
<1>4. /\ ChargeKey(g) \in Keys /\ FailedKey(g) \in Keys /\ PartialKey(g) \in Keys
      /\ \A s \in Slides : StuckKey(g, s) \in Keys
  BY KeysOfGroups
<1>5. \A h, s : /\ StuckKey(h, s) # ChargeKey(g) /\ StuckKey(h, s) # FailedKey(g)
                /\ StuckKey(h, s) # PartialKey(g)
  BY KeysDiffer
<1>6. ASSUME NEW s \in Slides
      PROVE  (\E c \in Due(w) : StuckKey(g, s) = StuckKey(c[1], c[2])) <=> <<g, s>> \in Due(w)
  <2>1. ASSUME NEW c \in Due(w), StuckKey(g, s) = StuckKey(c[1], c[2]) PROVE <<g, s>> \in Due(w)
    <3>1. PICK h \in Groups, t \in Slides : c = <<h, t>>
      BY <1>3
    <3>2. StuckKey(g, s) = StuckKey(h, t)
      BY <2>1, <3>1
    <3> QED BY <3>1, <3>2, KeysDiffer
  <2>2. ASSUME <<g, s>> \in Due(w) PROVE \E c \in Due(w) : StuckKey(g, s) = StuckKey(c[1], c[2])
    <3> DEFINE c == <<g, s>>
    <3>1. c \in Due(w) /\ StuckKey(g, s) = StuckKey(c[1], c[2])
      BY <2>2
    <3> QED BY <3>1
  <2> QED BY <2>1, <2>2
<1> QED BY <1>1, <1>2, <1>4, <1>5, <1>6

\* The reaper's commit: what it read is failed and, where paid for, given back
\* once, whoever else has been there meanwhile.
LEMMA ReapCommitStep ==
  ASSUME TypeInv, Alone, BooksInv, Timely, NEW w \in Workers, ReapCommit(w)
  PROVE  BooksInv'
<1> DEFINE S == wk[w].seen
           due == {c \in S : c[2] \in billed[c[1]] /\ ~Entered(StuckKey(c[1], c[2]))}
<1>1. /\ wk[w].pc = "reap" /\ wk' = [wk EXCEPT ![w] = Idle]
      /\ ledger' = [k \in Keys |-> IF \E c \in due : k = StuckKey(c[1], c[2])
                                    THEN 1 ELSE ledger[k]]
      /\ status' = [g \in Groups |-> [s \in Slides |->
                      IF <<g, s>> \in S THEN "failed" ELSE status[g][s]]]
      /\ UNCHANGED <<billed, fresh, req>>
  BY DEF ReapCommit
<1>e. TypeInv /\ ReapCommit(w)
  OBVIOUS
<1>t. /\ wk \in [Workers -> Worker] /\ status \in [Groups -> [Slides -> SlideStatus]]
      /\ \A v \in Workers : Turn(v)
      /\ S \in SUBSET (Groups \X Slides)
  BY DEF TypeInv, TypeOK, Worker
<1>2. \A g, s : <<g, s>> \in due <=> <<g, s>> \in S /\ s \in billed[g] /\ ledger[StuckKey(g, s)] = 0
  BY DEF Entered
<1> HIDE DEF S, due
<1>4. ASSUME NEW g \in Groups
      PROVE  /\ ledger'[ChargeKey(g)] = ledger[ChargeKey(g)]
             /\ ledger'[FailedKey(g)] = ledger[FailedKey(g)]
             /\ ledger'[PartialKey(g)] = ledger[PartialKey(g)]
             /\ \A s \in Slides : ledger'[StuckKey(g, s)] = IF <<g, s>> \in due THEN 1
                                                            ELSE ledger[StuckKey(g, s)]
  BY <1>e, ReapEntries DEF due, S, Due
<1>5. /\ wk'[w] = Idle /\ \A v \in Workers : v # w => wk'[v] = wk[v]
      /\ ~Building(w) /\ ~Building(w)' /\ wk'[w].pc = "idle" /\ wk'[w].seen = {}
  BY <1>1, <1>t DEF Building, Idle
<1>6. ASSUME NEW g \in Groups PROVE Made(g)' = Made(g)
  BY <1>5 DEF Made, Building, Group
<1>7. ASSUME NEW g \in Groups, \A s \in Slides : <<g, s>> \notin S
      PROVE  Same(g)
  <2>1. status'[g] = status[g]
    BY <1>1, <1>t, <1>7
  <2>2. \A s \in Slides : <<g, s>> \notin due
    BY <1>2, <1>7
  <2>3. billed'[g] = billed[g]
    BY <1>1
  <2> QED BY <1>4, <2>1, <2>2, <2>3 DEF Same
<1>8. ASSUME NEW g \in Groups, NEW t \in Slides, <<g, t>> \in S
      PROVE  /\ Live(g) /\ fresh[g] = 0
             /\ Live(g)' /\ Exact(g)'
  <2>1. Live(g) /\ Exact(g) /\ fresh[g] = 0
    BY <1>8 DEF BooksInv, Reaps, S
  <2>2. \A s \in Slides : status'[g][s] = IF <<g, s>> \in S THEN "failed" ELSE status[g][s]
    BY <1>1
  <2>3. billed' = billed
    BY <1>1
  <2>4. Live(g)'
    <3>1. ASSUME NEW s \in Slides
          PROVE  /\ status'[g][s] # "none"
                 /\ ledger'[StuckKey(g, s)] # 0 => s \in billed'[g] /\ status'[g][s] = "failed"
      <4>1. /\ status[g][s] # "none"
            /\ ledger[StuckKey(g, s)] # 0 => s \in billed[g] /\ status[g][s] = "failed"
        BY <2>1 DEF Live
      <4> QED BY <1>2, <1>4, <2>2, <2>3, <4>1
    <3> QED BY <1>4, <2>1, <2>3, <3>1 DEF Live
  <2>5. Exact(g)'
    <3> SUFFICES ASSUME "mark" \notin FAULTS_AT, ~Made(g)',
                        NEW s \in Slides, s \in billed'[g], status'[g][s] = "failed"
                 PROVE  ledger'[StuckKey(g, s)] # 0
      BY DEF Exact
    <3>1. s \in billed[g] /\ ~Made(g)
      BY <1>6, <2>3
    <3>2. CASE <<g, s>> \in S
      BY <1>2, <1>4, <3>1, <3>2
    <3>3. CASE <<g, s>> \notin S
      <4>1. ledger[StuckKey(g, s)] # 0
        BY <2>1, <2>2, <3>1, <3>3 DEF Exact
      <4>2. ledger'[StuckKey(g, s)] = ledger[StuckKey(g, s)]
        BY <1>2, <1>4, <3>3
      <4> QED BY <4>1, <4>2
    <3> QED BY <3>2, <3>3
  <2> QED BY <2>1, <2>4, <2>5
<1>9. ASSUME NEW g \in Groups PROVE Books(g)'
  <2>1. CASE \A s \in Slides : <<g, s>> \notin S
    BY <1>6, <1>7, <2>1, SameBooks DEF BooksInv, Books
  <2>2. CASE \E s \in Slides : <<g, s>> \in S
    BY <1>8, <2>2 DEF Books
  <2> QED BY <2>1, <2>2
<1>10. ASSUME NEW v \in Workers, v # w PROVE Prepares(v)' /\ Makes(v)'
  <2>1. ASSUME NEW g \in Groups, g = Group(v), wk[v].pc \notin {"idle", "reap", "answer"}
        PROVE  Same(g) /\ fresh'[g] = fresh[g]
    <3>1. wk[v].pc \in {"gate", "layout", "charge"} \/ Building(v)
      BY <1>t, <2>1 DEF Worker, PC, Steps, Building
    <3>2. \A s \in Slides : <<g, s>> \notin S
      BY <2>1, <3>1, UnpaidUnseen, MadeUnseen DEF S
    <3> QED BY <1>1, <1>7, <3>2
  <2>2. Prepares(v) /\ Makes(v) /\ wk'[v] = wk[v]
    BY <1>5, <1>10 DEF BooksInv
  <2> QED BY <2>1, <2>2, OutsideMaker
<1>11. ASSUME NEW v \in Workers, v # w PROVE Reaps(v)'
  <2>1. Reaps(v) /\ wk'[v] = wk[v]
    BY <1>5, <1>11 DEF BooksInv
  <2>2. ASSUME NEW g \in Groups, NEW s \in Slides, <<g, s>> \in wk[v].seen
        PROVE  /\ fresh'[g] = 0 /\ Live(g)' /\ Exact(g)'
               /\ status'[g][s] \in {"generating", "failed"}
    <3>1. /\ fresh[g] = 0 /\ Live(g) /\ Exact(g) /\ status[g][s] \in {"generating", "failed"}
      BY <2>1, <2>2 DEF Reaps
    <3>2. Live(g)' /\ Exact(g)'
      <4>1. CASE \A t \in Slides : <<g, t>> \notin S
        BY <1>6, <1>7, <3>1, <4>1, SameBooks
      <4>2. CASE \E t \in Slides : <<g, t>> \in S
        BY <1>8, <4>2
      <4> QED BY <4>1, <4>2
    <3> QED BY <1>1, <3>1, <3>2
  <2> QED BY <2>1, <2>2 DEF Reaps
<1>12. Prepares(w)' /\ Makes(w)' /\ Reaps(w)'
  BY <1>5 DEF Prepares, Makes, Making, Reaps
<1>13. Unused'
  <2> SUFFICES ASSUME NEW r \in Requests, NEW n \in 1..MAX_ATTEMPTS, n > req'[r].tries,
                      NEW g, g = <<r, n>>
               PROVE  Untouched(g)'
    BY DEF Unused
  <2>1. g \in Groups /\ Untouched(g)
    BY <1>1 DEF Groups, BooksInv, Unused
  <2>2. \A s \in Slides : <<g, s>> \notin S
    BY <1>8, <2>1 DEF Live, Untouched
  <2> QED BY <1>7, <2>1, <2>2, SameBooks
<1> QED BY <1>9, <1>10, <1>11, <1>12, <1>13 DEF BooksInv

-----------------------------------------------------------------------------
(* The invariant *)

\* No step but a claim gives a worker another attempt.
LEMMA KeepsAlone ==
  ASSUME Alone,
         \A v \in Workers : \/ wk'[v].req = wk[v].req /\ wk'[v].attempt = wk[v].attempt
                           \/ wk'[v].req = NoRequest
  PROVE  Alone'
  BY DEF Alone

\* The same for the shapes that steps have.
LEMMA MovesAlone ==
  ASSUME Alone, TypeInv, NEW w \in Workers
  PROVE  /\ \A p, T, B, S : Moves(w, p, T, B, S) => Alone'
         /\ wk' = [wk EXCEPT ![w] = Idle] => Alone'
         /\ wk' = wk => Alone'
<1>1. ASSUME NEW p, NEW T, NEW B, NEW S, Moves(w, p, T, B, S) PROVE Alone'
  BY <1>1, KeepsAlone DEF Moves
<1>2. ASSUME wk' = [wk EXCEPT ![w] = Idle] PROVE Alone'
  BY <1>2, KeepsAlone DEF TypeInv, TypeOK, Idle
<1>3. ASSUME wk' = wk PROVE Alone'
  BY <1>3, KeepsAlone
<1> QED BY <1>1, <1>2, <1>3

\* A claim hands out an attempt above all that were.
LEMMA BeginAlone ==
  ASSUME TypeInv, Alone, NEW w \in Workers, NEW r \in Requests, BeginTurn(w, r)
  PROVE  Alone'
<1>1. /\ wk'[w].req = r /\ wk'[w].attempt = req[r].tries + 1
      /\ \A v \in Workers : v # w => wk'[v] = wk[v]
  BY BeginTypeInv
<1>2. req[r].tries \in Nat
  BY DEF TypeInv, TypeOK, Request
<1>3. ASSUME NEW v \in Workers, wk[v].req = r
      PROVE  wk[v].attempt # req[r].tries + 1
  <2>1. Turn(v) /\ r # NoRequest
    BY BillingConstants DEF TypeInv
  <2>2. wk[v].attempt \in 1..req[r].tries
    BY <1>3, <2>1 DEF Turn
  <2> QED BY <1>2, <2>2
<1> QED BY <1>1, <1>3 DEF Alone

\* Types and turns, the attempts apart, and the books if no turn outlives STUCK_AFTER.
IInv == TypeInv /\ Alone /\ (Timely => BooksInv)

\* Nobody has begun, nothing is entered.
LEMMA InitIInv == Init => IInv
<1> SUFFICES ASSUME Init PROVE IInv
  OBVIOUS
<1>1. TypeInv
  BY InitTypeInv
<1>2. Alone
  BY DEF Init, Alone, Idle
<1>3. ASSUME NEW g \in Groups PROVE Untouched(g)
  BY KeysOfGroups DEF Init, Untouched, NoEntries
<1>4. Unused
  BY <1>3 DEF Unused, Groups
<1>5. ASSUME NEW w \in Workers PROVE Prepares(w) /\ Makes(w) /\ Reaps(w)
  BY DEF Init, Idle, Prepares, Makes, Making, Building, Reaps
<1> QED BY <1>1, <1>2, <1>3, <1>4, <1>5 DEF IInv, BooksInv, Books

\* Every step keeps the turns apart and, while turns are timely, the books.
LEMMA NextIInv ==
  ASSUME IInv, Next
  PROVE  IInv'
<1>t. TypeInv /\ Alone /\ (Timely => BooksInv)
  BY DEF IInv
<1>i. TypeInv'
  BY <1>t, NextTypeInv
<1>w. wk \in [Workers -> Worker] /\ req \in [Requests -> Request] /\ \A w \in Workers : Turn(w)
  BY <1>t DEF TypeInv, TypeOK
<1>1. ASSUME NEW w \in Workers, NEW r \in Requests, BeginTurn(w, r)
      PROVE  Alone' /\ (Timely => BooksInv')
  <2>1. Alone'
    BY <1>t, <1>1, BeginAlone
  <2> QED BY <1>t, <1>1, <2>1, BeginStep
<1>2. ASSUME NEW r \in Requests, GiveUp(r) PROVE Alone' /\ (Timely => BooksInv')
  <2>1. wk' = wk /\ Quiet /\ \A q \in Requests : req'[q].tries = req[q].tries
    BY <1>w, <1>2 DEF GiveUp, Quiet, Request
  <2>2. fresh' = fresh /\ \A g \in Groups : Same(g)
    BY <2>1, QuietSame DEF Quiet
  <2>3. Alone'
    BY <1>t, <2>1, KeepsAlone
  <2> QED BY <1>t, <2>1, <2>2, <2>3, StillStep
<1>3. ASSUME NEW w \in Workers, Gate(w) PROVE Alone' /\ (Timely => BooksInv')
  <2>1. PICK p \in {"layout", "charge", "answer"} :
           Moves(w, p, wk[w].todo, wk[w].bad, wk[w].seen)
    BY <1>t, <1>3, GateMoves
  <2>2. wk[w].pc \in {"gate", "layout", "charge"} /\ Quiet /\ req' = req
    BY <1>3 DEF Gate, Quiet
  <2> QED BY <1>t, <2>1, <2>2, MovesAlone, PrepareStep
<1>4. ASSUME NEW w \in Workers, TurnDown(w) PROVE Alone' /\ (Timely => BooksInv')
  <2>1. Goto(w, "answer") /\ wk[w].pc = "layout" /\ Quiet /\ req' = req
    BY <1>4 DEF TurnDown, Quiet
  <2>2. Moves(w, "answer", wk[w].todo, wk[w].bad, wk[w].seen)
    BY <1>w, <2>1, GotoMoves DEF PC, Steps
  <2> QED BY <1>t, <2>1, <2>2, MovesAlone, PrepareStep
<1>5. ASSUME NEW w \in Workers, PayAndStart(w) PROVE Alone' /\ (Timely => BooksInv')
  <2>1. \/ Moves(w, "build", Slides, wk[w].bad, wk[w].seen)
        \/ Moves(w, "answer", wk[w].todo, wk[w].bad, wk[w].seen)
    BY <1>t, <1>5, PayCases
  <2>2. Alone'
    BY <1>t, <2>1, MovesAlone
  <2> QED BY <1>t, <1>5, <2>2, PayAndStartStep
<1>6. ASSUME NEW w \in Workers, NEW s \in Slides, SlideReady(w, s)
      PROVE  Alone' /\ (Timely => BooksInv')
  <2>1. Alone'
    BY <1>t, <1>6, MakeMoves, MovesAlone
  <2> QED BY <1>t, <1>6, <2>1, SlideReadyStep
<1>7. ASSUME NEW w \in Workers, NEW s \in Slides, SlideBad(w, s)
      PROVE  Alone' /\ (Timely => BooksInv')
  <2>1. Alone'
    BY <1>t, <1>7, MakeMoves, MovesAlone
  <2> QED BY <1>t, <1>7, <2>1, SlideBadStep
<1>8. ASSUME NEW w \in Workers, Gathered(w) PROVE Alone' /\ (Timely => BooksInv')
  <2>1. Alone'
    BY <1>t, <1>8, MakeMoves, MovesAlone
  <2> QED BY <1>t, <1>8, <2>1, GatheredStep
<1>9. ASSUME NEW w \in Workers, MarkFailed(w) PROVE Alone' /\ (Timely => BooksInv')
  <2>1. Alone'
    BY <1>t, <1>9, MakeMoves, MovesAlone
  <2> QED BY <1>t, <1>9, <2>1, MarkFailedStep
<1>10. ASSUME NEW w \in Workers, GiveBack(w) PROVE Alone' /\ (Timely => BooksInv')
  <2>1. Alone'
    BY <1>t, <1>10, MakeMoves, MovesAlone
  <2> QED BY <1>t, <1>10, <2>1, GiveBackStep
<1>11. ASSUME NEW w \in Workers, Answer(w) PROVE Alone' /\ (Timely => BooksInv')
  <2>1. /\ wk[w].pc = "answer" /\ wk' = [wk EXCEPT ![w] = Idle] /\ Quiet
        /\ \A q \in Requests : req'[q].tries = req[q].tries
    BY <1>w, <1>11 DEF Answer, Quiet, Request
  <2>2. ~Building(w)
    BY <2>1 DEF Building
  <2> QED BY <1>t, <2>1, <2>2, MovesAlone, EndStep
<1>12. ASSUME NEW w \in Workers, ReapCommit(w) PROVE Alone' /\ (Timely => BooksInv')
  <2>1. Alone'
    BY <1>t, <1>12, MovesAlone DEF ReapCommit
  <2> QED BY <1>t, <1>12, <2>1, ReapCommitStep
<1>13. ASSUME NEW w \in Workers, ReapRead(w) PROVE Alone' /\ (Timely => BooksInv')
  <2>1. Alone'
    BY <1>t, <1>13, ReapReadMoves, MovesAlone
  <2> QED BY <1>t, <1>13, <2>1, ReapReadStep
<1>14. ASSUME NEW w \in Workers, Crash(w) PROVE Alone' /\ (Timely => BooksInv')
  <2>1. wk[w].pc \in FAULTS_AT /\ wk' = [wk EXCEPT ![w] = Idle] /\ Quiet /\ req' = req
    BY <1>14 DEF Crash, Fault, Quiet
  <2>2. /\ wk'[w].pc = "idle" /\ wk'[w].seen = {}
        /\ \A v \in Workers : v # w => wk'[v] = wk[v]
    BY <1>w, <2>1 DEF Idle
  <2>3. Alone'
    BY <1>t, <2>1, MovesAlone
  <2>4. CASE Building(w)
    BY <1>t, <2>1, <2>2, <2>3, <2>4, LeaveStep
  <2>5. CASE ~Building(w)
    BY <1>t, <2>1, <2>3, <2>5, EndStep
  <2> QED BY <2>4, <2>5
<1>15. ASSUME NEW w \in Workers, ToolError(w) PROVE Alone' /\ (Timely => BooksInv')
  <2>1. /\ wk[w].pc \in FAULTS_AT /\ wk[w].pc \in {"gate", "layout", "charge", "mark"}
        /\ Goto(w, "answer") /\ Quiet /\ req' = req
    BY <1>15 DEF ToolError, Fault, Quiet
  <2>2. Moves(w, "answer", wk[w].todo, wk[w].bad, wk[w].seen)
    BY <1>w, <2>1, GotoMoves DEF PC, Steps
  <2>3. Alone'
    BY <1>t, <2>2, MovesAlone
  <2>4. CASE wk[w].pc = "mark"
    <3>1. Timely => wk'[w].seen = {}
      BY <1>t, <2>2, <2>4 DEF Moves, BooksInv, Reaps
    <3>2. Building(w) /\ wk'[w].pc = "answer" /\ \A v \in Workers : v # w => wk'[v] = wk[v]
      BY <2>2, <2>4 DEF Building, Moves
    <3> QED BY <1>t, <2>1, <2>3, <3>1, <3>2, LeaveStep
  <2>5. CASE wk[w].pc # "mark"
    BY <1>t, <2>1, <2>2, <2>3, <2>5, PrepareStep
  <2> QED BY <2>4, <2>5
<1>16. ASSUME NEW p \in Payments, Topup(p) PROVE Alone' /\ (Timely => BooksInv')
  <2>1. Alone'
    BY <1>t, <1>16, KeepsAlone DEF Topup
  <2> QED BY <1>t, <1>16, <2>1, TopupStep
<1>17. ASSUME Tick PROVE Alone' /\ (Timely => BooksInv')
  <2>1. Alone'
    BY <1>t, <1>17, TickMoves, KeepsAlone
  <2> QED BY <1>t, <1>17, <2>1, TickStep
<1>18. Alone' /\ (Timely => BooksInv')
  BY <1>1, <1>2, <1>3, <1>4, <1>5, <1>6, <1>7, <1>8, <1>9, <1>10, <1>11, <1>12, <1>13,
     <1>14, <1>15, <1>16, <1>17 DEF Next, Works, Generate
<1> QED BY <1>i, <1>18 DEF IInv, Timely

\* So every reachable state has its books in order.
LEMMA SpecIInv == Spec => []IInv
<1>1. ASSUME IInv, UNCHANGED vars PROVE IInv'
  <2>1. TypeInv'
    BY <1>1 DEF IInv, TypeInv, TypeOK, Turn, vars
  <2>2. Alone'
    BY <1>1 DEF IInv, Alone, vars
  <2>3. ASSUME Timely PROVE BooksInv'
    <3>1. BooksInv /\ wk' = wk /\ fresh' = fresh /\ req' = req /\ Quiet
      BY <1>1, <2>3 DEF IInv, vars, Quiet
    <3>2. \A g \in Groups : Same(g)
      BY <3>1, QuietSame
    <3> QED BY <3>1, <3>2, StillStep
  <2> QED BY <2>1, <2>2, <2>3 DEF IInv, Timely
<1> QED BY <1>1, InitIInv, NextIInv, PTL DEF Spec

-----------------------------------------------------------------------------
(* What the invariant gives *)

\* The slides the reaper has given back are slides that failed and were paid for.
LEMMA StuckRefundsOf ==
  ASSUME NEW g \in Groups
  PROVE  /\ NoEntries(g) => StuckRefunds(g) = {}
         /\ Closed(g) => StuckRefunds(g) = {}
         /\ Live(g) => StuckRefunds(g) \subseteq FailedBilled(g)
  BY DEF StuckRefunds, Entered, NoEntries, Closed, Live, FailedBilled

\* What is paid for a group, in each of its four conditions.
LEMMA PaidOf ==
  ASSUME TypeOK, NEW g \in Groups
  PROVE  /\ NoEntries(g) => Paid(g) = 0
         /\ Closed(g) => Paid(g) = Cardinality(billed[g]) - Cardinality(FailedBilled(g))
         /\ Live(g) => Paid(g) = Cardinality(billed[g]) - Cardinality(StuckRefunds(g))
<1>1. /\ ChargeKey(g) \in Keys /\ FailedKey(g) \in Keys /\ PartialKey(g) \in Keys
      /\ ledger \in [Keys -> Int] /\ billed[g] \in SUBSET Slides
  BY KeysOfGroups DEF TypeOK
<1>2. /\ ledger[ChargeKey(g)] \in Int /\ ledger[FailedKey(g)] \in Int
      /\ ledger[PartialKey(g)] \in Int
  BY <1>1
<1>3. /\ Cardinality(billed[g]) \in Nat /\ Cardinality(FailedBilled(g)) \in Nat
      /\ Cardinality(StuckRefunds(g)) \in Nat
  BY <1>1, CountSlides DEF FailedBilled, StuckRefunds
<1>4. StuckRefunds(g) = {} => Cardinality(StuckRefunds(g)) = 0
  BY FS_EmptySet
<1>5. NoEntries(g) => Paid(g) = 0
  BY <1>4, StuckRefundsOf DEF NoEntries, Paid
<1>6. Closed(g) => Paid(g) = Cardinality(billed[g]) - Cardinality(FailedBilled(g))
  BY <1>2, <1>3, <1>4, StuckRefundsOf DEF Closed, Paid
<1>7. Live(g) => Paid(g) = Cardinality(billed[g]) - Cardinality(StuckRefunds(g))
  BY <1>2, <1>3 DEF Live, Paid
<1> QED BY <1>5, <1>6, <1>7

\* Refunds stay within what was charged.
LEMMA WithinCharge == IInv => RefundsWithinCharge
<1> SUFFICES ASSUME IInv, Timely, NEW g \in Groups PROVE Paid(g) >= 0
  BY DEF RefundsWithinCharge
<1>1. TypeOK /\ Books(g) /\ billed[g] \in SUBSET Slides
  BY DEF IInv, TypeInv, TypeOK, BooksInv
<1>2. FailedBilled(g) \subseteq billed[g]
  BY DEF FailedBilled
<1>3. \A T \in SUBSET billed[g] :
        /\ Cardinality(T) \in Nat /\ Cardinality(billed[g]) \in Nat
        /\ Cardinality(T) <= Cardinality(billed[g])
  BY <1>1, CountSlides, FS_Subset
<1>4. CASE NoEntries(g)
  BY <1>1, <1>4, PaidOf
<1>5. CASE Live(g)
  <2>1. StuckRefunds(g) \in SUBSET billed[g]
    BY <1>2, <1>5, StuckRefundsOf
  <2>2. Paid(g) = Cardinality(billed[g]) - Cardinality(StuckRefunds(g))
    BY <1>1, <1>5, PaidOf
  <2> QED BY <1>3, <2>1, <2>2
<1>6. CASE Closed(g)
  <2>1. Paid(g) = Cardinality(billed[g]) - Cardinality(FailedBilled(g))
    BY <1>1, <1>6, PaidOf
  <2> QED BY <1>2, <1>3, <2>1
<1> QED BY <1>1, <1>4, <1>5, <1>6 DEF Books, Untouched, Unpaid

\* No creative gives back more than was charged for it, though generate and the
\* reapers refund under keys that neither looks up for the other.
THEOREM RefundsBounded == Spec => []RefundsWithinCharge
  BY WithinCharge, SpecIInv, PTL

\* Where no worker is lost between the first slide marked and the refund, the owner
\* has paid, of a creative nobody works on, for the slides that came out.
THEOREM PaidAndShipped == "mark" \notin FAULTS_AT => (Spec => []PaidForWhatShipped)
<1> SUFFICES ASSUME "mark" \notin FAULTS_AT PROVE Spec => []PaidForWhatShipped
  OBVIOUS
<1>1. ASSUME IInv PROVE PaidForWhatShipped
  <2> SUFFICES ASSUME Timely, NEW g \in Groups, AtRest(g)
               PROVE  Paid(g) = Cardinality({s \in billed[g] : status[g][s] = "ready"})
    BY DEF PaidForWhatShipped
  <2> DEFINE Ready == {s \in billed[g] : status[g][s] = "ready"}
  <2>1. TypeOK /\ Books(g) /\ billed[g] \in SUBSET Slides
    BY <1>1 DEF IInv, TypeInv, TypeOK, BooksInv
  <2>2. ~Made(g) /\ \A s \in Slides : status[g][s] # "generating"
    BY DEF AtRest, Made
  <2>3. \A s \in Slides : status[g][s] \in SlideStatus
    BY <2>1 DEF TypeOK
  <2>4. CASE NoEntries(g) /\ \A s \in billed[g] : status[g][s] # "ready"
    <3>1. Ready = {}
      BY <2>4
    <3> QED BY <2>1, <2>4, <3>1, PaidOf, FS_EmptySet
  <2>5. ASSUME \A s \in Slides : status[g][s] # "none"
        PROVE  Cardinality(Ready) = Cardinality(billed[g]) - Cardinality(FailedBilled(g))
    <3>1. Ready = billed[g] \ FailedBilled(g)
      BY <2>1, <2>2, <2>3, <2>5 DEF FailedBilled, SlideStatus
    <3>2. billed[g] \intersect FailedBilled(g) = FailedBilled(g)
      BY DEF FailedBilled
    <3>3. IsFiniteSet(billed[g])
      BY <2>1, CountSlides
    <3> QED BY <3>1, <3>2, <3>3, FS_Difference
  <2> HIDE DEF Ready
  <2>6. CASE Live(g) /\ Exact(g)
    <3>1. StuckRefunds(g) = FailedBilled(g)
      BY <2>1, <2>2, <2>6 DEF Live, Exact, StuckRefunds, Entered, FailedBilled
    <3>2. Paid(g) = Cardinality(billed[g]) - Cardinality(StuckRefunds(g))
      BY <2>1, <2>6, PaidOf
    <3>3. Cardinality(Ready) = Cardinality(billed[g]) - Cardinality(FailedBilled(g))
      BY <2>5, <2>6 DEF Live
    <3> QED BY <3>1, <3>2, <3>3 DEF Ready
  <2>7. CASE Closed(g)
    <3>1. Paid(g) = Cardinality(billed[g]) - Cardinality(FailedBilled(g))
      BY <2>1, <2>7, PaidOf
    <3>2. Cardinality(Ready) = Cardinality(billed[g]) - Cardinality(FailedBilled(g))
      BY <2>5, <2>7 DEF Closed
    <3> QED BY <3>1, <3>2 DEF Ready
  <2> QED BY <2>1, <2>4, <2>6, <2>7 DEF Books, Untouched, Unpaid
<1> QED BY <1>1, SpecIInv, PTL

\* A ready slide stays ready and a failed one failed, whatever a worker or a reaper
\* does on the strength of an earlier read.
THEOREM OutcomesStand == Spec => OutcomeStands
<1> DEFINE A == Timely => \A g \in Groups, s \in Slides :
                  status[g][s] \in {"ready", "failed"} => status'[g][s] = status[g][s]
<1>1. ASSUME IInv, Next PROVE A
  <2> SUFFICES ASSUME Timely, NEW g \in Groups, NEW s \in Slides,
                      status[g][s] \in {"ready", "failed"}
               PROVE  status'[g][s] = status[g][s]
    OBVIOUS
  <2>t. TypeInv /\ BooksInv /\ status \in [Groups -> [Slides -> SlideStatus]]
    BY <1>1 DEF IInv, TypeInv, TypeOK
  <2>1. ASSUME NEW w \in Workers, PayAndStart(w) PROVE status'[g][s] = status[g][s]
    <3>1. PICK h \in Groups : h = Group(w)
      BY <2>t, <2>1, GroupOfTurn DEF PayAndStart
    <3>2. Untouched(h)
      BY <2>t, <2>1, <3>1 DEF BooksInv, Prepares, PayAndStart
    <3>3. h # g
      BY <3>2 DEF Untouched
    <3>4. status'[g] = status[g]
      BY <2>t, <2>1, <3>1, <3>3 DEF PayAndStart
    <3> QED BY <3>4
  <2>2. ASSUME NEW w \in Workers, NEW t \in Slides, SlideReady(w, t)
        PROVE  status'[g][s] = status[g][s]
    <3>1. wk[w].pc = "build" /\ t \in wk[w].todo
      BY <2>2 DEF SlideReady
    <3>2. PICK h \in Groups : h = Group(w)
      BY <2>t, <3>1, GroupOfTurn
    <3>3. status[h][t] = "generating"
      BY <2>t, <3>1, <3>2 DEF BooksInv, Makes, Making, Building
    <3>4. h # g \/ t # s
      BY <3>3
    <3> QED BY <2>t, <2>2, <3>2, <3>4 DEF SlideReady
  <2>3. ASSUME NEW w \in Workers, MarkFailed(w) PROVE status'[g][s] = status[g][s]
    <3>1. PICK t \in wk[w].todo :
            /\ t \in Slides /\ wk[w].pc = "mark"
            /\ status' = [status EXCEPT ![Group(w)][t] = "failed"]
      BY <2>t, <2>3, MakeMoves
    <3>2. PICK h \in Groups : h = Group(w)
      BY <2>t, <3>1, GroupOfTurn
    <3>3. status[h][t] = "generating"
      BY <2>t, <3>1, <3>2 DEF BooksInv, Makes, Making, Building
    <3>4. h # g \/ t # s
      BY <3>3
    <3> QED BY <2>t, <3>1, <3>2, <3>4
  <2>4. ASSUME NEW w \in Workers, ReapCommit(w) PROVE status'[g][s] = status[g][s]
    <3>1. status'[g][s] = IF <<g, s>> \in wk[w].seen THEN "failed" ELSE status[g][s]
      BY <2>4 DEF ReapCommit
    <3>2. <<g, s>> \in wk[w].seen => status[g][s] = "failed"
      BY <2>t DEF BooksInv, Reaps
    <3> QED BY <3>1, <3>2
  <2>5. CASE status' = status
    BY <2>5
  <2>6. \/ \E w \in Workers : PayAndStart(w) \/ MarkFailed(w) \/ ReapCommit(w)
        \/ \E w \in Workers, t \in Slides : SlideReady(w, t)
        \/ status' = status
    BY <1>1 DEF Next, Works, Generate, BeginTurn, GiveUp, Gate, TurnDown, SlideBad, Gathered,
                GiveBack, Answer, ReapRead, Crash, ToolError, Topup, Tick
  <2> QED BY <2>1, <2>2, <2>3, <2>4, <2>5, <2>6
<1>2. ASSUME IInv, [Next]_vars PROVE [A]_vars
  BY <1>1, <1>2
<1> QED BY <1>2, SpecIInv, PTL DEF Spec, OutcomeStands

-----------------------------------------------------------------------------
(* Sums over a finite set *)

\* F sums f over every part of S, one member after the other as a fold takes them.
First(T) == CHOOSE x \in T : TRUE

Sums(F, f, S) ==
  F = [T \in SUBSET S |-> IF T = {} THEN 0 ELSE f[First(T)] + F[T \ {First(T)}]]

\* Among parts of a finite set there is one that has no other below it.
LEMMA SmallestPart ==
  ASSUME NEW S, IsFiniteSet(S), NEW Q, Q \subseteq SUBSET S, Q # {}
  PROVE  \E T \in Q : \A U \in Q : U \subseteq T => U = T
<1> DEFINE R == StrictSubsetOrdering(S)
           P == SUBSET S
<1>1. IsWellFoundedOn(R, P)
  BY FS_StrictSubsetOrderingWellFounded, FS_FiniteSubsetsOfFinite
<1>2. Q \subseteq P
  OBVIOUS
<1> HIDE DEF R, P
<1>3. \E T \in Q : \A U \in Q : ~(<<U, T>> \in R)
  BY <1>1, <1>2, WFMin
<1> QED BY <1>2, <1>3 DEF R, P, StrictSubsetOrdering

\* What a sum takes first is there.
LEMMA FirstIsIn == ASSUME NEW T, T # {} PROVE First(T) \in T
  BY DEF First

\* A sum is of what is summed: two that agree on the members of T agree on T.
LEMMA SumsAgree ==
  ASSUME NEW S, IsFiniteSet(S), NEW U, IsFiniteSet(U), NEW f, NEW g, NEW F, NEW G,
         Sums(F, f, S), Sums(G, g, U),
         NEW T, T \subseteq S, T \subseteq U, \A x \in T : f[x] = g[x]
  PROVE  F[T] = G[T]
<1> DEFINE Q == {V \in SUBSET T : F[V] # G[V]}
<1>1. SUFFICES ASSUME Q # {} PROVE FALSE
  OBVIOUS
<1>2. PICK V \in Q : \A W \in Q : W \subseteq V => W = V
  <2>1. IsFiniteSet(T)
    BY FS_Subset
  <2>2. Q \subseteq SUBSET T
    OBVIOUS
  <2> HIDE DEF Q
  <2> QED BY <1>1, <2>1, <2>2, SmallestPart
<1>3. V \subseteq T /\ V \in SUBSET S /\ V \in SUBSET U
  OBVIOUS
<1>4. /\ F[V] = IF V = {} THEN 0 ELSE f[First(V)] + F[V \ {First(V)}]
      /\ G[V] = IF V = {} THEN 0 ELSE g[First(V)] + G[V \ {First(V)}]
  BY <1>3 DEF Sums
<1>5. V # {} => First(V) \in V /\ V \ {First(V)} \notin Q
  BY <1>2, FirstIsIn
<1> QED BY <1>3, <1>4, <1>5

\* There is a sum.
LEMMA SumsExist ==
  ASSUME NEW S, IsFiniteSet(S), NEW f \in [S -> Int]
  PROVE  \E F \in [SUBSET S -> Int] : Sums(F, f, S)
<1> DEFINE Q == {T \in SUBSET S : ~ \E F \in [SUBSET T -> Int] : Sums(F, f, T)}
<1>1. SUFFICES ASSUME Q # {} PROVE FALSE
  OBVIOUS
<1>2. PICK T \in Q : \A U \in Q : U \subseteq T => U = T
  <2>1. Q \subseteq SUBSET S
    OBVIOUS
  <2> HIDE DEF Q
  <2> QED BY <1>1, <2>1, SmallestPart
<1> DEFINE Of(U) == CHOOSE F \in [SUBSET U -> Int] : Sums(F, f, U)
           H == [U \in SUBSET T |->
                   IF U = {} THEN 0 ELSE f[First(U)] + Of(U \ {First(U)})[U \ {First(U)}]]
<1>3. ASSUME NEW U \in SUBSET T, U # T PROVE Of(U) \in [SUBSET U -> Int] /\ Sums(Of(U), f, U)
  <2>1. \E F \in [SUBSET U -> Int] : Sums(F, f, U)
    BY <1>2, <1>3
  <2> QED BY <2>1
<1> HIDE DEF Of
<1>4. ASSUME NEW U \in SUBSET T, U # {}
      PROVE  /\ First(U) \in S /\ U \ {First(U)} \in SUBSET T /\ U \ {First(U)} # T
             /\ H[U \ {First(U)}] = Of(U \ {First(U)})[U \ {First(U)}]
  <2> DEFINE V == U \ {First(U)}
  <2>1. First(U) \in U /\ V \in SUBSET T /\ V # T
    BY <1>4, FirstIsIn
  <2>2. H[V] = IF V = {} THEN 0 ELSE f[First(V)] + Of(V \ {First(V)})[V \ {First(V)}]
    BY <2>1
  <2>3. Sums(Of(V), f, V)
    BY <1>3, <2>1
  <2>4. Of(V)[V] = IF V = {} THEN 0 ELSE f[First(V)] + Of(V)[V \ {First(V)}]
    BY <2>3 DEF Sums
  <2>5. V # {} => Of(V)[V \ {First(V)}] = Of(V \ {First(V)})[V \ {First(V)}]
    <3> SUFFICES ASSUME V # {} PROVE Of(V)[V \ {First(V)}] = Of(V \ {First(V)})[V \ {First(V)}]
      OBVIOUS
    <3> DEFINE W == V \ {First(V)}
    <3>1. First(V) \in V
      BY FirstIsIn
    <3>2. W \in SUBSET T /\ W # T /\ W \subseteq V
      BY <2>1, <3>1
    <3>3. Sums(Of(W), f, W)
      BY <1>3, <3>2
    <3>4. IsFiniteSet(V) /\ IsFiniteSet(W)
      BY <1>2, FS_Subset
    <3> HIDE DEF V, W
    <3>5. Of(V)[W] = Of(W)[W]
      BY <2>3, <3>2, <3>3, <3>4, SumsAgree
    <3> QED BY <3>5 DEF W
  <2> QED BY <1>2, <2>1, <2>2, <2>4, <2>5
<1>5. H \in [SUBSET T -> Int]
  <2> SUFFICES ASSUME NEW U \in SUBSET T, U # {}
               PROVE  f[First(U)] + Of(U \ {First(U)})[U \ {First(U)}] \in Int
    OBVIOUS
  <2>1. /\ First(U) \in S /\ U \ {First(U)} \in SUBSET T /\ U \ {First(U)} # T
    BY <1>4
  <2>2. Of(U \ {First(U)}) \in [SUBSET (U \ {First(U)}) -> Int]
    BY <1>3, <2>1
  <2>3. Of(U \ {First(U)})[U \ {First(U)}] \in Int /\ f[First(U)] \in Int
    BY <2>1, <2>2
  <2> QED BY <2>3
<1>6. Sums(H, f, T)
  BY <1>4 DEF Sums
<1> QED BY <1>2, <1>5, <1>6

\* F is the sum of f over the parts of S.
SumOf(F, f, S) ==
  IsFiniteSet(S) /\ f \in [S -> Int] /\ F \in [SUBSET S -> Int] /\ Sums(F, f, S)

\* Any member may be taken out of a sum.
LEMMA SumsTake ==
  ASSUME NEW F, NEW f, NEW S, SumOf(F, f, S), NEW T, T \subseteq S, NEW x, x \in T
  PROVE  F[T] = f[x] + F[T \ {x}]
<1> USE DEF SumOf
<1> DEFINE Q == {V \in SUBSET S : \E y \in V : F[V] # f[y] + F[V \ {y}]}
<1>1. SUFFICES ASSUME Q # {} PROVE FALSE
  OBVIOUS
<1>2. PICK V \in Q : \A W \in Q : W \subseteq V => W = V
  <2>1. Q \subseteq SUBSET S
    OBVIOUS
  <2> HIDE DEF Q
  <2> QED BY <1>1, <2>1, SmallestPart
<1>3. PICK y \in V : F[V] # f[y] + F[V \ {y}]
  BY <1>2
<1> DEFINE z == First(V)
<1>4. z \in V /\ F[V] = f[z] + F[V \ {z}]
  BY <1>3, FirstIsIn DEF Sums
<1> HIDE DEF z
<1>5. z # y
  BY <1>3, <1>4
<1>6. V \ {z} \in SUBSET S /\ V \ {y} \in SUBSET S /\ y \in V \ {z} /\ z \in V \ {y}
  BY <1>4, <1>5
<1>7. V \ {z} \notin Q /\ V \ {y} \notin Q
  BY <1>2, <1>3, <1>4
<1>8. /\ F[V \ {z}] = f[y] + F[(V \ {z}) \ {y}]
      /\ F[V \ {y}] = f[z] + F[(V \ {y}) \ {z}]
  BY <1>6, <1>7
<1>9. (V \ {z}) \ {y} = (V \ {y}) \ {z}
  OBVIOUS
<1>10. PICK a \in Int, b \in Int, c \in Int :
         a = f[y] /\ b = f[z] /\ c = F[(V \ {z}) \ {y}]
  BY <1>6
<1>11. F[V \ {z}] = a + c /\ F[V \ {y}] = b + c
  BY <1>8, <1>9, <1>10
<1>12. F[V] = b + (a + c) /\ F[V] # a + (b + c)
  BY <1>3, <1>4, <1>10, <1>11
<1> QED BY <1>10, <1>12

\* A sum changes by what one of its members changes.
LEMMA SumsChange ==
  ASSUME NEW F, NEW f, NEW G, NEW g, NEW S, SumOf(F, f, S), SumOf(G, g, S),
         NEW x \in S, \A y \in S \ {x} : f[y] = g[y]
  PROVE  G[S] = F[S] - f[x] + g[x]
<1>1. F[S] = f[x] + F[S \ {x}] /\ G[S] = g[x] + G[S \ {x}]
  BY SumsTake
<1>2. F[S \ {x}] = G[S \ {x}]
  BY SumsAgree DEF SumOf
<1>3. f[x] \in Int /\ g[x] \in Int /\ F[S \ {x}] \in Int
  BY DEF SumOf
<1> QED BY <1>1, <1>2, <1>3

-----------------------------------------------------------------------------
(* What the account has spent *)

\* There are finitely many groups.
LEMMA GroupsFinite == IsFiniteSet(Groups)
<1>1. IsFiniteSet(1..MAX_ATTEMPTS)
  BY BillingConstants, FS_Interval
<1> QED BY <1>1, BillingConstants, FS_Product DEF Groups

\* Total is a sum.
LEMMA TotalSums ==
  ASSUME NEW k \in [Groups -> Int]
  PROVE  \E F : SumOf(F, k, Groups) /\ Account!Total(k) = F[Groups]
<1> DEFINE F0 == CHOOSE F : Sums(F, k, Groups)
<1>1. PICK F \in [SUBSET Groups -> Int] : Sums(F, k, Groups)
  BY GroupsFinite, SumsExist
<1>2. Sums(F0, k, Groups)
  BY <1>1
<1>3. Account!Total(k) = F0[Groups]
  BY DEF Account!Total, Account!MapThenSumSet, Account!MapThenFoldSet, Sums, First
<1> HIDE DEF F0
<1>4. F0[Groups] = F[Groups]
  BY <1>1, <1>2, GroupsFinite, SumsAgree
<1> QED BY <1>1, <1>3, <1>4, GroupsFinite DEF SumOf

\* What is spent in all changes by what is spent on a group ...
LEMMA TotalChange ==
  ASSUME NEW j \in [Groups -> Int], NEW k \in [Groups -> Int],
         NEW g \in Groups, \A h \in Groups \ {g} : j[h] = k[h]
  PROVE  Account!Total(j) \in Int /\ Account!Total(k) = Account!Total(j) - j[g] + k[g]
<1>1. PICK F : SumOf(F, j, Groups) /\ Account!Total(j) = F[Groups]
  BY TotalSums
<1>2. PICK G : SumOf(G, k, Groups) /\ Account!Total(k) = G[Groups]
  BY TotalSums
<1>3. G[Groups] = F[Groups] - j[g] + k[g]
  BY <1>1, <1>2, SumsChange
<1> QED BY <1>1, <1>2, <1>3 DEF SumOf

\* ... and is a number; ...
LEMMA TotalType == ASSUME NEW k \in [Groups -> Int] PROVE Account!Total(k) \in Int
<1>1. PICK F : SumOf(F, k, Groups) /\ Account!Total(k) = F[Groups]
  BY TotalSums
<1> QED BY <1>1 DEF SumOf

\* ... and when a credit comes back for each slide of E, by as many.
Of(E, g) == {s \in Slides : <<g, s>> \in E}
Less(k, E) == [g \in Groups |-> k[g] - Cardinality(Of(E, g))]

\* E names pairs of a group and a slide, a credit each.
LEMMA TotalLess ==
  ASSUME NEW k \in [Groups -> Int], NEW D \in SUBSET (Groups \X Slides)
  PROVE  Account!Total(Less(k, D)) = Account!Total(k) - Cardinality(D)
<1> DEFINE Q == {E \in SUBSET D : Account!Total(Less(k, E)) # Account!Total(k) - Cardinality(E)}
<1>1. SUFFICES ASSUME Q # {} PROVE FALSE
  BY DEF Q
<1>f. IsFiniteSet(D)
  <2>1. IsFiniteSet(Groups \X Slides)
    BY GroupsFinite, BillingConstants, FS_Product
  <2> QED BY <2>1, FS_Subset
<1>2. PICK E \in Q : \A U \in Q : U \subseteq E => U = E
  <2>1. Q \subseteq SUBSET D
    OBVIOUS
  <2> HIDE DEF Q
  <2> QED BY <1>1, <1>f, <2>1, SmallestPart
<1>3. IsFiniteSet(E) /\ Cardinality(E) \in Nat
  BY <1>2, <1>f, FS_Subset, FS_CardinalityType
<1>4. \A C \in SUBSET D, g \in Groups : Of(C, g) \in SUBSET Slides /\ Cardinality(Of(C, g)) \in Nat
  BY CountSlides DEF Of
<1>5. ASSUME NEW C \in SUBSET D PROVE Less(k, C) \in [Groups -> Int]
  <2> SUFFICES ASSUME NEW g \in Groups PROVE k[g] - Cardinality(Of(C, g)) \in Int
    BY DEF Less
  <2>1. Cardinality(Of(C, g)) \in Nat /\ k[g] \in Int
    BY <1>4
  <2> QED BY <2>1
<1>6. Account!Total(k) \in Int
  BY TotalType
<1>7. CASE E = {}
  <2>1. \A g \in Groups : Of(E, g) = {}
    BY <1>7 DEF Of
  <2>2. \A g \in Groups : Cardinality(Of(E, g)) = 0
    BY <2>1, FS_EmptySet
  <2>3. Less(k, E) = k
    BY <2>2 DEF Less
  <2>4. Cardinality(E) = 0
    BY <1>7, FS_EmptySet
  <2> QED BY <1>2, <1>6, <2>3, <2>4
<1>8. CASE E # {}
  <2>1. PICK g \in Groups, s \in Slides : <<g, s>> \in E
    BY <1>2, <1>8
  <2> DEFINE C == E \ {<<g, s>>}
  <2>2. C \in SUBSET D /\ C \notin Q /\ E \in SUBSET D
    BY <1>2, <2>1
  <2>3. Account!Total(Less(k, C)) = Account!Total(k) - Cardinality(C)
    BY <2>2
  <2>4. Cardinality(C) = Cardinality(E) - 1
    <3> DEFINE c == <<g, s>>
    <3>1. c \in E /\ C = E \ {c}
      BY <2>1
    <3> HIDE DEF C, c
    <3> QED BY <1>3, <3>1, FS_RemoveElement
  <2>5. \A h \in Groups \ {g} : Of(C, h) = Of(E, h)
    BY DEF Of
  <2>6. Of(C, g) = Of(E, g) \ {s} /\ s \in Of(E, g)
    BY <2>1 DEF Of
  <2>7. Cardinality(Of(C, g)) = Cardinality(Of(E, g)) - 1
    <3>1. IsFiniteSet(Of(E, g))
      BY CountSlides DEF Of
    <3> DEFINE W == Of(E, g)
    <3>2. IsFiniteSet(W) /\ s \in W
      BY <2>6, <3>1
    <3> HIDE DEF W
    <3>3. Cardinality(W \ {s}) = Cardinality(W) - 1
      BY <3>2, FS_RemoveElement
    <3> QED BY <2>6, <3>3 DEF W
  <2>8. Less(k, C) \in [Groups -> Int] /\ Less(k, E) \in [Groups -> Int]
    BY <1>5, <2>2
  <2>9. \A h \in Groups \ {g} : Less(k, C)[h] = Less(k, E)[h]
    BY <2>5 DEF Less
  <2>10. Less(k, C)[g] = Less(k, E)[g] + 1
    BY <1>4, <2>2, <2>7 DEF Less
  <2> HIDE DEF C
  <2>11. Account!Total(Less(k, E)) = Account!Total(Less(k, C)) - Less(k, C)[g] + Less(k, E)[g]
    BY <2>8, <2>9, TotalChange
  <2>12. Less(k, E)[g] \in Int /\ Account!Total(Less(k, C)) \in Int
    BY <2>8, TotalType
  <2>13. Account!Total(Less(k, E)) = Account!Total(k) - Cardinality(E)
    BY <1>3, <1>6, <2>3, <2>4, <2>10, <2>11, <2>12
  <2> QED BY <1>2, <2>13
<1> QED BY <1>7, <1>8
-----------------------------------------------------------------------------
(* The account behind the ledger *)

Kept == [g \in Groups |-> Paid(g)]
Bought == {g \in Groups : Entered(ChargeKey(g))}
Received == {p \in Payments : Entered(TopupKey(p))}

\* Steps of the mapped state that are CreditAccount's: a payment comes in once.
LEMMA Receives ==
  ASSUME NEW p \in Payments \ Received, Received' = Received \union {p},
         balance' = balance + PACK, Kept' = Kept, Bought' = Bought
  PROVE  Account!ANext
<1>1. Account!Receive(p)
  BY DEF Account!Receive, Kept, Bought, Received
<1> QED BY <1>1 DEF Account!ANext

\* A creative that was never bought is bought, with credits that are there.
LEMMA Buys ==
  ASSUME NEW g \in Groups \ Bought, NEW n \in 1..balance, Bought' = Bought \union {g},
         balance' = balance - n, Kept' = [Kept EXCEPT ![g] = n], Received' = Received
  PROVE  Account!ANext
<1>1. Account!Buy(g)
  BY DEF Account!Buy, Kept, Bought, Received
<1> QED BY <1>1 DEF Account!ANext

\* Credits come back, for a group at most what is still spent on it.
LEMMA GivesBack ==
  ASSUME \A g \in Groups : Kept'[g] \in 0..Kept[g],
         balance' = balance + Account!Total(Kept) - Account!Total(Kept'),
         Bought' = Bought, Received' = Received
  PROVE  Account!ANext
<1>1. Account!GiveBack
  BY DEF Account!GiveBack, Kept, Bought, Received
<1> QED BY <1>1 DEF Account!ANext

\* What is paid for a group is a number; ...
LEMMA PaidType == ASSUME TypeOK, NEW g \in Groups PROVE Paid(g) \in Int
<1>1. /\ ledger[ChargeKey(g)] \in Int /\ ledger[FailedKey(g)] \in Int
      /\ ledger[PartialKey(g)] \in Int
  BY KeysOfGroups DEF TypeOK
<1>2. Cardinality(StuckRefunds(g)) \in Nat
  BY CountSlides DEF StuckRefunds
<1> QED BY <1>1, <1>2 DEF Paid

\* ... it depends on the entries of the group alone; ...
LEMMA PaidSame ==
  ASSUME NEW g \in Groups, Same(g)
  PROVE  Paid(g)' = Paid(g) /\ (g \in Bought)' = (g \in Bought)
<1>1. StuckRefunds(g)' = StuckRefunds(g)
  BY DEF Same, StuckRefunds, Entered
<1> QED BY <1>1 DEF Same, Paid, Bought, Entered

\* ... and while turns are timely it is never below nothing.
NeverBelow == Timely => \A g \in Groups : Paid(g) \in Nat

\* What is spent on a group is a natural number.
LEMMA PaidNat == IInv => NeverBelow
  BY PaidType, WithinCharge DEF NeverBelow, RefundsWithinCharge, IInv, TypeInv

\* A step that enters nothing is no step of the account.
LEMMA StillAccount ==
  ASSUME UNCHANGED <<balance, ledger>> PROVE UNCHANGED Account!avars
<1>1. Kept' = Kept /\ Bought' = Bought /\ Received' = Received
  BY DEF Kept, Bought, Received, Paid, StuckRefunds, Entered
<1> QED BY <1>1 DEF Account!avars, Kept, Bought, Received

\* A payment is received once, however often its webhook comes.
LEMMA TopupAccount ==
  ASSUME TypeInv, NEW p \in Payments, Topup(p)
  PROVE  Account!ANext \/ UNCHANGED Account!avars
<1>1. CASE Entered(TopupKey(p))
  BY <1>1, StillAccount DEF Topup, Refund
<1>2. CASE ~Entered(TopupKey(p))
  <2>1. /\ ledger \in [Keys -> Int] /\ TopupKey(p) \in Keys
        /\ balance' = balance + PACK /\ ledger' = [ledger EXCEPT ![TopupKey(p)] = PACK]
        /\ UNCHANGED <<status, billed>>
    BY <1>2, KeysOfPayments DEF TypeInv, TypeOK, Topup, Refund
  <2>2. \A k \in Keys : ledger'[k] = IF k = TopupKey(p) THEN PACK ELSE ledger[k]
    BY <2>1
  <2>3. ASSUME NEW g \in Groups PROVE Same(g)
    <3>1. /\ ChargeKey(g) \in Keys /\ FailedKey(g) \in Keys /\ PartialKey(g) \in Keys
          /\ \A s \in Slides : StuckKey(g, s) \in Keys
      BY KeysOfGroups
    <3>2. /\ TopupKey(p) # ChargeKey(g) /\ TopupKey(p) # FailedKey(g)
          /\ TopupKey(p) # PartialKey(g) /\ \A s \in Slides : TopupKey(p) # StuckKey(g, s)
      BY KeysDiffer
    <3> QED BY <2>1, <2>2, <3>1, <3>2 DEF Same
  <2>4. Kept' = Kept /\ Bought' = Bought
    <3>1. \A g \in Groups : Paid(g)' = Paid(g) /\ (g \in Bought)' = (g \in Bought)
      BY <2>3, PaidSame
    <3> QED BY <3>1 DEF Kept, Bought
  <2>5. Received' = Received \union {p} /\ p \notin Received
    <3>1. \A q \in Payments : TopupKey(q) = TopupKey(p) => q = p
      BY DEF TopupKey
    <3>2. \A q \in Payments : TopupKey(q) \in Keys
      BY KeysOfPayments
    <3>3. PACK # 0
      BY BillingConstants
    <3>4. \A q \in Payments : Entered(TopupKey(q))' <=> Entered(TopupKey(q)) \/ q = p
      BY <2>2, <3>1, <3>2, <3>3 DEF Entered
    <3> QED BY <1>2, <3>4 DEF Received
  <2> QED BY <2>1, <2>4, <2>5, Receives
<1> QED BY <1>1, <1>2

\* An entry of one group leaves what was received alone.
LEMMA ReceivedSame ==
  ASSUME TypeOK, NEW K, \A j \in Keys : j \notin K => ledger'[j] = ledger[j],
         \A p \in Payments : TopupKey(p) \notin K
  PROVE  Received' = Received
  BY KeysOfPayments DEF Received, Entered

\* A charge buys a creative that was never bought, with credits that are there.
LEMMA PayAccount ==
  ASSUME IInv, Timely, NEW w \in Workers, PayAndStart(w)
  PROVE  Account!ANext \/ UNCHANGED Account!avars
<1>t. TypeInv /\ BooksInv /\ TypeOK /\ ledger \in [Keys -> Int] /\ balance \in Int
  BY DEF IInv, TypeInv, TypeOK
<1>1. PICK g \in Groups, B \in SUBSET Slides :
        /\ g = Group(w) /\ wk[w].pc = "charge" /\ Cardinality(B) \in Nat
        /\ billed' = [billed EXCEPT ![g] = B]
        /\ \/ /\ Charge(ChargeKey(g), Cardinality(B))
              /\ status' = [status EXCEPT ![g] = [s \in Slides |-> "generating"]]
           \/ UNCHANGED <<balance, ledger>>
  BY <1>t, PayCases
<1>2. CASE UNCHANGED <<balance, ledger>>
  BY <1>2, StillAccount
<1>3. CASE ~UNCHANGED <<balance, ledger>>
  <2> DEFINE n == Cardinality(B)
  <2>1. /\ n \in Nat /\ n # 0 /\ balance >= n /\ balance' = balance - n
        /\ ledger' = [ledger EXCEPT ![ChargeKey(g)] = -n]
        /\ status' = [status EXCEPT ![g] = [s \in Slides |-> "generating"]]
    BY <1>1, <1>3 DEF Charge
  <2> HIDE DEF n
  <2>2. \A j \in Keys : j # ChargeKey(g) => ledger'[j] = ledger[j]
    BY <1>t, <2>1
  <2>3. /\ ChargeKey(g) \in Keys /\ FailedKey(g) \in Keys /\ PartialKey(g) \in Keys
        /\ \A s \in Slides : StuckKey(g, s) \in Keys
        /\ FailedKey(g) # ChargeKey(g) /\ PartialKey(g) # ChargeKey(g)
        /\ \A s \in Slides : StuckKey(g, s) # ChargeKey(g)
    BY KeysOfGroups, KeysDiffer
  <2>4. NoEntries(g)
    BY <1>t, <1>1 DEF BooksInv, Prepares, Untouched
  <2>5. ASSUME NEW h \in Groups, h # g PROVE Same(h)
    <3>1. status'[h] = status[h] /\ billed'[h] = billed[h]
      BY <1>t, <1>1, <2>1, <2>5 DEF TypeOK
    <3> QED BY <1>t, <2>2, <2>5, <3>1, EntryOutside
  <2>6. ledger'[ChargeKey(g)] = -n
    BY <1>t, <2>1, <2>3
  <2>7. Paid(g)' = n
    <3>1. StuckRefunds(g)' = {}
      BY <2>2, <2>3, <2>4 DEF NoEntries, StuckRefunds, Entered
    <3>2. Cardinality(StuckRefunds(g)') = 0
      BY <3>1, FS_EmptySet
    <3>3. ledger'[FailedKey(g)] = 0 /\ ledger'[PartialKey(g)] = 0
      BY <2>2, <2>3, <2>4 DEF NoEntries
    <3> QED BY <2>1, <2>6, <3>2, <3>3 DEF Paid
  <2>8. Kept' = [Kept EXCEPT ![g] = n]
    <3>1. \A h \in Groups : Paid(h)' = IF h = g THEN n ELSE Paid(h)
      BY <2>5, <2>7, PaidSame
    <3> QED BY <3>1 DEF Kept
  <2>9. Bought' = Bought \union {g} /\ g \notin Bought
    <3>1. \A h \in Groups : h # g => (h \in Bought)' = (h \in Bought)
      BY <2>5, PaidSame
    <3>2. (g \in Bought)' /\ g \notin Bought
      BY <2>1, <2>4, <2>6 DEF Bought, Entered, NoEntries
    <3>3. Bought \subseteq Groups /\ Bought' \subseteq Groups
      BY DEF Bought
    <3> QED BY <3>1, <3>2, <3>3
  <2>10. Received' = Received
    <3>1. \A p \in Payments : TopupKey(p) \notin {ChargeKey(g)}
      BY KeysDiffer
    <3> QED BY <1>t, <2>2, <3>1, ReceivedSame
  <2>11. n \in 1..balance
    BY <1>t, <2>1
  <2> QED BY <2>1, <2>8, <2>9, <2>10, <2>11, Buys
<1> QED BY <1>2, <1>3

\* Nobody's credits come back but what had been spent on the creative.
LEMMA KeptShrinks ==
  ASSUME IInv, IInv', Timely, \A g \in Groups : Kept'[g] <= Kept[g]
  PROVE  \A g \in Groups : Kept'[g] \in 0..Kept[g]
<1>1. NeverBelow
  BY PaidNat
<1>2. NeverBelow'
  BY PaidNat, PTL
<1> QED BY <1>1, <1>2 DEF NeverBelow, Timely, Kept

\* generate gives back at most what the creative has cost, and nothing else moves.
LEMMA GiveBackAccount ==
  ASSUME IInv, IInv', Timely, NEW w \in Workers, GiveBack(w)
  PROVE  Account!ANext \/ UNCHANGED Account!avars
<1>t. TypeInv /\ TypeOK /\ TypeOK' /\ ledger \in [Keys -> Int] /\ balance \in Int
  BY DEF IInv, TypeInv, TypeOK
<1>1. PICK g \in Groups, S \in SUBSET Slides, key \in Keys :
        /\ key \in {FailedKey(g), PartialKey(g)}
        /\ \/ UNCHANGED <<balance, ledger>>
           \/ Refund(key, Cardinality(S))
        /\ UNCHANGED <<status, billed>>
  BY <1>t, GiveBackCases
<1>2. CASE UNCHANGED <<balance, ledger>>
  BY <1>2, StillAccount
<1>3. CASE ~UNCHANGED <<balance, ledger>>
  <2> DEFINE n == Cardinality(S)
  <2>n. n \in Nat
    BY CountSlides
  <2>1. /\ balance' = balance + n /\ ledger' = [ledger EXCEPT ![key] = n] /\ ledger[key] = 0
    BY <1>1, <1>3 DEF Refund, Entered
  <2> HIDE DEF n
  <2>2. /\ ChargeKey(g) \in Keys /\ FailedKey(g) \in Keys /\ PartialKey(g) \in Keys
        /\ \A s \in Slides : StuckKey(g, s) \in Keys
    BY KeysOfGroups
  <2>3. /\ FailedKey(g) # PartialKey(g) /\ ChargeKey(g) # FailedKey(g) /\ ChargeKey(g) # PartialKey(g)
        /\ \A s \in Slides : StuckKey(g, s) # FailedKey(g) /\ StuckKey(g, s) # PartialKey(g)
    BY KeysDiffer
  <2>4. \A j \in Keys : ledger'[j] = IF j = key THEN n ELSE ledger[j]
    BY <1>t, <2>1
  <2>5. ASSUME NEW h \in Groups, h # g PROVE Same(h)
    <3>1. \A j \in Keys : j # key => ledger'[j] = ledger[j]
      BY <2>4
    <3>2. key \in {ChargeKey(g), FailedKey(g), PartialKey(g)}
      BY <1>1
    <3>3. status'[h] = status[h] /\ billed'[h] = billed[h]
      BY <1>1
    <3> QED BY <1>t, <2>5, <3>1, <3>2, <3>3, EntryOutside
  <2>6. /\ ledger'[ChargeKey(g)] = ledger[ChargeKey(g)]
        /\ \A s \in Slides : ledger'[StuckKey(g, s)] = ledger[StuckKey(g, s)]
        /\ ledger'[FailedKey(g)] + ledger'[PartialKey(g)]
             = ledger[FailedKey(g)] + ledger[PartialKey(g)] + n
    <3>1. ledger[FailedKey(g)] \in Int /\ ledger[PartialKey(g)] \in Int
      BY <1>t, <2>2
    <3>2. CASE key = FailedKey(g)
      BY <2>n, <2>1, <2>2, <2>3, <2>4, <3>1, <3>2
    <3>3. CASE key = PartialKey(g)
      BY <2>n, <2>1, <2>2, <2>3, <2>4, <3>1, <3>3
    <3> QED BY <1>1, <3>2, <3>3
  <2>7. Paid(g)' = Paid(g) - n
    <3>1. StuckRefunds(g)' = StuckRefunds(g) /\ Cardinality(StuckRefunds(g)) \in Nat
      BY <2>6, CountSlides DEF StuckRefunds, Entered
    <3>2. /\ ledger[ChargeKey(g)] \in Int
          /\ ledger[FailedKey(g)] \in Int /\ ledger[PartialKey(g)] \in Int
          /\ ledger'[FailedKey(g)] \in Int /\ ledger'[PartialKey(g)] \in Int
      BY <1>t, <2>2 DEF TypeOK
    <3> QED BY <2>n, <2>6, <3>1, <3>2 DEF Paid
  <2>8. Bought' = Bought
    <3>1. (g \in Bought)' = (g \in Bought)
      BY <2>6 DEF Bought, Entered
    <3>2. \A h \in Groups : (h \in Bought)' = (h \in Bought)
      BY <2>5, <3>1, PaidSame
    <3> QED BY <3>2 DEF Bought
  <2>9. Received' = Received
    <3>1. \A p \in Payments : TopupKey(p) \notin {key}
      BY <1>1, KeysDiffer
    <3>2. \A j \in Keys : j \notin {key} => ledger'[j] = ledger[j]
      BY <2>4
    <3> QED BY <1>t, <3>1, <3>2, ReceivedSame
  <2>10. /\ Kept \in [Groups -> Int] /\ Kept' \in [Groups -> Int]
         /\ \A h \in Groups \ {g} : Kept[h] = Kept'[h]
         /\ Kept'[g] = Kept[g] - n
    <3>1. \A h \in Groups : Paid(h) \in Int
      BY <1>t, PaidType
    <3>2. \A h \in Groups : Paid(h)' = IF h = g THEN Paid(h) - n ELSE Paid(h)
      BY <2>5, <2>7, PaidSame
    <3> QED BY <2>n, <3>1, <3>2 DEF Kept
  <2>11. balance' = balance + Account!Total(Kept) - Account!Total(Kept')
    <3>1. /\ Account!Total(Kept) \in Int
          /\ Account!Total(Kept') = Account!Total(Kept) - Kept[g] + Kept'[g]
      BY <2>10, TotalChange
    <3>2. Kept[g] \in Int
      BY <2>10
    <3> QED BY <1>t, <2>n, <2>1, <2>10, <3>1, <3>2
  <2>12. \A h \in Groups : Kept'[h] <= Kept[h]
    BY <2>n, <2>10
  <2> QED BY <2>8, <2>9, <2>11, <2>12, KeptShrinks, GivesBack
<1> QED BY <1>2, <1>3

\* The reaper gives back for many creatives at once, for each at most what it has cost.
LEMMA ReapAccount ==
  ASSUME IInv, IInv', Timely, NEW w \in Workers, ReapCommit(w)
  PROVE  Account!ANext
<1>t. TypeInv /\ TypeOK /\ ledger \in [Keys -> Int] /\ balance \in Int
  BY DEF IInv, TypeInv, TypeOK
<1> DEFINE D == Due(w)
<1>1. /\ D \in SUBSET (Groups \X Slides)
      /\ balance' = balance + Cardinality(D)
      /\ ledger' = [k \in Keys |-> IF \E c \in D : k = StuckKey(c[1], c[2]) THEN 1 ELSE ledger[k]]
  BY <1>t DEF TypeOK, Worker, Due, ReapCommit
<1>2. \A g \in Groups, s \in Slides : <<g, s>> \in D => ~Entered(StuckKey(g, s))
  BY DEF Due
<1>3. ASSUME NEW g \in Groups
      PROVE  /\ Paid(g)' = Paid(g) - Cardinality(Of(D, g))
             /\ (g \in Bought)' = (g \in Bought)
             /\ Paid(g) \in Int /\ Cardinality(Of(D, g)) \in Nat
  <2>1. /\ ledger'[ChargeKey(g)] = ledger[ChargeKey(g)]
        /\ ledger'[FailedKey(g)] = ledger[FailedKey(g)]
        /\ ledger'[PartialKey(g)] = ledger[PartialKey(g)]
        /\ \A s \in Slides : ledger'[StuckKey(g, s)] = IF <<g, s>> \in D THEN 1
                                                       ELSE ledger[StuckKey(g, s)]
    BY <1>t, ReapEntries
  <2>2. StuckRefunds(g)' = StuckRefunds(g) \union Of(D, g)
    BY <2>1 DEF StuckRefunds, Entered, Of
  <2>3. StuckRefunds(g) \intersect Of(D, g) = {}
    BY <1>2 DEF StuckRefunds, Of
  <2>4. /\ IsFiniteSet(StuckRefunds(g)) /\ Cardinality(StuckRefunds(g)) \in Nat
        /\ IsFiniteSet(Of(D, g)) /\ Cardinality(Of(D, g)) \in Nat
    BY CountSlides DEF StuckRefunds, Of
  <2>5. Cardinality(StuckRefunds(g)') = Cardinality(StuckRefunds(g)) + Cardinality(Of(D, g))
    <3>1. Cardinality(StuckRefunds(g) \intersect Of(D, g)) = 0
      BY <2>3, FS_EmptySet
    <3>2. Cardinality(StuckRefunds(g) \union Of(D, g))
            = Cardinality(StuckRefunds(g)) + Cardinality(Of(D, g))
                - Cardinality(StuckRefunds(g) \intersect Of(D, g))
      BY <2>4, FS_Union
    <3> QED BY <2>2, <2>4, <3>1, <3>2
  <2>6. /\ ledger[ChargeKey(g)] \in Int /\ ledger[FailedKey(g)] \in Int
        /\ ledger[PartialKey(g)] \in Int /\ Paid(g) \in Int
    BY <1>t, KeysOfGroups, PaidType
  <2> HIDE DEF D
  <2>7. Paid(g)' = Paid(g) - Cardinality(Of(D, g))
    BY <2>1, <2>4, <2>5, <2>6 DEF Paid
  <2> QED BY <2>1, <2>4, <2>6, <2>7 DEF Bought, Entered
<1> HIDE DEF D
<1>4. Bought' = Bought
  BY <1>3 DEF Bought
<1>5. Received' = Received
  <2>1. \A p \in Payments, c \in D : TopupKey(p) # StuckKey(c[1], c[2])
    BY KeysDiffer
  <2> QED BY <1>1, <2>1, KeysOfPayments DEF Received, Entered
<1>6. Kept \in [Groups -> Int] /\ Kept' = Less(Kept, D)
  BY <1>3 DEF Kept, Less
<1>7. balance' = balance + Account!Total(Kept) - Account!Total(Kept')
  <2>1. Account!Total(Less(Kept, D)) = Account!Total(Kept) - Cardinality(D)
    BY <1>1, <1>6, TotalLess
  <2>2. Account!Total(Kept) \in Int
    BY <1>6, TotalType
  <2>3. Cardinality(D) \in Nat
    <3>1. IsFiniteSet(Groups \X Slides)
      BY GroupsFinite, BillingConstants, FS_Product
    <3> QED BY <1>1, <3>1, FS_Subset, FS_CardinalityType
  <2> QED BY <1>t, <1>1, <1>6, <2>1, <2>2, <2>3
<1>8. \A g \in Groups : Kept'[g] <= Kept[g]
  BY <1>3 DEF Kept
<1> QED BY <1>4, <1>5, <1>7, <1>8, KeptShrinks, GivesBack

\* The ledger with its keys, the rows, the workers and the reapers, whatever is lost on
\* the way, keeps the promise of CreditAccount: a credit comes in once for each payment, a
\* creative is bought once and with credits that are there, and what comes back for it
\* never exceeds what it cost.
THEOREM AccountKept == Timely => (Spec => ImplementsAccount)
<1> SUFFICES ASSUME Timely PROVE Spec => ImplementsAccount
  OBVIOUS
<1>1. Init => Account!AInit
  <2> SUFFICES ASSUME Init PROVE Account!AInit
    OBVIOUS
  <2>1. \A k \in Keys : ledger[k] = 0
    BY DEF Init
  <2>2. ASSUME NEW g \in Groups PROVE Paid(g) = 0 /\ ~Entered(ChargeKey(g))
    <3>1. NoEntries(g)
      BY <2>1, KeysOfGroups DEF NoEntries
    <3>2. IInv
      BY InitIInv
    <3>3. TypeOK
      BY <3>2 DEF IInv, TypeInv
    <3> QED BY <3>1, <3>3, PaidOf DEF NoEntries, Entered
  <2>3. \A p \in Payments : ~Entered(TopupKey(p))
    BY <2>1, KeysOfPayments DEF Entered
  <2> QED BY <2>2, <2>3 DEF Init, Account!AInit
<1>2. ASSUME IInv, IInv', Next PROVE Account!ANext \/ UNCHANGED Account!avars
  <2>t. TypeInv
    BY <1>2 DEF IInv
  <2>1. ASSUME NEW p \in Payments, Topup(p) PROVE Account!ANext \/ UNCHANGED Account!avars
    BY <2>t, <2>1, TopupAccount
  <2>2. ASSUME NEW w \in Workers, PayAndStart(w) PROVE Account!ANext \/ UNCHANGED Account!avars
    BY <1>2, <2>2, PayAccount
  <2>3. ASSUME NEW w \in Workers, GiveBack(w) PROVE Account!ANext \/ UNCHANGED Account!avars
    BY <1>2, <2>3, GiveBackAccount
  <2>4. ASSUME NEW w \in Workers, ReapCommit(w) PROVE Account!ANext \/ UNCHANGED Account!avars
    BY <1>2, <2>4, ReapAccount
  <2>5. CASE UNCHANGED <<balance, ledger>>
    BY <2>5, StillAccount
  <2>6. ASSUME NEW w \in Workers, Generate(w)
        PROVE  PayAndStart(w) \/ GiveBack(w) \/ UNCHANGED <<balance, ledger>>
    BY <2>6 DEF Generate, Gate, TurnDown, SlideReady, SlideBad, Gathered, MarkFailed
  <2>7. ASSUME NEW w \in Workers, Answer(w) \/ ReapRead(w) \/ Crash(w) \/ ToolError(w)
        PROVE  UNCHANGED <<balance, ledger>>
    BY <2>7 DEF Answer, ReapRead, Crash, ToolError
  <2>8. ASSUME NEW r \in Requests, NEW w \in Workers, BeginTurn(w, r)
        PROVE  UNCHANGED <<balance, ledger>>
    BY <2>8 DEF BeginTurn
  <2>9. ASSUME NEW r \in Requests, GiveUp(r) PROVE UNCHANGED <<balance, ledger>>
    BY <2>9 DEF GiveUp
  <2>10. CASE Tick
    BY <2>5, <2>10 DEF Tick
  <2> QED BY <1>2, <2>1, <2>2, <2>3, <2>4, <2>5, <2>6, <2>7, <2>8, <2>9, <2>10 DEF Next, Works
<1>3. ASSUME UNCHANGED vars PROVE UNCHANGED Account!avars
  BY <1>3, StillAccount DEF vars
<1>4. ASSUME IInv, IInv', [Next]_vars PROVE [Account!ANext]_(Account!avars)
  BY <1>2, <1>3, <1>4
<1> QED BY <1>1, <1>4, SpecIInv, PTL DEF Spec, ImplementsAccount, Account!ASpec
====
