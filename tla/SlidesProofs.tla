------------------------------ MODULE SlidesProofs ------------------------------
(***************************************************************************)
(* What the slides of a creative spend, tell and ship, for any number of   *)
(* slides, prices, caps, attempts and looks.  Most properties are about    *)
(* one slide, so the invariant is one predicate over a slide's coroutine,  *)
(* its spending and its row, and a step moves one slide; what lies in the  *)
(* chat, and in which order, has an invariant of its own.                  *)
(***************************************************************************)
EXTENDS Slides, FiniteSetTheorems, TLAPS

Typed ==
  /\ task \in [Slides -> Task]
  /\ row \in [Slides -> [status : {"generating", "ready", "failed"}, cost : Nat]]
  /\ main \in {"gather", "flush", "done"} /\ ready \subseteq Slides
  /\ sent \in [Slides -> {"no", "taken", "refused"}]
  /\ spent \in [Slides -> Nat] /\ bought \in [Slides -> Nat] /\ passed \in [Slides -> Nat]

Buying(t) == t.pc \in {"turn", "vendor", "register", "inspect"}
Framed(t) == t.pc \in {"compose", "final", "second", "store"}

\* The books of a slide: t its coroutine, sp what it has cost, b the pictures made for it.
\* Before a picture is asked for there is room for it under the cap; what the coroutine has
\* noted in its three tallies is what was spent; and an exception tells no more than that.
Fits(t, sp, b) ==
  /\ b * PRICE <= BUDGET
  /\ Buying(t) => /\ sp = t.asked + t.cost + t.looks
                  /\ b * PRICE <= t.asked + t.cost
                  /\ t.round = 0 => t.cost = 0 /\ t.looks = 0
  /\ t.pc \in {"turn", "vendor"} => /\ t.asked + PRICE <= Left(t)
                                    /\ t.attempt = 1 => t.asked = 0
  /\ Framed(t) \/ t.pc = "deliver" => sp = t.cost + t.looks
  /\ Framed(t) /\ t.round = 0 => b * PRICE <= t.cost
  /\ t.pc = "bad" => /\ t.tells <= sp
                     /\ t.why = "refused" \/ (t.why = "outage" /\ t.round = 0) => t.tells = sp

\* Its row, r, at the place m of generate.
RowFits(t, sp, r, m) ==
  /\ r.status = "generating" => r.cost = 0
  /\ r.status = "ready" => r.cost = sp
  /\ r.status = "ready" <=> t.pc \in {"deliver", "ok"}
  /\ r.status = "failed" => t.pc = "bad" /\ r.cost = t.tells /\ m = "done"

\* The frame it holds, pa the one that passed, and out whether it is ready or was sent.
ShipFits(t, pa, out) ==
  /\ t.pc \in {"final", "second"} => t.frame # 0
  /\ t.pc \in {"store", "deliver", "ok"} => pa = t.frame /\ t.frame # 0
  /\ out => t.pc = "ok"

Out(s) == s \in ready \/ sent[s] # "no"

SlideInv(s) ==
  /\ Fits(task[s], spent[s], bought[s])
  /\ RowFits(task[s], spent[s], row[s], main)
  /\ ShipFits(task[s], passed[s], Out(s))

Inv == Typed /\ \A s \in Slides : SlideInv(s)

LEMMA Numbers ==
  /\ PRICE \in Nat \ {0} /\ LOOK \in Nat /\ BUDGET \in Nat /\ BUDGET >= PRICE
  /\ ATTEMPTS \in Nat \ {0} /\ INSPECT_ATTEMPTS \in Nat \ {0}
  BY SlidesConstants

LEMMA OneMore ==
  ASSUME NEW b \in Nat
  PROVE  (b + 1) * PRICE = b * PRICE + PRICE /\ b * PRICE \in Nat
  BY Numbers

LEMMA FreshOk ==
  ASSUME NEW s \in Slides
  PROVE  /\ Fresh(s) \in Task /\ Fits(Fresh(s), 0, 0)
         /\ Fresh(s).pc \in {"turn", "compose"}
<1>1. Fresh(s) \in Task
  BY Numbers DEF Fresh, Task, PC
<1>2. 0 * PRICE = 0
  BY Numbers
<1>3. /\ Fresh(s).pc = (IF s \in Made THEN "turn" ELSE "compose")
      /\ Fresh(s).round = 0 /\ Fresh(s).asked = 0 /\ Fresh(s).cost = 0 /\ Fresh(s).looks = 0
  BY DEF Fresh
<1>4. Fresh(s).pc = "turn" \/ Fresh(s).pc = "compose"
  BY <1>3
<1>5. Fits(Fresh(s), 0, 0)
  BY <1>2, <1>3, <1>4, Numbers DEF Fits, Buying, Framed, Left
<1> QED
  BY <1>1, <1>4, <1>5

LEMMA InitOk == Init => Inv
<1> SUFFICES ASSUME Init
             PROVE  Inv
  OBVIOUS
<1>1. Typed
  BY FreshOk DEF Init, Typed
<1>2. ASSUME NEW s \in Slides
      PROVE  SlideInv(s)
  <2>1. /\ task[s] = Fresh(s) /\ spent[s] = 0 /\ bought[s] = 0 /\ ~Out(s)
        /\ row[s] = [status |-> "generating", cost |-> 0]
    BY DEF Init, Out
  <2> QED
    BY <2>1, FreshOk DEF SlideInv, RowFits, ShipFits
<1> QED
  BY <1>1, <1>2 DEF Inv

-----------------------------------------------------------------------------
(* What a coroutine can become.  The edits of its record, field by field. *)

LEMMA Another ==
  ASSUME NEW t \in Task, NEW n \in 1..ATTEMPTS
  PROVE  LET u == [t EXCEPT !.pc = "turn", !.attempt = n]
         IN /\ u \in Task /\ u.pc = "turn" /\ u.attempt = n /\ u.round = t.round
            /\ u.asked = t.asked /\ u.cost = t.cost /\ u.looks = t.looks
  BY Zenon DEF Task, PC

LEMMA Retry ==
  ASSUME NEW t \in Task, 1 \in 1..ATTEMPTS
  PROVE  LET u == [t EXCEPT !.pc = "turn", !.round = 1, !.attempt = 1, !.asked = 0]
         IN /\ u \in Task /\ u.pc = "turn" /\ u.attempt = 1 /\ u.round = 1
            /\ u.asked = 0 /\ u.cost = t.cost /\ u.looks = t.looks
  BY 0 \in Nat, Zenon DEF Task, PC

LEMMA RaisedOk ==
  ASSUME NEW s \in Slides, task[s] \in Task, NEW why \in {"refused", "outage", "error"},
         NEW tells \in Nat, NEW sp \in Nat, NEW b \in Nat,
         b * PRICE <= BUDGET, tells <= sp,
         why = "refused" \/ (why = "outage" /\ task[s].round = 0) => tells = sp
  PROVE  LET t == Raised(s, why, tells)
         IN t \in Task /\ Fits(t, sp, b) /\ t.pc = "bad"
<1> DEFINE t == Raised(s, why, tells)
<1>1. Fresh(s) \in Task
  BY FreshOk
<1>2. /\ t \in Task /\ t.pc = "bad" /\ t.why = why /\ t.tells = tells
      /\ t.round = task[s].round
  BY <1>1 DEF Raised, Task, PC
<1> HIDE DEF t
<1>3. t \in Task /\ Fits(t, sp, b) /\ t.pc = "bad"
  BY <1>2 DEF Fits, Buying, Framed
<1> QED
  BY <1>3 DEF t

\* A picture that is not acceptable, after its price and its looks were counted.
LEMMA RejectedOk ==
  ASSUME NEW s \in Slides, task[s] \in Task, NEW t \in Task, t.round = task[s].round,
         NEW sp \in Nat, NEW b \in Nat, b * PRICE <= BUDGET,
         sp = t.asked + t.cost + t.looks, b * PRICE <= t.asked + t.cost,
         t.round = 0 => t.cost = 0 /\ t.looks = 0
  PROVE  LET u == Rejected(s, t)
         IN u \in Task /\ Fits(u, sp, b) /\ u.pc \in {"turn", "bad"}
<1>1. t.attempt \in 1..ATTEMPTS /\ t.asked \in Nat /\ t.cost \in Nat /\ t.looks \in Nat
      /\ t.round \in {0, 1}
  BY DEF Task
<1>2. CASE t.attempt < ATTEMPTS /\ t.asked + PRICE <= Left(t)
  <2> DEFINE n == t.attempt + 1
             u == [t EXCEPT !.pc = "turn", !.attempt = n]
  <2>0. n \in 1..ATTEMPTS /\ n # 1
    BY <1>1, <1>2, Numbers
  <2>1. /\ u \in Task /\ u.pc = "turn" /\ u.attempt = n /\ u.round = t.round
        /\ u.asked = t.asked /\ u.cost = t.cost /\ u.looks = t.looks
    BY <2>0, Another
  <2>2. Rejected(s, t) = u
    BY <1>2 DEF Rejected
  <2> HIDE DEF u
  <2>3. Fits(u, sp, b)
    BY <1>1, <1>2, <2>1 DEF Fits, Buying, Framed, Left
  <2> QED
    BY <2>1, <2>2, <2>3
<1>3. CASE ~(t.attempt < ATTEMPTS /\ t.asked + PRICE <= Left(t))
  <2> DEFINE tells == t.asked + (IF t.round = 1 THEN t.cost + t.looks ELSE 0)
  <2>1. tells \in Nat /\ tells = sp
    BY <1>1
  <2>2. Rejected(s, t) = Raised(s, "refused", tells)
    BY <1>3 DEF Rejected
  <2> HIDE DEF tells
  <2> QED
    BY <2>1, <2>2, RaisedOk
<1> QED
  BY <1>2, <1>3

\* A frame that nothing free made good enough.
LEMMA NotGoodOk ==
  ASSUME NEW s \in Slides, task[s] \in Task, NEW t \in Task, t.round = task[s].round,
         NEW sp \in Nat, NEW b \in Nat, b * PRICE <= BUDGET,
         sp = t.cost + t.looks, t.round = 0 => b * PRICE <= t.cost
  PROVE  LET u == NotGood(s, t)
         IN u \in Task /\ Fits(u, sp, b) /\ u.pc \in {"turn", "bad"}
<1>1. t.cost \in Nat /\ t.looks \in Nat /\ t.round \in {0, 1}
  BY DEF Task
<1>2. CASE s \in Made /\ MayBuy(t)
  <2> DEFINE u == [t EXCEPT !.pc = "turn", !.round = 1, !.attempt = 1, !.asked = 0]
  <2>1. /\ u \in Task /\ u.pc = "turn" /\ u.attempt = 1 /\ u.round = 1
        /\ u.asked = 0 /\ u.cost = t.cost /\ u.looks = t.looks
    <3>1. 1 \in 1..ATTEMPTS
      BY Numbers
    <3> QED
      BY <3>1, Retry
  <2>2. NotGood(s, t) = u
    BY <1>2 DEF NotGood
  <2>3. t.round = 0 /\ BUDGET - t.cost >= PRICE
    BY <1>2 DEF MayBuy
  <2> HIDE DEF u
  <2>4. Fits(u, sp, b)
    BY <1>1, <2>1, <2>3, Numbers DEF Fits, Buying, Framed, Left
  <2> QED
    BY <2>1, <2>2, <2>4
<1>3. CASE ~(s \in Made /\ MayBuy(t))
  <2>1. NotGood(s, t) = Raised(s, "refused", t.cost + t.looks)
    BY <1>3 DEF NotGood
  <2> QED
    BY <1>1, <2>1, RaisedOk
<1> QED
  BY <1>2, <1>3

LEMMA EditPc ==
  ASSUME NEW t \in Task, NEW pc \in PC
  PROVE  LET u == [t EXCEPT !.pc = pc]
         IN /\ u \in Task /\ u.pc = pc /\ u.attempt = t.attempt /\ u.round = t.round
            /\ u.asked = t.asked /\ u.cost = t.cost /\ u.looks = t.looks /\ u.frame = t.frame
  BY Zenon DEF Task

LEMMA EditAsked ==
  ASSUME NEW t \in Task, NEW a \in Nat
  PROVE  LET u == [t EXCEPT !.asked = a]
         IN /\ u \in Task /\ u.pc = t.pc /\ u.attempt = t.attempt /\ u.round = t.round
            /\ u.asked = a /\ u.cost = t.cost /\ u.looks = t.looks
  BY Zenon DEF Task

LEMMA EditPic ==
  ASSUME NEW t \in Task, NEW p \in Looks
  PROVE  LET u == [t EXCEPT !.pc = "register", !.pic = p]
         IN /\ u \in Task /\ u.pc = "register" /\ u.round = t.round
            /\ u.asked = t.asked /\ u.cost = t.cost /\ u.looks = t.looks
  BY Zenon DEF Task, PC

LEMMA EditLast ==
  ASSUME NEW t \in Task, NEW l \in BOOLEAN
  PROVE  LET u == [t EXCEPT !.pc = "inspect", !.last = l]
         IN /\ u \in Task /\ u.pc = "inspect" /\ u.round = t.round
            /\ u.asked = t.asked /\ u.cost = t.cost /\ u.looks = t.looks
  BY Zenon DEF Task, PC

\* The record with another place, with another frame, and with more looks.
Placed(t, pc) == [t EXCEPT !.pc = pc]
Arranged(t, pc, n, fine) == [t EXCEPT !.pc = pc, !.frame = n, !.fine = fine]
Watched(t, l) == [t EXCEPT !.looks = l]

LEMMA PlacedOk ==
  ASSUME NEW t \in Task, NEW pc \in PC
  PROVE  LET u == Placed(t, pc)
         IN /\ u \in Task /\ u.pc = pc /\ u.round = t.round /\ u.cost = t.cost
            /\ u.looks = t.looks /\ u.frame = t.frame
  BY Zenon DEF Task, Placed

LEMMA ArrangedOk ==
  ASSUME NEW t \in Task, NEW pc \in PC, NEW n \in Nat, NEW fine \in BOOLEAN
  PROVE  LET u == Arranged(t, pc, n, fine)
         IN /\ u \in Task /\ u.pc = pc /\ u.round = t.round /\ u.cost = t.cost
            /\ u.looks = t.looks /\ u.frame = n
  BY Zenon DEF Task, Arranged

LEMMA WatchedOk ==
  ASSUME NEW t \in Task, NEW l \in Nat
  PROVE  LET u == Watched(t, l)
         IN /\ u \in Task /\ u.pc = t.pc /\ u.round = t.round /\ u.cost = t.cost
            /\ u.looks = l /\ u.frame = t.frame /\ u.fine = t.fine
  BY Zenon DEF Task, Watched

-----------------------------------------------------------------------------
\* A coroutine that is still building takes a step: what is said of the others stays.
LEMMA OneMoves ==
  ASSUME Inv, NEW s \in Slides, NEW u \in Task, NEW sp \in Nat, NEW b \in Nat, NEW pa \in Nat,
         task' = [task EXCEPT ![s] = u], spent' = [spent EXCEPT ![s] = sp],
         bought' = [bought EXCEPT ![s] = b], passed' = [passed EXCEPT ![s] = pa], Quiet,
         task[s].pc \notin {"deliver", "ok", "bad"}, u.pc \notin {"deliver", "ok"},
         Fits(u, sp, b), ShipFits(u, pa, FALSE)
  PROVE  Inv'
<1>1. Typed'
  BY DEF Inv, Typed, Quiet
<1>2. SlideInv(s)'
  <2>1. task'[s] = u /\ spent'[s] = sp /\ bought'[s] = b /\ passed'[s] = pa
    BY DEF Inv, Typed
  <2>2. UNCHANGED <<row, main, ready, sent>>
    BY DEF Quiet
  <2>3. ~Out(s) /\ row[s].status = "generating" /\ row[s].cost = 0
    BY DEF Inv, Typed, SlideInv, ShipFits, RowFits
  <2>4. ~Out(s)'
    BY <2>2, <2>3 DEF Out
  <2>5. RowFits(u, sp, row[s], main)
    BY <2>3 DEF RowFits
  <2> QED
    BY <2>1, <2>2, <2>4, <2>5 DEF SlideInv, ShipFits
<1>3. ASSUME NEW v \in Slides, v # s
      PROVE  SlideInv(v)'
  <2>1. /\ task'[v] = task[v] /\ spent'[v] = spent[v] /\ bought'[v] = bought[v]
        /\ passed'[v] = passed[v] /\ UNCHANGED <<row, main, ready, sent>>
    BY <1>3 DEF Inv, Typed, Quiet
  <2>2. SlideInv(v)
    BY DEF Inv
  <2> QED
    BY <2>1, <2>2 DEF SlideInv, Out
<1> QED
  BY <1>1, <1>2, <1>3 DEF Inv

\* What holds of a slide before its coroutine moves.
LEMMA Before ==
  ASSUME Inv, NEW s \in Slides
  PROVE  /\ task[s] \in Task /\ spent[s] \in Nat /\ bought[s] \in Nat /\ passed[s] \in Nat
         /\ Fits(task[s], spent[s], bought[s]) /\ ShipFits(task[s], passed[s], Out(s))
         /\ task[s].asked \in Nat /\ task[s].cost \in Nat /\ task[s].looks \in Nat
         /\ task[s].round \in {0, 1} /\ task[s].frame \in Nat /\ bought[s] * PRICE \in Nat
<1>1. task[s] \in Task /\ spent[s] \in Nat /\ bought[s] \in Nat /\ passed[s] \in Nat
  BY DEF Inv, Typed
<1> QED
  BY <1>1, OneMore DEF Inv, SlideInv, Task

\* What a step leaves alone, it sets to what it was.
LEMMA Kept ==
  ASSUME Inv, NEW s \in Slides
  PROVE  /\ UNCHANGED spent => spent' = [spent EXCEPT ![s] = spent[s]]
         /\ UNCHANGED bought => bought' = [bought EXCEPT ![s] = bought[s]]
         /\ UNCHANGED passed => passed' = [passed EXCEPT ![s] = passed[s]]
  BY DEF Inv, Typed

\* A coroutine ends by an exception: nothing is asked of a frame any more.
LEMMA EndsBadly ==
  ASSUME Inv, NEW s \in Slides, NEW why \in {"refused", "outage", "error"}, NEW tells \in Nat,
         NEW sp \in Nat, task[s].pc \notin {"deliver", "ok", "bad"},
         task' = [task EXCEPT ![s] = Raised(s, why, tells)], spent' = [spent EXCEPT ![s] = sp],
         UNCHANGED <<bought, passed>>, Quiet, tells <= sp,
         why = "refused" \/ (why = "outage" /\ task[s].round = 0) => tells = sp
  PROVE  Inv'
<1> DEFINE u == Raised(s, why, tells)
<1>1. bought[s] * PRICE <= BUDGET
  BY Before DEF Fits
<1>2. u \in Task /\ Fits(u, sp, bought[s]) /\ u.pc = "bad"
  BY <1>1, Before, RaisedOk
<1>3. task' = [task EXCEPT ![s] = u]
  OBVIOUS
<1> HIDE DEF u
<1>4. ShipFits(u, passed[s], FALSE)
  BY <1>2 DEF ShipFits
<1> QED
  BY <1>2, <1>3, <1>4, Before, Kept, OneMoves

-----------------------------------------------------------------------------
(* One lemma per step of a coroutine. *)

LEMMA VendorOk ==
  ASSUME Inv, NEW s \in Slides, Vendor(s)
  PROVE  Inv'
<1> DEFINE u == [task[s] EXCEPT !.pc = "vendor"]
<1>1. /\ task[s].pc = "turn" /\ task' = [task EXCEPT ![s] = u] /\ Quiet
      /\ UNCHANGED <<spent, bought, passed>>
  BY DEF Vendor, At, To
<1>2. "vendor" \in PC
  BY DEF PC
<1>3. /\ u \in Task /\ u.pc = "vendor" /\ u.attempt = task[s].attempt /\ u.round = task[s].round
      /\ u.asked = task[s].asked /\ u.cost = task[s].cost /\ u.looks = task[s].looks
  BY <1>2, Before, EditPc
<1> HIDE DEF u
<1>4. Fits(u, spent[s], bought[s])
  BY <1>1, <1>3, Before DEF Fits, Buying, Framed, Left
<1>5. ShipFits(u, passed[s], FALSE)
  BY <1>3 DEF ShipFits
<1> QED
  BY <1>1, <1>3, <1>4, <1>5, Before, Kept, OneMoves

LEMMA ShapeRefusedOk ==
  ASSUME Inv, NEW s \in Slides, ShapeRefused(s)
  PROVE  Inv'
<1> DEFINE tells == task[s].cost + task[s].looks
<1>1. /\ task[s].pc = "turn" /\ task[s].attempt = 1 /\ Quiet
      /\ task' = [task EXCEPT ![s] = Raised(s, "refused", tells)]
      /\ UNCHANGED <<spent, bought, passed>>
  BY DEF ShapeRefused, At, To
<1>2. tells \in Nat /\ tells = spent[s] /\ tells <= spent[s] /\ "refused" \in {"refused", "outage", "error"}
  BY <1>1, Before DEF Fits, Buying
<1> HIDE DEF tells
<1>3. spent' = [spent EXCEPT ![s] = spent[s]] /\ spent[s] \in Nat
  BY <1>1, Before, Kept
<1> QED
  BY <1>1, <1>2, <1>3, EndsBadly

LEMMA VendorFailsOk ==
  ASSUME Inv, NEW s \in Slides, VendorFails(s)
  PROVE  Inv'
<1>1. /\ task[s].pc = "vendor" /\ Quiet /\ UNCHANGED <<spent, bought, passed>>
      /\ task' = [task EXCEPT ![s] = Raised(s, "error", 0)]
  BY DEF VendorFails, At, To
<1>2. spent' = [spent EXCEPT ![s] = spent[s]] /\ spent[s] \in Nat /\ 0 <= spent[s]
  BY <1>1, Before, Kept
<1> QED
  BY <1>1, <1>2, EndsBadly

\* The picture's price was promised a place under the cap when its turn was asked for.
LEMMA PictureOk ==
  ASSUME Inv, NEW s \in Slides, Picture(s)
  PROVE  Inv'
<1> DEFINE a == task[s].asked + PRICE
           t == [task[s] EXCEPT !.asked = a]
           sp == spent[s] + PRICE
           b == bought[s] + 1
<1>1. /\ task[s].pc = "vendor" /\ Quiet /\ UNCHANGED passed
      /\ spent' = [spent EXCEPT ![s] = sp] /\ bought' = [bought EXCEPT ![s] = b]
      /\ \/ \E p \in Looks : task' = [task EXCEPT ![s] = [t EXCEPT !.pc = "register", !.pic = p]]
         \/ task' = [task EXCEPT ![s] = Rejected(s, t)]
  BY DEF Picture, At, To
<1>2. a \in Nat /\ sp \in Nat /\ b \in Nat
  BY Before, Numbers
<1>3. /\ t \in Task /\ t.round = task[s].round /\ t.asked = a
      /\ t.cost = task[s].cost /\ t.looks = task[s].looks
  BY <1>2, Before, EditAsked
<1> HIDE DEF t
<1>4. b * PRICE = bought[s] * PRICE + PRICE
  BY Before, OneMore
<1>5. /\ b * PRICE <= BUDGET /\ sp = t.asked + t.cost + t.looks /\ b * PRICE <= t.asked + t.cost
      /\ t.round = 0 => t.cost = 0 /\ t.looks = 0
  <2> DEFINE q == bought[s] * PRICE
  <2>1. /\ spent[s] = task[s].asked + task[s].cost + task[s].looks
        /\ q <= task[s].asked + task[s].cost
        /\ task[s].round = 0 => task[s].cost = 0 /\ task[s].looks = 0
        /\ task[s].asked + PRICE <= Left(task[s])
    BY <1>1, Before DEF Fits, Buying
  <2>2. b * PRICE = q + PRICE /\ q \in Nat
    BY <1>4, Before
  <2> HIDE DEF q, b
  <2>3. q + PRICE <= BUDGET
    BY <2>1, <2>2, Before, Numbers DEF Left
  <2> QED
    BY <1>3, <2>1, <2>2, <2>3, Before, Numbers
<1> HIDE DEF sp, b, a
<1>6. ASSUME NEW u \in Task, task' = [task EXCEPT ![s] = u], Fits(u, sp, b),
             u.pc \in {"register", "turn", "bad"}
      PROVE  Inv'
  <2>1. ShipFits(u, passed[s], FALSE)
    BY <1>6 DEF ShipFits
  <2> QED
    BY <1>1, <1>2, <1>6, <2>1, Before, Kept, OneMoves
<1>7. CASE \E p \in Looks : task' = [task EXCEPT ![s] = [t EXCEPT !.pc = "register", !.pic = p]]
  <2>1. PICK p \in Looks : task' = [task EXCEPT ![s] = [t EXCEPT !.pc = "register", !.pic = p]]
    BY <1>7
  <2> DEFINE u == [t EXCEPT !.pc = "register", !.pic = p]
  <2>2. /\ u \in Task /\ u.pc = "register" /\ u.round = t.round
        /\ u.asked = t.asked /\ u.cost = t.cost /\ u.looks = t.looks
    BY <1>3, EditPic
  <2>3. task' = [task EXCEPT ![s] = u]
    BY <2>1
  <2> HIDE DEF u
  <2>4. Fits(u, sp, b)
    BY <1>5, <2>2 DEF Fits, Buying, Framed
  <2> QED
    BY <1>6, <2>2, <2>3, <2>4
<1>8. CASE task' = [task EXCEPT ![s] = Rejected(s, t)]
  BY <1>2, <1>3, <1>5, <1>6, <1>8, Before, RejectedOk
<1> QED
  BY <1>1, <1>7, <1>8

LEMMA RegisterOk ==
  ASSUME Inv, NEW s \in Slides, Register(s)
  PROVE  Inv'
<1> DEFINE t == task[s]
           l == LastAttempt(t)
           u == [t EXCEPT !.pc = "inspect", !.last = l]
<1>1. /\ t.pc = "register" /\ Quiet /\ UNCHANGED <<spent, bought, passed>>
      /\ task' = [task EXCEPT ![s] = Rejected(s, t)] \/ task' = [task EXCEPT ![s] = u]
  BY DEF Register, At, To
<1>2. /\ bought[s] * PRICE <= BUDGET /\ spent[s] = t.asked + t.cost + t.looks
      /\ bought[s] * PRICE <= t.asked + t.cost
      /\ t.round = 0 => t.cost = 0 /\ t.looks = 0
  BY <1>1, Before DEF Fits, Buying
<1>3. l \in BOOLEAN
  BY DEF LastAttempt
<1> HIDE DEF l
<1>4. /\ u \in Task /\ u.pc = "inspect" /\ u.round = t.round
      /\ u.asked = t.asked /\ u.cost = t.cost /\ u.looks = t.looks
  BY <1>3, Before, EditLast
<1>5. /\ t \in Task /\ t.round = task[s].round /\ task[s].pc = "register" /\ task[s] \in Task
      /\ spent[s] \in Nat /\ bought[s] \in Nat /\ passed[s] \in Nat
      /\ spent' = [spent EXCEPT ![s] = spent[s]] /\ bought' = [bought EXCEPT ![s] = bought[s]]
      /\ passed' = [passed EXCEPT ![s] = passed[s]]
  BY <1>1, Before, Kept
<1> HIDE DEF t, u
<1>6. ASSUME NEW v \in Task, task' = [task EXCEPT ![s] = v], Fits(v, spent[s], bought[s]),
             v.pc \in {"inspect", "turn", "bad"}
      PROVE  Inv'
  <2>1. ShipFits(v, passed[s], FALSE)
    BY <1>6 DEF ShipFits
  <2> QED
    BY <1>1, <1>5, <1>6, <2>1, OneMoves
<1>7. CASE task' = [task EXCEPT ![s] = Rejected(s, t)]
  BY <1>2, <1>5, <1>6, <1>7, RejectedOk
<1>8. CASE task' = [task EXCEPT ![s] = u]
  <2>1. Fits(u, spent[s], bought[s])
    BY <1>2, <1>4 DEF Fits, Buying, Framed
  <2> QED
    BY <1>4, <1>6, <1>8, <2>1
<1> QED
  BY <1>1, <1>7, <1>8

LEMMA AcceptedOk ==
  ASSUME NEW t \in Task, NEW sp \in Nat, NEW b \in Nat, b * PRICE <= BUDGET,
         sp = t.asked + t.cost + t.looks, b * PRICE <= t.asked + t.cost,
         t.round = 0 => t.cost = 0 /\ t.looks = 0
  PROVE  LET u == Accepted(t)
         IN u \in Task /\ Fits(u, sp, b) /\ u.pc = "compose"
<1> DEFINE c == IF t.round = 0 THEN t.asked ELSE t.cost
           l == IF t.round = 1 THEN t.looks + t.asked ELSE t.looks
           u == [t EXCEPT !.pc = "compose", !.cost = c, !.looks = l]
<1>1. t.asked \in Nat /\ t.cost \in Nat /\ t.looks \in Nat /\ t.round \in {0, 1}
  BY DEF Task
<1>2. sp = c + l /\ (t.round = 0 => b * PRICE <= c)
  BY <1>1
<1>3. c \in Nat /\ l \in Nat
  BY <1>1
<1>4. Accepted(t) = u
  BY DEF Accepted
<1> HIDE DEF c, l
<1>5. u \in Task /\ u.pc = "compose" /\ u.round = t.round /\ u.cost = c /\ u.looks = l
  BY <1>3, Zenon DEF Task, PC
<1> HIDE DEF u
<1>6. Fits(u, sp, b)
  BY <1>3, <1>2, <1>5 DEF Fits, Buying, Framed
<1> QED
  BY <1>4, <1>5, <1>6

LEMMA Looked ==
  ASSUME NEW answers \in 0..INSPECT_ATTEMPTS
  PROVE  answers * LOOK \in Nat
  BY Numbers

\* The inspector's answers are paid whatever they say.
LEMMA InspectOk ==
  ASSUME Inv, NEW s \in Slides, Inspect(s)
  PROVE  Inv'
<1>1. PICK answers \in 0..INSPECT_ATTEMPTS :
        LET c == answers * LOOK
            t == [task[s] EXCEPT !.asked = @ + c]
        IN /\ spent' = [spent EXCEPT ![s] = @ + c]
           /\ \/ task' = [task EXCEPT ![s] = Accepted(t)]
              \/ task' = [task EXCEPT ![s] = Rejected(s, t)]
              \/ task' = [task EXCEPT ![s] = Unreachable(s, task[s], c)]
  BY DEF Inspect, To
<1> DEFINE c == answers * LOOK
           a == task[s].asked + c
           t == [task[s] EXCEPT !.asked = a]
           sp == spent[s] + c
<1>2. /\ task[s].pc = "inspect" /\ Quiet /\ UNCHANGED <<bought, passed>>
      /\ spent' = [spent EXCEPT ![s] = sp]
      /\ \/ task' = [task EXCEPT ![s] = Accepted(t)]
         \/ task' = [task EXCEPT ![s] = Rejected(s, t)]
         \/ task' = [task EXCEPT ![s] = Unreachable(s, task[s], c)]
  BY <1>1 DEF Inspect, At
<1>3. c \in Nat
  BY Looked
<1> HIDE DEF c
<1>4. a \in Nat /\ sp \in Nat
  BY <1>3, Before
<1>5. /\ t \in Task /\ t.round = task[s].round /\ t.asked = a
      /\ t.cost = task[s].cost /\ t.looks = task[s].looks
  BY <1>4, Before, EditAsked
<1> HIDE DEF t
<1>6. /\ bought[s] * PRICE <= BUDGET /\ spent[s] = task[s].asked + task[s].cost + task[s].looks
      /\ bought[s] * PRICE <= task[s].asked + task[s].cost
      /\ task[s].round = 0 => task[s].cost = 0 /\ task[s].looks = 0
  BY <1>2, Before DEF Fits, Buying
<1>7. /\ sp = t.asked + t.cost + t.looks
      /\ bought[s] * PRICE <= t.asked + t.cost
      /\ t.round = 0 => t.cost = 0 /\ t.looks = 0
  <2> DEFINE q == bought[s] * PRICE
  <2>1. q \in Nat /\ q <= task[s].asked + task[s].cost
    BY <1>6, Before
  <2> HIDE DEF q
  <2>2. q <= t.asked + t.cost
    BY <1>3, <1>5, <2>1, Before
  <2> QED
    BY <1>3, <1>5, <1>6, <2>2, Before DEF q
<1>8. /\ task[s] \in Task /\ bought[s] \in Nat /\ passed[s] \in Nat
      /\ bought' = [bought EXCEPT ![s] = bought[s]] /\ passed' = [passed EXCEPT ![s] = passed[s]]
  BY <1>2, Before, Kept
<1> HIDE DEF sp, a
<1>9. ASSUME NEW v \in Task, task' = [task EXCEPT ![s] = v], Fits(v, sp, bought[s]),
             v.pc \in {"compose", "turn", "bad"}
      PROVE  Inv'
  <2>1. ShipFits(v, passed[s], FALSE)
    BY <1>9 DEF ShipFits
  <2> QED
    BY <1>2, <1>4, <1>8, <1>9, <2>1, OneMoves
<1>10. CASE task' = [task EXCEPT ![s] = Accepted(t)]
  BY <1>4, <1>5, <1>6, <1>7, <1>8, <1>9, <1>10, AcceptedOk
<1>11. CASE task' = [task EXCEPT ![s] = Rejected(s, t)]
  BY <1>4, <1>5, <1>6, <1>7, <1>8, <1>9, <1>11, RejectedOk
<1>12. CASE task' = [task EXCEPT ![s] = Unreachable(s, task[s], c)]
  <2> DEFINE tells == task[s].asked + c + (IF task[s].round = 1 THEN task[s].cost ELSE 0)
  <2>1. /\ tells \in Nat /\ tells <= sp
        /\ task[s].round = 0 => tells = sp
    BY <1>3, <1>6, Before DEF sp
  <2>2. task' = [task EXCEPT ![s] = Raised(s, "outage", tells)]
    BY <1>12 DEF Unreachable
  <2> HIDE DEF tells
  <2> QED
    BY <1>2, <1>4, <2>1, <2>2, EndsBadly
<1> QED
  BY <1>2, <1>10, <1>11, <1>12

LEMMA ComposeOk ==
  ASSUME Inv, NEW s \in Slides, Compose(s)
  PROVE  Inv'
<1> DEFINE n == task[s].frame + 1
<1>1. /\ task[s].pc = "compose" /\ Quiet /\ UNCHANGED <<spent, bought, passed>>
      /\ \/ \E fine \in BOOLEAN : task' = [task EXCEPT ![s] = Arranged(task[s], "final", n, fine)]
         \/ task' = [task EXCEPT ![s] = Raised(s, "error", 0)]
  BY DEF Compose, At, To, Arranged
<1>2. /\ spent' = [spent EXCEPT ![s] = spent[s]] /\ bought' = [bought EXCEPT ![s] = bought[s]]
      /\ passed' = [passed EXCEPT ![s] = passed[s]]
  BY <1>1, Kept
<1>3. /\ spent[s] \in Nat /\ bought[s] \in Nat /\ passed[s] \in Nat /\ n \in Nat /\ n # 0
      /\ 0 <= spent[s] /\ task[s] \in Task /\ "final" \in PC
  BY Before DEF PC
<1> HIDE DEF n
<1>4. CASE task' = [task EXCEPT ![s] = Raised(s, "error", 0)]
  BY <1>1, <1>2, <1>3, <1>4, EndsBadly
<1>5. ASSUME NEW fine \in BOOLEAN, task' = [task EXCEPT ![s] = Arranged(task[s], "final", n, fine)]
      PROVE  Inv'
  <2> DEFINE u == Arranged(task[s], "final", n, fine)
  <2>1. /\ u \in Task /\ u.pc = "final" /\ u.round = task[s].round /\ u.cost = task[s].cost
        /\ u.looks = task[s].looks /\ u.frame = n
    BY <1>3, ArrangedOk
  <2>2. task' = [task EXCEPT ![s] = u]
    BY <1>5
  <2> HIDE DEF u
  <2>3. Fits(u, spent[s], bought[s])
    BY <1>1, <2>1, Before DEF Fits, Buying, Framed
  <2>4. ShipFits(u, passed[s], FALSE)
    BY <1>3, <2>1 DEF ShipFits
  <2> QED
    BY <1>1, <1>2, <1>3, <2>1, <2>2, <2>3, <2>4, OneMoves
<1> QED
  BY <1>1, <1>4, <1>5

\* What a look at a finished frame t, its answers paid with c, may lead to: the frame is
\* stored, rearranged, or not good enough, or the inspector cannot be reached.
LooksAt(s, t) ==
  \/ task' = [task EXCEPT ![s] = Placed(t, "store")] /\ passed' = [passed EXCEPT ![s] = t.frame]
  \/ task' = [task EXCEPT ![s] = NotGood(s, t)] /\ UNCHANGED passed
  \/ /\ \E fine \in BOOLEAN : task' = [task EXCEPT ![s] = Arranged(t, "second", t.frame + 1, fine)]
     /\ UNCHANGED passed
  \/ task' = [task EXCEPT ![s] = Raised(s, "refused", t.cost + t.looks)] /\ UNCHANGED passed

LEMMA LookOk ==
  ASSUME Inv, NEW s \in Slides, task[s].pc \in {"final", "second"}, Quiet, UNCHANGED bought,
         NEW c \in Nat, spent' = [spent EXCEPT ![s] = spent[s] + c],
         LooksAt(s, Watched(task[s], task[s].looks + c))
  PROVE  Inv'
<1> DEFINE l == task[s].looks + c
           sp == spent[s] + c
           t == Watched(task[s], l)
<1>1. l \in Nat /\ sp \in Nat /\ bought[s] \in Nat /\ passed[s] \in Nat /\ task[s] \in Task
  BY Before
<1>2. LooksAt(s, t) /\ spent' = [spent EXCEPT ![s] = sp]
  OBVIOUS
<1>3. sp = spent[s] + c /\ l = task[s].looks + c
  OBVIOUS
<1> HIDE DEF sp, l
<1>4. /\ t \in Task /\ t.pc = task[s].pc /\ t.round = task[s].round /\ t.cost = task[s].cost
      /\ t.looks = l /\ t.frame = task[s].frame
  BY <1>1, WatchedOk
<1> HIDE DEF t
<1>5. t.cost \in Nat /\ t.frame \in Nat /\ t.frame # 0 /\ t.frame + 1 \in Nat /\ t.frame + 1 # 0
  BY <1>4, Before DEF ShipFits
<1>6. /\ bought[s] * PRICE <= BUDGET
      /\ spent[s] = task[s].cost + task[s].looks
      /\ t.round = 0 => bought[s] * PRICE <= t.cost
  BY <1>4, Before DEF Fits, Framed
<1>7. sp = t.cost + t.looks
  BY <1>3, <1>4, <1>6, Before
<1>8. bought' = [bought EXCEPT ![s] = bought[s]]
  BY Kept
<1>9. ASSUME NEW u \in Task, NEW pa \in Nat, task' = [task EXCEPT ![s] = u],
             passed' = [passed EXCEPT ![s] = pa], Fits(u, sp, bought[s]), ShipFits(u, pa, FALSE),
             u.pc \notin {"deliver", "ok"}
      PROVE  Inv'
  BY <1>1, <1>2, <1>8, <1>9, OneMoves
<1>10. CASE task' = [task EXCEPT ![s] = Placed(t, "store")] /\ passed' = [passed EXCEPT ![s] = t.frame]
  <2> DEFINE u == Placed(t, "store")
  <2>1. "store" \in PC
    BY DEF PC
  <2>2. /\ u \in Task /\ u.pc = "store" /\ u.round = t.round /\ u.cost = t.cost
        /\ u.looks = t.looks /\ u.frame = t.frame
    BY <1>4, <2>1, PlacedOk
  <2>3. task' = [task EXCEPT ![s] = u]
    BY <1>10
  <2> HIDE DEF u
  <2>4. Fits(u, sp, bought[s])
    BY <1>6, <1>7, <2>2 DEF Fits, Buying, Framed
  <2>5. ShipFits(u, t.frame, FALSE)
    BY <1>5, <2>2 DEF ShipFits
  <2> QED
    BY <1>5, <1>9, <1>10, <2>2, <2>3, <2>4, <2>5
<1>11. CASE task' = [task EXCEPT ![s] = NotGood(s, t)] /\ UNCHANGED passed
  <2> DEFINE u == NotGood(s, t)
  <2>1. u \in Task /\ Fits(u, sp, bought[s]) /\ u.pc \in {"turn", "bad"}
    BY <1>1, <1>4, <1>6, <1>7, NotGoodOk
  <2>2. task' = [task EXCEPT ![s] = u] /\ passed' = [passed EXCEPT ![s] = passed[s]]
    BY <1>11, Kept
  <2> HIDE DEF u
  <2>3. ShipFits(u, passed[s], FALSE)
    BY <2>1 DEF ShipFits
  <2> QED
    BY <1>1, <1>9, <2>1, <2>2, <2>3
<1>12. ASSUME NEW fine \in BOOLEAN, UNCHANGED passed,
              task' = [task EXCEPT ![s] = Arranged(t, "second", t.frame + 1, fine)]
       PROVE  Inv'
  <2> DEFINE n == t.frame + 1
             u == Arranged(t, "second", n, fine)
  <2>1. n \in Nat /\ n # 0 /\ "second" \in PC
    BY <1>5 DEF PC
  <2>2. task' = [task EXCEPT ![s] = u]
    BY <1>12
  <2> HIDE DEF n
  <2>3. /\ u \in Task /\ u.pc = "second" /\ u.round = t.round /\ u.cost = t.cost
        /\ u.looks = t.looks /\ u.frame = n
    BY <1>4, <2>1, ArrangedOk
  <2> HIDE DEF u
  <2>4. Fits(u, sp, bought[s])
    BY <1>6, <1>7, <2>3 DEF Fits, Buying, Framed
  <2>5. ShipFits(u, passed[s], FALSE)
    BY <2>1, <2>3 DEF ShipFits
  <2>6. passed' = [passed EXCEPT ![s] = passed[s]]
    BY <1>12, Kept
  <2> QED
    BY <1>1, <1>9, <2>2, <2>3, <2>4, <2>5, <2>6
<1>13. CASE task' = [task EXCEPT ![s] = Raised(s, "refused", t.cost + t.looks)] /\ UNCHANGED passed
  <2> DEFINE tells == t.cost + t.looks
  <2>1. tells = sp
    BY <1>7
  <2>2. task' = [task EXCEPT ![s] = Raised(s, "refused", tells)]
    BY <1>13
  <2> HIDE DEF tells
  <2>3. tells \in Nat /\ tells <= sp
    BY <1>1, <2>1
  <2> QED
    BY <1>1, <1>2, <1>13, <2>1, <2>2, <2>3, EndsBadly
<1> QED
  BY <1>2, <1>10, <1>11, <1>12, <1>13 DEF LooksAt

LEMMA FinalLookOk ==
  ASSUME Inv, NEW s \in Slides, FinalLook(s)
  PROVE  Inv'
<1>1. PICK answers \in 0..INSPECT_ATTEMPTS :
        /\ spent' = [spent EXCEPT ![s] = spent[s] + answers * LOOK]
        /\ LooksAt(s, Watched(task[s], task[s].looks + answers * LOOK))
  BY DEF FinalLook, To, LooksAt, Watched, Placed, Arranged
<1>2. task[s].pc \in {"final", "second"} /\ Quiet /\ UNCHANGED bought
  BY DEF FinalLook, At
<1> DEFINE c == answers * LOOK
<1>3. c \in Nat
  BY Looked
<1>4. /\ spent' = [spent EXCEPT ![s] = spent[s] + c]
      /\ LooksAt(s, Watched(task[s], task[s].looks + c))
  BY <1>1
<1> HIDE DEF c
<1> QED
  BY <1>2, <1>3, <1>4, LookOk

LEMMA SecondLookOk ==
  ASSUME Inv, NEW s \in Slides, SecondLook(s)
  PROVE  Inv'
<1>1. PICK answers \in 0..INSPECT_ATTEMPTS :
        /\ spent' = [spent EXCEPT ![s] = spent[s] + answers * LOOK]
        /\ LooksAt(s, Watched(task[s], task[s].looks + answers * LOOK))
  BY DEF SecondLook, To, LooksAt, Watched, Placed, Better
<1>2. task[s].pc \in {"final", "second"} /\ Quiet /\ UNCHANGED bought
  BY DEF SecondLook, At
<1> DEFINE c == answers * LOOK
<1>3. c \in Nat
  BY Looked
<1>4. /\ spent' = [spent EXCEPT ![s] = spent[s] + c]
      /\ LooksAt(s, Watched(task[s], task[s].looks + c))
  BY <1>1
<1> HIDE DEF c
<1> QED
  BY <1>2, <1>3, <1>4, LookOk

\* A slide that is stored: its row tells what it has cost, or the coroutine ends.
LEMMA StoreSlideOk ==
  ASSUME Inv, NEW s \in Slides, StoreSlide(s)
  PROVE  Inv'
<1>1. task[s].pc = "store" /\ UNCHANGED <<main, ready, sent, spent, bought, passed>>
  BY DEF StoreSlide, At
<1>2. CASE UNCHANGED row /\ task' = [task EXCEPT ![s] = Raised(s, "error", 0)]
  <2>1. Quiet
    BY <1>2 DEF StoreSlide, Quiet
  <2>2. spent' = [spent EXCEPT ![s] = spent[s]] /\ spent[s] \in Nat /\ 0 <= spent[s]
    BY <1>1, Before, Kept
  <2> QED
    BY <1>1, <1>2, <2>1, <2>2, EndsBadly
<1> DEFINE n == task[s].cost + task[s].looks
           u == Placed(task[s], "deliver")
<1>3. CASE /\ row' = [row EXCEPT ![s] = [status |-> "ready", cost |-> n]]
           /\ task' = [task EXCEPT ![s] = u]
  <2>1. n \in Nat /\ n = spent[s] /\ "deliver" \in PC
    BY <1>1, Before DEF Fits, Framed, PC
  <2>2. /\ u \in Task /\ u.pc = "deliver" /\ u.cost = task[s].cost /\ u.looks = task[s].looks
        /\ u.frame = task[s].frame
    BY <2>1, Before, PlacedOk
  <2> HIDE DEF n, u
  <2>3. Typed'
    BY <1>1, <1>3, <2>1, <2>2 DEF Inv, Typed
  <2>4. Fits(u, spent[s], bought[s])
    BY <1>1, <2>2, Before DEF Fits, Buying, Framed
  <2>5. ShipFits(u, passed[s], Out(s))
    BY <1>1, <2>2, Before DEF ShipFits
  <2>6. task'[s] = u /\ row'[s] = [status |-> "ready", cost |-> n]
    BY <1>3 DEF Inv, Typed
  <2>7. SlideInv(s)'
    BY <1>1, <2>1, <2>2, <2>4, <2>5, <2>6 DEF SlideInv, RowFits, Out
  <2>8. ASSUME NEW v \in Slides, v # s
        PROVE  SlideInv(v)'
    <3>1. task'[v] = task[v] /\ row'[v] = row[v]
      BY <1>3, <2>8 DEF Inv, Typed
    <3> QED
      BY <1>1, <3>1 DEF Inv, SlideInv, Out
  <2> QED
    BY <2>3, <2>7, <2>8 DEF Inv
<1> QED
  BY <1>2, <1>3 DEF StoreSlide, To, Placed

Delivered(t) ==
  [t EXCEPT !.pc = "ok", !.round = 0, !.attempt = 1, !.asked = 0, !.cost = 0, !.looks = 0]

LEMMA DeliveredOk ==
  ASSUME NEW t \in Task, 1 \in 1..ATTEMPTS
  PROVE  LET u == Delivered(t) IN u \in Task /\ u.pc = "ok" /\ u.frame = t.frame
  BY 0 \in Nat, Zenon DEF Delivered, Task, PC

\* What WhatsApp says of a picture changes nothing that was said of the slides.
LEMMA SentOk ==
  ASSUME Typed, NEW s \in Slides, Send(s) \/ UNCHANGED <<sent, order>>
  PROVE  /\ sent' \in [Slides -> {"no", "taken", "refused"}]
         /\ \A v \in Slides : v # s => sent'[v] = sent[v]
  BY DEF Typed, Send

LEMMA DeliverOk ==
  ASSUME Inv, NEW s \in Slides, Deliver(s)
  PROVE  Inv'
<1> DEFINE u == Delivered(task[s])
<1>1. /\ task[s].pc = "deliver" /\ task' = [task EXCEPT ![s] = u] /\ ready' = ready \union {s}
      /\ Send(s) \/ UNCHANGED <<sent, order>>
      /\ UNCHANGED <<row, main, spent, bought, passed>>
  BY DEF Deliver, At, To, Delivered
<1>2. u \in Task /\ u.pc = "ok" /\ u.frame = task[s].frame
  <2>1. 1 \in 1..ATTEMPTS
    BY Numbers
  <2> QED
    BY <2>1, Before, DeliveredOk
<1> HIDE DEF u
<1>3. /\ sent' \in [Slides -> {"no", "taken", "refused"}]
      /\ \A v \in Slides : v # s => sent'[v] = sent[v]
  BY <1>1, SentOk DEF Inv
<1>4. Typed'
  BY <1>1, <1>2, <1>3 DEF Inv, Typed
<1>5. SlideInv(s)'
  <2>1. task'[s] = u
    BY <1>1 DEF Inv, Typed
  <2>2. Fits(u, spent[s], bought[s]) /\ (\A out \in BOOLEAN : ShipFits(u, passed[s], out))
    BY <1>1, <1>2, Before DEF Fits, ShipFits, Buying, Framed
  <2>3. RowFits(u, spent[s], row[s], main)
    BY <1>1, <1>2 DEF Inv, SlideInv, RowFits
  <2>4. Out(s)' \in BOOLEAN
    BY DEF Out
  <2> QED
    BY <1>1, <2>1, <2>2, <2>3, <2>4 DEF SlideInv
<1>6. ASSUME NEW v \in Slides, v # s
      PROVE  SlideInv(v)'
  <2>1. task'[v] = task[v] /\ Out(v)' = Out(v)
    BY <1>1, <1>3, <1>6 DEF Inv, Typed, Out
  <2> QED
    BY <1>1, <2>1 DEF Inv, SlideInv
<1> QED
  BY <1>4, <1>5, <1>6 DEF Inv

LEMMA FlushOk ==
  ASSUME Inv, NEW s \in Slides, Flush(s)
  PROVE  Inv'
<1>1. /\ s \in ready /\ Send(s)
      /\ UNCHANGED <<task, row, main, ready, spent, bought, passed>>
  BY DEF Flush, Following, Unsent
<1>2. /\ sent' \in [Slides -> {"no", "taken", "refused"}]
      /\ \A v \in Slides : v # s => sent'[v] = sent[v]
  BY <1>1, SentOk DEF Inv
<1>3. \A v \in Slides : Out(v)' <=> Out(v)
  BY <1>1, <1>2 DEF Out
<1> QED
  BY <1>1, <1>2, <1>3 DEF Inv, Typed, SlideInv, ShipFits

LEMMA GatheredOk ==
  ASSUME Inv, Gathered
  PROVE  Inv'
<1>1. /\ main = "gather" /\ main' = "flush"
      /\ UNCHANGED <<task, row, ready, sent, spent, bought, passed>>
  BY DEF Gathered
<1> QED
  BY <1>1 DEF Inv, Typed, SlideInv, RowFits, Out

\* The failures are marked with what their exceptions tell.
LEMMA SettleOk ==
  ASSUME Inv, Settle
  PROVE  Inv'
<1>1. /\ main' = "done" /\ UNCHANGED <<task, ready, sent, spent, bought, passed>>
      /\ row' = [s \in Slides |-> IF task[s].pc = "bad"
                                  THEN [status |-> "failed", cost |-> task[s].tells] ELSE row[s]]
  BY DEF Settle
<1>2. ASSUME NEW s \in Slides
      PROVE  task[s].tells \in Nat
  <2>1. task[s] \in Task
    BY DEF Inv, Typed
  <2> QED
    BY <2>1 DEF Task
<1>3. Typed'
  BY <1>1, <1>2 DEF Inv, Typed
<1>4. ASSUME NEW s \in Slides
      PROVE  SlideInv(s)'
  <2>1. SlideInv(s)
    BY DEF Inv
  <2>2. RowFits(task[s], spent[s], row'[s], "done")
    BY <1>1, <2>1 DEF SlideInv, RowFits
  <2> QED
    BY <1>1, <2>1, <2>2 DEF SlideInv, Out
<1> QED
  BY <1>3, <1>4 DEF Inv

-----------------------------------------------------------------------------
LEMMA StepOk == Inv /\ [Next]_vars => Inv'
<1> SUFFICES ASSUME Inv, [Next]_vars
             PROVE  Inv'
  OBVIOUS
<1>1. ASSUME NEW s \in Slides, Build(s)
      PROVE  Inv'
  BY <1>1, VendorOk, ShapeRefusedOk, PictureOk, VendorFailsOk, RegisterOk, InspectOk, ComposeOk,
     FinalLookOk, SecondLookOk, StoreSlideOk, DeliverOk DEF Build
<1>2. CASE UNCHANGED vars
  BY <1>2 DEF vars, Inv, Typed, SlideInv, Out
<1> QED
  BY <1>1, <1>2, FlushOk, GatheredOk, SettleOk DEF Next

LEMMA Reached == Spec => []Inv
  BY InitOk, StepOk, PTL DEF Spec

\* The pictures of a slide stay within its cap, for any cap, price and number of attempts:
\* both calls of _generate_checked ask before they buy, and the second is told what the
\* first has spent (_generate_checked and _final_check).
THEOREM SpendingCapped == Spec => []PicturesWithinCap
<1>1. Inv => PicturesWithinCap
  BY DEF Inv, SlideInv, Fits, PicturesWithinCap
<1> QED
  BY <1>1, Reached, PTL

\* cost_micros of a slide that is ready or was refused is what the slide has cost, over all
\* pictures, looks and rearrangements; no row tells more than that (_build_one, and the
\* exceptions that generate reads it from).
THEOREM CostsTold == Spec => []RowTellsTheCost
<1>1. Inv => RowTellsTheCost
  <2> SUFFICES ASSUME Inv, NEW s \in Slides
               PROVE  /\ row[s].cost <= spent[s]
                      /\ row[s].status = "ready" => row[s].cost = spent[s]
                      /\ /\ row[s].status = "failed"
                         /\ task[s].why = "refused" \/ (task[s].why = "outage" /\ task[s].round = 0)
                         => row[s].cost = spent[s]
    BY DEF RowTellsTheCost
  <2>1. /\ RowFits(task[s], spent[s], row[s], main) /\ Fits(task[s], spent[s], bought[s])
        /\ spent[s] \in Nat /\ row[s].status \in {"generating", "ready", "failed"}
    BY DEF Inv, SlideInv, Typed
  <2> QED
    BY <2>1 DEF RowFits, Fits
<1> QED
  BY <1>1, Reached, PTL

\* A frame that goes out is the one that passed, whatever was rearranged and bought before
\* (_final_check hands _build_one the frame it has looked at).
THEOREM PassedFramesShip == Spec => []OnlyPassedFramesShip
<1>1. Inv => OnlyPassedFramesShip
  BY DEF Inv, SlideInv, RowFits, ShipFits, Out, OnlyPassedFramesShip
<1> QED
  BY <1>1, Reached, PTL

-----------------------------------------------------------------------------
(* The chat *)

Gone == {s \in Slides : sent[s] # "no"}

\* The chat holds what was sent, each once.
ChatInv ==
  /\ order \in Seq(Slides)
  /\ \A i \in 1..Len(order) : order[i] \in Gone
  /\ \A s \in Gone : \E i \in 1..Len(order) : order[i] = s
  /\ Len(order) = Cardinality(Gone)

\* What was built waits in ready for its turn: none waits in a set that is sent as it is
\* made, and in one sent in order nothing goes out before all are built, and what waits
\* comes after what was sent.
TurnInv ==
  /\ ordered \in BOOLEAN
  /\ \A s \in Slides : task[s].pc = "ok" => s \in ready
  /\ main # "gather" => \A s \in Slides : Ended(s)
  /\ ~ordered \/ main = "done" => Unsent = {}
  /\ ordered /\ main = "gather" => Len(order) = 0
  /\ ordered => /\ \A i, j \in 1..Len(order) : i < j => order[i] < order[j]
                /\ \A i \in 1..Len(order) : \A u \in Unsent : order[i] < u

LEMMA ChatInit == Init => ChatInv /\ TurnInv
<1> SUFFICES ASSUME Init PROVE ChatInv /\ TurnInv
  OBVIOUS
<1>1. order = <<>> /\ ready = {} /\ main = "gather" /\ ordered \in BOOLEAN
  BY DEF Init
<1>2. order \in Seq(Slides) /\ Len(order) = 0
  BY <1>1
<1>3. Gone = {} /\ Unsent = {}
  BY <1>1 DEF Init, Gone, Unsent
<1>4. Cardinality(Gone) = 0
  BY <1>3, FS_EmptySet
<1>5. \A s \in Slides : task[s].pc # "ok"
  <2> TAKE s \in Slides
  <2>1. task[s] = Fresh(s) /\ Fresh(s).pc \in {"turn", "compose"}
    BY FreshOk DEF Init
  <2> QED BY <2>1
<1> QED BY <1>1, <1>2, <1>3, <1>4, <1>5 DEF ChatInv, TurnInv

\* One more line in the chat.
LEMMA OneSent ==
  ASSUME Inv, ChatInv, NEW s \in Slides, sent[s] = "no", Send(s)
  PROVE  /\ ChatInv'
         /\ \A v \in Slides : sent'[v] # "no" <=> v = s \/ sent[v] # "no"
         /\ Len(order') = Len(order) + 1 /\ order'[Len(order) + 1] = s
         /\ \A i \in 1..Len(order) : order'[i] = order[i]
<1>1. PICK outcome \in {"taken", "refused"} : sent' = [sent EXCEPT ![s] = outcome]
  BY DEF Send
<1>2. \A v \in Slides : sent'[v] # "no" <=> v = s \/ sent[v] # "no"
  BY <1>1 DEF Inv, Typed
<1>3. order \in Seq(Slides) /\ order' = Append(order, s)
  BY DEF ChatInv, Send
<1>4. /\ order' \in Seq(Slides) /\ Len(order') = Len(order) + 1 /\ Len(order) \in Nat
      /\ order'[Len(order) + 1] = s /\ \A i \in 1..Len(order) : order'[i] = order[i]
  BY <1>3
<1>5. Gone' = Gone \union {s} /\ s \notin Gone
  BY <1>2 DEF Gone
<1>6. IsFiniteSet(Gone)
  <2>1. IsFiniteSet(Slides)
    BY SlidesConstants, FS_Interval DEF Slides
  <2>2. Gone \subseteq Slides
    BY DEF Gone
  <2> QED BY <2>1, <2>2, FS_Subset
<1>7. Cardinality(Gone') = Cardinality(Gone) + 1
  BY <1>5, <1>6, FS_AddElement
<1>8. \A i \in 1..Len(order') : order'[i] \in Gone'
  <2> TAKE i \in 1..Len(order')
  <2>1. CASE i = Len(order) + 1
    BY <1>4, <1>5, <2>1
  <2>2. CASE i \in 1..Len(order)
    BY <1>4, <1>5, <2>2 DEF ChatInv
  <2> QED BY <1>4, <2>1, <2>2
<1>9. \A v \in Gone' : \E i \in 1..Len(order') : order'[i] = v
  <2> TAKE v \in Gone'
  <2>1. CASE v = s
    BY <1>4, <2>1
  <2>2. CASE v \in Gone
    <3>1. PICK i \in 1..Len(order) : order[i] = v
      BY <2>2 DEF ChatInv
    <3> QED BY <1>4, <3>1
  <2> QED BY <1>5, <2>1, <2>2
<1>10. ChatInv'
  BY <1>4, <1>7, <1>8, <1>9 DEF ChatInv
<1> QED BY <1>2, <1>4, <1>10

\* A coroutine that does not deliver leaves the chat, and does not end well.
LEMMA BuildTurn ==
  ASSUME Inv, Inv', ChatInv, TurnInv, NEW s \in Slides, Build(s), ~Deliver(s)
  PROVE  ChatInv' /\ TurnInv'
<1>1. /\ main = "gather" /\ UNCHANGED <<main, ordered, ready, sent, order>>
      /\ task[s].pc \notin {"deliver", "ok", "bad"}
  BY DEF Build, Vendor, ShapeRefused, Picture, VendorFails, Register, Inspect, Compose, FinalLook,
         SecondLook, StoreSlide, Quiet, At
<1>2. PICK u : task' = [task EXCEPT ![s] = u]
  BY DEF Build, Vendor, ShapeRefused, Picture, VendorFails, Register, Inspect, Compose, FinalLook,
         SecondLook, StoreSlide, To
<1>3. task'[s] = u /\ \A v \in Slides : v # s => task'[v] = task[v]
  BY <1>2 DEF Inv, Typed
<1>4. u.pc # "ok"
  <2>1. CASE StoreSlide(s)
    <3>1. \/ To(s, [task[s] EXCEPT !.pc = "deliver"])
          \/ To(s, Raised(s, "error", 0))
      BY <2>1 DEF StoreSlide
    <3>2. task[s] \in Task /\ task \in [Slides -> Task]
      BY DEF Inv, Typed
    <3>3. [task[s] EXCEPT !.pc = "deliver"].pc = "deliver"
      BY <3>2 DEF Task
    <3>4. Raised(s, "error", 0).pc = "bad"
      BY DEF Raised, Fresh
    <3>5. u = [task[s] EXCEPT !.pc = "deliver"] \/ u = Raised(s, "error", 0)
      BY <1>3, <3>1, <3>2 DEF To
    <3> QED BY <3>3, <3>4, <3>5
  <2>2. CASE ~StoreSlide(s)
    <3>1. row' = row
      BY <2>2 DEF Build, Vendor, ShapeRefused, Picture, VendorFails, Register, Inspect, Compose,
                  FinalLook, SecondLook, Quiet
    <3>2. row[s].status # "ready"
      BY <1>1 DEF Inv, SlideInv, RowFits
    <3> QED BY <1>3, <3>1, <3>2 DEF Inv, SlideInv, RowFits
  <2> QED BY <2>1, <2>2
<1>5. Gone' = Gone /\ Unsent' = Unsent
  BY <1>1 DEF Gone, Unsent
<1> QED BY <1>1, <1>3, <1>4, <1>5 DEF ChatInv, TurnInv

LEMMA DeliverTurn ==
  ASSUME Inv, ChatInv, TurnInv, NEW s \in Slides, Deliver(s)
  PROVE  ChatInv' /\ TurnInv'
<1>1. /\ main = "gather" /\ UNCHANGED <<main, ordered>> /\ ready' = ready \union {s}
      /\ task[s].pc = "deliver"
      /\ IF ordered THEN UNCHANGED <<sent, order>> ELSE Send(s)
  BY DEF Deliver, At
<1>2. \A v \in Slides : v # s => task'[v] = task[v]
  BY DEF Deliver, To, Inv, Typed
<1>3. sent[s] = "no" /\ s \notin ready
  BY <1>1 DEF Inv, Typed, SlideInv, ShipFits, Out
<1>4. \A v \in Slides : task'[v].pc = "ok" => v \in ready'
  BY <1>1, <1>2 DEF TurnInv
<1>5. CASE ordered
  <2>1. UNCHANGED <<sent, order>> /\ Len(order) = 0
    BY <1>1, <1>5 DEF TurnInv
  <2>2. Gone' = Gone
    BY <2>1 DEF Gone
  <2>3. ChatInv'
    BY <2>1, <2>2 DEF ChatInv
  <2>4. Len(order') = 0 /\ 1..Len(order') = {}
    BY <2>1
  <2>5. main' = "gather" /\ ordered' = ordered /\ ordered \in BOOLEAN
    BY <1>1 DEF TurnInv
  <2> QED BY <1>4, <1>5, <2>3, <2>4, <2>5 DEF TurnInv
<1>6. CASE ~ordered
  <2>1. ChatInv' /\ \A v \in Slides : sent'[v] # "no" <=> v = s \/ sent[v] # "no"
    BY <1>1, <1>3, <1>6, OneSent
  <2>2. Unsent' = {}
    BY <1>1, <1>6, <2>1 DEF TurnInv, Unsent, Inv, Typed
  <2> QED BY <1>1, <1>4, <1>6, <2>1, <2>2 DEF TurnInv
<1> QED BY <1>5, <1>6

LEMMA FlushTurn ==
  ASSUME Inv, ChatInv, TurnInv, NEW s \in Slides, Flush(s)
  PROVE  ChatInv' /\ TurnInv'
<1>1. /\ main = "flush" /\ Send(s) /\ UNCHANGED <<task, main, ordered, ready>>
      /\ s \in Unsent /\ \A u \in Unsent : s <= u
  BY DEF Flush, Following
<1>2. sent[s] = "no"
  BY <1>1 DEF Unsent
<1>3. ordered
  BY <1>1 DEF TurnInv
<1>4. /\ ChatInv'
      /\ \A v \in Slides : sent'[v] # "no" <=> v = s \/ sent[v] # "no"
      /\ Len(order') = Len(order) + 1 /\ order'[Len(order) + 1] = s
      /\ \A i \in 1..Len(order) : order'[i] = order[i]
  BY <1>1, <1>2, OneSent
<1>5. \A u \in Unsent' : u \in Unsent /\ u # s
  BY <1>1, <1>4 DEF Unsent, Inv, Typed
<1>6. /\ \A i \in 1..Len(order) : order[i] \in Int
      /\ \A u \in Unsent : u \in Int
      /\ Len(order) \in Nat
  BY DEF ChatInv, Gone, Unsent, Inv, Typed, Slides
<1>7. \A i \in 1..Len(order) : order[i] < s
  BY <1>1, <1>3 DEF TurnInv
<1>8. ASSUME NEW i \in 1..Len(order'), NEW j \in 1..Len(order'), i < j
      PROVE  order'[i] < order'[j]
  <2>1. i \in 1..Len(order)
    BY <1>4, <1>6, <1>8
  <2>2. CASE j = Len(order) + 1
    BY <1>4, <1>7, <2>1, <2>2
  <2>3. CASE j \in 1..Len(order)
    BY <1>3, <1>4, <1>8, <2>1, <2>3 DEF TurnInv
  <2> QED BY <1>4, <1>6, <2>2, <2>3
<1>9. ASSUME NEW i \in 1..Len(order'), NEW u \in Unsent'
      PROVE  order'[i] < u
  <2>1. CASE i = Len(order) + 1
    <3>1. s <= u /\ u # s
      BY <1>1, <1>5
    <3> QED BY <1>1, <1>4, <1>5, <1>6, <2>1, <3>1
  <2>2. CASE i \in 1..Len(order)
    BY <1>3, <1>4, <1>5, <2>2 DEF TurnInv
  <2> QED BY <1>4, <1>6, <2>1, <2>2
<1> QED BY <1>1, <1>3, <1>4, <1>8, <1>9 DEF TurnInv, Ended

LEMMA TurnStep == Inv /\ ChatInv /\ TurnInv /\ [Next]_vars => ChatInv' /\ TurnInv'
<1> SUFFICES ASSUME Inv, ChatInv, TurnInv, [Next]_vars PROVE ChatInv' /\ TurnInv'
  OBVIOUS
<1>1. Inv'
  BY StepOk
<1>2. CASE Gathered \/ Settle
  <2>1. UNCHANGED <<task, ordered, ready, sent, order>>
    BY <1>2 DEF Gathered, Settle
  <2>2. Gone' = Gone /\ Unsent' = Unsent
    BY <2>1 DEF Gone, Unsent
  <2>3. /\ main' \in {"flush", "done"} /\ \A s \in Slides : Ended(s)
        /\ main' = "done" => Unsent = {}
    BY <1>2 DEF Gathered, Settle, TurnInv
  <2>4. \A s \in Slides : Ended(s)'
    BY <2>1, <2>3 DEF Ended
  <2> QED BY <2>1, <2>2, <2>3, <2>4 DEF ChatInv, TurnInv
<1>3. CASE UNCHANGED vars
  BY <1>3 DEF vars, ChatInv, TurnInv, Gone, Unsent, Ended
<1> QED BY <1>1, <1>2, <1>3, BuildTurn, DeliverTurn, FlushTurn DEF Next

\* At the end every slide that came out was sent, once, and a set that is sent in order lies
\* in the chat by position, in whatever order the slides were finished and whatever failed
\* (_Delivery.send and flush).
THEOREM ChatInOrder == Spec => []SentOnceInOrder
<1>1. Inv /\ ChatInv /\ TurnInv => SentOnceInOrder
  <2> SUFFICES ASSUME Inv, ChatInv, TurnInv, main = "done"
               PROVE  /\ Len(order) = Cardinality(ready)
                      /\ {order[i] : i \in 1..Len(order)} = {s \in Slides : row[s].status = "ready"}
                      /\ ordered => \A i, j \in 1..Len(order) : i < j => order[i] < order[j]
    BY DEF SentOnceInOrder
  <2>1. \A s \in Slides : s \in ready <=> task[s].pc = "ok"
    BY DEF Inv, SlideInv, ShipFits, Out, TurnInv
  <2>2. \A s \in Slides : s \in ready <=> sent[s] # "no"
    BY <2>1 DEF Inv, SlideInv, ShipFits, Out, TurnInv, Unsent
  <2>3. Gone = ready
    BY <2>2 DEF Gone, Inv, Typed
  <2>4. \A s \in Slides : row[s].status = "ready" <=> s \in ready
    BY <2>1 DEF Inv, SlideInv, RowFits, TurnInv, Ended
  <2>5. {order[i] : i \in 1..Len(order)} = Gone
    BY DEF ChatInv
  <2> QED BY <2>3, <2>4, <2>5 DEF ChatInv, TurnInv, Gone
<1> QED BY <1>1, ChatInit, TurnStep, Reached, PTL DEF Spec
=============================================================================
