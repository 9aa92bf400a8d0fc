------------------------------- MODULE Slides -------------------------------
(***************************************************************************)
(* One call of generate after its charge: the slides of a creative made    *)
(* side by side in one process, what they spend at the vendor, and what    *)
(* the owner is sent meanwhile and after (creative/pipeline.py: generate,  *)
(* _build_one, _generate_checked, _register_or_reroll, _final_check,       *)
(* _Delivery; creative/bggate.py, finalgate.py, compositeqa.py).           *)
(*                                                                         *)
(* Abstractions.                                                           *)
(*  - What a picture looks like is a member of Looks: two pictures are     *)
(*    duplicates if they have the same one.  What the inspectors answer,   *)
(*    which layouts take the copy and what they measure are choices.       *)
(*  - A slide is of the generated lane or of a free one (the owner's       *)
(*    photograph, its studio, a kept picture), which only composes.        *)
(*  - A frame is the number of the render.  Credits are CreativeBilling's, *)
(*    the pictures in the bucket Revisions'.                               *)
(*  - The promise of minutes and the notices of a slow job are left out:   *)
(*    they read the clock, and only say something.                         *)
(***************************************************************************)
EXTENDS Integers, Sequences, FiniteSets

CONSTANTS N,                 \* slides, numbered by position
          Made,              \* those of the generated lane
          Looks,
          PRICE,             \* of one vendor call
          LOOK,              \* of one answer of an inspector
          BUDGET,            \* imagegen_gate_budget_micros
          ATTEMPTS,          \* imagegen_gate_attempts
          INSPECT_ATTEMPTS,
          PAID_RETRIES,      \* composite_paid_retries
          CONCURRENCY        \* imagegen_concurrency

Slides == 1..N

ASSUME SlidesConstants ==
  /\ N \in Nat \ {0} /\ Made \subseteq Slides
  /\ Looks # {}
  /\ PRICE \in Nat \ {0} /\ LOOK \in Nat
  /\ BUDGET \in Nat /\ BUDGET >= PRICE
  /\ ATTEMPTS \in Nat \ {0} /\ INSPECT_ATTEMPTS \in Nat \ {0}
  /\ PAID_RETRIES \in {0, 1}
  /\ CONCURRENCY \in Nat \ {0}

VARIABLES task,      \* the coroutine of each slide
          hashes,    \* the register of the job: the look of each slide's picture, if any
          row,       \* the Creative row of each slide: its status and cost_micros
          main,      \* where generate is
          ordered,   \* carousel_delivery = "ordered", of a carousel
          ready,     \* _Delivery.ready
          sent,      \* _Delivery.sent: whether WhatsApp took it
          order,     \* positions in the order they were sent
          spent,     \* what each slide has really cost at the vendors
          bought,    \* pictures a vendor has made for each slide
          passed     \* the frame of each slide that was measured and inspected, and passed

vars == <<task, hashes, row, main, ordered, ready, sent, order, spent, bought, passed>>

NoLook == "none"

PC == {"turn",      \* wants a lane of the semaphore
       "vendor",    \* the picture is being made
       "register", "inspect",
       "compose",
       "final",     \* the finished frame is before the inspector
       "second",    \* and so is a free rearrangement of it
       "store", "deliver", "ok", "bad"}

Task == [pc : PC,
         round : {0, 1},      \* 1: the picture that the final check may buy
         attempt : 1..ATTEMPTS,
         asked : Nat,         \* cost, in this call of _generate_checked
         cost : Nat,          \* cost_micros, in _build_one
         looks : Nat,         \* spent, in _final_check
         pic : Looks \union {NoLook},
         last : BOOLEAN,      \* pic was the last attempt
         frame : Nat,
         fine : BOOLEAN,      \* the frame's measurements show no fault
         why : {"", "refused", "outage", "error"},  \* what ended it
         tells : Nat]         \* cost_micros of that exception

Fresh(s) == [pc |-> IF s \in Made THEN "turn" ELSE "compose", round |-> 0, attempt |-> 1,
             asked |-> 0, cost |-> 0, looks |-> 0, pic |-> NoLook, last |-> FALSE,
             frame |-> 0, fine |-> TRUE, why |-> "", tells |-> 0]

TypeOK ==
  /\ task \in [Slides -> Task]
  /\ hashes \in [Slides -> Looks \union {NoLook}]
  /\ row \in [Slides -> [status : {"generating", "ready", "failed"}, cost : Nat]]
  /\ main \in {"gather", "flush", "done"}
  /\ ordered \in BOOLEAN
  /\ ready \subseteq Slides
  /\ sent \in [Slides -> {"no", "taken", "refused"}]
  /\ order \in Seq(Slides) /\ Len(order) <= N
  /\ spent \in [Slides -> Nat] /\ bought \in [Slides -> Nat]
  /\ passed \in [Slides -> Nat]
  /\ Cardinality({s \in Slides : task[s].pc = "vendor"}) <= CONCURRENCY

Init ==
  /\ task = [s \in Slides |-> Fresh(s)]
  /\ hashes = [s \in Slides |-> NoLook]
  /\ row = [s \in Slides |-> [status |-> "generating", cost |-> 0]]
  /\ main = "gather"
  /\ ordered \in (IF N > 1 THEN BOOLEAN ELSE {FALSE})
  /\ ready = {} /\ sent = [s \in Slides |-> "no"] /\ order = <<>>
  /\ spent = [s \in Slides |-> 0] /\ bought = [s \in Slides |-> 0] /\ passed = [s \in Slides |-> 0]

At(s, pc) == main = "gather" /\ task[s].pc = pc

To(s, t) == task' = [task EXCEPT ![s] = t]

\* A coroutine ends with an exception that carries cost_micros = tells, or none: a
\* picture or a card is refused (BackgroundRejected, CompositeRejected), the inspector
\* of a picture cannot be reached, or anything else.
Raised(s, why, tells) ==
  [Fresh(s) EXCEPT !.pc = "bad", !.round = task[s].round, !.why = why, !.tells = tells]

Quiet == UNCHANGED <<row, main, ordered, ready, sent, order>>

-----------------------------------------------------------------------------
(* _generate_checked: pictures until one passes. *)

\* Mutant: the picture that the final check buys opens a second full cap.
Left_WholeCap(t) == BUDGET

\* What is left of the slide's cap when this call begins.
Left(t) == IF t.round = 0 THEN BUDGET ELSE BUDGET - t.cost

\* The last attempt that the count or the cap allows takes a duplicate.
LastAttempt(t) == t.attempt = ATTEMPTS \/ t.asked + PRICE > Left(t)

\* Mutant: a coroutine that raises keeps its lane.
Free_Leaks ==
  CONCURRENCY - Cardinality({s \in Slides : task[s].pc = "vendor" \/ task[s].why = "error"})

Free == CONCURRENCY - Cardinality({s \in Slides : task[s].pc = "vendor"})

\* A lane of the semaphore.
Vendor(s) ==
  /\ At(s, "turn") /\ Free > 0
  /\ To(s, [task[s] EXCEPT !.pc = "vendor"])
  /\ Quiet /\ UNCHANGED <<hashes, spent, bought, passed>>

\* What follows a picture that is not acceptable.  Out of attempts or of cap, it is
\* refused; in round 1 the final check refuses the slide with its own tally.
Rejected(s, t) ==
  IF t.attempt < ATTEMPTS /\ t.asked + PRICE <= Left(t)
  THEN [t EXCEPT !.pc = "turn", !.attempt = @ + 1]
  ELSE Raised(s, "refused", t.asked + (IF t.round = 1 THEN t.cost + t.looks ELSE 0))

Picture(s) ==
  LET t == [task[s] EXCEPT !.asked = @ + PRICE]
  IN /\ At(s, "vendor")
     /\ spent' = [spent EXCEPT ![s] = @ + PRICE]
     /\ bought' = [bought EXCEPT ![s] = @ + 1]
     /\ \/ \E p \in Looks : To(s, [t EXCEPT !.pc = "register", !.pic = p])
        \/ To(s, Rejected(s, t))  \* wrong_size
     /\ Quiet /\ UNCHANGED <<hashes, passed>>

\* A vendor whose shapes do not fit the window is not asked at all.
ShapeRefused(s) ==
  /\ At(s, "turn") /\ task[s].attempt = 1
  /\ To(s, Raised(s, "refused", task[s].cost + task[s].looks))
  /\ Quiet /\ UNCHANGED <<hashes, spent, bought, passed>>

\* The exception knows nothing of the pictures bought before.
VendorFails(s) ==
  /\ At(s, "vendor")
  /\ To(s, Raised(s, "error", 0))
  /\ Quiet /\ UNCHANGED <<hashes, spent, bought, passed>>

Repeats(s, p) == \E e \in Slides : e < s /\ hashes[e] = p

\* _register_or_reroll, under its lock.  LastAttempt has counted this picture in.
Register(s) ==
  LET t == task[s]
      forced == LastAttempt(t)
  IN /\ At(s, "register")
     /\ IF Repeats(s, t.pic) /\ ~forced
        THEN To(s, Rejected(s, t)) /\ UNCHANGED hashes
        ELSE To(s, [t EXCEPT !.pc = "inspect", !.last = forced]) /\ hashes' = [hashes EXCEPT ![s] = t.pic]
     /\ Quiet /\ UNCHANGED <<spent, bought, passed>>

\* An accepted picture: _build_one takes its cost, the final check adds it to its own.
Accepted(t) ==
  [t EXCEPT !.pc = "compose",
            !.cost = IF t.round = 0 THEN t.asked ELSE @,
            !.looks = IF t.round = 1 THEN @ + t.asked ELSE @]

\* Mutant: an outage forgets the pictures that were bought.
Unreachable_Forgets(s, t, c) == Raised(s, "outage", c)

\* bggate.InspectionUnavailable out of _generate_checked: from the picture that the
\* final check buys it takes home what both pictures cost and not the looks.
Unreachable(s, t, c) == Raised(s, "outage", t.asked + c + (IF t.round = 1 THEN t.cost ELSE 0))

\* bggate.inspect: up to INSPECT_ATTEMPTS answers, each paid, for one that can be read.
Inspect(s) ==
  /\ At(s, "inspect")
  /\ \E answers \in 0..INSPECT_ATTEMPTS :
       LET c == answers * LOOK
           t == [task[s] EXCEPT !.asked = @ + c]
       IN /\ spent' = [spent EXCEPT ![s] = @ + c]
          /\ \/ answers > 0 /\ To(s, Accepted(t))
             \/ answers > 0 /\ To(s, Rejected(s, t))
             \/ To(s, Unreachable(s, task[s], c))
  /\ Quiet /\ UNCHANGED <<hashes, bought, passed>>

-----------------------------------------------------------------------------
(* Composing, and the last look at the frame. *)

\* compose_with_report, export_jpeg, and best_free_variant over the measurements:
\* the best frame that costs nothing, fine or not.  Composing may refuse.
Compose(s) ==
  /\ At(s, "compose")
  /\ \/ \E fine \in BOOLEAN : To(s, [task[s] EXCEPT !.pc = "final", !.frame = @ + 1, !.fine = fine])
     \/ To(s, Raised(s, "error", 0))
  /\ Quiet /\ UNCHANGED <<hashes, spent, bought, passed>>

\* Whether one more picture can be paid from what the first ones left of the cap.
MayBuy(t) == t.round = 0 /\ PAID_RETRIES = 1 /\ BUDGET - t.cost >= PRICE

\* Nothing free is good enough: buy, or refuse the slide with all it has cost.
NotGood(s, t) ==
  IF s \in Made /\ MayBuy(t)
  THEN [t EXCEPT !.pc = "turn", !.round = 1, !.attempt = 1, !.asked = 0]
  ELSE Raised(s, "refused", t.cost + t.looks)

\* finalgate.inspect.  It passes the frame, blames the picture, or sees something that
\* a free rearrangement may cure, if one composes; or it cannot be reached.
FinalLook(s) ==
  /\ At(s, "final")
  /\ \E answers \in 0..INSPECT_ATTEMPTS :
       LET t == [task[s] EXCEPT !.looks = @ + answers * LOOK]
       IN /\ spent' = [spent EXCEPT ![s] = @ + answers * LOOK]
          /\ \/ /\ answers > 0 /\ t.fine
                /\ To(s, [t EXCEPT !.pc = "store"])
                /\ passed' = [passed EXCEPT ![s] = t.frame]
             \/ /\ answers > 0
                /\ To(s, NotGood(s, t)) /\ UNCHANGED passed
             \/ /\ answers > 0
                /\ \E fine \in BOOLEAN : To(s, [t EXCEPT !.pc = "second", !.frame = @ + 1, !.fine = fine])
                /\ UNCHANGED passed
             \/ To(s, Raised(s, "refused", t.cost + t.looks)) /\ UNCHANGED passed
  /\ Quiet /\ UNCHANGED <<hashes, bought>>

\* Mutant: a rearrangement that the inspector likes better is taken as it is.
Better_IsGood(t, ok) == ok

\* The rearrangement is taken if it passes both; if it has only fewer faults it is the
\* best so far, and still not good.
Better(t, ok) == ok /\ t.fine

SecondLook(s) ==
  /\ At(s, "second")
  /\ \E answers \in 0..INSPECT_ATTEMPTS, ok \in BOOLEAN :
       LET t == [task[s] EXCEPT !.looks = @ + answers * LOOK]
       IN /\ spent' = [spent EXCEPT ![s] = @ + answers * LOOK]
          /\ \/ /\ answers > 0
                /\ To(s, IF Better(t, ok) THEN [t EXCEPT !.pc = "store"] ELSE NotGood(s, t))
                /\ passed' = IF ok /\ t.fine THEN [passed EXCEPT ![s] = t.frame] ELSE passed
             \/ To(s, Raised(s, "refused", t.cost + t.looks)) /\ UNCHANGED passed
  /\ Quiet /\ UNCHANGED <<hashes, bought>>

\* The upload and the row; either may fail, and the exception knows of no cost.
StoreSlide(s) ==
  /\ At(s, "store")
  /\ \/ /\ row' = [row EXCEPT ![s] = [status |-> "ready", cost |-> task[s].cost + task[s].looks]]
        /\ To(s, [task[s] EXCEPT !.pc = "deliver"])
     \/ UNCHANGED row /\ To(s, Raised(s, "error", 0))
  /\ UNCHANGED <<main, ordered, ready, sent, order, hashes, spent, bought, passed>>

-----------------------------------------------------------------------------
(* _Delivery, and the end of generate. *)

\* ctx.show: it says whether WhatsApp took the picture, and a raise counts as no.
Send(s) ==
  /\ \E outcome \in {"taken", "refused"} : sent' = [sent EXCEPT ![s] = outcome]
  /\ order' = Append(order, s)

\* _Delivery.send: at once, or held for the flush.
Deliver(s) ==
  /\ At(s, "deliver")
  /\ ready' = ready \union {s}
  /\ IF ordered THEN UNCHANGED <<sent, order>> ELSE Send(s)
  /\ To(s, [task[s] EXCEPT !.pc = "ok", !.round = 0, !.attempt = 1, !.asked = 0, !.cost = 0, !.looks = 0])
  /\ UNCHANGED <<hashes, row, main, ordered, spent, bought, passed>>

Ended(s) == task[s].pc \in {"ok", "bad"}

\* gather has returned.
Gathered ==
  /\ main = "gather" /\ \A s \in Slides : Ended(s)
  /\ main' = "flush"
  /\ UNCHANGED <<task, hashes, row, ordered, ready, sent, order, spent, bought, passed>>

Unsent == {s \in ready : sent[s] = "no"}

\* Mutant: what was held goes out in any order.
Following_Any(s) == s \in Unsent

\* flush goes by position.
Following(s) == s \in Unsent /\ \A u \in Unsent : s <= u

Flush(s) ==
  /\ main = "flush"
  /\ Following(s)
  /\ Send(s)
  /\ UNCHANGED <<task, hashes, row, main, ordered, ready, spent, bought, passed>>

\* The failures are marked, each with the cost its exception tells, and the tool
\* returns or says that nothing is coming.
Settle ==
  /\ main = "flush" /\ Unsent = {}
  /\ row' = [s \in Slides |-> IF task[s].pc = "bad" THEN [status |-> "failed", cost |-> task[s].tells] ELSE row[s]]
  /\ main' = "done"
  /\ UNCHANGED <<task, hashes, ordered, ready, sent, order, spent, bought, passed>>

-----------------------------------------------------------------------------
Build(s) ==
  \/ Vendor(s) \/ ShapeRefused(s) \/ Picture(s) \/ VendorFails(s) \/ Register(s) \/ Inspect(s)
  \/ Compose(s) \/ FinalLook(s) \/ SecondLook(s) \/ StoreSlide(s) \/ Deliver(s)

Next ==
  \/ \E s \in Slides : Build(s) \/ Flush(s)
  \/ Gathered \/ Settle

\* The event loop goes on with every coroutine, and the semaphore is fair to its waiters.
Fairness ==
  /\ \A s \in Slides : WF_vars(Build(s) /\ task[s].pc # "turn") /\ SF_vars(Vendor(s)) /\ WF_vars(Flush(s))
  /\ WF_vars(Gathered) /\ WF_vars(Settle)

Spec == Init /\ [][Next]_vars

FairSpec == Spec /\ Fairness

-----------------------------------------------------------------------------
(* Properties *)

\* "never more than this much vendor spend on one slide" (config.py:139): the pictures
\* of a slide, those that the final check buys included, stay within its cap, although
\* the two calls of _generate_checked each count for themselves.
PicturesWithinCap == \A s \in Slides : bought[s] * PRICE <= BUDGET

\* cost_micros of a slide that is ready, or that a check refused, is what it has really
\* cost, over all pictures, looks and retries; and no row ever tells more.
RowTellsTheCost ==
  \A s \in Slides :
    /\ row[s].cost <= spent[s]
    /\ row[s].status = "ready" => row[s].cost = spent[s]
    /\ /\ row[s].status = "failed"
       /\ task[s].why = "refused" \/ (task[s].why = "outage" /\ task[s].round = 0)
       => row[s].cost = spent[s]

\* The same of every exception that carries cost_micros: "An outage is a refusal, and a
\* refusal still shows what it cost: the attempts the model answered before it gave up,
\* plus every look this slide had already paid for" (pipeline.py:2402-2404).
OutagesTellTheCost ==
  \A s \in Slides : row[s].status = "failed" /\ task[s].why = "outage" => row[s].cost = spent[s]

\* What the owner is sent is the very frame that was measured without a fault and that
\* the inspector passed, whatever was rearranged and bought on the way.
OnlyPassedFramesShip ==
  \A s \in Slides : sent[s] # "no" \/ row[s].status = "ready" => passed[s] = task[s].frame /\ passed[s] # 0

\* At the end each slide that came out was sent exactly once, and nothing else; a set
\* sent in order lies in the chat as 1..N.
SentOnceInOrder ==
  main = "done" =>
    /\ Len(order) = Cardinality(ready)
    /\ {order[i] : i \in 1..Len(order)} = {s \in Slides : row[s].status = "ready"}
    /\ ordered => \A i, j \in 1..Len(order) : i < j => order[i] < order[j]

\* No coroutine waits for a lane for ever: the tool comes to its end, and the owner
\* hears of it.
EventuallyAnswered == <>(main = "done")

\* "The EARLIER slide position always keeps its picture; the later one is the one asked
\* to try again" (pipeline.py:2515): no slide that still had an attempt ships the look
\* of an earlier one.
NoSlideRepeatsAnother ==
  \A e, s \in Slides :
    e < s /\ {e, s} \subseteq ready \intersect Made /\ task[e].pic = task[s].pic => task[s].last
=============================================================================
