------------------------------- MODULE Planner -------------------------------
(***************************************************************************)
(* app/insights/plan.py and the tools that call it: a month of posts for   *)
(* one brand.  A plan is one JSON column, read whole and written whole; a  *)
(* turn reads it in one step and commits in a later one, and another       *)
(* instance's turn may come between.  Days are numbered through the        *)
(* months; a plan maps the days that have a slot to their slots.           *)
(***************************************************************************)
EXTENDS Pillars

CONSTANTS Workers,
          FIRST,       \* the first day of each month, and the day after the last
          FESTIVALS,   \* the days of the calendar's festivals, in its order
          REQUESTS,    \* what owners ask for: goal, posts a week, whether a launch is named
          PLAN_DAYS, MAX_TURNS  \* bounds: days that pass, turns that plan or make

ASSUME PlannerConstants ==
  /\ PLAN_DAYS \in Nat /\ MAX_TURNS \in Nat
  /\ REQUESTS \subseteq GOALS \X (1 .. 7) \X BOOLEAN
  /\ FIRST \in Seq(Nat \ {0}) /\ Len(FIRST) > 1
  /\ \A m, n \in DOMAIN FIRST : m < n => FIRST[m] < FIRST[n]
  /\ \A d \in FIRST[1] .. FIRST[1] + PLAN_DAYS :       \* a month for each day that comes
       \E m \in 1 .. Len(FIRST) - 1 : FIRST[m] <= d /\ d < FIRST[m + 1]
  /\ \A i \in DOMAIN FESTIVALS : FESTIVALS[i] \in Nat

VARIABLES today, plan, offer, turn,
          begun,       \* turns so far
          closed,      \* the days whose slot was committed as made
          overwritten  \* those that a commit replaced without having read them

plannerVars == <<today, plan, offer, turn, begun, closed, overwritten>>

Months == 1 .. Len(FIRST) - 1
DaysOf(m) == FIRST[m] .. FIRST[m + 1] - 1
MonthOf(d) == CHOOSE m \in Months : d \in DaysOf(m)
Weekday(d) == d % 7

DAYS_BY_CADENCE ==
  <<{5}, {2, 5}, {1, 4, 6}, {1, 3, 5, 6}, {0, 1, 3, 5, 6}, {0, 1, 2, 3, 5, 6}, 0 .. 6>>

FESTIVAL_ARC == <<5, 2, 1>>
ARC_PILLAR == <<"education", "offer", "offer">>

NoPlan == [d \in {} |-> 0]
NoOffer == 0
Resting == [at |-> "idle", month |-> 0, base |-> NoPlan, slots |-> NoPlan, day |-> NoOffer]

PlannerInit ==
  /\ today = FIRST[1]
  /\ plan = [m \in Months |-> NoPlan]
  /\ offer = NoOffer
  /\ turn = [w \in Workers |-> Resting]
  /\ begun = 0 /\ closed = {} /\ overwritten = {}

-----------------------------------------------------------------------------
Slot(pillar, campaign) == [pillar |-> pillar, campaign |-> campaign, status |-> "planned"]

\* The place of a day among others, in order.
Rank(days, d) == Cardinality({e \in days : e <= d})

PostingDays(m, cadence) == {d \in DaysOf(m) : Weekday(d) \in DAYS_BY_CADENCE[cadence]}

FestivalsIn_OwnMonth(m) == {i \in DOMAIN FESTIVALS : FESTIVALS[i] \in DaysOf(m)}

\* Of this month, or so early in the next that the arc begins in this one.
FestivalsIn(m) ==
  {i \in DOMAIN FESTIVALS : FESTIVALS[i] \in FIRST[m] .. FIRST[m + 1] - 1 + FESTIVAL_ARC[1]}

\* The days of the arcs; where two arcs meet the festival first in the calendar has it.
ArcOn(m, d) ==
  {a \in FestivalsIn(m) \X DOMAIN FESTIVAL_ARC : FESTIVALS[a[1]] - FESTIVAL_ARC[a[2]] = d}

ArcSlots(m, days) ==
  [d \in {x \in days : ArcOn(m, x) # {}} |->
     LET arc == CHOOSE a \in ArcOn(m, d) : \A b \in ArcOn(m, d) : a[1] <= b[1]
     IN Slot(ARC_PILLAR[arc[2]], "festival")]

\* Teaser, launch and first reactions on the first three posting days.
LAUNCH_ARC == <<"product", "product", "proof">>
LaunchSlots(posting, taken) ==
  [d \in {x \in posting \ taken : Rank(posting, x) <= Len(LAUNCH_ARC)} |->
     Slot(LAUNCH_ARC[Rank(posting, d)], "launch")]

FreeSlots(goal, free) ==
  LET pillars == WeightedPillars(MIX_BY_GOAL[goal], Cardinality(free))
  IN [d \in free |-> Slot(pillars[Rank(free, d)], "none")]

Kept_None(slots) == NoPlan

Kept(slots) == Restrict(slots, {d \in DOMAIN slots : slots[d].status = "made"})

\* The slots of one set of days, and of another where the first has none.
Prefer(slots, others) ==
  [d \in DOMAIN slots \union DOMAIN others |->
     IF d \in DOMAIN slots THEN slots[d] ELSE others[d]]

Payload(m, goal, cadence, launch, kept) ==
  LET posting == PostingDays(m, cadence)
      arcs == ArcSlots(m, DaysOf(m) \ DOMAIN kept)
      taken == DOMAIN kept \union DOMAIN arcs
      launched == IF launch THEN LaunchSlots(posting, taken) ELSE NoPlan
      free == posting \ (taken \union DOMAIN launched)
  IN Prefer(kept, Prefer(arcs, Prefer(launched, FreeSlots(goal, free))))

-----------------------------------------------------------------------------
\* A write of the whole column by somebody who read `base`: equal contents are not sent.
Write(w, m) ==
  LET base == turn[w].base
      slots == turn[w].slots
      lost == {d \in DOMAIN plan[m] : plan[m][d].status = "made"
                 /\ ~(d \in DOMAIN base /\ base[d].status = "made")}
  IN IF slots = base THEN UNCHANGED <<plan, overwritten>>
     ELSE /\ plan' = [plan EXCEPT ![m] = slots]
          /\ overwritten' = overwritten \union (lost \ {turn[w].day})

NewTurn == begun < MAX_TURNS /\ begun' = begun + 1

\* plan_month with a goal, for this month or the next.
BuildRead(w) ==
  /\ turn[w].at = "idle"
  /\ NewTurn
  /\ \E m \in Months \intersect {MonthOf(today), MonthOf(today) + 1}, asked \in REQUESTS :
       turn' = [turn EXCEPT ![w] =
         [at |-> "build", month |-> m, base |-> plan[m], day |-> NoOffer,
          slots |-> Payload(m, asked[1], asked[2], asked[3], Kept(plan[m]))]]
  /\ UNCHANGED <<today, plan, offer, closed, overwritten>>

\* Two first plans of a month: the second insert is refused and the tool fails.
BuildCommit(w) ==
  LET m == turn[w].month IN
  /\ turn[w].at = "build"
  /\ IF turn[w].base = NoPlan /\ plan[m] # NoPlan THEN UNCHANGED <<plan, overwritten>>
     ELSE Write(w, m)
  /\ turn' = [turn EXCEPT ![w] = Resting]
  /\ UNCHANGED <<begun, today, offer, closed>>

\* Today's planned slot, or the latest that was missed this week and month.
SlotFor(slots, day) ==
  LET planned == {d \in DOMAIN slots : slots[d].status = "planned"}
      missed == {d \in planned : day - Weekday(day) <= d /\ d < day}
  IN IF day \in planned THEN day ELSE IF missed # {} THEN Max(missed) ELSE NoOffer

\* suggest_post or the daily suggestion: the slot is idea #1 and is kept in the session.
SuggestSlot ==
  /\ offer' = SlotFor(plan[MonthOf(today)], today)
  /\ UNCHANGED <<begun, today, plan, turn, closed, overwritten>>

\* create_creative for the idea: the offer is read before the pictures are made.
MakeOffered(w) ==
  /\ turn[w].at = "idle" /\ offer # NoOffer
  /\ NewTurn
  /\ turn' = [turn EXCEPT ![w] = [Resting EXCEPT !.at = "make", !.day = offer]]
  /\ UNCHANGED <<today, plan, offer, closed, overwritten>>

\* generate failed, or the turn was lost.
NotMade(w) ==
  /\ turn[w].at \in {"make", "build", "mark"}
  /\ turn' = [turn EXCEPT ![w] = Resting]
  /\ UNCHANGED <<begun, today, plan, offer, closed, overwritten>>

\* generate is done: the ideas are cleared, then `mark` reads the plan of the slot's month.
MarkRead(w) ==
  LET d == turn[w].day
      slots == plan[MonthOf(d)]
  IN /\ turn[w].at = "make"
     /\ offer' = NoOffer
     /\ turn' = [turn EXCEPT ![w] =
          IF d \in DOMAIN slots /\ slots[d].status = "planned"
          THEN [at |-> "mark", month |-> MonthOf(d), base |-> slots, day |-> d,
                slots |-> [slots EXCEPT ![d].status = "made"]]
          ELSE Resting]
     /\ UNCHANGED <<begun, today, plan, closed, overwritten>>

MarkCommit(w) ==
  /\ turn[w].at = "mark"
  /\ Write(w, turn[w].month)
  /\ closed' = closed \union {turn[w].day}
  /\ turn' = [turn EXCEPT ![w] = Resting]
  /\ UNCHANGED <<begun, today, offer>>

MidnightPasses ==
  /\ today < FIRST[1] + PLAN_DAYS
  /\ today' = today + 1
  /\ UNCHANGED <<begun, plan, offer, turn, closed, overwritten>>

PlannerTurn(w) ==
  BuildRead(w) \/ BuildCommit(w) \/ MakeOffered(w) \/ NotMade(w) \/ MarkRead(w) \/ MarkCommit(w)

PlannerNext == SuggestSlot \/ MidnightPasses \/ \E w \in Workers : PlannerTurn(w)

PlannerSpec == PlannerInit /\ [][PlannerNext]_plannerVars

-----------------------------------------------------------------------------
\* "Slots already made are kept" (build): a slot that was committed as made is made in
\* every later plan, unless a turn that had read the plan before wrote it afterwards.
MadeStays ==
  \A d \in closed \ overwritten :
    d \in DOMAIN plan[MonthOf(d)] /\ plan[MonthOf(d)][d].status = "made"

\* Every day of a festival's arc has a post of a festival in the plan of the month it
\* falls in, whichever month the festival is in, unless the day's post was made before.
ArcsCovered ==
  \A i \in DOMAIN FESTIVALS, k \in DOMAIN FESTIVAL_ARC, m \in Months :
    LET d == FESTIVALS[i] - FESTIVAL_ARC[k] IN
    d \in DaysOf(m) /\ plan[m] # NoPlan =>
      d \in DOMAIN plan[m] /\ (plan[m][d].status = "planned" => plan[m][d].campaign = "festival")
=============================================================================
