------------------------------- MODULE FinalCheck -------------------------------
(***************************************************************************)
(* The final look at a finished slide (pipeline.py _final_check), in full  *)
(* where Slides has one step of it: the measurements and what they make of *)
(* a frame (compositeqa.py assess, score_of), the ladder of free layouts   *)
(* (order_for, best_free_variant), the inspector's two looks               *)
(* (finalgate.py), and the picture that may be bought when none of it      *)
(* helps.  What a frame measures and what the inspector sees are choices;  *)
(* shares are in percent, contrasts in hundredths.                         *)
(***************************************************************************)
EXTENDS Integers, Sequences, FiniteSets, SequencesExt, FiniteSetsExt

CONSTANTS FREE_VARIANTS,      \* composite_free_variants
          PAID_PICTURES,      \* composite_paid_retries
          STARTED,            \* bound: layouts a slide may come in with
          MEASURES,           \* bound: what a frame may measure
          OBJECTIONS          \* bound: reasons the inspector may give at once

ASSUME FinalCheckConstants == FREE_VARIANTS \in Nat /\ PAID_PICTURES \in Nat

VARIABLES
  buys,        \* the lane is the generated one: `buy` is given
  started,     \* the layout the slide came in with
  layout,      \* the slide's template now
  rendering,   \* a variant is being made
  picture,     \* pictures bought so far: the number of source["image"]
  look,        \* where the check is
  first,       \* the frame a ladder came in with
  best,        \* the best so far; NoVariant at the start of a ladder that must change
  todo, counted,    \* the ladder: layouts to try, variants its limit has counted
  reasons,     \* the inspector's verdict on `settled`
  settled,     \* `best` of _final_check, while the second ladder has its own
  composed,    \* history: variants this ladder has really made
  passed       \* history: frames the inspector had nothing to say of

slideVars == <<buys, started, layout, rendering, picture>>
ladderVars == <<first, best, todo, counted, composed>>
verdictVars == <<reasons, settled, passed>>
checkVars == <<look, slideVars, ladderVars, verdictVars>>

-----------------------------------------------------------------------------
(* The measurements. *)

WORDS_OFF_PICTURE == <<"split_card", "top_band", "frame_card">>
WORDS_ON_PICTURE == <<"centered_overlay", "lower_third", "poster_stack">>

SUBJECT_CUT_MAX == 8
TEXT_OVER_SUBJECT_MAX == 15
PHOTO_VISIBLE_MIN == 33
TEXT_CONTRAST == 450
MEASURE_SLACK == 3
SWEEP_REPAIRS == {"headline_at_floor", "type_shrunk"}

\* cut, over: of the subject, by the window and by the words; shown: of the picture;
\* type: its size against its design; floor: the types at their floors; contrast: of the
\* hardest words; capped: a scrim at its cap, under words on the picture; exact: the size.
FaultsOf(m) ==
  {f \in {"subject_cut_by_window", "text_over_subject", "contrast_below_bar",
          "photo_mostly_cropped", "export_size_wrong"} :
     \/ f = "subject_cut_by_window" /\ m.cut > SUBJECT_CUT_MAX
     \/ f = "text_over_subject" /\ m.over > TEXT_OVER_SUBJECT_MAX
     \/ f = "contrast_below_bar" /\ m.contrast < TEXT_CONTRAST - MEASURE_SLACK
     \/ f = "photo_mostly_cropped" /\ m.shown < PHOTO_VISIBLE_MIN
     \/ f = "export_size_wrong" /\ ~m.exact}

RepairsOf(m, template) ==
  (IF "headline" \in m.floor THEN {"headline_at_floor"}
   ELSE IF m.floor # {} THEN {"type_shrunk"} ELSE {})
  \union (IF m.capped /\ template \in Range(WORDS_ON_PICTURE) THEN {"scrim_saturated"} ELSE {})

Clean(m) == FaultsOf(m) = {}
WorthAVariant(m, template) == ~Clean(m) \/ RepairsOf(m, template) \intersect SWEEP_REPAIRS # {}

\* Out of 100; what is lost is counted in hundredths.
Lost(m) ==
  (4500 * Min({m.cut, SUBJECT_CUT_MAX})) \div SUBJECT_CUT_MAX
  + (3000 * Min({m.over, TEXT_OVER_SUBJECT_MAX})) \div TEXT_OVER_SUBJECT_MAX
  + 22 * (100 - m.shown) + 45 * Min({100 - m.type, 40})
  + (IF m.capped THEN 800 ELSE 0)
  + (4000 * Max({0, TEXT_CONTRAST - m.contrast})) \div TEXT_CONTRAST

Score(m) == Max({0, (10000 - Lost(m) + 50) \div 100})

-----------------------------------------------------------------------------
(* The ladder. *)

\* The fault names the cure.
OrderFor(template, codes) ==
  LET off == WORDS_OFF_PICTURE \o WORDS_ON_PICTURE
      on == WORDS_ON_PICTURE \o WORDS_OFF_PICTURE
      order == IF codes \intersect {"text_over_subject", "scrim_saturated"} # {} THEN off
               ELSE IF codes \intersect {"subject_cut_by_window", "photo_mostly_cropped"} # {}
               THEN on
               ELSE IF template \in Range(WORDS_ON_PICTURE) THEN off ELSE on
  IN SelectSeq(order, LAMBDA name : name # template)

NoVariant == [layout |-> "none", picture |-> 0]

\* A frame without a fault before one with, and the better score among equals.
Beats(a, b) ==
  \/ b = NoVariant
  \/ Clean(a.measured) /\ ~Clean(b.measured)
  \/ Clean(a.measured) = Clean(b.measured) /\ Score(a.measured) > Score(b.measured)

\* The limit counts variants that composed; it used to count layouts attempted.
Counted_Attempts(n, fits) == n + 1

Counted(n, fits) == IF fits THEN n + 1 ELSE n

\* finalgate.AS_CODE
AsCodes(seen) ==
  (IF "text_cut_off" \in seen THEN {"headline_at_floor"} ELSE {})
  \union (IF "text_hard_to_read" \in seen THEN {"scrim_saturated"} ELSE {})
  \union (IF "text_covers_subject" \in seen THEN {"text_over_subject"} ELSE {})
  \union (IF "subject_cut_off" \in seen THEN {"subject_cut_by_window"} ELSE {})

PICTURE_REASONS == {"stray_text_in_photo", "artefacts"}

-----------------------------------------------------------------------------
(* The check. *)

CheckInit ==
  /\ buys \in BOOLEAN /\ started \in STARTED /\ layout = started
  /\ picture = 0 /\ look = "measure"
  /\ first = NoVariant /\ best = NoVariant /\ todo = <<>> /\ counted = 0
  /\ rendering = FALSE /\ reasons = {} /\ settled = NoVariant /\ composed = 0 /\ passed = {}

Frame(of, measured) == [layout |-> of, picture |-> picture, measured |-> measured]

\* A ladder begins: what it came in with, the layouts its codes point at.
Climb(from, codes, mustChange, next) ==
  /\ look' = next /\ first' = from
  /\ best' = IF mustChange THEN NoVariant ELSE from
  /\ todo' = OrderFor(from.layout, codes) /\ counted' = 0 /\ composed' = 0

\* The slide as it was composed, and measured.
Measure ==
  /\ look = "measure"
  /\ \E m \in MEASURES :
       LET frame == Frame(layout, m)
       IN IF WorthAVariant(m, layout)
          THEN Climb(frame, FaultsOf(m) \union RepairsOf(m, layout), FALSE, "sweep")
          ELSE look' = "inspect" /\ best' = frame /\ UNCHANGED <<first, todo, counted, composed>>
  /\ UNCHANGED <<slideVars, verdictVars>>

Ladders == {"sweep", "move"}
Enough == counted >= FREE_VARIANTS \/ todo = <<>>
\* "Stops at the first clean variant."
Found == best # NoVariant /\ best # first /\ Clean(best.measured)

\* render: the layout is set for the time of the render.
Try ==
  /\ look \in Ladders /\ ~rendering /\ ~Enough /\ ~Found
  /\ rendering' = TRUE /\ layout' = Head(todo)
  /\ UNCHANGED <<buys, started, picture, look, ladderVars, verdictVars>>

\* The `finally` of render; without it the slide stays in the layout that failed.
PutBack_IfMade == layout' = IF composed' > composed THEN started ELSE layout

PutBack == layout' = started

\* The frame was made, or the layout cannot take the slide.
VariantMade ==
  /\ rendering /\ rendering' = FALSE
  /\ todo' = Tail(todo)
  /\ \/ /\ \E m \in MEASURES :
             LET frame == Frame(layout, m) IN best' = IF Beats(frame, best) THEN frame ELSE best
        /\ counted' = Counted(counted, TRUE) /\ composed' = composed + 1
     \/ counted' = Counted(counted, FALSE) /\ UNCHANGED <<best, composed>>
  /\ PutBack
  /\ UNCHANGED <<buys, started, picture, look, first, verdictVars>>

\* Whatever else a render raises ends the check.
RenderFails ==
  /\ rendering /\ rendering' = FALSE
  /\ look' = "raised" /\ layout' = started
  /\ UNCHANGED <<buys, started, picture, ladderVars, verdictVars>>

\* The sweep's best goes before the inspector; so does that of the second ladder, if it
\* made one.
LadderEnds ==
  /\ look \in Ladders /\ ~rendering /\ (Enough \/ Found)
  /\ look' = IF look = "sweep" THEN "inspect" ELSE IF best = NoVariant THEN "settle" ELSE "again"
  /\ UNCHANGED <<slideVars, ladderVars, verdictVars>>

Seen(frame, verdict) == passed' = IF verdict = {} THEN passed \union {frame} ELSE passed

\* The first look.  Reasons that another layout could cure send the slide up the ladder
\* again, once.  (A run on the mock provider has no inspector: as if it saw nothing.)
Inspect1 ==
  /\ look = "inspect"
  /\ \E verdict \in OBJECTIONS :
       /\ Seen(best, verdict) /\ reasons' = verdict /\ settled' = best
       /\ IF verdict \ PICTURE_REASONS # {} THEN Climb(best, AsCodes(verdict), TRUE, "move")
          ELSE look' = "settle" /\ UNCHANGED ladderVars
  /\ UNCHANGED slideVars

\* What the second look makes of the two frames: the frame changes with its verdict.
Takes_VerdictOnly(frame, verdict) == settled' = settled /\ reasons' = verdict

Takes(frame, verdict) == settled' = frame /\ reasons' = verdict

Inspect2 ==
  /\ look = "again"
  /\ \E verdict \in OBJECTIONS :
       /\ Seen(best, verdict)
       /\ IF \/ verdict = {} /\ Clean(best.measured)
             \/ Cardinality(verdict) < Cardinality(reasons)
          THEN Takes(best, verdict) ELSE UNCHANGED <<settled, reasons>>
  /\ look' = "settle"
  /\ UNCHANGED <<slideVars, ladderVars>>

\* An outage of the inspector is a refusal.
InspectionUnavailable ==
  /\ look \in {"inspect", "again"} /\ look' = "raised"
  /\ UNCHANGED <<slideVars, ladderVars, verdictVars>>

\* Both have passed it, or only another picture helps, which only the generated lane buys.
Settle ==
  /\ look = "settle"
  /\ IF Clean(settled.measured) /\ reasons = {} THEN look' = "done" /\ layout' = settled.layout
     ELSE /\ look' = IF buys /\ picture < PAID_PICTURES THEN "buy" ELSE "refused"
          /\ layout' = started
  /\ UNCHANGED <<buys, started, rendering, picture, ladderVars, verdictVars>>

\* A picture, composed in the layout the slide came in with; or none that passed its own
\* gate; or an outage, or a failure to compose it.
BuyAnother ==
  /\ look = "buy"
  /\ \/ look' = "measure" /\ picture' = picture + 1 /\ passed' = {}
     \/ look' \in {"refused", "raised"} /\ UNCHANGED <<picture, passed>>
  /\ first' = NoVariant /\ best' = NoVariant
  /\ UNCHANGED <<buys, started, layout, rendering, todo, counted, composed, reasons, settled>>

CheckNext ==
  \/ Measure \/ Try \/ VariantMade \/ RenderFails \/ LadderEnds
  \/ Inspect1 \/ Inspect2 \/ InspectionUnavailable \/ Settle \/ BuyAnother

CheckSpec == CheckInit /\ [][CheckNext]_checkVars

-----------------------------------------------------------------------------
\* What is handed on was looked at and passed by both, as the very frame it is, of the
\* picture that is stored with it and under the layout that the row will name; a check that
\* ends any other way leaves the slide in the layout it came in with.
PassedAsItIs ==
  /\ look = "done" =>
       /\ Clean(settled.measured) /\ settled \in passed
       /\ settled.picture = picture /\ settled.layout = layout
  /\ look \in {"refused", "raised"} => layout = started

\* "Only when no arrangement of the picture they already have is good enough may `buy` be
\* called" (_final_check): no frame that both would have passed was there, and the last
\* ladder had found a clean one, or made as many as it may, or had no layout left.
MoneyLast ==
  look = "buy" =>
    /\ \A frame \in passed : ~Clean(frame.measured)
    /\ first # NoVariant => Found \/ composed = FREE_VARIANTS \/ todo = <<>>

FinalCheckAsPromised == PassedAsItIs /\ MoneyLast
=============================================================================
