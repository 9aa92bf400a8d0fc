------------------------------ MODULE PhotoSlides ------------------------------
(***************************************************************************)
(* The owner's photographs in a creative, decided before anything is       *)
(* charged (pipeline.py generate): which slide shows which photo, read     *)
(* once; the layout each of them is set in; and the two gates that move a  *)
(* slide to a layout whose window suits its photo, or refuse.  What a      *)
(* layout measures is a choice made when it is measured.                   *)
(***************************************************************************)
EXTENDS Integers, Sequences, FiniteSets

CONSTANTS Photos, NoPhoto,
          SLIDES,       \* of a carousel
          STARTS        \* bound: layouts a brief may ask for, NoTemplate for none

ASSUME PhotoConstants == SLIDES \in Nat \ {0} /\ NoPhoto \notin Photos

VARIABLES
  form,       \* "single" or "carousel"
  briefLayout,      \* the brief's template_id
  own,        \* slide -> its own template_id
  photo,      \* slide -> the photo resolved for it, or NoPhoto
  auto,       \* the slides whose photo was matched, not asked for
  readAs,       \* slide -> "cut" (a product whose cut passed), "whole", "unread" or "none"
  report,     \* slide -> the layout its report was measured of, and whether it is roomy:
              \* large enough for the photo, or for the product to be more than a thumbnail
  switch,     \* slide -> the layout the switches say it was moved to
  stage, done,   \* where the job is, and the slides that stage is over with
  small,      \* a slide has no layout that suits its photo
  built,      \* slide -> what it was built of
  uncut       \* recorded: the slides of a product whose studio could not be made

photoVars == <<form, briefLayout, own, photo, auto, readAs, report, switch, stage, done, small,
               built, uncut>>

NoTemplate == "none"
\* TYPE_ZONES: those that set words on the picture.
TYPE_ZONES == {"centered_overlay", "lower_third", "poster_stack"}
PANEL_TEMPLATES == <<"split_card", "top_band", "frame_card">>
PREFERRED_TEMPLATE == "lower_third"

Units == IF form = "single" THEN {1} ELSE 1 .. SLIDES
NoReport == [of |-> NoTemplate, roomy |-> FALSE]

\* A single post's slide carries the brief's layout; a carousel's may have its own.
PhotoInit ==
  /\ form \in {"single", "carousel"}
  /\ briefLayout \in STARTS \ {NoTemplate}
  /\ own \in [1 .. SLIDES -> STARTS]
  /\ form = "single" => own[1] = briefLayout /\ \A s \in 2 .. SLIDES : own[s] = NoTemplate
  /\ photo = [s \in 1 .. SLIDES |-> NoPhoto] /\ auto = {}
  /\ readAs = [s \in 1 .. SLIDES |-> "none"]
  /\ report = [s \in 1 .. SLIDES |-> NoReport]
  /\ switch = [s \in 1 .. SLIDES |-> NoTemplate]
  /\ stage = "resolve" /\ done = {} /\ small = FALSE
  /\ built = [s \in 1 .. SLIDES |-> "none"] /\ uncut = {}

TemplateFor(s) == IF own[s] # NoTemplate THEN own[s] ELSE briefLayout

\* The stages go over the slides in the order of their positions.
Turn(which, s) == stage = which /\ s \in Units \ done /\ \A q \in Units \ done : s <= q
Passed(s, which, next) ==
  IF done \union {s} = Units THEN stage' = next /\ done' = {}
  ELSE stage' = which /\ done' = done \union {s}

-----------------------------------------------------------------------------
\* _resolve_photos: a reference that is asked for and usable is kept as it is.
AskedPhotos ==
  /\ stage = "resolve"
  /\ photo' \in [1 .. SLIDES -> Photos \union {NoPhoto}]
  /\ \A s \in 1 .. SLIDES : photo'[s] # NoPhoto => s \in Units
  /\ stage' = "match"
  /\ UNCHANGED <<form, briefLayout, own, auto, readAs, report, switch, done, small, built, uncut>>

\* A slide left open takes the best match among the photos not taken yet, if one has
\* enough words in common with its copy (photoref.choose).
Untaken_Any == Photos

Untaken == Photos \ {photo[q] : q \in Units}

MatchPhoto(s) ==
  /\ Turn("match", s) /\ Passed(s, "match", "read")
  /\ IF photo[s] # NoPhoto THEN UNCHANGED <<photo, auto>>
     ELSE \E pick \in Untaken \union {NoPhoto} :
            /\ photo' = [photo EXCEPT ![s] = pick]
            /\ auto' = IF pick = NoPhoto THEN auto ELSE auto \union {s}
  /\ UNCHANGED <<form, briefLayout, own, readAs, report, switch, small, built, uncut>>

\* _plan_photos: a photo is read once; where it cannot be read the slide is left without,
\* and tries again by itself when it is built.
PlanPhotos ==
  /\ stage = "read"
  /\ readAs' \in [1 .. SLIDES -> {"none", "cut", "whole", "unread"}]
  /\ \A s \in 1 .. SLIDES : readAs'[s] = "none" <=> photo[s] = NoPhoto
  /\ \A s, q \in Units :
       s < q /\ photo[s] = photo[q] /\ readAs'[s] # "unread" => readAs'[q] = readAs'[s]
  /\ stage' = "choose"
  /\ UNCHANGED <<form, briefLayout, own, photo, auto, report, switch, done, small, built, uncut>>

\* The brief's layout alone used to be set, which a slide's own outranks.
SetTemplate_OfBrief(s, template) == briefLayout' = template /\ UNCHANGED own

SetTemplate(s, template) ==
  /\ own' = [own EXCEPT ![s] = template]
  /\ briefLayout' = IF form = "single" THEN template ELSE briefLayout

SwitchTo(s, template) ==
  /\ SetTemplate(s, template)
  /\ switch' = [switch EXCEPT ![s] = template]

\* _choose_photo_layouts: centred words go off a cut product, and words go to a panel when
\* the subject of a photo used whole lies under them.
CentredOverCut(s) == readAs[s] = "cut" /\ TemplateFor(s) = "centered_overlay"

ChooseLayout(s) ==
  /\ Turn("choose", s) /\ Passed(s, "choose", "layouts")
  /\ \/ CentredOverCut(s) /\ SwitchTo(s, PREFERRED_TEMPLATE)
     \/ /\ readAs[s] = "whole" /\ TemplateFor(s) \in TYPE_ZONES
        /\ \E n \in DOMAIN PANEL_TEMPLATES : SwitchTo(s, PANEL_TEMPLATES[n])
     \/ ~CentredOverCut(s) /\ UNCHANGED <<briefLayout, own, switch>>
  /\ UNCHANGED <<form, photo, auto, readAs, report, small, built, uncut>>

\* What check_layout measures: a single post's slide is made anew from the brief.
Measured(s) == IF form = "single" THEN briefLayout ELSE TemplateFor(s)

\* layout_gate (Browser): every slide's report, or a refusal.
MeasureLayouts ==
  /\ stage = "layouts"
  /\ \/ /\ stage' = "resolution"
        /\ \E roomy \in SUBSET {s \in Units : photo[s] # NoPhoto} :
             report' = [s \in 1 .. SLIDES |->
                          IF s \in Units THEN [of |-> Measured(s), roomy |-> s \in roomy]
                          ELSE NoReport]
     \/ stage' = "refused" /\ UNCHANGED report
  /\ UNCHANGED <<form, briefLayout, own, photo, auto, readAs, switch, done, small, built, uncut>>

-----------------------------------------------------------------------------
\* The report of the layout a slide moves to replaces the old one.
NewReport_Kept(s) == report[s]

NewReport(s) == [of |-> Measured(s)', roomy |-> TRUE]

\* The panels in turn: the first that holds the copy and is roomy takes the slide; when
\* there is none, its layout is set back and the job will be refused.
SuitPhoto(s, kind) ==
  IF readAs[s] # kind \/ report[s].roomy THEN UNCHANGED <<briefLayout, own, switch, report, small>>
  ELSE \/ /\ \E n \in DOMAIN PANEL_TEMPLATES :
               PANEL_TEMPLATES[n] # TemplateFor(s) /\ SwitchTo(s, PANEL_TEMPLATES[n])
          /\ report' = [report EXCEPT ![s] = NewReport(s)]
          /\ UNCHANGED small
       \/ small' = TRUE /\ UNCHANGED <<briefLayout, own, switch, report>>

\* _photo_resolution_gate, for the photos used whole; a page that fails ends the job.
ResolutionGate(s) ==
  /\ Turn("resolution", s)
  /\ UNCHANGED <<form, photo, auto, readAs, built, uncut>>
  /\ \/ /\ SuitPhoto(s, "whole")
        /\ Passed(s, "resolution", IF small' THEN "refused" ELSE "product")
     \/ stage' = "refused" /\ UNCHANGED <<briefLayout, own, switch, report, small, done>>

\* _product_size_gate, for the products that are cut out.
ProductGate(s) ==
  /\ Turn("product", s)
  /\ UNCHANGED <<form, photo, auto, readAs, built, uncut>>
  /\ \/ /\ SuitPhoto(s, "cut")
        /\ Passed(s, "product", IF small' THEN "refused" ELSE "charged")
     \/ stage' = "refused" /\ UNCHANGED <<briefLayout, own, switch, report, small, done>>

\* A photo shown whole that would have to be enlarged too far fails its slide
\* (PhotoTooSmall).  The resolution gate has seen to its size, except where it could not
\* be read before the charge or was to be cut out.
UsedWhole(s) ==
  \E fits \in IF readAs[s] = "whole" THEN {report[s].roomy} ELSE BOOLEAN :
    built' = [built EXCEPT ![s] = IF fits THEN "photo" ELSE "failed"]

\* _build_one, after the charge: a photo that was not read is read now; a cut product
\* stands in a studio made for its window, or, when anything in product_background fails,
\* its photo is used whole.
BuildOne(s) ==
  /\ Turn("charged", s) /\ Passed(s, "charged", "built")
  /\ \E now \in IF readAs[s] = "unread" THEN {"cut", "whole", "lost"} ELSE {readAs[s]} :
       IF now = "cut" THEN
         \/ built' = [built EXCEPT ![s] = "studio"] /\ UNCHANGED uncut
         \/ UsedWhole(s) /\ uncut' = uncut \union {s}
       ELSE /\ CASE now = "none" -> built' = [built EXCEPT ![s] = "generated"]
                [] now = "whole" -> UsedWhole(s)
                [] OTHER -> built' = [built EXCEPT ![s] = "failed"]
            /\ UNCHANGED uncut
  /\ UNCHANGED <<form, briefLayout, own, photo, auto, readAs, report, switch, small>>

PhotoNext ==
  \/ AskedPhotos \/ PlanPhotos \/ MeasureLayouts
  \/ \E s \in 1 .. SLIDES :
       MatchPhoto(s) \/ ChooseLayout(s) \/ ResolutionGate(s) \/ ProductGate(s) \/ BuildOne(s)

PhotoSpec == PhotoInit /\ [][PhotoNext]_photoVars

-----------------------------------------------------------------------------
\* What the gates prove before the charge is what is built after it: each slide is set in
\* the layout its report was measured of, and in the one the switches tell the owner of
\* ("a free repair that repaired nothing and said it had is worse than one that refuses",
\* _set_template); a photo that was read does not stand as a thumbnail, and fails for its
\* size only where its studio could not be made; and a matched photo is used on no other
\* slide.
PhotosAsPromised ==
  stage \in {"charged", "built"} =>
    \A s \in Units :
      /\ photo[s] # NoPhoto => report[s].of = TemplateFor(s)
      /\ switch[s] # NoTemplate => switch[s] = TemplateFor(s)
      /\ readAs[s] # "unread" /\ built[s] = "studio" => report[s].roomy
      /\ readAs[s] # "unread" /\ built[s] = "failed" => s \in uncut
      /\ s \in auto => \A q \in Units \ {s} : photo[q] # photo[s]

\* "Never raises: any failure here means "use the photo whole", not "lose the slide""
\* (product_background).  Refuted: the resolution gate passes over a product that was cut,
\* so its photo, read and looked at, may still be too small to be used whole, and the slide
\* that was charged is lost.
FailedStudioKeepsSlide == \A s \in uncut : readAs[s] = "cut" => built[s] # "failed"

\* "The owner's product is never stood in the frame as a thumbnail" (generate).  Refuted:
\* the gates have nothing to say of a photo that could not be read before the charge.
NeverAThumbnail == \A s \in Units : built[s] = "studio" => report[s].roomy

\* "Within one carousel a photo is used at most once" (_resolve_photos).  Refuted: two
\* slides may ask for the same one.
PhotoUsedOnce ==
  \A s, q \in Units : s # q /\ photo[s] # NoPhoto => photo[s] # photo[q]
=============================================================================
