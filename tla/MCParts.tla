-------------------------------- MODULE MCParts --------------------------------
(***************************************************************************)
(* Parts that share no state with each other, in one run: each behaviour   *)
(* is of one of them, chosen at the start, and the state of the others     *)
(* stays as it was.  What has no state of its own (the mix of a month, the *)
(* sizes of pictures, boxes on a frame, the ranking of ideas) is evaluated *)
(* for every input.                                                        *)
(***************************************************************************)
EXTENDS Planner, Login, Frames, Vendor, Onboarding, Media, Browser, Insights, PhotoSlides,
        Boxes, FinalCheck, TLC

CONSTANTS w1, w2, c1, r1, p1, p2

VARIABLES part, input

vars == <<part, input, plannerVars, loginVars, vendorVars, onboardingVars, mediaVars,
          browserVars, insightsVars, photoVars, checkVars>>

\* A month of 8 days and one of 8, festivals next to each other and over the border.
MonthStarts == <<1, 9, 17>>
Calendar == <<6, 7, 12>>
Asks == {<<"awareness", 4, FALSE>>, <<"launch", 7, TRUE>>}

\* Ten seconds a tick: BUDGET_S, the read timeout and the poll timeout of a vendor that
\* answers at once, of one that is polled and of the slow one.
Vendors == [fal |-> [budget |-> 17, read |-> 9, polled |-> FALSE, poll |-> 0],
            bfl |-> [budget |-> 17, read |-> 9, polled |-> TRUE, poll |-> 12],
            openai |-> [budget |-> 33, read |-> 30, polled |-> FALSE, poll |-> 0]]

Layouts == <<"split_card", "frame_card", "poster_stack">>
Looks == [warm |-> [family |-> <<"split_card", "frame_card">>, order |-> 1]]
Styles == [f \in Files |-> IF f = p1 THEN "frame_card" ELSE "split_card"]

\* A photo, a note that states a colour, a photo whose caption says there is no logo.
Sends == <<[kind |-> "photo", asks |-> "nothing"], [kind |-> "note", asks |-> "colour"],
           [kind |-> "photo", asks |-> "no logo"]>>

\* Windows of a post across the canvas and as narrow as margins leave them, every fifth
\* height.
Windows == {892, 1080} \X {h \in 500 .. 1350 : h % 5 = 2}
SmallPhotos == (7 .. 12) \X (7 .. 12)
SmallWindows == {<<8, 10>>, <<10, 7>>}
Subjects(image) ==
  {<<x0, y0, x1, y1>> : x0 \in 0 .. image[1] - 1, y0 \in 0 .. image[2] - 1,
                        x1 \in 1 .. image[1], y1 \in 1 .. image[2]}

\* Layouts a brief asks for: two with words on the picture, one that may be moved to.
Starts == {NoTemplate, "centered_overlay", "lower_third", "split_card"}

\* A frame without fault, one whose window cuts the subject, one with its words on it, one
\* with nothing wrong but its type at the floor.
GoodFrame == [cut |-> 0, over |-> 0, shown |-> 100, type |-> 100, floor |-> {},
              contrast |-> 700, capped |-> FALSE, exact |-> TRUE]
FrameMeasures ==
  {GoodFrame, [GoodFrame EXCEPT !.cut = 20, !.shown = 60],
   [GoodFrame EXCEPT !.over = 30, !.capped = TRUE],
   [GoodFrame EXCEPT !.type = 60, !.floor = {"headline"}]}
Objections ==
  {{}, {"artefacts"}, {"text_covers_subject"}, {"logo_problem", "subject_cut_off"}}
StartedLayouts == {"split_card", "lower_third"}

\* Every box of a frame of 4 by 4.
BoxesIn(n) == {b \in (0 .. n) \X (0 .. n) \X (0 .. n) \X (0 .. n) : Real(b)}
Cuts == {<<1, 2>>, <<3, 1>>}

RankedPosts == [reached : BOOLEAN, settled : BOOLEAN, lifted : BOOLEAN, offered : BOOLEAN]
Tops == UNION {[1 .. n -> RankedPosts] : n \in 0 .. 3}
Votes == UNION {[1 .. n -> [kind : VoteKinds, brief : {p1, p2}]] : n \in 0 .. 3}
Intents == {"festive", "promo", "educational", "new_product", "testimonial"}
Recents == {r \in SUBSET Intents : Cardinality(r) <= 2}
Stories == (SUBSET {"slot", "festival", "sequel", "photo"}) \X {"educational", "festive"}
             \X {"promo", "educational"} \X {"none", "promo", "testimonial"}

Parts == {"planner", "login", "vendor", "onboarding", "media", "browser", "insights", "photos",
          "check"}

Input ==
  \/ part \in Parts /\ input = <<>>
  \/ part = "pillars" /\ input \in GOALS \X (0 .. 31)
  \/ part = "frames" /\ input \in Windows
  \/ part = "crops" /\ input \in SmallWindows \X SmallPhotos
  \/ part = "boxes" /\ input \in BoxesIn(4)
  \/ part = "ideas" /\ input \in Recents
  \/ part = "sequels" /\ input \in Tops
  \/ part = "votes" /\ input \in Votes

Init ==
  /\ part \in Parts \union {"pillars", "frames", "crops", "boxes", "ideas",
                          "sequels", "votes"}
  /\ Input
  /\ IF part = "vendor" THEN TRUE ELSE provider = "fal"
  /\ IF part = "browser" THEN TRUE ELSE purpose = "check"
  /\ IF part = "photos" THEN TRUE
     ELSE form = "single" /\ briefLayout = "lower_third"
            /\ own = [s \in 1 .. SLIDES |-> IF s = 1 THEN briefLayout ELSE NoTemplate]
  /\ IF part = "check" THEN TRUE ELSE buys = FALSE /\ started = "split_card"
  /\ PlannerInit /\ LoginInit /\ VendorInit /\ OnboardingInit /\ MediaInit
  /\ BrowserInit /\ InsightsInit /\ PhotoInit /\ CheckInit

Next ==
  /\ UNCHANGED <<part, input>>
  /\ \/ /\ part = "planner" /\ PlannerNext
        /\ UNCHANGED <<loginVars, vendorVars, onboardingVars, mediaVars, browserVars,
                       insightsVars, photoVars, checkVars>>
     \/ /\ part = "login" /\ LoginNext
        /\ UNCHANGED <<plannerVars, vendorVars, onboardingVars, mediaVars, browserVars,
                       insightsVars, photoVars, checkVars>>
     \/ /\ part = "vendor" /\ VendorNext
        /\ UNCHANGED <<plannerVars, loginVars, onboardingVars, mediaVars, browserVars,
                       insightsVars, photoVars, checkVars>>
     \/ /\ part = "onboarding" /\ OnboardingNext
        /\ UNCHANGED <<plannerVars, loginVars, vendorVars, mediaVars, browserVars,
                       insightsVars, photoVars, checkVars>>
     \/ /\ part = "media" /\ MediaNext
        /\ UNCHANGED <<plannerVars, loginVars, vendorVars, onboardingVars, browserVars,
                       insightsVars, photoVars, checkVars>>
     \/ /\ part = "browser" /\ BrowserNext
        /\ UNCHANGED <<plannerVars, loginVars, vendorVars, onboardingVars, mediaVars,
                       insightsVars, photoVars, checkVars>>
     \/ /\ part = "insights" /\ InsightsNext
        /\ UNCHANGED <<plannerVars, loginVars, vendorVars, onboardingVars, mediaVars,
                       browserVars, photoVars, checkVars>>
     \/ /\ part = "photos" /\ PhotoNext
        /\ UNCHANGED <<plannerVars, loginVars, vendorVars, onboardingVars, mediaVars,
                       browserVars, insightsVars, checkVars>>
     \/ /\ part = "check" /\ CheckNext
        /\ UNCHANGED <<plannerVars, loginVars, vendorVars, onboardingVars, mediaVars,
                       browserVars, insightsVars, photoVars>>

Spec == Init /\ [][Next]_vars

Symmetry == Permutations({w1, w2})

-----------------------------------------------------------------------------
\* The promises of what has no state of its own, each for its inputs: SpreadAsPromised for
\* every goal and every number of free days of a month (plan.py); FrameSuitsAll for windows
\* of every height (base.py); SubjectKept for small photographs and every box a subject may
\* have (compose.py); PlateUnderWords and ProductClear for every box the frame has
\* (compose.py, pipeline.py); and what is made of posts, reasons and votes (performance.py,
\* suggest.py, profile.py).
SubjectsKept(window, image) ==
  \A focus \in Subjects(image) :
    focus[1] < focus[3] /\ focus[2] < focus[4] => SubjectKept(image, window, focus)

WordsAndProductClear(keep) ==
  /\ \A words \in BoxesIn(4), feather \in {1, 2} : PlateUnderWords(words, keep, feather)
  /\ \A other \in BoxesIn(4), cut \in Cuts, margin \in {0, 1} :
       ProductClear(<<0, 0, 4, 4>>, <<keep, other>>, cut, margin)

IdeasInOrder(recent) ==
  \A story \in Stories : BestReasonsOffered(story[1], recent, story[2], story[3], story[4])

ComputedAsPromised ==
  CASE part = "pillars" -> SpreadAsPromised(input[1], input[2])
    [] part = "frames" -> FrameSuitsAll(input)
    [] part = "crops" -> SubjectsKept(input[1], input[2])
    [] part = "boxes" -> WordsAndProductClear(input)
    [] part = "ideas" -> IdeasInOrder(input)
    [] part = "sequels" -> SequelIsTheBest(input)
    [] part = "votes" -> OneOpinionPerBrief(input)
    [] OTHER -> TRUE

-----------------------------------------------------------------------------
\* A plan keeps what was made of it and covers its festivals (MadeStays, ArcsCovered).
PlansAsPromised == MadeStays /\ ArcsCovered

\* What is decided of a slide before the charge is what is built after it, and only what
\* passed the final look leaves it, bought for when nothing free would do (PhotosAsPromised,
\* PassedAsItIs, MoneyLast).
SlidesAsPromised == PhotosAsPromised /\ FinalCheckAsPromised

\* Faults that are to be survived are: a vendor's blips within its tries, one death of the
\* browser (BlipsSurvived, RendersAsPromised).
FaultsSurvived == BlipsSurvived /\ RendersAsPromised

\* An import ends whole, also on its second run (HouseStyleWhole, ReRunCompletes).
ImportsComplete == HouseStyleWhole /\ ReRunCompletes

\* What is known of the posts keeps coming for as long as the login lives, and is no older
\* than it says (NumbersKeepComing, StampsHonest).
NumbersKept == NumbersKeepComing /\ StampsHonest
=============================================================================
