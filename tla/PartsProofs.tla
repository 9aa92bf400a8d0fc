------------------------------ MODULE PartsProofs ------------------------------
(***************************************************************************)
(* What the parts that share no state promise (MCParts), for every value   *)
(* of their constants.  Each part has an inductive invariant of its own;   *)
(* a step of the whole is a step of one part or of none of its variables.  *)
(***************************************************************************)
EXTENDS MCParts, FiniteSetTheorems, SequenceTheorems, WellFoundedInduction, TLAPS

LEMMA PartsInit ==
  Init => /\ PlannerInit /\ LoginInit /\ VendorInit /\ OnboardingInit /\ MediaInit
          /\ BrowserInit /\ InsightsInit /\ PhotoInit /\ CheckInit
  BY DEF Init

LEMMA PartsStep ==
  [Next]_vars => /\ [PlannerNext]_plannerVars /\ [LoginNext]_loginVars /\ [VendorNext]_vendorVars
                 /\ [OnboardingNext]_onboardingVars /\ [MediaNext]_mediaVars
                 /\ [BrowserNext]_browserVars /\ [InsightsNext]_insightsVars
                 /\ [PhotoNext]_photoVars /\ [CheckNext]_checkVars
  BY DEF Next, vars

-----------------------------------------------------------------------------
\* A row for every account, with a token that was minted or none: what EXCEPT needs to know.
LoginInv ==
  /\ row \in [Users -> [status : {"none", "connected", "disconnected"}, token : Nat]]
  /\ minted \in Nat /\ web.token \in Nat

LEMMA LoginInitOk == LoginInit => LoginInv
  BY DEF LoginInit, LoginInv, Unconnected, NoLogin

LEMMA LoginStepOk == LoginInv /\ [LoginNext]_loginVars => LoginInv'
<1> SUFFICES ASSUME LoginInv, [LoginNext]_loginVars
             PROVE  LoginInv'
  OBVIOUS
<1>1. CASE Exchange
  <2>1. /\ minted' = minted + 1 /\ UNCHANGED row
        /\ \E u \in Users : web' = [user |-> u, token |-> minted']
    BY <1>1 DEF Exchange
  <2> QED
    BY <2>1 DEF LoginInv
<1>2. CASE Connect
  <2>1. /\ web' = NoLogin /\ UNCHANGED minted
        /\ row' = [row EXCEPT ![web.user] = [status |-> "connected", token |-> web.token]]
    BY <1>2 DEF Connect
  <2> QED
    BY <2>1 DEF LoginInv, NoLogin
<1>3. ASSUME NEW w \in Callers, RefreshToken(w)
      PROVE  LoginInv'
  <2>1. /\ minted' = minted + 1 /\ UNCHANGED web
        /\ row' = [row EXCEPT ![call[w].user].token = minted']
    BY <1>3 DEF RefreshToken
  <2>2. minted' \in Nat
    BY <2>1 DEF LoginInv
  <2>3. ASSUME NEW token \in Nat, NEW u \in Users
        PROVE  [row[u] EXCEPT !.token = token]
                 \in [status : {"none", "connected", "disconnected"}, token : Nat]
    BY DEF LoginInv
  <2>4. row' \in [Users -> [status : {"none", "connected", "disconnected"}, token : Nat]]
    BY <2>1, <2>2, <2>3 DEF LoginInv
  <2> QED
    BY <2>1, <2>2, <2>4 DEF LoginInv
<1>4. ASSUME NEW w \in Callers, Disconnect(w)
      PROVE  LoginInv'
  <2>1. /\ UNCHANGED <<minted, web>>
        /\ row' = [row EXCEPT ![call[w].user].status = "disconnected"]
    BY <1>4 DEF Disconnect
  <2> QED
    BY <2>1 DEF LoginInv
<1>5. CASE UNCHANGED <<row, minted, web>>
  BY <1>5 DEF LoginInv
<1> QED
  BY <1>1, <1>2, <1>3, <1>4, <1>5
  DEF LoginNext, Calls, TokenDies, Sweep, Later, BeginPost, BeginSync, BeginAside, Succeed,
      CallFails, loginVars

LEMMA LoginReached == LoginSpec => []LoginInv
  BY LoginInitOk, LoginStepOk, PTL DEF LoginSpec

\* Only the call that Meta told of a dead token takes a row down, and what it knows of the
\* token is as old as the call: either the row's token is dead, or it is not the one the
\* call had read, the owner having logged in again meanwhile (is_auth_error and what
\* _publish_to_instagram, answer_comment and sync_brand do of it).
THEOREM LoginsDroppedOnlyWhenDead == LoginSpec => DroppedOnlyWhenDead
<1>1. ASSUME LoginInv, [LoginNext]_loginVars, NEW u \in Users,
             row[u].status = "connected", row'[u].status = "disconnected"
      PROVE  \/ row[u].token \in dead
             \/ \E w \in Callers : call[w].user = u /\ call[w].token \in dead
                                     /\ call[w].token # row[u].token
  <2>1. CASE \E w \in Callers : Disconnect(w)
    <3>1. PICK w \in Callers : Disconnect(w)
      BY <2>1
    <3>2. /\ call[w].token \in dead
          /\ row' = [row EXCEPT ![call[w].user].status = "disconnected"]
      BY <3>1 DEF Disconnect, SaysDead
    <3>3. call[w].user = u
      BY <1>1, <3>2 DEF LoginInv
    <3> QED
      BY <3>2, <3>3
  <2>2. CASE Connect
    <3>1. row' = [row EXCEPT ![web.user] = [status |-> "connected", token |-> web.token]]
      BY <2>2 DEF Connect
    <3> QED
      BY <1>1, <3>1 DEF LoginInv
  <2>3. ASSUME NEW w \in Callers, RefreshToken(w)
        PROVE  row'[u].status = row[u].status
    <3>1. row' = [row EXCEPT ![call[w].user].token = minted']
      BY <2>3 DEF RefreshToken
    <3> QED
      BY <3>1 DEF LoginInv
  <2>4. CASE UNCHANGED row
    BY <1>1, <2>4
  <2>5. \/ \E w \in Callers : Disconnect(w) \/ RefreshToken(w)
        \/ Connect \/ UNCHANGED row
    BY <1>1 DEF LoginNext, Calls, Exchange, TokenDies, Sweep, Later, BeginPost, BeginSync,
                BeginAside, Succeed, CallFails, loginVars
  <2> QED
    BY <1>1, <2>1, <2>2, <2>3, <2>4, <2>5
<1>2. LoginInv /\ [LoginNext]_loginVars =>
        [\A u \in Users : row[u].status = "connected" /\ row'[u].status = "disconnected" =>
           \/ row[u].token \in dead
           \/ \E w \in Callers : call[w].user = u /\ call[w].token \in dead
                                   /\ call[w].token # row[u].token]_loginVars
  BY <1>1
<1> QED
  BY <1>2, LoginReached, PTL DEF LoginSpec, DroppedOnlyWhenDead

-----------------------------------------------------------------------------
LEMMA BoxParts ==
  ASSUME NEW a \in Box
  PROVE  a[1] \in Int /\ a[2] \in Int /\ a[3] \in Int /\ a[4] \in Int
         /\ a = <<a[1], a[2], a[3], a[4]>>
  BY DEF Box

\* A plate pulled back off the product clears it and still lies under all of its words,
\* whatever their boxes and however wide the feather: _kept_off takes a side on which only
\* the feather reaches the product (compose.py).
THEOREM PlatesStayUnderTheirWords ==
  ASSUME NEW words \in Box, NEW keep \in Box, NEW feather \in Nat,
         Real(words), Real(keep)
  PROVE  PlateUnderWords(words, keep, feather)
<1> DEFINE box == Feathered(words, feather)
<1>1. /\ words[1] \in Int /\ words[2] \in Int /\ words[3] \in Int /\ words[4] \in Int
      /\ keep[1] \in Int /\ keep[2] \in Int /\ keep[3] \in Int /\ keep[4] \in Int
  BY BoxParts
<1>2. /\ box[1] = words[1] - feather /\ box[2] = words[2] - feather
      /\ box[3] = words[3] + feather /\ box[4] = words[4] + feather
  BY DEF Feathered
<1>3. SUFFICES ASSUME Apart(words, keep)
               PROVE  Apart(KeptOff(box, keep), keep) /\ Inside(words, KeptOff(box, keep))
  BY DEF PlateUnderWords
<1> HIDE DEF box
<1>4. CASE Apart(box, keep)
  BY <1>1, <1>2, <1>4 DEF KeptOff, Inside
<1>5. CASE ~Apart(box, keep)
  <2> DEFINE b == box[4] - keep[2]
             l == keep[3] - box[1]
             r == box[3] - keep[1]
             t == keep[4] - box[2]
  <2>1. KeptOff(box, keep) =
          IF b <= l /\ b <= r /\ b <= t THEN Above(box, keep)
          ELSE IF l <= r /\ l <= t THEN RightOf(box, keep)
          ELSE IF r <= t THEN LeftOf(box, keep) ELSE Below(box, keep)
    BY <1>5 DEF KeptOff
  <2>2. b \in Int /\ l \in Int /\ r \in Int /\ t \in Int
    BY <1>1, <1>2
  \* Words and product being apart, the side they are apart on loses at most the feather.
  <2>3. l <= feather \/ r <= feather \/ t <= feather \/ b <= feather
    BY <1>1, <1>2, <1>3 DEF Apart
  <2>4. CASE b <= l /\ b <= r /\ b <= t
    <3>1. b <= feather
      BY <2>2, <2>3, <2>4
    <3>2. words[4] <= keep[2]
      BY <1>1, <1>2, <3>1
    <3> QED
      BY <1>1, <1>2, <2>1, <2>4, <3>2 DEF Above, Apart, Inside
  <2>5. CASE ~(b <= l /\ b <= r /\ b <= t) /\ l <= r /\ l <= t
    <3>1. l <= feather
      BY <2>2, <2>3, <2>5
    <3>2. words[1] >= keep[3]
      BY <1>1, <1>2, <3>1
    <3> QED
      BY <1>1, <1>2, <2>1, <2>5, <3>2 DEF RightOf, Apart, Inside
  <2>6. CASE ~(b <= l /\ b <= r /\ b <= t) /\ ~(l <= r /\ l <= t) /\ r <= t
    <3>1. r <= feather
      BY <2>2, <2>3, <2>6
    <3>2. words[3] <= keep[1]
      BY <1>1, <1>2, <3>1
    <3> QED
      BY <1>1, <1>2, <2>1, <2>6, <3>2 DEF LeftOf, Apart, Inside
  <2>7. CASE ~(b <= l /\ b <= r /\ b <= t) /\ ~(l <= r /\ l <= t) /\ ~(r <= t)
    <3>1. t <= feather
      BY <2>2, <2>3, <2>7
    <3>2. words[2] >= keep[4]
      BY <1>1, <1>2, <3>1
    <3> QED
      BY <1>1, <1>2, <2>1, <2>7, <3>2 DEF Below, Apart, Inside
  <2> QED
    BY <2>4, <2>5, <2>6, <2>7
<1> QED
  BY <1>4, <1>5

-----------------------------------------------------------------------------
LEMMA CutIsOneOfFour ==
  ASSUME NEW rect, NEW keep
  PROVE  CutOff(rect, keep) \in {Above(rect, keep), Below(rect, keep), LeftOf(rect, keep),
                                 RightOf(rect, keep)}
  BY DEF CutOff, Larger

\* One cut of _free_rect leaves a rectangle clear of what it was cut off, inside the one it
\* was cut from, and therefore clear of everything that one was clear of: no later cut can
\* bring a word back that an earlier one took away (pipeline.py).
THEOREM CutsOnlyClear ==
  ASSUME NEW rect \in Box, NEW keep \in Box, ~Apart(rect, keep)
  PROVE  LET cut == CutOff(rect, keep)
         IN /\ cut \in Box /\ Apart(cut, keep) /\ Inside(cut, rect)
            /\ \A other \in Box : Apart(rect, other) => Apart(cut, other)
<1> DEFINE cut == CutOff(rect, keep)
<1>1. /\ rect[1] \in Int /\ rect[2] \in Int /\ rect[3] \in Int /\ rect[4] \in Int
      /\ keep[1] \in Int /\ keep[2] \in Int /\ keep[3] \in Int /\ keep[4] \in Int
  BY BoxParts
<1>2. cut \in {Above(rect, keep), Below(rect, keep), LeftOf(rect, keep), RightOf(rect, keep)}
  BY CutIsOneOfFour
<1>3. cut \in Box /\ Apart(cut, keep) /\ Inside(cut, rect)
  <2>1. CASE cut = Above(rect, keep)
    BY <1>1, <2>1 DEF Above, Box, Apart, Inside
  <2>2. CASE cut = Below(rect, keep)
    BY <1>1, <2>2 DEF Below, Box, Apart, Inside
  <2>3. CASE cut = LeftOf(rect, keep)
    BY <1>1, <2>3 DEF LeftOf, Box, Apart, Inside
  <2>4. CASE cut = RightOf(rect, keep)
    BY <1>1, <2>4 DEF RightOf, Box, Apart, Inside
  <2> QED
    BY <1>2, <2>1, <2>2, <2>3, <2>4
<1> HIDE DEF cut
<1>4. ASSUME NEW other \in Box, Apart(rect, other)
      PROVE  Apart(cut, other)
  <2>1. /\ other[1] \in Int /\ other[2] \in Int /\ other[3] \in Int /\ other[4] \in Int
        /\ cut[1] \in Int /\ cut[2] \in Int /\ cut[3] \in Int /\ cut[4] \in Int
    BY <1>3, BoxParts
  <2> QED
    BY <1>1, <1>3, <1>4, <2>1 DEF Apart, Inside
<1> QED
  BY <1>3, <1>4 DEF cut

-----------------------------------------------------------------------------
\* The ladder counts what it has made, and the slide is out of its layout only for the
\* time of a render.
LadderInv ==
  /\ rendering \in BOOLEAN
  /\ counted \in Nat /\ counted = composed /\ counted <= FREE_VARIANTS
  /\ rendering => look \in Ladders /\ counted < FREE_VARIANTS
  /\ look # "done" /\ ~rendering => layout = started

\* Whatever the ladders and the inspector have in hand is of the present picture.
PictureInv ==
  /\ look \in {"sweep", "inspect", "again"} => best.picture = picture
  /\ look = "move" => best = NoVariant \/ best.picture = picture
  /\ look \in {"move", "again", "settle"} => settled.picture = picture

\* The verdict is the settled frame's, and a clean frame that passed is that one.
VerdictInv ==
  /\ look \in {"measure", "sweep", "inspect", "move", "again"} => passed = {}
  /\ look \in {"move", "again"} => reasons # {}
  /\ look = "settle" =>
       /\ reasons = {} => settled \in passed
       /\ \A frame \in passed : Clean(frame.measured) => reasons = {} /\ frame = settled
  /\ look = "buy" => \A frame \in passed : ~Clean(frame.measured)
  /\ look = "done" => /\ Clean(settled.measured) /\ settled \in passed
                      /\ settled.picture = picture /\ settled.layout = layout

\* A ladder that is over has found a clean frame or gone as far as it may.
RungInv ==
  /\ look = "measure" => first = NoVariant
  /\ look \in {"inspect", "again", "settle", "buy"} /\ first # NoVariant =>
       Found \/ composed = FREE_VARIANTS \/ todo = <<>>

CheckInv == LadderInv /\ PictureInv /\ VerdictInv /\ RungInv

-----------------------------------------------------------------------------
LEMMA CheckInitOk == CheckInit => CheckInv
<1> SUFFICES ASSUME CheckInit PROVE CheckInv
  OBVIOUS
<1>1. LadderInv
  <2>1. rendering = FALSE /\ layout = started /\ counted = 0 /\ composed = 0
    BY DEF CheckInit
  <2>2. rendering \in BOOLEAN /\ ~rendering
    BY <2>1, Zenon
  <2>3. counted \in Nat /\ counted = composed /\ counted <= FREE_VARIANTS
    BY <2>1, FinalCheckConstants
  <2> QED
    BY <2>1, <2>2, <2>3, Zenon DEF LadderInv
<1>2. PictureInv /\ RungInv
  BY DEF CheckInit, PictureInv, RungInv
<1>3. VerdictInv
  BY DEF CheckInit, VerdictInv
<1> QED
  BY <1>1, <1>2, <1>3 DEF CheckInv

\* A frame is of the picture that was composed.
LEMMA FrameOfPicture == ASSUME NEW of, NEW m PROVE Frame(of, m).picture = picture
  BY DEF Frame

LEMMA MeasureOk == CheckInv /\ Measure => CheckInv'
<1> SUFFICES ASSUME CheckInv, Measure PROVE CheckInv'
  OBVIOUS
<1> USE DEF CheckInv, slideVars, verdictVars
<1>1. PICK m \in MEASURES :
        LET frame == Frame(layout, m)
        IN IF WorthAVariant(m, layout)
           THEN Climb(frame, FaultsOf(m) \union RepairsOf(m, layout), FALSE, "sweep")
           ELSE look' = "inspect" /\ best' = frame /\ UNCHANGED <<first, todo, counted, composed>>
  BY DEF Measure
<1>2. best' = Frame(layout, m)
  BY <1>1 DEF Climb
<1>3. best'.picture = picture
  BY <1>2, FrameOfPicture
<1>4. \/ look' = "sweep" /\ counted' = 0 /\ composed' = 0
      \/ look' = "inspect" /\ UNCHANGED <<first, counted, composed>>
  BY <1>1 DEF Climb
<1>5. LadderInv'
  BY <1>4, FinalCheckConstants DEF Measure, LadderInv, Ladders
<1>6. PictureInv'
  BY <1>3, <1>4 DEF Measure, PictureInv
<1>7. VerdictInv' /\ RungInv'
  BY <1>4 DEF Measure, VerdictInv, RungInv
<1> QED
  BY <1>5, <1>6, <1>7

LEMMA TryOk == CheckInv /\ Try => CheckInv'
<1> SUFFICES ASSUME CheckInv, Try PROVE CheckInv'
  OBVIOUS
<1> USE DEF CheckInv, Try, ladderVars, verdictVars
<1>1. LadderInv'
  BY FinalCheckConstants DEF LadderInv, Enough, Ladders
<1>2. PictureInv' /\ VerdictInv'
  BY DEF PictureInv, VerdictInv, Ladders
<1>3. RungInv'
  BY DEF RungInv, Ladders
<1> QED
  BY <1>1, <1>2, <1>3

LEMMA VariantMadeOk == CheckInv /\ VariantMade => CheckInv'
<1> SUFFICES ASSUME CheckInv, VariantMade PROVE CheckInv'
  OBVIOUS
<1> USE DEF CheckInv, verdictVars
<1>1. /\ rendering /\ ~rendering' /\ look \in Ladders /\ look' = look /\ layout' = started
      /\ UNCHANGED <<picture, started, first, reasons, settled, passed>>
  BY DEF VariantMade, PutBack, LadderInv
<1>2. counted' = composed' /\ counted' \in Nat /\ counted' <= FREE_VARIANTS
  <2>1. \/ counted' = counted + 1 /\ composed' = composed + 1
        \/ counted' = counted /\ composed' = composed
    BY DEF VariantMade, Counted
  <2> QED
    BY <2>1, <1>1, FinalCheckConstants DEF LadderInv
<1>3. best' = best \/ \E m \in MEASURES : best' = Frame(layout, m)
  BY DEF VariantMade
<1>4. best' = best \/ best'.picture = picture
  BY <1>3, FrameOfPicture
<1>5. LadderInv'
  BY <1>1, <1>2 DEF LadderInv, VariantMade
<1>6. PictureInv'
  BY <1>1, <1>4 DEF PictureInv, Ladders
<1>7. VerdictInv' /\ RungInv'
  BY <1>1 DEF VerdictInv, RungInv, Ladders
<1> QED
  BY <1>5, <1>6, <1>7

LEMMA EndingsOk == CheckInv /\ (RenderFails \/ InspectionUnavailable) => CheckInv'
<1> SUFFICES ASSUME CheckInv, RenderFails \/ InspectionUnavailable PROVE CheckInv'
  OBVIOUS
<1>1. look' = "raised"
  BY DEF RenderFails, InspectionUnavailable
<1>2. LadderInv'
  <2>1. rendering' = FALSE /\ layout' = started /\ UNCHANGED <<started, counted, composed>>
    BY DEF CheckInv, LadderInv, Ladders, RenderFails, InspectionUnavailable, slideVars, ladderVars
  <2>2. rendering' \in BOOLEAN /\ ~rendering'
    BY <2>1, Zenon
  <2> QED
    BY <2>1, <2>2 DEF CheckInv, LadderInv
<1>3. PictureInv' /\ VerdictInv' /\ RungInv'
  BY <1>1 DEF PictureInv, VerdictInv, RungInv
<1> QED
  BY <1>2, <1>3 DEF CheckInv

LEMMA LadderEndsOk == CheckInv /\ LadderEnds => CheckInv'
<1> SUFFICES ASSUME CheckInv, LadderEnds PROVE CheckInv'
  OBVIOUS
<1> USE DEF CheckInv, LadderEnds, slideVars, ladderVars, verdictVars
<1>1. LadderInv' /\ PictureInv'
  BY DEF LadderInv, PictureInv, Ladders
<1>2. VerdictInv'
  BY DEF VerdictInv, Ladders
<1>3. Found' = Found
  BY DEF Found
<1>4. Found \/ composed = FREE_VARIANTS \/ todo = <<>>
  BY FinalCheckConstants DEF LadderInv, Enough
<1>5. RungInv'
  BY <1>3, <1>4 DEF RungInv, Ladders
<1> QED
  BY <1>1, <1>2, <1>5

LEMMA Inspect1Ok == CheckInv /\ Inspect1 => CheckInv'
<1> SUFFICES ASSUME CheckInv, Inspect1 PROVE CheckInv'
  OBVIOUS
<1> USE DEF CheckInv, slideVars, ladderVars
<1>1. PICK found \in OBJECTIONS :
        /\ Seen(best, found) /\ reasons' = found /\ settled' = best
        /\ IF found \ PICTURE_REASONS # {} THEN Climb(best, AsCodes(found), TRUE, "move")
           ELSE look' = "settle" /\ UNCHANGED ladderVars
  BY DEF Inspect1
<1>2. look = "inspect" /\ passed = {} /\ best.picture = picture
  BY DEF Inspect1, VerdictInv, PictureInv
<1>3. passed' = IF found = {} THEN {best} ELSE {}
  BY <1>1, <1>2 DEF Seen
<1>4. CASE found \ PICTURE_REASONS # {}
  <2>1. /\ look' = "move" /\ best' = NoVariant /\ counted' = 0 /\ composed' = 0
        /\ found # {}
    BY <1>1, <1>4 DEF Climb
  <2> QED
    BY <1>1, <1>2, <1>3, <2>1, FinalCheckConstants
    DEF Inspect1, LadderInv, PictureInv, VerdictInv, RungInv, Ladders
<1>5. CASE found \ PICTURE_REASONS = {}
  <2>1. look' = "settle" /\ UNCHANGED ladderVars
    BY <1>1, <1>5
  <2>2. Found' = Found
    BY <2>1 DEF Found
  <2>3. LadderInv' /\ PictureInv' /\ RungInv'
    BY <1>1, <1>2, <2>1, <2>2 DEF Inspect1, LadderInv, PictureInv, RungInv, Ladders
  <2>4. VerdictInv'
    BY <1>1, <1>3, <2>1 DEF VerdictInv
  <2> QED
    BY <2>3, <2>4
<1> QED
  BY <1>4, <1>5

LEMMA Inspect2Ok == CheckInv /\ Inspect2 => CheckInv'
<1> SUFFICES ASSUME CheckInv, Inspect2 PROVE CheckInv'
  OBVIOUS
<1> USE DEF CheckInv, slideVars, ladderVars
<1>1. PICK found \in OBJECTIONS :
        /\ Seen(best, found)
        /\ IF \/ found = {} /\ Clean(best.measured)
              \/ Cardinality(found) < Cardinality(reasons)
           THEN Takes(best, found) ELSE UNCHANGED <<settled, reasons>>
  BY DEF Inspect2
<1>2. /\ look = "again" /\ look' = "settle" /\ passed = {} /\ reasons # {}
      /\ best.picture = picture /\ settled.picture = picture
      /\ UNCHANGED <<slideVars, ladderVars>>
  BY DEF Inspect2, VerdictInv, PictureInv
<1>3. passed' = IF found = {} THEN {best} ELSE {}
  BY <1>1, <1>2 DEF Seen
<1>4. \/ settled' = best /\ reasons' = found
      \/ UNCHANGED <<settled, reasons>> /\ ~(found = {} /\ Clean(best.measured))
  BY <1>1 DEF Takes
<1>5. Found' = Found
  BY <1>2 DEF Found
<1>6. LadderInv' /\ PictureInv' /\ RungInv'
  BY <1>2, <1>4, <1>5 DEF LadderInv, PictureInv, RungInv, Ladders
<1>7. VerdictInv'
  BY <1>2, <1>3, <1>4 DEF VerdictInv
<1> QED
  BY <1>6, <1>7

LEMMA SettleOk == CheckInv /\ Settle => CheckInv'
<1> SUFFICES ASSUME CheckInv, Settle PROVE CheckInv'
  OBVIOUS
<1> USE DEF CheckInv, Settle, ladderVars, verdictVars
<1>1. CASE Clean(settled.measured) /\ reasons = {}
  <2>1. look' = "done" /\ layout' = settled.layout
    BY <1>1
  <2> QED
    BY <1>1, <2>1 DEF LadderInv, PictureInv, VerdictInv, RungInv, Ladders
<1>2. CASE ~(Clean(settled.measured) /\ reasons = {})
  <2>1. look' \in {"buy", "refused"} /\ layout' = started
    BY <1>2
  <2>2. Found' = Found
    BY DEF Found
  <2>3. LadderInv' /\ PictureInv' /\ RungInv'
    BY <2>1, <2>2 DEF LadderInv, PictureInv, RungInv, Ladders
  <2>4. VerdictInv'
    BY <1>2, <2>1 DEF VerdictInv
  <2> QED
    BY <2>3, <2>4
<1> QED
  BY <1>1, <1>2

LEMMA BuyAnotherOk == CheckInv /\ BuyAnother => CheckInv'
<1> SUFFICES ASSUME CheckInv, BuyAnother PROVE CheckInv'
  OBVIOUS
<1> QED
  BY DEF CheckInv, BuyAnother, LadderInv, PictureInv, VerdictInv, RungInv, Ladders

LEMMA CheckStepOk == CheckInv /\ [CheckNext]_checkVars => CheckInv'
<1> SUFFICES ASSUME CheckInv, [CheckNext]_checkVars PROVE CheckInv'
  OBVIOUS
<1>1. CASE UNCHANGED checkVars
  <2>1. Found' = Found
    BY <1>1 DEF Found, checkVars, ladderVars
  <2> QED
    BY <1>1, <2>1 DEF CheckInv, LadderInv, PictureInv, VerdictInv, RungInv, checkVars, slideVars,
                      ladderVars, verdictVars
<1>2. CASE CheckNext
  BY <1>2, MeasureOk, TryOk, VariantMadeOk, EndingsOk, LadderEndsOk, Inspect1Ok, Inspect2Ok,
     SettleOk, BuyAnotherOk DEF CheckNext
<1> QED
  BY <1>1, <1>2

-----------------------------------------------------------------------------
LEMMA LookPromised == CheckInv => FinalCheckAsPromised
  BY DEF CheckInv, LadderInv, VerdictInv, RungInv, Ladders, FinalCheckAsPromised, PassedAsItIs,
         MoneyLast

\* What the final look hands on is a frame that both its measurements and the inspector
\* passed, of the picture stored with it and under the layout the row names, and a picture
\* is bought only when the free ladder has nothing more to give (_final_check,
\* best_free_variant), for every number of free layouts and of pictures.
THEOREM LookKeepsItsPromises == CheckSpec => []FinalCheckAsPromised
  BY CheckInitOk, CheckStepOk, LookPromised, PTL DEF CheckSpec

-----------------------------------------------------------------------------
(* The photographs: what is decided of a slide before the charge. *)

\* Names of layouts: those of briefs and those a slide may be moved to.
LayoutNames == STARTS \union TYPE_ZONES \union {"split_card", "top_band", "frame_card"}

PhotoTyped ==
  /\ form \in {"single", "carousel"} /\ briefLayout \in LayoutNames
  /\ own \in [1 .. SLIDES -> LayoutNames]
  /\ switch \in [1 .. SLIDES -> LayoutNames \union {NoTemplate}]
  /\ photo \in [1 .. SLIDES -> Photos \union {NoPhoto}]
  /\ readAs \in [1 .. SLIDES -> {"none", "cut", "whole", "unread"}]
  /\ report \in [1 .. SLIDES -> [of : LayoutNames \union {NoTemplate}, roomy : BOOLEAN]]
  /\ built \in [1 .. SLIDES -> {"none", "generated", "studio", "photo", "failed"}]
  /\ done \subseteq Units /\ auto \subseteq Units

\* A single post's slide and its brief name one layout, and a switch names the slide's.
SetInv ==
  /\ form = "single" => own[1] = briefLayout
  /\ \A s \in Units : switch[s] # NoTemplate => switch[s] = TemplateFor(s)

\* A report is of the layout the slide is set in, from the time it is made.
ReportInv ==
  stage \in {"resolution", "product", "charged", "built"} =>
    \A s \in Units : report[s].of = TemplateFor(s)

\* A matched photo was nobody's when it was matched.
AutoInv ==
  /\ stage = "resolve" => auto = {}
  /\ \A s \in auto : photo[s] # NoPhoto /\ \A q \in Units \ {s} : photo[q] # photo[s]

\* A slide that a gate is over with is roomy, or the gate will refuse.
GateInv ==
  /\ stage \in {"resolve", "read", "layouts"} => done = {}
  /\ stage = "resolution" =>
       \A s \in done : readAs[s] = "whole" => report[s].roomy \/ small
  /\ stage = "product" =>
       /\ \A s \in Units : readAs[s] = "whole" => report[s].roomy
       /\ \A s \in done : readAs[s] = "cut" => report[s].roomy \/ small
  /\ stage \in {"charged", "built"} =>
       \A s \in Units : readAs[s] \in {"whole", "cut"} => report[s].roomy

BuiltInv ==
  \A s \in 1 .. SLIDES :
    /\ stage \notin {"charged", "built"} => built[s] = "none"
    /\ readAs[s] # "unread" /\ built[s] = "studio" => readAs[s] = "cut"
    /\ readAs[s] # "unread" /\ built[s] = "failed" => s \in uncut

PhotoInv == PhotoTyped /\ SetInv /\ ReportInv /\ AutoInv /\ GateInv /\ BuiltInv

LEMMA UnitsAreSlides ==
  /\ Units \subseteq 1 .. SLIDES
  /\ form = "single" => Units = {1}
  /\ form # "single" => Units = 1 .. SLIDES
  BY PhotoConstants DEF Units

LEMMA PhotoInitOk == PhotoInit => PhotoInv
<1> SUFFICES ASSUME PhotoInit PROVE PhotoInv
  OBVIOUS
<1>1. /\ stage = "resolve" /\ done = {} /\ auto = {}
      /\ \A s \in 1 .. SLIDES : switch[s] = NoTemplate /\ built[s] = "none"
  BY DEF PhotoInit
<1>2. PhotoTyped
  BY DEF PhotoInit, PhotoTyped, LayoutNames, NoReport
<1>3. SetInv
  BY <1>1, UnitsAreSlides DEF PhotoInit, SetInv
<1>4. ReportInv /\ AutoInv /\ GateInv /\ BuiltInv
  BY <1>1 DEF ReportInv, AutoInv, GateInv, BuiltInv
<1> QED
  BY <1>2, <1>3, <1>4 DEF PhotoInv

\* Where a slide's turn leaves the stage.
LEMMA TurnPassed ==
  ASSUME NEW s, NEW which, NEW next, Turn(which, s), Passed(s, which, next),
         PhotoTyped, UNCHANGED form
  PROVE  /\ stage = which /\ s \in Units /\ Units' = Units /\ done' \subseteq Units'
         /\ \/ stage' = next /\ done' = {} /\ done \union {s} = Units
            \/ stage' = which /\ done' = done \union {s}
  BY DEF Turn, Passed, Units, PhotoTyped

\* Moving a slide to a layout moves what it is set in and what the owner is told, and no
\* other slide of the creative.
LEMMA SwitchMoves ==
  ASSUME PhotoTyped, SetInv, NEW s \in Units, NEW template \in LayoutNames \ {NoTemplate},
         SwitchTo(s, template), UNCHANGED form
  PROVE  /\ briefLayout' \in LayoutNames
         /\ own' \in [1 .. SLIDES -> LayoutNames]
         /\ switch' \in [1 .. SLIDES -> LayoutNames \union {NoTemplate}]
         /\ SetInv' /\ Units' = Units
         /\ TemplateFor(s)' = template /\ Measured(s)' = template
         /\ \A q \in Units \ {s} : TemplateFor(q)' = TemplateFor(q)
<1>1. Units \subseteq 1 .. SLIDES /\ Units' = Units /\ s \in 1 .. SLIDES
  BY UnitsAreSlides DEF Units
<1>2. /\ own' = [own EXCEPT ![s] = template] /\ switch' = [switch EXCEPT ![s] = template]
      /\ briefLayout' = IF form = "single" THEN template ELSE briefLayout
  BY DEF SwitchTo, SetTemplate
<1>3. /\ briefLayout' \in LayoutNames
      /\ own' \in [1 .. SLIDES -> LayoutNames]
      /\ switch' \in [1 .. SLIDES -> LayoutNames \union {NoTemplate}]
  BY <1>2 DEF PhotoTyped
<1>4. own'[s] = template /\ switch'[s] = template
  BY <1>1, <1>2 DEF PhotoTyped
<1>5. TemplateFor(s)' = template /\ Measured(s)' = template
  BY <1>2, <1>4 DEF TemplateFor, Measured
<1>6. ASSUME NEW q \in Units \ {s}
      PROVE  TemplateFor(q)' = TemplateFor(q) /\ switch'[q] = switch[q]
  <2>1. form # "single"
    BY <1>6, UnitsAreSlides
  <2>2. own'[q] = own[q] /\ switch'[q] = switch[q] /\ briefLayout' = briefLayout
    BY <1>1, <1>2, <1>6, <2>1 DEF PhotoTyped
  <2> QED
    BY <2>2 DEF TemplateFor
<1>7. form = "single" => s = 1
  BY UnitsAreSlides
<1>8. SetInv'
  BY <1>1, <1>2, <1>4, <1>5, <1>6, <1>7 DEF SetInv
<1> QED
  BY <1>1, <1>3, <1>5, <1>6, <1>8

LEMMA AskedPhotosOk == ASSUME PhotoInv, AskedPhotos PROVE PhotoInv'
<1>1. /\ photo' \in [1 .. SLIDES -> Photos \union {NoPhoto}] /\ stage = "resolve"
      /\ stage' = "match" /\ auto = {} /\ Units' = Units
      /\ UNCHANGED <<form, briefLayout, own, auto, readAs, report, switch, done, small, built, uncut>>
  BY DEF AskedPhotos, PhotoInv, AutoInv, Units
<1>2. PhotoTyped'
  BY <1>1 DEF PhotoInv, PhotoTyped
<1>3. SetInv'
  BY <1>1 DEF PhotoInv, SetInv, TemplateFor
<1>4. ReportInv' /\ AutoInv' /\ GateInv' /\ BuiltInv'
  BY <1>1 DEF PhotoInv, ReportInv, AutoInv, GateInv, BuiltInv
<1> QED
  BY <1>2, <1>3, <1>4 DEF PhotoInv

LEMMA MatchPhotoOk ==
  ASSUME PhotoInv, NEW s \in 1 .. SLIDES, MatchPhoto(s) PROVE PhotoInv'
<1>1. /\ Turn("match", s) /\ Passed(s, "match", "read") /\ PhotoTyped
      /\ UNCHANGED <<form, briefLayout, own, readAs, report, switch, small, built, uncut>>
  BY DEF MatchPhoto, PhotoInv
<1>2. /\ stage = "match" /\ s \in Units /\ Units' = Units /\ done' \subseteq Units'
      /\ stage' \in {"match", "read"}
  BY <1>1, TurnPassed
<1>3. /\ photo' \in [1 .. SLIDES -> Photos \union {NoPhoto}] /\ auto' \subseteq Units
      /\ \A t \in auto' : photo'[t] # NoPhoto /\ \A q \in Units \ {t} : photo'[q] # photo'[t]
  <2>1. CASE photo[s] # NoPhoto
    <3>1. UNCHANGED <<photo, auto>>
      BY <2>1 DEF MatchPhoto
    <3> QED
      BY <3>1, <1>1 DEF PhotoInv, PhotoTyped, AutoInv
  <2>2. CASE photo[s] = NoPhoto
    <3>1. PICK pick \in Untaken \union {NoPhoto} :
            /\ photo' = [photo EXCEPT ![s] = pick]
            /\ auto' = IF pick = NoPhoto THEN auto ELSE auto \union {s}
      BY <2>2 DEF MatchPhoto
    <3>2. /\ pick \in Photos \union {NoPhoto}
          /\ \A q \in Units : pick # NoPhoto => photo[q] # pick
      BY <3>1 DEF Untaken
    <3>3. /\ photo' \in [1 .. SLIDES -> Photos \union {NoPhoto}] /\ auto' \subseteq Units
          /\ photo'[s] = pick
          /\ \A q \in Units : q # s => photo'[q] = photo[q]
      BY <1>1, <1>2, <3>1, <3>2, UnitsAreSlides DEF PhotoTyped
    <3>4. ASSUME NEW t \in auto', NEW q \in Units \ {t}
          PROVE  photo'[t] # NoPhoto /\ photo'[q] # photo'[t]
      <4>1. CASE t = s
        BY <2>2, <3>1, <3>2, <3>3, <3>4, <4>1 DEF PhotoInv, AutoInv
      <4>2. CASE t # s
        <5>1. t \in auto /\ t \in Units /\ photo[t] # NoPhoto /\ photo[q] # photo[t]
          BY <1>1, <3>1, <3>4, <4>2 DEF PhotoInv, AutoInv, PhotoTyped
        <5> QED
          BY <3>2, <3>3, <4>2, <5>1
      <4> QED
        BY <4>1, <4>2
    <3>5. ASSUME NEW t \in auto'
          PROVE  photo'[t] # NoPhoto
      BY <2>2, <3>1, <3>3, <3>5, <1>1 DEF PhotoInv, AutoInv, PhotoTyped
    <3> QED
      BY <3>3, <3>4, <3>5
  <2> QED
    BY <2>1, <2>2
<1>4. PhotoTyped'
  BY <1>1, <1>2, <1>3 DEF PhotoTyped
<1>5. SetInv'
  BY <1>1, <1>2 DEF PhotoInv, SetInv, TemplateFor
<1>6. ReportInv' /\ AutoInv' /\ BuiltInv'
  BY <1>1, <1>2, <1>3 DEF PhotoInv, ReportInv, AutoInv, BuiltInv
<1>7. GateInv'
  <2>1. stage' = "read" => done' = {}
    BY <1>1, TurnPassed
  <2> QED
    BY <1>2, <2>1 DEF GateInv
<1> QED
  BY <1>4, <1>5, <1>6, <1>7 DEF PhotoInv

LEMMA PlanPhotosOk == ASSUME PhotoInv, PlanPhotos PROVE PhotoInv'
<1>1. /\ readAs' \in [1 .. SLIDES -> {"none", "cut", "whole", "unread"}] /\ stage = "read"
      /\ stage' = "choose" /\ Units' = Units
      /\ UNCHANGED <<form, briefLayout, own, photo, auto, report, switch, done, small, built, uncut>>
  BY DEF PlanPhotos, Units
<1>2. PhotoTyped'
  BY <1>1 DEF PhotoInv, PhotoTyped
<1>3. SetInv'
  BY <1>1 DEF PhotoInv, SetInv, TemplateFor
<1>4. ReportInv' /\ AutoInv' /\ GateInv'
  BY <1>1 DEF PhotoInv, ReportInv, AutoInv, GateInv
<1>5. BuiltInv'
  <2>1. \A q \in 1 .. SLIDES : built'[q] = "none"
    BY <1>1 DEF PhotoInv, BuiltInv
  <2> QED
    BY <2>1 DEF BuiltInv
<1> QED
  BY <1>2, <1>3, <1>4, <1>5 DEF PhotoInv

LEMMA PanelsAreLayouts ==
  /\ \A n \in DOMAIN PANEL_TEMPLATES : PANEL_TEMPLATES[n] \in LayoutNames \ {NoTemplate}
  /\ PREFERRED_TEMPLATE \in LayoutNames \ {NoTemplate}
  BY DEF PANEL_TEMPLATES, PREFERRED_TEMPLATE, LayoutNames, TYPE_ZONES, NoTemplate

LEMMA ChooseLayoutOk ==
  ASSUME PhotoInv, NEW s \in 1 .. SLIDES, ChooseLayout(s) PROVE PhotoInv'
<1>1. /\ Turn("choose", s) /\ Passed(s, "choose", "layouts") /\ PhotoTyped /\ SetInv
      /\ UNCHANGED <<form, photo, auto, readAs, report, small, built, uncut>>
  BY DEF ChooseLayout, PhotoInv
<1>2. /\ stage = "choose" /\ s \in Units /\ Units' = Units /\ done' \subseteq Units'
      /\ stage' \in {"choose", "layouts"}
  BY <1>1, TurnPassed
<1>3. \/ \E template \in LayoutNames \ {NoTemplate} : SwitchTo(s, template)
      \/ UNCHANGED <<briefLayout, own, switch>>
  BY PanelsAreLayouts DEF ChooseLayout
<1>4. /\ briefLayout' \in LayoutNames /\ own' \in [1 .. SLIDES -> LayoutNames]
      /\ switch' \in [1 .. SLIDES -> LayoutNames \union {NoTemplate}] /\ SetInv'
  <2>1. CASE UNCHANGED <<briefLayout, own, switch>>
    BY <1>1, <1>2, <2>1 DEF PhotoTyped, SetInv, TemplateFor
  <2>2. CASE \E template \in LayoutNames \ {NoTemplate} : SwitchTo(s, template)
    BY <1>1, <1>2, <2>2, SwitchMoves
  <2> QED
    BY <1>3, <2>1, <2>2
<1>5. PhotoTyped'
  BY <1>1, <1>2, <1>4 DEF PhotoTyped
<1>6. ReportInv' /\ AutoInv' /\ BuiltInv'
  BY <1>1, <1>2 DEF PhotoInv, ReportInv, AutoInv, BuiltInv
<1>7. GateInv'
  <2>1. stage' = "layouts" => done' = {}
    BY <1>1, TurnPassed
  <2> QED
    BY <1>2, <2>1 DEF GateInv
<1> QED
  BY <1>4, <1>5, <1>6, <1>7 DEF PhotoInv

LEMMA MeasureLayoutsOk == ASSUME PhotoInv, MeasureLayouts PROVE PhotoInv'
<1>1. /\ stage = "layouts" /\ Units' = Units /\ PhotoTyped
      /\ UNCHANGED <<form, briefLayout, own, photo, auto, readAs, switch, done, small, built, uncut>>
  BY DEF MeasureLayouts, PhotoInv, Units
<1>2. SetInv'
  BY <1>1 DEF PhotoInv, SetInv, TemplateFor
<1>3. CASE stage' = "refused" /\ UNCHANGED report
  BY <1>1, <1>2, <1>3 DEF PhotoInv, PhotoTyped, ReportInv, AutoInv, GateInv, BuiltInv
<1>4. CASE stage' = "resolution"
  <2>1. PICK roomy \in SUBSET {s \in Units : photo[s] # NoPhoto} :
          report' = [s \in 1 .. SLIDES |->
                       IF s \in Units THEN [of |-> Measured(s), roomy |-> s \in roomy]
                       ELSE NoReport]
    BY <1>4 DEF MeasureLayouts
  <2>2. ASSUME NEW s \in Units
        PROVE  Measured(s) = TemplateFor(s) /\ TemplateFor(s) \in LayoutNames
    BY UnitsAreSlides, <1>1 DEF PhotoInv, PhotoTyped, SetInv, Measured, TemplateFor
  <2>3. PhotoTyped'
    BY <1>1, <2>1, <2>2 DEF PhotoTyped, NoReport
  <2>4. ReportInv'
    BY <1>1, <2>1, <2>2, UnitsAreSlides DEF ReportInv, TemplateFor
  <2>5. done = {}
    BY <1>1 DEF PhotoInv, GateInv
  <2>6. AutoInv' /\ BuiltInv' /\ GateInv'
    BY <1>1, <1>4, <2>5 DEF PhotoInv, AutoInv, GateInv, BuiltInv
  <2> QED
    BY <1>2, <2>3, <2>4, <2>6 DEF PhotoInv
<1> QED
  BY <1>3, <1>4 DEF MeasureLayouts

\* A gate's turn with a slide it is not about, or that is roomy, changes nothing; otherwise
\* the slide is moved and its report is of the new layout, or the gate will refuse.
LEMMA SuitPhotoOk ==
  ASSUME PhotoInv, stage \in {"resolution", "product"}, NEW s \in Units, NEW kind,
         SuitPhoto(s, kind), UNCHANGED <<form, readAs>>
  PROVE  /\ briefLayout' \in LayoutNames /\ own' \in [1 .. SLIDES -> LayoutNames]
         /\ switch' \in [1 .. SLIDES -> LayoutNames \union {NoTemplate}]
         /\ report' \in [1 .. SLIDES -> [of : LayoutNames \union {NoTemplate}, roomy : BOOLEAN]]
         /\ SetInv' /\ Units' = Units
         /\ \A q \in Units : report'[q].of = TemplateFor(q)'
         /\ \A q \in Units : report[q].roomy => report'[q].roomy
         /\ readAs[s] = kind => report'[s].roomy \/ small'
         /\ small => small'
<1>1. /\ PhotoTyped /\ SetInv /\ Units \subseteq 1 .. SLIDES /\ Units' = Units
      /\ \A q \in Units : report[q].of = TemplateFor(q)
  BY UnitsAreSlides DEF PhotoInv, ReportInv, Units
<1>2. CASE UNCHANGED <<briefLayout, own, switch, report>>
  <2>1. \A q \in Units : TemplateFor(q)' = TemplateFor(q)
    BY <1>2 DEF TemplateFor
  <2>2. SetInv'
    BY <1>1, <1>2, <2>1 DEF SetInv
  <2>3. IF readAs[s] # kind \/ report[s].roomy THEN UNCHANGED <<report, small>>
        ELSE UNCHANGED small \/ small' = TRUE
    BY <1>2, Zenon DEF SuitPhoto
  <2>4. small => small'
    BY <2>3, Zenon
  <2>5. \/ readAs[s] # kind \/ report[s].roomy
        \/ report' = [report EXCEPT ![s] = NewReport(s)]
        \/ small' = TRUE
    BY DEF SuitPhoto
  <2>6. readAs[s] = kind => report'[s].roomy \/ small'
    BY <1>1, <1>2, <2>5 DEF NewReport, PhotoTyped
  <2> QED
    BY <1>1, <1>2, <2>1, <2>2, <2>4, <2>6 DEF PhotoTyped
<1>3. CASE ~UNCHANGED <<briefLayout, own, switch, report>>
  <2>1. PICK n \in DOMAIN PANEL_TEMPLATES : SwitchTo(s, PANEL_TEMPLATES[n])
    BY <1>3 DEF SuitPhoto
  <2>2. report' = [report EXCEPT ![s] = NewReport(s)] /\ UNCHANGED small
    BY <1>3 DEF SuitPhoto
  <2> DEFINE template == PANEL_TEMPLATES[n]
  <2>3. template \in LayoutNames \ {NoTemplate}
    BY PanelsAreLayouts
  <2>4. /\ briefLayout' \in LayoutNames /\ own' \in [1 .. SLIDES -> LayoutNames]
        /\ switch' \in [1 .. SLIDES -> LayoutNames \union {NoTemplate}]
        /\ SetInv' /\ TemplateFor(s)' = template /\ Measured(s)' = template
        /\ \A q \in Units \ {s} : TemplateFor(q)' = TemplateFor(q)
    BY <1>1, <2>1, <2>3, SwitchMoves
  <2>5. NewReport(s) = [of |-> template, roomy |-> TRUE]
    BY <2>4 DEF NewReport
  <2>6. report' = [report EXCEPT ![s] = [of |-> template, roomy |-> TRUE]]
    BY <2>2, <2>5
  <2> HIDE DEF template
  <2>7. /\ report' \in [1 .. SLIDES -> [of : LayoutNames \union {NoTemplate}, roomy : BOOLEAN]]
        /\ report'[s] = [of |-> template, roomy |-> TRUE]
        /\ \A q \in Units \ {s} : report'[q] = report[q]
    BY <1>1, <2>3, <2>6 DEF PhotoTyped
  <2> QED
    BY <1>1, <2>2, <2>4, <2>7
<1> QED
  BY <1>2, <1>3

\* A gate that fails or refuses ends the job.
LEMMA RefusedOk ==
  ASSUME PhotoInv, stage' = "refused", PhotoTyped', SetInv',
         UNCHANGED <<form, photo, auto, readAs, built, uncut>>, stage \notin {"charged", "built"}
  PROVE  PhotoInv'
<1>1. Units' = Units
  BY DEF Units
<1>2. ReportInv' /\ GateInv'
  BY DEF ReportInv, GateInv
<1>3. AutoInv' /\ BuiltInv'
  BY <1>1 DEF PhotoInv, AutoInv, BuiltInv
<1> QED
  BY <1>2, <1>3 DEF PhotoInv

\* Both gates: after a turn of `which`, which is about photos of `kind`, comes `next`.
LEMMA GateOk ==
  ASSUME PhotoInv, NEW s \in 1 .. SLIDES,
         NEW which, NEW kind, NEW next,
         \/ which = "resolution" /\ kind = "whole" /\ next = "product"
         \/ which = "product" /\ kind = "cut" /\ next = "charged",
         Turn(which, s), UNCHANGED <<form, photo, auto, readAs, built, uncut>>,
         \/ SuitPhoto(s, kind) /\ Passed(s, which, IF small' THEN "refused" ELSE next)
         \/ stage' = "refused" /\ UNCHANGED <<briefLayout, own, switch, report, small, done>>
  PROVE  PhotoInv'
<1>1. /\ stage = which /\ stage \in {"resolution", "product"} /\ s \in Units /\ Units' = Units
      /\ PhotoTyped /\ SetInv
  BY DEF Turn, Units, PhotoInv
<1>2. CASE stage' = "refused" /\ UNCHANGED <<briefLayout, own, switch, report, small, done>>
  <2>1. PhotoTyped'
    BY <1>1, <1>2 DEF PhotoTyped
  <2>2. SetInv'
    BY <1>1, <1>2 DEF SetInv, TemplateFor
  <2> QED
    BY <1>1, <1>2, <2>1, <2>2, RefusedOk
<1>3. CASE SuitPhoto(s, kind) /\ Passed(s, which, IF small' THEN "refused" ELSE next)
  <2>1. /\ briefLayout' \in LayoutNames /\ own' \in [1 .. SLIDES -> LayoutNames]
        /\ switch' \in [1 .. SLIDES -> LayoutNames \union {NoTemplate}]
        /\ report' \in [1 .. SLIDES -> [of : LayoutNames \union {NoTemplate}, roomy : BOOLEAN]]
        /\ SetInv'
        /\ \A q \in Units : report'[q].of = TemplateFor(q)'
        /\ \A q \in Units : report[q].roomy => report'[q].roomy
        /\ readAs[s] = kind => report'[s].roomy \/ small'
        /\ small => small'
    BY <1>1, <1>3, SuitPhotoOk
  <2>2. /\ done' \subseteq Units
        /\ \/ stage' = (IF small' THEN "refused" ELSE next) /\ done' = {} /\ done \union {s} = Units
           \/ stage' = which /\ done' = done \union {s}
    BY <1>1, <1>3, TurnPassed
  <2>3. PhotoTyped'
    BY <1>1, <2>1, <2>2 DEF PhotoTyped
  \* What the gate has been over with so far.
  <2>4. \A q \in done \union {s} : readAs[q] = kind => report'[q].roomy \/ small'
    BY <1>1, <2>1 DEF PhotoInv, GateInv, PhotoTyped
  <2>5. which = "product" => \A q \in Units : readAs[q] = "whole" => report'[q].roomy
    BY <1>1, <2>1 DEF PhotoInv, GateInv
  <2>6. CASE stage' = "refused"
    BY <1>1, <2>1, <2>3, <2>6, RefusedOk
  <2>7. CASE stage' # "refused"
    <3>1. ReportInv' /\ AutoInv'
      BY <1>1, <2>1, <2>2, <2>7 DEF PhotoInv, ReportInv, AutoInv
    <3>2. GateInv'
      BY <1>1, <2>2, <2>4, <2>5, <2>7 DEF GateInv
    <3>3. BuiltInv'
      <4>1. \A q \in 1 .. SLIDES : built'[q] = "none"
        BY <1>1 DEF PhotoInv, BuiltInv
      <4> QED
        BY <4>1 DEF BuiltInv
    <3> QED
      BY <2>1, <2>3, <3>1, <3>2, <3>3 DEF PhotoInv
  <2> QED
    BY <2>6, <2>7
<1> QED
  BY <1>2, <1>3

LEMMA BuildOneOk ==
  ASSUME PhotoInv, NEW s \in 1 .. SLIDES, BuildOne(s) PROVE PhotoInv'
<1>1. /\ Turn("charged", s) /\ Passed(s, "charged", "built") /\ PhotoTyped
      /\ UNCHANGED <<form, briefLayout, own, photo, auto, readAs, report, switch, small>>
  BY DEF BuildOne, PhotoInv
<1>2. /\ stage = "charged" /\ s \in Units /\ Units' = Units /\ done' \subseteq Units'
      /\ stage' \in {"charged", "built"}
  BY <1>1, TurnPassed
<1>3. readAs[s] \in {"none", "cut", "whole", "unread"} /\ (readAs[s] = "whole" => report[s].roomy)
  BY <1>1, <1>2 DEF PhotoInv, PhotoTyped, GateInv
<1>4. PICK what \in {"generated", "studio", "photo", "failed"} :
        /\ built' = [built EXCEPT ![s] = what] /\ uncut' \in {uncut, uncut \union {s}}
        /\ readAs[s] # "unread" /\ what = "studio" => readAs[s] = "cut"
        /\ readAs[s] # "unread" /\ what = "failed" => uncut' = uncut \union {s}
  <2>1. PICK as \in IF readAs[s] = "unread" THEN {"cut", "whole", "lost"} ELSE {readAs[s]} :
          IF as = "cut" THEN
            \/ built' = [built EXCEPT ![s] = "studio"] /\ UNCHANGED uncut
            \/ UsedWhole(s) /\ uncut' = uncut \union {s}
          ELSE /\ CASE as = "none" -> built' = [built EXCEPT ![s] = "generated"]
                   [] as = "whole" -> UsedWhole(s)
                   [] OTHER -> built' = [built EXCEPT ![s] = "failed"]
               /\ UNCHANGED uncut
    BY DEF BuildOne
  <2>2. ASSUME UsedWhole(s)
        PROVE  /\ \E what \in {"photo", "failed"} : built' = [built EXCEPT ![s] = what]
               /\ readAs[s] = "whole" => built' = [built EXCEPT ![s] = "photo"]
    BY <1>3, <2>2 DEF UsedWhole
  <2>3. CASE as = "cut"
    <3>1. readAs[s] \in {"cut", "unread"}
      BY <1>3, <2>1, <2>3
    <3> QED
      BY <2>1, <2>2, <2>3, <3>1
  <2>4. CASE as = "whole"
    <3>1. readAs[s] \in {"whole", "unread"} /\ UsedWhole(s) /\ UNCHANGED uncut
      BY <1>3, <2>1, <2>4
    <3> QED
      BY <2>2, <3>1
  <2>5. CASE as = "none"
    BY <2>1, <2>5
  <2>6. CASE as = "lost"
    <3>1. readAs[s] = "unread"
      BY <1>3, <2>1, <2>6
    <3> QED
      BY <2>1, <2>6, <3>1
  <2> QED
    BY <1>3, <2>1, <2>3, <2>4, <2>5, <2>6
<1>5. /\ built' \in [1 .. SLIDES -> {"none", "generated", "studio", "photo", "failed"}]
      /\ \A q \in 1 .. SLIDES : built'[q] = IF q = s THEN what ELSE built[q]
  BY <1>1, <1>4 DEF PhotoTyped
<1>6. PhotoTyped'
  BY <1>1, <1>2, <1>5 DEF PhotoTyped
<1>7. SetInv' /\ ReportInv'
  BY <1>1, <1>2 DEF PhotoInv, SetInv, ReportInv, TemplateFor
<1>8. AutoInv' /\ GateInv'
  BY <1>1, <1>2 DEF PhotoInv, AutoInv, GateInv
<1>9. BuiltInv'
  BY <1>1, <1>2, <1>4, <1>5 DEF PhotoInv, BuiltInv
<1> QED
  BY <1>6, <1>7, <1>8, <1>9 DEF PhotoInv

LEMMA PhotoStepOk == PhotoInv /\ [PhotoNext]_photoVars => PhotoInv'
<1> SUFFICES ASSUME PhotoInv, [PhotoNext]_photoVars PROVE PhotoInv'
  OBVIOUS
<1>1. CASE UNCHANGED photoVars
  <2>1. Units' = Units
    BY <1>1 DEF photoVars, Units
  <2>2. PhotoTyped' /\ ReportInv'
    BY <1>1, <2>1 DEF photoVars, PhotoInv, PhotoTyped, ReportInv, TemplateFor
  <2>3. SetInv'
    BY <1>1, <2>1 DEF photoVars, PhotoInv, SetInv, TemplateFor
  <2>4. AutoInv' /\ GateInv' /\ BuiltInv'
    BY <1>1, <2>1 DEF photoVars, PhotoInv, AutoInv, GateInv, BuiltInv
  <2> QED
    BY <2>2, <2>3, <2>4 DEF PhotoInv
<1>2. ASSUME NEW s \in 1 .. SLIDES, ResolutionGate(s) \/ ProductGate(s)
      PROVE  PhotoInv'
  <2>1. CASE ResolutionGate(s)
    BY <2>1, GateOk DEF ResolutionGate
  <2>2. CASE ProductGate(s)
    BY <2>2, GateOk DEF ProductGate
  <2> QED
    BY <1>2, <2>1, <2>2
<1> QED
  BY <1>1, <1>2, AskedPhotosOk, PlanPhotosOk, MeasureLayoutsOk, MatchPhotoOk, ChooseLayoutOk,
     BuildOneOk DEF PhotoNext

LEMMA PhotosPromised == PhotoInv => PhotosAsPromised
<1> SUFFICES ASSUME PhotoInv, stage \in {"charged", "built"}, NEW s \in Units
             PROVE  /\ report[s].of = TemplateFor(s)
                    /\ switch[s] # NoTemplate => switch[s] = TemplateFor(s)
                    /\ readAs[s] # "unread" /\ built[s] = "studio" => report[s].roomy
                    /\ readAs[s] # "unread" /\ built[s] = "failed" => s \in uncut
                    /\ s \in auto => \A q \in Units \ {s} : photo[q] # photo[s]
  BY DEF PhotosAsPromised
<1>1. s \in 1 .. SLIDES
  BY UnitsAreSlides
<1> QED
  BY <1>1 DEF PhotoInv, SetInv, ReportInv, AutoInv, GateInv, BuiltInv

\* What is decided of a slide before the charge is what is built after it, and only what
\* the measurements and the inspector passed leaves the final look, bought for when nothing
\* free would do (pipeline.py: generate, _photo_resolution_gate, _product_size_gate,
\* _final_check), for any number of slides, photos and layouts.
THEOREM SlidesComeAsPromised == Spec => []SlidesAsPromised
<1>1. PhotoInv /\ CheckInv => SlidesAsPromised
  BY PhotosPromised, LookPromised DEF SlidesAsPromised
<1> QED
  BY <1>1, PartsInit, PartsStep, PhotoInitOk, PhotoStepOk, CheckInitOk, CheckStepOk, PTL DEF Spec

-----------------------------------------------------------------------------
(* A call of an image vendor. *)

\* A try is used up only by a blip.
VendorInv ==
  /\ tries \in Nat /\ blips \in Nat /\ tries <= blips
  /\ BlipsSurvived

LEMMA VendorInitOk == VendorInit => VendorInv
  BY DEF VendorInit, VendorInv, BlipsSurvived

LEMMA VendorStepOk == VendorInv /\ [VendorNext]_vendorVars => VendorInv'
<1> SUFFICES ASSUME VendorInv, [VendorNext]_vendorVars PROVE VendorInv'
  OBVIOUS
<1>1. SUBMIT_ATTEMPTS \in Nat \ {0} /\ GET_ATTEMPTS \in Nat \ {0}
  BY VendorConstants
<1>2. CASE SubmitLost
  <2>1. /\ blips' = blips + 1 /\ tries' = tries + 1
        /\ at' = IF tries + 1 < SUBMIT_ATTEMPTS THEN "submit" ELSE "failed"
    BY <1>2 DEF SubmitLost, Blip, SubmitAgain, MoreSubmits
  <2> QED
    BY <1>1, <2>1 DEF VendorInv, BlipsSurvived
<1>3. CASE GetLost
  <2>1. /\ blips' = blips + 1 /\ at # "failed"
        /\ \/ tries' = tries + 1 /\ at' = at
           \/ tries + 1 >= GET_ATTEMPTS /\ tries' = tries
    BY <1>1, <1>3 DEF GetLost, Blip, MoreGets, VendorInv
  <2> QED
    BY <1>1, <2>1 DEF VendorInv, BlipsSurvived
<1>4. CASE Submitted \/ PolledEarly \/ PolledReady
  <2>1. blips' = blips /\ tries' = 0 /\ (at' = "failed" => slow' = TRUE)
    BY <1>4 DEF Submitted, PolledEarly, PolledReady
  <2>2. slow' = TRUE => slow'
    BY Zenon
  <2> QED
    BY <2>1, <2>2 DEF VendorInv, BlipsSurvived
<1>5. CASE SubmitRefused \/ PolledFailed \/ Fetched \/ OverBudget
  <2>1. /\ blips' = blips /\ tries' = tries
        /\ at' = "failed" => bad' = TRUE \/ slow' = TRUE
    BY <1>5 DEF SubmitRefused, PolledFailed, Fetched, OverBudget
  <2>2. (slow' = TRUE => slow') /\ (bad' = TRUE => bad')
    BY Zenon
  <2> QED
    BY <2>1, <2>2 DEF VendorInv, BlipsSurvived
<1>6. CASE UNCHANGED vendorVars
  BY <1>6 DEF vendorVars, VendorInv, BlipsSurvived
<1> QED
  BY <1>2, <1>3, <1>4, <1>5, <1>6 DEF VendorNext

-----------------------------------------------------------------------------
(* The browser that all renders share. *)

Steps == {"queued", "launching", "laying", "reading", "done", "refused", "failed"}

BrowserTyped ==
  /\ browser \in Nat /\ launches \in Nat /\ crashes \in Nat /\ hiccups \in Nat
  /\ chromiums \subseteq Nat
  /\ step \in [Renders -> Steps] /\ go \in [Renders -> Nat] /\ page \in [Renders -> Nat]
  /\ need \in [Renders -> Int] /\ plate \in [Renders -> Int] /\ laid \in [Renders -> Int]
  /\ round \in [Renders -> Int] /\ why \in [Renders -> {"nothing", "font", "copy", "mark", "contrast"}]

\* The one that may be alive is the handle's; nothing is alive while one is launched, and
\* the driver alive is the handle's or the one that the launch has started.
LaunchInv ==
  /\ 0 \notin chromiums /\ chromiums \subseteq {browser}
  /\ \A r \in Renders : step[r] = "launching" <=> lock = r
  /\ lock = NoRender => drivers \subseteq {driver}
  /\ lock # NoRender => /\ lock \in Renders /\ chromiums = {} /\ drivers \subseteq {launches}
                        /\ page[lock] = launches /\ launches >= 1

\* As long as nothing but Chromium itself has failed: every launch came up, all of them but
\* the last have died, and who is on its second go is not on the first one's page.
DeathInv ==
  hiccups = 0 =>
    /\ browser = IF lock = NoRender THEN launches ELSE launches - 1
    /\ crashes = IF browser \in chromiums THEN browser - 1 ELSE browser
    /\ \A r \in Renders :
         /\ step[r] \in {"laying", "reading"} => 1 <= page[r] /\ page[r] <= browser
         /\ go[r] # 1 => /\ browser >= 1 /\ 1 \notin chromiums
                         /\ step[r] \in {"laying", "reading"} => page[r] >= 2
         /\ step[r] = "failed" => crashes > 1

\* A plate is as strong as its words need, or as strong as it can be, after one reading.
Legible(r) ==
  /\ step[r] = "done" /\ purpose = "compose" => laid[r] >= need[r] - SLACK
  /\ step[r] = "refused" /\ why[r] = "contrast" => need[r] > FULL + SLACK
  /\ step[r] = "reading" /\ round[r] # 0 => plate[r] >= need[r] - SLACK \/ plate[r] >= FULL

BrowserInv ==
  BrowserTyped /\ LaunchInv /\ DeathInv /\ \A r \in Renders : Legible(r)

LEMMA BrowserNumbers ==
  /\ NoRender \notin Renders /\ LEGIBILITY_ROUNDS \in Nat \ {0}
  /\ FULL \in Nat /\ SLACK \in Nat
  BY BrowserConstants

LEMMA BrowserInitOk == BrowserInit => BrowserInv
<1> SUFFICES ASSUME BrowserInit PROVE BrowserInv
  OBVIOUS
<1>1. BrowserTyped
  BY DEF BrowserInit, BrowserTyped, Steps
<1>2. \A r \in Renders : step[r] = "queued" /\ go[r] = 1
  BY DEF BrowserInit
<1>3. LaunchInv /\ DeathInv
  BY <1>2, BrowserNumbers DEF BrowserInit, LaunchInv, DeathInv
<1>4. \A r \in Renders : Legible(r)
  BY <1>2 DEF Legible
<1> QED
  BY <1>1, <1>3, <1>4 DEF BrowserInv

\* What a render's own step leaves as it was: everything of the other renders.
OthersStay(r) ==
  \A q \in Renders \ {r} :
    /\ step'[q] = step[q] /\ go'[q] = go[q] /\ page'[q] = page[q] /\ why'[q] = why[q]
    /\ need'[q] = need[q] /\ plate'[q] = plate[q] /\ laid'[q] = laid[q] /\ round'[q] = round[q]

LEMMA OthersLegible ==
  ASSUME BrowserInv, NEW r \in Renders, OthersStay(r), UNCHANGED purpose, Legible(r)'
  PROVE  \A q \in Renders : Legible(q)'
  BY DEF BrowserInv, OthersStay, Legible

LEMMA GetBrowserOk == ASSUME BrowserInv, NEW r \in Renders, GetBrowser(r) PROVE BrowserInv'
<1>1. /\ step[r] = "queued" /\ lock = NoRender /\ browser \in chromiums
      /\ step' = [step EXCEPT ![r] = "laying"] /\ page' = [page EXCEPT ![r] = browser]
      /\ UNCHANGED <<purpose, browser, driver, chromiums, drivers, lock, launches, go, need,
                     plate, laid, round, why, crashes, hiccups>>
  BY DEF GetBrowser, GetLock, IsConnected, handles, readings
<1>2. BrowserTyped' /\ step'[r] = "laying" /\ page'[r] = browser /\ OthersStay(r)
  BY <1>1 DEF BrowserInv, BrowserTyped, Steps, OthersStay
<1>3. LaunchInv'
  BY <1>1, <1>2, BrowserNumbers DEF BrowserInv, LaunchInv, OthersStay
<1>4. browser \in Nat /\ browser # 0
  BY <1>1 DEF BrowserInv, BrowserTyped, LaunchInv
<1>5. DeathInv'
  BY <1>1, <1>2, <1>4 DEF BrowserInv, DeathInv, OthersStay
<1>6. Legible(r)'
  BY <1>2 DEF Legible
<1> QED
  BY <1>1, <1>2, <1>3, <1>5, <1>6, OthersLegible DEF BrowserInv

LEMMA LaunchBeginsOk == ASSUME BrowserInv, NEW r \in Renders, LaunchBegins(r) PROVE BrowserInv'
<1>1. /\ step[r] = "queued" /\ lock = NoRender /\ browser \notin chromiums
      /\ lock' = r /\ launches' = launches + 1 /\ driver' = 0
      /\ drivers' = (drivers \ {driver}) \union {launches'}
      /\ step' = [step EXCEPT ![r] = "launching"] /\ page' = [page EXCEPT ![r] = launches']
      /\ UNCHANGED <<purpose, browser, chromiums, go, need, plate, laid, round, why, crashes,
                     hiccups>>
  BY DEF LaunchBegins, GetLock, IsConnected, readings
<1>2. launches \in Nat /\ launches' \in Nat /\ launches' >= 1
  BY <1>1 DEF BrowserInv, BrowserTyped
<1>3. BrowserTyped' /\ step'[r] = "launching" /\ page'[r] = launches' /\ OthersStay(r)
  BY <1>1, <1>2 DEF BrowserInv, BrowserTyped, Steps, OthersStay
<1>4. chromiums = {} /\ drivers' \subseteq {launches'}
  BY <1>1 DEF BrowserInv, LaunchInv
<1>5. LaunchInv'
  BY <1>1, <1>2, <1>3, <1>4, BrowserNumbers DEF BrowserInv, LaunchInv, OthersStay
<1>6. r # NoRender
  BY BrowserNumbers
<1>7. DeathInv'
  BY <1>1, <1>2, <1>3, <1>6 DEF BrowserInv, DeathInv, OthersStay
<1>8. Legible(r)'
  BY <1>3 DEF Legible
<1> QED
  BY <1>1, <1>3, <1>5, <1>7, <1>8, OthersLegible DEF BrowserInv

LEMMA LaunchedOk == ASSUME BrowserInv, NEW r \in Renders, Launched(r) PROVE BrowserInv'
<1>1. /\ step[r] = "launching" /\ lock' = NoRender
      /\ browser' = page[r] /\ driver' = page[r] /\ chromiums' = chromiums \union {page[r]}
      /\ step' = [step EXCEPT ![r] = "laying"]
      /\ UNCHANGED <<purpose, drivers, launches, go, page, need, plate, laid, round, why,
                     crashes, hiccups>>
  BY DEF Launched, readings
<1>2. lock = r /\ lock # NoRender
  BY <1>1, BrowserNumbers DEF BrowserInv, LaunchInv
<1>3. /\ page[r] = launches /\ launches >= 1 /\ chromiums = {} /\ drivers \subseteq {launches}
      /\ launches \in Nat
  BY <1>2 DEF BrowserInv, LaunchInv, BrowserTyped
<1>4. browser' = launches /\ chromiums' = {launches} /\ driver' = launches
  BY <1>1, <1>3
<1>5. BrowserTyped' /\ step'[r] = "laying" /\ page'[r] = launches /\ OthersStay(r)
  BY <1>1, <1>3, <1>4 DEF BrowserInv, BrowserTyped, Steps, OthersStay
<1>6. LaunchInv'
  BY <1>1, <1>2, <1>3, <1>4, <1>5, BrowserNumbers DEF BrowserInv, LaunchInv, OthersStay
<1>7. DeathInv'
  <2> SUFFICES ASSUME hiccups' = 0 PROVE DeathInv'
    BY DEF DeathInv
  <2>1. browser = launches - 1 /\ crashes = browser /\ browser \in Nat
    BY <1>1, <1>2, <1>3 DEF BrowserInv, BrowserTyped, DeathInv
  <2> QED
    BY <1>1, <1>2, <1>3, <1>4, <1>5, <2>1 DEF BrowserInv, BrowserTyped, DeathInv, OthersStay
<1>8. Legible(r)'
  BY <1>5 DEF Legible
<1> QED
  BY <1>1, <1>5, <1>6, <1>7, <1>8, OthersLegible DEF BrowserInv

\* After a death the render is queued for its second go, or has failed.
LEMMA AfterDeathOk ==
  ASSUME BrowserTyped, NEW r \in Renders, AfterDeath(r)
  PROVE  /\ step' \in [Renders -> Steps] /\ go' \in [Renders -> Nat]
         /\ \/ go[r] <= 1 /\ step'[r] = "queued" /\ go'[r] = go[r] + 1
            \/ go[r] > 1 /\ step'[r] = "failed" /\ go'[r] = go[r]
         /\ \A q \in Renders \ {r} : step'[q] = step[q] /\ go'[q] = go[q]
<1>1. go[r] \in Nat
  BY DEF BrowserTyped
<1>2. CASE go[r] <= 1
  <2>1. step' = [step EXCEPT ![r] = "queued"] /\ go' = [go EXCEPT ![r] = go[r] + 1]
    BY <1>2 DEF AfterDeath, CrashesSurvived
  <2> QED
    BY <1>1, <1>2, <2>1 DEF BrowserTyped, Steps
<1>3. CASE ~(go[r] <= 1)
  <2>1. step' = [step EXCEPT ![r] = "failed"] /\ go' = go
    BY <1>3 DEF AfterDeath, CrashesSurvived
  <2> QED
    BY <1>1, <1>3, <2>1 DEF BrowserTyped, Steps
<1> QED
  BY <1>2, <1>3

LEMMA LaunchFailsOk == ASSUME BrowserInv, NEW r \in Renders, LaunchFails(r) PROVE BrowserInv'
<1>1. /\ step[r] = "launching" /\ hiccups' = hiccups + 1
      /\ drivers' = drivers \ {page[r]} /\ lock' = NoRender
      /\ page' = [page EXCEPT ![r] = 0]
      /\ UNCHANGED <<purpose, browser, driver, chromiums, launches, need, plate, laid, round, why,
                     crashes>>
  BY DEF LaunchFails, ClosePage, readings
<1>2. /\ step' \in [Renders -> Steps] /\ go' \in [Renders -> Nat]
      /\ step'[r] \in {"queued", "failed"}
      /\ \A q \in Renders \ {r} : step'[q] = step[q] /\ go'[q] = go[q]
  <2>1. CASE AfterDeath(r)
    BY <2>1, AfterDeathOk DEF BrowserInv
  <2>2. CASE step' = [step EXCEPT ![r] = "failed"] /\ UNCHANGED go
    BY <2>2 DEF BrowserInv, BrowserTyped, Steps
  <2> QED
    BY <2>1, <2>2 DEF LaunchFails
<1>3. BrowserTyped' /\ OthersStay(r)
  <2>1. /\ page' \in [Renders -> Nat] /\ hiccups' \in Nat
        /\ \A q \in Renders \ {r} : page'[q] = page[q]
    BY <1>1 DEF BrowserInv, BrowserTyped
  <2>2. BrowserTyped'
    BY <1>1, <1>2, <2>1 DEF BrowserInv, BrowserTyped
  <2>3. OthersStay(r)
    BY <1>1, <1>2, <2>1 DEF OthersStay
  <2> QED
    BY <2>2, <2>3
<1>4. lock = r /\ lock # NoRender
  BY <1>1, BrowserNumbers DEF BrowserInv, LaunchInv
<1>5. LaunchInv'
  BY <1>1, <1>2, <1>3, <1>4, BrowserNumbers DEF BrowserInv, LaunchInv, OthersStay
<1>6. DeathInv'
  BY <1>1 DEF BrowserInv, BrowserTyped, DeathInv
<1>7. Legible(r)'
  BY <1>2 DEF Legible
<1> QED
  BY <1>1, <1>3, <1>5, <1>6, <1>7, OthersLegible DEF BrowserInv

LEMMA CrashOk == ASSUME BrowserInv, Crash PROVE BrowserInv'
<1>1. /\ crashes' = crashes + 1
      /\ UNCHANGED <<purpose, browser, driver, drivers, lock, launches, step, go, page, need, plate,
                     laid, round, why, hiccups>>
  BY DEF Crash, readings
<1>2. PICK b \in chromiums : chromiums' = chromiums \ {b}
  BY DEF Crash
<1>3. browser \in chromiums /\ chromiums' = {}
  BY <1>2 DEF BrowserInv, LaunchInv
<1>4. BrowserTyped'
  BY <1>1, <1>3 DEF BrowserInv, BrowserTyped
<1>5. LaunchInv'
  BY <1>1, <1>3 DEF BrowserInv, LaunchInv
<1>6. DeathInv'
  BY <1>1, <1>3 DEF BrowserInv, BrowserTyped, DeathInv
<1>7. \A r \in Renders : Legible(r)'
  BY <1>1 DEF BrowserInv, Legible
<1> QED
  BY <1>4, <1>5, <1>6, <1>7 DEF BrowserInv

\* A frame that is given up is forgotten.
LEMMA Forgotten ==
  ASSUME BrowserTyped, NEW r \in Renders, ClosePage(r), ForgetFrame(r)
  PROVE  /\ page' \in [Renders -> Nat] /\ need' \in [Renders -> Int] /\ plate' \in [Renders -> Int]
         /\ laid' \in [Renders -> Int] /\ round' \in [Renders -> Int]
         /\ \A q \in Renders \ {r} :
              /\ page'[q] = page[q] /\ need'[q] = need[q] /\ plate'[q] = plate[q]
              /\ laid'[q] = laid[q] /\ round'[q] = round[q]
  BY DEF BrowserTyped, ClosePage, ForgetFrame

LEMMA CaughtMidCrashOk ==
  ASSUME BrowserInv, NEW r \in Renders, CaughtMidCrash(r) PROVE BrowserInv'
<1>1. /\ step[r] \in {"laying", "reading"} /\ page[r] \notin chromiums
      /\ AfterDeath(r) /\ ClosePage(r) /\ ForgetFrame(r) /\ BrowserTyped
      /\ UNCHANGED <<purpose, browser, driver, chromiums, drivers, lock, launches, why, crashes,
                     hiccups>>
  BY DEF CaughtMidCrash, Open, handles, BrowserInv
<1>2. /\ step' \in [Renders -> Steps] /\ go' \in [Renders -> Nat]
      /\ \/ go[r] <= 1 /\ step'[r] = "queued" /\ go'[r] = go[r] + 1
         \/ go[r] > 1 /\ step'[r] = "failed" /\ go'[r] = go[r]
      /\ \A q \in Renders \ {r} : step'[q] = step[q] /\ go'[q] = go[q]
  BY <1>1, AfterDeathOk
<1>3. BrowserTyped' /\ OthersStay(r)
  BY <1>1, <1>2, Forgotten DEF BrowserTyped, OthersStay
<1>4. LaunchInv'
  BY <1>1, <1>2, <1>3 DEF BrowserInv, LaunchInv, OthersStay
<1>5. DeathInv'
  <2> SUFFICES ASSUME hiccups' = 0 PROVE DeathInv'
    BY DEF DeathInv
  <2>1. hiccups = 0 /\ DeathInv
    BY <1>1 DEF BrowserInv
  <2>2. /\ browser \in Nat /\ page[r] \in Nat /\ go[r] \in Nat /\ crashes \in Nat
        /\ 1 <= page[r] /\ page[r] <= browser
        /\ go[r] # 1 => page[r] >= 2
        /\ crashes = IF browser \in chromiums THEN browser - 1 ELSE browser
    BY <1>1, <2>1 DEF BrowserTyped, DeathInv
  \* The page was of a browser that is dead: the second death at least, on a second go.
  <2>3. step'[r] = "failed" => crashes > 1
    <3>1. CASE browser \in chromiums
      <4>1. page[r] # browser
        BY <1>1, <3>1
      <4> QED
        BY <1>2, <2>2, <3>1, <4>1
    <3>2. CASE browser \notin chromiums
      BY <1>2, <2>2, <3>2
    <3> QED
      BY <3>1, <3>2
  <2>4. browser >= 1 /\ 1 \notin chromiums
    <3>1. browser = 1 => browser = page[r]
      BY <2>2
    <3> QED
      BY <1>1, <2>2, <3>1 DEF BrowserInv, LaunchInv
  <2> QED
    BY <1>1, <1>2, <1>3, <2>1, <2>3, <2>4 DEF DeathInv, OthersStay
<1>6. Legible(r)'
  BY <1>2 DEF Legible
<1> QED
  BY <1>1, <1>3, <1>4, <1>5, <1>6, OthersLegible DEF BrowserInv

LEMMA PageCrashesOk == ASSUME BrowserInv, NEW r \in Renders, PageCrashes(r) PROVE BrowserInv'
<1>1. /\ step[r] \in {"laying", "reading"} /\ hiccups' = hiccups + 1
      /\ step' = [step EXCEPT ![r] = "failed"] /\ ClosePage(r) /\ ForgetFrame(r) /\ BrowserTyped
      /\ UNCHANGED <<purpose, browser, driver, chromiums, drivers, lock, launches, go, why, crashes>>
  BY DEF PageCrashes, Open, handles, BrowserInv
<1>2. BrowserTyped' /\ OthersStay(r) /\ step'[r] = "failed"
  BY <1>1, Forgotten DEF BrowserTyped, OthersStay, Steps
<1>3. LaunchInv'
  BY <1>1, <1>2 DEF BrowserInv, LaunchInv, OthersStay
<1>4. DeathInv'
  BY <1>1 DEF BrowserTyped, DeathInv
<1>5. Legible(r)'
  BY <1>2 DEF Legible
<1> QED
  BY <1>1, <1>2, <1>3, <1>4, <1>5, OthersLegible DEF BrowserInv

\* A render that ends without having failed leaves the browser as it was.
LEMMA EndedOk ==
  ASSUME BrowserInv, NEW r \in Renders, step[r] \in {"laying", "reading"},
         step'[r] \in {"done", "refused", "reading"}, page'[r] \in {0, page[r]},
         step'[r] = "reading" => page'[r] = page[r],
         BrowserTyped', OthersStay(r), Legible(r)', go'[r] = go[r],
         UNCHANGED <<purpose, handles, crashes, hiccups>>
  PROVE  BrowserInv'
<1>1. UNCHANGED <<browser, driver, chromiums, drivers, lock, launches>>
  BY DEF handles
<1>2. LaunchInv'
  BY <1>1 DEF BrowserInv, LaunchInv, OthersStay
<1>3. DeathInv'
  BY <1>1 DEF BrowserInv, DeathInv, OthersStay
<1> QED
  BY <1>2, <1>3, OthersLegible DEF BrowserInv

LEMMA LayoutRefusedOk == ASSUME BrowserInv, NEW r \in Renders, LayoutRefused(r) PROVE BrowserInv'
<1>1. PICK about \in {"font", "copy", "mark"} : Refuse(r, about)
  BY DEF LayoutRefused
<1>2. /\ step[r] = "laying" /\ step' = [step EXCEPT ![r] = "refused"]
      /\ why' = [why EXCEPT ![r] = about] /\ page' = [page EXCEPT ![r] = 0]
      /\ UNCHANGED <<purpose, handles, go, need, plate, laid, round, crashes, hiccups>>
  BY <1>1 DEF LayoutRefused, Refuse, ClosePage, readings
<1>3. /\ BrowserTyped' /\ OthersStay(r) /\ step'[r] = "refused" /\ why'[r] = about
      /\ page'[r] = 0
  BY <1>2 DEF BrowserInv, BrowserTyped, OthersStay, Steps, handles
<1>4. Legible(r)'
  BY <1>3 DEF Legible
<1> QED
  BY <1>2, <1>3, <1>4, EndedOk

LEMMA LaidOk == ASSUME BrowserInv, NEW r \in Renders, Laid(r) PROVE BrowserInv'
<1>1. step[r] = "laying" /\ UNCHANGED <<purpose, handles, go, why, crashes, hiccups>>
  BY DEF Laid
<1>2. CASE purpose = "check"
  <2>1. /\ step' = [step EXCEPT ![r] = "done"] /\ page' = [page EXCEPT ![r] = 0]
        /\ UNCHANGED <<need, plate, laid, round>>
    BY <1>2 DEF Laid, ClosePage, readings
  <2>2. BrowserTyped' /\ OthersStay(r) /\ step'[r] = "done" /\ page'[r] = 0
    BY <1>1, <2>1 DEF BrowserInv, BrowserTyped, OthersStay, Steps, handles
  <2>3. Legible(r)'
    BY <1>1, <1>2, <2>2 DEF Legible
  <2> QED
    BY <1>1, <2>2, <2>3, EndedOk
<1>3. CASE purpose # "check"
  <2>1. PICK n \in 0 .. FULL + SLACK + 1 : need' = [need EXCEPT ![r] = n]
    BY <1>3 DEF Laid
  <2>2. /\ step' = [step EXCEPT ![r] = "reading"] /\ page' = page
        /\ plate' = [plate EXCEPT ![r] = 0] /\ laid' = [laid EXCEPT ![r] = 0]
        /\ round' = [round EXCEPT ![r] = 0]
    BY <1>3 DEF Laid
  <2>3. BrowserTyped' /\ OthersStay(r) /\ step'[r] = "reading" /\ page'[r] = page[r] /\ round'[r] = 0
    BY <1>1, <2>1, <2>2 DEF BrowserInv, BrowserTyped, OthersStay, Steps, handles
  <2>4. Legible(r)'
    BY <2>3 DEF Legible
  <2> QED
    BY <1>1, <2>3, <2>4, EndedOk
<1> QED
  BY <1>2, <1>3

\* A plate that is made stronger ends as strong as the words need, or at its strongest.
LEMMA PlateIsEnough ==
  ASSUME BrowserTyped, NEW r \in Renders, NEW n \in PlateAlpha(r)
  PROVE  n \in Int /\ (n >= need[r] - SLACK \/ n >= FULL)
<1>1. plate[r] \in Int /\ need[r] \in Int /\ FULL \in Nat /\ SLACK \in Nat
  BY BrowserNumbers DEF BrowserTyped
<1>2. PICK aim \in {need[r], need[r] - SLACK} :
        LET least == IF aim < FULL THEN aim ELSE FULL
        IN n = IF plate[r] > least THEN plate[r] ELSE least
  BY DEF PlateAlpha
<1> QED
  BY <1>1, <1>2

LEMMA ReadFrameOk == ASSUME BrowserInv, NEW r \in Renders, ReadFrame(r) PROVE BrowserInv'
<1>1. /\ step[r] = "reading" /\ laid' = [laid EXCEPT ![r] = plate[r]]
      /\ UNCHANGED <<purpose, handles, go, need, crashes, hiccups>> /\ BrowserTyped
  BY DEF ReadFrame, BrowserInv
<1>2. /\ plate[r] \in Int /\ need[r] \in Int /\ round[r] \in Int /\ laid'[r] = plate[r]
      /\ laid' \in [Renders -> Int] /\ \A q \in Renders \ {r} : laid'[q] = laid[q]
  BY <1>1 DEF BrowserTyped
<1> DEFINE short == laid'[r] < need[r]
           last == round[r] = LEGIBILITY_ROUNDS
<1>3. CASE /\ ~short \/ (last /\ laid'[r] >= need[r] - SLACK)
           /\ step' = [step EXCEPT ![r] = "done"] /\ ClosePage(r)
           /\ UNCHANGED <<plate, round, why>>
  <2>1. BrowserTyped' /\ OthersStay(r) /\ step'[r] = "done" /\ page'[r] = 0
    BY <1>1, <1>2, <1>3 DEF BrowserTyped, OthersStay, Steps, ClosePage, handles
  <2>2. laid'[r] >= need[r] - SLACK
    BY <1>2, <1>3, BrowserNumbers
  <2>3. Legible(r)'
    BY <1>1, <2>1, <2>2 DEF Legible
  <2> QED
    BY <1>1, <2>1, <2>3, EndedOk
<1>4. CASE /\ short /\ last /\ laid'[r] < need[r] - SLACK
           /\ Refuse(r, "contrast") /\ UNCHANGED <<plate, round>>
  <2>1. /\ step' = [step EXCEPT ![r] = "refused"] /\ why' = [why EXCEPT ![r] = "contrast"]
        /\ page' = [page EXCEPT ![r] = 0]
    BY <1>4 DEF Refuse, ClosePage
  <2>2. BrowserTyped' /\ OthersStay(r) /\ step'[r] = "refused" /\ page'[r] = 0
    BY <1>1, <1>2, <1>4, <2>1 DEF BrowserTyped, OthersStay, Steps, handles
  <2>3. plate[r] >= FULL
    <3>1. round[r] # 0
      BY <1>4, BrowserNumbers
    <3>2. Legible(r)
      BY DEF BrowserInv
    <3> QED
      BY <1>1, <1>2, <1>4, <3>1, <3>2, BrowserNumbers DEF Legible
  <2>4. need[r] > FULL + SLACK
    BY <1>2, <1>4, <2>3, BrowserNumbers
  <2>5. Legible(r)'
    BY <1>1, <2>2, <2>4 DEF Legible
  <2> QED
    BY <1>1, <2>2, <2>5, EndedOk
<1>5. CASE /\ short /\ ~last
           /\ \E n \in PlateAlpha(r) : plate' = [plate EXCEPT ![r] = n]
           /\ round' = [round EXCEPT ![r] = @ + 1]
           /\ UNCHANGED <<step, page, why>>
  <2>1. PICK n \in PlateAlpha(r) : plate' = [plate EXCEPT ![r] = n]
    BY <1>5
  <2>2. n \in Int /\ (n >= need[r] - SLACK \/ n >= FULL)
    BY <1>1, PlateIsEnough
  <2>3. round' = [round EXCEPT ![r] = round[r] + 1]
    BY <1>5
  <2>4. /\ BrowserTyped' /\ OthersStay(r) /\ step'[r] = "reading" /\ page'[r] = page[r]
        /\ plate'[r] = n
    BY <1>1, <1>2, <1>5, <2>1, <2>2, <2>3 DEF BrowserTyped, OthersStay, handles
  <2>5. Legible(r)'
    BY <1>1, <2>2, <2>4 DEF Legible
  <2> QED
    BY <1>1, <2>4, <2>5, EndedOk
<1> QED
  BY <1>3, <1>4, <1>5 DEF ReadFrame

LEMMA BrowserStepOk == BrowserInv /\ [BrowserNext]_browserVars => BrowserInv'
<1> SUFFICES ASSUME BrowserInv, [BrowserNext]_browserVars PROVE BrowserInv'
  OBVIOUS
<1>1. CASE LayoutGate \/ UNCHANGED browserVars
  <2>1. UNCHANGED <<purpose, browser, driver, chromiums, drivers, lock, launches, step, go, page,
                    need, plate, laid, round, why, crashes, hiccups>>
    BY <1>1 DEF LayoutGate, browserVars, handles, readings
  <2>2. BrowserTyped' /\ LaunchInv' /\ DeathInv'
    BY <2>1 DEF BrowserInv, BrowserTyped, LaunchInv, DeathInv
  <2>3. \A r \in Renders : Legible(r)'
    BY <2>1 DEF BrowserInv, Legible
  <2> QED
    BY <2>2, <2>3 DEF BrowserInv
<1> QED
  BY <1>1, CrashOk, GetBrowserOk, LaunchBeginsOk, LaunchedOk, LaunchFailsOk, CaughtMidCrashOk,
     PageCrashesOk, LayoutRefusedOk, LaidOk, ReadFrameOk DEF BrowserNext

LEMMA AtMostOne ==
  ASSUME NEW S, NEW x, S \subseteq {x}
  PROVE  Cardinality(S) <= 1
<1>1. S = {} \/ S = {x}
  OBVIOUS
<1>2. Cardinality({}) = 0 /\ Cardinality({x}) = 1
  BY FS_EmptySet, FS_Singleton
<1> QED
  BY <1>1, <1>2

LEMMA RendersPromised == BrowserInv => RendersAsPromised
<1> SUFFICES ASSUME BrowserInv PROVE RendersAsPromised
  OBVIOUS
<1>1. OneChromium
  <2>1. Cardinality(chromiums) <= 1
    BY AtMostOne DEF BrowserInv, LaunchInv
  <2>2. drivers \subseteq {driver} \/ drivers \subseteq {launches}
    BY DEF BrowserInv, LaunchInv
  <2>3. Cardinality(drivers) <= 1
    BY <2>2, AtMostOne
  <2> QED
    BY <2>1, <2>3 DEF OneChromium
<1>2. OneCrashSurvived
  BY DEF BrowserInv, BrowserTyped, DeathInv, OneCrashSurvived
<1>3. ReadableOrBeyondHelp
  BY DEF BrowserInv, Legible, ReadableOrBeyondHelp
<1> QED
  BY <1>1, <1>2, <1>3 DEF RendersAsPromised

\* A vendor's blips are survived within the tries of a call, one death of the browser is by
\* every render, one Chromium and one driver are alive at a time, and a frame is readable or
\* beyond what a plate can do (providers.py: _submit_with_retry, _get; compose.py:
\* get_browser, _surviving_a_crash, _make_legible), for any number of renders, tries and
\* rounds.
THEOREM FaultsAreSurvived == Spec => []FaultsSurvived
<1>1. VendorInv /\ BrowserInv => FaultsSurvived
  BY RendersPromised DEF VendorInv, FaultsSurvived
<1> QED
  BY <1>1, PartsInit, PartsStep, VendorInitOk, VendorStepOk, BrowserInitOk, BrowserStepOk, PTL
  DEF Spec

-----------------------------------------------------------------------------
(* The import of a brand's folders. *)

Lanes == {"photo", "reference"}
RunStates == {"idle", "begun", "decided", "imported", "done"}
Runs == [at : RunStates, keys : SUBSET (Lanes \X Files), anchored : SUBSET Files,
         taken : [Lanes -> SUBSET Files], photos : SUBSET Files, new : SUBSET Files,
         read : SUBSET Files, well : BOOLEAN]

FolderInv ==
  /\ folder \in [Lanes -> SUBSET Files]
  /\ folder["photo"] \intersect folder["reference"] = {}
  /\ assets \subseteq Lanes \X Files /\ anchors \subseteq Files
  /\ run \in [Staff -> Runs]

\* As long as no two runs met: one is under way at most, what it knows to be anchored is
\* all that is, and what it has read is in the kit before it is anchored.
AloneInv ==
  ~overlapped =>
    /\ anchors \subseteq kit
    /\ \A s, t \in Staff : s # t => run[s].at = "idle" \/ run[t].at = "idle"
    /\ \A s \in Staff :
         /\ run[s].at \in {"begun", "decided"} => anchors \subseteq run[s].anchored
         /\ run[s].at = "imported" => run[s].read \subseteq kit

\* What a run is to store and read, or knows to be stored and read.
PhotosDealtWith(r, kept) ==
  \A f \in (r.taken["photo"] \intersect RAW) \ POOR : <<"photo", f>> \in kept \/ f \in r.photos
ReferencesDealtWith(r, kept, known) ==
  \A f \in r.taken["reference"] \intersect POSTS :
    /\ <<"reference", f>> \in kept \/ f \in r.new
    /\ f \in known \/ f \in r.read

RunInv(r, kept, known) ==
  /\ r.keys \subseteq kept /\ r.anchored \subseteq known
  /\ r.at = "decided" /\ r.well = TRUE =>
       PhotosDealtWith(r, kept) /\ ReferencesDealtWith(r, kept, known)
  /\ r.at \in {"imported", "done"} /\ r.well = TRUE =>
       \A f \in (r.taken["photo"] \intersect RAW) \ POOR : <<"photo", f>> \in kept
  /\ r.at \in {"imported", "done"} /\ r.well = TRUE =>
       \A f \in r.taken["reference"] \intersect POSTS :
         /\ <<"reference", f>> \in kept
         /\ f \in known \/ (r.at = "imported" /\ f \in r.read)

ImportInv == FolderInv /\ AloneInv /\ \A s \in Staff : RunInv(run[s], assets, anchors)

LEMMA FilesFacts ==
  /\ Files = RAW \union POSTS /\ POOR \subseteq RAW /\ RAW \intersect POSTS = {}
  /\ IsFiniteSet(Files)
  BY OnboardingConstants DEF Files

LEMMA NoRunIsRun == NoRun \in Runs /\ NoRun.at = "idle" /\ NoRun.keys = {} /\ NoRun.anchored = {}
  BY DEF NoRun, NoFiles, Runs, RunStates, Lanes

LEMMA ImportInitOk == OnboardingInit => ImportInv
<1> SUFFICES ASSUME OnboardingInit PROVE ImportInv
  OBVIOUS
<1>1. FolderInv
  BY NoRunIsRun DEF OnboardingInit, FolderInv, NoFiles, Lanes
<1>2. \A s \in Staff : run[s] = NoRun
  BY DEF OnboardingInit
<1>3. AloneInv
  BY <1>2, NoRunIsRun DEF OnboardingInit, AloneInv
<1>4. \A s \in Staff : RunInv(run[s], assets, anchors)
  BY <1>2, NoRunIsRun DEF RunInv
<1> QED
  BY <1>1, <1>3, <1>4 DEF ImportInv

\* Files and anchors only become more, so what a run had dealt with stays so.
LEMMA RunKeeps ==
  ASSUME NEW r, NEW kept, NEW known, NEW more, NEW further,
         RunInv(r, kept, known), kept \subseteq more, known \subseteq further
  PROVE  RunInv(r, more, further)
  BY DEF RunInv, PhotosDealtWith, ReferencesDealtWith

LEMMA AddFileOk == ASSUME ImportInv, AddFile PROVE ImportInv'
<1>1. UNCHANGED <<assets, anchors, kit, run, overlapped>>
  BY DEF AddFile
<1>2. PICK lane \in DOMAIN folder, f \in Files \ (folder["photo"] \union folder["reference"]) :
        folder' = [folder EXCEPT ![lane] = folder[lane] \union {f}]
  BY DEF AddFile
<1>3. /\ folder' \in [Lanes -> SUBSET Files]
      /\ folder'["photo"] \intersect folder'["reference"] = {}
  <2>1. /\ folder \in [Lanes -> SUBSET Files] /\ lane \in Lanes
        /\ folder["photo"] \intersect folder["reference"] = {}
    BY DEF ImportInv, FolderInv
  <2>2. CASE lane = "photo"
    BY <1>2, <2>1, <2>2 DEF Lanes
  <2>3. CASE lane = "reference"
    BY <1>2, <2>1, <2>3 DEF Lanes
  <2> QED
    BY <2>1, <2>2, <2>3 DEF Lanes
<1> QED
  BY <1>1, <1>3 DEF ImportInv, FolderInv, AloneInv

LEMMA BeginRunOk == ASSUME ImportInv, NEW s \in Staff, BeginRun(s) PROVE ImportInv'
<1>1. /\ run[s].at = "idle" /\ UNCHANGED <<folder, assets, anchors, kit>>
      /\ overlapped' = (overlapped \/ \E t \in Staff : run[t].at # "idle")
  BY DEF BeginRun
<1>2. PICK r \in Runs :
        /\ run' = [run EXCEPT ![s] = r]
        /\ r.at = "begun" /\ r.keys = assets /\ r.anchored = anchors
  <2>1. run' = [run EXCEPT ![s] =
                  [NoRun EXCEPT !.at = "begun", !.keys = assets, !.anchored = anchors]]
    BY DEF BeginRun
  <2>2. /\ [NoRun EXCEPT !.at = "begun", !.keys = assets, !.anchored = anchors] \in Runs
        /\ [NoRun EXCEPT !.at = "begun", !.keys = assets, !.anchored = anchors].at = "begun"
        /\ [NoRun EXCEPT !.at = "begun", !.keys = assets, !.anchored = anchors].keys = assets
        /\ [NoRun EXCEPT !.at = "begun", !.keys = assets, !.anchored = anchors].anchored = anchors
    BY DEF NoRun, NoFiles, Runs, RunStates, Lanes, ImportInv, FolderInv
  <2> QED
    BY <2>1, <2>2
<1>3. run' \in [Staff -> Runs] /\ run'[s] = r /\ \A t \in Staff \ {s} : run'[t] = run[t]
  BY <1>2 DEF ImportInv, FolderInv
<1>4. FolderInv'
  BY <1>1, <1>3 DEF ImportInv, FolderInv
<1>5. AloneInv'
  <2> SUFFICES ASSUME ~overlapped' PROVE AloneInv'
    BY DEF AloneInv
  <2>1. ~overlapped /\ \A t \in Staff : run[t].at = "idle"
    BY <1>1
  <2> QED
    BY <1>1, <1>2, <1>3, <2>1 DEF ImportInv, AloneInv
<1>6. ASSUME NEW t \in Staff
      PROVE  RunInv(run'[t], assets', anchors')
  BY <1>1, <1>2, <1>3 DEF ImportInv, RunInv
<1> QED
  BY <1>4, <1>5, <1>6 DEF ImportInv

\* A step of one run's that only moves that run on.
LEMMA RunMoves ==
  ASSUME ImportInv, NEW s \in Staff, NEW r \in Runs, run' = [run EXCEPT ![s] = r],
         UNCHANGED <<folder, anchors, kit, overlapped>>,
         assets \subseteq assets', assets' \subseteq Lanes \X Files,
         RunInv(r, assets', anchors),
         r.at # "idle" => run[s].at # "idle",
         ~overlapped /\ r.at \in {"begun", "decided"} => anchors \subseteq r.anchored,
         ~overlapped /\ r.at = "imported" => r.read \subseteq kit
  PROVE  ImportInv'
<1>1. run' \in [Staff -> Runs] /\ run'[s] = r /\ \A t \in Staff \ {s} : run'[t] = run[t]
  BY DEF ImportInv, FolderInv
<1>2. FolderInv'
  BY <1>1 DEF ImportInv, FolderInv
<1>3. AloneInv'
  BY <1>1 DEF ImportInv, AloneInv
<1>4. ASSUME NEW t \in Staff
      PROVE  RunInv(run'[t], assets', anchors')
  <2>1. CASE t = s
    BY <1>1, <2>1
  <2>2. CASE t # s
    BY <1>1, <2>2, RunKeeps DEF ImportInv
  <2> QED
    BY <2>1, <2>2
<1> QED
  BY <1>2, <1>3, <1>4 DEF ImportInv

LEMMA EndRunOk == ASSUME ImportInv, NEW s \in Staff, EndRun(s) PROVE ImportInv'
<1>1. /\ run' = [run EXCEPT ![s] = NoRun]
      /\ UNCHANGED <<folder, assets, anchors, kit, overlapped>>
  BY DEF EndRun
<1>2. RunInv(NoRun, assets, anchors)
  BY NoRunIsRun DEF RunInv
<1> QED
  BY <1>1, <1>2, NoRunIsRun, RunMoves DEF ImportInv, FolderInv

LEMMA NotAnchoredOk == ASSUME ImportInv, NEW s \in Staff, NotAnchored(s) PROVE ImportInv'
<1>1. /\ run[s].at = "imported"
      /\ run' = [run EXCEPT ![s] = [run[s] EXCEPT !.at = "done", !.well = FALSE]]
      /\ UNCHANGED <<folder, assets, anchors, kit, overlapped>> /\ run[s] \in Runs
  BY DEF NotAnchored, ImportInv, FolderInv
<1>2. PICK r \in Runs :
        /\ run' = [run EXCEPT ![s] = r] /\ r.at = "done" /\ r.well = FALSE
        /\ r.keys = run[s].keys /\ r.anchored = run[s].anchored
  <2> DEFINE q == [run[s] EXCEPT !.at = "done", !.well = FALSE]
  <2>1. run' = [run EXCEPT ![s] = q]
    BY <1>1
  <2>2. q \in Runs /\ q.at = "done" /\ q.well = FALSE /\ q.keys = run[s].keys
        /\ q.anchored = run[s].anchored
    BY <1>1 DEF Runs, RunStates
  <2> HIDE DEF q
  <2> QED
    BY <2>1, <2>2
<1>3. RunInv(r, assets, anchors)
  BY <1>2 DEF ImportInv, RunInv
<1> QED
  BY <1>1, <1>2, <1>3, RunMoves DEF ImportInv, FolderInv

LEMMA ImportOk == ASSUME ImportInv, NEW s \in Staff, Import(s) PROVE ImportInv'
<1> DEFINE lanes == ({"photo"} \X run[s].photos) \union ({"reference"} \X run[s].new)
<1>1. /\ run[s].at = "decided" /\ assets' = assets \union lanes
      /\ kit' = IF run[s].read = {} THEN kit ELSE KitOf(s)
      /\ run' = [run EXCEPT ![s] = [run[s] EXCEPT !.at = "imported"]]
      /\ UNCHANGED <<folder, anchors, overlapped>> /\ run[s] \in Runs
      /\ RunInv(run[s], assets, anchors)
  BY DEF Import, ImportInv, FolderInv
<1>2. PICK r \in Runs :
        /\ run' = [run EXCEPT ![s] = r] /\ r.at = "imported" /\ r.well = run[s].well
        /\ r.keys = run[s].keys /\ r.anchored = run[s].anchored /\ r.taken = run[s].taken
        /\ r.read = run[s].read
  <2> DEFINE q == [run[s] EXCEPT !.at = "imported"]
  <2>1. run' = [run EXCEPT ![s] = q]
    BY <1>1
  <2>2. q \in Runs /\ q.at = "imported" /\ q.well = run[s].well /\ q.keys = run[s].keys
        /\ q.anchored = run[s].anchored /\ q.taken = run[s].taken /\ q.read = run[s].read
    BY <1>1 DEF Runs, RunStates
  <2> HIDE DEF q
  <2> QED
    BY <2>1, <2>2
<1>3. assets \subseteq assets' /\ assets' \subseteq Lanes \X Files
  BY <1>1 DEF Runs, Lanes, ImportInv, FolderInv
<1>4. RunInv(r, assets', anchors)
  <2>1. /\ \A f \in run[s].photos : <<"photo", f>> \in assets'
        /\ \A f \in run[s].new : <<"reference", f>> \in assets'
    BY <1>1
  <2>2. CASE run[s].well = TRUE
    <3>1. PhotosDealtWith(run[s], assets) /\ ReferencesDealtWith(run[s], assets, anchors)
      BY <1>1, <2>2 DEF RunInv
    <3> QED
      BY <1>1, <1>2, <1>3, <2>1, <3>1 DEF RunInv, PhotosDealtWith, ReferencesDealtWith
  <2>3. CASE run[s].well # TRUE
    BY <1>1, <1>2, <1>3, <2>3 DEF RunInv
  <2> QED
    BY <2>2, <2>3
<1>5. run' \in [Staff -> Runs] /\ run'[s] = r /\ \A t \in Staff \ {s} : run'[t] = run[t]
  BY <1>2 DEF ImportInv, FolderInv
<1>6. FolderInv'
  BY <1>1, <1>3, <1>5 DEF ImportInv, FolderInv
\* What was anchored before, the run has known since it began: both are in the new kit.
<1>7. AloneInv'
  <2> SUFFICES ASSUME ~overlapped' PROVE AloneInv'
    BY DEF AloneInv
  <2>1. anchors \subseteq kit /\ anchors \subseteq run[s].anchored
    BY <1>1 DEF ImportInv, AloneInv
  <2>2. anchors \subseteq kit' /\ run[s].read \subseteq kit'
    BY <1>1, <2>1 DEF KitOf
  <2>3. \A t \in Staff \ {s} : run[t].at = "idle"
    BY <1>1 DEF ImportInv, AloneInv
  <2> QED
    BY <1>1, <1>2, <1>5, <2>2, <2>3 DEF AloneInv
<1>8. ASSUME NEW t \in Staff
      PROVE  RunInv(run'[t], assets', anchors')
  <2>1. CASE t = s
    BY <1>1, <1>4, <1>5, <2>1
  <2>2. CASE t # s
    BY <1>1, <1>3, <1>5, <2>2, RunKeeps DEF ImportInv
  <2> QED
    BY <2>1, <2>2
<1> QED
  BY <1>6, <1>7, <1>8 DEF ImportInv

LEMMA AnchorOk == ASSUME ImportInv, NEW s \in Staff, Anchor(s) PROVE ImportInv'
<1>1. /\ run[s].at = "imported" /\ anchors' = anchors \union run[s].read
      /\ run' = [run EXCEPT ![s] = [run[s] EXCEPT !.at = "done"]]
      /\ UNCHANGED <<folder, assets, kit, overlapped>> /\ run[s] \in Runs
      /\ RunInv(run[s], assets, anchors)
  BY DEF Anchor, ImportInv, FolderInv
<1>2. PICK r \in Runs :
        /\ run' = [run EXCEPT ![s] = r] /\ r.at = "done" /\ r.well = run[s].well
        /\ r.keys = run[s].keys /\ r.anchored = run[s].anchored /\ r.taken = run[s].taken
  <2> DEFINE q == [run[s] EXCEPT !.at = "done"]
  <2>1. run' = [run EXCEPT ![s] = q]
    BY <1>1
  <2>2. q \in Runs /\ q.at = "done" /\ q.well = run[s].well /\ q.keys = run[s].keys
        /\ q.anchored = run[s].anchored /\ q.taken = run[s].taken
    BY <1>1 DEF Runs, RunStates
  <2> HIDE DEF q
  <2> QED
    BY <2>1, <2>2
<1>3. run' \in [Staff -> Runs] /\ run'[s] = r /\ \A t \in Staff \ {s} : run'[t] = run[t]
  BY <1>2 DEF ImportInv, FolderInv
<1>4. FolderInv'
  BY <1>1, <1>3 DEF ImportInv, FolderInv, Runs
<1>5. AloneInv'
  BY <1>1, <1>2, <1>3 DEF ImportInv, AloneInv
<1>6. RunInv(r, assets, anchors')
  BY <1>1, <1>2 DEF RunInv
<1>7. ASSUME NEW t \in Staff
      PROVE  RunInv(run'[t], assets', anchors')
  <2>1. CASE t = s
    BY <1>1, <1>3, <1>6, <2>1
  <2>2. CASE t # s
    BY <1>1, <1>3, <2>2, RunKeeps DEF ImportInv
  <2> QED
    BY <2>1, <2>2
<1> QED
  BY <1>4, <1>5, <1>7 DEF ImportInv

\* A set with no members counts none, and a finite one that counts none has none.
LEMMA NoneFailed ==
  ASSUME NEW S \in SUBSET Files, NEW T \in SUBSET Files, Cardinality(S) + Cardinality(T) = 0
  PROVE  S = {} /\ T = {}
<1>1. IsFiniteSet(S) /\ IsFiniteSet(T)
  BY FilesFacts, FS_Subset
<1>2. Cardinality(S) \in Nat /\ Cardinality(T) \in Nat
  BY <1>1, FS_CardinalityType
<1>3. Cardinality(S) = 0 /\ Cardinality(T) = 0
  BY <1>2
<1> QED
  BY <1>1, <1>3, FS_EmptySet

LEMMA DecideOk == ASSUME ImportInv, NEW s \in Staff, Decide(s) PROVE ImportInv'
<1> DEFINE photos == PhotosToStore(run[s].keys)
           refs == ReferencesToRead(run[s].keys, run[s].anchored)
           unjudged == {f \in refs : <<"reference", f>> \notin run[s].keys}
<1>1. /\ run[s].at = "begun" /\ UNCHANGED <<folder, assets, anchors, kit, overlapped>>
      /\ run[s] \in Runs /\ RunInv(run[s], assets, anchors)
      /\ folder \in [Lanes -> SUBSET Files]
      /\ folder["photo"] \intersect folder["reference"] = {}
  BY DEF Decide, ImportInv, FolderInv
<1>2. /\ photos \subseteq Files /\ refs \subseteq Files /\ unjudged \subseteq refs
      /\ photos \subseteq folder["photo"] /\ refs \subseteq folder["reference"]
  BY <1>1 DEF PhotosToStore, ReferencesToRead, Lanes
<1>3. PICK r \in Runs :
        /\ run' = [run EXCEPT ![s] = r]
        /\ r.at = "decided" /\ r.keys = run[s].keys /\ r.anchored = run[s].anchored
        /\ r.taken = folder
        /\ r.well = TRUE =>
             /\ \A f \in photos : f \notin POSTS => f \in r.photos
             /\ \A f \in refs : f \notin RAW /\ f \notin photos => f \in r.read
             /\ \A f \in unjudged : f \notin RAW /\ f \notin photos => f \in r.new
  <2>1. CASE run' = [run EXCEPT ![s].at = "decided", ![s].taken = folder,
                       ![s].photos = photos, ![s].new = unjudged, ![s].well = FALSE]
    <3> DEFINE r == [run[s] EXCEPT !.at = "decided", !.taken = folder, !.photos = photos,
                                   !.new = unjudged, !.well = FALSE]
    <3>1. run' = [run EXCEPT ![s] = r]
      BY <2>1 DEF ImportInv, FolderInv
    <3>2. unjudged \subseteq Files
      BY <1>2
    <3>3. r \in Runs /\ r.at = "decided" /\ r.keys = run[s].keys
          /\ r.anchored = run[s].anchored /\ r.taken = folder /\ r.well = FALSE
      BY <1>1, <1>2, <3>2 DEF Runs, RunStates
    <3> HIDE DEF r
    <3> QED
      BY <3>1, <3>3
  <2>2. ASSUME NEW mute \in SUBSET (photos \union unjudged), NEW unread \in SUBSET refs,
               LET misplaced == ((photos \intersect POSTS) \union (unjudged \intersect RAW)) \ mute
                   kept == refs \ (misplaced \union unread)
                   failures == Cardinality(mute) + Cardinality(unread)
               IN run' = [run EXCEPT ![s].at = "decided", ![s].taken = folder,
                            ![s].photos = photos \ misplaced,
                            ![s].new = kept \intersect unjudged,
                            ![s].read = kept, ![s].well = (failures = 0)]
        PROVE  \E r \in Runs :
                 /\ run' = [run EXCEPT ![s] = r]
                 /\ r.at = "decided" /\ r.keys = run[s].keys /\ r.anchored = run[s].anchored
                 /\ r.taken = folder
                 /\ r.well = TRUE =>
                      /\ \A f \in photos : f \notin POSTS => f \in r.photos
                      /\ \A f \in refs : f \notin RAW /\ f \notin photos => f \in r.read
                      /\ \A f \in unjudged : f \notin RAW /\ f \notin photos => f \in r.new
    <3> DEFINE misplaced == ((photos \intersect POSTS) \union (unjudged \intersect RAW)) \ mute
               kept == refs \ (misplaced \union unread)
               well == Cardinality(mute) + Cardinality(unread) = 0
               r == [run[s] EXCEPT !.at = "decided", !.taken = folder,
                                   !.photos = photos \ misplaced, !.new = kept \intersect unjudged,
                                   !.read = kept, !.well = well]
    <3>1. run' = [run EXCEPT ![s] = r]
      BY <2>2 DEF ImportInv, FolderInv
    <3>2. photos \ misplaced \subseteq Files /\ kept \subseteq Files /\ kept \intersect unjudged \subseteq Files
      BY <1>2
    <3>3. well \in BOOLEAN
      OBVIOUS
    <3>4. well => unread = {}
      <4>1. mute \subseteq Files /\ unread \subseteq Files
        BY <1>2
      <4> QED
        BY <4>1, NoneFailed
    <3>5. \A f \in photos : f \notin POSTS => f \in photos \ misplaced \/ f \in unjudged
      OBVIOUS
    <3>6. \A f \in photos : f \notin unjudged
      BY <1>1, <1>2
    <3>7. \A f \in refs : f \notin RAW /\ f \notin photos /\ unread = {} => f \in kept
      OBVIOUS
    <3> HIDE DEF misplaced, kept, well, photos, refs, unjudged
    <3>8. r \in Runs /\ r.at = "decided" /\ r.keys = run[s].keys
          /\ r.anchored = run[s].anchored /\ r.taken = folder /\ r.well = well
          /\ r.photos = photos \ misplaced /\ r.new = kept \intersect unjudged /\ r.read = kept
      BY <1>1, <3>2, <3>3 DEF Runs, RunStates
    <3> HIDE DEF r
    <3>9. r.well = TRUE => unread = {}
      BY <3>3, <3>4, <3>8
    <3> QED
      BY <1>2, <3>1, <3>5, <3>6, <3>7, <3>8, <3>9
  <2> QED
    BY <2>1, <2>2 DEF Decide
<1>4. RunInv(r, assets, anchors)
  <2>1. r.keys \subseteq assets /\ r.anchored \subseteq anchors
    BY <1>1, <1>3 DEF RunInv
  <2>2. ASSUME r.well = TRUE
        PROVE  PhotosDealtWith(r, assets)
    <3>1. \A f \in (folder["photo"] \intersect RAW) \ POOR :
            f \notin POSTS /\ (<<"photo", f>> \in run[s].keys \/ f \in photos)
      BY FilesFacts DEF PhotosToStore
    <3> HIDE DEF photos
    <3> QED
      BY <1>3, <2>1, <2>2, <3>1 DEF PhotosDealtWith
  <2>3. ASSUME r.well = TRUE
        PROVE  ReferencesDealtWith(r, assets, anchors)
    <3>1. ASSUME NEW f \in folder["reference"] \intersect POSTS
          PROVE  /\ f \notin RAW /\ f \notin photos
                 /\ <<"reference", f>> \in run[s].keys \/ f \in unjudged
                 /\ f \in run[s].anchored \/ f \in refs
      BY <1>1, FilesFacts DEF ReferencesToRead, PhotosToStore
    <3> HIDE DEF photos, refs, unjudged
    <3> QED
      BY <1>3, <2>1, <2>3, <3>1 DEF ReferencesDealtWith
  <2> QED
    BY <1>3, <2>1, <2>2, <2>3 DEF RunInv
<1>5. ~overlapped => anchors \subseteq r.anchored
  BY <1>1, <1>3 DEF ImportInv, AloneInv
<1> QED
  BY <1>1, <1>3, <1>4, <1>5, RunMoves DEF ImportInv, FolderInv

LEMMA ImportStepOk == ImportInv /\ [OnboardingNext]_onboardingVars => ImportInv'
<1> SUFFICES ASSUME ImportInv, [OnboardingNext]_onboardingVars PROVE ImportInv'
  OBVIOUS
<1>1. CASE OwnerAsksForLook \/ CategoryTold \/ UNCHANGED onboardingVars
  <2>1. UNCHANGED <<folder, assets, anchors, kit, run, overlapped>>
    BY <1>1 DEF OwnerAsksForLook, CategoryTold, onboardingVars
  <2> QED
    BY <2>1 DEF ImportInv, FolderInv, AloneInv
<1> QED
  BY <1>1, AddFileOk, BeginRunOk, DecideOk, ImportOk, AnchorOk, NotAnchoredOk, EndRunOk
  DEF OnboardingNext

\* The house style is that of every anchored reference unless two imports met, and a run to
\* which everything answered leaves no good file of its folders unstored or unread
\* (scripts/onboard_brand.py: earlier_references, main), for folders of any size and any
\* number of runs, lapses and staff.
THEOREM ImportsEndWhole == Spec => []ImportsComplete
<1>1. ImportInv => ImportsComplete
  <2> SUFFICES ASSUME ImportInv PROVE ImportsComplete
    OBVIOUS
  <2>1. HouseStyleWhole
    BY DEF ImportInv, AloneInv, HouseStyleWhole
  <2>2. ASSUME NEW s \in Staff, run[s].at = "done", run[s].well
        PROVE  /\ \A f \in (run[s].taken["photo"] \intersect RAW) \ POOR : <<"photo", f>> \in assets
               /\ \A f \in run[s].taken["reference"] \intersect POSTS :
                    <<"reference", f>> \in assets /\ f \in anchors
    <3>1. run[s] \in Runs /\ RunInv(run[s], assets, anchors)
      BY DEF ImportInv, FolderInv
    <3>2. run[s].well = TRUE
      BY <2>2, <3>1 DEF Runs
    <3> QED
      BY <2>2, <3>1, <3>2 DEF RunInv
  <2> QED
    BY <2>1, <2>2 DEF ReRunCompletes, ImportsComplete
<1> QED
  BY <1>1, PartsInit, PartsStep, ImportInitOk, ImportStepOk, PTL DEF Spec

-----------------------------------------------------------------------------
(* The plan of a month. *)

\* Slots on some of the given days, each planned or made.
IsSlot(x) ==
  /\ x = [pillar |-> x.pillar, campaign |-> x.campaign, status |-> x.status]
  /\ x.status \in {"planned", "made"}
Sheet(slots, days) ==
  /\ DOMAIN slots \subseteq days /\ slots = [d \in DOMAIN slots |-> slots[d]]
  /\ \A d \in DOMAIN slots : IsSlot(slots[d])

\* Every festival has its arc.
HasArcs(m, slots) ==
  \A i \in DOMAIN FESTIVALS, k \in DOMAIN FESTIVAL_ARC :
    LET d == FESTIVALS[i] - FESTIVAL_ARC[k] IN
    d \in DaysOf(m) =>
      d \in DOMAIN slots /\ (slots[d].status = "planned" => slots[d].campaign = "festival")

MadeOn(slots, d) == d \in DOMAIN slots /\ slots[d].status = "made"

IsDay(d) == \E m \in Months : d \in DaysOf(m)

\* A turn that is to write a plan has a whole one, with all that was made in the plan it
\* has read, and made today's.
TurnInv(t) ==
  /\ t.at \in {"make", "mark"} => IsDay(t.day)
  /\ t.at \in {"build", "mark"} =>
       /\ t.month \in Months /\ Sheet(t.slots, DaysOf(t.month)) /\ HasArcs(t.month, t.slots)
       /\ \A d : MadeOn(t.base, d) => MadeOn(t.slots, d)
  /\ t.at = "build" => t.day = NoOffer
  /\ t.at = "mark" =>
       t.day \in DaysOf(t.month) /\ MadeOn(t.slots, t.day) /\ ~MadeOn(t.base, t.day)

PlanInv ==
  /\ today \in Nat /\ FIRST[1] <= today /\ today <= FIRST[1] + PLAN_DAYS
  /\ plan = [m \in Months |-> plan[m]] /\ turn = [w \in Workers |-> turn[w]]
  /\ \A m \in Months :
       Sheet(plan[m], DaysOf(m)) /\ (plan[m] # NoPlan => HasArcs(m, plan[m]))
  /\ offer = NoOffer \/ IsDay(offer)
  /\ \A w \in Workers : TurnInv(turn[w])
  /\ \A d \in closed : IsDay(d)
  /\ \A d \in closed \ overwritten : MadeOn(plan[MonthOf(d)], d)

LEMMA MonthFacts ==
  /\ FIRST \in Seq(Nat \ {0}) /\ Len(FIRST) \in Nat /\ DOMAIN FIRST = 1 .. Len(FIRST)
  /\ PLAN_DAYS \in Nat /\ 1 \in DOMAIN FIRST
  /\ \A m, n \in DOMAIN FIRST : FIRST[m] \in Nat \ {0} /\ (m < n => FIRST[m] < FIRST[n])
<1>1. /\ FIRST \in Seq(Nat \ {0}) /\ PLAN_DAYS \in Nat /\ Len(FIRST) > 1
      /\ \A m, n \in DOMAIN FIRST : m < n => FIRST[m] < FIRST[n]
  BY PlannerConstants
<1>2. Len(FIRST) \in Nat /\ DOMAIN FIRST = 1 .. Len(FIRST) /\ \A m \in DOMAIN FIRST : FIRST[m] \in Nat \ {0}
  BY <1>1, LenProperties, ElementOfSeq
<1> QED
  BY <1>1, <1>2

\* Days are in one month each, and 0 is none of them.
LEMMA DayFacts ==
  ASSUME NEW m \in Months, NEW d \in DaysOf(m)
  PROVE  /\ d \in Nat \ {0} /\ MonthOf(d) = m /\ MonthOf(d) \in Months /\ IsDay(d)
         /\ d # NoOffer
<1>1. /\ m \in DOMAIN FIRST /\ m + 1 \in DOMAIN FIRST /\ m \in Nat
      /\ FIRST[m] \in Nat \ {0} /\ FIRST[m + 1] \in Nat \ {0}
      /\ FIRST[m] <= d /\ d < FIRST[m + 1] /\ d \in Int
  <2>1. m \in DOMAIN FIRST /\ m + 1 \in DOMAIN FIRST /\ m \in Nat
    BY MonthFacts DEF Months
  <2>2. FIRST[m] \in Nat \ {0} /\ FIRST[m + 1] \in Nat \ {0}
    BY <2>1, MonthFacts
  <2> QED
    BY <2>1, <2>2 DEF DaysOf
<1>2. ASSUME NEW n \in Months, d \in DaysOf(n)
      PROVE  n = m
  <2>1. /\ n \in DOMAIN FIRST /\ n + 1 \in DOMAIN FIRST /\ n \in Nat
    BY MonthFacts DEF Months
  <2>2. FIRST[n] \in Nat \ {0} /\ FIRST[n + 1] \in Nat \ {0}
    BY <2>1, MonthFacts
  <2>3. FIRST[n] <= d /\ d < FIRST[n + 1]
    BY <1>2, <2>2 DEF DaysOf
  <2>4. ~(n < m)
    <3>1. n + 1 < m => FIRST[n + 1] < FIRST[m]
      BY <1>1, <2>1, MonthFacts
    <3> QED
      BY <1>1, <2>1, <2>2, <2>3, <3>1
  <2>5. ~(m < n)
    <3>1. m + 1 < n => FIRST[m + 1] < FIRST[n]
      BY <1>1, <2>1, MonthFacts
    <3> QED
      BY <1>1, <2>1, <2>2, <2>3, <3>1
  <2> QED
    BY <1>1, <2>1, <2>4, <2>5
<1>3. MonthOf(d) = m
  BY <1>2 DEF MonthOf
<1> QED
  BY <1>1, <1>3 DEF IsDay, NoOffer

LEMMA TodayFacts ==
  ASSUME today \in Nat, FIRST[1] <= today, today <= FIRST[1] + PLAN_DAYS
  PROVE  MonthOf(today) \in Months /\ today \in DaysOf(MonthOf(today))
<1>1. FIRST[1] \in Int /\ PLAN_DAYS \in Nat
  BY MonthFacts
<1>2. PICK m \in 1 .. Len(FIRST) - 1 : FIRST[m] <= today /\ today < FIRST[m + 1]
  BY <1>1, PlannerConstants
<1>3. m \in Months /\ today \in DaysOf(m)
  <2>1. m \in DOMAIN FIRST /\ m + 1 \in DOMAIN FIRST
    BY <1>2, MonthFacts
  <2>2. FIRST[m] \in Nat /\ FIRST[m + 1] \in Nat
    BY <2>1, MonthFacts
  <2> QED
    BY <1>2, <2>2 DEF Months, DaysOf
<1> QED
  BY <1>3, DayFacts

-----------------------------------------------------------------------------
(* What a payload is made of. *)

LEMMA SlotIs ==
  ASSUME NEW pillar, NEW campaign
  PROVE  /\ IsSlot(Slot(pillar, campaign)) /\ Slot(pillar, campaign).campaign = campaign
         /\ Slot(pillar, campaign).status = "planned"
  BY DEF Slot, IsSlot

LEMMA EmptySheet == ASSUME NEW days PROVE Sheet(NoPlan, days) /\ DOMAIN NoPlan = {}
  BY DEF Sheet, NoPlan

LEMMA PreferIs ==
  ASSUME NEW days, NEW slots, NEW others, Sheet(slots, days), Sheet(others, days)
  PROVE  /\ Sheet(Prefer(slots, others), days)
         /\ \A d : d \in DOMAIN Prefer(slots, others) <=>
                   d \in DOMAIN slots \/ d \in DOMAIN others
         /\ \A d \in DOMAIN slots : Prefer(slots, others)[d] = slots[d]
         /\ \A d \in DOMAIN others : d \notin DOMAIN slots => Prefer(slots, others)[d] = others[d]
<1> DEFINE both == Prefer(slots, others)
<1>1. /\ both = [d \in DOMAIN slots \union DOMAIN others |->
                   IF d \in DOMAIN slots THEN slots[d] ELSE others[d]]
  BY DEF Prefer
<1>2. /\ DOMAIN both = DOMAIN slots \union DOMAIN others
      /\ both = [d \in DOMAIN both |-> both[d]]
      /\ \A d \in DOMAIN slots : both[d] = slots[d]
      /\ \A d \in DOMAIN others : d \notin DOMAIN slots => both[d] = others[d]
  BY <1>1
<1>3. ASSUME NEW d \in DOMAIN both
      PROVE  IsSlot(both[d]) /\ d \in days
  BY <1>2 DEF Sheet
<1> HIDE DEF both
<1> QED
  BY <1>2, <1>3 DEF Sheet, both

LEMMA KeptIs ==
  ASSUME NEW days, NEW slots, Sheet(slots, days)
  PROVE  /\ Sheet(Kept(slots), days) /\ \A d \in DOMAIN Kept(slots) : MadeOn(Kept(slots), d)
         /\ \A d : MadeOn(slots, d) => MadeOn(Kept(slots), d)
<1> DEFINE made == {d \in DOMAIN slots : slots[d].status = "made"}
<1>1. Kept(slots) = [d \in made |-> slots[d]]
  BY DEF Kept, Restrict
<1>2. /\ DOMAIN Kept(slots) = made /\ \A d \in made : Kept(slots)[d] = slots[d]
  BY <1>1
<1>3. \A d \in made : IsSlot(slots[d]) /\ d \in days
  BY DEF Sheet
<1>4. Kept(slots) = [d \in DOMAIN Kept(slots) |-> Kept(slots)[d]]
  BY <1>1
<1>5. Sheet(Kept(slots), days)
  BY <1>2, <1>3, <1>4 DEF Sheet
<1> QED
  BY <1>2, <1>5 DEF MadeOn

LEMMA ArcsAre ==
  ASSUME NEW m, NEW days \in SUBSET DaysOf(m)
  PROVE  LET arcs == ArcSlots(m, days) IN
         /\ Sheet(arcs, DaysOf(m)) /\ DOMAIN arcs = {d \in days : ArcOn(m, d) # {}}
         /\ \A d \in DOMAIN arcs : arcs[d].campaign = "festival"
<1> DEFINE arcs == ArcSlots(m, days)
           on == {d \in days : ArcOn(m, d) # {}}
           pillar(d) == ARC_PILLAR[(CHOOSE a \in ArcOn(m, d) : \A b \in ArcOn(m, d) : a[1] <= b[1])[2]]
<1>1. arcs = [d \in on |-> Slot(pillar(d), "festival")]
  BY DEF ArcSlots
<1> HIDE DEF pillar
<1>2. DOMAIN arcs = on /\ \A d \in on : arcs[d] = Slot(pillar(d), "festival")
  BY <1>1
<1>3. \A d \in on : IsSlot(arcs[d]) /\ arcs[d].campaign = "festival"
  BY <1>2, SlotIs
<1>4. arcs = [d \in DOMAIN arcs |-> arcs[d]]
  BY <1>1
<1> QED
  BY <1>2, <1>3, <1>4 DEF Sheet

LEMMA LaunchIs ==
  ASSUME NEW days, NEW posting \in SUBSET days, NEW taken
  PROVE  Sheet(LaunchSlots(posting, taken), days)
<1> DEFINE slots == LaunchSlots(posting, taken)
           on == {x \in posting \ taken : Rank(posting, x) <= Len(LAUNCH_ARC)}
<1>1. slots = [d \in on |-> Slot(LAUNCH_ARC[Rank(posting, d)], "launch")]
  BY DEF LaunchSlots
<1>2. DOMAIN slots = on /\ \A d \in on : slots[d] = Slot(LAUNCH_ARC[Rank(posting, d)], "launch")
  BY <1>1
<1>3. \A d \in on : IsSlot(slots[d])
  BY <1>2, SlotIs
<1>4. slots = [d \in DOMAIN slots |-> slots[d]]
  BY <1>1
<1> QED
  BY <1>2, <1>3, <1>4 DEF Sheet

LEMMA FreeIs ==
  ASSUME NEW days, NEW free \in SUBSET days, NEW goal
  PROVE  Sheet(FreeSlots(goal, free), days)
<1> DEFINE slots == FreeSlots(goal, free)
           pillar(d) == WeightedPillars(MIX_BY_GOAL[goal], Cardinality(free))[Rank(free, d)]
<1>1. slots = [d \in free |-> Slot(pillar(d), "none")]
  BY DEF FreeSlots
<1> HIDE DEF pillar
<1>2. DOMAIN slots = free /\ \A d \in free : slots[d] = Slot(pillar(d), "none")
  BY <1>1
<1>3. \A d \in free : IsSlot(slots[d])
  BY <1>2, SlotIs
<1>4. slots = [d \in DOMAIN slots |-> slots[d]]
  BY <1>1
<1> QED
  BY <1>2, <1>3, <1>4 DEF Sheet

\* A day of an arc is one of ArcOn's, whichever month the festival is in.
LEMMA ArcDays ==
  ASSUME NEW m \in Months, NEW i \in DOMAIN FESTIVALS, NEW k \in DOMAIN FESTIVAL_ARC,
         FESTIVALS[i] - FESTIVAL_ARC[k] \in DaysOf(m)
  PROVE  ArcOn(m, FESTIVALS[i] - FESTIVAL_ARC[k]) # {}
<1>1. FESTIVALS[i] \in Nat
  BY PlannerConstants
<1>2. /\ FESTIVAL_ARC[1] = 5 /\ k \in 1 .. 3
      /\ FESTIVAL_ARC[k] \in Nat /\ FESTIVAL_ARC[k] <= 5
  BY DEF FESTIVAL_ARC
<1>3. FIRST[m] \in Nat /\ FIRST[m + 1] \in Nat
  <2>1. m \in DOMAIN FIRST /\ m + 1 \in DOMAIN FIRST
    BY MonthFacts DEF Months
  <2> QED
    BY <2>1, MonthFacts
<1> DEFINE f == FESTIVALS[i]
           a == FESTIVAL_ARC[k]
<1>4. FIRST[m] <= f - a /\ f - a <= FIRST[m + 1] - 1
  BY <1>1, <1>2, <1>3 DEF DaysOf
<1>5. f \in FIRST[m] .. FIRST[m + 1] - 1 + FESTIVAL_ARC[1]
  <2> HIDE DEF f, a
  <2>1. f \in Int /\ a \in Nat /\ a <= 5
    BY <1>1, <1>2 DEF f, a
  <2> QED
    BY <1>2, <1>3, <1>4, <2>1
<1>6. i \in FestivalsIn(m)
  BY <1>5 DEF FestivalsIn
<1>7. <<i, k>> \in ArcOn(m, f - a)
  BY <1>6 DEF ArcOn
<1> QED
  BY <1>7

LEMMA PayloadIs ==
  ASSUME NEW m \in Months, NEW goal, NEW cadence, NEW launch, NEW slots,
         Sheet(slots, DaysOf(m))
  PROVE  LET made == Payload(m, goal, cadence, launch, Kept(slots)) IN
         /\ Sheet(made, DaysOf(m)) /\ HasArcs(m, made)
         /\ \A d : MadeOn(slots, d) => MadeOn(made, d)
<1> DEFINE days == DaysOf(m)
           kept == Kept(slots)
           posting == PostingDays(m, cadence)
           arcs == ArcSlots(m, days \ DOMAIN kept)
           taken == DOMAIN kept \union DOMAIN arcs
           launched == IF launch THEN LaunchSlots(posting, taken) ELSE NoPlan
           free == posting \ (taken \union DOMAIN launched)
           rest == Prefer(launched, FreeSlots(goal, free))
           made == Prefer(kept, Prefer(arcs, rest))
<1>1. made = Payload(m, goal, cadence, launch, Kept(slots))
  BY DEF Payload
<1>2. posting \subseteq days /\ free \subseteq days
  BY DEF PostingDays
<1>3. /\ Sheet(kept, days) /\ \A d \in DOMAIN kept : MadeOn(kept, d)
      /\ \A d : MadeOn(slots, d) => MadeOn(kept, d)
  BY KeptIs
<1>4. /\ Sheet(arcs, days) /\ DOMAIN arcs = {d \in days \ DOMAIN kept : ArcOn(m, d) # {}}
      /\ \A d \in DOMAIN arcs : arcs[d].campaign = "festival"
  BY ArcsAre
<1>5. Sheet(launched, days)
  BY <1>2, LaunchIs, EmptySheet
<1>6. Sheet(FreeSlots(goal, free), days)
  BY <1>2, FreeIs
<1>7. Sheet(rest, days)
  BY <1>5, <1>6, PreferIs
<1> HIDE DEF kept, arcs, rest, days
<1> DEFINE lower == Prefer(arcs, rest)
<1>8. /\ Sheet(lower, days)
      /\ \A d : d \in DOMAIN lower <=> d \in DOMAIN arcs \/ d \in DOMAIN rest
      /\ \A d \in DOMAIN arcs : lower[d] = arcs[d]
  BY <1>4, <1>7, PreferIs
<1> HIDE DEF lower
<1> DEFINE whole == Prefer(kept, lower)
<1>9. /\ Sheet(whole, days)
      /\ \A d : d \in DOMAIN whole <=> d \in DOMAIN kept \/ d \in DOMAIN lower
      /\ \A d \in DOMAIN kept : whole[d] = kept[d]
      /\ \A d \in DOMAIN lower : d \notin DOMAIN kept => whole[d] = lower[d]
  BY <1>3, <1>8, PreferIs
<1>0. whole = made
  BY DEF lower
<1> HIDE DEF made, whole
<1>10. \A d : MadeOn(slots, d) => MadeOn(made, d)
  BY <1>3, <1>9, <1>0 DEF MadeOn
<1>11. HasArcs(m, made)
  <2> SUFFICES ASSUME NEW i \in DOMAIN FESTIVALS, NEW k \in DOMAIN FESTIVAL_ARC,
                      NEW d, d = FESTIVALS[i] - FESTIVAL_ARC[k], d \in DaysOf(m)
               PROVE  d \in DOMAIN made
                        /\ (made[d].status = "planned" => made[d].campaign = "festival")
    BY DEF HasArcs
  <2>1. CASE d \in DOMAIN kept
    <3>1. made[d].status = "made"
      BY <1>0, <1>3, <1>9, <2>1 DEF MadeOn
    <3> QED
      BY <1>0, <1>9, <2>1, <3>1
  <2>2. CASE d \notin DOMAIN kept
    <3>1. d \in DOMAIN arcs
      BY <1>4, <2>2, ArcDays DEF days
    <3> QED
      BY <1>0, <1>4, <1>8, <1>9, <2>2, <3>1
  <2> QED
    BY <2>1, <2>2
<1> QED
  BY <1>0, <1>1, <1>9, <1>10, <1>11 DEF days
LEMMA MarkedIs ==
  ASSUME NEW m \in Months, NEW slots, Sheet(slots, DaysOf(m)), HasArcs(m, slots),
         NEW d \in DOMAIN slots, slots[d].status = "planned"
  PROVE  LET made == [slots EXCEPT ![d].status = "made"] IN
         /\ Sheet(made, DaysOf(m)) /\ HasArcs(m, made)
         /\ \A e : MadeOn(slots, e) => MadeOn(made, e)
         /\ MadeOn(made, d) /\ ~MadeOn(slots, d)
<1> DEFINE made == [slots EXCEPT ![d].status = "made"]
           days == DaysOf(m)
           old == slots[d]
           new == [old EXCEPT !.status = "made"]
<1>1. /\ DOMAIN slots \subseteq days /\ slots = [e \in DOMAIN slots |-> slots[e]]
      /\ \A e \in DOMAIN slots : IsSlot(slots[e])
  BY DEF Sheet
<1>2. /\ new.status = "made" /\ new.campaign = old.campaign /\ IsSlot(new)
  BY <1>1 DEF IsSlot
<1> HIDE DEF new
<1>3. made = [slots EXCEPT ![d] = new]
  BY DEF new
<1>4. /\ DOMAIN made = DOMAIN slots /\ made[d] = new
      /\ \A e \in DOMAIN slots : e # d => made[e] = slots[e]
      /\ made = [e \in DOMAIN made |-> made[e]]
  BY <1>1, <1>3
<1> HIDE DEF made, days
<1>5. Sheet(made, days)
  BY <1>1, <1>2, <1>4 DEF Sheet
<1>6. HasArcs(m, made)
  <2> SUFFICES ASSUME NEW i \in DOMAIN FESTIVALS, NEW k \in DOMAIN FESTIVAL_ARC,
                      NEW e, e = FESTIVALS[i] - FESTIVAL_ARC[k], e \in DaysOf(m)
               PROVE  e \in DOMAIN made
                        /\ (made[e].status = "planned" => made[e].campaign = "festival")
    BY DEF HasArcs
  <2>1. e \in DOMAIN slots /\ (slots[e].status = "planned" => slots[e].campaign = "festival")
    BY DEF HasArcs
  <2> QED
    BY <1>2, <1>4, <2>1
<1>7. /\ \A e : MadeOn(slots, e) => MadeOn(made, e)
      /\ MadeOn(made, d) /\ ~MadeOn(slots, d)
  BY <1>2, <1>4 DEF MadeOn
<1> QED
  BY <1>5, <1>6, <1>7 DEF made, days

-----------------------------------------------------------------------------
(* The steps. *)

\* What a turn writes: made days of the plan before are in it, or are overwritten.
LEMMA WriteOk ==
  ASSUME PlanInv, NEW w \in Workers, turn[w].at \in {"build", "mark"},
         Write(w, turn[w].month),
         \/ closed' = closed
         \/ turn[w].at = "mark" /\ closed' = closed \union {turn[w].day}
  PROVE  /\ plan' = [m \in Months |-> plan'[m]]
         /\ \A m \in Months :
              Sheet(plan'[m], DaysOf(m)) /\ (plan'[m] # NoPlan => HasArcs(m, plan'[m]))
         /\ \A d \in closed' : IsDay(d)
         /\ \A d \in closed' \ overwritten' : MadeOn(plan'[MonthOf(d)], d)
<1> DEFINE t == turn[w]
           m == t.month
           base == t.base
           slots == t.slots
           day == t.day
<1>1. /\ plan = [n \in Months |-> plan[n]]
      /\ \A n \in Months : Sheet(plan[n], DaysOf(n)) /\ (plan[n] # NoPlan => HasArcs(n, plan[n]))
      /\ \A d \in closed : IsDay(d)
      /\ \A d \in closed \ overwritten : MadeOn(plan[MonthOf(d)], d)
  BY DEF PlanInv
<1>2. /\ m \in Months /\ Sheet(slots, DaysOf(m)) /\ HasArcs(m, slots)
      /\ \A d : MadeOn(base, d) => MadeOn(slots, d)
      /\ t.at = "build" => day = NoOffer
      /\ t.at = "mark" => day \in DaysOf(m) /\ MadeOn(slots, day) /\ ~MadeOn(base, day)
  <2>1. TurnInv(t)
    BY DEF PlanInv
  <2> QED
    BY <2>1 DEF TurnInv
<1>3. \A d \in closed' : IsDay(d)
  BY <1>1, <1>2, DayFacts
<1>4. \A d \in closed : d # NoOffer /\ MonthOf(d) \in Months
  BY <1>1, DayFacts DEF IsDay
<1>5. t.at = "mark" => MonthOf(day) = m
  BY <1>2, DayFacts
<1> DEFINE lost == {d \in DOMAIN plan[m] : plan[m][d].status = "made"
                      /\ ~(d \in DOMAIN base /\ base[d].status = "made")}
<1>6. \/ slots = base /\ plan' = plan /\ overwritten' = overwritten
      \/ /\ plan' = [plan EXCEPT ![m] = slots]
         /\ overwritten' = overwritten \union (lost \ {day})
  BY DEF Write
<1>7. \A d : d \in lost <=> MadeOn(plan[m], d) /\ ~MadeOn(base, d)
  BY DEF MadeOn
<1>8. t.at \in {"build", "mark"}
  OBVIOUS
<1>9. closed' = closed \/ (t.at = "mark" /\ closed' = closed \union {day})
  OBVIOUS
<1> HIDE DEF lost, m, base, slots, day, t
<1>10. CASE slots = base /\ plan' = plan /\ overwritten' = overwritten
  <2>1. t.at # "mark"
    BY <1>2, <1>10
  <2>2. closed' = closed
    BY <1>9, <2>1
  <2> QED
    BY <1>1, <1>10, <2>2
<1>11. CASE /\ plan' = [plan EXCEPT ![m] = slots]
            /\ overwritten' = overwritten \union (lost \ {day})
  <2>1. /\ plan' = [n \in Months |-> plan'[n]] /\ plan'[m] = slots
        /\ \A n \in Months : n # m => plan'[n] = plan[n]
    BY <1>1, <1>2, <1>11
  <2>2. \A n \in Months :
          Sheet(plan'[n], DaysOf(n)) /\ (plan'[n] # NoPlan => HasArcs(n, plan'[n]))
    <3> SUFFICES ASSUME NEW n \in Months
                 PROVE  Sheet(plan'[n], DaysOf(n)) /\ (plan'[n] # NoPlan => HasArcs(n, plan'[n]))
      OBVIOUS
    <3> QED
      BY <1>1, <1>2, <2>1
  <2>3. ASSUME NEW d \in closed' \ overwritten' PROVE MadeOn(plan'[MonthOf(d)], d)
    <3>1. CASE d \in closed
      <4>1. d \notin overwritten /\ d \notin lost \ {day}
        BY <1>11, <2>3
      <4>2. MadeOn(plan[MonthOf(d)], d) /\ MonthOf(d) \in Months
        BY <1>1, <1>4, <3>1, <4>1
      <4>3. CASE MonthOf(d) # m
        BY <2>1, <4>2, <4>3
      <4>4. CASE MonthOf(d) = m /\ d = day
        <5>1. t.at = "mark"
          BY <1>2, <1>4, <1>8, <3>1, <4>4
        <5> QED
          BY <1>2, <2>1, <4>4, <5>1
      <4>5. CASE MonthOf(d) = m /\ d # day
        <5>1. d \notin lost
          BY <4>1, <4>5
        <5>2. MadeOn(base, d)
          BY <1>7, <4>2, <4>5, <5>1
        <5> QED
          BY <1>2, <2>1, <4>5, <5>2
      <4> QED
        BY <4>3, <4>4, <4>5
    <3>2. CASE d \notin closed
      <4>1. t.at = "mark" /\ d = day
        BY <1>9, <2>3, <3>2
      <4> QED
        BY <1>2, <1>5, <2>1, <4>1
    <3> QED
      BY <3>1, <3>2
  <2> QED
    BY <1>3, <2>1, <2>2, <2>3
<1> QED
  BY <1>6, <1>10, <1>11

LEMMA SlotForIs ==
  ASSUME NEW slots, NEW day \in Nat, \A d \in DOMAIN slots : d \in Nat
  PROVE  SlotFor(slots, day) = NoOffer \/ SlotFor(slots, day) \in DOMAIN slots
<1> DEFINE planned == {d \in DOMAIN slots : slots[d].status = "planned"}
           early == day - Weekday(day)
           missed == {d \in planned : early <= d /\ d < day}
<1>1. Weekday(day) \in 0 .. 6
  BY DEF Weekday
<1>2. \A d \in missed : d \in Int /\ day - 6 <= d /\ d <= day - 1
  BY <1>1
<1>3. missed \subseteq planned
  OBVIOUS
<1> HIDE DEF planned, missed
<1>4. ASSUME missed # {} PROVE \E x \in missed : \A y \in missed : x >= y
  <2>1. CASE day - 1 \in missed
    BY <1>2, <2>1
  <2>2. CASE day - 1 \notin missed /\ day - 2 \in missed
    BY <1>2, <2>2
  <2>3. CASE day - 1 \notin missed /\ day - 2 \notin missed /\ day - 3 \in missed
    BY <1>2, <2>3
  <2>4. CASE \A n \in 1 .. 3 : day - n \notin missed
    <3>1. \A d \in missed : d \in day - 6 .. day - 4
      BY <1>2, <2>4
    <3>2. CASE day - 4 \in missed
      BY <3>1, <3>2
    <3>3. CASE day - 4 \notin missed /\ day - 5 \in missed
      BY <3>1, <3>3
    <3>4. CASE day - 4 \notin missed /\ day - 5 \notin missed
      BY <1>4, <3>1, <3>4
    <3> QED
      BY <3>2, <3>3, <3>4
  <2> QED
    BY <2>1, <2>2, <2>3, <2>4
<1>5. missed # {} => Max(missed) \in missed
  BY <1>4 DEF Max
<1> QED
  BY <1>3, <1>5 DEF SlotFor, planned, missed
LEMMA PlanInitOk == PlannerInit => PlanInv
<1> SUFFICES ASSUME PlannerInit PROVE PlanInv
  OBVIOUS
<1>1. 1 \in Months
  BY PlannerConstants, MonthFacts DEF Months
<1>2. today \in Nat /\ FIRST[1] <= today /\ today <= FIRST[1] + PLAN_DAYS
  BY MonthFacts DEF PlannerInit
<1>3. \A w \in Workers : TurnInv(turn[w])
  BY DEF PlannerInit, TurnInv, Resting
<1>4. \A m \in Months : Sheet(plan[m], DaysOf(m)) /\ plan[m] = NoPlan
  BY EmptySheet DEF PlannerInit
<1>5. /\ plan = [m \in Months |-> plan[m]] /\ turn = [w \in Workers |-> turn[w]]
      /\ offer = NoOffer /\ closed = {}
  BY DEF PlannerInit
<1> QED
  BY <1>2, <1>3, <1>4, <1>5 DEF PlanInv

\* A step that leaves the plan and moves one turn.
LEMMA TurnMoves ==
  ASSUME PlanInv, NEW w \in Workers, NEW t, TurnInv(t), turn' = [turn EXCEPT ![w] = t],
         UNCHANGED <<today, plan, closed, overwritten>>, offer' = NoOffer \/ offer' = offer
  PROVE  PlanInv'
<1>1. \A x \in Workers : TurnInv(turn'[x])
  BY DEF PlanInv
<1>2. turn' = [x \in Workers |-> turn'[x]]
  BY DEF PlanInv
<1> QED
  BY <1>1, <1>2 DEF PlanInv

LEMMA RestingOk == TurnInv(Resting)
  BY DEF TurnInv, Resting

\* A step that writes what the turn holds, and ends it.
LEMMA TurnWrites ==
  ASSUME PlanInv, NEW w \in Workers, turn[w].at \in {"build", "mark"},
         Write(w, turn[w].month), turn' = [turn EXCEPT ![w] = Resting],
         \/ closed' = closed
         \/ turn[w].at = "mark" /\ closed' = closed \union {turn[w].day},
         UNCHANGED <<today, offer>>
  PROVE  PlanInv'
<1>1. /\ \A x \in Workers : TurnInv(turn'[x])
      /\ turn' = [x \in Workers |-> turn'[x]]
  BY RestingOk DEF PlanInv
<1>2. /\ plan' = [m \in Months |-> plan'[m]]
      /\ \A m \in Months :
           Sheet(plan'[m], DaysOf(m)) /\ (plan'[m] # NoPlan => HasArcs(m, plan'[m]))
      /\ \A d \in closed' : IsDay(d)
      /\ \A d \in closed' \ overwritten' : MadeOn(plan'[MonthOf(d)], d)
  BY WriteOk
<1>3. /\ today' \in Nat /\ FIRST[1] <= today' /\ today' <= FIRST[1] + PLAN_DAYS
      /\ offer' = NoOffer \/ IsDay(offer')
  BY DEF PlanInv
<1> QED
  BY <1>1, <1>2, <1>3 DEF PlanInv

LEMMA PlanStepOk == PlanInv /\ [PlannerNext]_plannerVars => PlanInv'
<1> SUFFICES ASSUME PlanInv, [PlannerNext]_plannerVars PROVE PlanInv'
  OBVIOUS
<1>0. /\ today \in Nat /\ FIRST[1] <= today /\ today <= FIRST[1] + PLAN_DAYS
      /\ plan = [m \in Months |-> plan[m]] /\ turn = [w \in Workers |-> turn[w]]
      /\ \A m \in Months :
           Sheet(plan[m], DaysOf(m)) /\ (plan[m] # NoPlan => HasArcs(m, plan[m]))
      /\ offer = NoOffer \/ IsDay(offer)
      /\ \A w \in Workers : TurnInv(turn[w])
  BY DEF PlanInv
<1>1. ASSUME NEW w \in Workers, BuildRead(w) PROVE PlanInv'
  <2>1. PICK m \in Months, request \in REQUESTS :
          turn' = [turn EXCEPT ![w] =
            [at |-> "build", month |-> m, base |-> plan[m], day |-> NoOffer,
             slots |-> Payload(m, request[1], request[2], request[3], Kept(plan[m]))]]
    BY <1>1 DEF BuildRead
  <2> DEFINE made == Payload(m, request[1], request[2], request[3], Kept(plan[m]))
             t == [at |-> "build", month |-> m, base |-> plan[m], day |-> NoOffer,
                   slots |-> made]
  <2>2. Sheet(plan[m], DaysOf(m))
    BY <1>0
  <2>3. /\ Sheet(made, DaysOf(m)) /\ HasArcs(m, made)
        /\ \A d : MadeOn(plan[m], d) => MadeOn(made, d)
    BY <2>2, PayloadIs
  <2> HIDE DEF made
  <2>4. TurnInv(t)
    BY <2>2, <2>3 DEF TurnInv
  <2>5. turn' = [turn EXCEPT ![w] = t]
    BY <2>1 DEF made
  <2> HIDE DEF t
  <2>6. UNCHANGED <<today, plan, offer, closed, overwritten>>
    BY <1>1 DEF BuildRead
  <2> QED
    BY <2>4, <2>5, <2>6, TurnMoves
<1>2. ASSUME NEW w \in Workers, BuildCommit(w) PROVE PlanInv'
  <2>1. /\ turn[w].at = "build" /\ turn' = [turn EXCEPT ![w] = Resting]
        /\ UNCHANGED <<begun, today, offer, closed>>
        /\ UNCHANGED <<plan, overwritten>> \/ Write(w, turn[w].month)
    BY <1>2 DEF BuildCommit
  <2>2. CASE UNCHANGED <<plan, overwritten>>
    BY <2>1, <2>2, TurnMoves, RestingOk
  <2>3. CASE Write(w, turn[w].month)
    BY <2>1, <2>3, TurnWrites
  <2> QED
    BY <2>1, <2>2, <2>3
<1>3. CASE SuggestSlot
  <2> DEFINE m == MonthOf(today)
  <2>1. m \in Months /\ \A d \in DaysOf(m) : d \in Nat /\ IsDay(d)
    BY <1>0, TodayFacts, DayFacts
  <2>2. DOMAIN plan[m] \subseteq DaysOf(m)
    BY <1>0, <2>1 DEF Sheet
  <2>3. offer' = SlotFor(plan[m], today)
    BY <1>3 DEF SuggestSlot
  <2> HIDE DEF m
  <2>4. offer' = NoOffer \/ offer' \in DOMAIN plan[m]
    BY <1>0, <2>1, <2>2, <2>3, SlotForIs
  <2>5. offer' = NoOffer \/ IsDay(offer')
    BY <2>1, <2>2, <2>4
  <2>6. UNCHANGED <<today, plan, turn, closed, overwritten>>
    BY <1>3 DEF SuggestSlot
  <2> QED
    BY <2>5, <2>6 DEF PlanInv
<1>4. ASSUME NEW w \in Workers, MakeOffered(w) PROVE PlanInv'
  <2> DEFINE t == [Resting EXCEPT !.at = "make", !.day = offer]
  <2>1. /\ offer # NoOffer /\ turn' = [turn EXCEPT ![w] = t]
        /\ UNCHANGED <<today, plan, offer, closed, overwritten>>
    BY <1>4 DEF MakeOffered
  <2>2. t.at = "make" /\ t.day = offer
    BY DEF Resting
  <2> HIDE DEF t
  <2>3. TurnInv(t)
    BY <1>0, <2>1, <2>2 DEF TurnInv
  <2> QED
    BY <2>1, <2>3, TurnMoves
<1>5. ASSUME NEW w \in Workers, NotMade(w) PROVE PlanInv'
  BY <1>5, TurnMoves, RestingOk DEF NotMade
<1>6. ASSUME NEW w \in Workers, MarkRead(w) PROVE PlanInv'
  <2> DEFINE d == turn[w].day
             m == MonthOf(d)
             slots == plan[m]
             marked == [slots EXCEPT ![d].status = "made"]
             t == [at |-> "mark", month |-> m, base |-> slots, day |-> d, slots |-> marked]
             open == d \in DOMAIN slots /\ slots[d].status = "planned"
  <2>1. /\ turn[w].at = "make" /\ offer' = NoOffer
        /\ turn' = [turn EXCEPT ![w] = IF open THEN t ELSE Resting]
        /\ UNCHANGED <<begun, today, plan, closed, overwritten>>
    BY <1>6 DEF MarkRead
  <2>2. m \in Months /\ d \in DaysOf(m)
    <3>1. IsDay(d)
      BY <1>0, <2>1 DEF TurnInv
    <3> QED
      BY <3>1, DayFacts DEF IsDay
  <2>3. Sheet(slots, DaysOf(m)) /\ (slots # NoPlan => HasArcs(m, slots))
    BY <1>0, <2>2
  <2>4. open => TurnInv(t)
    <3> SUFFICES ASSUME open PROVE TurnInv(t)
      OBVIOUS
    <3>1. slots # NoPlan
      BY EmptySheet
    <3> HIDE DEF slots, m, d
    <3>2. /\ Sheet(marked, DaysOf(m)) /\ HasArcs(m, marked)
          /\ \A e : MadeOn(slots, e) => MadeOn(marked, e)
          /\ MadeOn(marked, d) /\ ~MadeOn(slots, d)
      BY <2>2, <2>3, <3>1, MarkedIs
    <3>3. IsDay(d)
      BY <2>2, DayFacts
    <3> HIDE DEF marked
    <3> QED
      BY <2>2, <3>2, <3>3 DEF TurnInv
  <2> DEFINE next == IF open THEN t ELSE Resting
  <2>5. TurnInv(next)
    <3> HIDE DEF t, open
    <3> QED
      BY <2>4, RestingOk
  <2>6. turn' = [turn EXCEPT ![w] = next]
    BY <2>1
  <2> HIDE DEF next
  <2> QED
    BY <2>1, <2>5, <2>6, TurnMoves
<1>7. ASSUME NEW w \in Workers, MarkCommit(w) PROVE PlanInv'
  BY <1>7, TurnWrites DEF MarkCommit
<1>8. CASE MidnightPasses
  <2>1. today' = today + 1 /\ today < FIRST[1] + PLAN_DAYS
        /\ UNCHANGED <<plan, offer, turn, closed, overwritten>>
    BY <1>8 DEF MidnightPasses
  <2>2. today' \in Nat /\ FIRST[1] <= today' /\ today' <= FIRST[1] + PLAN_DAYS
    BY <1>0, <2>1, MonthFacts
  <2> QED
    BY <2>1, <2>2 DEF PlanInv
<1>9. CASE UNCHANGED plannerVars
  BY <1>9 DEF plannerVars, PlanInv
<1> QED
  BY <1>1, <1>2, <1>3, <1>4, <1>5, <1>6, <1>7, <1>8, <1>9 DEF PlannerNext, PlannerTurn

\* What was made stays in the plan, and the festivals' arcs are in it.
LEMMA PlanInvImplies == PlanInv => PlansAsPromised
<1> SUFFICES ASSUME PlanInv PROVE MadeStays /\ ArcsCovered
  BY DEF PlansAsPromised
<1>1. MadeStays
  BY DEF PlanInv, MadeStays, MadeOn
<1>2. ArcsCovered
  <2>1. \A m \in Months : plan[m] # NoPlan => HasArcs(m, plan[m])
    BY DEF PlanInv
  <2> QED
    BY <2>1 DEF ArcsCovered, HasArcs
<1> QED
  BY <1>1, <1>2

\* A slot committed as made stays made in every later plan, unless a turn that had read the
\* plan before wrote it afterwards, and every day of a festival's arc has its post (build,
\* mark and the tools that commit them, plan.py), whatever the calendar and the requests.
THEOREM PlansStand == Spec => []PlansAsPromised
<1>1. Init => PlanInv
  BY PartsInit, PlanInitOk
<1>2. PlanInv /\ [Next]_vars => PlanInv'
  BY PartsStep, PlanStepOk
<1> QED
  BY <1>1, <1>2, PlanInvImplies, PTL DEF Spec

-----------------------------------------------------------------------------
(* The numbers of the posts. *)

LEMMA Times ==
  ASSUME NEW k \in Nat \ {0}, NEW a \in Int, NEW b \in Int, a <= b
  PROVE  k * a <= k * b
<1>1. k * b = k * a + k * (b - a)
  OBVIOUS
<1>2. k * (b - a) >= 0
  OBVIOUS
<1>3. k * a \in Int /\ k * b \in Int /\ k * (b - a) \in Int
  OBVIOUS
<1> QED
  BY <1>1, <1>2, <1>3

LEMMA DayIs ==
  ASSUME NEW t \in Nat
  PROVE  Day(t) \in Nat /\ PARTS * Day(t) <= t /\ t < PARTS * Day(t) + PARTS
  BY LoginConstants DEF Day

LEMMA DayLater ==
  ASSUME NEW t \in Nat, NEW u \in Nat, t <= u
  PROVE  Day(t) <= Day(u)
<1>1. PARTS \in Nat \ {0}
  BY LoginConstants
<1>2. /\ Day(t) \in Nat /\ PARTS * Day(t) <= t
      /\ Day(u) \in Nat /\ u < PARTS * Day(u) + PARTS
  BY DayIs
<1>3. ASSUME Day(u) < Day(t) PROVE FALSE
  <2>1. PARTS * (Day(u) + 1) <= PARTS * Day(t)
    BY <1>1, <1>2, <1>3, Times
  <2>2. PARTS * (Day(u) + 1) = PARTS * Day(u) + PARTS
    BY <1>1, <1>2
  <2> QED
    BY <1>1, <1>2, <2>1, <2>2
<1> QED
  BY <1>2, <1>3
Waiting == {"queued", "running"}

\* While no fault has come and no token has died: a sync is asked for once a day, of a
\* connected account, and ends on the day it was asked for; what it leaves in the stamp is
\* of that day, or of the part of a day before when a sync aside that began then ends last;
\* and a part that has had its sweep and asked for none was read lately, or the account
\* came after the sweep.
ReadOnTime ==
  /\ \A d \in Days : job[d].state # "none" =>
       /\ d <= Day(now) /\ Connected # {} /\ job[d].state # "dead"
       /\ job[d].state \in Waiting => d = Day(now)
       /\ job[d].state = "done" => stamp >= PARTS * d - 1
  /\ \A w \in Callers : call[w] # NoCall => call[w].began \in Nat /\ call[w].began >= now - 1
  /\ \A w \in Callers : call[w].kind = "sync" =>
       /\ call[w] # NoCall /\ job[Day(now)].state = "running"
       /\ call[w].began >= PARTS * Day(now)
       /\ \A x \in Callers : call[x].kind = "sync" => x = w
  /\ swept /\ job[Day(now)].state = "none" =>
       \/ Connected = {} \/ since = now
       \/ now - stamp < RESYNC \/ now - stamp <= 1

JobStates == {"none", "queued", "running", "done", "dead"}
CallRecords ==
  [kind : {"none", "post", "posting", "sync", "aside"}, user : Users \union {NoUser},
   token : Nat, began : Nat]

NumbersTyped ==
  /\ now \in Nat /\ now <= MAX_NOW /\ stamp \in Int /\ since \in Nat /\ faults \in Nat
  /\ job \in [Days -> [state : JobStates, tries : Nat]]
  /\ call \in [Callers -> CallRecords]

NumbersInv == LoginInv /\ NumbersTyped /\ (faults = 0 /\ dead = {} => ReadOnTime)

LEMMA NoCallIs == NoCall \in CallRecords /\ NoCall.kind = "none" /\ NoCall.began = 0
  BY DEF NoCall, CallRecords

LEMMA TodayIs == NumbersTyped => Day(now) \in Days /\ Day(now) \in Nat
<1> SUFFICES ASSUME NumbersTyped PROVE Day(now) \in Days /\ Day(now) \in Nat
  OBVIOUS
<1>1. now \in Nat /\ MAX_NOW \in Nat /\ now <= MAX_NOW
  BY LoginConstants DEF NumbersTyped
<1>2. Day(now) \in Nat /\ Day(MAX_NOW) \in Nat /\ Day(now) <= Day(MAX_NOW)
  BY <1>1, DayIs, DayLater
<1> QED
  BY <1>2 DEF Days

LEMMA NumbersInitOk == LoginInit => NumbersInv
<1> SUFFICES ASSUME LoginInit PROVE NumbersInv
  OBVIOUS
<1>1. LoginInv
  BY LoginInitOk
<1>2. NumbersTyped
  <2>1. stamp \in Int
    BY LoginConstants DEF LoginInit, NeverRead
  <2>2. call \in [Callers -> CallRecords]
    BY NoCallIs DEF LoginInit
  <2>3. job \in [Days -> [state : JobStates, tries : Nat]]
    BY DEF LoginInit, JobStates
  <2> QED
    BY <2>1, <2>2, <2>3, LoginConstants DEF LoginInit, NumbersTyped
<1>3. ReadOnTime
  BY NoCallIs DEF LoginInit, ReadOnTime, Connected, Unconnected
<1> QED
  BY <1>1, <1>2, <1>3 DEF NumbersInv

-----------------------------------------------------------------------------
\* A call that begins, and one that ends.
LEMMA BeginCallIs ==
  ASSUME NumbersInv, NEW w \in Callers, NEW kind \in {"post", "sync", "aside"},
         BeginCall(w, kind)
  PROVE  /\ call' \in [Callers -> CallRecords]
         /\ call'[w].kind = kind /\ call'[w].began = now /\ call'[w] # NoCall
         /\ \A x \in Callers \ {w} : call'[x] = call[x]
<1>1. PICK u \in Connected :
        call' = [call EXCEPT ![w] = [kind |-> kind, user |-> u, token |-> row[u].token, began |-> now]]
  BY DEF BeginCall
<1> DEFINE new == [kind |-> kind, user |-> u, token |-> row[u].token, began |-> now]
<1>2. new \in CallRecords
  BY DEF NumbersInv, NumbersTyped, LoginInv, Connected, CallRecords
<1>3. new.kind = kind /\ new.began = now
  OBVIOUS
<1>4. call' = [call EXCEPT ![w] = new]
  BY <1>1
<1> HIDE DEF new
<1>5. call \in [Callers -> CallRecords]
  BY DEF NumbersInv, NumbersTyped
<1>6. new # NoCall
  BY <1>3, NoCallIs
<1> QED
  BY <1>2, <1>3, <1>4, <1>5, <1>6

LEMMA EndIs ==
  ASSUME NumbersTyped, NEW w \in Callers, End(w)
  PROVE  /\ call' \in [Callers -> CallRecords] /\ call'[w] = NoCall
         /\ \A x \in Callers \ {w} : call'[x] = call[x]
  BY NoCallIs DEF End, NumbersTyped

LEMMA EndSyncIs ==
  ASSUME NumbersTyped, NEW w \in Callers, NEW state \in JobStates, EndSync(w, state)
  PROVE  /\ job' \in [Days -> [state : JobStates, tries : Nat]]
         /\ call[w].kind # "sync" => job' = job
         /\ call[w].kind = "sync" => \A d \in Days :
              job'[d].state = IF job[d].state = "running" THEN state ELSE job[d].state
<1>1. CASE call[w].kind # "sync"
  BY <1>1 DEF EndSync, NumbersTyped
<1>2. CASE call[w].kind = "sync"
  <2>1. job' = [d \in Days |-> IF job[d].state = "running" THEN [job[d] EXCEPT !.state = state]
                               ELSE job[d]]
    BY <1>2 DEF EndSync
  <2>2. ASSUME NEW d \in Days
        PROVE  /\ job[d] \in [state : JobStates, tries : Nat]
               /\ [job[d] EXCEPT !.state = state] \in [state : JobStates, tries : Nat]
               /\ [job[d] EXCEPT !.state = state].state = state
    BY DEF NumbersTyped
  <2> QED
    BY <1>2, <2>1, <2>2
<1> QED
  BY <1>1, <1>2

LEMMA NumbersTypedOk == NumbersInv /\ [LoginNext]_loginVars => NumbersTyped'
<1> SUFFICES ASSUME NumbersInv, [LoginNext]_loginVars PROVE NumbersTyped'
  OBVIOUS
<1>0. /\ LoginInv /\ NumbersTyped /\ Day(now) \in Days
  BY TodayIs DEF NumbersInv
<1>1. CASE UNCHANGED <<now, call, job, stamp, faults>> /\ since' \in {since, now}
  BY <1>0, <1>1 DEF NumbersTyped
<1>2. ASSUME NEW w \in Callers, BeginPost(w) \/ BeginAside(w) PROVE NumbersTyped'
  <2>1. UNCHANGED <<now, job, stamp, since, faults>> /\ (BeginCall(w, "post") \/ BeginCall(w, "aside"))
    BY <1>2 DEF BeginPost, BeginAside
  <2>2. call' \in [Callers -> CallRecords]
    BY <2>1, BeginCallIs
  <2> QED
    BY <1>0, <2>1, <2>2 DEF NumbersTyped
<1>3. ASSUME NEW w \in Callers, RefreshToken(w) PROVE NumbersTyped'
  <2>1. /\ minted' = minted + 1 /\ minted \in Nat
        /\ call' = [call EXCEPT ![w].token = minted', ![w].kind = "posting"]
        /\ UNCHANGED <<now, job, stamp, since, faults>>
    BY <1>0, <1>3 DEF RefreshToken, LoginInv
  <2>2. call' \in [Callers -> CallRecords]
    <3>1. minted' \in Nat
      BY <2>1
    <3>2. call \in [Callers -> CallRecords]
      BY <1>0 DEF NumbersTyped
    <3>3. [call[w] EXCEPT !.token = minted', !.kind = "posting"] \in CallRecords
      BY <3>1, <3>2 DEF CallRecords
    <3> QED
      BY <2>1, <3>2, <3>3
  <2> QED
    BY <1>0, <2>1, <2>2 DEF NumbersTyped
<1>4. ASSUME NEW w \in Callers, BeginSync(w) PROVE NumbersTyped'
  <2>1. PICK d \in Days :
          IF Connected = {} THEN job' = [job EXCEPT ![d].state = "done"] /\ UNCHANGED call
          ELSE job' = TakeSync(d) /\ BeginCall(w, "sync")
    BY <1>4 DEF BeginSync
  <2>2. call' \in [Callers -> CallRecords]
    BY <1>0, <2>1, BeginCallIs DEF NumbersTyped
  <2>3. job' \in [Days -> [state : JobStates, tries : Nat]]
    BY <1>0, <2>1 DEF NumbersTyped, JobStates, TakeSync
  <2>4. UNCHANGED <<now, stamp, since, faults>>
    BY <1>4 DEF BeginSync
  <2> QED
    BY <1>0, <2>2, <2>3, <2>4 DEF NumbersTyped
<1>5. ASSUME NEW w \in Callers, Disconnect(w) \/ Succeed(w) \/ CallFails(w) PROVE NumbersTyped'
  <2>1. /\ End(w) /\ UNCHANGED <<now, since>>
        /\ stamp' \in {stamp, call[w].began} /\ faults' \in {faults, faults + 1}
        /\ EndSync(w, "done") \/ EndSync(w, "queued") \/ EndSync(w, "dead")
    BY <1>5 DEF Disconnect, Succeed, CallFails
  <2>2. call' \in [Callers -> CallRecords] /\ job' \in [Days -> [state : JobStates, tries : Nat]]
    BY <1>0, <2>1, EndIs, EndSyncIs DEF JobStates
  <2>3. stamp' \in Int /\ faults' \in Nat
    BY <1>0, <2>1 DEF NumbersTyped, CallRecords
  <2> QED
    BY <1>0, <2>1, <2>2, <2>3 DEF NumbersTyped
<1>6. CASE Sweep
  <2>1. job' \in [Days -> [state : JobStates, tries : Nat]]
    BY <1>0, <1>6 DEF Sweep, NumbersTyped, JobStates
  <2> QED
    BY <1>0, <1>6, <2>1 DEF Sweep, NumbersTyped
<1>7. CASE Later
  BY <1>0, <1>7, LoginConstants DEF Later, NumbersTyped
<1> QED
  BY <1>1, <1>2, <1>3, <1>4, <1>5, <1>6, <1>7
  DEF LoginNext, Calls, Exchange, Connect, TokenDies, loginVars

-----------------------------------------------------------------------------
\* A connected account is dropped for a dead token only, and none is dead.
LEMMA ConnectedStays ==
  ASSUME LoginInv, [LoginNext]_loginVars, dead = {}
  PROVE  Connected \subseteq Connected'
<1>1. ASSUME NEW w \in Callers, Disconnect(w) PROVE FALSE
  BY <1>1 DEF Disconnect, SaysDead
<1>2. CASE Connect
  BY <1>2 DEF Connect, Connected, LoginInv
<1>3. ASSUME NEW w \in Callers, RefreshToken(w) PROVE Connected \subseteq Connected'
  <2>1. row' = [row EXCEPT ![call[w].user].token = minted']
    BY <1>3 DEF RefreshToken
  <2>2. ASSUME NEW u \in Users PROVE row'[u].status = row[u].status
    BY <2>1 DEF LoginInv
  <2> QED
    BY <2>2 DEF Connected
<1>4. CASE UNCHANGED row
  BY <1>4 DEF Connected
<1> QED
  BY <1>1, <1>2, <1>3, <1>4
  DEF LoginNext, Calls, Exchange, TokenDies, Sweep, Later, BeginPost, BeginSync, BeginAside,
      Succeed, CallFails, loginVars

\* Steps that leave the jobs, the clock and the stamp, and begin or end no sync.
LEMMA OnTimeAside ==
  ASSUME NumbersInv, ReadOnTime, Connected \subseteq Connected',
         UNCHANGED <<now, job, stamp, swept>>,
         since' \in {since, now},
         Connected' = Connected \/ Connected # {} \/ since' = now,
         \A x \in Callers : \/ call'[x] = call[x]
                            \/ /\ call'[x].kind # "sync" /\ call'[x].began \in Nat
                               /\ call'[x].began >= now - 1
  PROVE  ReadOnTime'
<1>1. \A d \in Days : job'[d].state # "none" =>
        /\ d <= Day(now') /\ Connected' # {} /\ job'[d].state # "dead"
        /\ job'[d].state \in Waiting => d = Day(now')
        /\ job'[d].state = "done" => stamp' >= PARTS * d - 1
  BY DEF ReadOnTime
<1>2. \A x \in Callers : call'[x] # NoCall => call'[x].began \in Nat /\ call'[x].began >= now' - 1
  BY DEF ReadOnTime
<1>3. \A w \in Callers : call'[w].kind = "sync" =>
        /\ call'[w] # NoCall /\ job'[Day(now')].state = "running"
        /\ call'[w].began >= PARTS * Day(now')
        /\ \A x \in Callers : call'[x].kind = "sync" => x = w
  <2> SUFFICES ASSUME NEW w \in Callers, call'[w].kind = "sync"
               PROVE  /\ call'[w] # NoCall /\ job'[Day(now')].state = "running"
                      /\ call'[w].began >= PARTS * Day(now')
                      /\ \A x \in Callers : call'[x].kind = "sync" => x = w
    OBVIOUS
  <2>1. call'[w] = call[w]
    OBVIOUS
  <2>2. /\ call[w] # NoCall /\ job[Day(now)].state = "running"
        /\ call[w].began >= PARTS * Day(now)
        /\ \A x \in Callers : call[x].kind = "sync" => x = w
    BY <2>1 DEF ReadOnTime
  <2> QED
    BY <2>1, <2>2
<1>4. swept' /\ job'[Day(now')].state = "none" =>
        \/ Connected' = {} \/ since' = now'
        \/ now' - stamp' < RESYNC \/ now' - stamp' <= 1
  BY DEF ReadOnTime
<1> HIDE DEF Connected
<1> QED
  BY <1>1, <1>2, <1>3, <1>4 DEF ReadOnTime

LEMMA OnTimeBegins ==
  ASSUME NumbersInv, ReadOnTime, Connected = Connected', NEW w \in Callers, BeginSync(w)
  PROVE  ReadOnTime'
<1>0. NumbersTyped /\ Day(now) \in Days /\ Day(now) \in Nat
  BY TodayIs DEF NumbersInv
<1>1. /\ UNCHANGED <<now, stamp, since, swept>>
      /\ \E d \in Days : job[d].state = "queued" /\
           IF Connected = {} THEN job' = [job EXCEPT ![d].state = "done"] /\ UNCHANGED call
           ELSE job' = TakeSync(d) /\ BeginCall(w, "sync")
  BY DEF BeginSync
<1> DEFINE d == Day(now)
<1>2. /\ job[d].state = "queued" /\ Connected # {}
      /\ job' = TakeSync(d) /\ BeginCall(w, "sync")
  BY <1>1 DEF ReadOnTime, Waiting
<1>3. /\ job'[d].state = "running"
      /\ \A e \in Days : e # d => job'[e].state = job[e].state
  BY <1>0, <1>2 DEF TakeSync, NumbersTyped
<1>4. /\ call'[w].kind = "sync" /\ call'[w].began = now /\ call'[w] # NoCall
      /\ \A x \in Callers \ {w} : call'[x] = call[x]
  BY <1>2, BeginCallIs
<1>5. \A x \in Callers : call[x].kind # "sync"
  BY <1>2 DEF ReadOnTime
<1>6. now \in Nat /\ now' = now /\ PARTS * d <= now /\ now >= now - 1
  BY <1>0, <1>1, DayIs DEF NumbersTyped
<1>7. \A e \in Days : job'[e].state # "none" =>
        /\ e <= d /\ Connected' # {} /\ job'[e].state # "dead"
        /\ job'[e].state \in Waiting => e = d
        /\ job'[e].state = "done" => stamp' >= PARTS * e - 1
  <2> SUFFICES ASSUME NEW e \in Days, job'[e].state # "none"
               PROVE  /\ e <= d /\ Connected' # {} /\ job'[e].state # "dead"
                      /\ job'[e].state \in Waiting => e = d
                      /\ job'[e].state = "done" => stamp' >= PARTS * e - 1
    OBVIOUS
  <2>1. CASE e = d
    BY <1>0, <1>2, <1>3, <2>1
  <2>2. CASE e # d
    BY <1>1, <1>2, <1>3, <2>2 DEF ReadOnTime
  <2> QED
    BY <2>1, <2>2
<1>8. Day(now') = d
  BY <1>6
<1> HIDE DEF d
<1>9. \A x \in Callers : call'[x] # NoCall => call'[x].began \in Nat /\ call'[x].began >= now' - 1
  BY <1>4, <1>6 DEF ReadOnTime
<1>10. \A x \in Callers : call'[x].kind = "sync" =>
         /\ call'[x] # NoCall /\ job'[d].state = "running"
         /\ call'[x].began >= PARTS * d
         /\ \A y \in Callers : call'[y].kind = "sync" => y = x
  BY <1>3, <1>4, <1>5, <1>6
<1> QED
  BY <1>3, <1>7, <1>8, <1>9, <1>10 DEF ReadOnTime

LEMMA OnTimeSucceeds ==
  ASSUME NumbersInv, ReadOnTime, Connected = Connected', NEW w \in Callers, Succeed(w)
  PROVE  ReadOnTime'
<1>0. /\ NumbersTyped /\ Day(now) \in Days /\ Day(now) \in Nat /\ now \in Nat
      /\ PARTS \in Nat \ {0}
  BY TodayIs, LoginConstants DEF NumbersInv, NumbersTyped
<1> DEFINE d == Day(now)
           sync == call[w].kind = "sync"
<1>1. /\ call[w] # NoCall /\ EndSync(w, "done") /\ End(w)
      /\ stamp' = IF call[w].kind \in {"sync", "aside"} THEN call[w].began ELSE stamp
      /\ UNCHANGED <<now, row, minted, dead, web, since, swept, posts, faults>>
  BY DEF Succeed
<1>2. /\ call'[w] = NoCall /\ call'[w].kind = "none"
      /\ \A x \in Callers \ {w} : call'[x] = call[x]
  BY <1>0, <1>1, EndIs, NoCallIs
<1>3. /\ ~sync => job' = job
      /\ sync => \A e \in Days :
           job'[e].state = IF job[e].state = "running" THEN "done" ELSE job[e].state
  BY <1>0, <1>1, EndSyncIs DEF JobStates
<1>4. call[w].began \in Nat /\ call[w].began >= now - 1
  BY <1>1 DEF ReadOnTime
<1>5. PARTS * d <= now
  BY <1>0, DayIs
<1>6. \A e \in Days : job[e].state # "none" =>
        /\ e <= d /\ Connected # {} /\ job[e].state # "dead"
        /\ job[e].state \in Waiting => e = d
        /\ job[e].state = "done" => stamp >= PARTS * e - 1
  BY DEF ReadOnTime
<1>7. Day(now') = d /\ now' = now
  BY <1>1
<1>8. sync => /\ call[w].began >= PARTS * d /\ job[d].state = "running"
              /\ \A x \in Callers : call[x].kind = "sync" => x = w
  BY DEF ReadOnTime
<1> HIDE DEF d
<1>9. \A e \in Days : e <= d => PARTS * e <= PARTS * d /\ PARTS * e \in Int
  BY <1>0, Times DEF Days, d
<1>10. \A e \in Days : job'[e].state # "none" =>
         /\ e <= d /\ Connected' # {} /\ job'[e].state # "dead"
         /\ job'[e].state \in Waiting => e = d
         /\ job'[e].state = "done" => stamp' >= PARTS * e - 1
  <2> SUFFICES ASSUME NEW e \in Days, job'[e].state # "none"
               PROVE  /\ e <= d /\ Connected' # {} /\ job'[e].state # "dead"
                      /\ job'[e].state \in Waiting => e = d
                      /\ job'[e].state = "done" => stamp' >= PARTS * e - 1
    OBVIOUS
  <2>1. job[e].state # "none"
    BY <1>3
  <2>2. e <= d /\ Connected' # {} /\ job'[e].state # "dead"
    BY <1>3, <1>6, <2>1
  <2>3. job'[e].state \in Waiting => e = d
    BY <1>3, <1>6, <2>1 DEF Waiting
  <2>4. ASSUME job'[e].state = "done" PROVE stamp' >= PARTS * e - 1
    <3>1. PARTS * e <= PARTS * d /\ PARTS * e \in Int /\ PARTS * d \in Int
      BY <1>0, <1>9, <2>2 DEF d
    <3>2. CASE stamp' = call[w].began
      <4>1. call[w].began >= PARTS * d - 1
        BY <1>0, <1>4, <1>5, <3>1
      <4> HIDE DEF d
      <4> QED
        BY <1>4, <3>1, <3>2, <4>1
    <3>3. CASE call[w].kind \notin {"sync", "aside"} /\ stamp' = stamp
      <4>1. job[e].state = "done"
        BY <1>3, <2>4, <3>3
      <4> QED
        BY <1>6, <2>1, <3>3, <4>1
    <3> QED
      BY <1>1, <3>2, <3>3
  <2> QED
    BY <2>2, <2>3, <2>4
<1>11. \A x \in Callers : call'[x] # NoCall => call'[x].began \in Nat /\ call'[x].began >= now' - 1
  BY <1>2, <1>7 DEF ReadOnTime
<1>12. \A v \in Callers : call'[v].kind = "sync" =>
         /\ call'[v] # NoCall /\ job'[d].state = "running"
         /\ call'[v].began >= PARTS * d
         /\ \A x \in Callers : call'[x].kind = "sync" => x = v
  <2> SUFFICES ASSUME NEW v \in Callers, call'[v].kind = "sync"
               PROVE  /\ call'[v] # NoCall /\ job'[d].state = "running"
                      /\ call'[v].began >= PARTS * d
                      /\ \A x \in Callers : call'[x].kind = "sync" => x = v
    OBVIOUS
  <2>1. v # w /\ call'[v] = call[v]
    BY <1>2
  <2>2. /\ call[v] # NoCall /\ job[d].state = "running"
        /\ call[v].began >= PARTS * d
        /\ \A x \in Callers : call[x].kind = "sync" => x = v
    BY <2>1 DEF ReadOnTime, d
  <2>3. ~sync
    BY <2>1, <2>2
  <2> QED
    BY <1>2, <1>3, <2>1, <2>2, <2>3
<1>13. swept' /\ job'[d].state = "none" =>
         \/ Connected' = {} \/ since' = now'
         \/ now' - stamp' < RESYNC \/ now' - stamp' <= 1
  <2> SUFFICES ASSUME swept', job'[d].state = "none"
               PROVE  \/ Connected' = {} \/ since' = now'
                      \/ now' - stamp' < RESYNC \/ now' - stamp' <= 1
    OBVIOUS
  <2>1. job[d].state = "none" /\ swept
    BY <1>0, <1>1, <1>3 DEF d
  <2>2. CASE stamp' = call[w].began
    BY <1>0, <1>4, <1>7, <2>2
  <2>3. CASE stamp' = stamp
    BY <1>1, <1>7, <2>1, <2>3 DEF ReadOnTime, d
  <2> QED
    BY <1>1, <2>2, <2>3
<1> QED
  BY <1>7, <1>10, <1>11, <1>12, <1>13 DEF ReadOnTime

LEMMA OnTimeSweep ==
  ASSUME NumbersInv, ReadOnTime, Sweep
  PROVE  ReadOnTime'
<1>0. NumbersTyped /\ Day(now) \in Days /\ Day(now) \in Nat
  BY TodayIs DEF NumbersInv
<1>1. /\ UNCHANGED <<now, row, call, stamp, since>>
      /\ job' = IF Connected = {} \/ SyncedRecently \/ Asked(Day(now)) THEN job
                ELSE [job EXCEPT ![Day(now)] = [state |-> "queued", tries |-> 0]]
  BY DEF Sweep
<1>2. Connected' = Connected
  BY <1>1 DEF Connected
<1> DEFINE d == Day(now)
<1>3. CASE Connected # {} /\ ~SyncedRecently /\ ~Asked(d)
  <2>1. /\ job[d].state = "none" /\ job'[d].state = "queued"
        /\ \A e \in Days : e # d => job'[e] = job[e]
    BY <1>0, <1>1, <1>3 DEF Asked, NumbersTyped
  <2>2. \A x \in Callers : call[x].kind # "sync"
    BY <2>1 DEF ReadOnTime
  <2>3. \A e \in Days : job'[e].state # "none" =>
          /\ e <= d /\ Connected' # {} /\ job'[e].state # "dead"
          /\ job'[e].state \in Waiting => e = d
          /\ job'[e].state = "done" => stamp' >= PARTS * e - 1
    <3> SUFFICES ASSUME NEW e \in Days, job'[e].state # "none"
                 PROVE  /\ e <= d /\ Connected' # {} /\ job'[e].state # "dead"
                        /\ job'[e].state \in Waiting => e = d
                        /\ job'[e].state = "done" => stamp' >= PARTS * e - 1
      OBVIOUS
    <3>1. CASE e = d
      BY <1>0, <1>2, <1>3, <2>1, <3>1
    <3>2. CASE e # d
      BY <1>1, <1>2, <2>1, <3>2 DEF ReadOnTime
    <3> QED
      BY <3>1, <3>2
  <2>4. Day(now') = d /\ call' = call
    BY <1>1
  <2>5. \A x \in Callers : call'[x] # NoCall => call'[x].began \in Nat /\ call'[x].began >= now' - 1
    BY <1>1 DEF ReadOnTime
  <2> HIDE DEF d
  <2> QED
    BY <2>1, <2>2, <2>3, <2>4, <2>5 DEF ReadOnTime
<1>4. CASE Connected = {} \/ SyncedRecently \/ Asked(d)
  <2>1. job' = job
    BY <1>1, <1>4
  <2>2. job'[d].state = "none" => Connected' = {} \/ now' - stamp' < RESYNC
    BY <1>1, <1>2, <1>4, <2>1 DEF Asked, SyncedRecently
  <2> QED
    BY <1>1, <1>2, <2>1, <2>2 DEF ReadOnTime
<1> QED
  BY <1>3, <1>4

LEMMA OnTimeLater ==
  ASSUME NumbersInv, ReadOnTime, Later
  PROVE  ReadOnTime'
<1>0. NumbersTyped /\ Day(now) \in Days /\ Day(now) \in Nat /\ now \in Nat
  BY TodayIs DEF NumbersInv, NumbersTyped
<1>1. /\ now' = now + 1 /\ swept' = FALSE
      /\ \A d \in Days : job[d].state \in {"none", "done", "dead"}
      /\ \A w \in Callers : call[w] = NoCall \/ call[w].began = now
      /\ UNCHANGED <<row, call, job, stamp, since>>
  BY DEF Later
<1>2. Connected' = Connected
  BY <1>1 DEF Connected
<1>3. Day(now) <= Day(now') /\ Day(now') \in Nat
  BY <1>0, <1>1, DayIs, DayLater
<1>4. \A d \in Days : job[d].state \notin Waiting
  BY <1>1 DEF Waiting
<1> DEFINE d == Day(now)
           e == Day(now')
<1>5. \A x \in Days : job[x].state # "none" =>
        /\ x <= d /\ Connected # {} /\ job[x].state # "dead"
        /\ job[x].state = "done" => stamp >= PARTS * x - 1
  BY DEF ReadOnTime
<1>6. \A x \in Callers : call[x].kind # "sync"
  BY <1>0, <1>4 DEF ReadOnTime, Waiting
<1>7. \A x \in Callers : call[x] # NoCall => call[x].began \in Nat /\ call[x].began >= now' - 1
  BY <1>0, <1>1
<1> HIDE DEF d, e
<1>8. \A x \in Days : job'[x].state # "none" =>
        /\ x <= e /\ Connected' # {} /\ job'[x].state # "dead"
        /\ job'[x].state \in Waiting => x = e
        /\ job'[x].state = "done" => stamp' >= PARTS * x - 1
  <2>1. \A x \in Days : x \in Int
    BY DEF Days
  <2>2. d \in Int /\ e \in Int /\ d <= e
    BY <1>0, <1>3 DEF d, e
  <2> QED
    BY <1>1, <1>2, <1>4, <1>5, <2>1, <2>2
<1> QED
  BY <1>1, <1>6, <1>7, <1>8 DEF ReadOnTime, e

LEMMA NumbersStepOk == NumbersInv /\ [LoginNext]_loginVars => NumbersInv'
<1> SUFFICES ASSUME NumbersInv, [LoginNext]_loginVars PROVE NumbersInv'
  OBVIOUS
<1>1. LoginInv /\ NumbersTyped /\ LoginInv' /\ NumbersTyped'
  BY LoginStepOk, NumbersTypedOk DEF NumbersInv
<1>2. ASSUME faults' = 0, dead' = {} PROVE ReadOnTime'
  <2>1. /\ dead = {} /\ faults = 0
    <3>1. dead \subseteq dead' /\ faults' \in {faults, faults + 1}
      BY DEF LoginNext, Calls, Exchange, Connect, TokenDies, Sweep, Later, BeginPost, BeginSync,
             BeginAside, RefreshToken, Disconnect, Succeed, CallFails, loginVars
    <3> QED
      BY <1>1, <1>2, <3>1 DEF NumbersTyped
  <2>2. ReadOnTime /\ Connected \subseteq Connected'
    BY <1>1, <2>1, ConnectedStays DEF NumbersInv
  <2>3. UNCHANGED row => Connected' = Connected
    BY DEF Connected
  <2>4. now \in Nat /\ now >= now - 1
    BY <1>1 DEF NumbersTyped
  <2>5. CASE Exchange \/ TokenDies \/ UNCHANGED loginVars
    <3>1. UNCHANGED <<now, row, call, job, stamp, since, swept>>
      BY <1>2, <2>1, <2>5 DEF Exchange, TokenDies, loginVars
    <3>2. Connected' = Connected
      BY <2>3, <3>1
    <3>3. /\ Day(now') = Day(now) /\ now' = now /\ job' = job /\ call' = call /\ stamp' = stamp
          /\ since' = since /\ swept' = swept
      BY <3>1
    <3> QED
      BY <2>2, <3>2, <3>3 DEF ReadOnTime
  <2>6. CASE Connect
    BY <2>2, <2>6, OnTimeAside DEF Connect
  <2>7. ASSUME NEW w \in Callers, BeginPost(w) \/ BeginAside(w) PROVE ReadOnTime'
    <3>1. UNCHANGED <<now, row, job, stamp, since, swept>>
          /\ (BeginCall(w, "post") \/ BeginCall(w, "aside"))
      BY <2>7 DEF BeginPost, BeginAside
    <3>2. /\ call'[w].kind # "sync" /\ call'[w].began = now
          /\ \A x \in Callers \ {w} : call'[x] = call[x]
      BY <3>1, BeginCallIs
    <3>3. Connected # {}
      BY <3>1 DEF BeginCall
    <3> QED
      BY <2>2, <2>4, <3>1, <3>2, <3>3, OnTimeAside
  <2>8. ASSUME NEW w \in Callers, RefreshToken(w) PROVE ReadOnTime'
    <3>1. /\ call[w].kind = "post" /\ UNCHANGED <<now, job, stamp, since, swept>>
          /\ call' = [call EXCEPT ![w].token = minted', ![w].kind = "posting"]
      BY <2>8 DEF RefreshToken
    <3>2. /\ call'[w].kind = "posting" /\ call'[w].began = call[w].began
          /\ \A x \in Callers \ {w} : call'[x] = call[x]
      BY <1>1, <3>1 DEF NumbersTyped, CallRecords
    <3>3. call[w].began \in Nat /\ call[w].began >= now - 1
      BY <2>2, <3>1, NoCallIs DEF ReadOnTime
    <3>4. \A x \in Callers : \/ call'[x] = call[x]
                             \/ /\ call'[x].kind # "sync" /\ call'[x].began \in Nat
                                /\ call'[x].began >= now - 1
      BY <3>2, <3>3
    <3>5. Connected' = Connected
      <4>1. row' = [row EXCEPT ![call[w].user].token = minted']
        BY <2>8 DEF RefreshToken
      <4>2. ASSUME NEW u \in Users PROVE row'[u].status = row[u].status
        BY <1>1, <4>1 DEF LoginInv
      <4> QED
        BY <4>2 DEF Connected
    <3> QED
      BY <2>2, <3>1, <3>4, <3>5, OnTimeAside
  <2>9. ASSUME NEW w \in Callers, BeginSync(w) PROVE ReadOnTime'
    BY <2>2, <2>3, <2>9, OnTimeBegins DEF NumbersInv, BeginSync
  <2>10. ASSUME NEW w \in Callers, Succeed(w) PROVE ReadOnTime'
    BY <2>2, <2>3, <2>10, OnTimeSucceeds DEF NumbersInv, Succeed
  <2>11. ASSUME NEW w \in Callers, Disconnect(w) \/ CallFails(w) PROVE ReadOnTime'
    BY <1>1, <1>2, <2>1, <2>11 DEF Disconnect, SaysDead, CallFails, NumbersTyped
  <2>12. CASE Sweep
    BY <2>2, <2>12, OnTimeSweep
  <2>13. CASE Later
    BY <2>2, <2>13, OnTimeLater
  <2> QED
    BY <2>5, <2>6, <2>7, <2>8, <2>9, <2>10, <2>11, <2>12, <2>13 DEF LoginNext, Calls
<1> QED
  BY <1>1, <1>2 DEF NumbersInv

\* With a sync a day, the gap between two readings is less than RESYNC and a day.
LEMMA NumbersInvImplies == NumbersInv => NumbersKeepComing
<1> SUFFICES ASSUME NumbersInv, faults = 0, dead = {}, Connected # {}, swept,
                    \A d \in Days : job[d].state \in {"none", "done", "dead"}
             PROVE  now - stamp < RESYNC + PARTS \/ now - since < PARTS
  BY DEF NumbersKeepComing
<1> DEFINE d == Day(now)
<1>1. /\ ReadOnTime /\ d \in Days /\ d \in Nat
      /\ now \in Nat /\ stamp \in Int /\ since \in Nat
      /\ PARTS \in Nat \ {0} /\ RESYNC \in Nat \ {0}
  BY TodayIs, LoginConstants DEF NumbersInv, NumbersTyped
<1>2. PARTS * d <= now /\ now < PARTS * d + PARTS
  BY <1>1, DayIs
<1>3. CASE job[d].state = "none"
  <2>1. since = now \/ now - stamp < RESYNC \/ now - stamp <= 1
    BY <1>1, <1>3 DEF ReadOnTime
  <2> QED
    BY <1>1, <2>1
<1>4. CASE job[d].state # "none"
  <2>1. stamp >= PARTS * d - 1
    BY <1>1, <1>4 DEF ReadOnTime
  <2>2. PARTS * d \in Int
    BY <1>1
  <2> HIDE DEF d
  <2> QED
    BY <1>1, <1>2, <2>1, <2>2
<1> QED
  BY <1>3, <1>4

-----------------------------------------------------------------------------
(* The readings of posts. *)

Metrics == [read : Int, synced : Int, facts : BOOLEAN]

\* A stamp says when a sync began, the numbers are of its reading, later.
MetricInv(m) ==
  /\ m.read >= m.synced /\ m.synced >= NeverStamped
  /\ m.synced = NeverStamped <=> m.read = NeverStamped

Syncs == [at : {"idle", "listing", "read"}, start : Nat, known : [IgPosts -> Int],
          media : SUBSET IgPosts, got : SUBSET IgPosts, day : Nat]

InsightsInv ==
  /\ clock \in Nat
  /\ metric \in [IgPosts -> Metrics]
  /\ reading \in [Readers -> Syncs]
  /\ \A s \in Readers :
       /\ reading[s].start <= clock
       /\ reading[s].at = "read" => reading[s].start <= reading[s].day
  /\ \A p \in IgPosts : MetricInv(metric[p]) /\ (metric[p].facts => p \in ours)

LEMMA NoSyncIs == NoSync \in Syncs /\ NoSync.start = 0 /\ NoSync.at = "idle"
  BY DEF NoSync, Syncs, NeverStamped

LEMMA NoRowIs == NoRow \in Metrics /\ MetricInv(NoRow) /\ NoRow.facts = FALSE
  BY DEF NoRow, Metrics, MetricInv, NeverStamped

LEMMA InsightsInitOk == InsightsInit => InsightsInv
<1> SUFFICES ASSUME InsightsInit PROVE InsightsInv
  OBVIOUS
<1>1. /\ clock = 0 /\ metric = [p \in IgPosts |-> NoRow] /\ reading = [s \in Readers |-> NoSync]
  BY DEF InsightsInit
<1>2. metric \in [IgPosts -> Metrics]
  BY <1>1, NoRowIs
<1>3. \A p \in IgPosts : MetricInv(metric[p]) /\ (metric[p].facts => p \in ours)
  BY <1>1, NoRowIs
<1> QED
  BY <1>1, <1>2, <1>3, NoSyncIs DEF InsightsInv

LEMMA InsightsStepOk == InsightsInv /\ [InsightsNext]_insightsVars => InsightsInv'
<1> SUFFICES ASSUME InsightsInv, [InsightsNext]_insightsVars PROVE InsightsInv'
  OBVIOUS
<1>1. ASSUME NEW p \in IgPosts, PostAppears(p) \/ PostRecorded(p) PROVE InsightsInv'
  BY <1>1 DEF PostAppears, PostRecorded, InsightsInv
<1>2. ASSUME NEW s \in Readers, SyncBegins(s) PROVE InsightsInv'
  <2> DEFINE known == [p \in IgPosts |-> metric[p].synced]
  <2>1. known \in [IgPosts -> Int] /\ clock \in Nat
    BY DEF InsightsInv, Metrics
  <2>2. /\ reading' = [reading EXCEPT ![s] =
             [NoSync EXCEPT !.at = "listing", !.start = clock, !.known = known]]
        /\ UNCHANGED <<clock, ours, metric>>
    BY <1>2 DEF SyncBegins
  <2> HIDE DEF known
  <2> DEFINE new == [NoSync EXCEPT !.at = "listing", !.start = clock, !.known = known]
  <2>3. new \in Syncs /\ new.at = "listing" /\ new.start = clock
    BY <2>1, NoSyncIs DEF Syncs
  <2> HIDE DEF new
  <2>4. reading' = [reading EXCEPT ![s] = new]
    BY <2>2 DEF new
  <2> QED
    BY <2>1, <2>2, <2>3, <2>4 DEF InsightsInv
<1>3. ASSUME NEW s \in Readers, SyncReads(s) PROVE InsightsInv'
  <2> DEFINE media == Listed(reading[s].start - WINDOW_DAYS)
  <2>1. PICK got \in SUBSET media :
          /\ reading' = [reading EXCEPT ![s].at = "read", ![s].media = media,
                                        ![s].got = got, ![s].day = clock]
          /\ UNCHANGED <<clock, ours, metric>>
    BY <1>3 DEF SyncReads
  <2>2. media \in SUBSET IgPosts /\ got \in SUBSET IgPosts
    BY DEF Listed
  <2> HIDE DEF media
  <2>3. clock \in Nat /\ reading[s] \in Syncs /\ reading[s].start <= clock
    BY DEF InsightsInv
  <2> DEFINE new == [reading[s] EXCEPT !.at = "read", !.media = media, !.got = got, !.day = clock]
  <2>4. /\ new \in Syncs /\ new.at = "read" /\ new.start = reading[s].start /\ new.day = clock
    BY <2>2, <2>3 DEF Syncs
  <2>5. reading' = [reading EXCEPT ![s] = new]
    BY <2>1 DEF InsightsInv
  <2> HIDE DEF new
  <2>6. /\ reading' \in [Readers -> Syncs]
        /\ \A x \in Readers :
             /\ reading'[x].start <= clock
             /\ reading'[x].at = "read" => reading'[x].start <= reading'[x].day
    BY <2>3, <2>4, <2>5 DEF InsightsInv
  <2> QED
    BY <2>1, <2>6 DEF InsightsInv
<1>4. ASSUME NEW s \in Readers, SyncWrites(s) PROVE InsightsInv'
  <2> DEFINE r == reading[s]
             new(p) == [metric[p] EXCEPT
                          !.read = IF p \in r.got THEN r.day ELSE @,
                          !.synced = IF p \in r.got THEN Stamp(s) ELSE @,
                          !.facts = @ \/ p \in ours]
  <2>1. /\ r.at = "read" /\ reading' = [reading EXCEPT ![s] = NoSync]
        /\ UNCHANGED <<clock, postedAt, ours>>
        /\ metric' = [p \in IgPosts |-> IF p \notin r.media THEN metric[p] ELSE new(p)]
    BY <1>4 DEF SyncWrites
  <2>2. /\ r.start \in Nat /\ r.day \in Nat /\ r.start <= r.day /\ Stamp(s) = r.start
    BY <2>1 DEF InsightsInv, Stamp, Syncs
  <2>3. ASSUME NEW p \in IgPosts
        PROVE  new(p) \in Metrics /\ MetricInv(new(p)) /\ (new(p).facts => p \in ours)
    <3>1. /\ metric[p] \in Metrics /\ MetricInv(metric[p]) /\ (metric[p].facts => p \in ours)
      BY DEF InsightsInv
    <3> DEFINE m == metric[p]
               read == IF p \in r.got THEN r.day ELSE m.read
               synced == IF p \in r.got THEN r.start ELSE m.synced
               facts == m.facts \/ p \in ours
               fresh == [m EXCEPT !.read = read, !.synced = synced, !.facts = facts]
    <3>2. m.read \in Int /\ m.synced \in Int
      BY <3>1 DEF Metrics
    <3>3. read \in Int /\ synced \in Int /\ facts \in BOOLEAN
      BY <2>2, <3>2
    <3>4. fresh = new(p)
      BY <2>2
    <3>5. facts => p \in ours
      BY <3>1
    <3>6. /\ read >= synced /\ synced >= NeverStamped
          /\ synced = NeverStamped <=> read = NeverStamped
      BY <2>2, <3>1, <3>2 DEF MetricInv, NeverStamped
    <3>9. m \in Metrics
      BY <3>1
    <3> HIDE DEF read, synced, facts, m
    <3>7. /\ fresh \in Metrics /\ fresh.read = read /\ fresh.synced = synced
          /\ fresh.facts = facts
      BY <3>3, <3>9 DEF Metrics
    <3> HIDE DEF fresh
    <3>8. MetricInv(fresh)
      BY <3>6, <3>7 DEF MetricInv
    <3> QED
      BY <3>4, <3>5, <3>7, <3>8
  <2> HIDE DEF new
  <2>4. ASSUME NEW p \in IgPosts
        PROVE  metric'[p] \in Metrics /\ MetricInv(metric'[p]) /\ (metric'[p].facts => p \in ours)
    <3>1. metric'[p] = IF p \notin r.media THEN metric[p] ELSE new(p)
      BY <2>1
    <3> QED
      BY <2>3, <3>1 DEF InsightsInv
  <2>5. metric' \in [IgPosts -> Metrics]
    BY <2>1, <2>4
  <2> QED
    BY <2>1, <2>4, <2>5, NoSyncIs DEF InsightsInv
<1>5. ASSUME NEW s \in Readers, SyncEnds(s) PROVE InsightsInv'
  BY <1>5, NoSyncIs DEF SyncEnds, InsightsInv
<1>6. CASE DayPasses
  <2>1. /\ clock' = clock + 1 /\ clock \in Nat
        /\ UNCHANGED <<postedAt, ours, metric, reading>>
    BY <1>6 DEF DayPasses, InsightsInv
  <2>2. \A s \in Readers : reading[s].start \in Nat /\ reading[s].start <= clock'
    BY <2>1 DEF InsightsInv, Syncs
  <2> QED
    BY <2>1, <2>2 DEF InsightsInv
<1>7. CASE UNCHANGED insightsVars
  BY <1>7 DEF insightsVars, InsightsInv
<1> QED
  BY <1>1, <1>2, <1>3, <1>4, <1>5, <1>6, <1>7 DEF InsightsNext

\* What is known of the posts keeps coming: with live logins and no fault, two readings are
\* less than RESYNC and a day apart, whatever syncs aside come between and end after
\* (sweep, sync_if_due, sync_brand); and no post's numbers claim to be newer than they are,
\* whatever syncs overlap (synced_at, _due).  For any length of the day and of RESYNC up to
\* it, any number of callers, accounts, readers and posts.
THEOREM NumbersComeAndAreHonest == Spec => []NumbersKept
<1>1. InsightsInv => StampsHonest
  BY DEF InsightsInv, MetricInv, StampsHonest
<1>2. NumbersInv /\ InsightsInv => NumbersKept
  BY <1>1, NumbersInvImplies DEF NumbersKept
<1> QED
  BY <1>2, PartsInit, PartsStep, NumbersInitOk, NumbersStepOk, InsightsInitOk, InsightsStepOk,
     PTL DEF Spec

-----------------------------------------------------------------------------
(* What has no state of its own: the product on its frame. *)

\* A set of numbers has a first one.
LEMMA FirstOf ==
  ASSUME NEW S, S \subseteq Nat, S # {}
  PROVE  \E k \in S : \A j \in S : k <= j
<1> DEFINE R == OpToRel(<, Nat)
<1>1. IsWellFoundedOn(R, Nat)
  BY NatLessThanWellFounded
<1> HIDE DEF R
<1>2. \E k \in S : \A j \in S : ~(<<j, k>> \in R)
  BY <1>1, WFMin
<1>3. PICK k \in S : \A j \in S : ~(j < k)
  BY <1>2 DEF R, OpToRel
<1>4. \A j \in S : k <= j
  BY <1>3
<1> QED BY <1>4

\* The last of some places of a list.
LEMMA LastOf ==
  ASSUME NEW k \in Nat, NEW S, S \subseteq 1 .. k, S # {}
  PROVE  Max(S) \in S /\ \A j \in S : j <= Max(S)
<1> DEFINE D == {d \in Nat : d <= k /\ k - d \in S}
<1>1. PICK i : i \in S
  OBVIOUS
<1>2. k - i \in D
  <2>1. i \in Nat /\ i <= k /\ k - (k - i) = i
    BY <1>1
  <2> QED BY <1>1, <2>1
<1>3. D \subseteq Nat
  OBVIOUS
<1> HIDE DEF D
<1>4. PICK d \in D : \A e \in D : d <= e
  BY <1>2, <1>3, FirstOf
<1>5. k - d \in S /\ d \in Nat
  BY <1>4 DEF D
<1>6. \A j \in S : k - d >= j
  <2> SUFFICES ASSUME NEW j \in S PROVE k - d >= j
    OBVIOUS
  <2>1. j \in Nat /\ j <= k /\ k - (k - j) = j /\ k - j \in Nat /\ k - j <= k
    OBVIOUS
  <2>2. k - j \in D
    BY <2>1 DEF D
  <2>3. d <= k - j
    BY <1>4, <2>2
  <2> QED BY <1>5, <2>1, <2>3
<1>7. Max(S) \in S /\ \A j \in S : Max(S) >= j
  BY <1>5, <1>6 DEF Max
<1>8. \A j \in S : j \in Nat
  OBVIOUS
<1> QED BY <1>7, <1>8

\* The loop of _free_rect, turn after turn.
Turns(f, start, keeps, n) ==
  f = [m \in 0 .. n |-> IF m = 0 THEN start ELSE Clear(f[m - 1], keeps)]

\* There is such a function ...
LEMMA TurnsExist ==
  ASSUME NEW start, NEW keeps, NEW n \in Nat
  PROVE  \E f : Turns(f, start, keeps, n)
<1> DEFINE S == {k \in Nat : ~ \E f : Turns(f, start, keeps, k)}
<1>1. SUFFICES ASSUME S # {} PROVE FALSE
  OBVIOUS
<1>2. PICK k \in S : \A j \in S : k <= j
  <2>1. S \subseteq Nat
    OBVIOUS
  <2> HIDE DEF S
  <2> QED BY <1>1, <2>1, FirstOf
<1>3. k \in Nat /\ ~ \E f : Turns(f, start, keeps, k)
  OBVIOUS
<1>4. CASE k = 0
  <2> DEFINE f == [m \in 0 .. 0 |-> start]
  <2>1. Turns(f, start, keeps, 0)
    BY DEF Turns
  <2> QED BY <1>3, <1>4, <2>1
<1>5. CASE k # 0
  <2>1. k - 1 \in Nat /\ k - 1 \notin S
    BY <1>2, <1>3, <1>5
  <2>2. PICK f : Turns(f, start, keeps, k - 1)
    BY <2>1
  <2> HIDE DEF S
  <2>3. \A m \in 0 .. k - 1 : f[m] = IF m = 0 THEN start ELSE Clear(f[m - 1], keeps)
    BY <2>2 DEF Turns
  <2> DEFINE g == [m \in 0 .. k |-> IF m = k THEN Clear(f[k - 1], keeps) ELSE f[m]]
  <2>4. \A m \in 0 .. k : g[m] = IF m = 0 THEN start ELSE Clear(g[m - 1], keeps)
    <3> SUFFICES ASSUME NEW m \in 0 .. k
                 PROVE  g[m] = IF m = 0 THEN start ELSE Clear(g[m - 1], keeps)
      OBVIOUS
    <3>1. CASE m = k
      <4>1. k - 1 \in 0 .. k /\ k - 1 # k
        BY <1>3, <1>5
      <4> QED BY <1>5, <3>1, <4>1
    <3>2. CASE m # k
      <4>1. m \in 0 .. k - 1 /\ (m # 0 => m - 1 \in 0 .. k /\ m - 1 # k)
        BY <1>3, <3>2
      <4> QED BY <2>3, <3>2, <4>1
    <3> QED BY <3>1, <3>2
  <2>5. Turns(g, start, keeps, k)
    BY <2>4 DEF Turns
  <2> QED BY <1>3, <2>5
<1> QED BY <1>4, <1>5

\* ... and FreeRect is what it comes to.
LEMMA FreeRectIs ==
  ASSUME NEW start, NEW keeps, Rounds(keeps) \in Nat
  PROVE  \E f : /\ FreeRect(start, keeps) = f[Rounds(keeps)]
                /\ f[0] = start
                /\ \A m \in 1 .. Rounds(keeps) : f[m] = Clear(f[m - 1], keeps)
<1> DEFINE n == Rounds(keeps)
           f == CHOOSE f : Turns(f, start, keeps, n)
<1>1. Turns(f, start, keeps, n)
  BY TurnsExist
<1>2. FreeRect(start, keeps) = f[n]
  BY DEF FreeRect, Turns
<1> HIDE DEF f, n
<1>3. \A m \in 0 .. n : f[m] = IF m = 0 THEN start ELSE Clear(f[m - 1], keeps)
  BY <1>1 DEF Turns
<1>4. n \in Nat
  BY DEF n
<1>5. f[0] = start /\ \A m \in 1 .. n : f[m] = Clear(f[m - 1], keeps)
  BY <1>3, <1>4
<1> QED BY <1>2, <1>5 DEF n

\* Inside is a partial order on boxes.
LEMMA InsideSelf == ASSUME NEW a \in Box PROVE Inside(a, a)
<1>1. a[1] \in Int /\ a[2] \in Int /\ a[3] \in Int /\ a[4] \in Int
  BY BoxParts
<1> QED BY <1>1 DEF Inside

LEMMA InsideOf ==
  ASSUME NEW a \in Box, NEW b \in Box, NEW c \in Box, Inside(a, b), Inside(b, c)
  PROVE  Inside(a, c)
<1>1. /\ a[1] \in Int /\ a[2] \in Int /\ a[3] \in Int /\ a[4] \in Int
      /\ b[1] \in Int /\ b[2] \in Int /\ b[3] \in Int /\ b[4] \in Int
      /\ c[1] \in Int /\ c[2] \in Int /\ c[3] \in Int /\ c[4] \in Int
  BY BoxParts
<1> QED BY <1>1 DEF Inside

\* One turn of the loop clears one keep-out more.
LEMMA OneMoreCleared ==
  ASSUME NEW rect \in Box, NEW keeps \in Seq(Box), NEW n \in Nat,
         \A i \in 1 .. Len(keeps) : i <= n => Apart(rect, keeps[i])
  PROVE  LET cleared == Clear(rect, keeps)
         IN /\ cleared \in Box /\ Inside(cleared, rect)
            /\ \A i \in 1 .. Len(keeps) : i <= n + 1 => Apart(cleared, keeps[i])
<1> DEFINE hits == {i \in DOMAIN keeps : ~Apart(rect, keeps[i])}
           cleared == Clear(rect, keeps)
<1>1. DOMAIN keeps = 1 .. Len(keeps) /\ Len(keeps) \in Nat
      /\ \A i \in 1 .. Len(keeps) : keeps[i] \in Box
  OBVIOUS
<1>2. CASE hits = {}
  <2>1. cleared = rect
    BY <1>2 DEF Clear
  <2>2. Inside(rect, rect)
    BY InsideSelf
  <2>3. \A i \in 1 .. Len(keeps) : Apart(rect, keeps[i])
    BY <1>1, <1>2
  <2> HIDE DEF cleared
  <2> QED BY <2>1, <2>2, <2>3 DEF cleared
<1>3. CASE hits # {}
  <2> DEFINE k == CHOOSE i \in hits : \A j \in hits : i <= j
  <2>1. k \in hits /\ \A j \in hits : k <= j
    <3>1. hits \subseteq Nat
      BY <1>1
    <3> HIDE DEF hits
    <3>2. \E i \in hits : \A j \in hits : i <= j
      BY <1>3, <3>1, FirstOf
    <3> QED BY <3>2
  <2>2. cleared = CutOff(rect, keeps[k])
    BY <1>3 DEF Clear
  <2>3. k \in 1 .. Len(keeps) /\ ~Apart(rect, keeps[k])
    BY <1>1, <2>1
  <2>4. \A i \in 1 .. Len(keeps) : i < k => Apart(rect, keeps[i])
    BY <1>1, <2>1
  <2>5. k >= n + 1
    BY <2>3
  <2> HIDE DEF k, cleared, hits
  <2>6. /\ cleared \in Box /\ Apart(cleared, keeps[k]) /\ Inside(cleared, rect)
        /\ \A other \in Box : Apart(rect, other) => Apart(cleared, other)
    BY <1>1, <2>2, <2>3, CutsOnlyClear
  <2>7. \A i \in 1 .. Len(keeps) : i <= n + 1 => Apart(cleared, keeps[i])
    BY <1>1, <2>3, <2>4, <2>5, <2>6
  <2> QED BY <2>6, <2>7 DEF cleared
<1> QED BY <1>2, <1>3

\* The rectangle that is left is inside the one it began with and clear of every keep-out.
LEMMA FreeRectClears ==
  ASSUME NEW start \in Box, NEW keeps \in Seq(Box)
  PROVE  LET free == FreeRect(start, keeps)
         IN /\ free \in Box /\ Inside(free, start)
            /\ \A i \in DOMAIN keeps : Apart(free, keeps[i])
<1> DEFINE N == Rounds(keeps)
<1>1. N = Len(keeps) + 1 /\ N \in Nat /\ DOMAIN keeps = 1 .. Len(keeps) /\ Len(keeps) \in Nat
  BY DEF Rounds
<1>2. PICK f : /\ FreeRect(start, keeps) = f[N] /\ f[0] = start
               /\ \A m \in 1 .. N : f[m] = Clear(f[m - 1], keeps)
  BY <1>1, FreeRectIs
<1> HIDE DEF N
<1> DEFINE Good(m) == /\ f[m] \in Box /\ Inside(f[m], start)
                      /\ \A i \in 1 .. Len(keeps) : i <= m => Apart(f[m], keeps[i])
           Bad == {m \in 0 .. N : ~Good(m)}
<1>3. Bad = {}
  <2> SUFFICES ASSUME Bad # {} PROVE FALSE
    OBVIOUS
  <2>1. PICK m \in Bad : \A j \in Bad : m <= j
    <3>1. Bad \subseteq Nat
      BY <1>1
    <3> HIDE DEF Bad
    <3> QED BY <3>1, FirstOf
  <2>2. m \in 0 .. N /\ ~Good(m)
    OBVIOUS
  <2>3. CASE m = 0
    <3>1. Inside(start, start)
      BY InsideSelf
    <3>2. \A i \in 1 .. Len(keeps) : ~(i <= 0)
      OBVIOUS
    <3> QED BY <1>2, <2>2, <2>3, <3>1, <3>2
  <2>4. CASE m # 0
    <3>1. m - 1 \in 0 .. N /\ m - 1 \notin Bad /\ m - 1 \in Nat /\ m \in 1 .. N /\ (m - 1) + 1 = m
      BY <1>1, <2>1, <2>2, <2>4
    <3>2. Good(m - 1)
      BY <3>1
    <3>3. f[m] = Clear(f[m - 1], keeps)
      BY <1>2, <3>1
    <3> DEFINE k == m - 1
    <3>4. f[k] \in Box /\ k \in Nat /\ Inside(f[k], start) /\ k + 1 = m
          /\ \A i \in 1 .. Len(keeps) : i <= k => Apart(f[k], keeps[i])
      BY <3>1, <3>2
    <3> HIDE DEF Bad, Good
    <3>5. f[m] \in Box /\ Inside(f[m], f[k])
          /\ \A i \in 1 .. Len(keeps) : i <= k + 1 => Apart(f[m], keeps[i])
      <4> HIDE DEF k
      <4> QED BY <3>3, <3>4, OneMoreCleared DEF k
    <3>6. Inside(f[m], start)
      BY <3>4, <3>5, InsideOf
    <3> QED BY <2>2, <3>4, <3>5, <3>6 DEF Good
  <2> QED BY <2>3, <2>4
<1>4. Good(N)
  BY <1>1, <1>3
<1>5. \A i \in 1 .. Len(keeps) : i <= N
  BY <1>1
<1> QED BY <1>1, <1>2, <1>4, <1>5

\* A whole number of times something is that something again.
LEMMA Quotient ==
  ASSUME NEW a \in Nat \ {0}, NEW b \in Int
  PROVE  (a * b) \div a = b
  OBVIOUS

\* A product that fits its space with the margin is placed inside it.
LEMMA PlacedInside ==
  ASSUME NEW free \in Box, NEW cut \in (Nat \ {0}) \X (Nat \ {0}), NEW margin \in Nat,
         free[3] - free[1] > 2 * margin, free[4] - free[2] > 2 * margin
  PROVE  Inside(Place(cut, free, margin), free)
<1> DEFINE w == free[3] - free[1] - 2 * margin
           h == free[4] - free[2] - 2 * margin
<1>1. /\ free[1] \in Int /\ free[2] \in Int /\ free[3] \in Int /\ free[4] \in Int
      /\ cut[1] \in Nat \ {0} /\ cut[2] \in Nat \ {0}
  BY BoxParts
<1>2. w \in Int /\ h \in Int /\ w >= 1 /\ h >= 1 /\ Most(1, w) = w /\ Most(1, h) = h
  BY <1>1 DEF Most
<1>3. (cut[1] * w) \div cut[1] = w /\ (cut[2] * h) \div cut[2] = h
  <2> HIDE DEF w, h
  <2> QED BY <1>1, <1>2, Quotient
<1>4. /\ (cut[1] * h) \div cut[2] \in Int /\ (cut[1] * 5) \div 4 \in Int
      /\ (cut[2] * w) \div cut[1] \in Int /\ (cut[2] * 5) \div 4 \in Int
  <2> HIDE DEF w, h
  <2>1. \A a \in Int, b \in Nat \ {0} : a \div b \in Int
    OBVIOUS
  <2>2. \A a, b \in Int : a * b \in Int
    OBVIOUS
  <2>3. /\ cut[1] * h \in Int /\ cut[1] * 5 \in Int /\ cut[2] * w \in Int /\ cut[2] * 5 \in Int
    BY <1>1, <1>2, <2>2
  <2> QED BY <1>1, <2>1, <2>3
<1> DEFINE size == PlacedSize(cut, free, margin)
<1>5. /\ size[1] = Most(1, Least(Least((cut[1] * w) \div cut[1], (cut[1] * h) \div cut[2]), (cut[1] * 5) \div 4))
      /\ size[2] = Most(1, Least(Least((cut[2] * w) \div cut[1], (cut[2] * h) \div cut[2]), (cut[2] * 5) \div 4))
  BY <1>2 DEF PlacedSize
<1>6. size[1] \in 1 .. w /\ size[2] \in 1 .. h
  <2> HIDE DEF w, h, size
  <2>1. \A a, b, c \in Int : a >= 1 => Most(1, Least(Least(a, b), c)) \in 1 .. a
    BY DEF Most, Least
  <2>2. \A a, b, c \in Int : b >= 1 => Most(1, Least(Least(a, b), c)) \in 1 .. b
    BY DEF Most, Least
  <2>3. PICK b1 \in Int, d1 \in Int, b2 \in Int, d2 \in Int :
          /\ b1 = (cut[1] * h) \div cut[2] /\ d1 = (cut[1] * 5) \div 4
          /\ b2 = (cut[2] * w) \div cut[1] /\ d2 = (cut[2] * 5) \div 4
    BY <1>4
  <2>4. /\ size[1] = Most(1, Least(Least(w, b1), d1))
        /\ size[2] = Most(1, Least(Least(b2, h), d2))
    BY <1>3, <1>5, <2>3
  <2>5. size[1] \in 1 .. w
    BY <1>2, <2>1, <2>4
  <2>6. size[2] \in 1 .. h
    BY <1>2, <2>2, <2>4
  <2> QED BY <2>5, <2>6
<1> DEFINE p == Place(cut, free, margin)
           x == Most(free[1] + margin, Least(free[1] + margin + (w - size[1]) \div 2,
                                             free[3] - margin - size[1]))
<1>7. /\ p[1] = x /\ p[2] = free[4] - margin - size[2]
      /\ p[3] = x + size[1] /\ p[4] = free[4] - margin
  <2>1. p = <<x, free[4] - margin - size[2], x + size[1], free[4] - margin - size[2] + size[2]>>
    BY <1>2 DEF Place
  <2>2. free[4] - margin - size[2] + size[2] = free[4] - margin
    BY <1>1, <1>6
  <2> HIDE DEF p, x, size
  <2> QED BY <2>1, <2>2
<1>8. x >= free[1] + margin /\ x <= free[3] - margin - size[1] /\ x \in Int
  <2>1. (w - size[1]) \div 2 \in Int /\ size[1] \in Int
    <3> HIDE DEF w, size
    <3>1. \A a \in Int : a \div 2 \in Int
      OBVIOUS
    <3> QED BY <1>2, <1>6, <3>1
  <2> DEFINE mid == free[1] + margin + (w - size[1]) \div 2
  <2>2. mid \in Int
    BY <1>1, <2>1
  <2>3. free[1] + margin <= free[3] - margin - size[1]
    BY <1>1, <1>6
  <2> HIDE DEF mid, size
  <2> QED BY <1>1, <2>1, <2>2, <2>3 DEF Most, Least, mid
<1>9. p[1] >= free[1] /\ p[2] >= free[2] /\ p[3] <= free[3] /\ p[4] <= free[4]
  <2> HIDE DEF p, x, size
  <2> QED BY <1>1, <1>6, <1>7, <1>8
<1> QED BY <1>9 DEF Inside

\* "The product stands in the rectangle the measured layout leaves clear of words and mark,
\* so nothing sits on it -- by construction" (pipeline.py _build_one), for any number of
\* keep-outs anywhere: the loop clears one more of them each time round and never gives one
\* back, and place stays inside what it is given.
THEOREM ProductStandsClear ==
  ASSUME NEW start \in Box, NEW keeps \in Seq(Box),
         NEW cut \in (Nat \ {0}) \X (Nat \ {0}), NEW margin \in Nat
  PROVE  ProductClear(start, keeps, cut, margin)
<1> DEFINE free == FreeRect(start, keeps)
<1>1. free \in Box /\ Inside(free, start) /\ \A i \in DOMAIN keeps : Apart(free, keeps[i])
  BY FreeRectClears
<1>2. free[3] - free[1] > 2 * margin /\ free[4] - free[2] > 2 * margin
        => Inside(Place(cut, free, margin), free)
  <2> HIDE DEF free
  <2> QED BY <1>1, PlacedInside
<1> HIDE DEF free
<1> QED BY <1>1, <1>2 DEF ProductClear, free

-----------------------------------------------------------------------------
(* A crop around its subject. *)

\* Of two numbers.
LEMMA GreaterOf ==
  ASSUME NEW a \in Int, NEW b \in Int PROVE Max({a, b}) = IF a >= b THEN a ELSE b
BY DEF Max
LEMMA LesserOf ==
  ASSUME NEW a \in Int, NEW b \in Int PROVE Min({a, b}) = IF a <= b THEN a ELSE b
BY DEF Min

\* Rounding is off by half a unit at most.
LEMMA RoundedNear ==
  ASSUME NEW num \in Int, NEW den \in Nat \ {0}
  PROVE  /\ RoundHalfEven(num, den) \in Int
         /\ 2 * (den * RoundHalfEven(num, den)) - 2 * num <= den
         /\ 2 * num - 2 * (den * RoundHalfEven(num, den)) <= den
<1> DEFINE whole == num \div den
           rest == num % den
           r == RoundHalfEven(num, den)
<1>1. whole \in Int /\ den \in Nat /\ den > 0
  <2>1. \A a \in Int, b \in Nat \ {0} : a \div b \in Int
    OBVIOUS
  <2> QED BY <2>1
<1>2. num >= den * whole /\ num < den * whole + den
  <2>1. num >= den * whole
    OBVIOUS
  <2>2. num < den * whole + den
    OBVIOUS
  <2> QED BY <2>1, <2>2
<1>3. rest = num - den * whole
  OBVIOUS
<1>4. \/ r = whole /\ 2 * rest <= den
      \/ r = whole + 1 /\ 2 * rest >= den
  <2>1. r = IF 2 * rest > den \/ (2 * rest = den /\ whole % 2 = 1) THEN whole + 1 ELSE whole
    BY DEF RoundHalfEven
  <2> HIDE DEF r, whole, rest
  <2>2. PICK p : p = den * whole
    OBVIOUS
  <2>3. p \in Int
    BY <1>1, <2>2
  <2>4. rest \in Int
    BY <1>3, <2>2, <2>3
  <2> QED BY <1>1, <2>1, <2>4
<1> HIDE DEF r, whole, rest
<1>5. PICK p : p = den * whole
  OBVIOUS
<1>6. p \in Int /\ num >= p /\ num < p + den /\ rest = num - p
  BY <1>1, <1>2, <1>3, <1>5
<1>7. CASE r = whole /\ 2 * rest <= den
  <2>1. 2 * (den * r) = 2 * p
    BY <1>5, <1>7
  <2> QED BY <1>1, <1>6, <1>7, <2>1 DEF r
<1>8. CASE r = whole + 1 /\ 2 * rest >= den
  <2>1. den * r = p + den
    BY <1>1, <1>5, <1>8
  <2>2. r \in Int
    BY <1>1, <1>8
  <2> QED BY <1>1, <1>6, <1>8, <2>1, <2>2 DEF r
<1> QED BY <1>4, <1>7, <1>8

\* Of two whole numbers, times a unit.
LEMMA LessByUnits ==
  ASSUME NEW d \in Nat \ {0}, NEW a \in Int, NEW b \in Int, d * a < d * b + d
  PROVE  a <= b
<1> SUFFICES ASSUME a >= b + 1 PROVE FALSE
  OBVIOUS
<1>1. PICK c \in Nat : a = b + 1 + c
  <2>1. a - b - 1 \in Nat /\ a = b + 1 + (a - b - 1)
    OBVIOUS
  <2> QED BY <2>1
<1>2. d * a = d * b + d + d * c
  BY <1>1
<1>3. d * c >= 0
  OBVIOUS
<1>4. d * b \in Int /\ d * c \in Int
  OBVIOUS
<1> QED BY <1>2, <1>3, <1>4

\* One side of a crop: what is placed by the subject at lo .. hi, span wide in units of
\* 1/den, of a picture of `full`.
LEMMA SideKept ==
  ASSUME NEW lo \in Nat, NEW hi \in Nat, NEW full \in Nat, NEW span \in Nat,
         NEW den \in Nat \ {0},
         lo < hi, hi <= full, span <= den * full, ~TooLarge(lo, hi, span, den)
  PROVE  LET put == PlaceCrop(lo, hi, span, den, full)
             far == RoundHalfEven(put * den + span, den)
         IN put >= 0 /\ far <= full + 1 /\ put <= lo + 1 /\ hi <= far + 1
<1> DEFINE put == PlaceCrop(lo, hi, span, den, full)
           far == RoundHalfEven(put * den + span, den)
<1>0. PICK L, H, F : L = den * lo /\ H = den * hi /\ F = den * full
  OBVIOUS
<1>1. L \in Nat /\ H \in Nat /\ F \in Nat /\ den \in Nat /\ den > 0
  BY <1>0
<1>2. H <= F /\ L < H /\ span <= F
  <2>1. PICK c \in Nat : full = hi + c
    <3>1. full - hi \in Nat /\ full = hi + (full - hi)
      OBVIOUS
    <3> QED BY <3>1
  <2>2. den * full = den * hi + den * c /\ den * c \in Nat
    BY <2>1
  <2>3. PICK e \in Nat : hi = lo + 1 + e
    <3>1. hi - lo - 1 \in Nat /\ hi = lo + 1 + (hi - lo - 1)
      OBVIOUS
    <3> QED BY <3>1
  <2>4. den * hi = den * lo + den + den * e /\ den * e \in Nat
    BY <2>3
  <2> QED BY <1>0, <1>1, <2>2, <2>4
<1>3. 2 * (H - L) <= 2 * span + den
  <2>1. den * (hi - lo) = H - L
    BY <1>0
  <2>2. 2 * den * (hi - lo) = 2 * (den * (hi - lo))
    OBVIOUS
  <2>3. 2 * (H - L) \in Int /\ 2 * span + den \in Int
    BY <1>1
  <2>4. ~(2 * den * (hi - lo) > 2 * span + den)
    BY DEF TooLarge
  <2> HIDE DEF TooLarge
  <2> QED BY <2>1, <2>2, <2>3, <2>4
<1> DEFINE unit == 100 * den
           margin == Min({4 * span, 50 * (span - (hi - lo) * den)})
           centred == 50 * ((lo + hi) * den - span)
           start == Max({Min({centred, lo * unit - margin}), hi * unit + margin - 100 * span})
           num == Min({Max({0, start}), full * unit - 100 * span})
<1>4. put = RoundHalfEven(num, unit)
  BY DEF PlaceCrop
<1>5. /\ (hi - lo) * den = H - L /\ (lo + hi) * den = L + H
      /\ lo * unit = 100 * L /\ hi * unit = 100 * H /\ full * unit = 100 * F
  BY <1>0
<1>5a. centred = 50 * (L + H - span)
  <2>1. PICK both : both = (lo + hi) * den
    OBVIOUS
  <2>2. both = L + H
    BY <1>5, <2>1
  <2>3. centred = 50 * (both - span)
    BY <2>1
  <2> QED BY <1>1, <2>2, <2>3
<1>6. PICK m \in Int : /\ m = margin /\ m <= 4 * span /\ m <= 50 * (span - (H - L))
                       /\ m >= -(25 * den)
  <2>1. 4 * span \in Int /\ 50 * (span - (H - L)) \in Int
    BY <1>1
  <2>2. margin = IF 4 * span <= 50 * (span - (H - L)) THEN 4 * span
                 ELSE 50 * (span - (H - L))
    BY <1>5, <2>1, LesserOf
  <2>3. 50 * (span - (H - L)) >= -(25 * den)
    BY <1>1, <1>3
  <2> HIDE DEF margin
  <2>4. margin \in Int
    BY <2>1, <2>2
  <2>5. /\ margin <= 4 * span /\ margin <= 50 * (span - (H - L))
        /\ margin >= -(25 * den)
    BY <1>1, <2>1, <2>2, <2>3
  <2> QED BY <2>4, <2>5
<1>7. PICK s \in Int : /\ s = start /\ s <= 100 * L + 25 * den
                       /\ s >= 100 * H + m - 100 * span
  <2> DEFINE c == 50 * (L + H - span)
             k == IF c <= 100 * L - m THEN c ELSE 100 * L - m
             e == 100 * H + m - 100 * span
  <2>1. c \in Int /\ 100 * L - m \in Int /\ k \in Int /\ e \in Int
    BY <1>1
  <2>2. Min({c, 100 * L - m}) = k
    <3> HIDE DEF c
    <3> QED BY <2>1, LesserOf
  <2>3. start = Max({k, e})
    <3>1. start = Max({Min({50 * (L + H - span), 100 * L - m}), 100 * H + m - 100 * span})
      <4>1. centred = 50 * (L + H - span)
        BY <1>5a
      <4>2. start = Max({Min({centred, lo * unit - margin}), hi * unit + margin - 100 * span})
        OBVIOUS
      <4> HIDE DEF margin, centred, start, unit
      <4> QED BY <1>5, <1>6, <4>1, <4>2
    <3>2. start = Max({Min({c, 100 * L - m}), e})
      BY <3>1
    <3> HIDE DEF c, k, e, start
    <3> QED BY <2>2, <3>2
  <2>4. start = IF k >= e THEN k ELSE e
    <3> HIDE DEF k, e, start
    <3> QED BY <2>1, <2>3, GreaterOf
  <2>5. k <= 100 * L + 25 * den
    BY <1>1, <1>6
  <2>6. e <= 100 * L + 25 * den
    BY <1>1, <1>3, <1>6
  <2> HIDE DEF k, start
  <2>7. start \in Int /\ start <= 100 * L + 25 * den /\ start >= e
    BY <1>1, <2>1, <2>4, <2>5, <2>6
  <2> QED BY <2>7
<1>8. PICK n \in Int : /\ n = num /\ n >= 0 /\ n <= 100 * F - 100 * span
                       /\ n <= 100 * L + 25 * den
                       /\ n >= 100 * H - 25 * den - 100 * span
  <2> DEFINE z == IF 0 >= s THEN 0 ELSE s
             y == 100 * F - 100 * span
  <2>1. z \in Int /\ y \in Int /\ y >= 0
    BY <1>1, <1>2
  <2>2. Max({0, s}) = z
    BY GreaterOf
  <2>3. num = Min({z, y})
    <3> HIDE DEF start
    <3>1. num = Min({Max({0, s}), y})
      BY <1>5, <1>7
    <3> HIDE DEF z, y, num
    <3> QED BY <2>2, <3>1
  <2>4. num = IF z <= y THEN z ELSE y
    <3> HIDE DEF z, y, num
    <3> QED BY <2>1, <2>3, LesserOf
  <2>5. z >= 0 /\ z <= 100 * L + 25 * den /\ z >= 100 * H - 25 * den - 100 * span
    BY <1>1, <1>6, <1>7
  <2>6. y >= 100 * H - 25 * den - 100 * span
    BY <1>1, <1>2
  <2> HIDE DEF z, num
  <2>7. num \in Int
    BY <2>1, <2>4
  <2>8. /\ num >= 0 /\ num <= y /\ num <= 100 * L + 25 * den
        /\ num >= 100 * H - 25 * den - 100 * span
    BY <1>1, <2>1, <2>4, <2>5, <2>6
  <2> QED BY <2>7, <2>8
<1> HIDE DEF num, start, centred, margin
<1>9. /\ put \in Int /\ 2 * (unit * put) - 2 * n <= unit /\ 2 * n - 2 * (unit * put) <= unit
  <2>1. unit \in Nat \ {0}
    BY <1>1
  <2> HIDE DEF unit, put
  <2> QED BY <1>4, <1>8, <2>1, RoundedNear
<1> HIDE DEF put
<1>10. PICK R \in Int : R = den * put
  BY <1>1, <1>9
<1>11. 200 * R - 2 * n <= 100 * den /\ 2 * n - 200 * R <= 100 * den
  <2>1. 2 * (unit * put) = 200 * R
    BY <1>1, <1>9, <1>10
  <2> QED BY <1>9, <2>1
<1>12. /\ far \in Int /\ 2 * (den * far) - 2 * (R + span) <= den
       /\ 2 * (R + span) - 2 * (den * far) <= den
  <2>1. put * den + span = R + span /\ R + span \in Int
    BY <1>1, <1>9, <1>10
  <2> HIDE DEF far
  <2>2. far = RoundHalfEven(R + span, den)
    BY <2>1 DEF far
  <2> QED BY <2>1, <2>2, RoundedNear
<1> HIDE DEF far
<1>13. PICK D \in Int : D = den * far
  BY <1>1, <1>12
<1>14. 2 * D - 2 * (R + span) <= den /\ 2 * (R + span) - 2 * D <= den
  BY <1>12, <1>13
<1>15. 0 <= put
  <2>1. 0 < R + den
    BY <1>1, <1>8, <1>11
  <2>2. den * 0 < den * put + den
    BY <1>1, <1>10, <2>1
  <2> QED BY <1>9, <2>2, LessByUnits
<1>16. put <= lo
  <2>1. R < L + den
    BY <1>1, <1>8, <1>11
  <2>2. den * put < den * lo + den
    BY <1>0, <1>10, <2>1
  <2> QED BY <1>9, <2>2, LessByUnits
<1>17. far <= full + 1
  <2>1. D < F + den + den
    BY <1>1, <1>8, <1>11, <1>14
  <2>2. den * (full + 1) = F + den
    BY <1>0
  <2>3. den * far < den * (full + 1) + den
    BY <1>13, <2>1, <2>2
  <2>4. full + 1 \in Int
    OBVIOUS
  <2> QED BY <1>12, <2>3, <2>4, LessByUnits
<1>18. hi <= far + 1
  <2>1. H < D + den + den
    BY <1>1, <1>8, <1>11, <1>14
  <2>2. den * (far + 1) = D + den
    BY <1>12, <1>13
  <2>3. den * hi < den * (far + 1) + den
    BY <1>0, <2>1, <2>2
  <2>4. far + 1 \in Int
    BY <1>12
  <2> QED BY <1>12, <2>3, <2>4, LessByUnits
<1>19. put >= 0 /\ far <= full + 1 /\ put <= lo + 1 /\ hi <= far + 1
  BY <1>9, <1>12, <1>15, <1>16, <1>17, <1>18
<1> QED BY <1>19 DEF put, far

\* Both sides of a crop fit the picture.
LEMMA CutInside ==
  ASSUME NEW image \in (Nat \ {0}) \X (Nat \ {0}), NEW window \in (Nat \ {0}) \X (Nat \ {0})
  PROVE  LET cut == Cut(image, window)
         IN /\ cut.den \in Nat \ {0} /\ cut.w \in Nat /\ cut.h \in Nat
            /\ cut.w <= cut.den * image[1] /\ cut.h <= cut.den * image[2]
<1> DEFINE cut == Cut(image, window)
<1>1. /\ image[1] \in Nat \ {0} /\ image[2] \in Nat \ {0}
      /\ window[1] \in Nat \ {0} /\ window[2] \in Nat \ {0}
  OBVIOUS
<1>2. PICK a, b, c, d : a = image[1] /\ b = image[2] /\ c = window[1] /\ d = window[2]
  OBVIOUS
<1>3. a \in Nat \ {0} /\ b \in Nat \ {0} /\ c \in Nat \ {0} /\ d \in Nat \ {0}
  BY <1>1, <1>2
<1>4. cut = IF c * b >= d * a THEN [w |-> a * c, h |-> d * a, den |-> c]
            ELSE [w |-> c * b, h |-> b * d, den |-> d]
  BY <1>2 DEF Cut, FillsWidth
<1> HIDE DEF cut
<1>5. /\ a * c \in Nat /\ d * a \in Nat /\ c * b \in Nat /\ b * d \in Nat
      /\ a * c = c * a /\ b * d = d * b
  BY <1>3
<1>6. CASE c * b >= d * a
  <2>1. cut.w = a * c /\ cut.h = d * a /\ cut.den = c
    BY <1>4, <1>6
  <2>2. cut.w <= cut.den * a /\ cut.h <= cut.den * b
    BY <1>5, <1>6, <2>1
  <2> QED BY <1>2, <1>3, <1>5, <2>1, <2>2 DEF cut
<1>7. CASE ~(c * b >= d * a)
  <2>1. cut.w = c * b /\ cut.h = b * d /\ cut.den = d
    BY <1>4, <1>7
  <2>2. cut.w <= cut.den * a /\ cut.h <= cut.den * b
    BY <1>5, <1>7, <2>1
  <2> QED BY <1>2, <1>3, <1>5, <2>1, <2>2 DEF cut
<1> QED BY <1>6, <1>7

\* "The crop is placed so the whole of it stays inside the window" (fit_background,
\* _focus_crop): of any photograph in any window, wherever the subject is, a crop keeps the
\* subject and takes nothing outside the photograph, to the pixel that rounding may cost.
\* The margin may fall below nothing by a quarter of a pixel (a subject half a pixel too
\* large is still cropped) and each rounding is half a pixel: less than one in all.
THEOREM CropKeepsSubject ==
  \A image, window \in (Nat \ {0}) \X (Nat \ {0}), focus \in Nat \X Nat \X Nat \X Nat :
    /\ focus[1] < focus[3] /\ focus[3] <= image[1]
    /\ focus[2] < focus[4] /\ focus[4] <= image[2]
    => SubjectKept(image, window, focus)
<1> SUFFICES ASSUME NEW image \in (Nat \ {0}) \X (Nat \ {0}),
                    NEW window \in (Nat \ {0}) \X (Nat \ {0}),
                    NEW focus \in Nat \X Nat \X Nat \X Nat,
                    focus[1] < focus[3], focus[3] <= image[1],
                    focus[2] < focus[4], focus[4] <= image[2],
                    FitPhoto(image, window, focus).mode = "crop"
             PROVE  LET fit == FitPhoto(image, window, focus)
                        far == FarCorner(image, window, fit.at)
                    IN \A i \in {1, 2} :
                         /\ fit.at[i] >= 0 /\ far[i] <= image[i] + 1
                         /\ fit.at[i] <= focus[i] + 1 /\ focus[i + 2] <= far[i] + 1
  BY DEF SubjectKept
<1> DEFINE cut == Cut(image, window)
           fit == FitPhoto(image, window, focus)
           far == FarCorner(image, window, fit.at)
<1>1. /\ ~TooLarge(focus[1], focus[3], cut.w, cut.den)
      /\ ~TooLarge(focus[2], focus[4], cut.h, cut.den)
      /\ fit = FocusCrop(image, cut, focus)
  <2> HIDE DEF cut
  <2>1. fit = IF image = window THEN Whole
              ELSE IF ~EnlargedAtMost(image, window, 115) THEN PhotoTooSmall
              ELSE IF Loses(image, window, 1) THEN Whole
              ELSE IF TooLarge(focus[1], focus[3], cut.w, cut.den)
                      \/ TooLarge(focus[2], focus[4], cut.h, cut.den) THEN Letterbox
              ELSE FocusCrop(image, cut, focus)
    BY DEF FitPhoto, cut
  <2>2. fit.mode = "crop"
    OBVIOUS
  <2> HIDE DEF fit
  <2>3. Whole.mode # "crop" /\ PhotoTooSmall.mode # "crop" /\ Letterbox.mode # "crop"
    BY DEF Whole, PhotoTooSmall, Letterbox
  <2> QED BY <2>1, <2>2, <2>3
<1> HIDE DEF fit
<1>2. /\ cut.den \in Nat \ {0} /\ cut.w \in Nat /\ cut.h \in Nat
      /\ cut.w <= cut.den * image[1] /\ cut.h <= cut.den * image[2]
  BY CutInside
<1> HIDE DEF cut
<1>3. /\ focus[1] \in Nat /\ focus[2] \in Nat /\ focus[3] \in Nat /\ focus[4] \in Nat
      /\ image[1] \in Nat /\ image[2] \in Nat
  OBVIOUS
<1>4. /\ fit.at[1] = PlaceCrop(focus[1], focus[3], cut.w, cut.den, image[1])
      /\ fit.at[2] = PlaceCrop(focus[2], focus[4], cut.h, cut.den, image[2])
  BY <1>1 DEF FocusCrop
<1>5. /\ far[1] = RoundHalfEven(fit.at[1] * cut.den + cut.w, cut.den)
      /\ far[2] = RoundHalfEven(fit.at[2] * cut.den + cut.h, cut.den)
  BY DEF FarCorner, cut
<1> HIDE DEF far
<1>6. fit.at[1] >= 0 /\ far[1] <= image[1] + 1 /\ fit.at[1] <= focus[1] + 1
        /\ focus[3] <= far[1] + 1
  <2>1. LET put == PlaceCrop(focus[1], focus[3], cut.w, cut.den, image[1])
            end == RoundHalfEven(put * cut.den + cut.w, cut.den)
        IN put >= 0 /\ end <= image[1] + 1 /\ put <= focus[1] + 1 /\ focus[3] <= end + 1
    BY <1>1, <1>2, <1>3, SideKept
  <2> QED BY <1>4, <1>5, <2>1
<1>7. fit.at[2] >= 0 /\ far[2] <= image[2] + 1 /\ fit.at[2] <= focus[2] + 1
        /\ focus[4] <= far[2] + 1
  <2>1. LET put == PlaceCrop(focus[2], focus[4], cut.h, cut.den, image[2])
            end == RoundHalfEven(put * cut.den + cut.h, cut.den)
        IN put >= 0 /\ end <= image[2] + 1 /\ put <= focus[2] + 1 /\ focus[4] <= end + 1
    BY <1>1, <1>2, <1>3, SideKept
  <2> QED BY <1>4, <1>5, <2>1
<1>8. \A i \in {1, 2} : /\ fit.at[i] >= 0 /\ far[i] <= image[i] + 1
                        /\ fit.at[i] <= focus[i] + 1 /\ focus[i + 2] <= far[i] + 1
  BY <1>6, <1>7
<1> QED BY <1>8 DEF fit, far

-----------------------------------------------------------------------------
(* The frame for a window. *)

\* The sizes of pictures.
Sizes == (Nat \ {0}) \X (Nat \ {0})

\* One of a set with the least of some measure.
LEMMA LeastBy ==
  ASSUME NEW S, S # {}, NEW key \in [S -> Nat]
  PROVE  \E x \in S : \A y \in S : key[x] <= key[y]
<1> DEFINE V == {key[x] : x \in S}
<1>1. V \subseteq Nat /\ V # {}
  OBVIOUS
<1>2. PICK k \in V : \A j \in V : k <= j
  <2> HIDE DEF V
  <2> QED BY <1>1, FirstOf
<1>3. PICK x \in S : key[x] = k
  OBVIOUS
<1>4. \A y \in S : key[x] <= key[y]
  BY <1>2, <1>3
<1> QED BY <1>4

\* A trim is a fraction, and its hundredths a number.
LEMMA TrimIs ==
  ASSUME NEW frame \in Sizes, NEW window \in Sizes
  PROVE  /\ CropFor(frame, window)[1] \in Nat /\ CropFor(frame, window)[2] \in Nat \ {0}
         /\ Cents(frame, window) \in Nat
         /\ OffTarget(frame, window) \in Nat
<1> DEFINE c == CropFor(frame, window)
<1>1. /\ frame[1] \in Nat \ {0} /\ frame[2] \in Nat \ {0}
      /\ window[1] \in Nat \ {0} /\ window[2] \in Nat \ {0}
  BY DEF Sizes
<1>2. PICK a, b : a = window[1] * frame[2] /\ b = window[2] * frame[1]
  OBVIOUS
<1>3. a \in Nat /\ b \in Nat
  BY <1>1, <1>2
<1>4. c = IF a >= b THEN <<a - b, frame[1]>> ELSE <<b - a, frame[2]>>
  BY <1>2 DEF CropFor
<1> HIDE DEF c
<1>5. c[1] \in Nat /\ c[2] \in Nat \ {0}
  <2>1. CASE a >= b
    <3>1. c[1] = a - b /\ c[2] = frame[1]
      BY <1>4, <2>1
    <3> QED BY <1>1, <1>3, <2>1, <3>1
  <2>2. CASE ~(a >= b)
    <3>1. c[1] = b - a /\ c[2] = frame[2]
      BY <1>4, <2>2
    <3> QED BY <1>1, <1>3, <2>2, <3>1
  <2> QED BY <2>1, <2>2
<1>6. Cents(frame, window) \in Nat
  <2>1. PICK n, d : n = 100 * c[1] /\ d = c[2]
    OBVIOUS
  <2>2. n \in Nat /\ d \in Nat \ {0} /\ n \in Int
    BY <1>5, <2>1
  <2>3. PICK r : r = RoundHalfEven(n, d)
    OBVIOUS
  <2>4. r \in Int /\ 2 * n - 2 * (d * r) <= d
    BY <2>2, <2>3, RoundedNear
  <2>5. d * 0 < d * r + d
    <3>1. PICK q : q = d * r
      OBVIOUS
    <3>2. q \in Int /\ 2 * n - 2 * q <= d
      BY <2>2, <2>4, <3>1
    <3>3. 0 < q + d
      BY <2>2, <3>2
    <3> QED BY <2>2, <3>1, <3>3
  <2>6. 0 <= r
    BY <2>2, <2>4, <2>5, LessByUnits
  <2> QED BY <2>1, <2>3, <2>4, <2>6 DEF Cents, c
<1>7. OffTarget(frame, window) \in Nat
  <2>1. PICK d : d = frame[1] * 1080 - window[1] * 1600
    OBVIOUS
  <2>2. d \in Int
    BY <1>1, <2>1
  <2>3. OffTarget(frame, window) = IF d < 0 THEN -d ELSE d
    BY <2>1 DEF OffTarget, EXPORT, CONFIGURED
  <2> QED BY <2>2, <2>3
<1> QED BY <1>5, <1>6, <1>7 DEF c

\* The search has an answer whenever it has a candidate: no two are equally good.
LEMMA BestExists ==
  ASSUME NEW window \in Sizes, NEW found, found \subseteq Sizes, found # {}
  PROVE  \E f \in found : \A g \in found \ {f} : Better(f, g, window)
<1> DEFINE fits(x) == Loses(x, window, CROP_TOLERANCE)
           S1 == IF \E x \in found : fits(x) THEN {x \in found : fits(x)} ELSE found
           cents(x) == Cents(x, window)
           off(x) == OffTarget(x, window)
<1>1. S1 \subseteq found /\ S1 # {}
  OBVIOUS
<1>2. \A x \in found : cents(x) \in Nat /\ off(x) \in Nat /\ x[1] \in Nat /\ x[2] \in Nat
                        /\ x = <<x[1], x[2]>>
  <2> SUFFICES ASSUME NEW x \in found
               PROVE  cents(x) \in Nat /\ off(x) \in Nat /\ x[1] \in Nat /\ x[2] \in Nat
                        /\ x = <<x[1], x[2]>>
    OBVIOUS
  <2>1. x \in Sizes
    OBVIOUS
  <2>2. x[1] \in Nat /\ x[2] \in Nat /\ x = <<x[1], x[2]>>
    BY <2>1 DEF Sizes
  <2> QED BY <2>1, <2>2, TrimIs
<1>3. \A x \in S1, y \in found \ S1 : fits(x) /\ ~fits(y)
  OBVIOUS
<1>4. \A x, y \in S1 : fits(x) = fits(y)
  <2>0. \A x : fits(x) \in BOOLEAN
    BY DEF Loses
  <2> HIDE DEF fits
  <2>1. CASE \E x \in found : fits(x)
    <3>1. \A x \in S1 : fits(x)
      BY <2>1
    <3> QED BY <3>1
  <2>2. CASE ~ \E x \in found : fits(x)
    <3>1. \A x \in S1 : ~fits(x)
      BY <2>2
    <3> QED BY <2>0, <3>1
  <2> QED BY <2>1, <2>2
<1> HIDE DEF S1, fits, cents, off
<1>5. PICK c \in S1 : \A y \in S1 : cents(c) <= cents(y)
  <2> DEFINE key == [x \in S1 |-> cents(x)]
  <2>1. key \in [S1 -> Nat]
    BY <1>1, <1>2
  <2>2. \A x \in S1 : key[x] = cents(x)
    OBVIOUS
  <2> HIDE DEF key
  <2> QED BY <1>1, <2>1, <2>2, LeastBy
<1> DEFINE S2 == {x \in S1 : cents(x) = cents(c)}
<1>6. S2 \subseteq S1 /\ S2 # {}
  OBVIOUS
<1>7. PICK o \in S2 : \A y \in S2 : off(o) <= off(y)
  <2> DEFINE key == [x \in S2 |-> off(x)]
  <2>1. key \in [S2 -> Nat]
    BY <1>1, <1>2
  <2>2. \A x \in S2 : key[x] = off(x)
    OBVIOUS
  <2> HIDE DEF key, S2
  <2> QED BY <1>6, <2>1, <2>2, LeastBy
<1> DEFINE S3 == {x \in S2 : off(x) = off(o)}
<1>8. S3 \subseteq S2 /\ S3 # {}
  OBVIOUS
<1> HIDE DEF S2
<1>9. PICK w \in S3 : \A y \in S3 : w[1] <= y[1]
  <2> DEFINE key == [x \in S3 |-> x[1]]
  <2>1. key \in [S3 -> Nat]
    BY <1>1, <1>2, <1>6
  <2>2. \A x \in S3 : key[x] = x[1]
    OBVIOUS
  <2> HIDE DEF key, S3
  <2> QED BY <1>8, <2>1, <2>2, LeastBy
<1> DEFINE S4 == {x \in S3 : x[1] = w[1]}
<1>10. S4 \subseteq S3 /\ S4 # {}
  OBVIOUS
<1> HIDE DEF S3
<1>11. PICK f \in S4 : \A y \in S4 : f[2] <= y[2]
  <2> DEFINE key == [x \in S4 |-> x[2]]
  <2>1. key \in [S4 -> Nat]
    BY <1>1, <1>2, <1>6, <1>8
  <2>2. \A x \in S4 : key[x] = x[2]
    OBVIOUS
  <2> HIDE DEF key, S4
  <2> QED BY <1>10, <2>1, <2>2, LeastBy
<1>12. /\ f \in S4 /\ f \in S3 /\ f \in S2 /\ f \in S1 /\ f \in found
       /\ f[1] = w[1] /\ off(f) = off(o) /\ cents(f) = cents(c)
  BY <1>1, <1>6, <1>8, <1>10, <1>11 DEF S2, S3, S4
<1>13. ASSUME NEW g \in found \ {f} PROVE Better(f, g, window)
  <2>1. CASE g \notin S1
    <3>1. fits(f) /\ ~fits(g)
      BY <1>3, <1>12, <2>1
    <3> QED BY <3>1, Zenon DEF Better, fits
  <2>2. CASE g \in S1 /\ g \notin S2
    <3>1. cents(f) # cents(g) /\ cents(f) <= cents(g)
      BY <1>5, <1>12, <2>2 DEF S2
    <3>2. cents(f) < cents(g)
      BY <1>1, <1>2, <1>12, <2>2, <3>1
    <3>3. fits(f) = fits(g)
      BY <1>4, <1>12, <2>2
    <3> QED BY <3>1, <3>2, <3>3, Zenon DEF Better, fits, cents
  <2>3. CASE g \in S2 /\ g \notin S3
    <3>1. g \in S1 /\ cents(f) = cents(g)
      BY <1>6, <1>12, <2>3 DEF S2
    <3>2. off(f) # off(g) /\ off(f) <= off(g)
      BY <1>7, <1>12, <2>3 DEF S3
    <3>3. off(f) < off(g)
      BY <1>1, <1>2, <1>12, <3>1, <3>2
    <3>4. fits(f) = fits(g)
      BY <1>4, <1>12, <3>1
    <3> QED BY <3>1, <3>2, <3>3, <3>4, Zenon DEF Better, fits, cents, off
  <2>4. CASE g \in S3
    <3>1. g \in S2 /\ g \in S1 /\ cents(f) = cents(g) /\ off(f) = off(g)
      BY <1>6, <1>8, <1>12, <2>4 DEF S2, S3
    <3>2. fits(f) = fits(g)
      BY <1>4, <1>12, <3>1
    <3>3. /\ f[1] \in Nat /\ g[1] \in Nat /\ f[2] \in Nat /\ g[2] \in Nat
          /\ f = <<f[1], f[2]>> /\ g = <<g[1], g[2]>>
      BY <1>2, <1>12
    <3>4. f[1] < g[1] \/ (f[1] = g[1] /\ f[2] < g[2])
      <4>1. f[1] <= g[1]
        BY <1>9, <1>12, <2>4
      <4>2. CASE f[1] = g[1]
        <5>1. g \in S4
          BY <1>12, <2>4, <4>2 DEF S4
        <5>2. f[2] <= g[2]
          BY <1>11, <5>1
        <5>3. f[2] # g[2]
          BY <3>3, <4>2
        <5> QED BY <3>3, <4>2, <5>2, <5>3
      <4> QED BY <3>3, <4>1, <4>2
    <3> QED BY <3>1, <3>2, <3>4, Zenon DEF Better, fits, cents, off
  <2> QED BY <2>1, <2>2, <2>3, <2>4
<1> QED BY <1>12, <1>13

\* Rounding to sixteenths gives sixteens.
LEMMA SnapIs ==
  ASSUME NEW num \in Int, NEW den \in Nat \ {0}
  PROVE  \E k \in Nat \ {0} : Snap(num, den) = 16 * k
<1> DEFINE r == RoundHalfEven(num, 16 * den)
<1>1. r \in Int
  <2>1. 16 * den \in Nat \ {0}
    OBVIOUS
  <2> QED BY <2>1, RoundedNear
<1>2. Snap(num, den) = Max({16, 16 * r})
  BY DEF Snap
<1> HIDE DEF r
<1>3. Snap(num, den) = IF 16 >= 16 * r THEN 16 ELSE 16 * r
  BY <1>1, <1>2, GreaterOf
<1>4. CASE 16 >= 16 * r
  <2>1. Snap(num, den) = 16 * 1 /\ 1 \in Nat \ {0}
    BY <1>3, <1>4
  <2> QED BY <2>1
<1>5. CASE ~(16 >= 16 * r)
  <2>1. Snap(num, den) = 16 * r /\ r \in Nat \ {0}
    BY <1>1, <1>3, <1>5
  <2> QED BY <2>1
<1> QED BY <1>4, <1>5

\* A candidate is legal, covers the window, and has sides of whole sixteens.
Sixteens(f) == \E s, t \in Nat \ {0} : f = <<16 * s, 16 * t>>

LEMMA CandidateIs ==
  ASSUME NEW window \in Sizes, NEW f \in Candidates(window)
  PROVE  f \in Sizes /\ Sixteens(f) /\ Covers(f, window) /\ Legal(f[1], f[2])
<1> DEFINE bw == window[1]
           bh == window[2]
           steps == (Snap(-((-13 * bw) \div 10), 1) \div 16) .. (Snap(16 * bw, 10) \div 16)
<1>1. bw \in Nat \ {0} /\ bh \in Nat \ {0}
  BY DEF Sizes
<1>2. f \in {<<16 * s, Snap(16 * s * bh, bw) + more>> : s \in steps, more \in {0, 16}}
        /\ Covers(f, window) /\ Legal(f[1], f[2])
  BY DEF Candidates
<1> HIDE DEF steps
<1>3. PICK s \in steps, more \in {0, 16} : f = <<16 * s, Snap(16 * s * bh, bw) + more>>
  BY <1>2
<1>4. s \in Int
  <2>1. \A a, b : \A x \in a .. b : x \in Int
    OBVIOUS
  <2> QED BY <2>1 DEF steps
<1>5. PICK k \in Nat \ {0} : Snap(16 * s * bh, bw) = 16 * k
  <2>1. 16 * s * bh \in Int
    BY <1>1, <1>4
  <2> HIDE DEF bw, bh
  <2> QED BY <1>1, <2>1, SnapIs
<1> HIDE DEF bw, bh
<1>6. f[1] = 16 * s /\ f[2] = 16 * k + more
  BY <1>3, <1>5
<1>7. s \in Nat \ {0}
  <2>1. f[1] >= bw
    BY <1>2 DEF Covers, bw
  <2> QED BY <1>1, <1>4, <1>6, <2>1
<1>8. PICK t \in Nat \ {0} : f[2] = 16 * t
  <2>1. CASE more = 0
    BY <1>6, <2>1
  <2>2. CASE more = 16
    <3>1. f[2] = 16 * (k + 1) /\ k + 1 \in Nat \ {0}
      BY <1>6, <2>2
    <3> QED BY <3>1
  <2> QED BY <2>1, <2>2
<1>9. f = <<16 * s, 16 * t>>
  BY <1>3, <1>6, <1>8
<1>10. Sixteens(f) /\ f \in Sizes
  BY <1>7, <1>8, <1>9 DEF Sixteens, Sizes
<1> QED BY <1>2, <1>10

\* Sixteens round to themselves.
LEMMA SixteensRound ==
  ASSUME NEW k \in Int
  PROVE  (16 * k) % 16 = 0 /\ RoundHalfEven(16 * k, 16) = k
<1>1. (16 * k) \div 16 = k
  BY Quotient
<1>2. (16 * k) % 16 = 16 * k - 16 * ((16 * k) \div 16)
  OBVIOUS
<1>3. (16 * k) % 16 = 0
  BY <1>1, <1>2
<1>4. ~(2 * 0 > 16) /\ ~(2 * 0 = 16)
  OBVIOUS
<1>5. RoundHalfEven(16 * k, 16) = k
  BY <1>1, <1>3, <1>4 DEF RoundHalfEven
<1> QED BY <1>3, <1>5

\* BFL's shrinking leaves a frame that is small enough as it is.
ShrinkPlaces == DOMAIN <<1, 2, 3, 4, 5, 6, 7, 8>>

Shrinks(g, base) ==
  g = [s \in SUBSET ShrinkPlaces |->
         IF s = {} THEN base
         ELSE IF g[s \ {Max(s)}][1] * g[s \ {Max(s)}][2] <= BFL_MAX_PIXELS
              THEN g[s \ {Max(s)}]
              ELSE <<Snap16((9 * g[s \ {Max(s)}][1]) \div 10),
                     Snap16((9 * g[s \ {Max(s)}][2]) \div 10)>>]

LEMMA SmallEnough ==
  ASSUME NEW f, <<Snap16(f[1]), Snap16(f[2])>> = f, f[1] * f[2] <= BFL_MAX_PIXELS
  PROVE  BflSize(f) = f
<1> DEFINE snapped == <<Snap16(f[1]), Snap16(f[2])>>
           iter == CHOOSE g : Shrinks(g, snapped)
           still == [s \in SUBSET ShrinkPlaces |-> f]
<1>1. Shrinks(still, f)
  <2>1. \A s \in SUBSET ShrinkPlaces : still[s] = f
    OBVIOUS
  <2>2. \A s \in SUBSET ShrinkPlaces : s \ {Max(s)} \in SUBSET ShrinkPlaces
    OBVIOUS
  <2>3. still = [s \in SUBSET ShrinkPlaces |-> still[s]]
    OBVIOUS
  <2> HIDE DEF still
  <2>4. \A s \in SUBSET ShrinkPlaces :
          still[s] = IF s = {} THEN f
                     ELSE IF still[s \ {Max(s)}][1] * still[s \ {Max(s)}][2]
                               <= BFL_MAX_PIXELS
                          THEN still[s \ {Max(s)}]
                          ELSE <<Snap16((9 * still[s \ {Max(s)}][1]) \div 10),
                                 Snap16((9 * still[s \ {Max(s)}][2]) \div 10)>>
    BY <2>1, <2>2, Zenon
  <2>5. [s \in SUBSET ShrinkPlaces |-> still[s]]
          = [s \in SUBSET ShrinkPlaces |->
               IF s = {} THEN f
               ELSE IF still[s \ {Max(s)}][1] * still[s \ {Max(s)}][2] <= BFL_MAX_PIXELS
                    THEN still[s \ {Max(s)}]
                    ELSE <<Snap16((9 * still[s \ {Max(s)}][1]) \div 10),
                           Snap16((9 * still[s \ {Max(s)}][2]) \div 10)>>]
    BY <2>4, Zenon
  <2> QED BY <2>3, <2>5, Zenon DEF Shrinks
<1>2. Shrinks(iter, f)
  <2>1. snapped = f
    OBVIOUS
  <2> HIDE DEF Shrinks, still, snapped
  <2> QED BY <1>1, <2>1
<1> HIDE DEF iter, still
<1>3. \A s \in SUBSET ShrinkPlaces :
        iter[s] = IF s = {} THEN f
                  ELSE IF iter[s \ {Max(s)}][1] * iter[s \ {Max(s)}][2] <= BFL_MAX_PIXELS
                       THEN iter[s \ {Max(s)}]
                       ELSE <<Snap16((9 * iter[s \ {Max(s)}][1]) \div 10),
                              Snap16((9 * iter[s \ {Max(s)}][2]) \div 10)>>
  <2> DEFINE h(s) == IF s = {} THEN f
                  ELSE IF iter[s \ {Max(s)}][1] * iter[s \ {Max(s)}][2] <= BFL_MAX_PIXELS
                       THEN iter[s \ {Max(s)}]
                       ELSE <<Snap16((9 * iter[s \ {Max(s)}][1]) \div 10),
                              Snap16((9 * iter[s \ {Max(s)}][2]) \div 10)>>
  <2>1. iter = [s \in SUBSET ShrinkPlaces |-> h(s)]
    BY <1>2 DEF Shrinks
  <2> HIDE DEF h
  <2>2. \A s \in SUBSET ShrinkPlaces : iter[s] = h(s)
    BY <2>1, Zenon
  <2> QED BY <2>2, Zenon DEF h
<1>4. ShrinkPlaces = 1 .. 8
  BY DEF ShrinkPlaces
<1> DEFINE S == {k \in Nat : k <= 8 /\ iter[1 .. k] # f}
<1>5. S = {}
  <2> SUFFICES ASSUME S # {} PROVE FALSE
    OBVIOUS
  <2>1. PICK k \in S : \A j \in S : k <= j
    <3>1. S \subseteq Nat
      OBVIOUS
    <3> HIDE DEF S
    <3> QED BY <3>1, FirstOf
  <2>2. k \in Nat /\ k <= 8 /\ iter[1 .. k] # f
    OBVIOUS
  <2>3. k # 0
    <3> SUFFICES ASSUME k = 0 PROVE FALSE
      OBVIOUS
    <3>1. 1 .. k = {} /\ {} \in SUBSET ShrinkPlaces
      OBVIOUS
    <3>2. iter[{}] = f
      BY <1>3, <3>1, Zenon
    <3> QED BY <2>2, <3>1, <3>2
  <2>4. k - 1 \in Nat /\ k - 1 <= 8 /\ k - 1 \notin S
    <3>1. k - 1 \in Nat /\ k - 1 <= 8 /\ ~(k <= k - 1)
      BY <2>2, <2>3
    <3> HIDE DEF S
    <3> QED BY <2>1, <3>1
  <2>5. iter[1 .. k - 1] = f
    BY <2>4
  <2> HIDE DEF S
  <2>6. 1 .. k \in SUBSET ShrinkPlaces /\ 1 .. k # {} /\ (1 .. k) \ {k} = 1 .. k - 1
    <3>1. 1 .. k \subseteq 1 .. 8 /\ k \in 1 .. k
      BY <2>2, <2>3
    <3>2. (1 .. k) \ {k} = 1 .. k - 1
      BY <2>2
    <3> QED BY <1>4, <3>1, <3>2
  <2>7. Max(1 .. k) = k
    <3>1. Max(1 .. k) \in 1 .. k /\ \A j \in 1 .. k : j <= Max(1 .. k)
      BY <2>2, <2>6, LastOf
    <3>2. k <= Max(1 .. k)
      BY <2>2, <2>3, <3>1
    <3> QED BY <2>2, <3>1, <3>2
  <2>8. (1 .. k) \ {Max(1 .. k)} = 1 .. k - 1
    BY <2>6, <2>7
  <2>9. iter[1 .. k] = f
    BY <1>3, <2>5, <2>6, <2>8, Zenon
  <2> QED BY <2>2, <2>9
<1>6. iter[ShrinkPlaces] = f
  <2>1. 8 \notin S
    BY <1>5
  <2> QED BY <1>4, <2>1
<1>7. BflSize(f) = iter[ShrinkPlaces]
  BY Zenon DEF BflSize, FoldLeft, MapThenFoldSet, Shrinks, ShrinkPlaces, iter, snapped
<1> QED BY <1>6, <1>7

\* What every vendor and the compositor take: the sides BFL and OpenAI accept as they are,
\* no less than the window, which trims it by no more than the tolerance and the half of a
\* hundredth that rounding it costs.
FrameTaken(f, window) ==
  /\ OpenAIAccepts(f) /\ BflSize(f) = f
  /\ EnlargedAtMost(f, window, 100) /\ Covers(f, window)
  /\ 200 * CropFor(f, window)[1] <= 801 * CropFor(f, window)[2]

LEMMA LegalTaken ==
  ASSUME NEW window \in Sizes, NEW f \in Sizes, Sixteens(f), Covers(f, window),
         Legal(f[1], f[2])
  PROVE  OpenAIAccepts(f) /\ BflSize(f) = f /\ EnlargedAtMost(f, window, 100)
<1>1. PICK s \in Nat \ {0}, t \in Nat \ {0} : f = <<16 * s, 16 * t>>
  BY DEF Sixteens
<1>2. PICK w, h : w = f[1] /\ h = f[2]
  OBVIOUS
<1>3. w = 16 * s /\ h = 16 * t /\ w \in Nat \ {0} /\ h \in Nat \ {0} /\ f = <<w, h>>
  BY <1>1, <1>2
<1>4. Max({w, h}) = (IF w >= h THEN w ELSE h) /\ Min({w, h}) = (IF w <= h THEN w ELSE h)
  BY <1>3, GreaterOf, LesserOf
<1>5. PICK p : p = w * h
  OBVIOUS
<1>6. /\ Max({w, h}) <= 3840 /\ Max({w, h}) <= 3 * Min({w, h})
      /\ p \in Nat /\ 655360 <= p /\ p <= 3686400
  <2>1. /\ Max({w, h}) <= GEN_MAX_EDGE /\ Max({w, h}) <= 3 * Min({w, h})
        /\ GEN_MIN_PIXELS <= w * h /\ w * h <= GEN_MAX_PIXELS
    BY <1>2 DEF Legal
  <2> QED BY <1>3, <1>5, <2>1, SMT DEF GEN_MAX_EDGE, GEN_MIN_PIXELS, GEN_MAX_PIXELS
<1>7. w <= 3840 /\ h <= 3840
  BY <1>3, <1>4, <1>6, SMT
<1>8. OpenAIAccepts(f)
  <2>1. w % 16 = 0 /\ h % 16 = 0
    BY <1>3, SixteensRound
  <2>2. p <= OPENAI_MAX_PIXELS /\ GEN_MIN_PIXELS <= p
    BY <1>6, SMT DEF OPENAI_MAX_PIXELS, GEN_MIN_PIXELS
  <2>3. Max({w, h}) <= 3840 /\ Max({w, h}) <= 3 * Min({w, h})
    BY <1>6, SMT
  <2> QED BY <1>2, <1>5, <2>1, <2>2, <2>3, SMT DEF OpenAIAccepts
<1>9. w >= 64 /\ h >= 64
  <2>1. ASSUME w < 64 PROVE FALSE
    <3>1. w * h <= 63 * h
      BY <1>3, <2>1
    <3> QED BY <1>3, <1>5, <1>6, <1>7, <3>1, SMT
  <2>2. ASSUME h < 64 PROVE FALSE
    <3>1. w * h <= w * 63
      BY <1>3, <2>2
    <3> QED BY <1>3, <1>5, <1>6, <1>7, <3>1, SMT
  <2> QED BY <1>3, <2>1, <2>2
<1>10. Snap16(w) = w /\ Snap16(h) = h
  <2>1. Snap16(w) = Max({64, w}) /\ Snap16(h) = Max({64, h})
    <3>1. RoundHalfEven(16 * s, 16) = s /\ RoundHalfEven(16 * t, 16) = t
      BY SixteensRound
    <3>2. RoundHalfEven(w, 16) = s /\ RoundHalfEven(h, 16) = t
      BY <1>3, <3>1
    <3> QED BY <1>3, <3>2 DEF Snap16
  <2>2. Max({64, w}) = w /\ Max({64, h}) = h
    BY <1>3, <1>9, GreaterOf
  <2> QED BY <2>1, <2>2
<1>11. BflSize(f) = f
  <2>1. <<Snap16(f[1]), Snap16(f[2])>> = f
    BY <1>2, <1>3, <1>10
  <2>2. f[1] * f[2] <= BFL_MAX_PIXELS
    <3>1. p <= BFL_MAX_PIXELS
      BY <1>6, SMT DEF BFL_MAX_PIXELS
    <3> QED BY <1>2, <1>5, <3>1
  <2> QED BY <2>1, <2>2, SmallEnough
<1>12. EnlargedAtMost(f, window, 100)
  <2>1. w >= window[1] /\ h >= window[2]
    BY <1>2 DEF Covers
  <2>2. window[1] \in Nat /\ window[2] \in Nat
    BY DEF Sizes
  <2> QED BY <1>2, <1>3, <2>1, <2>2 DEF EnlargedAtMost
<1> QED BY <1>8, <1>11, <1>12

\* "Nothing is ever generated that the compositor will throw away" (generation_size_for_box),
\* of any window: the frame is one that OpenAI and BFL render as it is asked, and what comes
\* back covers the window unenlarged.  The trim is compared after rounding it to hundredths,
\* so in general it is 4.005 pixels at most; that the frames of the layouts' windows keep
\* to 4 is what FrameSuitsAll checks of each.
THEOREM FramesAreTaken ==
  ASSUME NEW window \in Sizes, GenerationSize(window) # NoFrame
  PROVE  FrameTaken(GenerationSize(window), window)
<1> DEFINE f == GenerationSize(window)
<1>1. CASE window = EXPORT
  <2>1. f = <<1600, 2000>> /\ f = <<16 * 100, 16 * 125>> /\ window = <<1080, 1350>>
    BY <1>1, SMT DEF GenerationSize, CONFIGURED, EXPORT
  <2> HIDE DEF f
  <2>2. f \in Sizes
    BY <2>1, SMT DEF Sizes
  <2>3. Sixteens(f)
    BY <2>1, SMT DEF Sixteens
  <2>4. Covers(f, window)
    BY <2>1, SMT DEF Covers
  <2>5. Legal(f[1], f[2])
    <3>1. Max({1600, 2000}) = 2000 /\ Min({1600, 2000}) = 1600
      BY GreaterOf, LesserOf, SMT
    <3>2. Legal(1600, 2000)
      BY <3>1, SMT DEF Legal, GEN_MAX_EDGE, GEN_MIN_PIXELS, GEN_MAX_PIXELS
    <3> QED BY <2>1, <3>2, SMT
  <2>6. 200 * CropFor(f, window)[1] <= 801 * CropFor(f, window)[2]
    <3>1. CropFor(f, window) = <<0, 1600>>
      BY <2>1, SMT DEF CropFor
    <3> QED BY <3>1
  <2> QED BY <2>2, <2>3, <2>4, <2>5, <2>6, LegalTaken DEF FrameTaken, f
<1>2. CASE window # EXPORT
  <2> DEFINE found == Candidates(window)
             chosen == CHOOSE g \in found : \A h \in found \ {g} : Better(g, h, window)
  <2>1. f = IF found = {} \/ Cents(chosen, window) > 100 * GENERATED_CROP_TOLERANCE
            THEN NoFrame ELSE chosen
    BY <1>2 DEF GenerationSize, GenerationSizeForBox
  <2> HIDE DEF chosen
  <2>2. found # {} /\ ~(Cents(chosen, window) > 400) /\ f = chosen
    BY <2>1 DEF GENERATED_CROP_TOLERANCE
  <2>3. found \subseteq Sizes
    BY CandidateIs
  <2>4. chosen \in found
    <3> HIDE DEF found
    <3>1. \E g \in found : \A h \in found \ {g} : Better(g, h, window)
      BY <2>2, <2>3, BestExists
    <3> QED BY <3>1 DEF chosen
  <2> HIDE DEF f
  <2>5. f \in Sizes /\ Sixteens(f) /\ Covers(f, window) /\ Legal(f[1], f[2])
    BY <2>2, <2>4, CandidateIs
  <2>6. 200 * CropFor(f, window)[1] <= 801 * CropFor(f, window)[2]
    <3>1. PICK cut, over : cut = CropFor(f, window)[1] /\ over = CropFor(f, window)[2]
      OBVIOUS
    <3>2. cut \in Nat /\ over \in Nat \ {0} /\ Cents(f, window) \in Nat
      BY <2>5, <3>1, TrimIs
    <3>3. PICK r : r = Cents(f, window)
      OBVIOUS
    <3>4. r \in Nat /\ r <= 400 /\ r = RoundHalfEven(100 * cut, over)
      BY <2>2, <3>1, <3>2, <3>3 DEF Cents
    <3>5. 2 * (100 * cut) - 2 * (over * r) <= over
      BY <3>2, <3>4, RoundedNear
    <3>6. over * r <= over * 400
      BY <3>2, <3>4
    <3>7. over * r \in Nat
      BY <3>2, <3>4
    <3>8. 200 * cut <= 801 * over
      BY <3>2, <3>5, <3>6, <3>7
    <3> QED BY <3>1, <3>8
  <2> QED BY <2>5, <2>6, LegalTaken DEF FrameTaken, f
<1> QED BY <1>1, <1>2

-----------------------------------------------------------------------------
(* The follow-up. *)

\* Of a list in which nothing that is not lifted stands above something that is, what
\* stands above a lifted post is lifted.
LEMMA LiftedAbove ==
  ASSUME NEW n \in Nat, NEW top \in [1 .. n -> RankedPosts],
         \A i \in 2 .. n : top[i].lifted => top[i - 1].lifted,
         NEW m \in 1 .. n, top[m].lifted
  PROVE  \A i \in 1 .. m : top[i].lifted
<1> SUFFICES ASSUME NEW i \in 1 .. m, ~top[i].lifted PROVE FALSE
  OBVIOUS
<1> DEFINE D == {d \in Nat : d < m /\ ~top[m - d].lifted}
<1>1. m - i \in D
  <2>1. m - i \in Nat /\ m - i < m /\ m - (m - i) = i
    OBVIOUS
  <2> QED BY <2>1
<1>2. PICK d \in D : \A e \in D : d <= e
  <2>1. D \subseteq Nat
    OBVIOUS
  <2> HIDE DEF D
  <2> QED BY <1>1, <2>1, FirstOf
<1>3. d # 0
  <2>1. m - 0 = m
    OBVIOUS
  <2> QED BY <2>1
<1>4. d - 1 \notin D
  <2>1. d \in Nat
    OBVIOUS
  <2> HIDE DEF D
  <2> QED BY <1>2, <1>3, <2>1
<1>5. top[m - (d - 1)].lifted
  BY <1>3, <1>4
<1>6. m - (d - 1) \in 2 .. n /\ m - (d - 1) - 1 = m - d
  BY <1>3
<1>7. top[m - d].lifted
  BY <1>5, <1>6
<1> QED BY <1>7

\* "Ranked by rate: nothing below this one qualifies either" (sequel_for): of a ranked list
\* of any length, stopping at the first post that fell short and stepping over the young and
\* the offered finds the best post that deserves a follow-up, if there is one.
THEOREM BestIsFollowedUp ==
  \A n \in Nat : \A top \in [1 .. n -> RankedPosts] : SequelIsTheBest(top)
<1> SUFFICES ASSUME NEW n \in Nat, NEW top \in [1 .. n -> RankedPosts],
                    \A i \in 2 .. Len(top) : top[i].lifted => top[i - 1].lifted
             PROVE  LET deserving == {i \in DOMAIN top : Judged(top[i]) /\ top[i].lifted
                                                           /\ ~top[i].offered}
                    IN IF deserving = {} THEN SequelFor(top) = 0
                       ELSE /\ SequelFor(top) \in deserving
                            /\ \A i \in deserving : SequelFor(top) <= i
  BY DEF SequelIsTheBest
<1> DEFINE deserving == {i \in DOMAIN top : Judged(top[i]) /\ top[i].lifted
                                              /\ ~top[i].offered}
<1>1. DOMAIN top = 1 .. n /\ Len(top) = n
  OBVIOUS
<1>2. Sequels(top) = deserving
  <2> SUFFICES ASSUME NEW i \in 1 .. n, top[i].lifted
               PROVE  ReachesIn(top, i)
    BY <1>1 DEF Sequels
  <2>1. \A j \in 1 .. i : top[j].lifted
    BY <1>1, LiftedAbove
  <2> QED BY <2>1 DEF ReachesIn
<1>3. deserving \subseteq Nat
  BY <1>1
<1> HIDE DEF deserving
<1>4. CASE deserving = {}
  BY <1>2, <1>4 DEF SequelFor, deserving
<1>5. CASE deserving # {}
  <2>1. \E i \in deserving : \A j \in deserving : i <= j
    BY <1>3, <1>5, FirstOf
  <2>2. /\ SequelFor(top) \in deserving
        /\ \A i \in deserving : SequelFor(top) <= i
    BY <1>2, <1>5, <2>1 DEF SequelFor
  <2> QED BY <1>5, <2>2 DEF deserving
<1> QED BY <1>4, <1>5

-----------------------------------------------------------------------------
(* The day's ideas. *)

\* Where the sources stand: the plan first, the festival and the follow-up after it, and
\* what was the subject of late behind the rest.
LEMMA IdeaRanks ==
  ASSUME NEW intent, NEW recent
  PROVE  /\ IdeaRank("slot", intent, recent) = 0
         /\ IdeaRank("festival", intent, recent) = 2
         /\ IdeaRank("sequel", intent, recent) = 3
         /\ IdeaRank("photo", intent, recent) = IF intent \in recent THEN 10 ELSE 4
         /\ IdeaRank("howto", intent, recent) = IF intent \in recent THEN 11 ELSE 5
         /\ IdeaRank("hook", intent, recent) = IF intent \in recent THEN 12 ELSE 6
<1> DEFINE base(source) == CHOOSE n \in DOMAIN Sources : Sources[n] = source
<1>1. /\ DOMAIN Sources = 1 .. 6 /\ Len(Sources) = 6
      /\ Sources[1] = "slot" /\ Sources[2] = "festival" /\ Sources[3] = "sequel"
      /\ Sources[4] = "photo" /\ Sources[5] = "howto" /\ Sources[6] = "hook"
  BY DEF Sources
<1>2. \A n \in 1 .. 6 : n = 1 \/ n = 2 \/ n = 3 \/ n = 4 \/ n = 5 \/ n = 6
  OBVIOUS
<1>3. /\ base("festival") = 2 /\ base("sequel") = 3
      /\ base("photo") = 4 /\ base("howto") = 5 /\ base("hook") = 6
  <2>1. base("festival") = 2
    BY <1>1, <1>2
  <2>2. base("sequel") = 3
    BY <1>1, <1>2
  <2>3. base("photo") = 4
    BY <1>1, <1>2
  <2>4. base("howto") = 5
    BY <1>1, <1>2
  <2>5. base("hook") = 6
    BY <1>1, <1>2
  <2> HIDE DEF base
  <2> QED BY <2>1, <2>2, <2>3, <2>4, <2>5
<1>4. \A source : IdeaRank(source, intent, recent)
                    = IF source = "slot" THEN 0
                      ELSE base(source) + (IF Repeats(source, intent, recent)
                                           THEN Len(Sources) ELSE 0)
  BY DEF IdeaRank
<1> HIDE DEF base
<1>5. /\ ~Repeats("festival", intent, recent) /\ ~Repeats("sequel", intent, recent)
      /\ Repeats("photo", intent, recent) <=> intent \in recent
      /\ Repeats("howto", intent, recent) <=> intent \in recent
      /\ Repeats("hook", intent, recent) <=> intent \in recent
  BY DEF Repeats
<1>6. "festival" # "slot" /\ "sequel" # "slot" /\ "photo" # "slot" /\ "howto" # "slot"
        /\ "hook" # "slot"
  OBVIOUS
<1>7. IdeaRank("slot", intent, recent) = 0
  BY <1>4
<1>8. IdeaRank("festival", intent, recent) = 2 /\ IdeaRank("sequel", intent, recent) = 3
  BY <1>3, <1>4, <1>5, <1>6
<1>9. /\ IdeaRank("photo", intent, recent) = IF intent \in recent THEN 10 ELSE 4
      /\ IdeaRank("howto", intent, recent) = IF intent \in recent THEN 11 ELSE 5
      /\ IdeaRank("hook", intent, recent) = IF intent \in recent THEN 12 ELSE 6
  BY <1>1, <1>3, <1>4, <1>5, <1>6
<1> QED BY <1>7, <1>8, <1>9

\* The ideas before one, of a finite number each with a rank of its own.
Before(all, rank, i) == {j \in all : rank[j] < rank[i]}

Ranks(all, rank) ==
  /\ IsFiniteSet(all) /\ rank \in [all -> Nat]
  /\ \A i, j \in all : rank[i] = rank[j] => i = j

\* An idea of a lower rank has fewer before it.
LEMMA FewerBefore ==
  ASSUME NEW all, NEW rank, Ranks(all, rank), NEW i \in all, NEW j \in all,
         rank[i] < rank[j]
  PROVE  /\ Cardinality(Before(all, rank, i)) \in Nat
         /\ Cardinality(Before(all, rank, i)) + 1 <= Cardinality(Before(all, rank, j))
<1>1. /\ IsFiniteSet(Before(all, rank, i)) /\ IsFiniteSet(Before(all, rank, j))
      /\ i \notin Before(all, rank, i)
  <2>1. Before(all, rank, i) \subseteq all /\ Before(all, rank, j) \subseteq all
    BY DEF Before
  <2>2. i \notin Before(all, rank, i)
    BY DEF Before, Ranks
  <2> QED BY <2>1, <2>2, FS_Subset DEF Ranks
<1>2. Before(all, rank, i) \union {i} \subseteq Before(all, rank, j)
  <2>1. \A k \in all : rank[k] \in Nat
    BY DEF Ranks
  <2> QED BY <2>1 DEF Before
<1>3. /\ IsFiniteSet(Before(all, rank, i) \union {i})
      /\ Cardinality(Before(all, rank, i) \union {i})
           = Cardinality(Before(all, rank, i)) + 1
  BY <1>1, FS_AddElement
<1>4. Cardinality(Before(all, rank, i) \union {i}) <= Cardinality(Before(all, rank, j))
  BY <1>1, <1>2, FS_Subset
<1>5. Cardinality(Before(all, rank, i)) \in Nat
  BY <1>1, FS_CardinalityType
<1> QED BY <1>3, <1>4, <1>5

\* The ideas with fewer than `limit` before them, in their order.
Foremost(all, rank, limit) ==
  {i \in all : Cardinality(Before(all, rank, i)) < limit}

LEMMA ForemostInOrder ==
  ASSUME NEW all, NEW rank, Ranks(all, rank), NEW limit \in Nat
  PROVE  LET foremost == Foremost(all, rank, limit)
             place(i) == Cardinality(Before(all, rank, i)) + 1
         IN /\ IsFiniteSet(foremost) /\ Cardinality(foremost) \in Nat
            /\ \A i \in foremost : place(i) \in 1 .. Cardinality(foremost)
            /\ \A i, j \in foremost : place(i) = place(j) => i = j
            /\ \A i, j \in foremost : place(i) < place(j) => rank[i] < rank[j]
            /\ \A n \in 1 .. Cardinality(foremost) : \E i \in foremost : place(i) = n
<1> DEFINE foremost == Foremost(all, rank, limit)
           place(i) == Cardinality(Before(all, rank, i)) + 1
<1>1. foremost \subseteq all /\ IsFiniteSet(foremost) /\ Cardinality(foremost) \in Nat
  <2>1. foremost \subseteq all
    BY DEF Foremost
  <2> HIDE DEF foremost
  <2> QED BY <2>1, FS_Subset, FS_CardinalityType DEF Ranks
<1>2. \A i \in all : rank[i] \in Nat
  BY DEF Ranks
<1>3. \A i, j \in all : rank[i] < rank[j] => place(i) <= Cardinality(Before(all, rank, j))
  BY FewerBefore
<1>4. \A i \in all : /\ IsFiniteSet(Before(all, rank, i)) /\ i \notin Before(all, rank, i)
                     /\ Cardinality(Before(all, rank, i)) \in Nat
  <2> SUFFICES ASSUME NEW i \in all
               PROVE  /\ IsFiniteSet(Before(all, rank, i)) /\ i \notin Before(all, rank, i)
                      /\ Cardinality(Before(all, rank, i)) \in Nat
    OBVIOUS
  <2>1. Before(all, rank, i) \subseteq all /\ i \notin Before(all, rank, i)
    BY <1>2 DEF Before
  <2>2. IsFiniteSet(Before(all, rank, i))
    BY <2>1, FS_Subset DEF Ranks
  <2> QED BY <2>1, <2>2, FS_CardinalityType
<1>5. \A i, j \in all : rank[i] < rank[j] => place(i) < place(j)
  BY <1>3, <1>4
<1>6. \A i \in foremost : Before(all, rank, i) \union {i} \subseteq foremost
  <2> SUFFICES ASSUME NEW i \in foremost, NEW j \in Before(all, rank, i) PROVE j \in foremost
    OBVIOUS
  <2>1. i \in all /\ j \in all /\ rank[j] < rank[i] /\ Cardinality(Before(all, rank, i)) < limit
    BY DEF Foremost, Before
  <2>2. place(j) <= Cardinality(Before(all, rank, i))
    BY <1>3, <2>1
  <2>3. Cardinality(Before(all, rank, j)) < limit
    BY <1>4, <2>1, <2>2
  <2> QED BY <2>1, <2>3 DEF Foremost
<1> HIDE DEF foremost
<1>7. \A i \in foremost : place(i) \in 1 .. Cardinality(foremost)
  <2> SUFFICES ASSUME NEW i \in foremost PROVE place(i) \in 1 .. Cardinality(foremost)
    OBVIOUS
  <2>1. i \in all
    BY <1>1
  <2>2. Cardinality(Before(all, rank, i) \union {i}) = Cardinality(Before(all, rank, i)) + 1
    BY <1>4, <2>1, FS_AddElement
  <2>3. Cardinality(Before(all, rank, i) \union {i}) <= Cardinality(foremost)
    BY <1>1, <1>6, FS_Subset
  <2> QED BY <1>1, <1>4, <2>1, <2>2, <2>3
<1>8. \A i, j \in foremost : place(i) = place(j) => i = j
  <2> SUFFICES ASSUME NEW i \in foremost, NEW j \in foremost, place(i) = place(j), i # j
               PROVE  FALSE
    OBVIOUS
  <2>1. rank[i] # rank[j] /\ i \in all /\ j \in all
    BY <1>1 DEF Ranks
  <2>2. rank[i] < rank[j] \/ rank[j] < rank[i]
    BY <1>2, <2>1
  <2>3. place(i) < place(j) \/ place(j) < place(i)
    BY <1>5, <2>1, <2>2
  <2> QED BY <1>4, <2>1, <2>3
<1>9. \A i, j \in foremost : place(i) < place(j) => rank[i] < rank[j]
  <2> SUFFICES ASSUME NEW i \in foremost, NEW j \in foremost, place(i) < place(j),
                      ~(rank[i] < rank[j])
               PROVE  FALSE
    OBVIOUS
  <2>1. i \in all /\ j \in all
    BY <1>1
  <2>2. rank[j] < rank[i] \/ i = j
    BY <1>2, <2>1 DEF Ranks
  <2>3. place(j) < place(i) \/ place(i) = place(j)
    BY <1>5, <2>1, <2>2
  <2> QED BY <1>4, <2>1, <2>3
<1>10. \A n \in 1 .. Cardinality(foremost) : \E i \in foremost : place(i) = n
  <2> DEFINE f == [i \in foremost |-> place(i)]
             T == 1 .. Cardinality(foremost)
  <2>1. f \in Injection(foremost, T)
    <3>1. f \in [foremost -> T]
      BY <1>7
    <3>2. \A i, j \in foremost : f[i] = f[j] => i = j
      BY <1>8
    <3> HIDE DEF f, T
    <3> QED BY <3>1, <3>2 DEF Injection, IsInjective
  <2>2. IsFiniteSet(T) /\ Cardinality(T) = Cardinality(foremost)
    BY <1>1, FS_Interval
  <2>3. f \in Surjection(foremost, T)
    <3> HIDE DEF f, T
    <3> QED BY <2>1, <2>2, FS_Injection
  <2>4. \A n \in T : \E i \in foremost : f[i] = n
    <3> HIDE DEF f, T
    <3> QED BY <2>3 DEF Surjection
  <2> QED BY <2>4
<1> QED BY <1>1, <1>7, <1>8, <1>9, <1>10 DEF foremost

\* What the day's sources can be.
Founds == {"slot", "festival", "sequel", "photo"}

\* "The month's plan comes first", a festival and a follow-up are never cut by the limit, and
\* a subject of late is offered before a fresh one only for one of the three (suggest), for
\* whatever the posts, the plan and the day ask for.
THEOREM BestReasonsFirst ==
  \A found \in SUBSET Founds : \A recent, planned, followed, hook :
    BestReasonsOffered(found, recent, planned, followed, hook)
<1> SUFFICES ASSUME NEW found \in SUBSET Founds, NEW recent, NEW planned, NEW followed,
                    NEW hook
             PROVE  BestReasonsOffered(found, recent, planned, followed, hook)
  OBVIOUS
<1> DEFINE all == found \union {"howto"} \union (IF hook = "none" THEN {} ELSE {"hook"})
           intent(i) == IntentOf(i, planned, followed, hook)
           rank == [i \in all |-> IdeaRank(i, intent(i), recent)]
           foremost == Foremost(all, rank, 3)
           place(i) == Cardinality(Before(all, rank, i)) + 1
           ideas == Suggest(found, recent, planned, followed, hook)
           strong == {"slot", "festival", "sequel"}
<1>1. all \subseteq {"slot", "festival", "sequel", "photo", "howto", "hook"}
  BY DEF Founds
<1>2. \A i \in all : rank[i] = IdeaRank(i, intent(i), recent)
  <2> HIDE DEF all, intent
  <2> QED OBVIOUS
<1>3. /\ \A i \in all : /\ i = "slot" => rank[i] = 0
                        /\ i = "festival" => rank[i] = 2
                        /\ i = "sequel" => rank[i] = 3
                        /\ i = "photo" => rank[i] = IF intent(i) \in recent THEN 10 ELSE 4
                        /\ i = "howto" => rank[i] = IF intent(i) \in recent THEN 11 ELSE 5
                        /\ i = "hook" => rank[i] = IF intent(i) \in recent THEN 12 ELSE 6
  <2> HIDE DEF all, intent, rank
  <2> QED BY <1>2, IdeaRanks
<1>4. Ranks(all, rank)
  <2>1. \A i \in all : rank[i] \in Nat
    <3> HIDE DEF all, intent, rank
    <3> QED BY <1>1, <1>3
  <2>2. \A i, j \in all : rank[i] = rank[j] => i = j
    <3> HIDE DEF all, intent, rank
    <3> QED BY <1>1, <1>3
  <2>3. rank = [i \in all |-> rank[i]]
    OBVIOUS
  <2>4. IsFiniteSet(all)
    <3>1. IsFiniteSet({"slot", "festival", "sequel", "photo", "howto", "hook"})
      <4>1. \A T, x : IsFiniteSet(T) => IsFiniteSet(T \union {x})
        BY FS_AddElement
      <4>2. IsFiniteSet({"slot"} \union {"festival"} \union {"sequel"} \union {"photo"}
                           \union {"howto"} \union {"hook"})
        <5>1. IsFiniteSet({"slot"})
          BY FS_Singleton
        <5> QED BY <4>1, <5>1, Zenon
      <4>3. {"slot"} \union {"festival"} \union {"sequel"} \union {"photo"}
               \union {"howto"} \union {"hook"}
              = {"slot", "festival", "sequel", "photo", "howto", "hook"}
        OBVIOUS
      <4> QED BY <4>2, <4>3
    <3> HIDE DEF all
    <3> QED BY <1>1, <3>1, FS_Subset
  <2> HIDE DEF all, rank
  <2> QED BY <2>1, <2>2, <2>3, <2>4 DEF Ranks
<1>5. /\ Cardinality(foremost) \in Nat
      /\ \A i \in foremost : place(i) \in 1 .. Cardinality(foremost)
      /\ \A i, j \in foremost : place(i) = place(j) => i = j
      /\ \A i, j \in foremost : place(i) < place(j) => rank[i] < rank[j]
      /\ \A n \in 1 .. Cardinality(foremost) : \E i \in foremost : place(i) = n
  <2> HIDE DEF all, rank
  <2> QED BY <1>4, ForemostInOrder
<1>6. \A i \in all : Cardinality(Before(all, rank, i)) \in Nat
  <2> SUFFICES ASSUME NEW i \in all PROVE Cardinality(Before(all, rank, i)) \in Nat
    OBVIOUS
  <2> HIDE DEF all, rank
  <2>1. Before(all, rank, i) \subseteq all
    BY DEF Before
  <2> QED BY <1>4, <2>1, FS_Subset, FS_CardinalityType DEF Ranks
<1>7. /\ DOMAIN ideas = 1 .. Cardinality(foremost)
      /\ \A n \in DOMAIN ideas : ideas[n] \in foremost /\ place(ideas[n]) = n
  <2> DEFINE before(i) == {j \in all : IdeaRank(j, intent(j), recent)
                                         < IdeaRank(i, intent(i), recent)}
             offered == {i \in all : Cardinality(before(i)) < LIMIT}
  <2>1. ideas = [n \in 1 .. Cardinality(offered) |->
                   CHOOSE i \in offered : Cardinality(before(i)) = n - 1]
    BY DEF Suggest
  <2> HIDE DEF all, intent, rank, ideas
  <2>2. \A i \in all : before(i) = Before(all, rank, i)
    BY <1>2 DEF Before
  <2> HIDE DEF before
  <2>3. offered = foremost
    BY <2>2 DEF Foremost, LIMIT
  <2>4. foremost \subseteq all
    BY DEF Foremost
  <2> HIDE DEF offered, foremost
  <2>5. DOMAIN ideas = 1 .. Cardinality(foremost)
    BY <2>1, <2>3
  <2>6. ASSUME NEW n \in DOMAIN ideas PROVE ideas[n] \in foremost /\ place(ideas[n]) = n
    <3>1. PICK i \in foremost : place(i) = n
      BY <1>5, <2>5
    <3>2. n \in Nat /\ Cardinality(Before(all, rank, i)) \in Nat
      BY <1>5, <1>6, <2>4, <2>5
    <3>3. Cardinality(before(i)) = n - 1
      BY <2>2, <2>4, <3>1, <3>2
    <3>4. ideas[n] = CHOOSE k \in offered : Cardinality(before(k)) = n - 1
      BY <2>1, <2>3, <2>5
    <3>5. ideas[n] \in offered /\ Cardinality(before(ideas[n])) = n - 1
      BY <2>3, <3>3, <3>4
    <3>6. Cardinality(Before(all, rank, ideas[n])) = n - 1
      BY <2>2, <2>3, <2>4, <3>5
    <3> QED BY <2>3, <3>2, <3>5, <3>6
  <2> QED BY <2>5, <2>6
<1>8. foremost \subseteq all
  BY DEF Foremost
<1>9. \A i \in all : Cardinality(Before(all, rank, i)) < 3 => i \in foremost
  BY DEF Foremost
<1>10. /\ IsFiniteSet({"slot", "festival"}) /\ Cardinality({"slot", "festival"}) = 2
       /\ IsFiniteSet({"slot"}) /\ Cardinality({"slot"}) = 1
       /\ Cardinality({}) = 0
  <2>1. IsFiniteSet({}) /\ Cardinality({}) = 0
    BY FS_EmptySet
  <2>2. IsFiniteSet({"slot"}) /\ Cardinality({"slot"}) = 1
    BY FS_Singleton
  <2>3. IsFiniteSet({"slot"} \union {"festival"})
          /\ Cardinality({"slot"} \union {"festival"}) = Cardinality({"slot"}) + 1
    BY <2>2, FS_AddElement
  <2>4. {"slot"} \union {"festival"} = {"slot", "festival"}
    OBVIOUS
  <2> QED BY <2>1, <2>2, <2>3, <2>4
<1>11. strong \intersect all \subseteq foremost
  <2> SUFFICES ASSUME NEW i \in strong, i \in all PROVE Cardinality(Before(all, rank, i)) < 3
    BY <1>9
  <2>1. Before(all, rank, i) \subseteq {"slot", "festival"}
    <3> SUFFICES ASSUME NEW j \in all, rank[j] < rank[i] PROVE j \in {"slot", "festival"}
      BY DEF Before
    <3> HIDE DEF all, rank, intent
    <3>1. rank[i] <= 3
      BY <1>3
    <3>2. j \notin {"slot", "festival"} => rank[j] >= 3
      BY <1>1, <1>3
    <3>3. rank[j] \in Nat /\ rank[i] \in Nat
      BY <1>4 DEF Ranks
    <3> QED BY <3>1, <3>2, <3>3
  <2> HIDE DEF all, rank, intent
  <2>2. Cardinality(Before(all, rank, i)) <= 2
    BY <1>10, <2>1, FS_Subset
  <2> QED BY <1>6, <2>2
<1> HIDE DEF all, rank, intent, ideas, foremost
<1>12. ASSUME "slot" \in found PROVE ideas[1] = "slot"
  <2>1. "slot" \in all /\ "slot" \in foremost
    <3>1. "slot" \in all
      BY <1>12 DEF all
    <3> QED BY <1>11, <3>1
  <2>2. Before(all, rank, "slot") = {}
    <3>1. rank["slot"] = 0 /\ \A j \in all : rank[j] \in Nat
      BY <1>3, <1>4, <2>1 DEF Ranks
    <3> QED BY <3>1 DEF Before
  <2>3. place("slot") = 1
    BY <1>10, <2>2
  <2>4. 1 \in DOMAIN ideas
    BY <1>5, <1>7, <2>1, <2>3
  <2> QED BY <1>5, <1>7, <2>1, <2>3, <2>4
<1>13. found \intersect strong \subseteq {ideas[n] : n \in DOMAIN ideas}
  <2> SUFFICES ASSUME NEW i \in found, i \in strong
               PROVE  \E n \in DOMAIN ideas : ideas[n] = i
    OBVIOUS
  <2>1. i \in foremost
    <3>1. i \in all
      BY DEF all
    <3> QED BY <1>11, <3>1
  <2>2. place(i) \in DOMAIN ideas
    BY <1>5, <1>7, <2>1
  <2>3. ideas[place(i)] \in foremost /\ place(ideas[place(i)]) = place(i)
    BY <1>7, <2>2
  <2> HIDE DEF place
  <2> QED BY <1>5, <2>1, <2>2, <2>3
<1>14. ASSUME NEW m \in DOMAIN ideas, NEW n \in DOMAIN ideas, m < n,
              intent(ideas[m]) \in recent, intent(ideas[n]) \notin recent
       PROVE  ideas[m] \in strong
  <2>1. /\ ideas[m] \in all /\ ideas[n] \in all
        /\ rank[ideas[m]] < rank[ideas[n]]
    <3>1. /\ ideas[m] \in foremost /\ place(ideas[m]) = m
          /\ ideas[n] \in foremost /\ place(ideas[n]) = n
      BY <1>7, <1>14
    <3> HIDE DEF place
    <3> QED BY <1>5, <1>8, <1>14, <3>1
  <2>2. \A i \in all : i \notin strong /\ intent(i) \in recent => rank[i] >= 10
    BY <1>1, <1>3
  <2>3. \A i \in all : intent(i) \notin recent => rank[i] <= 6
    BY <1>1, <1>3
  <2>4. rank[ideas[m]] \in Nat /\ rank[ideas[n]] \in Nat
    BY <1>4, <2>1 DEF Ranks
  <2>5. rank[ideas[n]] <= 6
    BY <1>14, <2>1, <2>3
  <2>6. ideas[m] \notin strong => rank[ideas[m]] >= 10
    BY <1>14, <2>1, <2>2
  <2> HIDE DEF strong
  <2> QED BY <2>1, <2>4, <2>5, <2>6
<1>15. /\ "slot" \in found => ideas[1] = "slot"
       /\ found \intersect strong \subseteq {ideas[n] : n \in DOMAIN ideas}
       /\ \A m, n \in DOMAIN ideas :
            m < n /\ intent(ideas[m]) \in recent /\ intent(ideas[n]) \notin recent
              => ideas[m] \in strong
  BY <1>12, <1>13, <1>14
<1> QED BY <1>15, Zenon DEF BestReasonsOffered, ideas, intent

-----------------------------------------------------------------------------
(* The owner's taste. *)

\* What taste makes of the votes at some places among the first k.
Tastes(f, votes, k) ==
  f = [s \in SUBSET (1 .. k) |->
         IF s = {} THEN NoTaste ELSE Tally(f[s \ {Max(s)}], votes[Max(s)])]

\* There is such a function ...
LEMMA TastesExist ==
  ASSUME NEW votes, NEW n \in Nat
  PROVE  \E f : Tastes(f, votes, n)
<1> DEFINE S == {m \in Nat : ~ \E f : Tastes(f, votes, m)}
<1>1. SUFFICES ASSUME S # {} PROVE FALSE
  OBVIOUS
<1>2. PICK k \in S : \A j \in S : k <= j
  <2>1. S \subseteq Nat
    OBVIOUS
  <2> HIDE DEF S
  <2> QED BY <1>1, <2>1, FirstOf
<1>3. k \in Nat /\ ~ \E f : Tastes(f, votes, k)
  OBVIOUS
<1>4. CASE k = 0
  <2> DEFINE f == [s \in SUBSET (1 .. 0) |-> NoTaste]
  <2>1. \A s \in SUBSET (1 .. 0) : s = {}
    OBVIOUS
  <2>2. Tastes(f, votes, 0)
    BY <2>1 DEF Tastes
  <2> QED BY <1>3, <1>4, <2>2
<1>5. CASE k # 0
  <2>1. k - 1 \in Nat /\ k - 1 \notin S
    BY <1>2, <1>3, <1>5
  <2>2. PICK f : Tastes(f, votes, k - 1)
    BY <2>1
  <2> HIDE DEF S
  <2>3. \A s \in SUBSET (1 .. k - 1) :
          f[s] = IF s = {} THEN NoTaste ELSE Tally(f[s \ {Max(s)}], votes[Max(s)])
    BY <2>2 DEF Tastes
  <2> DEFINE g == [s \in SUBSET (1 .. k) |->
                     IF k \in s THEN Tally(f[s \ {k}], votes[k]) ELSE f[s]]
  <2>4. ASSUME NEW s \in SUBSET (1 .. k)
        PROVE  g[s] = IF s = {} THEN NoTaste ELSE Tally(g[s \ {Max(s)}], votes[Max(s)])
    <3>1. CASE k \in s
      <4>1. Max(s) \in s /\ \A j \in s : j <= Max(s)
        BY <1>3, <3>1, LastOf
      <4>2. Max(s) = k
        <5>1. Max(s) \in 1 .. k /\ k <= Max(s)
          BY <3>1, <4>1, Zenon
        <5> QED BY <1>3, <5>1
      <4>3. s \ {k} \in SUBSET (1 .. k) /\ k \notin s \ {k}
        OBVIOUS
      <4>4. g[s \ {k}] = f[s \ {k}] /\ g[s] = Tally(f[s \ {k}], votes[k])
        BY <3>1, <4>3, Zenon
      <4> HIDE DEF g
      <4> QED BY <3>1, <4>2, <4>4, Zenon
    <3>2. CASE k \notin s
      <4>1. s \in SUBSET (1 .. k - 1)
        BY <1>3, <3>2
      <4>2. s \ {Max(s)} \in SUBSET (1 .. k) /\ k \notin s \ {Max(s)}
        BY <3>2
      <4>3. g[s \ {Max(s)}] = f[s \ {Max(s)}] /\ g[s] = f[s]
        BY <3>2, <4>2, Zenon
      <4> HIDE DEF g
      <4> QED BY <2>3, <4>1, <4>3, Zenon
    <3> QED BY <3>1, <3>2
  <2>5. Tastes(g, votes, k)
    <3>1. g = [s \in SUBSET (1 .. k) |-> g[s]]
      OBVIOUS
    <3> HIDE DEF g
    <3>2. [s \in SUBSET (1 .. k) |-> g[s]]
            = [s \in SUBSET (1 .. k) |->
                 IF s = {} THEN NoTaste ELSE Tally(g[s \ {Max(s)}], votes[Max(s)])]
      BY <2>4, Zenon
    <3> QED BY <3>1, <3>2 DEF Tastes
  <2> QED BY <1>3, <2>5
<1> QED BY <1>4, <1>5

\* ... and it is the loop.
LEMMA TasteIs ==
  ASSUME NEW n \in Nat, NEW votes, DOMAIN votes = 1 .. n
  PROVE  \E f : Tastes(f, votes, n) /\ TasteOf(votes) = f[1 .. n]
<1> DEFINE iter == CHOOSE f : Tastes(f, votes, n)
<1>1. Tastes(iter, votes, n)
  <2>1. \E f : Tastes(f, votes, n)
    BY TastesExist
  <2> HIDE DEF Tastes
  <2> QED BY <2>1
<1>2. TasteOf(votes) = iter[1 .. n]
  BY DEF TasteOf, FoldLeft, MapThenFoldSet, Tastes
<1> QED BY <1>1, <1>2

\* What is about the picture of a post.
Pictorial == LIKES_PICTURE \union DISLIKES_PICTURE

\* The briefs with such a vote among the first k, and those whose newest is of some kinds.
Judges(votes, k) ==
  {b \in {votes[i].brief : i \in DOMAIN votes} :
     \E i \in 1 .. k : votes[i].brief = b /\ votes[i].kind \in Pictorial}

Opined(votes, k, kinds) ==
  {b \in {votes[i].brief : i \in DOMAIN votes} :
     \E i \in 1 .. k : /\ votes[i].brief = b /\ votes[i].kind \in kinds
                       /\ \A j \in 1 .. i - 1 :
                            ~(votes[j].brief = b /\ votes[j].kind \in Pictorial)}

\* What the loop holds after k votes.
CountedOnce(t, votes, k) ==
  /\ t.seen_pic = Judges(votes, k)
  /\ t.likes = Cardinality(Opined(votes, k, LIKES_PICTURE))
  /\ t.dislikes = Cardinality(Opined(votes, k, DISLIKES_PICTURE))

\* A vote is one more opinion when it is of the kinds and the first on its picture.
LEMMA OneMoreOpinion ==
  ASSUME NEW n \in Nat, NEW votes, DOMAIN votes = 1 .. n, NEW k \in 1 .. n,
         NEW kinds, kinds \subseteq Pictorial
  PROVE  Cardinality(Opined(votes, k, kinds))
           = Cardinality(Opined(votes, k - 1, kinds))
               + IF votes[k].kind \in kinds /\ votes[k].brief \notin Judges(votes, k - 1)
                 THEN 1 ELSE 0
<1> DEFINE before == Opined(votes, k - 1, kinds)
           after == Opined(votes, k, kinds)
           b == votes[k].brief
           briefs == {votes[i].brief : i \in DOMAIN votes}
<1>1. IsFiniteSet(before) /\ Cardinality(before) \in Nat
  <2>1. IsFiniteSet(1 .. n)
    BY FS_Interval
  <2> DEFINE f == [i \in 1 .. n |-> votes[i].brief]
  <2>2. IsFiniteSet({votes[i].brief : i \in 1 .. n})
    <3>1. {f[i] : i \in 1 .. n} = {votes[i].brief : i \in 1 .. n}
      OBVIOUS
    <3> HIDE DEF f
    <3>2. f \in Surjection(1 .. n, {f[i] : i \in 1 .. n})
      BY DEF Surjection, f
    <3>3. IsFiniteSet({f[i] : i \in 1 .. n})
      BY <2>1, <3>2, FS_Surjection
    <3> QED BY <3>1, <3>3
  <2>3. before \subseteq {votes[i].brief : i \in 1 .. n}
    BY DEF Opined
  <2> HIDE DEF before
  <2>4. IsFiniteSet(before)
    BY <2>2, <2>3, FS_Subset
  <2> QED BY <2>4, FS_CardinalityType
<1>2. k \in Nat /\ k - 1 \in Nat /\ 1 .. k = (1 .. k - 1) \union {k} /\ b \in briefs
  <2>1. k \in DOMAIN votes
    OBVIOUS
  <2> QED BY <2>1
<1>3. CASE votes[k].kind \in kinds /\ b \notin Judges(votes, k - 1)
  <2>1. \A j \in 1 .. k - 1 : ~(votes[j].brief = b /\ votes[j].kind \in Pictorial)
    BY <1>2, <1>3 DEF Judges
  <2>2. after = before \union {b}
    <3>1. b \in after
      BY <1>2, <1>3, <2>1 DEF Opined
    <3>2. before \subseteq after
      BY <1>2 DEF Opined
    <3>3. after \subseteq before \union {b}
      <4> SUFFICES ASSUME NEW c \in after PROVE c \in before \union {b}
        OBVIOUS
      <4>1. c \in briefs
        BY DEF Opined
      <4>2. PICK i \in 1 .. k : /\ votes[i].brief = c /\ votes[i].kind \in kinds
                                /\ \A j \in 1 .. i - 1 :
                                     ~(votes[j].brief = c /\ votes[j].kind \in Pictorial)
        BY DEF Opined
      <4>3. CASE i = k
        BY <4>2, <4>3
      <4>4. CASE i \in 1 .. k - 1
        BY <4>1, <4>2, <4>4 DEF Opined
      <4> QED BY <1>2, <4>3, <4>4
    <3> HIDE DEF after, before
    <3> QED BY <3>1, <3>2, <3>3
  <2>3. b \notin before
    <3> SUFFICES ASSUME b \in before PROVE FALSE
      OBVIOUS
    <3>1. PICK i \in 1 .. k - 1 : votes[i].brief = b /\ votes[i].kind \in kinds
      BY DEF Opined
    <3> QED BY <2>1, <3>1
  <2> HIDE DEF before, after, b
  <2>4. Cardinality(after) = Cardinality(before) + 1
    BY <1>1, <2>2, <2>3, FS_AddElement
  <2> QED BY <1>3, <2>4 DEF before, after, b
<1>4. CASE ~(votes[k].kind \in kinds /\ b \notin Judges(votes, k - 1))
  <2>1. after = before
    <3>1. before \subseteq after
      BY <1>2 DEF Opined
    <3>2. after \subseteq before
      <4> SUFFICES ASSUME NEW c \in after PROVE c \in before
        OBVIOUS
      <4>1. c \in briefs
        BY DEF Opined
      <4>2. PICK i \in 1 .. k : /\ votes[i].brief = c /\ votes[i].kind \in kinds
                                /\ \A j \in 1 .. i - 1 :
                                     ~(votes[j].brief = c /\ votes[j].kind \in Pictorial)
        BY DEF Opined
      <4>3. CASE i = k
        <5>1. c = b /\ votes[k].kind \in kinds
          BY <4>2, <4>3
        <5>2. PICK j \in 1 .. k - 1 : votes[j].brief = b /\ votes[j].kind \in Pictorial
          BY <1>4, <5>1 DEF Judges
        <5> QED BY <4>2, <4>3, <5>1, <5>2
      <4>4. CASE i \in 1 .. k - 1
        BY <4>1, <4>2, <4>4 DEF Opined
      <4> QED BY <1>2, <4>3, <4>4
    <3> HIDE DEF after, before
    <3> QED BY <3>1, <3>2
  <2> HIDE DEF before, after, b
  <2>2. Cardinality(after) = Cardinality(before) + 0
    BY <1>1, <2>1
  <2> QED BY <1>4, <2>2 DEF before, after, b
<1> QED BY <1>3, <1>4

\* One more turn of the loop keeps what it holds.
LEMMA OneMoreVote ==
  ASSUME NEW n \in Nat, NEW votes, DOMAIN votes = 1 .. n, NEW k \in 1 .. n,
         NEW t, CountedOnce(t, votes, k - 1)
  PROVE  CountedOnce(Tally(t, votes[k]), votes, k)
<1> DEFINE u == Tally(t, votes[k])
           b == votes[k].brief
           fresh == votes[k].kind \in Pictorial /\ b \notin t.seen_pic
<1>1. /\ u.seen_pic = IF fresh THEN t.seen_pic \union {b} ELSE t.seen_pic
      /\ u.likes = t.likes + (IF fresh /\ votes[k].kind \in LIKES_PICTURE THEN 1 ELSE 0)
      /\ u.dislikes
           = t.dislikes + (IF fresh /\ votes[k].kind \in DISLIKES_PICTURE THEN 1 ELSE 0)
  BY Zenon DEF Tally, PictureCounts, Pictorial
<1>2. /\ t.seen_pic = Judges(votes, k - 1)
      /\ t.likes = Cardinality(Opined(votes, k - 1, LIKES_PICTURE))
      /\ t.dislikes = Cardinality(Opined(votes, k - 1, DISLIKES_PICTURE))
  BY DEF CountedOnce
<1> HIDE DEF u
<1>3. u.seen_pic = Judges(votes, k)
  <2>1. 1 .. k = (1 .. k - 1) \union {k} /\ k \in DOMAIN votes
    OBVIOUS
  <2>2. Judges(votes, k) = IF votes[k].kind \in Pictorial
                           THEN Judges(votes, k - 1) \union {b}
                           ELSE Judges(votes, k - 1)
    BY <2>1 DEF Judges
  <2> QED BY <1>1, <1>2, <2>2
<1>4. LIKES_PICTURE \subseteq Pictorial /\ DISLIKES_PICTURE \subseteq Pictorial
  BY DEF Pictorial
<1>5. u.likes = Cardinality(Opined(votes, k, LIKES_PICTURE))
  <2>1. fresh /\ votes[k].kind \in LIKES_PICTURE
          <=> votes[k].kind \in LIKES_PICTURE /\ b \notin Judges(votes, k - 1)
    BY <1>2, <1>4
  <2>2. Cardinality(Opined(votes, k, LIKES_PICTURE))
          = Cardinality(Opined(votes, k - 1, LIKES_PICTURE))
              + IF votes[k].kind \in LIKES_PICTURE /\ b \notin Judges(votes, k - 1)
                THEN 1 ELSE 0
    BY <1>4, OneMoreOpinion
  <2> HIDE DEF fresh, b
  <2> QED BY <1>1, <1>2, <2>1, <2>2
<1>6. u.dislikes = Cardinality(Opined(votes, k, DISLIKES_PICTURE))
  <2>1. fresh /\ votes[k].kind \in DISLIKES_PICTURE
          <=> votes[k].kind \in DISLIKES_PICTURE /\ b \notin Judges(votes, k - 1)
    BY <1>2, <1>4
  <2>2. Cardinality(Opined(votes, k, DISLIKES_PICTURE))
          = Cardinality(Opined(votes, k - 1, DISLIKES_PICTURE))
              + IF votes[k].kind \in DISLIKES_PICTURE /\ b \notin Judges(votes, k - 1)
                THEN 1 ELSE 0
    BY <1>4, OneMoreOpinion
  <2> HIDE DEF fresh, b
  <2> QED BY <1>1, <1>2, <2>1, <2>2
<1> QED BY <1>3, <1>5, <1>6 DEF CountedOnce, u

\* So at the end it holds one opinion a brief.
LEMMA TasteCounts ==
  ASSUME NEW n \in Nat, NEW votes, DOMAIN votes = 1 .. n
  PROVE  CountedOnce(TasteOf(votes), votes, n)
<1>1. PICK f : Tastes(f, votes, n) /\ TasteOf(votes) = f[1 .. n]
  BY TasteIs
<1>2. \A s \in SUBSET (1 .. n) :
        f[s] = IF s = {} THEN NoTaste ELSE Tally(f[s \ {Max(s)}], votes[Max(s)])
  BY <1>1 DEF Tastes
<1> DEFINE S == {k \in Nat : k <= n /\ ~CountedOnce(f[1 .. k], votes, k)}
<1>3. S = {}
  <2> SUFFICES ASSUME S # {} PROVE FALSE
    OBVIOUS
  <2>1. PICK k \in S : \A j \in S : k <= j
    <3>1. S \subseteq Nat
      OBVIOUS
    <3> HIDE DEF S
    <3> QED BY <3>1, FirstOf
  <2>2. k \in Nat /\ k <= n /\ ~CountedOnce(f[1 .. k], votes, k)
    OBVIOUS
  <2>3. CASE k = 0
    <3>1. 1 .. k = {} /\ {} \in SUBSET (1 .. n)
      BY <2>3
    <3>2. f[1 .. k] = NoTaste
      BY <1>2, <3>1
    <3>3. /\ Judges(votes, k) = {}
          /\ Opined(votes, k, LIKES_PICTURE) = {} /\ Opined(votes, k, DISLIKES_PICTURE) = {}
      BY <3>1 DEF Judges, Opined
    <3>4. Cardinality({}) = 0
      BY FS_EmptySet
    <3>5. CountedOnce(f[1 .. k], votes, k)
      BY <3>2, <3>3, <3>4 DEF CountedOnce, NoTaste
    <3> QED BY <2>2, <3>5
  <2>4. CASE k # 0
    <3>1. k - 1 \in Nat /\ k - 1 <= n /\ k \in 1 .. n
      BY <2>2, <2>4
    <3>2. k - 1 \notin S
      BY <2>1, <2>2
    <3>3. CountedOnce(f[1 .. k - 1], votes, k - 1)
      BY <3>1, <3>2
    <3>4. 1 .. k \in SUBSET (1 .. n) /\ 1 .. k # {} /\ (1 .. k) \ {k} = 1 .. k - 1
      <4> HIDE DEF S
      <4>1. 1 .. k \subseteq 1 .. n /\ k \in 1 .. k
        BY <3>1
      <4>2. (1 .. k) \ {k} = 1 .. k - 1
        BY <3>1
      <4> QED BY <4>1, <4>2
    <3>5. Max(1 .. k) = k
      <4>1. Max(1 .. k) \in 1 .. k /\ \A j \in 1 .. k : j <= Max(1 .. k)
        BY <2>2, <3>4, LastOf
      <4>2. k \in 1 .. k
        BY <3>1
      <4>3. k <= Max(1 .. k)
        BY <4>1, <4>2
      <4> QED BY <2>2, <4>1, <4>3
    <3>6. f[1 .. k] = Tally(f[1 .. k - 1], votes[k])
      BY <1>2, <3>4, <3>5
    <3>7. CountedOnce(f[1 .. k], votes, k)
      BY <3>1, <3>3, <3>6, OneMoreVote
    <3> QED BY <2>2, <3>7
  <2> QED BY <2>3, <2>4
<1>4. n \notin S
  BY <1>3
<1> QED BY <1>1, <1>4

\* "One opinion per brief per axis, newest first" (taste), for the picture, of any number of
\* votes: each brief counts once, by its newest vote, however many taps followed each other.
THEOREM OwnerCountsOnce ==
  ASSUME NEW n \in Nat, NEW votes, DOMAIN votes = 1 .. n
  PROVE  OneOpinionPerBrief(votes)
<1> DEFINE briefs == {votes[i].brief : i \in DOMAIN votes}
           last(b) == Newest(votes, b, LIKES_PICTURE \union DISLIKES_PICTURE)
           ofKind(kinds) == {b \in briefs : last(b) # 0 /\ votes[last(b)].kind \in kinds}
<1>1. ASSUME NEW kinds, kinds \subseteq Pictorial
      PROVE  ofKind(kinds) = Opined(votes, n, kinds)
  <2> SUFFICES ASSUME NEW b \in briefs
               PROVE  last(b) # 0 /\ votes[last(b)].kind \in kinds
                        <=> b \in Opined(votes, n, kinds)
    <3>1. Opined(votes, n, kinds) \subseteq briefs
      BY DEF Opined
    <3> HIDE DEF briefs, last
    <3> QED BY <3>1
  <2> DEFINE on == {i \in 1 .. n : votes[i].brief = b /\ votes[i].kind \in Pictorial}
  <2>1. last(b) = IF on = {} THEN 0 ELSE CHOOSE i \in on : \A j \in on : i <= j
    BY DEF Newest, Pictorial
  <2>2. on \subseteq Nat /\ on \subseteq 1 .. n /\ 0 \notin on
    OBVIOUS
  <2>3. CASE on = {}
    <3>1. \A i \in 1 .. n : ~(votes[i].brief = b /\ votes[i].kind \in kinds)
      BY <1>1, <2>3
    <3> HIDE DEF on, last
    <3> QED BY <2>1, <2>3, <3>1 DEF Opined
  <2>4. CASE on # {}
    <3> DEFINE m == last(b)
    <3>1. m \in on /\ \A j \in on : m <= j
      <4> HIDE DEF on, last
      <4>1. \E i \in on : \A j \in on : i <= j
        BY <2>2, <2>4, FirstOf
      <4> QED BY <2>1, <2>4, <4>1
    <3> HIDE DEF last, m
    <3>2. m \in 1 .. n /\ votes[m].brief = b /\ votes[m].kind \in Pictorial /\ m # 0
      BY <3>1
    <3>3. \A j \in 1 .. m - 1 : ~(votes[j].brief = b /\ votes[j].kind \in Pictorial)
      <4> SUFFICES ASSUME NEW j \in 1 .. m - 1, j \in on PROVE FALSE
        BY <3>2
      <4> HIDE DEF on
      <4>1. m <= j
        BY <3>1
      <4> QED BY <3>2, <4>1
    <3>4. ASSUME votes[m].kind \in kinds PROVE b \in Opined(votes, n, kinds)
      BY <3>2, <3>3, <3>4 DEF Opined
    <3>5. ASSUME b \in Opined(votes, n, kinds) PROVE votes[m].kind \in kinds
      <4>1. PICK i \in 1 .. n : /\ votes[i].brief = b /\ votes[i].kind \in kinds
                                /\ \A j \in 1 .. i - 1 :
                                     ~(votes[j].brief = b /\ votes[j].kind \in Pictorial)
        BY <3>5 DEF Opined
      <4>2. i \in on
        BY <1>1, <4>1
      <4> HIDE DEF on
      <4>3. m <= i
        BY <3>1, <4>2
      <4>4. ~(m \in 1 .. i - 1)
        BY <3>2, <4>1
      <4>5. m = i
        BY <3>2, <4>3, <4>4
      <4> QED BY <4>1, <4>5
    <3> QED BY <3>2, <3>4, <3>5 DEF m
  <2> QED BY <2>3, <2>4
<1>2. CountedOnce(TasteOf(votes), votes, n)
  BY TasteCounts
<1>3. LIKES_PICTURE \subseteq Pictorial /\ DISLIKES_PICTURE \subseteq Pictorial
  BY DEF Pictorial
<1>4. /\ ofKind(LIKES_PICTURE) = Opined(votes, n, LIKES_PICTURE)
      /\ ofKind(DISLIKES_PICTURE) = Opined(votes, n, DISLIKES_PICTURE)
  <2> HIDE DEF ofKind
  <2> QED BY <1>1, <1>3
<1>5. /\ TasteOf(votes).likes = Cardinality(ofKind(LIKES_PICTURE))
      /\ TasteOf(votes).dislikes = Cardinality(ofKind(DISLIKES_PICTURE))
  <2> HIDE DEF ofKind
  <2> QED BY <1>2, <1>4, Zenon DEF CountedOnce
<1> QED BY <1>5, Zenon DEF OneOpinionPerBrief

-----------------------------------------------------------------------------
(* The mix of a month. *)

\* Shares in percent, of which every pillar has one.
Mixes == {mix \in [Names -> Nat \ {0}] : Total(mix) = 100}

\* The pillars and their places in the dict.
LEMMA FivePillars ==
  /\ Names = {"product", "proof", "education", "behind_the_scenes", "offer"}
  /\ InOrder("product") = 1 /\ InOrder("proof") = 2 /\ InOrder("education") = 3
  /\ InOrder("behind_the_scenes") = 4 /\ InOrder("offer") = 5
  /\ Len(Order) = 5
<1>1. DOMAIN Order = 1 .. 5 /\ Len(Order) = 5
  BY DEF Order
<1>2. /\ Order[1] = "product" /\ Order[2] = "proof" /\ Order[3] = "education"
      /\ Order[4] = "behind_the_scenes" /\ Order[5] = "offer"
  BY DEF Order
<1>3. 1 .. 5 = {1, 2, 3, 4, 5}
  OBVIOUS
<1>4. Names = {"product", "proof", "education", "behind_the_scenes", "offer"}
  BY <1>1, <1>2, <1>3 DEF Names
<1>5. ASSUME NEW k \in 1 .. 5 PROVE InOrder(Order[k]) = k
  <2>1. \A i \in DOMAIN Order : Order[i] = Order[k] => i = k
    BY <1>1, <1>2, <1>3
  <2> QED BY <1>1, <2>1 DEF InOrder
<1> QED BY <1>1, <1>2, <1>4, <1>5

\* Each is at a place of its own.
LEMMA OwnPlace ==
  /\ \A p \in Names : InOrder(p) \in 1 .. 5
  /\ \A p \in Names, q \in Names : InOrder(p) = InOrder(q) => p = q
  BY FivePillars

\* The share of p is larger than that of q.
Leads(amount, whole, p, q) ==
  LET ahead == amount[p] * whole[q] - amount[q] * whole[p]
  IN ahead > 0 \/ (ahead = 0 /\ InOrder(p) < InOrder(q))

\* A product with a positive number has the sign of the other factor.
LEMMA SignOf ==
  ASSUME NEW v \in Nat \ {0}, NEW x \in Int
  PROVE  /\ v * x > 0 => x > 0
         /\ v * x >= 0 => x >= 0
         /\ v * x = 0 => x = 0
<1>1. x <= 0 => v * x <= 0
  OBVIOUS
<1>2. x < 0 => v * x < 0
  OBVIOUS
<1>3. v * x \in Int
  OBVIOUS
<1> QED BY <1>1, <1>2, <1>3

\* Of three shares, if a is ahead of b and b of c then a is ahead of c.
LEMMA AheadOfBoth ==
  ASSUME NEW a \in Int, NEW b \in Int, NEW c \in Int,
         NEW u \in Nat \ {0}, NEW v \in Nat \ {0}, NEW w \in Nat \ {0},
         a * v - b * u >= 0, b * w - c * v >= 0
  PROVE  /\ a * w - c * u >= 0
         /\ a * w - c * u = 0 => a * v - b * u = 0 /\ b * w - c * v = 0
<1> DEFINE x == a * v - b * u
           y == b * w - c * v
           z == a * w - c * u
<1>1. x \in Int /\ y \in Int /\ z \in Int
  OBVIOUS
<1>2. v * z = w * x + u * y
  <2>1. v * z = v * (a * w) - v * (c * u)
    OBVIOUS
  <2>2. w * x = w * (a * v) - w * (b * u)
    OBVIOUS
  <2>3. u * y = u * (b * w) - u * (c * v)
    OBVIOUS
  <2>4. v * (a * w) = w * (a * v) /\ w * (b * u) = u * (b * w) /\ v * (c * u) = u * (c * v)
    OBVIOUS
  <2>5. /\ v * (a * w) \in Int /\ w * (b * u) \in Int /\ v * (c * u) \in Int
    OBVIOUS
  <2> HIDE DEF x, y, z
  <2> QED BY <2>1, <2>2, <2>3, <2>4, <2>5
<1>3. x >= 0 /\ y >= 0
  OBVIOUS
<1> HIDE DEF x, y, z
<1>4. w * x >= 0 /\ u * y >= 0 /\ w * x \in Int /\ u * y \in Int
  BY <1>1, <1>3
<1>5. z >= 0
  BY <1>1, <1>2, <1>4, SignOf
<1>6. ASSUME z = 0 PROVE x = 0 /\ y = 0
  <2>1. v * z = 0
    BY <1>6
  <2>2. w * x = 0 /\ u * y = 0
    BY <1>2, <1>4, <2>1
  <2> QED BY <1>1, <2>2, SignOf
<1> QED BY <1>5, <1>6 DEF x, y, z

\* Shares are ordered.
LEMMA LeadsOrders ==
  ASSUME NEW amount \in [Names -> Int], NEW whole \in [Names -> Nat \ {0}],
         NEW p \in Names, NEW q \in Names, NEW r \in Names
  PROVE  /\ p # q => Leads(amount, whole, p, q) \/ Leads(amount, whole, q, p)
         /\ Leads(amount, whole, p, q) /\ Leads(amount, whole, q, r)
              => Leads(amount, whole, p, r)
<1>1. PICK a \in Int, b \in Int, c \in Int : a = amount[p] /\ b = amount[q] /\ c = amount[r]
  OBVIOUS
<1>2. PICK u \in Nat \ {0}, v \in Nat \ {0}, w \in Nat \ {0} :
        u = whole[p] /\ v = whole[q] /\ w = whole[r]
  OBVIOUS
<1>3. PICK i \in 1 .. 5, j \in 1 .. 5, k \in 1 .. 5 :
        i = InOrder(p) /\ j = InOrder(q) /\ k = InOrder(r)
  BY OwnPlace
<1>4. p # q => i # j
  BY <1>3, OwnPlace
<1>5. PICK x \in Int, y \in Int, z \in Int :
        x = a * v - b * u /\ y = b * w - c * v /\ z = a * w - c * u
  OBVIOUS
<1>6. b * u - a * v = 0 - x
  BY <1>5
<1>7. /\ Leads(amount, whole, p, q) <=> x > 0 \/ (x = 0 /\ i < j)
      /\ Leads(amount, whole, q, p) <=> 0 - x > 0 \/ (0 - x = 0 /\ j < i)
      /\ Leads(amount, whole, q, r) <=> y > 0 \/ (y = 0 /\ j < k)
      /\ Leads(amount, whole, p, r) <=> z > 0 \/ (z = 0 /\ i < k)
  BY <1>1, <1>2, <1>3, <1>5, <1>6 DEF Leads
<1>8. x >= 0 /\ y >= 0 => z >= 0 /\ (z = 0 => x = 0 /\ y = 0)
  BY <1>5, AheadOfBoth
<1> QED BY <1>4, <1>7, <1>8

\* Of S the share of b is the largest.
Largest(amount, whole, S, b) == b \in S /\ \A q \in S \ {b} : Leads(amount, whole, b, q)

\* With one more pillar there is still one that is ahead of the others.
LEMMA OneMoreShare ==
  ASSUME NEW amount \in [Names -> Int], NEW whole \in [Names -> Nat \ {0}],
         NEW S \in SUBSET Names, NEW b, Largest(amount, whole, S, b), NEW p \in Names
  PROVE  \E c : Largest(amount, whole, S \union {p}, c)
<1>1. CASE p = b \/ Leads(amount, whole, b, p)
  <2>1. Largest(amount, whole, S \union {p}, b)
    BY <1>1 DEF Largest
  <2> QED BY <2>1
<1>2. CASE p # b /\ Leads(amount, whole, p, b)
  <2>1. \A q \in S \ {b} : Leads(amount, whole, p, q)
    BY <1>2, LeadsOrders DEF Largest
  <2>2. Largest(amount, whole, S \union {p}, p)
    BY <1>2, <2>1 DEF Largest
  <2> QED BY <2>2
<1> QED BY <1>1, <1>2, LeadsOrders DEF Largest

\* Of some pillars one is ahead of the others.
LEMMA AheadIs ==
  ASSUME NEW amount \in [Names -> Int], NEW whole \in [Names -> Nat \ {0}],
         NEW S \in SUBSET Names, S # {}
  PROVE  Largest(amount, whole, S, Ahead(S, amount, whole))
<1> DEFINE Led(T) == \E c : Largest(amount, whole, T, c)
           Bad == {k \in Nat : \E T \in SUBSET Names :
                     T # {} /\ ~Led(T) /\ \A p \in T : InOrder(p) <= k}
<1>1. ASSUME NEW k \in Nat, NEW T \in SUBSET Names, T # {}, \A p \in T : InOrder(p) <= k,
             \A j \in Bad : k <= j
      PROVE  Led(T)
  <2>1. PICK x \in T : TRUE
    BY <1>1
  <2>2. k - 1 \in Nat /\ k - 1 \notin Bad
    <3>1. k - 1 \in Nat
      BY <1>1, <2>1, OwnPlace
    <3> HIDE DEF Bad
    <3> QED BY <1>1, <3>1
  <2>3. CASE \A p \in T : InOrder(p) # k
    <3>1. \A p \in T : InOrder(p) <= k - 1
      BY <1>1, <2>3, OwnPlace
    <3> QED BY <1>1, <2>2, <3>1
  <2>4. CASE \E p \in T : InOrder(p) = k
    <3>1. PICK p \in T : InOrder(p) = k
      BY <2>4
    <3>2. PICK U \in SUBSET Names : U = T \ {p}
      OBVIOUS
    <3>3. \A q \in U : InOrder(q) <= k - 1
      <4>1. \A q \in U : InOrder(q) # InOrder(p)
        BY <3>2, OwnPlace
      <4> QED BY <1>1, <3>1, <3>2, <4>1, OwnPlace
    <3>4. p \in Names /\ T = U \union {p}
      BY <3>2
    <3>5. CASE U = {}
      <4>1. T = {p}
        BY <3>4, <3>5
      <4>2. Largest(amount, whole, T, p)
        BY <4>1 DEF Largest
      <4> QED BY <4>2
    <3>6. CASE U # {}
      <4>1. Led(U)
        BY <2>2, <3>3, <3>6
      <4>2. PICK b : Largest(amount, whole, U, b)
        BY <4>1
      <4> HIDE DEF Bad, Led
      <4>3. \E c : Largest(amount, whole, U \union {p}, c)
        BY <3>4, <4>2, OneMoreShare
      <4> QED BY <3>4, <4>3 DEF Led
    <3> QED BY <3>5, <3>6
  <2> QED BY <2>3, <2>4
<1>2. Bad = {}
  <2> SUFFICES ASSUME Bad # {} PROVE FALSE
    OBVIOUS
  <2>1. PICK k \in Bad : \A j \in Bad : k <= j
    <3>1. Bad \subseteq Nat
      OBVIOUS
    <3> HIDE DEF Bad
    <3> QED BY <3>1, FirstOf
  <2> HIDE DEF Led
  <2>2. PICK T \in SUBSET Names : T # {} /\ ~Led(T) /\ \A p \in T : InOrder(p) <= k
    OBVIOUS
  <2>3. k \in Nat
    OBVIOUS
  <2> HIDE DEF Bad
  <2> QED BY <1>1, <2>1, <2>2, <2>3
<1>3. \A p \in S : InOrder(p) <= 5
  BY OwnPlace
<1>4. Led(S)
  BY <1>2, <1>3
<1> DEFINE Best(p) == \A q \in S \ {p} : Leads(amount, whole, p, q)
<1>5. Ahead(S, amount, whole) = CHOOSE p \in S : Best(p)
  BY DEF Ahead, Leads
<1>6. \E p \in S : Best(p)
  BY <1>4 DEF Largest
<1>7. Ahead(S, amount, whole) \in S /\ Best(Ahead(S, amount, whole))
  <2> HIDE DEF Best
  <2> QED BY <1>5, <1>6
<1> QED BY <1>7 DEF Largest

\* The largest of some amounts is ahead.
LEMMA LargestIsAhead ==
  ASSUME NEW amount \in [Names -> Int]
  PROVE  \E p \in Names : /\ Ahead(Names, amount, [q \in Names |-> 1]) = p
                          /\ \A q \in Names : amount[q] <= amount[p]
<1> DEFINE one == [q \in Names |-> 1]
           p == Ahead(Names, amount, one)
<1>1. one \in [Names -> Nat \ {0}] /\ Names # {}
  BY FivePillars
<1>2. Largest(amount, one, Names, p)
  <2>1. Names \in SUBSET Names
    OBVIOUS
  <2> HIDE DEF one
  <2> QED BY <1>1, <2>1, AheadIs
<1> HIDE DEF p
<1>3. p \in Names /\ \A q \in Names \ {p} : amount[p] * 1 - amount[q] * 1 >= 0
  BY <1>2 DEF Largest, Leads
<1>4. \A q \in Names : amount[q] <= amount[p]
  BY <1>3
<1> QED BY <1>3, <1>4 DEF p

\* A share rounded is off by half a post.
LEMMA RoundedShare ==
  ASSUME NEW share \in Nat, NEW n \in Nat
  PROVE  /\ RoundShare(share, n) \in Nat
         /\ share * n - 100 * RoundShare(share, n) \in -50 .. 50
<1>1. PICK x \in Nat : x = share * n
  OBVIOUS
<1>2. PICK w \in Nat, r \in 0 .. 99 : w = x \div 100 /\ r = x % 100 /\ x = 100 * w + r
  OBVIOUS
<1>3. RoundShare(share, n) = IF r > 50 \/ (r = 50 /\ w % 2 = 1) THEN w + 1 ELSE w
  BY <1>1, <1>2 DEF RoundShare
<1>4. CASE r > 50 \/ (r = 50 /\ w % 2 = 1)
  BY <1>1, <1>2, <1>3, <1>4
<1>5. CASE ~(r > 50 \/ (r = 50 /\ w % 2 = 1))
  BY <1>1, <1>2, <1>3, <1>5
<1> QED BY <1>4, <1>5

\* What the pillars lack in all is what the days lack.
LEMMA LacksAdd ==
  ASSUME NEW mix \in Mixes, NEW n \in Nat, NEW c \in [Names -> Int]
  PROVE  /\ Total(c) \in Int /\ \A p \in Names : mix[p] \in 1 .. 96
         /\ \A p \in Names : mix[p] * n \in Nat /\ Lack(mix, c, n, p) \in Int
         /\ Lack(mix, c, n, "product") + Lack(mix, c, n, "proof") + Lack(mix, c, n, "education")
              + Lack(mix, c, n, "behind_the_scenes") + Lack(mix, c, n, "offer")
            = 100 * (n - Total(c))
<1>p. \A p \in Names : mix[p] \in Nat \ {0}
  BY DEF Mixes
<1>q. PICK m1 \in Nat \ {0} : m1 = mix["product"]
  BY <1>p, FivePillars
<1>r. PICK m2 \in Nat \ {0} : m2 = mix["proof"]
  BY <1>p, FivePillars
<1>s. PICK m3 \in Nat \ {0} : m3 = mix["education"]
  BY <1>p, FivePillars
<1>t. PICK m4 \in Nat \ {0} : m4 = mix["behind_the_scenes"]
  BY <1>p, FivePillars
<1>u. PICK m5 \in Nat \ {0} : m5 = mix["offer"]
  BY <1>p, FivePillars
<1>1. /\ m1 = mix["product"] /\ m2 = mix["proof"] /\ m3 = mix["education"]
      /\ m4 = mix["behind_the_scenes"] /\ m5 = mix["offer"]
      /\ m1 \in Nat /\ m2 \in Nat /\ m3 \in Nat /\ m4 \in Nat /\ m5 \in Nat
      /\ m1 >= 1 /\ m2 >= 1 /\ m3 >= 1 /\ m4 >= 1 /\ m5 >= 1
  BY <1>q, <1>r, <1>s, <1>t, <1>u
<1>0. m1 + m2 + m3 + m4 + m5 = 100
  BY <1>1 DEF Mixes, Total
<1>2. PICK k1 \in Int, k2 \in Int, k3 \in Int, k4 \in Int, k5 \in Int :
        /\ k1 = c["product"] /\ k2 = c["proof"] /\ k3 = c["education"]
        /\ k4 = c["behind_the_scenes"] /\ k5 = c["offer"]
        /\ k1 + k2 + k3 + k4 + k5 = Total(c)
  BY FivePillars DEF Total
<1>3. \A p \in Names : mix[p] \in 1 .. 96
  <2>1. m1 \in 1 .. 96 /\ m2 \in 1 .. 96 /\ m3 \in 1 .. 96 /\ m4 \in 1 .. 96 /\ m5 \in 1 .. 96
    <3>1. m1 <= 96 /\ m2 <= 96 /\ m3 <= 96 /\ m4 <= 96 /\ m5 <= 96
      BY <1>0, <1>1
    <3> QED BY <1>1, <3>1
  <2> QED BY <1>1, <2>1, FivePillars
<1>4. m1 * n + m2 * n + m3 * n + m4 * n + m5 * n = 100 * n
  <2>1. m1 * n + m2 * n + m3 * n + m4 * n + m5 * n = (m1 + m2 + m3 + m4 + m5) * n
    BY <1>1
  <2> QED BY <1>0, <2>1
<1>5. PICK x1 \in Nat, x2 \in Nat, x3 \in Nat, x4 \in Nat, x5 \in Nat :
        x1 = m1 * n /\ x2 = m2 * n /\ x3 = m3 * n /\ x4 = m4 * n /\ x5 = m5 * n
  OBVIOUS
<1>6. /\ Lack(mix, c, n, "product") = x1 - 100 * k1 /\ Lack(mix, c, n, "proof") = x2 - 100 * k2
      /\ Lack(mix, c, n, "education") = x3 - 100 * k3
      /\ Lack(mix, c, n, "behind_the_scenes") = x4 - 100 * k4
      /\ Lack(mix, c, n, "offer") = x5 - 100 * k5
  BY <1>1, <1>2, <1>5 DEF Lack
<1>7. Total(c) = k1 + k2 + k3 + k4 + k5
  BY <1>2
<1>8. \A p \in Names : mix[p] * n \in Nat /\ Lack(mix, c, n, p) \in Int
  BY <1>1, <1>2, <1>5, FivePillars DEF Lack
<1>9. x1 - 100 * k1 + (x2 - 100 * k2) + (x3 - 100 * k3) + (x4 - 100 * k4) + (x5 - 100 * k5)
        = 100 * (n - (k1 + k2 + k3 + k4 + k5))
  BY <1>4, <1>5
<1> QED BY <1>3, <1>6, <1>7, <1>8, <1>9

\* One post more or less of a pillar is one more or less in all.
LEMMA OneMoreInAll ==
  ASSUME NEW c \in [Names -> Int], NEW p \in Names, NEW d \in Int
  PROVE  Total([c EXCEPT ![p] = @ + d]) = Total(c) + d
<1>1. \A q \in Names : [c EXCEPT ![p] = @ + d][q] = IF q = p THEN c[q] + d ELSE c[q]
  OBVIOUS
<1> QED BY <1>1, FivePillars DEF Total

\* Every pillar within one post of its share.
Near(mix, n, c) ==
  c \in [Names -> Nat] /\ \A p \in Names : -100 < Lack(mix, c, n, p) /\ Lack(mix, c, n, p) < 100

\* A turn of the loop comes one nearer and moves no pillar from its share.
LEMMA NearerIs ==
  ASSUME NEW mix \in Mixes, NEW n \in Nat, NEW c, Near(mix, n, c)
  PROVE  /\ Near(mix, n, Nearer(mix, n, c))
         /\ Total(Nearer(mix, n, c)) = IF Total(c) < n THEN Total(c) + 1
                                       ELSE IF Total(c) > n THEN Total(c) - 1 ELSE Total(c)
<1> DEFINE one == [p \in Names |-> 1]
           want == [p \in Names |-> Lack(mix, c, n, p)]
           excess == [p \in Names |-> -101 * Lack(mix, c, n, p) - mix[p]]
<1>1. c \in [Names -> Int] /\ c \in [Names -> Nat]
  BY DEF Near
<1>2. Total(c) \in Int /\ \A p \in Names : mix[p] \in 1 .. 96 /\ Lack(mix, c, n, p) \in Int
  BY <1>1, LacksAdd
<1>3. Lack(mix, c, n, "product") + Lack(mix, c, n, "proof") + Lack(mix, c, n, "education")
        + Lack(mix, c, n, "behind_the_scenes") + Lack(mix, c, n, "offer")
      = 100 * (n - Total(c))
  BY <1>1, LacksAdd
<1>4. want \in [Names -> Int] /\ excess \in [Names -> Int]
  <2>1. \A p \in Names : -101 * Lack(mix, c, n, p) - mix[p] \in Int
    BY <1>2
  <2> QED BY <1>2, <2>1
<1>5. Nearer(mix, n, c) = IF Total(c) < n THEN [c EXCEPT ![Ahead(Names, want, one)] = @ + 1]
                          ELSE IF Total(c) > n THEN [c EXCEPT ![Ahead(Names, excess, one)] = @ - 1]
                          ELSE c
  BY DEF Nearer
<1>6. ASSUME NEW p \in Names, NEW d \in {1, -1}, c[p] + d \in Nat,
             -100 < Lack(mix, c, n, p) - 100 * d, Lack(mix, c, n, p) - 100 * d < 100
      PROVE  Near(mix, n, [c EXCEPT ![p] = @ + d])
  <2> DEFINE e == [c EXCEPT ![p] = @ + d]
  <2>1. e \in [Names -> Nat]
    BY <1>1, <1>6
  <2>2. ASSUME NEW q \in Names PROVE -100 < Lack(mix, e, n, q) /\ Lack(mix, e, n, q) < 100
    <3>1. CASE q # p
      <4>1. e[q] = c[q]
        BY <1>1, <3>1
      <4>2. Lack(mix, e, n, q) = Lack(mix, c, n, q)
        BY <4>1 DEF Lack
      <4> QED BY <4>2 DEF Near
    <3>2. CASE q = p
      <4>1. e[p] = c[p] + d
        BY <1>1
      <4>2. PICK x \in Nat, k \in Nat : x = mix[p] * n /\ k = c[p]
        BY <1>1, LacksAdd
      <4>3. Lack(mix, c, n, p) = x - 100 * k /\ Lack(mix, e, n, p) = x - 100 * (k + d)
        BY <4>1, <4>2 DEF Lack
      <4>4. d \in Int
        OBVIOUS
      <4>5. Lack(mix, e, n, p) = Lack(mix, c, n, p) - 100 * d
        BY <4>2, <4>3, <4>4
      <4> QED BY <1>6, <3>2, <4>5
    <3> QED BY <3>1, <3>2
  <2> QED BY <2>1, <2>2 DEF Near
<1> HIDE DEF one
<1>7. CASE Total(c) < n
  <2>1. PICK p \in Names : /\ Ahead(Names, want, one) = p
                           /\ \A q \in Names : want[q] <= want[p]
    <3> HIDE DEF want
    <3> QED BY <1>4, LargestIsAhead DEF one
  <2>2. \A q \in Names : Lack(mix, c, n, q) <= Lack(mix, c, n, p)
    BY <2>1
  <2> HIDE DEF want, excess
  <2>3. Lack(mix, c, n, p) > 0
    BY <1>2, <1>3, <1>7, <2>2, FivePillars
  <2>4. Nearer(mix, n, c) = [c EXCEPT ![p] = @ + 1]
    BY <1>5, <1>7, <2>1
  <2>5. Lack(mix, c, n, p) < 100 /\ Lack(mix, c, n, p) \in Int /\ c[p] \in Nat
    BY <1>1, <1>2 DEF Near
  <2>6. Near(mix, n, Nearer(mix, n, c))
    <3>1. 1 \in {1, -1} /\ c[p] + 1 \in Nat
      BY <2>5
    <3>2. -100 < Lack(mix, c, n, p) - 100 * 1 /\ Lack(mix, c, n, p) - 100 * 1 < 100
      BY <2>3, <2>5
    <3>3. Near(mix, n, [c EXCEPT ![p] = @ + 1])
      BY <1>6, <3>1, <3>2
    <3> QED BY <2>4, <3>3
  <2>7. Total(Nearer(mix, n, c)) = Total(c) + 1
    <3>1. PICK d \in Int : d = 1
      OBVIOUS
    <3>2. Total([c EXCEPT ![p] = @ + d]) = Total(c) + d
      BY <1>1, OneMoreInAll
    <3> QED BY <2>4, <3>1, <3>2
  <2> QED BY <1>7, <2>6, <2>7
<1>8. CASE Total(c) > n
  <2>1. PICK p \in Names : /\ Ahead(Names, excess, one) = p
                           /\ \A q \in Names : excess[q] <= excess[p]
    <3> HIDE DEF excess
    <3> QED BY <1>4, LargestIsAhead DEF one
  <2>2. ASSUME NEW q \in Names PROVE Lack(mix, c, n, p) <= Lack(mix, c, n, q)
    <3>1. -101 * Lack(mix, c, n, q) - mix[q] <= -101 * Lack(mix, c, n, p) - mix[p]
      BY <2>1
    <3>2. /\ mix[q] \in 1 .. 96 /\ mix[p] \in 1 .. 96
          /\ Lack(mix, c, n, p) \in Int /\ Lack(mix, c, n, q) \in Int
      BY <1>2
    <3>3. PICK u \in 1 .. 96, v \in 1 .. 96, a \in Int, b \in Int :
            u = mix[q] /\ v = mix[p] /\ a = Lack(mix, c, n, q) /\ b = Lack(mix, c, n, p)
      BY <3>2
    <3>4. -101 * a - u <= -101 * b - v
      BY <3>1, <3>3
    <3>5. b <= a
      BY <3>4
    <3> QED BY <3>3, <3>5
  <2> HIDE DEF want, excess
  <2>3. Lack(mix, c, n, p) < 0
    BY <1>2, <1>3, <1>8, <2>2, FivePillars
  <2>4. Nearer(mix, n, c) = [c EXCEPT ![p] = @ + (-1)]
    <3>1. Nearer(mix, n, c) = [c EXCEPT ![p] = @ - 1]
      BY <1>2, <1>5, <1>8, <2>1
    <3>2. c[p] - 1 = c[p] + (-1)
      BY <1>1
    <3> QED BY <3>1, <3>2
  <2>5. /\ -100 < Lack(mix, c, n, p) /\ Lack(mix, c, n, p) \in Int
        /\ c[p] \in Nat
    BY <1>1, <1>2 DEF Near
  <2>6. c[p] # 0
    <3>1. mix[p] * n \in Nat
      BY <1>1, LacksAdd
    <3> QED BY <2>3, <3>1 DEF Lack
  <2>7. Near(mix, n, Nearer(mix, n, c))
    <3>1. -1 \in {1, -1} /\ c[p] + (-1) \in Nat
      BY <2>5, <2>6
    <3>2. -100 < Lack(mix, c, n, p) - 100 * (-1) /\ Lack(mix, c, n, p) - 100 * (-1) < 100
      BY <2>3, <2>5
    <3>3. Near(mix, n, [c EXCEPT ![p] = @ + (-1)])
      BY <1>6, <3>1, <3>2
    <3> QED BY <2>4, <3>3
  <2>8. Total(Nearer(mix, n, c)) = Total(c) + (-1)
    <3>1. PICK d \in Int : d = -1
      OBVIOUS
    <3>2. Total([c EXCEPT ![p] = @ + d]) = Total(c) + d
      BY <1>1, OneMoreInAll
    <3> QED BY <2>4, <3>1, <3>2
  <2> QED BY <1>2, <1>8, <2>7, <2>8
<1>9. CASE Total(c) = n
  BY <1>2, <1>5, <1>9
<1> QED BY <1>2, <1>7, <1>8, <1>9

\* What either loop makes of the rounded shares in so many turns.
MadeBy(f, mix, n) ==
  f = [i \in 0 .. Len(Order) |->
         IF i = 0 THEN [p \in Names |-> RoundShare(mix[p], n)] ELSE Nearer(mix, n, f[i - 1])]

\* The loops add the shares up to n.
LEMMA CountsAddUp ==
  ASSUME NEW mix \in Mixes, NEW n \in Nat
  PROVE  Near(mix, n, Counts(mix, n)) /\ Total(Counts(mix, n)) = n
<1> DEFINE r == [p \in Names |-> RoundShare(mix[p], n)]
           N(c) == Nearer(mix, n, c)
           g == [i \in 0 .. 5 |->
                   IF i = 0 THEN r ELSE IF i = 1 THEN N(r) ELSE IF i = 2 THEN N(N(r))
                   ELSE IF i = 3 THEN N(N(N(r))) ELSE IF i = 4 THEN N(N(N(N(r))))
                   ELSE N(N(N(N(N(r)))))]
           made == CHOOSE f : MadeBy(f, mix, n)
<1>0. Len(Order) = 5
  BY FivePillars
<1>1. MadeBy(g, mix, n)
  <2> HIDE DEF r, N
  <2>1. /\ g[0] = r /\ g[1] = N(r) /\ g[2] = N(N(r)) /\ g[3] = N(N(N(r)))
        /\ g[4] = N(N(N(N(r)))) /\ g[5] = N(N(N(N(N(r)))))
    OBVIOUS
  <2>2. \A i \in 0 .. 5 : i = 0 \/ i = 1 \/ i = 2 \/ i = 3 \/ i = 4 \/ i = 5
    OBVIOUS
  <2>3. 1 - 1 = 0 /\ 2 - 1 = 1 /\ 3 - 1 = 2 /\ 4 - 1 = 3 /\ 5 - 1 = 4
    OBVIOUS
  <2>4. \A i \in 0 .. 5 : g[i] = IF i = 0 THEN r ELSE N(g[i - 1])
    BY <2>1, <2>2, <2>3
  <2>5. g = [i \in 0 .. 5 |-> g[i]]
    OBVIOUS
  <2> HIDE DEF g
  <2>6. [i \in 0 .. 5 |-> g[i]] = [i \in 0 .. 5 |-> IF i = 0 THEN r ELSE N(g[i - 1])]
    BY <2>4
  <2> QED BY <1>0, <2>5, <2>6 DEF MadeBy, r, N
<1>2. MadeBy(made, mix, n)
  <2> HIDE DEF MadeBy, g
  <2> QED BY <1>1
<1>3. Counts(mix, n) = made[5]
  BY <1>0 DEF Counts, MadeBy
<1> HIDE DEF g, made
<1>4. made[0] = r /\ \A i \in 1 .. 5 : made[i] = N(made[i - 1])
  <2>1. \A i \in 0 .. 5 : made[i] = IF i = 0 THEN r ELSE N(made[i - 1])
    BY <1>0, <1>2 DEF MadeBy
  <2> HIDE DEF r, N
  <2> QED BY <2>1
<1>5. Near(mix, n, r) /\ n - Total(r) \in -2 .. 2
  <2>1. \A p \in Names : mix[p] \in Nat
    BY DEF Mixes
  <2>2. r \in [Names -> Nat]
    BY <2>1, RoundedShare
  <2>3. \A p \in Names : Lack(mix, r, n, p) \in -50 .. 50
    BY <2>1, RoundedShare DEF Lack
  <2> HIDE DEF r
  <2>4. Near(mix, n, r)
    BY <2>2, <2>3 DEF Near
  <2>5. /\ Lack(mix, r, n, "product") + Lack(mix, r, n, "proof") + Lack(mix, r, n, "education")
             + Lack(mix, r, n, "behind_the_scenes") + Lack(mix, r, n, "offer")
           = 100 * (n - Total(r))
        /\ Total(r) \in Int
    <3>1. r \in [Names -> Int]
      BY <2>2
    <3> QED BY <3>1, LacksAdd
  <2>6. /\ Lack(mix, r, n, "product") \in -50 .. 50 /\ Lack(mix, r, n, "proof") \in -50 .. 50
        /\ Lack(mix, r, n, "education") \in -50 .. 50
        /\ Lack(mix, r, n, "behind_the_scenes") \in -50 .. 50
        /\ Lack(mix, r, n, "offer") \in -50 .. 50
    BY <2>3, FivePillars
  <2>a. PICK a \in -50 .. 50 : a = Lack(mix, r, n, "product")
    BY <2>6
  <2>b. PICK b \in -50 .. 50 : b = Lack(mix, r, n, "proof")
    BY <2>6
  <2>c. PICK c \in -50 .. 50 : c = Lack(mix, r, n, "education")
    BY <2>6
  <2>d. PICK d \in -50 .. 50 : d = Lack(mix, r, n, "behind_the_scenes")
    BY <2>6
  <2>e. PICK e \in -50 .. 50 : e = Lack(mix, r, n, "offer")
    BY <2>6
  <2>7. a + b + c + d + e = 100 * (n - Total(r))
    BY <2>5, <2>a, <2>b, <2>c, <2>d, <2>e
  <2>8. -250 <= 100 * (n - Total(r)) /\ 100 * (n - Total(r)) <= 250
    <3>1. -250 <= a + b + c + d + e /\ a + b + c + d + e <= 250
      OBVIOUS
    <3> QED BY <2>7, <3>1
  <2>9. PICK t \in Int : t = n - Total(r)
    BY <2>5
  <2>10. t \in -2 .. 2
    BY <2>8, <2>9
  <2> QED BY <2>4, <2>9, <2>10
<1> HIDE DEF r
<1>6. Near(mix, n, made[1]) /\ n - Total(made[1]) \in -1 .. 1
  <2>1. made[1] = N(made[0])
    BY <1>4
  <2>2. Total(made[0]) \in Int
    BY <1>4, <1>5, LacksAdd DEF Near
  <2> QED BY <1>4, <1>5, <2>1, <2>2, NearerIs
<1>7. ASSUME NEW c, Near(mix, n, c), n - Total(c) \in -1 .. 1
      PROVE  Near(mix, n, N(c)) /\ Total(N(c)) = n
  <2>1. Total(c) \in Int
    <3>1. c \in [Names -> Int]
      BY <1>7 DEF Near
    <3> QED BY <3>1, LacksAdd
  <2> QED BY <1>7, <2>1, NearerIs
<1>8. ASSUME NEW c, Near(mix, n, c), Total(c) = n
      PROVE  Near(mix, n, N(c)) /\ Total(N(c)) = n
  BY <1>8, NearerIs
<1> HIDE DEF N
<1>9. Near(mix, n, made[2]) /\ Total(made[2]) = n
  <2>1. made[2] = N(made[1])
    BY <1>4
  <2> QED BY <1>6, <1>7, <2>1
<1>10. Near(mix, n, made[3]) /\ Total(made[3]) = n
  <2>1. made[3] = N(made[2])
    BY <1>4
  <2> QED BY <1>8, <1>9, <2>1
<1>11. Near(mix, n, made[4]) /\ Total(made[4]) = n
  <2>1. made[4] = N(made[3])
    BY <1>4
  <2> QED BY <1>8, <1>10, <2>1
<1>12. Near(mix, n, made[5]) /\ Total(made[5]) = n
  <2>1. made[5] = N(made[4])
    BY <1>4
  <2> QED BY <1>8, <1>11, <2>1
<1> QED BY <1>3, <1>12

\* What is dealt in k days of n.
Dealt(f, mix, n, k) ==
  f = [i \in 0 .. k |->
         IF i = 0 THEN [out |-> <<>>, left |-> Counts(mix, n), last |-> "none"]
         ELSE NextDay(mix, f[i - 1])]

\* There is such a deal.
LEMMA DealsExist ==
  ASSUME NEW mix, NEW n, NEW k \in Nat
  PROVE  \E f : Dealt(f, mix, n, k)
<1> DEFINE Bad == {j \in Nat : ~ \E f : Dealt(f, mix, n, j)}
           start == [out |-> <<>>, left |-> Counts(mix, n), last |-> "none"]
<1>1. SUFFICES ASSUME Bad # {} PROVE FALSE
  OBVIOUS
<1>2. PICK j \in Bad : \A i \in Bad : j <= i
  <2>1. Bad \subseteq Nat
    OBVIOUS
  <2> HIDE DEF Bad
  <2> QED BY <1>1, <2>1, FirstOf
<1>3. j \in Nat /\ ~ \E f : Dealt(f, mix, n, j)
  OBVIOUS
<1>4. CASE j = 0
  <2> DEFINE f == [i \in 0 .. 0 |-> start]
  <2>1. \A i \in 0 .. 0 : i = 0
    OBVIOUS
  <2>2. Dealt(f, mix, n, 0)
    BY <2>1 DEF Dealt
  <2> QED BY <1>3, <1>4, <2>2
<1>5. CASE j # 0
  <2>1. j - 1 \in Nat /\ j - 1 \notin Bad
    <3> HIDE DEF Bad
    <3> QED BY <1>2, <1>3, <1>5
  <2>2. PICK f : Dealt(f, mix, n, j - 1)
    BY <2>1
  <2> HIDE DEF Bad, start
  <2>3. \A i \in 0 .. j - 1 : f[i] = IF i = 0 THEN start ELSE NextDay(mix, f[i - 1])
    BY <2>2 DEF Dealt, start
  <2> DEFINE g == [i \in 0 .. j |-> IF i = j THEN NextDay(mix, f[j - 1]) ELSE f[i]]
  <2>4. ASSUME NEW i \in 0 .. j
        PROVE  g[i] = IF i = 0 THEN start ELSE NextDay(mix, g[i - 1])
    <3>1. CASE i = j
      <4>1. j - 1 \in 0 .. j /\ j - 1 # j
        BY <1>3, <2>1
      <4>2. g[j] = NextDay(mix, f[j - 1]) /\ g[j - 1] = f[j - 1]
        BY <1>3, <4>1
      <4> QED BY <1>5, <3>1, <4>2
    <3>2. CASE i # j
      <4>1. i \in 0 .. j - 1
        BY <1>3, <3>2
      <4>2. g[i] = f[i]
        BY <3>2
      <4>3. i # 0 => g[i - 1] = f[i - 1]
        <5>1. i # 0 => i - 1 \in 0 .. j /\ i - 1 # j
          BY <1>3, <4>1
        <5> QED BY <5>1
      <4> HIDE DEF g
      <4> QED BY <2>3, <4>1, <4>2, <4>3
    <3> QED BY <3>1, <3>2
  <2>5. g = [i \in 0 .. j |-> g[i]]
    OBVIOUS
  <2> HIDE DEF g
  <2>6. [i \in 0 .. j |-> g[i]]
          = [i \in 0 .. j |-> IF i = 0 THEN start ELSE NextDay(mix, g[i - 1])]
    BY <2>4
  <2>7. Dealt(g, mix, n, j)
    BY <2>5, <2>6 DEF Dealt, start
  <2> QED BY <1>3, <2>7
<1> QED BY <1>4, <1>5

\* After k days, k pillars have been used, as often as is gone from the counts.
DealtOut(acc, counts, k) ==
  /\ acc.out \in Seq(Names) /\ Len(acc.out) = k
  /\ acc.left \in [Names -> Nat] /\ Total(acc.left) = Total(counts) - k
  /\ \A p \in Names :
       acc.left[p] = counts[p] - Cardinality({i \in 1 .. k : acc.out[i] = p})

\* While days are left a pillar is.
LEMMA PillarIsLeft ==
  ASSUME NEW mix \in Mixes, NEW left \in [Names -> Nat], Total(left) > 0, NEW last
  PROVE  NextPillar(mix, left, last) \in Names /\ left[NextPillar(mix, left, last)] > 0
<1> DEFINE open == {p \in Names : left[p] > 0}
           others == open \ {last}
           T == IF others = {} THEN open ELSE others
<1>1. open # {}
  <2> SUFFICES ASSUME \A p \in Names : left[p] = 0 PROVE FALSE
    OBVIOUS
  <2>1. Total(left) = 0
    BY FivePillars DEF Total
  <2> QED BY <2>1
<1>2. T \in SUBSET Names /\ T # {} /\ T \subseteq open
  BY <1>1
<1>3. NextPillar(mix, left, last) = Ahead(T, left, mix)
  BY <1>1 DEF NextPillar
<1>4. left \in [Names -> Int] /\ mix \in [Names -> Nat \ {0}]
  BY DEF Mixes
<1> HIDE DEF T
<1>5. Largest(left, mix, T, Ahead(T, left, mix))
  BY <1>2, <1>4, AheadIs
<1>6. Ahead(T, left, mix) \in T
  BY <1>5 DEF Largest
<1>7. Ahead(T, left, mix) \in open
  BY <1>2, <1>6
<1> QED BY <1>3, <1>7

\* One more day is dealt.
LEMMA OneMoreDay ==
  ASSUME NEW mix \in Mixes, NEW counts \in [Names -> Nat], NEW k \in Nat, k < Total(counts),
         NEW acc, DealtOut(acc, counts, k)
  PROVE  DealtOut(NextDay(mix, acc), counts, k + 1)
<1>1. /\ acc.out \in Seq(Names) /\ Len(acc.out) = k
      /\ acc.left \in [Names -> Nat] /\ Total(acc.left) = Total(counts) - k
      /\ \A p \in Names :
           acc.left[p] = counts[p] - Cardinality({i \in 1 .. k : acc.out[i] = p})
  BY DEF DealtOut
<1>2. Total(counts) \in Int
  BY FivePillars DEF Total
<1>3. PICK p : p = NextPillar(mix, acc.left, acc.last)
  OBVIOUS
<1>4. p \in Names /\ acc.left[p] > 0
  BY <1>1, <1>2, <1>3, PillarIsLeft
<1> DEFINE out == Append(acc.out, p)
           left == [acc.left EXCEPT ![p] = @ - 1]
<1>5. NextDay(mix, acc) = [out |-> out, left |-> left, last |-> p]
  BY <1>3 DEF NextDay
<1>6. /\ out \in Seq(Names) /\ Len(out) = k + 1 /\ out[k + 1] = p
      /\ \A i \in 1 .. k : out[i] = acc.out[i]
  BY <1>1, <1>4
<1>7. left \in [Names -> Nat] /\ left[p] = acc.left[p] - 1
      /\ \A q \in Names \ {p} : left[q] = acc.left[q]
  BY <1>1, <1>4
<1>8. Total(left) = Total(counts) - (k + 1)
  <2>1. PICK d \in Int : d = -1
    OBVIOUS
  <2>2. Total([acc.left EXCEPT ![p] = @ + d]) = Total(acc.left) + d
    <3>1. acc.left \in [Names -> Int]
      BY <1>1
    <3> QED BY <1>4, <3>1, OneMoreInAll
  <2>3. left = [acc.left EXCEPT ![p] = @ + d]
    <3>1. acc.left[p] - 1 = acc.left[p] + d
      BY <1>1, <1>4, <2>1
    <3> QED BY <3>1
  <2> HIDE DEF left
  <2> QED BY <1>1, <1>2, <2>1, <2>2, <2>3
<1> HIDE DEF out, left
<1>9. ASSUME NEW q \in Names
      PROVE  left[q] = counts[q] - Cardinality({i \in 1 .. k + 1 : out[i] = q})
  <2> DEFINE before == {i \in 1 .. k : acc.out[i] = q}
             after == {i \in 1 .. k + 1 : out[i] = q}
  <2>1. IsFiniteSet(before) /\ Cardinality(before) \in Nat
    <3>1. IsFiniteSet(1 .. k) /\ before \subseteq 1 .. k
      BY FS_Interval
    <3> HIDE DEF before
    <3> QED BY <3>1, FS_Subset, FS_CardinalityType
  <2>2. 1 .. k + 1 = (1 .. k) \union {k + 1} /\ k + 1 \notin 1 .. k
    OBVIOUS
  <2>3. CASE q = p
    <3>1. after = before \union {k + 1} /\ k + 1 \notin before
      BY <1>6, <2>2, <2>3
    <3> HIDE DEF before, after
    <3>2. Cardinality(after) = Cardinality(before) + 1
      BY <2>1, <3>1, FS_AddElement
    <3>3. acc.left[q] = counts[q] - Cardinality(before)
      BY <1>1 DEF before
    <3> QED BY <1>7, <2>1, <2>3, <3>2, <3>3 DEF after
  <2>4. CASE q # p
    <3>1. after = before
      BY <1>6, <2>2, <2>4
    <3> QED BY <1>1, <1>7, <2>4, <3>1
  <2> QED BY <2>3, <2>4
<1> QED BY <1>5, <1>6, <1>7, <1>8, <1>9 DEF DealtOut

\* SharesKept for any mix and any number of days, past those that TLC can go through: the
\* two loops end with a post for every day and move no pillar more than a post from its
\* share, and the deal gives out just those posts (plan.py:159-183).
THEOREM MixKeepsShares ==
  ASSUME NEW mix \in Mixes, NEW n \in Nat
  PROVE  SharesKept(mix, n)
<1> DEFINE counts == Counts(mix, n)
           dealt == CHOOSE f : Dealt(f, mix, n, n)
<1>1. Near(mix, n, counts) /\ Total(counts) = n /\ counts \in [Names -> Nat]
  BY CountsAddUp DEF Near
<1>2. Dealt(dealt, mix, n, n)
  <2>1. \E f : Dealt(f, mix, n, n)
    BY DealsExist
  <2> HIDE DEF Dealt
  <2> QED BY <2>1
<1>3. WeightedPillars(mix, n) = dealt[n].out
  BY DEF WeightedPillars, Dealt
<1> HIDE DEF dealt
<1>4. /\ dealt[0] = [out |-> <<>>, left |-> counts, last |-> "none"]
      /\ \A i \in 1 .. n : dealt[i] = NextDay(mix, dealt[i - 1])
  <2>1. \A i \in 0 .. n : dealt[i] = IF i = 0
                                    THEN [out |-> <<>>, left |-> counts, last |-> "none"]
                                    ELSE NextDay(mix, dealt[i - 1])
    BY <1>2 DEF Dealt
  <2> HIDE DEF counts
  <2> QED BY <2>1
<1> HIDE DEF counts
<1>5. \A k \in 0 .. n : DealtOut(dealt[k], counts, k)
  <2> DEFINE Bad == {k \in 0 .. n : ~DealtOut(dealt[k], counts, k)}
  <2>1. SUFFICES ASSUME Bad # {} PROVE FALSE
    OBVIOUS
  <2>2. PICK k \in Bad : \A j \in Bad : k <= j
    <3>1. Bad \subseteq Nat
      OBVIOUS
    <3> HIDE DEF Bad
    <3> QED BY <2>1, <3>1, FirstOf
  <2>3. k \in 0 .. n /\ ~DealtOut(dealt[k], counts, k)
    OBVIOUS
  <2>4. DealtOut(dealt[0], counts, 0)
    <3>1. \A p \in Names : {i \in 1 .. 0 : dealt[0].out[i] = p} = {}
      OBVIOUS
    <3>2. Cardinality({}) = 0
      BY FS_EmptySet
    <3>3. dealt[0].out \in Seq(Names) /\ Len(dealt[0].out) = 0 /\ dealt[0].left = counts
      BY <1>4
    <3> QED BY <1>1, <3>1, <3>2, <3>3 DEF DealtOut
  <2>5. CASE k # 0
    <3>1. k - 1 \in 0 .. n /\ k - 1 \in Nat /\ k - 1 < n /\ (k - 1) + 1 = k /\ k \in 1 .. n
      BY <2>3, <2>5
    <3>2. k - 1 \notin Bad
      <4> HIDE DEF Bad
      <4> QED BY <2>2, <2>3
    <3>3. DealtOut(dealt[k - 1], counts, k - 1)
      BY <3>1, <3>2
    <3>4. DealtOut(NextDay(mix, dealt[k - 1]), counts, (k - 1) + 1)
      BY <1>1, <3>1, <3>3, OneMoreDay
    <3> QED BY <1>4, <2>3, <3>1, <3>4
  <2> QED BY <2>3, <2>4, <2>5
<1>6. DealtOut(dealt[n], counts, n)
  BY <1>5
<1> DEFINE out == dealt[n].out
           left == dealt[n].left
<1>7. /\ Len(out) = n /\ left \in [Names -> Nat] /\ Total(left) = 0
      /\ \A p \in Names : left[p] = counts[p] - Cardinality({i \in 1 .. n : out[i] = p})
  BY <1>1, <1>6 DEF DealtOut
<1> HIDE DEF out, left
<1>8. \A p \in Names : left[p] = 0
  <2>1. \A p \in Names : left[p] \in Nat
    BY <1>7
  <2>2. /\ left["product"] \in Nat /\ left["proof"] \in Nat /\ left["education"] \in Nat
        /\ left["behind_the_scenes"] \in Nat /\ left["offer"] \in Nat
    BY <2>1, FivePillars
  <2>3. left["product"] + left["proof"] + left["education"] + left["behind_the_scenes"]
          + left["offer"] = 0
    BY <1>7 DEF Total
  <2>4. /\ left["product"] = 0 /\ left["proof"] = 0 /\ left["education"] = 0
        /\ left["behind_the_scenes"] = 0 /\ left["offer"] = 0
    <3>1. PICK k1 \in Nat : k1 = left["product"]
      BY <2>2
    <3>2. PICK k2 \in Nat : k2 = left["proof"]
      BY <2>2
    <3>3. PICK k3 \in Nat : k3 = left["education"]
      BY <2>2
    <3>4. PICK k4 \in Nat : k4 = left["behind_the_scenes"]
      BY <2>2
    <3>5. PICK k5 \in Nat : k5 = left["offer"]
      BY <2>2
    <3>6. k1 + k2 + k3 + k4 + k5 = 0
      BY <2>3, <3>1, <3>2, <3>3, <3>4, <3>5
    <3>7. k1 = 0 /\ k2 = 0 /\ k3 = 0 /\ k4 = 0 /\ k5 = 0
      BY <3>6
    <3> QED BY <3>1, <3>2, <3>3, <3>4, <3>5, <3>7
  <2> QED BY <2>4, FivePillars
<1>9. ASSUME NEW p \in Names
      PROVE  /\ -100 < mix[p] * n - 100 * Cardinality({i \in 1 .. n : out[i] = p})
             /\ mix[p] * n - 100 * Cardinality({i \in 1 .. n : out[i] = p}) < 100
  <2>1. Cardinality({i \in 1 .. n : out[i] = p}) \in Nat
    <3>1. IsFiniteSet({i \in 1 .. n : out[i] = p})
      <4>1. IsFiniteSet(1 .. n) /\ {i \in 1 .. n : out[i] = p} \subseteq 1 .. n
        BY FS_Interval
      <4> QED BY <4>1, FS_Subset
    <3> QED BY <3>1, FS_CardinalityType
  <2>2. PICK c \in Nat : c = Cardinality({i \in 1 .. n : out[i] = p})
    BY <2>1
  <2>3. counts[p] = c
    BY <1>1, <1>7, <1>8, <2>2
  <2>4. -100 < mix[p] * n - 100 * counts[p] /\ mix[p] * n - 100 * counts[p] < 100
    BY <1>1 DEF Near, Lack
  <2> QED BY <2>2, <2>3, <2>4
<1> QED BY <1>3, <1>7, <1>9 DEF SharesKept, out

\* The four goals have such mixes.
COROLLARY GoalsKeepShares ==
  \A goal \in GOALS, n \in Nat : SharesKept(MIX_BY_GOAL[goal], n)
<1>1. ASSUME NEW a \in Nat \ {0}, NEW b \in Nat \ {0}, NEW c \in Nat \ {0},
             NEW d \in Nat \ {0}, NEW e \in Nat \ {0}, a + b + c + d + e = 100
      PROVE  Mix(a, b, c, d, e) \in Mixes
  <2> DEFINE m == Mix(a, b, c, d, e)
  <2>1. /\ m["product"] = a /\ m["proof"] = b /\ m["education"] = c
        /\ m["behind_the_scenes"] = d /\ m["offer"] = e
    BY FivePillars DEF Mix
  <2>2. m \in [Names -> Nat \ {0}]
    BY FivePillars DEF Mix
  <2> HIDE DEF m
  <2>3. Total(m) = 100
    BY <1>1, <2>1 DEF Total
  <2> QED BY <2>2, <2>3 DEF Mixes, m
<1>2. GOALS = {"awareness", "footfall", "leads", "launch"}
  BY DEF GOALS, MIX_BY_GOAL
<1>3. /\ MIX_BY_GOAL["awareness"] = Mix(30, 15, 25, 20, 10)
      /\ MIX_BY_GOAL["footfall"] = Mix(25, 15, 10, 15, 35)
      /\ MIX_BY_GOAL["leads"] = Mix(20, 30, 30, 10, 10)
      /\ MIX_BY_GOAL["launch"] = Mix(40, 15, 15, 20, 10)
  BY DEF MIX_BY_GOAL
<1>4. \A goal \in GOALS : MIX_BY_GOAL[goal] \in Mixes
  BY <1>1, <1>2, <1>3
<1> QED BY <1>4, MixKeepsShares

-----------------------------------------------------------------------------
(* All of what has no state of its own, but the mix of a month and the sizes of frames. *)

\* The input of a part without state is one of those of the run, and stays.
LEMMA InputOk == Spec => []Input
<1>1. Init => Input
  BY DEF Init
<1>2. Input /\ [Next]_vars => Input'
  BY DEF Input, Next, vars
<1> QED BY <1>1, <1>2, PTL DEF Spec

LEMMA CropsOk == Input /\ part = "crops" => SubjectsKept(input[1], input[2])
<1> SUFFICES ASSUME Input, part = "crops", NEW focus \in Subjects(input[2]),
                    focus[1] < focus[3], focus[2] < focus[4]
             PROVE  SubjectKept(input[2], input[1], focus)
  BY DEF SubjectsKept
<1>1. input \in SmallWindows \X SmallPhotos
  BY DEF Input, Parts
<1>2. /\ input[1] \in (Nat \ {0}) \X (Nat \ {0}) /\ input[2] \in (Nat \ {0}) \X (Nat \ {0})
      /\ input[2][1] \in Nat /\ input[2][2] \in Nat
  BY <1>1 DEF SmallWindows, SmallPhotos
<1>3. PICK image : image = input[2]
  OBVIOUS
<1>4. image[1] \in Nat /\ image[2] \in Nat /\ focus \in Subjects(image)
  BY <1>2, <1>3
<1>5. /\ focus \in Nat \X Nat \X Nat \X Nat
      /\ focus[3] <= image[1] /\ focus[4] <= image[2]
  BY <1>4 DEF Subjects
<1> QED BY <1>2, <1>3, <1>5, CropKeepsSubject

LEMMA BoxesOk == Input /\ part = "boxes" => WordsAndProductClear(input)
<1> SUFFICES ASSUME Input, part = "boxes" PROVE WordsAndProductClear(input)
  OBVIOUS
<1>1. input \in BoxesIn(4)
  BY DEF Input, Parts
<1>2. \A b \in BoxesIn(4) : b \in Box /\ Real(b)
  BY DEF BoxesIn, Box
<1>3. \A words \in BoxesIn(4), feather \in {1, 2} : PlateUnderWords(words, input, feather)
  <2> SUFFICES ASSUME NEW words \in BoxesIn(4), NEW feather \in {1, 2}
               PROVE  PlateUnderWords(words, input, feather)
    OBVIOUS
  <2>1. /\ words \in Box /\ Real(words) /\ input \in Box /\ Real(input) /\ feather \in Nat
    BY <1>1, <1>2
  <2> QED BY <2>1, PlatesStayUnderTheirWords
<1>4. \A other \in BoxesIn(4), cut \in Cuts, margin \in {0, 1} :
        ProductClear(<<0, 0, 4, 4>>, <<input, other>>, cut, margin)
  <2> SUFFICES ASSUME NEW other \in BoxesIn(4), NEW cut \in Cuts, NEW margin \in {0, 1}
               PROVE  ProductClear(<<0, 0, 4, 4>>, <<input, other>>, cut, margin)
    OBVIOUS
  <2>1. <<0, 0, 4, 4>> \in Box
    BY DEF Box
  <2>2. <<input, other>> \in Seq(Box)
    BY <1>1, <1>2
  <2>3. cut \in (Nat \ {0}) \X (Nat \ {0}) /\ margin \in Nat
    BY DEF Cuts
  <2> QED BY <2>1, <2>2, <2>3, ProductStandsClear
<1> QED BY <1>3, <1>4 DEF WordsAndProductClear

LEMMA IdeasOk == Input /\ part = "ideas" => IdeasInOrder(input)
<1> SUFFICES ASSUME NEW story \in Stories
             PROVE  BestReasonsOffered(story[1], input, story[2], story[3], story[4])
  BY DEF IdeasInOrder
<1>1. story[1] \in SUBSET Founds
  BY DEF Stories, Founds
<1> QED BY <1>1, BestReasonsFirst

LEMMA SequelsOk == Input /\ part = "sequels" => SequelIsTheBest(input)
<1> SUFFICES ASSUME Input, part = "sequels" PROVE SequelIsTheBest(input)
  OBVIOUS
<1>1. input \in Tops
  BY DEF Input, Parts
<1>2. PICK n \in 0 .. 3 : input \in [1 .. n -> RankedPosts]
  BY <1>1 DEF Tops
<1> QED BY <1>2, BestIsFollowedUp

LEMMA VotesOk == Input /\ part = "votes" => OneOpinionPerBrief(input)
<1> SUFFICES ASSUME Input, part = "votes" PROVE OneOpinionPerBrief(input)
  OBVIOUS
<1>1. input \in Votes
  BY DEF Input, Parts
<1>2. PICK n \in 0 .. 3 : input \in [1 .. n -> [kind : VoteKinds, brief : {p1, p2}]]
  BY <1>1 DEF Votes
<1>3. n \in Nat /\ DOMAIN input = 1 .. n
  BY <1>2
<1> QED BY <1>3, OwnerCountsOnce

\* What is computed of an input is as promised, on every input of the run, by the theorems
\* above that hold of any input: of the crops, the plates, the product, the ideas, the
\* follow-up and the votes.  The mix of a month and the sizes of frames are searches over
\* numbers that TLC carries out.
THEOREM ComputedPartsAsPromised ==
  Spec => [](part \notin {"pillars", "frames"} => ComputedAsPromised)
<1>1. Input => (part \notin {"pillars", "frames"} => ComputedAsPromised)
  BY CropsOk, BoxesOk, IdeasOk, SequelsOk, VotesOk DEF ComputedAsPromised
<1> QED BY <1>1, InputOk, PTL
=============================================================================
