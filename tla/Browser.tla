------------------------------- MODULE Browser -------------------------------
(***************************************************************************)
(* The renders of one creative (creative/compose.py): every slide is laid  *)
(* out on a page of one Chromium that the whole process shares, launched   *)
(* under a lock when it is missing or dead; a render that Chromium dies    *)
(* under is run once more.  A composed frame is then measured and darkened *)
(* under its words until it can be read.  layout_gate (pipeline.py) puts   *)
(* the same pages to all slides before anything is charged.                *)
(***************************************************************************)
EXTENDS Integers, FiniteSets

CONSTANTS Renders, NoRender,
          LEGIBILITY_ROUNDS,
          FULL, SLACK,        \* the strongest plate and the measurement slack, in steps
          MAX_CRASHES, MAX_HICCUPS   \* bounds: deaths of Chromium; other faults of it

ASSUME BrowserConstants ==
  /\ NoRender \notin Renders
  /\ LEGIBILITY_ROUNDS \in Nat \ {0} /\ {FULL, SLACK, MAX_CRASHES, MAX_HICCUPS} \subseteq Nat

VARIABLES
  purpose,    \* "check" before the charge, or "compose"
  browser,    \* the browser the module's handle names; 0: none yet
  driver,     \* the driver its handle names
  chromiums, drivers,         \* those alive
  lock,       \* the render that is launching, or NoRender
  step, go,   \* of a render: where it is, and on which of its two tries
  page,       \* the browser its page is of
  need,       \* the plate its words need over its picture; more than FULL: none will do
  plate, laid,                \* the plate decided on, and the one on the page
  round, why, \* rounds of legibility so far; what a refusal is about
  verdict,    \* of layout_gate
  launches, crashes, hiccups

browserVars == <<purpose, browser, driver, chromiums, drivers, lock, step, go, page, need,
                 plate, laid, round, why, verdict, launches, crashes, hiccups>>
handles == <<browser, driver, chromiums, drivers, lock, launches>>
readings == <<need, plate, laid, round>>

Rendered == {"done", "refused", "failed"}

BrowserInit ==
  /\ purpose \in {"check", "compose"}
  /\ browser = 0 /\ driver = 0 /\ chromiums = {} /\ drivers = {} /\ lock = NoRender
  /\ step = [r \in Renders |-> "queued"]
  /\ go = [r \in Renders |-> 1] /\ page = [r \in Renders |-> 0]
  /\ need = [r \in Renders |-> 0] /\ plate = [r \in Renders |-> 0]
  /\ laid = [r \in Renders |-> 0] /\ round = [r \in Renders |-> 0]
  /\ why = [r \in Renders |-> "nothing"]
  /\ verdict = "none" /\ launches = 0 /\ crashes = 0 /\ hiccups = 0

-----------------------------------------------------------------------------
IsConnected == browser \in chromiums

\* _get_lock: one lock for the loop; it used to be made anew for as long as no browser
\* had been launched.
GetLock_UntilLaunched == lock = NoRender \/ browser = 0

GetLock == lock = NoRender

GetBrowser(r) ==
  /\ step[r] = "queued" /\ GetLock /\ IsConnected
  /\ step' = [step EXCEPT ![r] = "laying"]
  /\ page' = [page EXCEPT ![r] = browser]
  /\ UNCHANGED <<purpose, handles, go, readings, why, verdict, crashes, hiccups>>

\* The old driver is stopped before another is started.
LaunchBegins(r) ==
  /\ step[r] = "queued" /\ GetLock /\ ~IsConnected
  /\ lock' = r
  /\ step' = [step EXCEPT ![r] = "launching"]
  /\ launches' = launches + 1
  /\ driver' = 0
  /\ drivers' = (drivers \ {driver}) \union {launches'}
  /\ page' = [page EXCEPT ![r] = launches']
  /\ UNCHANGED <<purpose, browser, chromiums, go, readings, why, verdict, crashes, hiccups>>

Launched(r) ==
  /\ step[r] = "launching"
  /\ browser' = page[r] /\ driver' = page[r]
  /\ chromiums' = chromiums \union {page[r]}
  /\ lock' = NoRender
  /\ step' = [step EXCEPT ![r] = "laying"]
  /\ UNCHANGED <<purpose, drivers, launches, go, page, readings, why, verdict, crashes, hiccups>>

\* _surviving_a_crash: once more for a death of the browser, as its message tells it; the
\* second go's error is the render's.
CrashesSurvived_None == 0

CrashesSurvived == 1

ClosePage(r) == page' = [page EXCEPT ![r] = 0]
ForgetFrame(r) ==
  /\ need' = [need EXCEPT ![r] = 0] /\ plate' = [plate EXCEPT ![r] = 0]
  /\ laid' = [laid EXCEPT ![r] = 0] /\ round' = [round EXCEPT ![r] = 0]

AfterDeath(r) ==
  IF go[r] <= CrashesSurvived
  THEN step' = [step EXCEPT ![r] = "queued"] /\ go' = [go EXCEPT ![r] = @ + 1]
  ELSE step' = [step EXCEPT ![r] = "failed"] /\ UNCHANGED go

\* The launch fails: its driver is stopped.  The message may name the browser or not.
LaunchFails(r) ==
  /\ step[r] = "launching" /\ hiccups < MAX_HICCUPS
  /\ hiccups' = hiccups + 1
  /\ drivers' = drivers \ {page[r]} /\ lock' = NoRender
  /\ \/ AfterDeath(r)
     \/ step' = [step EXCEPT ![r] = "failed"] /\ UNCHANGED go
  /\ ClosePage(r)
  /\ UNCHANGED <<purpose, browser, driver, chromiums, launches, readings, why, verdict,
                 crashes>>

Crash ==
  /\ crashes < MAX_CRASHES /\ chromiums # {}
  /\ \E b \in chromiums : chromiums' = chromiums \ {b}
  /\ crashes' = crashes + 1
  /\ UNCHANGED <<purpose, browser, driver, drivers, lock, launches, step, go, page, readings,
                 why, verdict, hiccups>>

Open(r) == step[r] \in {"laying", "reading"}

CaughtMidCrash(r) ==
  /\ Open(r) /\ page[r] \notin chromiums
  /\ AfterDeath(r) /\ ClosePage(r) /\ ForgetFrame(r)
  /\ UNCHANGED <<purpose, handles, why, verdict, crashes, hiccups>>

\* A page's own crash is none of the deaths _is_browser_death knows.
PageCrashes(r) ==
  /\ Open(r) /\ page[r] \in chromiums /\ hiccups < MAX_HICCUPS
  /\ hiccups' = hiccups + 1
  /\ step' = [step EXCEPT ![r] = "failed"]
  /\ ClosePage(r) /\ ForgetFrame(r)
  /\ UNCHANGED <<purpose, handles, go, why, verdict, crashes>>

-----------------------------------------------------------------------------
Refuse(r, about) ==
  /\ step' = [step EXCEPT ![r] = "refused"]
  /\ why' = [why EXCEPT ![r] = about]
  /\ ClosePage(r)

\* _layout: the fonts have to be there, then the words and the mark have to fit.  A
\* composed page also has to leave the window its picture was made for.
LayoutRefused(r) ==
  /\ step[r] = "laying" /\ page[r] \in chromiums
  /\ \E about \in {"font", "copy", "mark"} : Refuse(r, about)
  /\ UNCHANGED <<purpose, handles, go, readings, verdict, crashes, hiccups>>

Laid(r) ==
  /\ step[r] = "laying" /\ page[r] \in chromiums
  /\ IF purpose = "check"
     THEN step' = [step EXCEPT ![r] = "done"] /\ ClosePage(r) /\ UNCHANGED readings
     ELSE /\ UNCHANGED page
          /\ step' = [step EXCEPT ![r] = "reading"]
          /\ need' \in {[need EXCEPT ![r] = n] : n \in 0 .. FULL + SLACK + 1}
          /\ plate' = [plate EXCEPT ![r] = 0] /\ laid' = [laid EXCEPT ![r] = 0]
          /\ round' = [round EXCEPT ![r] = 0]
  /\ UNCHANGED <<purpose, handles, go, why, verdict, crashes, hiccups>>

\* plate_alpha: what the ground measured now asks for, at most FULL, never less than what
\* is there.  The blur at a plate's edge may leave it a hair short of the aim.
PlateAlpha(r) ==
  {IF plate[r] > n THEN plate[r] ELSE n :
     n \in {IF aim < FULL THEN aim ELSE FULL : aim \in {need[r], need[r] - SLACK}}}

\* _make_legible, one round: the plates are laid, the frame is measured, and it ships, or
\* is plated further, or after the last round passes within the slack or is refused.
ReadFrame(r) ==
  /\ step[r] = "reading" /\ page[r] \in chromiums
  /\ laid' = [laid EXCEPT ![r] = plate[r]]
  /\ LET short == laid'[r] < need[r]
         last == round[r] = LEGIBILITY_ROUNDS
     IN \/ /\ ~short \/ (last /\ laid'[r] >= need[r] - SLACK)
           /\ step' = [step EXCEPT ![r] = "done"] /\ ClosePage(r)
           /\ UNCHANGED <<plate, round, why>>
        \/ /\ short /\ last /\ laid'[r] < need[r] - SLACK
           /\ Refuse(r, "contrast")
           /\ UNCHANGED <<plate, round>>
        \/ /\ short /\ ~last
           /\ \E n \in PlateAlpha(r) : plate' = [plate EXCEPT ![r] = n]
           /\ round' = [round EXCEPT ![r] = @ + 1]
           /\ UNCHANGED <<step, page, why>>
  /\ UNCHANGED <<purpose, handles, go, need, verdict, crashes, hiccups>>

\* layout_gate waits for all of them: an error is raised, a missing face outranks the
\* copy, and the mark is blamed only when nothing else is.
LayoutGate ==
  /\ purpose = "check" /\ verdict = "none"
  /\ \A r \in Renders : step[r] \in Rendered
  /\ LET about == {why[r] : r \in {r \in Renders : step[r] = "refused"}}
     IN verdict' = CASE \E r \in Renders : step[r] = "failed" -> "raised"
                     [] "font" \in about -> "brand_font_unavailable"
                     [] about = {} -> "passed"
                     [] about = {"mark"} -> "brand_mark_does_not_fit"
                     [] OTHER -> "copy_does_not_fit"
  /\ UNCHANGED <<purpose, handles, step, go, page, readings, why, crashes, hiccups>>

BrowserNext ==
  \/ \E r \in Renders :
       \/ GetBrowser(r) \/ LaunchBegins(r) \/ Launched(r) \/ LaunchFails(r)
       \/ CaughtMidCrash(r) \/ PageCrashes(r)
       \/ LayoutRefused(r) \/ Laid(r) \/ ReadFrame(r)
  \/ Crash \/ LayoutGate

BrowserSpec == BrowserInit /\ [][BrowserNext]_browserVars

-----------------------------------------------------------------------------
\* One Chromium and one driver at a time: "every concurrent first caller (six slides of a
\* carousel) got its own lock and launched its own Chromium", and "release the old driver
\* before starting another, or they accumulate" (get_browser).
OneChromium == Cardinality(chromiums) <= 1 /\ Cardinality(drivers) <= 1

\* "One crash used to fail them all" (_surviving_a_crash): a render fails only after a
\* second death, or for a launch or a page that failed by itself.
OneCrashSurvived ==
  \A r \in Renders : step[r] = "failed" => hiccups > 0 \/ crashes > 1

\* A frame ships under the plate it was measured with, and is refused for its contrast
\* only when the strongest plate is not enough: "LegibilityError when a plate at full
\* strength still cannot deliver it" (_make_legible).
ReadableOrBeyondHelp ==
  \A r \in Renders :
    /\ step[r] = "done" /\ purpose = "compose" => laid[r] >= need[r] - SLACK
    /\ step[r] = "refused" /\ why[r] = "contrast" => need[r] > FULL + SLACK

\* The three together.
RendersAsPromised == OneChromium /\ OneCrashSurvived /\ ReadableOrBeyondHelp

=============================================================================
