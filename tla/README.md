# Verification of Sakshi

Sakshi turns a shop owner's WhatsApp message into a finished social creative, posts it
to Instagram when the owner has tapped, answers comments there with the owner's leave,
and offers ideas of its own. This directory holds TLA+ models of the parts of it where
several workers, a crash or the passing of time can come between two steps, and of the
computations on which a paid picture depends; the TLC runs that check them on small
instances; and TLAPS proofs of what they promise for every instance.

Paths below are relative to `src/`, those without a directory to `src/app/`.

## 1. The system

| component | source | state it keeps | operations | how it meets the others |
|---|---|---|---|---|
| Job queue | `queue/client.py`, `worker.py` | `jobs` rows (the truth), a Redis list, a Redis delayed set | enqueue, promote, reap, dequeue, claim, run, retry, finish | every asynchronous thing the system does is a job |
| WhatsApp ingest | `channels/whatsapp/router.py`, `ingest.py` | `messages`, `wa_sessions` | verify, persist, extend the window, add the job in one transaction, push it after | produces message jobs; records approvals, votes and taps |
| Agent turn | `agent/runner.py`, `tools.py`, `context.py` | `messages.answered_at`, session state, the budget of lines said | run a turn, dispatch tools, answer, apologise | runs inside a message job; calls every tool |
| Creative generation | `creative/pipeline.py` | `briefs`, `creatives`, the tallies of one call | generate, recompose, regenerate_image, deliver, reap stuck ones | charges and refunds; one creative in flight for a brand |
| Credits | `billing/credits.py`, `integrations/razorpay/client.py` | `accounts.credits_balance`, `credit_ledger` | charge, refund, topup | called from generation and the payment webhook |
| Versions and approval | `db/repo.py`, `creative/pipeline.py`, `integrations/storage/r2.py` | `briefs.parent/version/status`, `creatives.approved_at`, objects that expire | save_brief, lineage, mark_approved, promote | written by generation and ingest, read by publishing |
| Publishing | `agent/tools.py`, `queue/handlers.py`, `integrations/instagram/` | `publications`, `ig_accounts` | connect, refresh, containers, publish, record | only what is approved may go out |
| Instagram inbox | `inbox/`, `queue/handlers.py` | `ig_events`, the session's pending edit | draft, tap (send, edit, skip), reply | taps come through ingest, replies run as jobs |
| Nudges | `insights/suggest.py`, `festival_push.py`, `votes.py` | dedupe keys of jobs, the session's suggestions, `template_prefs` | daily suggestion, festival push, snooze | enqueue jobs, send when the window is open |
| Plan of a month | `insights/plan.py` | one JSON column of slots | build, mark made, suggest | turns build and fill it, the morning line-up reads it |
| Insights | `insights/performance.py`, `integrations/instagram/insights.py` | `post_metrics`, stamps of the last sync | sweep, sync, score, sequel | reads with the login that publishing uses |
| Media handlers | `queue/handlers.py` | transcripts, brand assets, the brand's logo and palette | transcribe, handle_image | jobs that feed a turn |
| Layout and composition | `creative/compose.py` | one shared Chromium | get_browser, measure, compose, legibility rounds | the gate before the charge and every frame after it |
| Picture checks | `creative/bggate.py`, `compositeqa.py`, `finalgate.py` | verdicts of one slide | inspect a picture, assess a frame, the ladder, the final look | decide what is bought again and what is sent |
| Image vendors | `creative/imagegen/` | an order and its clock | submit, poll, fetch | called under the spending cap of a slide |
| Brand kit | `scripts/onboard_brand.py`, `creative/brandkit.py` | `brand_assets`, `brand_memory`, the kit | import a folder, seed a look | staff run it; slides are made in the look |
| Memory, grounding, shell | the rest | none that two actors share | embeddings, prompts, configuration | outcomes of a send or of an import |

What is hard here:

* **Concurrency.** A worker is one process doing one job at a time, but there are
  several: `render.yaml` invites raising `numInstances`, and a deploy runs the old
  and the new worker side by side. Postgres runs at READ COMMITTED, ORM writes are
  by primary key and unconditional, JSON columns are read and written whole; only
  `_claim` is a conditional UPDATE and only a few rows are locked. Inside a job the
  slides of a creative are coroutines that share a semaphore, a register of pictures, a
  budget and a browser.
* **Failure.** Everything is several transactions, Redis commands and vendor calls in
  a row; a crash, a lost push or a refused commit can fall between any two.
* **Time.** A job is run again 30 minutes after it was claimed, a slide is given up
  45 minutes after it was made, a queued row is pushed again after 90 seconds, pictures
  leave the bucket after days, windows close after 24 hours.
* **Sequence.** A slide's layout is chosen, measured, changed, measured again, paid for,
  composed, rearranged, rejected and bought again; each step relies on what an earlier
  one found.

What makes each component correct:

* queue: an attempt is handed out once; no job is given up early; instances do not
  share a job; every job ends.
* generation and credits: no credit is made or lost; a creative never gives back
  more than it cost; in the end the owner has paid for what came out; an outcome
  stands; no slide stays in flight; the vendor is paid within the cap and the rows say how
  much; only frames that passed are sent, in order.
* ingest and turn: one row and one job for a message, none without the other; an inbound
  message is answered once, bursts included.
* versions and publishing: one approved version of a creative is posted, the one that was
  seen, with its picture; nothing unapproved, nothing twice; a login is dropped only if
  it is dead.
* inbox: the owner's tap is the gate; what they type is a reply only after Edit.
* nudges and plan: one a day, inside the window, never after "Not today"; what was made
  stays made.
* media and brand kit: a photo is stored once, a stated colour stays, an import that is
  run again completes.
* layout and vendors: every call ends within its time, a death of the browser is survived,
  a picture has the shape of its window.

`PROJECT.json` lists the hazards at the lines where they bite, with the properties
that would catch them.

## 2. Modules

| module | what it is |
|---|---|
| `JobLifecycle` | abstract: what the queue promises about one job, with no Redis, rows or workers |
| `JobQueue` | the queue in detail: one step for each transaction, Redis command or handler outcome |
| `CreditAccount` | abstract: what the billing promises the owner |
| `CreativeBilling` | generate, the ledger, the reaper of stuck creatives and the turns that call them, for one account |
| `Conversation` | ingest of an owner's messages, their jobs and the turns that answer and stamp them |
| `Revisions` | the versions of a brand's creatives, their rows, their pictures in the bucket, the owner's taps |
| `Publication` | extends `Revisions` with the publisher, interleaved with everything there |
| `Slides` | one call of generate after its charge: its coroutines, vendor calls, costs and delivery |
| `PhotoSlides` | what is decided of the owner's photographs before the charge, and what is built of it |
| `FinalCheck` | the final look at one slide in full, where `Slides` has one step of it |
| `Session` | what webhook, inbox and nudges of one owner share: windows, state, preferences, jobs |
| `Inbox`, `Nudges` | the Instagram inbox and the ideas offered unasked, both over `Session` |
| `Outreach` | the two side by side, over one session and one pool of workers |
| `Pillars`, `Planner` | the arithmetic of a month's mix; the plan that turns read and write whole |
| `Login`, `Insights` | Instagram logins and the sweep; overlapping syncs, re-reading, ranking and taste |
| `Frames`, `Boxes` | the sizes a picture goes through; plates and products on a frame |
| `Vendor`, `Browser` | one call of an image provider; the renders of a shared Chromium |
| `Onboarding`, `Media` | imports of a brand's folder; photos, voice notes, logo and colours |
| `JobQueueProofs`, `CreativeBillingProofs`, `ConversationProofs`, `PublicationProofs`, `SlidesProofs`, `OutreachProofs`, `MediaProofs` | theorems about the module each is named for |
| `PartsProofs` | theorems about the parts that `MCParts` runs: `Login`, `Boxes`, `FinalCheck`, `PhotoSlides`, `Vendor`, `Browser`, `Onboarding`, `Planner`, `Insights` |
| `MCJobQueue`, `MCCreativeBilling`, `MCConversation`, `MCPublication`, `MCSlides`, `MCOutreach`, `MCParts` | constants for TLC |

How they are composed: with one instance `JobQueue` implements `JobLifecycle`, checked and
proved, and every other module uses jobs as `JobLifecycle` has them instead of composing
with the whole queue; for `Conversation` that is itself checked and proved (`JobsAsPromised`).
`CreativeBilling` is checked to implement `CreditAccount`. `Publication` extends
`Revisions`, `Outreach` extends `Inbox` and `Nudges`, which extend `Session`, and
`Planner` extends `Pillars`. `MCParts` puts the parts that share no state with the rest in
one run: a behaviour picks one of them at its start and the others stand still.

Operators named `X_Something` directly before a definition `X` are mutants: `X` as a
plausible bug would have it. Each names what it gets wrong; a property is listed in a
passing run only with a mutant that TLC finds violating it.

### JobQueue

`row[j]` is the row of job *j* (jobs are identified with their dedupe key): `status`,
`attempts`, and three timers that `Tick` counts down: `dueIn` (scheduled_for),
`youngFor` (created_at against STALE_QUEUED) and `staleIn` (started_at against
STALE_RUNNING). `list[j]` counts envelopes on the Redis list, `delayed[j]` is the score
of the one in the delayed set (a sorted set keeps one per envelope). `wk[w]` is what an
instance holds in memory, with its place in the code:

| step | code |
|---|---|
| `AddJob`, `PushJob` | `add_job` in the caller's transaction, `push_job` after the commit (`enqueue` is both) |
| `Promote` | the Lua script `_PROMOTE` |
| `ReapRead`, `ReapPush`, `ReapCommit` | `reap`: its reads and the pushes of stale queued rows; the pushes of stale running rows; its commit, a write by primary key of statuses decided at the read |
| `Dequeue`, `BuryUnknown`, `Claim`, `Skip` | `run_once` and `_claim`'s conditional UPDATE |
| `HandlerReturns`, `RetryLater`, `HandlerExhausted`, `Finish` | the handler's outcome, `retry_later`'s push before the row is written, `_finish` |
| `LoseWorker` | a crash, or an exception that the loop swallows: memory is gone, the row stays |
| `Tick` | time; a handler runs for at most MAX_RUN ticks |

### CreativeBilling

`ledger` maps every idempotency key to the delta entered under it, 0 for none: a key is
the reason, the creative (and the slide of a stuck one) or the payment. `status[g][s]`
and `billed[g]` are the creative rows of the group that one attempt at one request
makes, `fresh[g]` the time until they count as stuck. `req[r]` is the job of a request,
abstracted to what `JobLifecycle` allows: claimed, claimed again STALE_RUNNING later if
nobody finished it, dead after MAX_ATTEMPTS.

| step | code |
|---|---|
| `BeginTurn`, `Answer`, `GiveUp` | the message job around `run_turn`; `Answer` is `_mark_answered` and `_finish` |
| `Gate` (twice), `TurnDown` | `in_flight_gate` before the layout work and in the charging transaction; every other refusal before the charge |
| `PayAndStart` | rows and charge in one transaction, or rows failed when credits are short |
| `SlideReady`, `SlideBad`, `Gathered` | `_build_one` under `gather(return_exceptions=True)` |
| `MarkFailed`, `GiveBack` | one transaction for each bad slide, then one for the refund |
| `ReapRead`, `ReapCommit` | `reap_stuck_creatives`, its read and its commit |
| `Topup` | `apply_payment`, any number of times for a payment |
| `Crash`, `ToolError` | the worker is lost; a transaction is refused, `dispatch` swallows it and the turn still answers |

A charge or refund locks the account row to the end of its transaction, so each is one
step; whatever is read without a lock is a step apart from the write it decides.

### Conversation

`log` is the `messages` table of one owner in the order of `created_at`. Postgres'
`now()` is the time the transaction began, so `Arrive` gives a message its place and
`Store`, the commit, makes it visible: rows may appear before rows that were already
read. A row is an inbound message or an outbound one, and its session. `answered` is the
set of messages with `answered_at`; `live` and `open` are the newest session and its
24-hour window. `wk[w]` is a turn: the messages its reply will stamp (`covered`), the
ones the model is asked (`asked`), what it has sent and said so far. `replies` and
`unstamped` count what happened and guide no step.

| step | code |
|---|---|
| `Arrive`, `Store`, `Drop` | `ingest`: message, session and job in one transaction, or none of it after the 200 has gone out |
| `Redeliver` | the same message again: the session is touched, `record_message` finds the row and no job is added |
| `Expire` | 24 hours without a message |
| `Claim`, `Raise`, `Finish`, `Reap`, `Crash` | `run_once` and `reap` as far as `JobLifecycle` goes |
| `Read` | the first transaction of `run_turn`: skip, or `_covered` and `_history` |
| `Line` | a tool that sends: the budget of lines, the window, the mirror row |
| `ModelFails`, `Reply`, `Sorry` | `_loop` and the `except` branch: `send_text` kept back by a closed window, accepted, refused (which the turn cannot tell from accepted), or raising |
| `RecordOutbound`, `MarkAnswered` | the mirror row and the stamp, a transaction each, whose failures are swallowed |

### Revisions and Publication

`brief[b]` is a brief's row with its parent, `row[b, s]` the Creative of each of its
slides: status, the key of its picture and the lane it was made in, its card, `expires`,
whether the owner tapped. `bucket` is what the bucket holds, `storedOn` the day it was
stored there. A revision shares its parent's pictures, so several rows name one key, and
the lifecycle rule deletes by the age of the object and not of the row. `wk[w]` is a turn
that makes or revises, `pub[w]` a call of the publisher; an instance does one of them.

| step | code |
|---|---|
| `Create`, `CreateUnpaid` | `save_brief`, the rows and the charge, or rows failed for want of credits |
| `Revise`, `SaveRevision`, `ReviseRefused`, `Redo`, `SaveRedo`, `RedoRefused` | `recompose` and `regenerate_image`: the parent read, the child saved later, over a parent that may have gone on |
| `SlideReady`, `SlideBad`, `MarkFailed`, `EndMaking`, `Reap`, `Crash` | the slides of the child, what fails of them, a worker lost |
| `RequestApproval`, `Tap` | the buttons under a version and `mark_approved`, which may come any time later |
| `DayPasses`, `Sweep` | days, and the bucket's lifecycle rule |
| `Gate`, `Facts`, `ContainerFails`, `Post`, `Permalink`, `NoPermalink`, `Record`, `PubCrash` | `_publish_to_instagram`: the gate over the rows, the Publication row, the containers, the publish call that cannot be undone, and the row afterwards |
| `Connect` | the owner connects again after the login was found dead |

`excess` counts calls that ended without their record or began beside another one:
`PostedOnce` says that only they can repeat a post.

### Slides, PhotoSlides and FinalCheck

`Slides` is the inside of `generate` once it has charged: `task[s]` is the coroutine of
slide *s* at one of its awaits, with the picture and frame it holds, its attempts, what
it has spent and which exception it raises; `row`, `spent`, `bought`, `passed`, `sent` and
`order` relate what the rows say to what happened. A coroutine changes shared state (the
register, the delivery, the semaphore) only between its awaits, so each step is one
stretch of code from await to await.

| step | code |
|---|---|
| `Vendor`, `VendorFails`, `ShapeRefused`, `Picture` | the vendor under `IMAGE_CONCURRENCY`, its outage, a shape it cannot make, the fallback vendor |
| `Inspect`, `Unreachable`, `Rejected`, `Accepted` | `_generate_checked` and `bggate`: the attempts, the budget, the inspector that does not answer |
| `Register` | `_register_or_reroll`: a picture that repeats an earlier slide's is made once more |
| `Compose`, `FinalLook`, `SecondLook`, `NotGood` | `_final_check` as one decision: as it is, rearranged, one more picture, refused |
| `StoreSlide`, `Deliver`, `Send`, `Flush`, `Gathered`, `Settle` | the row with its cost, `_Delivery` that sends in order, `gather`, the closing of the call |

`PhotoSlides` is the part of `generate` before the charge that concerns the owner's
photographs: `MatchPhoto` (which photo a slide gets), `SetTemplate` and `ChooseLayout`
(the layout of the brief and of each slide), `MeasureLayouts` (what each layout leaves for
the photo), `ResolutionGate` and `ProductGate` (which move a slide to another layout or
refuse) and `BuildOne` (what is made of it). The hazard is that layout, report and the
switch told to the owner are three pieces of state changed at five places. After the charge
`product_background` may fail; then the photo of a cut product is used whole (`UsedWhole`), which
no gate has measured: `uncut` records such slides, the only ones that may fail for their size.

`FinalCheck` is one slide's `_final_check` with nothing left out but the pixels: `Measure`
makes of the measurements faults and repairs (`FaultsOf`, `RepairsOf`, `Score`), `Try`,
`VariantMade`, `RenderFails`, `LadderEnds` climb the ladder of free layouts
(`best_free_variant`), `Inspect1`, `Inspect2`, `InspectionUnavailable` and `Settle` are the
inspector's two looks with the second ladder between them, `BuyAnother` the picture that
may be bought.

### Session, Inbox, Nudges and Outreach

`Session` has the newest WhatsApp session, its window, and the two JSON columns that are
read and written back whole: `state[s]` (a pending edit, the ideas offered and when) and
`prefs` (when ideas resume, the checklist). `queue` holds jobs, `wk[w]` the job an
instance runs with what it has read, `hook[h]` a message that the webhook is taking in.
Starlette runs each webhook's `ingest` in a thread of its own, so several are under way at once,
and every SELECT and UPDATE of theirs on those columns is a step:

| step | code |
|---|---|
| `InboundRead` | `touch_session`'s SELECT, which locks nothing, and `_carry_over` for a window that has closed |
| `InboundAgain` | another message has opened the next session: the insert fails and that session is read |
| `InboundPrefs` | "Not today" reads the brand, the session's row being locked by the UPDATE before it |
| `Inbound` | from that UPDATE to the commit: the window, the edit taken or dropped over what was read, the snooze, the job |
| `WriteState`, `WritePrefs` | a worker writes back what it read before, with its change; a locked row makes it wait (`Unlocked`) |

Nothing guides a step by them, but the properties go by what the following note: `stale` and
`stalePrefs`, writes of a state or of preferences that had changed since they were read;
`crossed`, messages taken in on an edit, or in a session, that had changed since.

`Inbox`: `Record` (the webhook of Instagram); `NotifyRead`, `NotifyDraft`, `NotifyWrite`,
`NotifySend` (`ig_event_notify`: the status is read, the model drafts, the status is read
again without a lock, the draft is written over whatever the event is by then); `Tap`; and `ActQuick`,
`SkipRead`, `SkipWrite`, `ActRead`, `ActPost`, `ActRecord` (`ig_action`: a Skip reads the status
twice and writes in a step of its own, a Send reads it, posts and writes). `extra` counts what may
have made a reply too many, `beside` the events that two runs of the notify job both found new
before either had written. `Nudges`: `ScheduleDaily`, the turns
that offer or take up ideas (`TurnRead`, `TurnActs`, `TurnWrites`), the daily job
(`DailyCheck` to `DailyRecord`, with the checklist and the week's line-up) and the
festival's (`FestivalSweep` to `FestivalRecord`), each with its key, its re-check of the
window and its "Not today". `Outreach` interleaves them, with jobs lost and run again.

### Planner and Pillars

A plan is one JSON column. `BuildRead`/`BuildCommit` build a month, `MarkRead`/`MarkCommit`
close the slot of a post that was made, `SuggestSlot`, `MakeOffered`, `NotMade` are what
happens between; `overwritten` notes what a commit replaced unread, which is the one
excuse `MadeStays` knows. `Pillars` is the arithmetic of the mix (`Counts`, `NextPillar`,
`WeightedPillars`).

### Login and Insights

`Login`: the OAuth callback (`Exchange`, `Connect`), tokens that die at Meta, and the calls
that find out (`BeginPost`, `RefreshToken`, `BeginSync`, `BeginAside`, `SaysDead`): the
token is read, Meta is asked outside any transaction, and the answer is written by the
row's id (`Disconnect`, `Succeed`). `Sweep`, `TakeSync` and `EndSync` are the hourly sweep
with its key per day. `Insights`: `SyncBegins`, `SyncReads`, `SyncWrites`, `SyncEnds` of
overlapping syncs, `ReadDue` (the older a post, the seldomer it is read), and as
operators `SequelFor`, `Suggest` and `TasteOf`.

### Media and Onboarding

`Media`: jobs for photos, notes and texts on several instances (`TakeJob`, `TakeRunning`,
`Lose`); `PhotoBegins`, `PhotoDecided`, `PhotoStored`, `LogoStored` (`handle_image`, where
whether it is the logo depends on the webhook, the brand and what the owner said since);
`NoteBegins`, `NoteTranscribed`, `NoteStored`, `NoteUnheard`; `TurnBegins`, `TurnSaves`,
`TurnEnds`, which cover earlier messages and record colours. `Onboarding`: a run reads what
is stored (`BeginRun`), reads folder and models for minutes (`Decide`), writes files and
kit in one transaction (`Import`) and the style anchors after it (`Anchor`, `NotAnchored`);
runs overlap, end early and are repeated.

### Browser, Vendor, Frames and Boxes

`Browser`: the module's handle, the lock around a launch (`GetLock`, `LaunchBegins`,
`Launched`, `LaunchFails`), deaths of Chromium under a page (`Crash`, `CaughtMidCrash`,
`PageCrashes`) and the second try (`CrashesSurvived`), `LayoutRefused`, `Laid`, and the
rounds of plates until words can be read (`PlateAlpha`, `ReadFrame`). `Vendor`: one call with
its POSTs, polls and downloads under `BUDGET_S` (`Submitted`, `SubmitLost`,
`SubmitRefused`, `GetLost`, `PolledEarly`, `PolledReady`, `Fetched`, `OverBudget`).
`Frames`: `GenerationSizeForBox` and what each vendor makes of it, `SizeFault`, `FitPhoto`,
`FocusCrop`. `Boxes`: `KeptOff` (a plate pulled back off the product) and `FreeRect`,
`Place` (where a product is stood).

## 3. Runs

| run | instance | what it shows |
|---|---|---|
| `queue` | 2 instances, 1 job, 3 attempts, 2 faults, list of 2 | attempts are handed out once (`DistinctAttempts`), no job is given up early (`DeadOnlyWhenExhausted`), without faults one instance at a time holds a job (`FaultFreeExclusive`), every job ends (`EventuallySettled`) |
| `queue_lifecycle` | 1 instance, 2 jobs, one of an unknown kind, 2 faults | the queue implements `JobLifecycle` step by step and brings every job to its end, the one that no handler serves too (`ImplementsLifecycle`) |
| `billing_safety` | 2 instances, 2 requests, carousel of 2, 1 payment, 1 fault outside marking and refunding | refunds stay within the charge, the owner has paid for what came out (`PaidForWhatShipped`), outcomes stand, the ledger implements `CreditAccount` |
| `billing_retries` | 2 instances, 1 request tried twice, carousel of 2, 2 faults anywhere | everything is settled in the end (`EventuallyAllSettled`) |
| `billing_torn` | 1 instance, 1 request, 1 fault anywhere | a disagreement, see below |
| `conversation` | 1 instance, 2 messages, 2 attempts, 2 sessions, 2 faults of any kind, 2 lines before the reply, a history of 3 rows | a message is answered again only for a lost stamp (`AnsweredOnce`), what a turn stamps the model was asked (`StampedWasAsked`), a turn asks something unless outbound rows have pushed its message out of the history (`AskedUnlessOutrun`), one failure costs no other answer (`OneFailureSurvived`), the jobs are `JobLifecycle`'s (`JobsAsPromised`), every stored message is handled (`EventuallyHandled`) |
| `publication` | 2 instances, 2 slides, one of a photograph, 2 briefs, 1 day, 1 fault, 2 calls of the publisher | nothing goes out that was not tapped (`PostsWhatWasTapped`), a post is repeated only for a call lost before its row (`PostedOnce`), pictures are there as long as the rows say (`PicturesKept`), a revision leaves what the owner was shown (`OutcomesKept`) |
| `revision_lane` | 1 instance, 3 briefs, no faults | a disagreement, see below |
| `slides` | 2 generated slides, 2 looks, a picture at 3, an inspection at 1, a budget of 8, 2 attempts, 1 paid retry, 1 lane | the vendor is paid within the cap (`PicturesWithinCap`), rows tell the cost (`RowTellsTheCost`), only frames that passed are sent (`OnlyPassedFramesShip`), once and in order (`SentOnceInOrder`), the call ends (`EventuallyAnswered`) |
| `inbox` | 2 instances, 1 event, 3 messages of which 2 may be taken in at once, 1 fault | one reply but for a record lost or written over (`RepliedOnce`); what Send posts was shown, unless the event was drafted twice at once (`DraftShownIsPosted`); a message becomes a reply that was not asked for only after a write that brings an old edit back, or when taken in beside the one that changed the edit (`HijackOnlyByOvertaking`) |
| `nudges` | 1 instance, days 0 to 3, a festival, 2 sessions, 2 messages that may be taken in at once, 2 faults | one idea a day (`NudgedOnce`), ideas survive a new window (`IdeasKept`), "Not today" is kept (`QuietAfterNotToday`) |
| `parts` | each part on its own, see below | nine properties, most of them of several parts |

The properties of `parts`:

| property | part and instance | what it says |
|---|---|---|
| `PlansAsPromised` = `MadeStays`, `ArcsCovered` | Planner: 2 instances, 2 months of 8 days, 3 festivals, 2 kinds of request, 3 turns | what was closed as made stays so unless overwritten unread; a festival's approach is in the month it falls from |
| `DroppedOnlyWhenDead` | Login: 1 instance, 1 user, 2 tokens, 1 fault | a login is dropped only when its token or the one asked with is dead |
| `NumbersKept` = `NumbersKeepComing`, `StampsHonest` | Login with its sweep; Insights: 2 syncs, 1 post, 3 days | a live login is read again before RESYNC and a day have gone by; numbers are no older than their stamp |
| `FaultsSurvived` = `BlipsSurvived`, `RendersAsPromised` | Vendor: 3 vendors, 4 blips; Browser: 2 renders, 2 deaths | a call that its tries and its time allow is not lost; one browser, one death survived, and a frame that is readable or beyond help |
| `ImportsComplete` = `HouseStyleWhole`, `ReRunCompletes` | Onboarding: 2 staff, 3 files, 2 runs, 1 outage | while no two runs overlap the kit counts every reference with an anchor; a run to which everything answered leaves its folders stored and anchored, whatever earlier ones left half done |
| `MediaAsPromised` = `OwnColoursKept`, `StoredOnce`; `LogoAsAsked` | Media: 2 instances, 3 messages, 1 loss | a stated colour stays; no logo after "no logo"; a photo is stored once and a note paid for once but for second runs |
| `SlidesAsPromised` = `PhotosAsPromised`, `FinalCheckAsPromised` | PhotoSlides: 2 slides, 2 photos; FinalCheck: 4 measures, 4 sets of objections, 2 variants, 1 purchase | what was measured is what is built, a photo that was read fails for its size only where its studio failed, and what passed is what leaves the final look |
| `ComputedAsPromised` | Pillars: every goal, 0 to 31 days; Frames: two widths, heights from 502 to 1347 in fives; crops of photos up to 12x12; Boxes: every box of a 4x4 frame; Insights: up to 3 posts, 3 votes | the mix, the frame, the crop, the plate, the sequel, the ranking and the taste against what each is said to be |

Composite properties are there because the parts share a run; the conjuncts are stated and
named in the parts' own modules.

The bounds are the smallest in which the interesting cases happen. Two instances are
enough for a read of one to be overtaken by a write of the other, and reapers, claims
and builds all meet in pairs. Two slides give none, some and all of them bad, in every
mix of paid and free. Two faults lose a worker and then its successor, or a push and the
worker that would have repaired it. Three attempts tell the first, a middle and the last
apart. Two envelopes of one job are what one leftover and one live delivery need; a
third adds a second leftover that `Skip` drops like the first. Timers keep the order
the code's constants have and its tests assert (`tests/test_timing_windows.py`: the
slowest job < STALE_RUNNING < STUCK_AFTER). `PaidForWhatShipped` and its companions are
stated under `Timely`, that same assertion, and `FaultFreeExclusive` under a handler that
fits STALE_RUNNING; the other invariants of the queue are proved without it.

In `conversation` two messages make a burst, in either order of commit, within a session
or across two; two faults lose a reply's row and then its stamp, or the model and then
the apology. Two lines sent with SAY_BUDGET = 1 (2 in the code) fill the budget before the
apology, and are both of a turn's own kinds: one that counts against it and one that, like the
images of a carousel, does not. HISTORY_LIMIT is 3 (24 in the code) and is meant to be small: nothing in
the code bounds the rows a turn sends, so whatever the limit, turns can outrun it, and the run has to
reach that case. With 3 the rows of a failed attempt, or of another message's turn, push a
message out of the history; `AskedUnlessOutrun` says that nothing
else can, and the excuse `Outrun` counts just the outbound rows behind the message. The run has one
instance because "ONE worker is one job at a time" (`render.yaml:26`) and because with two
a burst is answered twice by the code's design: both turns read `answered_at` before
either writes it. The module takes any number.

In `publication` two briefs are a version and its revision; one day is what a TTL of one
needs for the parent's pictures to expire under the child. In `slides` two slides collide in
one look, wait for one lane, and one overtakes the other in the chat; a budget of 8 pays
for two pictures at 3 with their inspections and not for a third, which the paid retry then
meets. In `inbox` two
instances run the notify job twice, or a Skip against a Send; one fault is what a second run
takes; an Edit and two messages beside each other are the three. The stale write that
`HijackOnlyByOvertaking` also excuses takes a fourth message; with MAX_MSGS = 4, one instance and
no fault TLC goes through 870,922 states, finds the property to hold, and both its excuses to be needed.
In `nudges` four days hold the lead of the festival, the festival, and a snooze
that ends between. In `parts` a vendor's four blips exceed its three tries; two deaths
exceed the one that is survived.

The queue and the billing do not deadlock: `Tick` or a top-up is always possible once the
workers are idle, and a worker that holds something can always go on. A conversation, a
call of generate, a day of an inbox and each of the parts stop when their work is done, so
these runs do not check for deadlock.

### Fairness

A worker that has begun something goes on with it (weak fairness of its next step: the
process is running, and losing it is a fault, of which there are finitely many). The
loop of `main` comes round to promotion every 20 s, to both reapers every 30 s and to
BRPOP each time, whatever the other chores do in between, but the condition for a chore
may come and go: strong fairness of each chore, for some worker rather than each, since
one that visits is enough. BRPOP takes from the other end of LPUSH, so no envelope is
passed over for ever: strong fairness of dequeuing each job. Time passes: weak fairness
of `Tick`. Nothing is assumed of handlers but that they end within MAX_RUN, which the
vendors' timeouts and the gate's budget give; nothing of top-ups; nothing of `AddJob`.
In `Conversation` an instance goes on with its turn (weak), no queued job is passed over
for ever (strong, for some instance) and the reaper comes round (weak): what the queue's
own fairness gives a job. Nothing is assumed of the webhook.

In `Slides` the event loop goes on with every coroutine that can run (weak fairness of
each step of each slide), and a waiter of the semaphore, which asyncio wakes in order, gets
its turn (strong fairness of `Vendor` for each slide, since the lane is taken and freed
again while it waits). The delivery's flush, `gather` and the closing of the call are weakly
fair for the same reason. Nothing is assumed of the vendor but that a call ends, which
`Vendor` shows of the providers' own clocks. The other modules state safety only.

### Disagreements between the code and what is said of it

Two runs check one sentence of the repository each, and TLC finds a behaviour of the code
against it.

| run | the sentence | what happens |
|---|---|---|
| `billing_torn` | `README.md:230`, `queue/worker.py:6`: what did not ship is refunded | a worker lost between `_mark_failed` and `_refund` leaves a slide charged, failed, and out of the reaper's sight |
| `revision_lane` | `creative/pipeline.py:2575-2580`: the row records the lane its picture was made in, and revisions read it | the rows `recompose` inserts keep the picture and not the lane; the next revision takes a made picture for a photograph or the reverse |

More such sentences are stated in the modules as properties that TLC refutes; to see the
behaviour, name the property as an INVARIANT of the module's configuration (a PROPERTY
where it is temporal).

| property | module | the sentence | what happens |
|---|---|---|---|
| `OneInstancePerJob` | `JobQueue` | `render.yaml:28`: two instances can never run the same job | two reapers read a stale row; one commits, a worker claims the job, the other's unconditional write (`queue/client.py:232`) queues it again while it runs |
| `OneCreativeAtATime` | `CreativeBilling` | `creative/pipeline.py:730-734`: the loser walks away before a credit moves | the second gate reads without a lock; both transactions find nothing and both charge |
| `PaidOncePerRequest` | `CreativeBilling` | `billing/credits.py:5`: every charge is keyed because retries are normal | the key is made anew in each attempt (`pipeline.py:804`); a retry after the picture was stored pays again |
| `BusyMeansBeingMade` | `CreativeBilling` | `db/repo.py:335`: these statuses mean a worker is making it right now | after a crash the retry meets its own dead rows and the owner is told a picture is on its way that nobody makes |
| `AskedOnce` | `Conversation` | `agent/runner.py:124-126`: answering again would repeat the reply and a charged tool call | a message that arrives while another one's turn runs lies before that turn's reply; its own turn drops the reply from the end of the history and asks the model both |
| `NoSlideRepeatsAnother` | `Slides` | `creative/pipeline.py:2513-2516`: the earlier slide keeps its picture, the later tries again | each looks only at the slides before it: the later one registers first, and the earlier one then takes the same look |
| `OutagesTellTheCost` | `Slides` | `creative/pipeline.py:2402-2404`: a refusal still shows what it cost | an outage while the final look buys its picture carries what the pictures cost and not the looks the slide had paid for |
| `FestivalOffered` | `Nudges` | `insights/festival_push.py:225-226`: each owner gets one offer per festival | the key is the festival's and is taken once: a run that finds an idea sent in the last 6 hours, or a closed window and no template, sends nothing and none comes after it |
| `PicturesUntilExpiry` | `Revisions` | `creative/pipeline.py:1131-1144`, `1401-1413`: the row's expiry is asked before a picture is reused | a revision shares its parent's object and has an expiry of its own, later than the object's end |
| `AskedSomething` | `Conversation` | `agent/runner.py:84-103`: what is kept of the rows ends in the owner's turn | HISTORY_LIMIT outbound rows behind a message, of a failed attempt or of another message's turn, leave none of the owner's |
| `NeverHijacked` | `Inbox` | `channels/whatsapp/ingest.py:171`: an edit cannot hijack a later reply | a turn that read the state before the edit was taken writes it back; or two messages are taken in at once, both read the edit, and both are the reply |
| `LiveLoginKept`, `PostsToLatest` | `Login` | a login is dropped when it is dead; posts go to the account connected last | an answer about the old token drops the row that was connected since; connecting a second account leaves the first connected |
| `EveryWindowHasFrame` | `Frames` | only a window that is too short has no frame | 892x887, 1080x1075 and others just off a square are covered by no two multiples of 16 within tolerance |
| `OneOrderPerCall` | `Vendor` | `creative/imagegen/providers.py:295`: nothing has been generated when a POST is retried | the answer may be lost after the order was taken |
| `ScreenedFirst` | `Onboarding` | `scripts/onboard_brand.py`, `screen_folders`: what is on file was screened by the run that stored it | that run may have had no model to ask |
| `NoteHeard` | `Media` | a note with a transcript was answered by a turn that had it | a text's turn covers it before it is transcribed, and its own turn is skipped |
| `NumbersNeverGoBack`, `OneOpinionOnWords` | `Insights` | a reading replaces an older one; a brief counts once | the sync that read first may write last; a brief once rewritten counts as that whatever the later taps |
| `FreeRectLargest` | `Boxes` | `_free_rect`: the largest rectangle that is clear | each keep-out is cut off by itself, greedily |
| `FailedStudioKeepsSlide` | `PhotoSlides` | `creative/product.py:493-494`: "any failure here means "use the photo whole", not "lose the slide"" | the gate for photos used whole passes over a product that was cut (`pipeline.py:1778`); its studio fails after the charge, its photo is used whole (`pipeline.py:2614`), is too small (`compose.py:1364`), and the slide is lost |
| `NeverAThumbnail`, `PhotoUsedOnce` | `PhotoSlides` | `generate`, `_resolve_photos`: a product is never a thumbnail, a photo is used once | the gates cannot speak of a photo that was not read; two slides may ask for one photo |

Without the exceptions that `DraftShownIsPosted` and `RepliedOnce` name TLC refutes both: two runs of
the notify job both find the event new, the later commit replaces the draft on the owner's
phone, and Send posts it, although the second read is there not to "overwrite"
(`queue/handlers.py:345`); a Skip writes over 'sent', after which a tap on Send is no "no-op"
(`queue/handlers.py:413`).

Others concern a sentence more than a state, and have no property: a reference the owner
names is ignored beyond the newest 60 photos or under 800 px, though `photoref` says it
always wins; a skip after a reply was sent still confirms "nothing was posted"
(`queue/handlers.py:404-411`); `daily_suggestion` stores its ideas without
`suggestions_at` when the session is a new one; `paid_attempts`
(`creative/pipeline.py:93-107`) does not count the paid retry; an event left 'new' by a closed
window is never shown again; the checklist and the week's line-up are marked sent before
they are sent; festival posts do not "move to the nearest posting day" (`plan.py:240`);
closing a slot closes whatever idea holds its date after a rebuild; a dead page ("Target
crashed") is not among the messages of `_is_browser_death`; a brand update may say "Nothing
was saved" after part of it was (`agent/tools.py:811-822`); onboarding exits with 0 when no
embedding or vision key is set; overlapping imports leave references out of the kit for
good; the crop's far corner may lie one pixel outside the photo; two logos at once may
overwrite each other (`queue/handlers.py:165-169`); the corrections of the gates may say a
sentence twice; a picture bought in the final look that fails to compose tells no cost.

## 4. Proofs

All proofs are for every value of the constants that the modules' `ASSUME`s allow: any
number of instances, jobs, requests, slides, faults and timer values.

**`JobQueueProofs`.** `TypeCorrect`: `TypeOK` is inductive. `AttemptsDistinct`:
`DistinctAttempts` is inductive with `TypeOK`; the heart is that only `Claim` hands out an
attempt, as the row's count plus one, and no other step touches `attempts`, so a holder's
number stays at or below the count and a new one is above all of them.
`NoneGivenUpEarly`: `DeadOnlyWhenExhausted` needs to know of the two places where
"dead" is decided before it is written: an instance about to write it has an attempt of
at least MAX_ATTEMPTS, and so has every row in a reaper's list of jobs to bury; counts
only grow, so a late write is still right. `ExclusiveWithoutFaults`: while no fault has
happened a held job is "running" and its timer and its handler's clock add up to
STALE_RUNNING, so while MAX_RUN < STALE_RUNNING no reaper sees it as stale, every
reaper's lists are empty, and `Claim` finds it taken. `OneInstanceKeepsLifecycle` is the
step part of the refinement, for one instance (`Lone`), which is what `render.yaml:26` runs; with two it is
false, since the reaper's write by primary key may take a job back that has ended. `LoneInv`
says why one is enough: what the instance has in hand when it writes - the job it claimed, the
rows its reaper read - is still what the row says; a row that waits has an attempt left;
and nothing is in Redis or about to be pushed that was never asked for. Each step of the
queue then moves each row as `RowStep` allows, and those moves are `JobLifecycle`'s.

**`CreativeBillingProofs`.** `TypeCorrect`: types are inductive together with `Turn`, that
whoever is past the claim holds a counted attempt of a request, so every charge and
refund is about a group of the table. The other three rest on `BooksInv`, which says that
a group's books are always in one of four conditions: *untouched* (no rows, no entries),
*unpaid* (failed for want of credits), *live* (charged for its billed slides, and given
back only by the reaper, only for slides that are billed and failed), *closed* (charged,
finished, the failed billed slides given back by generate). To be inductive it needs to
know of everyone who will act on what they know: who has not paid yet has an untouched
group (`Prepares`); a maker's group is live, its slides are what the maker remembers, and
its age and the maker's clock add up to STUCK_AFTER (`Makes`), which with
`MAX_RUN < STUCK_AFTER` keeps every reaper away from it; what a reaper has read stays old
and live until it commits, though another reaper may have failed it meanwhile (`Reaps`);
attempts not yet made are untouched (`Unused`); two workers never make the same attempt
(`Alone`). A step is then local: it touches its own group or none, and `Outside` shows
once that everybody else is undisturbed; only the reaper's commit reaches several groups.
`RefundsBounded`, `PaidAndShipped` and `OutcomesStand` follow. `PaidAndShipped` assumes
that no fault strikes between the first slide marked and the refund: with such a fault
it is false, which `billing_torn` shows. Every premise is named: `BillingConstants`
(requests and slides are finite, the numbers natural) and `Timely`.

`AccountKept` is the refinement: under `Timely` the module implements `CreditAccount`, an
abstract account in which a payment comes in once, a creative is bought once and only with
credits that are there, and what is given back for it never exceeds what it cost. The
mapping reads all of this off the ledger's keys: `Received`, `Bought` and `Kept`, the last by a
count of entries. A key names its entry (`KeysDiffer`), so a commit of entries that are new
changes the count of their own group and of no other, and `BooksInv` says that they
are new. The balance is a fold over all groups: `SumsExist`, `SumsTake` and `SumsChange` say
that the fold is defined, that any member may be taken out first, and that a change at one member changes
the sum by as much; `TotalSums` says that the fold of the community modules is that sum. Each commit
is then one entry of the account or none (`TopupAccount`, `PayAccount`, `GiveBackAccount`,
`ReapAccount`, `StillAccount`). The reaper's, which gives back slides of several
groups at once, is one entry that gives back to all of them.

**`ConversationProofs`.** `TypeCorrect` rests on `TypeInv`: a message whose ingest has
begun has a row, one with a job is stored, a busy instance is at a stored message and a
queued job has an attempt left. `StampsOnlyWhatWasAsked`: no step changes what a turn
covers and asks but its `Read` (`TurnKept`), and there the unanswered messages after the
last outbound row are in the last user turn of any history (`CoveredIsAsked`).
`RepliesAccountedFor` assumes `Alone`, one instance: `OnceInv` says that a reply not yet
matched by a lost stamp is matched by the message being stamped or about to be
(`Accounted`, `Due`), and that a turn whose reply is not out covers nothing answered
(`TurnInv`). `JobsKeepLifecycle`: a busy instance has a running job and has it alone
(`Held`), every step is one of five on the jobs (`JobStep`), and each of those is a step
of `JobLifecycle`. `TurnsAskUnlessOutrun` has no premise: `_history` keeps the last
HISTORY_LIMIT rows, so a turn asks nothing only if that many outbound rows stand behind its message
(`Outrun`). Otherwise the question is in the cut (`HistoryAsks`): among the rows behind the
message some inbound one is the last, fewer than HISTORY_LIMIT rows follow it, and the user turn it
ends is what the model is asked. Between the read of a turn and its end only that turn changes
what it asks, and rows behind a message stay behind it (`BehindStays`), so a message once outrun is
outrun for good (`LateStays`), which makes `Asking` inductive. The order in
which rows are committed, the other instances, the number of lines and the limit do not
matter. `AnswerSurvivesFailure` has one hypothesis, MAX_ATTEMPTS > 1 (it is 3,
`queue/client.py:38`): with one attempt a lost instance is the end. `Survives` holds until
the second failure: an attempt beyond the first is a failure that is already counted (`JobOk`),
a turn that comes to its end has told the owner something or stamped the message (`TurnOk`),
and a window that closes on a message in hand is a failure of the queue (`WindowOk`).

**`SlidesProofs`.** `Inv` is `Typed` and, for each slide, what keeps the three properties.
`Fits`: a coroutine that is about to ask the vendor has room for one more picture under
the cap, counting what both calls of `_generate_checked` and the final look have bought, so
that `SpendingCapped` follows although each call counts for itself. `RowFits`: the count of
this round, the count carried from earlier rounds and the looks add up to what was
spent, and an exception tells no more than that; `CostsTold` reads it off the row.
`ShipFits`: whoever stores or sends holds the very frame that gate and inspector let
pass (`PassedFramesShip`). `ChatInOrder` adds that the chat holds what was sent, each slide once
(`ChatInv`), and that in a set sent in order nothing goes out before all are built and what
waits comes after what was sent (`TurnInv`). Only the slide that steps is disturbed; the register and the
delivery are read and promise nothing that the invariant needs, which is why the order of
slides does not matter to it.

**`PublicationProofs`.** Everything rests on `Inv`. `RevInv` has the rows and the pictures: a tap
is on a version whose buttons were sent, and such a version has come out whole (`TapsKept`);
no two turns make the slides of one version (`MakersApart`); a row of a version's own picture
expires no later than the lifecycle rule may delete the object (`LivesAsLong`). `CallsTapped`:
a call of the publisher is for a version tapped whole, though the gate asked only about the
rows that were ready. That a slide still being made cannot slip through is `TapsKept`: the
slides of a version that has been offered are over. `Counted`: the posts of a version, plus the
calls that may still post, are within its excess, plus one if it is out or about to be. A
call that moves from one to the other, is lost, or meets another, shifts the terms, and
`CallStep` states once what a step may shift. `OnlyTappedGoesLive`, `NoPostTooMany`,
`EndedSlidesStay`, `PicturesStay` and `RevisionsTyped` follow.

**`OutreachProofs`.** `Typed`, with every task and every message taken in of a session that exists.
`SessInv`: until a write is stale or a message is overtaken, an edit that is pending is the owner's
last tap (`NoReplyHijacked`); until a write of the state is stale, an offer that is held is on the
newest session (`OffersStay`); until one of the preferences is, they say what the owner said
last (`SilenceKept`). What a hook has read is the state itself unless its commit will be
counted, and it holds its row from its first UPDATE on, which is what lets `InboundOk` follow.
`DraftsOk`: an event has one draft ever unless two runs of the notify job were at `note`
together, which puts it in `beside` (`OneNotes`), and a job for a tap on Send is of a draft that
was shown (`OnlyShownIsPosted`). `RepliesOk` and `NudgesOk` count as `Counted` does: what was sent, plus the
workers that are about to send (`AtPost`, `BeforeDaily`, `BeforeFestive`), within the excess plus one
if the day is used up or the event is answered or being answered; a Skip or a draft that takes
'sent' away pays for it in `extra` (`AnsweredOnce`, `OneNudge`).

**`MediaProofs`.** `OwnColoursKept` is inductive with the types: a merge keeps what the owner
stated in the brand it is made from, and one made from an older brand is the exception it names. `StoredOnce` needs a count: `MessageInv` bounds what was
stored and what was paid, plus the instances that may still store (`Storing`) or pay (`Paying`,
`Waiting`), by the runs of a second instance and the losses; an instance that is lost leaves the
count as its loss enters it. `LogosAsAsked` is an action property: whoever is about to write a logo had
taken the brand for one without, whose owner had not said no (`HandInv`), and a logo, once there,
and a no, once said, stay (`BrandGrows`).

**`PartsProofs`**, part by part.

* `Login`. `LoginInv` is what EXCEPT needs to know: a row for every account, with a token that was
  minted or none. `LoginsDroppedOnlyWhenDead` is an action property; only `Disconnect` takes a
  row down, by the id of the account its call had read, and only a call that `SaysDead`
  answered comes to it: the token it had asked with is dead, and is the row's or is not.
* `Boxes`. Algebra with no state: `PlatesStayUnderTheirWords` splits on the four sides a plate may
  be pulled back from; `CutsOnlyClear` says that each single cut is clear of its keep-out
  and lies inside what it was cut from, hence stays clear of earlier ones.
* `FinalCheck`. `LookKeepsItsPromises` is for any number of variants and purchases. `LadderInv`:
  the ladder counts what it has made, and the slide is out of its layout only for the time of
  a render. `PictureInv`: every frame in hand is of the present picture. `VerdictInv`: the
  verdict is the settled frame's, and a clean frame that passed is that one. `RungInv`: a
  ladder that is over has found a clean frame or gone as far as it may, without which a
  purchase could not be shown to be the last resort.
* `PhotoSlides`. `SlidesComeAsPromised` adds `PhotoInv`. A single post's slide and its brief name
  one layout (`SetInv`), a report is of the layout the slide is set in (`ReportInv`), and the
  gates go through the slides one by one, so what is known while a gate runs is about those
  it is over with, or that it will refuse (`GateInv`). `BuiltInv`: of the
  photos that were read only those in `uncut` fail.
* `Vendor`, `Browser`. `FaultsAreSurvived`. A try of a vendor is used up only by a blip
  (`VendorInv`). `LaunchInv`: at most one Chromium lives, the handle's, and none while one is
  launched under the lock. `DeathInv`, which carries the promise: while only Chromium
  itself has failed, launches, deaths and the handle agree, and a render on its second go is
  not on the first one's page. `Legible`: a plate is as strong as its words need, or as strong as
  a plate can be, after one reading.
* `Onboarding`. `ImportsEndWhole`. `AloneInv`: until two runs meet, one at most is under way and
  knows of every anchor. `RunInv`: what a run that was answered took from its folders is stored, or
  is on its list to be stored or read.
* `Planner`. `PlansStand`. `PlanInv` says of the plan and of each turn's copy of it that it is a
  whole sheet of its month with the arcs in it, and of a copy that it has all that was made in the plan it
  was made from; a commit over a plan that has gone on is what `overwritten` notes.
* `Login` and `Insights`. `NumbersComeAndAreHonest`. `ReadOnTime`: while no fault has come and no
  token has died, a day's sync is asked for once, ends on its day, and leaves a stamp of that day or
  of the part of a day before it, when a sync aside that had begun then ends last. That
  last clause was found by proving: without it the invariant is not inductive.

* What has no state: the computations of `Pillars`, `Boxes`, `Frames` and `Insights`, whose
  theorems are for inputs of any size. `MixKeepsShares`: what the pillars lack of their
  shares adds up to a hundred times what the days lack, so whichever `Nearer` picks lacks or
  exceeds a positive amount and stays within one post; rounding is off by two posts at most,
  and every turn comes one nearer, so the loops end with n; and the deal uses up just the
  counts. `ProductStandsClear`: the loop of `_free_rect` clears one more keep-out each time
  round and gives none back, by induction over the turns. `CropKeepsSubject`: a photo is
  cropped only where the subject fits, up to half a pixel, and the crop is then drawn to the
  subject and held inside the photo; the three roundings come to less than a pixel.
  `FramesAreTaken`: of any window that has a frame, OpenAI and BFL take the frame as it is,
  and what comes back covers the window unenlarged. The trim it proves is 4.005 pixels, not
  4, because the code compares a trim rounded to hundredths. The search is shown to have one
  best answer among finitely many candidates (`BestExists`, `LeastBy`). `BestIsFollowedUp`:
  the list is ranked, so stopping at the first post that fell short loses none that deserves
  a sequel. `BestReasonsFirst`: an idea's place is the number of ideas that go before it,
  places differ, and the three foremost are within the limit. `OwnerCountsOnce`: the loop of
  taste over the votes, newest first, has seen the briefs of the votes it is over with and
  holds one opinion of each. `ComputedPartsAsPromised` applies these to the run's inputs and
  states its `ComputedAsPromised` but for the mix of a month and the sizes of frames.

Induction over data, which these need, is had in one way: a set of numbers, or of subsets of a
finite set, on which a fact fails has a least member (`WFMin` of the library, with `NatLessThan`
or the strict subset, both of which it shows well-founded). The facts are stated of one set
at a time, since the schemas over all predicates cannot be instantiated here; a recursive
function or a fold is first shown to be one that obeys its equation.

TLC checked the invariants on the runs' instances first. What stays with TLC, and why:

* liveness under fairness: `EventuallySettled`, `EventuallyAllSettled`, `EventuallyHandled`,
  `EventuallyAnswered`, and the end of every job in `ImplementsLifecycle`;
* of `ComputedAsPromised`, that no two days in a row have one pillar (of `SpreadAsPromised`;
  the rest of it is `MixKeepsShares`): it is false of some mixes, and for the four of the
  code TLC goes through all the days that a month can have; and, of `FrameSuitsAll`, the
  whole 4 pixels of a trim and the shape that is named to Replicate;
* `NoteHeard`, `OneInstancePerJob` and the other properties that section 3 lists as refuted.

## 5. What is left out, and the plan

Inside the modelled parts: the Redis list is a count (its order matters to no property
and its FIFO discipline is kept as fairness); MAX_COPIES bounds it, which the code does
not; `limit(200)` and `limit(100)` of the reapers and of promotion are not reached; a
malformed envelope is dropped by the code and never produced by it; a crash of the web
process between commit and push is a lost push. In `Conversation` the handler begins at
`run_turn`; what precedes it for photos and notes is `Media`, what taps add is `Outreach`.
Each module's head names its own abstractions. In `Frames` trims are fractions, where the code
has doubles: a frame whose trim is exactly 4 pixels (1312x1312 for a window of 888x884) passes
`generation_size_for_box`, which rounds, and may be refused by `fit_background`, which does
not. No window as wide as the layouts' (892 and 1080) has such a frame.

Not modelled:

* of generation: `claim_gate` and the shot lists, which are functions of text; the slow
  notices, which read the clock and only say something; the video of a reel; prompts;
* of composition: reading pixels, the page's own script, the rounding of the free
  rectangle, reels; `compose.shutdown`, which the worker never calls;
* of sending: the bodies of the provider's requests;
* of vendors and storage: HTTP and encoding, the speech model;
* memory and grounding: embeddings and retrieval feed the prompt and change nothing the
  other components read; `Onboarding` has an outage of them as an outcome;
* the application shell: configuration, logging, migrations.

They keep no state that two actors share, and the models see them as outcomes.

What would come next, most important first:

1. `PhotoSlides` and `Slides` as one module, with the refinement that shows `FinalCheck` to
   implement the one step `Slides` has of it.
2. `AnsweredOnce` of `Conversation` with several instances: how often a burst may be answered when
   two turns of it overlap, as an excess like that of `PostedOnce`.
3. The claims and shot plan algorithms against a reference.
