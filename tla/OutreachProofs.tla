---------------------------- MODULE OutreachProofs ----------------------------
(***************************************************************************)
(* What the inbox and the nudges of one owner keep, for any number of      *)
(* instances, events, sessions and days, and however often jobs are lost   *)
(* or run twice.                                                           *)
(***************************************************************************)
EXTENDS Outreach, FiniteSetTheorems, SequenceTheorems, TLAPS

\* A turn is of the session that its message opened or found.
OfSession(j) == j.kind = "turn" => j.sess \in Sessions

\* A worker that is busy, but for one that answers on Instagram, has read a session.
TaskOk(t) ==
  /\ t.day <= MAX_DAY
  /\ t.pc # "idle" => OfSession(t.job)
  /\ t.pc \notin {"idle", "drop", "dropping", "post", "posted"} => t.sess \in Sessions

\* What a message starts from is what it read, or what of it is carried over.
IngestOk(i) ==
  i.pc # "idle" =>
    /\ SessionOf(i) \in Sessions
    /\ ~i.fresh => i.base = i.seen
    /\ i.fresh => /\ i.base.edit = NoEvent
                  /\ i.seen.ideas # "none" /\ i.seen.at # 0 /\ day + 1 - i.seen.at < IDEA_TTL
                       => i.base.ideas = i.seen.ideas /\ i.base.at = i.seen.at

Typed ==
  /\ day \in 0..MAX_DAY /\ sess \in Sessions /\ msgs \in Nat /\ quiet \in Nat
  /\ stale \in Nat /\ stalePrefs \in Nat /\ crossed \in Nat
  /\ open \in BOOLEAN /\ state \in [Sessions -> State] /\ prefs \in Prefs
  /\ queue \subseteq Job /\ wk \in [Workers -> Task] /\ hook \in [Hooks -> Ingest]
  /\ \A j \in queue : OfSession(j)
  /\ \A w \in Workers : TaskOk(wk[w])
  /\ \A h \in Hooks : IngestOk(hook[h])
  /\ event \in [Events -> [status : Statuses, draft : Nat]]
  /\ drafts \in Nat /\ posts \in [Events -> Seq(Nat)] /\ extra \in [Events -> Nat]
  /\ suggested \in Nat /\ held \in Nat
  /\ daily \in Nat /\ festive \in Nat /\ twice \in Nat

\* Until something is stale or overtaken: an edit is the owner's last tap, an offer that is
\* held is on the newest session, and the brand says what the owner said.
SessInv ==
  /\ stale = 0 /\ crossed = 0 => hijacked = {} /\ (state[sess].edit # NoEvent => armed = state[sess].edit)
  /\ stale = 0 /\ held # 0 /\ day + 1 - held < IDEA_TTL => state[sess].ideas = "festival" /\ state[sess].at = held
  /\ stalePrefs = 0 => prefs.snooze = quiet
  /\ \A w \in Workers : wk[w].hushed => stalePrefs > 0

\* A job of an event is of one that is recorded; a tap on Send is on the draft of its event,
\* which was sent to the owner and, unless two were written beside each other, is the only
\* one the event ever has.
JobOk(j) ==
  /\ j.kind \in {"act", "notify"} => j.event \in Events
  /\ j.kind = "act" /\ j.action = "send" /\ j.event \notin beside => <<j.event, event[j.event].draft>> \in shown

\* A tap that is taken in is on the buttons of a draft that was sent.
Tapped(i) ==
  i.kind \in {"send", "edit_prompt", "drop"} =>
    /\ i.event \in Events
    /\ i.kind = "send" /\ i.event \notin beside => <<i.event, event[i.event].draft>> \in shown

PostsAt(t, e) == t.pc = "post" /\ t.job.event = e
ActsOn(t, e) == t.pc \in {"post", "posted"} /\ t.job.event = e
AtPost(e) == {w \in Workers : PostsAt(wk[w], e)}

One(p) == IF p THEN 1 ELSE 0

\* What a job of the inbox knows of the draft of its event.
Drafting(t) ==
  /\ JobOk(t.job)
  /\ t.pc \in {"draft", "note", "offer"} => t.job.kind = "notify"
  /\ t.pc \in {"note", "offer"} => t.text # 0
  /\ t.pc = "note" /\ t.job.event \notin beside => event[t.job.event].draft = 0
  /\ t.pc = "offer" /\ t.job.event \notin beside => t.text = event[t.job.event].draft
  /\ t.pc \in {"drop", "dropping", "post", "posted"} => t.job.kind = "act"
  /\ t.pc = "post" /\ t.text # 0 /\ t.job.event \notin beside => <<t.job.event, t.text>> \in shown

ShownOk(p) == \E e \in Events, d \in Nat : p = <<e, d>> /\ (e \notin beside => d = event[e].draft /\ d # 0)

\* Two runs of the notify job that write an event's draft make it one drafted beside another.
OneNotes == \A v, w \in Workers :
  At(v, "note") /\ At(w, "note") /\ wk[v].job.event = wk[w].job.event /\ v # w => wk[v].job.event \in beside

DraftsOk ==
  /\ \A e \in Events : event[e].status \in {"none", "new"} => event[e].draft = 0
  /\ \A p \in shown : ShownOk(p)
  /\ \A j \in queue : JobOk(j)
  /\ \A h \in Hooks : Tapped(hook[h])
  /\ \A w \in Workers : Drafting(wk[w])
  /\ OneNotes
  /\ DraftShownIsPosted

\* What may still be posted is paid for by a run that is at it, or by an excess.
RepliesOk ==
  \A e \in Events :
    Len(posts[e]) + Cardinality(AtPost(e)) <= extra[e] + One(event[e].status = "sent" \/ Acting(e))

DailyPC == {"pick", "week", "line"}
DailyIs(t) == t.pc \in DailyPC \/ (t.pc \in {"record", "write"} /\ t.job.kind = "daily")
FestiveIs(t) == t.pc = "pitch" \/ (t.pc \in {"record", "write"} /\ t.job.kind = "festival")

\* The workers that will send one.
BeforeDaily == {w \in Workers : wk[w].pc \in DailyPC}
BeforeFestive == {w \in Workers : wk[w].pc = "pitch"}
DailyRuns == \E w \in Workers : DailyIs(wk[w])
FestiveRuns == \E w \in Workers : FestiveIs(wk[w])

\* A task at the step of a nudge has the job of that nudge.
OfNudge(t) ==
  /\ t.pc \in {"prefs", "pick", "week", "line"} => t.job.kind = "daily"
  /\ t.pc = "pitch" => t.job.kind = "festival"
  /\ t.pc \in {"record", "write"} => t.job.kind \in {"daily", "festival"}

\* What was or may still be sent is paid for by the one that is recorded or on its way, or
\* by an excess.
NudgesOk ==
  /\ \A w \in Workers : OfNudge(wk[w])
  /\ daily + Cardinality(BeforeDaily) <= twice + One(Recent \/ DailyRuns)
  /\ festive + Cardinality(BeforeFestive) <= twice + One(pushed \/ FestiveRuns)

Inv == Typed /\ SessInv /\ DraftsOk /\ RepliesOk /\ NudgesOk

-----------------------------------------------------------------------------
(* What the steps have in common. *)

LEMMA Types ==
  ASSUME Typed
  PROVE  /\ wk \in [Workers -> Task] /\ state \in [Sessions -> State] /\ prefs \in Prefs /\ open \in BOOLEAN
         /\ day \in Nat /\ day \in 0..MAX_DAY /\ sess \in Sessions /\ sess \in 0..MAX_SESSIONS
         /\ stale \in Nat /\ stalePrefs \in Nat /\ crossed \in Nat /\ hook \in [Hooks -> Ingest]
         /\ quiet \in Nat /\ msgs \in Nat /\ queue \subseteq Job
         /\ drafts \in Nat /\ suggested \in Nat /\ held \in Nat
         /\ daily \in Nat /\ festive \in Nat /\ twice \in Nat
         /\ event \in [Events -> [status : Statuses, draft : Nat]]
         /\ posts \in [Events -> Seq(Nat)] /\ extra \in [Events -> Nat]
         /\ MAX_DAY \in Nat /\ MAX_SESSIONS \in Nat /\ SNOOZE \in Nat /\ IDEA_TTL \in Nat
  BY SessionConstants DEF Typed, Sessions

LEMMA BlankOk ==
  /\ Blank \in State /\ Blank.edit = NoEvent /\ Blank.ideas = "none" /\ Blank.at = 0
  /\ NoJob \in Job /\ NoJob.kind = "turn"
  /\ [snooze |-> 0, checklist |-> FALSE] \in Prefs
<1>1. 0 \in 0..(MAX_DAY + 1) /\ 0 \in 0..(MAX_DAY + SNOOZE) /\ 0 \in 0..MAX_SESSIONS
  BY SessionConstants
<1>2. Blank \in State
  BY <1>1 DEF Blank, State
<1>3. NoJob \in Job
  BY <1>1 DEF NoJob, Job
<1>4. [snooze |-> 0, checklist |-> FALSE] \in Prefs
  BY <1>1 DEF Prefs
<1> QED
  BY <1>2, <1>3, <1>4 DEF Blank, NoJob

LEMMA IdleOk ==
  /\ Idle \in Task /\ Idle.pc = "idle" /\ ~Idle.hushed /\ TaskOk(Idle)
  /\ Idle.job = NoJob /\ Idle.day = 0
<1>1. 0 \in 0..MAX_SESSIONS /\ 0 <= MAX_DAY
  BY SessionConstants
<1>2. Idle \in Task
  <2> DEFINE q == [snooze |-> 0, checklist |-> FALSE]
  <2>1. q \in Prefs /\ NoJob \in Job /\ Blank \in State
    BY BlankOk
  <2>2. Idle = [pc |-> "idle", job |-> NoJob, sess |-> 0, seen |-> Blank, prefs |-> q,
                text |-> 0, free |-> FALSE, day |-> 0, hushed |-> FALSE]
    BY DEF Idle
  <2> HIDE DEF q
  <2> QED
    BY <1>1, <2>1, <2>2 DEF Task, PC
<1> QED
  BY <1>1, <1>2 DEF Idle, TaskOk

\* The tasks a worker goes on with.
Begun(p, j, s) == [Idle EXCEPT !.pc = p, !.job = j, !.sess = s]
Skipping(j) == [Idle EXCEPT !.pc = "drop", !.job = j]
Answer(j, x) == [Idle EXCEPT !.pc = "post", !.job = j, !.text = x]
Nudge(p, j, s, q, f, d, h) ==
  [Idle EXCEPT !.pc = p, !.job = j, !.sess = s, !.prefs = q, !.free = f, !.day = d, !.hushed = h]
Turned(t, p) == [t EXCEPT !.pc = p]
Worded(t, p, x) == [t EXCEPT !.pc = p, !.text = x]
Looked(t, p, st) == [t EXCEPT !.pc = p, !.seen = st]
Picked(t, p, s, q) == [t EXCEPT !.pc = p, !.sess = s, !.prefs = q]
Renewed(t, p, s, st) == [t EXCEPT !.pc = p, !.sess = s, !.seen = st]

LEMMA BegunOk ==
  ASSUME NEW p \in PC, NEW j \in Job, NEW s \in 0..MAX_SESSIONS
  PROVE  /\ Begun(p, j, s) \in Task /\ Begun(p, j, s).pc = p /\ Begun(p, j, s).job = j
         /\ Begun(p, j, s).sess = s /\ Begun(p, j, s).day = 0 /\ ~Begun(p, j, s).hushed
  BY IdleOk DEF Begun, Task

LEMMA SkippingOk ==
  ASSUME NEW j \in Job
  PROVE  /\ Skipping(j) \in Task /\ Skipping(j).pc = "drop" /\ Skipping(j).job = j
         /\ Skipping(j).day = 0 /\ ~Skipping(j).hushed
  BY IdleOk DEF Skipping, Task, PC

LEMMA AnswerOk ==
  ASSUME NEW j \in Job, NEW x \in Nat
  PROVE  /\ Answer(j, x) \in Task /\ Answer(j, x).pc = "post" /\ Answer(j, x).job = j
         /\ Answer(j, x).text = x /\ Answer(j, x).day = 0 /\ ~Answer(j, x).hushed
  BY IdleOk DEF Answer, Task, PC

LEMMA NudgeOk ==
  ASSUME NEW p \in PC, NEW j \in Job, NEW s \in 0..MAX_SESSIONS, NEW q \in Prefs,
         NEW f \in BOOLEAN, NEW d \in Nat, NEW h \in BOOLEAN
  PROVE  /\ Nudge(p, j, s, q, f, d, h) \in Task /\ Nudge(p, j, s, q, f, d, h).pc = p
         /\ Nudge(p, j, s, q, f, d, h).job = j /\ Nudge(p, j, s, q, f, d, h).sess = s
         /\ Nudge(p, j, s, q, f, d, h).day = d /\ Nudge(p, j, s, q, f, d, h).hushed = h
  BY IdleOk DEF Nudge, Task

LEMMA TurnedOk ==
  ASSUME NEW t \in Task, NEW p \in PC
  PROVE  /\ Turned(t, p) \in Task /\ Turned(t, p).pc = p /\ Turned(t, p).job = t.job
         /\ Turned(t, p).sess = t.sess /\ Turned(t, p).day = t.day /\ Turned(t, p).hushed = t.hushed
         /\ Turned(t, p).text = t.text
  BY DEF Turned, Task

LEMMA WordedOk ==
  ASSUME NEW t \in Task, NEW p \in PC, NEW x \in Nat
  PROVE  /\ Worded(t, p, x) \in Task /\ Worded(t, p, x).pc = p /\ Worded(t, p, x).job = t.job
         /\ Worded(t, p, x).sess = t.sess /\ Worded(t, p, x).day = t.day
         /\ Worded(t, p, x).hushed = t.hushed /\ Worded(t, p, x).text = x
  BY DEF Worded, Task

LEMMA LookedOk ==
  ASSUME NEW t \in Task, NEW p \in PC, NEW st \in State
  PROVE  /\ Looked(t, p, st) \in Task /\ Looked(t, p, st).pc = p /\ Looked(t, p, st).job = t.job
         /\ Looked(t, p, st).sess = t.sess /\ Looked(t, p, st).day = t.day
         /\ Looked(t, p, st).hushed = t.hushed
  BY DEF Looked, Task

LEMMA PickedOk ==
  ASSUME NEW t \in Task, NEW p \in PC, NEW s \in 0..MAX_SESSIONS, NEW q \in Prefs
  PROVE  /\ Picked(t, p, s, q) \in Task /\ Picked(t, p, s, q).pc = p /\ Picked(t, p, s, q).job = t.job
         /\ Picked(t, p, s, q).sess = s /\ Picked(t, p, s, q).day = t.day
         /\ Picked(t, p, s, q).hushed = t.hushed
  BY DEF Picked, Task

LEMMA RenewedOk ==
  ASSUME NEW t \in Task, NEW p \in PC, NEW s \in 0..MAX_SESSIONS, NEW st \in State
  PROVE  /\ Renewed(t, p, s, st) \in Task /\ Renewed(t, p, s, st).pc = p
         /\ Renewed(t, p, s, st).job = t.job /\ Renewed(t, p, s, st).sess = s
         /\ Renewed(t, p, s, st).day = t.day /\ Renewed(t, p, s, st).hushed = t.hushed
  BY DEF Renewed, Task

\* A worker goes on with t.
GoesTo(w, t) == w \in Workers /\ t \in Task /\ TaskOk(t) /\ wk' = [wk EXCEPT ![w] = t]

LEMMA Gone ==
  ASSUME Typed, NEW w \in Workers, NEW t, GoesTo(w, t)
  PROVE  /\ wk' \in [Workers -> Task] /\ wk'[w] = t
         /\ \A v \in Workers : v # w => wk'[v] = wk[v]
         /\ \A v \in Workers : TaskOk(wk'[v])
  BY DEF GoesTo, Typed

-----------------------------------------------------------------------------
(* A step that leaves alone what a part is about. *)

SessAside ==
  /\ UNCHANGED <<day, sess, state, prefs, armed, stale, stalePrefs, crossed, quiet, hijacked>>
  /\ held' = held \/ held' = 0
  /\ \A v \in Workers : wk'[v].hushed => wk[v].hushed

LEMMA SessAsideOk == Typed /\ SessInv /\ SessAside => SessInv'
  BY DEF SessInv, SessAside

InboxPC == {"draft", "note", "offer", "drop", "dropping", "post", "posted"}

InboxAside ==
  /\ UNCHANGED inboxVars
  /\ \A v \in Workers : \/ wk'[v] = wk[v]
                        \/ wk[v].pc \notin InboxPC /\ wk'[v].pc \notin InboxPC /\ JobOk(wk'[v].job)
  /\ \A j \in queue' : j \in queue \/ JobOk(j)
  /\ \A h \in Hooks : hook'[h] = hook[h] \/ Tapped(hook'[h])

LEMMA InboxAsideOk ==
  ASSUME Typed, DraftsOk, RepliesOk, InboxAside
  PROVE  DraftsOk' /\ RepliesOk'
<1>1. UNCHANGED <<event, drafts, shown, posts, extra, beside>>
  BY DEF InboxAside, inboxVars
<1>2. \A j : JobOk(j) <=> JobOk(j)'
  BY <1>1 DEF JobOk
<1>3. DraftsOk'
  <2>1. \A j \in queue' : JobOk(j)'
    BY <1>2 DEF DraftsOk, InboxAside
  <2>2. ASSUME NEW v \in Workers
        PROVE  Drafting(wk[v])'
    <3>1. CASE wk'[v] = wk[v]
      BY <1>1, <3>1 DEF DraftsOk, Drafting, JobOk
    <3>2. CASE wk'[v].pc \notin InboxPC /\ JobOk(wk'[v].job)
      BY <1>1, <3>2 DEF JobOk, Drafting, InboxPC
    <3> QED
      BY <3>1, <3>2 DEF InboxAside
  <2>3. DraftShownIsPosted'
    BY <1>1 DEF DraftsOk, DraftShownIsPosted
  <2>4. \A h \in Hooks : Tapped(hook[h])'
    BY <1>1 DEF DraftsOk, InboxAside, Tapped
  <2>5. OneNotes'
    BY <1>1 DEF DraftsOk, InboxAside, InboxPC, OneNotes, At
  <2>6. \A p \in shown' : ShownOk(p)'
    BY <1>1 DEF DraftsOk, ShownOk
  <2> QED
    BY <1>1, <2>1, <2>2, <2>3, <2>4, <2>5, <2>6 DEF DraftsOk
<1>4. RepliesOk'
  <2>1. ASSUME NEW e \in Events
        PROVE  AtPost(e)' = AtPost(e) /\ Acting(e)' = Acting(e)
    BY DEF InboxAside, InboxPC, AtPost, PostsAt, Acting
  <2> QED
    BY <1>1, <2>1 DEF RepliesOk, One
<1> QED
  BY <1>3, <1>4

NudgePC == {"prefs", "pick", "week", "line", "pitch", "record", "write"}

NudgesAside ==
  /\ UNCHANGED <<day, pushed, daily, festive>>
  /\ suggested' = suggested \/ suggested' = day + 1
  /\ twice' = twice \/ twice' = twice + 1
  /\ \A v \in Workers : \/ wk'[v] = wk[v]
                        \/ wk[v].pc \notin NudgePC \ {"prefs"} /\ wk'[v].pc \notin NudgePC

LEMMA NudgesAsideOk ==
  ASSUME Typed, NudgesOk, NudgesAside
  PROVE  NudgesOk'
<1>1. BeforeDaily' = BeforeDaily /\ BeforeFestive' = BeforeFestive
  BY DEF NudgesAside, NudgePC, BeforeDaily, BeforeFestive, DailyPC
<1>2. DailyRuns' = DailyRuns /\ FestiveRuns' = FestiveRuns
  BY DEF NudgesAside, NudgePC, DailyRuns, FestiveRuns, DailyIs, FestiveIs, DailyPC
<1>3. Recent => Recent'
  BY DEF NudgesAside, Recent
<1>4. twice \in Nat /\ (twice' = twice \/ twice' = twice + 1)
  BY Types DEF NudgesAside
<1>5. \A v \in Workers : OfNudge(wk'[v])
  BY DEF NudgesAside, NudgePC, NudgesOk, OfNudge
<1>6. IsFiniteSet(BeforeDaily) /\ IsFiniteSet(BeforeFestive)
  BY SessionConstants, FS_Subset DEF BeforeDaily, BeforeFestive
<1>7. Cardinality(BeforeDaily) \in Nat /\ Cardinality(BeforeFestive) \in Nat /\ daily \in Nat /\ festive \in Nat
  BY <1>6, FS_CardinalityType, Types
<1>8. daily' = daily /\ festive' = festive /\ pushed' = pushed
  BY DEF NudgesAside
<1>9. daily' + Cardinality(BeforeDaily)' <= twice' + One(Recent' \/ DailyRuns')
  BY <1>1, <1>2, <1>3, <1>4, <1>7, <1>8 DEF NudgesOk, One
<1>10. festive' + Cardinality(BeforeFestive)' <= twice' + One(pushed' \/ FestiveRuns')
  BY <1>1, <1>2, <1>4, <1>7, <1>8 DEF NudgesOk, One
<1> QED
  BY <1>5, <1>9, <1>10 DEF NudgesOk, OfNudge, One

-----------------------------------------------------------------------------
(* The webhook. *)

LEMMA CarryOverOk ==
  ASSUME Typed, NEW st \in State, NEW x \in CarryOver(st)
  PROVE  /\ x \in State /\ x.edit = NoEvent
         /\ st.ideas # "none" /\ st.at # 0 /\ day + 1 - st.at < IDEA_TTL => x.ideas = st.ideas /\ x.at = st.at
<1> DEFINE kept == [st EXCEPT !.edit = NoEvent]
<1>1. kept \in State /\ kept.edit = NoEvent /\ kept.ideas = st.ideas /\ kept.at = st.at
  BY DEF State
<1>2. day + 1 - st.at \in Int /\ IDEA_TTL \in Nat
  <2>1. st.at \in Nat
    BY SessionConstants DEF State
  <2> QED
    BY SMTT(30), <2>1, Types
<1> HIDE DEF kept
<1>3. x = Blank \/ x = kept
  BY DEF CarryOver, kept
<1>4. st.ideas # "none" /\ st.at # 0 /\ day + 1 - st.at < IDEA_TTL => x = kept
  BY <1>2 DEF CarryOver, kept
<1> QED
  BY <1>1, <1>3, <1>4, BlankOk

LEMMA EditedOk ==
  ASSUME NEW st \in State, NEW kind, NEW e \in Events \union {NoEvent}
  PROVE  /\ Edited(st, kind, e) \in State
         /\ Edited(st, kind, e).edit = IF kind = "edit_prompt" THEN e ELSE NoEvent
         /\ Edited(st, kind, e).ideas = st.ideas /\ Edited(st, kind, e).at = st.at
  BY DEF Edited, State

LEMMA JobOfOk ==
  ASSUME NEW i \in Ingest, SessionOf(i) \in Sessions, Tapped(i)
  PROVE  /\ JobOf(i) \in Job /\ JobOk(JobOf(i)) /\ OfSession(JobOf(i))
         /\ JobOf(i).action = "custom" => i.base.edit # NoEvent /\ JobOf(i).event = i.base.edit
<1>0. PICK s, e : s = SessionOf(i) /\ e = i.base.edit
  OBVIOUS
<1>1. s \in 0..MAX_SESSIONS /\ s \in Sessions
  <2>1. s \in 1..MAX_SESSIONS /\ MAX_SESSIONS \in Nat
    BY <1>0, SessionConstants DEF Sessions
  <2> QED
    BY <1>0, <2>1
<1>2. e \in Events \union {NoEvent} /\ i.n \in Nat /\ i.event \in Events \union {NoEvent} /\ i.kind \in Kinds
  <2>1. i.base \in State
    BY DEF Ingest
  <2> QED
    BY <1>0, <2>1 DEF Ingest, State
<1>3. CASE i.kind \in {"send", "edit_prompt", "drop"}
  <2> DEFINE j == [kind |-> "act", event |-> i.event, action |-> i.kind, n |-> i.n, sess |-> s]
  <2>1. JobOf(i) = j
    BY <1>0, <1>3 DEF JobOf
  <2>2. j \in Job /\ j.kind = "act" /\ j.event = i.event /\ j.action = i.kind
    BY <1>1, <1>2, <1>3 DEF Job
  <2> HIDE DEF j
  <2> QED
    BY <1>3, <2>1, <2>2 DEF JobOk, OfSession, Tapped
<1>4. CASE i.kind = "text" /\ e # NoEvent
  <2> DEFINE j == [kind |-> "act", event |-> e, action |-> "custom", n |-> i.n, sess |-> s]
  <2>1. JobOf(i) = j
    BY <1>0, <1>4 DEF JobOf
  <2>2. j \in Job /\ j.kind = "act" /\ j.event = e /\ j.action = "custom"
    BY <1>1, <1>2 DEF Job
  <2> HIDE DEF j
  <2> QED
    BY <1>0, <1>2, <1>4, <2>1, <2>2 DEF JobOk, OfSession
<1>5. CASE i.kind \notin {"send", "edit_prompt", "drop"} /\ ~(i.kind = "text" /\ e # NoEvent)
  <2> DEFINE j == [kind |-> "turn", event |-> NoEvent, action |-> "none", n |-> i.n, sess |-> s]
  <2>1. JobOf(i) = j
    BY <1>0, <1>5 DEF JobOf
  <2>2. j \in Job /\ j.kind = "turn" /\ j.action = "none" /\ j.sess = s
    BY <1>1, <1>2 DEF Job
  <2> HIDE DEF j
  <2> QED
    BY <1>1, <2>1, <2>2 DEF JobOk, OfSession
<1> QED
  BY <1>3, <1>4, <1>5

\* What a message in a hook is, as it is read, read again and held.
Read(kind, e, n, s, f, st, b) ==
  [NoIngest EXCEPT !.pc = "read", !.kind = kind, !.event = e, !.n = n, !.from = s, !.fresh = f,
                   !.seen = st, !.base = b]
Reread(i, s, st) == [i EXCEPT !.from = s, !.fresh = FALSE, !.seen = st, !.base = st]
Holding(i, q) == [i EXCEPT !.pc = "prefs", !.prefs = q]

LEMMA NoIngestOk == NoIngest \in Ingest /\ IngestOk(NoIngest) /\ Tapped(NoIngest)
<1>1. 1 \in Sessions
  BY SessionConstants DEF Sessions
<1> DEFINE q == [snooze |-> 0, checklist |-> FALSE]
<1>2. q \in Prefs /\ Blank \in State
  BY BlankOk
<1>3. NoIngest = [pc |-> "idle", kind |-> "text", event |-> NoEvent, n |-> 0, from |-> 1, fresh |-> FALSE,
                  seen |-> Blank, base |-> Blank, prefs |-> q]
  BY DEF NoIngest
<1> HIDE DEF q
<1>4. NoIngest \in Ingest /\ NoIngest.pc = "idle" /\ NoIngest.kind = "text"
  BY <1>1, <1>2, <1>3 DEF Ingest, Kinds
<1> QED
  BY <1>4 DEF IngestOk, Tapped

LEMMA ReadOk ==
  ASSUME NEW kind \in Kinds, NEW e \in Events \union {NoEvent}, NEW n \in Nat, NEW s \in Sessions,
         NEW f \in BOOLEAN, NEW st \in State, NEW b \in State
  PROVE  /\ Read(kind, e, n, s, f, st, b) \in Ingest
         /\ Read(kind, e, n, s, f, st, b).kind = kind /\ Read(kind, e, n, s, f, st, b).event = e
         /\ Read(kind, e, n, s, f, st, b).from = s /\ Read(kind, e, n, s, f, st, b).fresh = f
         /\ Read(kind, e, n, s, f, st, b).seen = st /\ Read(kind, e, n, s, f, st, b).base = b
  BY NoIngestOk DEF Read, Ingest

LEMMA RereadOk ==
  ASSUME NEW i \in Ingest, NEW s \in Sessions, NEW st \in State
  PROVE  /\ Reread(i, s, st) \in Ingest /\ Reread(i, s, st).kind = i.kind /\ Reread(i, s, st).event = i.event
         /\ Reread(i, s, st).from = s /\ ~Reread(i, s, st).fresh
         /\ Reread(i, s, st).seen = st /\ Reread(i, s, st).base = st
  BY DEF Reread, Ingest

LEMMA HoldingOk ==
  ASSUME NEW i \in Ingest, NEW q \in Prefs
  PROVE  /\ Holding(i, q) \in Ingest /\ Holding(i, q).kind = i.kind /\ Holding(i, q).event = i.event
         /\ Holding(i, q).from = i.from /\ Holding(i, q).fresh = i.fresh
         /\ Holding(i, q).seen = i.seen /\ Holding(i, q).base = i.base
  BY DEF Holding, Ingest

\* The hook h goes on with i, and nothing but the count of messages goes with it.
HookStep(h, i) ==
  /\ h \in Hooks /\ i \in Ingest /\ IngestOk(i) /\ Tapped(i)
  /\ hook' = [hook EXCEPT ![h] = i] /\ msgs' \in Nat
  /\ UNCHANGED <<day, sess, open, wrote, rowVars, armed, queue, wk, faults, crossed, quiet, hijacked>>
  /\ UNCHANGED <<inboxVars, nudgeVars>>

LEMMA HookStepOk ==
  ASSUME Inv, NEW h, NEW i, HookStep(h, i)
  PROVE  Inv'
<1>1. /\ hook' \in [Hooks -> Ingest] /\ hook'[h] = i /\ msgs' \in Nat
      /\ \A g \in Hooks : g # h => hook'[g] = hook[g]
  BY DEF HookStep, Inv, Typed
<1>2. /\ UNCHANGED <<day, sess, open, state, prefs, stale, stalePrefs, armed, queue, wk, crossed, quiet, hijacked>>
      /\ UNCHANGED <<event, drafts, shown, posts, extra, beside, suggested, pushed, daily, festive, twice, held>>
  BY DEF HookStep, rowVars, inboxVars, nudgeVars
<1>3. \A g \in Hooks : IngestOk(hook'[g])
  BY <1>1 DEF HookStep, Inv, Typed
<1>4. Typed'
  BY <1>1, <1>2, <1>3 DEF Typed, IngestOk, Inv
<1>5. InboxAside /\ SessAside /\ NudgesAside
  BY <1>1, <1>2 DEF HookStep, InboxAside, SessAside, NudgesAside, inboxVars, ownerVars, rowVars
<1> QED
  BY <1>4, <1>5, InboxAsideOk, SessAsideOk, NudgesAsideOk DEF Inv

LEMMA InboundReadOk ==
  ASSUME Inv, NEW kind \in Kinds, NEW e \in Events \union {NoEvent}, InboundRead(kind, e),
         kind \in {"send", "edit_prompt", "drop"} =>
           e \in Events /\ (kind = "send" /\ e \notin beside => <<e, event[e].draft>> \in shown),
         UNCHANGED <<inboxVars, nudgeVars>>
  PROVE  Inv'
<1>1. /\ state[sess] \in State /\ sess \in Sessions /\ msgs + 1 \in Nat /\ open \in BOOLEAN /\ Typed
  BY SMTT(30), Types DEF Inv
<1>2. PICK h \in Hooks, b \in IF open THEN {state[sess]} ELSE CarryOver(state[sess]) :
        Ingests(h, Read(kind, e, msgs + 1, sess, ~open, state[sess], b))
  BY DEF InboundRead, Read
<1>3. /\ b \in State
      /\ open => b = state[sess]
      /\ ~open => /\ b.edit = NoEvent
                  /\ state[sess].ideas # "none" /\ state[sess].at # 0 /\ day + 1 - state[sess].at < IDEA_TTL
                       => b.ideas = state[sess].ideas /\ b.at = state[sess].at
  <2>1. CASE open
    BY <1>1, <1>2, <2>1
  <2>2. CASE ~open
    BY <1>1, <1>2, <2>2, CarryOverOk
  <2> QED
    BY <2>1, <2>2
<1> DEFINE i == Read(kind, e, msgs + 1, sess, ~open, state[sess], b)
<1>4. /\ i \in Ingest /\ i.kind = kind /\ i.event = e /\ i.from = sess /\ i.fresh = ~open
      /\ i.seen = state[sess] /\ i.base = b
  <2> DEFINE f == ~open
  <2>1. f \in BOOLEAN
    OBVIOUS
  <2> HIDE DEF f
  <2>2. /\ Read(kind, e, msgs + 1, sess, f, state[sess], b) \in Ingest
        /\ Read(kind, e, msgs + 1, sess, f, state[sess], b).kind = kind
        /\ Read(kind, e, msgs + 1, sess, f, state[sess], b).event = e
        /\ Read(kind, e, msgs + 1, sess, f, state[sess], b).from = sess
        /\ Read(kind, e, msgs + 1, sess, f, state[sess], b).fresh = f
        /\ Read(kind, e, msgs + 1, sess, f, state[sess], b).seen = state[sess]
        /\ Read(kind, e, msgs + 1, sess, f, state[sess], b).base = b
    BY <1>1, <1>3, <2>1, ReadOk
  <2> QED
    BY <2>2 DEF f
<1>5. hook' = [hook EXCEPT ![h] = i]
  BY <1>2 DEF Ingests
<1> HIDE DEF i
<1>6. SessionOf(i) \in Sessions
  <2>1. sess \in Int /\ MAX_SESSIONS \in Int /\ 1 <= sess /\ sess <= MAX_SESSIONS
    BY <1>1, SessionConstants DEF Sessions
  <2>2. open \/ sess < MAX_SESSIONS
    BY DEF InboundRead
  <2>3. SessionOf(i) = IF open THEN sess ELSE sess + 1
    BY <1>1, <1>4 DEF SessionOf
  <2> QED
    BY <2>1, <2>2, <2>3 DEF Sessions
<1>7. IngestOk(i) /\ Tapped(i)
  BY <1>3, <1>4, <1>6 DEF IngestOk, Tapped
<1>8. HookStep(h, i)
  BY <1>1, <1>4, <1>5, <1>7 DEF HookStep, InboundRead
<1> QED
  BY <1>8, HookStepOk

LEMMA InboundAgainOk ==
  ASSUME Inv, NEW h \in Hooks, InboundAgain(h), UNCHANGED <<inboxVars, nudgeVars>>
  PROVE  Inv'
<1> DEFINE i == Reread(hook[h], sess, state[sess])
<1>1. /\ hook[h] \in Ingest /\ Tapped(hook[h]) /\ sess \in Sessions /\ state[sess] \in State /\ msgs \in Nat
  BY Types DEF Inv, DraftsOk
<1>2. /\ i \in Ingest /\ i.kind = hook[h].kind /\ i.event = hook[h].event /\ i.from = sess /\ ~i.fresh
      /\ i.seen = state[sess] /\ i.base = state[sess]
  BY <1>1, RereadOk
<1>3. hook' = [hook EXCEPT ![h] = i]
  BY DEF InboundAgain, Ingests, Reread
<1> HIDE DEF i
<1>4. IngestOk(i) /\ Tapped(i)
  BY <1>1, <1>2 DEF IngestOk, Tapped, SessionOf
<1>5. HookStep(h, i)
  BY <1>1, <1>2, <1>3, <1>4 DEF HookStep, InboundAgain
<1> QED
  BY <1>5, HookStepOk

LEMMA InboundPrefsOk ==
  ASSUME Inv, NEW h \in Hooks, InboundPrefs(h), UNCHANGED <<inboxVars, nudgeVars>>
  PROVE  Inv'
<1> DEFINE i == Holding(hook[h], prefs)
<1>1. hook[h] \in Ingest /\ Tapped(hook[h]) /\ IngestOk(hook[h]) /\ prefs \in Prefs /\ msgs \in Nat
      /\ hook[h].pc # "idle"
  BY Types DEF Inv, DraftsOk, Typed, InboundPrefs
<1>2. /\ i \in Ingest /\ i.kind = hook[h].kind /\ i.event = hook[h].event /\ i.from = hook[h].from
      /\ i.fresh = hook[h].fresh /\ i.seen = hook[h].seen /\ i.base = hook[h].base
  BY <1>1, HoldingOk
<1>3. hook' = [hook EXCEPT ![h] = i]
  BY DEF InboundPrefs, Ingests, Holding
<1> HIDE DEF i
<1>4. IngestOk(i) /\ Tapped(i)
  BY <1>1, <1>2 DEF IngestOk, Tapped, SessionOf
<1>5. HookStep(h, i)
  BY <1>1, <1>2, <1>3, <1>4 DEF HookStep, InboundPrefs
<1> QED
  BY <1>5, HookStepOk

\* The commit.
LEMMA InboundOk ==
  ASSUME Inv, NEW h \in Hooks, Inbound(h), UNCHANGED <<inboxVars, nudgeVars>>
  PROVE  Inv'
<1>0. PICK i, s, new : i = hook[h] /\ s = SessionOf(hook[h]) /\ new = Edited(hook[h].base, hook[h].kind, hook[h].event)
  OBVIOUS
<1> DEFINE writes == i.fresh \/ new # i.base
           far == i.from # sess \/ state[i.from].edit # i.seen.edit
<1>1. /\ state' = IF writes THEN [state EXCEPT ![s] = new] ELSE state
      /\ stale' = IF writes /\ (i.from # sess \/ state[i.from] # i.seen) THEN stale + 1 ELSE stale
      /\ crossed' = IF far THEN crossed + 1 ELSE crossed
      /\ sess' = IF i.fresh THEN sess + 1 ELSE sess
      /\ open' = TRUE /\ armed' = IF i.kind = "edit_prompt" THEN i.event ELSE NoEvent
      /\ queue' = queue \union {JobOf(i)}
      /\ hijacked' = IF JobOf(i).action = "custom" /\ JobOf(i).event # armed
                     THEN hijacked \union {JobOf(i).event} ELSE hijacked
      /\ hook' = [hook EXCEPT ![h] = NoIngest]
      /\ UNCHANGED <<day, msgs, wk, faults>>
  BY <1>0 DEF Inbound, Ingests
<1>2. IF i.kind = "skip"
      THEN /\ prefs' = [i.prefs EXCEPT !.snooze = day + SNOOZE] /\ quiet' = day + SNOOZE
           /\ stalePrefs' = IF prefs # i.prefs THEN stalePrefs + 1 ELSE stalePrefs
      ELSE UNCHANGED <<prefs, quiet, stalePrefs>>
  BY <1>0 DEF Inbound
<1>3. /\ i.pc # "idle" /\ (i.fresh => i.from = sess) /\ i \in Ingest /\ IngestOk(i) /\ Tapped(i)
      /\ s = SessionOf(i) /\ new = Edited(i.base, i.kind, i.event)
  BY <1>0 DEF Inbound, Inv, Typed, DraftsOk
<1>4. UNCHANGED <<event, drafts, shown, posts, extra, beside, suggested, pushed, daily, festive, twice, held>>
  BY DEF inboxVars, nudgeVars
<1>5. /\ state \in [Sessions -> State] /\ sess \in Sessions /\ stale \in Nat /\ stalePrefs \in Nat /\ crossed \in Nat
      /\ day \in Nat /\ IDEA_TTL \in Nat /\ prefs \in Prefs /\ quiet \in Nat /\ held \in Nat
  BY Types DEF Inv
<1>6. /\ s \in Sessions /\ i.base \in State /\ i.seen \in State /\ i.from \in Sessions
      /\ i.event \in Events \union {NoEvent} /\ i.fresh \in BOOLEAN /\ i.prefs \in Prefs
  BY <1>3 DEF IngestOk, Ingest
<1>7. /\ new \in State /\ new.edit = (IF i.kind = "edit_prompt" THEN i.event ELSE NoEvent)
      /\ new.ideas = i.base.ideas /\ new.at = i.base.at
  BY <1>3, <1>6, EditedOk
<1>8. /\ JobOf(i) \in Job /\ JobOk(JobOf(i)) /\ OfSession(JobOf(i))
      /\ JobOf(i).action = "custom" => i.base.edit # NoEvent /\ JobOf(i).event = i.base.edit
  BY <1>3, <1>6, JobOfOk
<1>9. /\ state' \in [Sessions -> State] /\ sess' \in Sessions
      /\ writes => state'[s] = new
      /\ writes /\ i.from = sess => sess' = s
      /\ ~writes => state' = state /\ sess' = sess /\ ~i.fresh /\ new = i.base
  <2>1. writes => state' \in [Sessions -> State] /\ state'[s] = new
    BY <1>1, <1>5, <1>6, <1>7
  <2>2. s = IF i.fresh THEN i.from + 1 ELSE i.from
    BY <1>3 DEF SessionOf
  <2>3. writes \/ ~writes
    OBVIOUS
  <2> QED
    BY <1>1, <1>3, <1>5, <1>6, <2>1, <2>2
<1>10. /\ stale' \in Nat /\ (stale' = 0 => stale = 0 /\ (writes => i.from = sess /\ state[i.from] = i.seen))
       /\ crossed' \in Nat /\ (crossed' = 0 => crossed = 0 /\ i.from = sess /\ state[sess].edit = i.seen.edit)
  BY <1>1, <1>5
<1>11. /\ prefs' \in Prefs /\ quiet' \in Nat /\ stalePrefs' \in Nat
       /\ stalePrefs > 0 => stalePrefs' > 0
       /\ stalePrefs' = 0 => prefs'.snooze = quiet'
  <2>1. day + SNOOZE \in 0..(MAX_DAY + SNOOZE) /\ day + SNOOZE \in Nat
    BY SMTT(30), Types DEF Inv
  <2> DEFINE d == day + SNOOZE
  <2>2. /\ [i.prefs EXCEPT !.snooze = d] \in Prefs /\ [i.prefs EXCEPT !.snooze = d].snooze = d
    BY <1>6, <2>1 DEF Prefs
  <2>3. CASE i.kind = "skip"
    <3>1. prefs' = [i.prefs EXCEPT !.snooze = d] /\ quiet' = d
          /\ (stalePrefs' = stalePrefs \/ stalePrefs' = stalePrefs + 1)
      BY <1>2, <2>3
    <3> HIDE DEF d
    <3> QED
      BY <1>5, <2>1, <2>2, <3>1 DEF d
  <2>4. CASE i.kind # "skip"
    <3>1. UNCHANGED <<prefs, quiet, stalePrefs>>
      BY <1>2, <2>4
    <3> QED
      BY <1>5, <3>1 DEF Inv, SessInv
  <2> QED
    BY <2>3, <2>4
<1>12. Typed'
  <2>1. queue' \subseteq Job /\ (\A j \in queue' : OfSession(j))
    BY <1>1, <1>8 DEF Inv, Typed
  <2>2. hook' \in [Hooks -> Ingest] /\ \A g \in Hooks : IngestOk(hook'[g])
    BY <1>1, NoIngestOk DEF Inv, Typed
  <2>3. \A g \in Hooks : IngestOk(hook[g])'
    BY <1>1, <2>2 DEF IngestOk
  <2> QED
    BY <1>1, <1>4, <1>9, <1>10, <1>11, <2>1, <2>2, <2>3 DEF Inv, Typed
<1>13. SessInv'
  <2>1. ASSUME stale' = 0, crossed' = 0
        PROVE  /\ hijacked' = {}
               /\ state'[sess'].edit # NoEvent => armed' = state'[sess'].edit
    <3>1. /\ hijacked = {} /\ (state[sess].edit # NoEvent => armed = state[sess].edit)
          /\ i.from = sess /\ state[sess].edit = i.seen.edit
      BY <1>10, <2>1 DEF Inv, SessInv
    <3>2. i.base.edit # NoEvent => i.base.edit = state[sess].edit
      BY <1>3, <1>6, <3>1 DEF IngestOk
    <3>3. hijacked' = {}
      BY <1>1, <1>8, <3>1, <3>2
    <3>4. state'[sess'].edit = new.edit
      <4>1. CASE writes
        BY <1>9, <3>1, <4>1
      <4>2. CASE ~writes
        <5>1. i.base = i.seen
          BY <1>3, <1>9, <4>2 DEF IngestOk
        <5> QED
          BY <1>9, <3>1, <4>2, <5>1
      <4> QED
        BY <4>1, <4>2
    <3> QED
      BY <1>1, <1>7, <3>3, <3>4
  <2>2. ASSUME stale' = 0, held # 0, day + 1 - held < IDEA_TTL
        PROVE  state'[sess'].ideas = "festival" /\ state'[sess'].at = held
    <3>1. state[sess].ideas = "festival" /\ state[sess].at = held
      BY <1>10, <2>2 DEF Inv, SessInv
    <3>2. CASE writes
      <4>1. i.from = sess /\ state[sess] = i.seen /\ sess' = s /\ state'[sess'] = new
        BY <1>9, <1>10, <2>2, <3>2
      <4>2. i.base.ideas = "festival" /\ i.base.at = held
        BY <1>3, <1>6, <2>2, <3>1, <4>1 DEF IngestOk
      <4> QED
        BY <1>7, <4>1, <4>2
    <3>3. CASE ~writes
      BY <1>9, <3>1, <3>3
    <3> QED
      BY <3>2, <3>3
  <2>3. \A v \in Workers : wk'[v].hushed => stalePrefs' > 0
    BY <1>1, <1>11 DEF Inv, SessInv
  <2> QED
    BY <1>1, <1>4, <1>11, <2>1, <2>2, <2>3 DEF SessInv
<1>14. InboxAside /\ NudgesAside
  BY <1>1, <1>4, <1>8, NoIngestOk DEF InboxAside, NudgesAside, inboxVars, Inv, Typed
<1> QED
  BY <1>12, <1>13, <1>14, InboxAsideOk, NudgesAsideOk DEF Inv

LEMMA WebhookOk ==
  ASSUME Inv, Webhook, UNCHANGED <<inboxVars, nudgeVars>>
  PROVE  Inv'
  BY InboundAgainOk, InboundPrefsOk, InboundOk DEF Webhook

-----------------------------------------------------------------------------
(* What a worker's step does to each part. *)

LEMMA JobsOk ==
  ASSUME Inv
  PROVE  /\ \A j \in queue : j \in Job /\ JobOk(j) /\ OfSession(j)
         /\ \A v \in Workers : /\ wk[v] \in Task /\ wk[v].job \in Job /\ JobOk(wk[v].job)
                               /\ TaskOk(wk[v]) /\ wk[v].day \in Nat
  BY DEF Inv, Typed, DraftsOk, Drafting, Task

LEMMA NoJobOk == JobOk(NoJob)
  BY BlankOk DEF JobOk

LEMMA DailyJobOk ==
  /\ \A d \in Nat : DailyJob(d) \in Job /\ DailyJob(d).kind = "daily"
  /\ [DailyJob(FESTIVAL) EXCEPT !.kind = "festival"] \in Job
  /\ [DailyJob(FESTIVAL) EXCEPT !.kind = "festival"].kind = "festival"
<1>1. 0 \in 0..MAX_SESSIONS /\ FESTIVAL \in Nat
  BY SessionConstants, NudgesConstants
<1>2. ASSUME NEW d \in Nat
      PROVE  DailyJob(d) \in Job /\ DailyJob(d).kind = "daily"
  BY <1>1 DEF DailyJob, Job
<1>3. DailyJob(FESTIVAL) \in Job
  BY <1>1, <1>2
<1>4. ASSUME NEW j \in Job
      PROVE  [j EXCEPT !.kind = "festival"] \in Job /\ [j EXCEPT !.kind = "festival"].kind = "festival"
  BY DEF Job
<1> QED
  BY <1>2, <1>3, <1>4

\* A worker of the turns and nudges goes on with t.
NudgeStep(w, t) ==
  /\ GoesTo(w, t) /\ wk[w].pc \notin InboxPC /\ t.pc \notin InboxPC
  /\ t.job \in queue \union {NoJob, wk[w].job}
  /\ \A j \in queue' : j \in queue \/ (j \in Job /\ j.kind \in {"daily", "festival"})
  /\ OwnerAside /\ UNCHANGED inboxVars
  /\ state' \in [Sessions -> State] /\ prefs' \in Prefs /\ stale' \in Nat /\ stalePrefs' \in Nat
  /\ suggested' \in Nat /\ held' \in Nat /\ daily' \in Nat /\ festive' \in Nat /\ twice' \in Nat

LEMMA NudgeStepOk ==
  ASSUME Inv, NEW w \in Workers, NEW t, NudgeStep(w, t)
  PROVE  Typed' /\ DraftsOk' /\ RepliesOk'
<1>1. /\ wk' \in [Workers -> Task] /\ wk'[w] = t
      /\ \A v \in Workers : v # w => wk'[v] = wk[v]
      /\ \A v \in Workers : TaskOk(wk'[v])
  BY Gone DEF NudgeStep, Inv
<1>2. \A j \in queue' : j \in Job /\ OfSession(j) /\ (j \in queue \/ JobOk(j))
  BY JobsOk DEF NudgeStep, JobOk, OfSession
<1>3. JobOk(t.job)
  BY JobsOk, NoJobOk DEF NudgeStep
<1>4. Typed'
  BY <1>1, <1>2 DEF Inv, Typed, IngestOk, NudgeStep, OwnerAside, inboxVars, ownerVars, rowVars
<1>5. InboxAside
  BY <1>1, <1>2, <1>3 DEF InboxAside, NudgeStep, OwnerAside, ownerVars
<1> QED
  BY <1>4, <1>5, InboxAsideOk DEF Inv

LEMMA WriteStateOk ==
  ASSUME Typed, SessInv, NEW w \in Workers, NEW new \in State, WriteState(w, new),
         new.edit = wk[w].seen.edit, OwnerAside, UNCHANGED <<prefs, stalePrefs>>,
         held' = 0 \/ (new.ideas = "festival" /\ new.at = held'),
         \A v \in Workers : wk'[v].hushed => wk[v].hushed
  PROVE  SessInv' /\ state' \in [Sessions -> State] /\ stale' \in Nat
<1>1. state' \in [Sessions -> State] /\ stale' \in Nat /\ (stale' = 0 => stale = 0) /\ (stale > 0 => stale' > 0)
  <2>1. state \in [Sessions -> State] /\ stale \in Nat
    BY Types
  <2>2. state' = [state EXCEPT ![wk[w].sess] = new] /\ (stale' = stale \/ stale' = stale + 1)
    BY DEF WriteState
  <2>3. state' \in [Sessions -> State]
    BY <2>1, <2>2
  <2> QED
    BY <2>1, <2>2, <2>3
<1>2. ASSUME stale' = 0
      PROVE  stale = 0 /\ wk[w].sess = sess /\ state[sess] = wk[w].seen /\ state'[sess] = new
  <2>1. stale \in Nat /\ sess \in Sessions /\ state \in [Sessions -> State]
    BY Types
  <2>2. ~(state[wk[w].sess] # wk[w].seen \/ wk[w].sess # sess)
    BY <1>2, <2>1 DEF WriteState
  <2> QED
    BY <1>1, <1>2, <2>1, <2>2 DEF WriteState
<1>3. ASSUME stale' = 0
      PROVE  /\ crossed' = 0 => hijacked' = {} /\ (state'[sess].edit # NoEvent => armed' = state'[sess].edit)
             /\ held' # 0 => state'[sess].ideas = "festival" /\ state'[sess].at = held'
  BY <1>2, <1>3 DEF SessInv, OwnerAside, ownerVars, rowVars
<1>4. UNCHANGED <<day, sess, prefs, stalePrefs, quiet>>
  BY DEF OwnerAside, ownerVars
<1> QED
  BY <1>1, <1>3, <1>4 DEF SessInv

LEMMA WritePrefsOk ==
  ASSUME Typed, SessInv, NEW w \in Workers, NEW new \in Prefs, WritePrefs(w, new),
         new.snooze = wk[w].prefs.snooze, OwnerAside, UNCHANGED <<state, stale, held>>,
         \A v \in Workers : wk'[v].hushed => wk[v].hushed
  PROVE  SessInv' /\ prefs' \in Prefs /\ stalePrefs' \in Nat
<1>1. /\ prefs' \in Prefs /\ stalePrefs' \in Nat
      /\ (stalePrefs' = 0 => stalePrefs = 0) /\ (stalePrefs > 0 => stalePrefs' > 0)
  BY SMTT(30), Types DEF WritePrefs
<1>2. stalePrefs' = 0 => prefs'.snooze = quiet
  BY SMTT(30), Types DEF WritePrefs, SessInv
<1> QED
  BY <1>1, <1>2 DEF SessInv, OwnerAside, ownerVars, rowVars

LEMMA CountMoves ==
  ASSUME NEW w \in Workers, NEW S \in SUBSET Workers, NEW T \in SUBSET Workers,
         \A v \in Workers : v # w => (v \in S <=> v \in T)
  PROVE  /\ Cardinality(S) \in Nat /\ Cardinality(T) \in Nat
         /\ Cardinality(T) = Cardinality(S) + One(w \in T) - One(w \in S)
<1>1. IsFiniteSet(S) /\ IsFiniteSet(T)
  BY SessionConstants, FS_Subset
<1>2. Cardinality(S) \in Nat /\ Cardinality(T) \in Nat
  BY <1>1, FS_CardinalityType
<1>3. CASE w \in S /\ w \in T
  <2>1. S = T
    BY <1>3
  <2> QED
    BY <1>2, <1>3, <2>1 DEF One
<1>4. CASE w \notin S /\ w \notin T
  <2>1. S = T
    BY <1>4
  <2> QED
    BY <1>2, <1>4, <2>1 DEF One
<1>5. CASE w \notin S /\ w \in T
  <2>1. T = S \union {w}
    BY <1>5
  <2>2. Cardinality(T) = Cardinality(S) + 1
    BY <1>1, <1>5, <2>1, FS_AddElement
  <2> QED
    BY <1>2, <1>5, <2>2 DEF One
<1>6. CASE w \in S /\ w \notin T
  <2>1. S = T \union {w}
    BY <1>6
  <2>2. Cardinality(S) = Cardinality(T) + 1
    BY <1>1, <1>6, <2>1, FS_AddElement
  <2> QED
    BY <1>2, <1>6, <2>2 DEF One
<1> QED
  BY <1>2, <1>3, <1>4, <1>5, <1>6

-----------------------------------------------------------------------------
(* Turns. *)

LEMMA IdleStep ==
  ASSUME Inv, NEW w \in Workers, wk' = [wk EXCEPT ![w] = Idle]
  PROVE  /\ GoesTo(w, Idle) /\ Idle.pc \notin InboxPC \union NudgePC
         /\ \A v \in Workers : v # w => wk'[v] = wk[v]
         /\ wk'[w] = Idle /\ (\A v \in Workers : wk'[v].hushed => wk[v].hushed)
  BY IdleOk, Types DEF GoesTo, InboxPC, NudgePC, Inv

LEMMA TurnReadOk ==
  ASSUME Inv, NEW w \in Workers, NEW j \in queue, TurnRead(w, j), UNCHANGED inboxVars
  PROVE  Inv'
<1> DEFINE t == Begun("turn", j, j.sess)
<1>1. j \in Job /\ j.kind = "turn" /\ j.sess \in Sessions /\ OfSession(j) /\ j.sess \in 0..MAX_SESSIONS
  BY JobsOk DEF TurnRead, Takes, OfSession, Job
<1>2. t \in Task /\ t.pc = "turn" /\ t.job = j /\ t.sess = j.sess /\ t.day = 0 /\ ~t.hushed
  BY <1>1, BegunOk DEF PC
<1>3. wk' = [wk EXCEPT ![w] = t] /\ wk[w].pc = "idle" /\ queue' \subseteq queue
  BY DEF TurnRead, Takes, Go, At, Begun
<1> HIDE DEF t
<1>4. GoesTo(w, t)
  BY <1>1, <1>2, <1>3, SessionConstants DEF GoesTo, TaskOk
<1>5. wk'[w] = t /\ \A v \in Workers : v # w => wk'[v] = wk[v]
  BY <1>4, Gone DEF Inv
<1>6. UNCHANGED <<day, ownerVars, rowVars, suggested, pushed, daily, festive, twice, held>>
  BY DEF TurnRead, Else, OwnerAside, nudgeVars
<1>7. NudgeStep(w, t)
  BY <1>2, <1>3, <1>4, <1>6, Types DEF NudgeStep, InboxPC, TurnRead, Else, Inv, ownerVars, rowVars
<1>8. SessAside
  BY <1>2, <1>5, <1>6 DEF SessAside, ownerVars, rowVars
<1>9. NudgesAside
  BY <1>2, <1>3, <1>5, <1>6 DEF NudgesAside, NudgePC
<1> QED
  BY <1>7, <1>8, <1>9, NudgeStepOk, SessAsideOk, NudgesAsideOk DEF Inv

-----------------------------------------------------------------------------
(* Counting what may still be sent. *)

LEMMA Balance ==
  ASSUME NEW n \in Nat, NEW m \in Nat, NEW x \in Nat, NEW y \in Nat, NEW b \in Nat, NEW c \in Nat,
         NEW p \in {0, 1}, NEW q \in {0, 1}, NEW r \in {0, 1}, NEW s \in {0, 1},
         n + b <= x + r, c = b + q - p,
         \/ m + q + x <= n + p + y /\ r <= s
         \/ m + q + x + 1 <= n + p + y
         \/ m + q + x <= n + p + y + 1 /\ r = 0 /\ s = 1
  PROVE  m + c <= y + s
  OBVIOUS

LEMMA DailyCount ==
  ASSUME Inv, NEW w \in Workers, NEW t, GoesTo(w, t), daily' \in Nat, twice' \in Nat,
         \/ /\ daily' + One(t.pc \in DailyPC) + twice <= daily + One(wk[w].pc \in DailyPC) + twice'
            /\ Recent \/ DailyIs(wk[w]) => Recent' \/ DailyIs(t)
         \/ daily' + One(t.pc \in DailyPC) + twice + 1 <= daily + One(wk[w].pc \in DailyPC) + twice'
         \/ /\ daily' + One(t.pc \in DailyPC) + twice <= daily + One(wk[w].pc \in DailyPC) + twice' + 1
            /\ ~(Recent \/ DailyRuns) /\ DailyIs(t)
  PROVE  daily' + Cardinality(BeforeDaily)' <= twice' + One(Recent' \/ DailyRuns')
<1> DEFINE c == Cardinality(BeforeDaily)'  r == Recent \/ DailyRuns  s == Recent' \/ DailyRuns'
           p == wk[w].pc \in DailyPC  q == t.pc \in DailyPC
<1>1. wk'[w] = t /\ \A v \in Workers : v # w => wk'[v] = wk[v]
  BY Gone DEF Inv
<1>2. /\ Cardinality(BeforeDaily) \in Nat /\ c \in Nat
      /\ c = Cardinality(BeforeDaily) + One(q) - One(p)
  <2>1. BeforeDaily \in SUBSET Workers /\ BeforeDaily' \in SUBSET Workers
    BY DEF BeforeDaily
  <2>2. \A v \in Workers : v # w => (v \in BeforeDaily <=> v \in BeforeDaily')
    BY <1>1 DEF BeforeDaily
  <2>3. (w \in BeforeDaily <=> p) /\ (w \in BeforeDaily' <=> q)
    BY <1>1 DEF BeforeDaily
  <2>4. /\ Cardinality(BeforeDaily) \in Nat /\ Cardinality(BeforeDaily') \in Nat
        /\ Cardinality(BeforeDaily') = Cardinality(BeforeDaily) + One(w \in BeforeDaily') - One(w \in BeforeDaily)
    BY <2>1, <2>2, CountMoves
  <2> QED
    BY <2>3, <2>4 DEF One
<1>3. DailyIs(t) => DailyRuns'
  BY <1>1 DEF DailyRuns
<1>4. (Recent \/ DailyIs(wk[w]) => Recent' \/ DailyIs(t)) => (r => s)
  BY <1>1 DEF DailyRuns
<1>5. daily \in Nat /\ twice \in Nat /\ daily + Cardinality(BeforeDaily) <= twice + One(r)
  BY Types DEF Inv, NudgesOk
<1>6. One(p) \in {0, 1} /\ One(q) \in {0, 1} /\ One(r) \in {0, 1} /\ One(s) \in {0, 1}
  BY DEF One
<1>7. \/ daily' + One(q) + twice <= daily + One(p) + twice' /\ One(r) <= One(s)
      \/ daily' + One(q) + twice + 1 <= daily + One(p) + twice'
      \/ daily' + One(q) + twice <= daily + One(p) + twice' + 1 /\ One(r) = 0 /\ One(s) = 1
  BY <1>3, <1>4 DEF One
<1> DEFINE b == Cardinality(BeforeDaily)  pn == One(p)  qn == One(q)  rn == One(r)  sn == One(s)
<1>8. /\ b \in Nat /\ c \in Nat /\ c = b + qn - pn /\ daily + b <= twice + rn
      /\ pn \in {0, 1} /\ qn \in {0, 1} /\ rn \in {0, 1} /\ sn \in {0, 1}
      /\ \/ daily' + qn + twice <= daily + pn + twice' /\ rn <= sn
         \/ daily' + qn + twice + 1 <= daily + pn + twice'
         \/ daily' + qn + twice <= daily + pn + twice' + 1 /\ rn = 0 /\ sn = 1
  BY <1>2, <1>5, <1>6, <1>7
<1> HIDE DEF b, c, pn, qn, rn, sn
<1>9. daily' + c <= twice' + sn
  <2>1. daily \in Nat /\ twice \in Nat /\ daily' \in Nat /\ twice' \in Nat
    BY <1>5
  <2> DEFINE n == daily  m == daily'  x == twice  y == twice'
  <2>2. n \in Nat /\ m \in Nat /\ x \in Nat /\ y \in Nat
    BY <2>1
  <2>3. /\ n + b <= x + rn
        /\ \/ m + qn + x <= n + pn + y /\ rn <= sn
           \/ m + qn + x + 1 <= n + pn + y
           \/ m + qn + x <= n + pn + y + 1 /\ rn = 0 /\ sn = 1
    BY <1>8
  <2> HIDE DEF n, m, x, y
  <2>4. m + c <= y + sn
    BY <1>8, <2>2, <2>3, Balance
  <2> QED
    BY <2>4 DEF m, y
<1> QED
  BY <1>9 DEF c, sn

LEMMA FestiveCount ==
  ASSUME Inv, NEW w \in Workers, NEW t, GoesTo(w, t), festive' \in Nat, twice' \in Nat,
         \/ /\ festive' + One(t.pc = "pitch") + twice <= festive + One(wk[w].pc = "pitch") + twice'
            /\ pushed \/ FestiveIs(wk[w]) => pushed' \/ FestiveIs(t)
         \/ festive' + One(t.pc = "pitch") + twice + 1 <= festive + One(wk[w].pc = "pitch") + twice'
         \/ /\ festive' + One(t.pc = "pitch") + twice <= festive + One(wk[w].pc = "pitch") + twice' + 1
            /\ ~(pushed \/ FestiveRuns) /\ FestiveIs(t)
  PROVE  festive' + Cardinality(BeforeFestive)' <= twice' + One(pushed' \/ FestiveRuns')
<1> DEFINE c == Cardinality(BeforeFestive)'  r == pushed \/ FestiveRuns  s == pushed' \/ FestiveRuns'
           p == wk[w].pc = "pitch"  q == t.pc = "pitch"
<1>1. wk'[w] = t /\ \A v \in Workers : v # w => wk'[v] = wk[v]
  BY Gone DEF Inv
<1>2. /\ Cardinality(BeforeFestive) \in Nat /\ c \in Nat
      /\ c = Cardinality(BeforeFestive) + One(q) - One(p)
  <2>1. BeforeFestive \in SUBSET Workers /\ BeforeFestive' \in SUBSET Workers
    BY DEF BeforeFestive
  <2>2. \A v \in Workers : v # w => (v \in BeforeFestive <=> v \in BeforeFestive')
    BY <1>1 DEF BeforeFestive
  <2>3. (w \in BeforeFestive <=> p) /\ (w \in BeforeFestive' <=> q)
    BY <1>1 DEF BeforeFestive
  <2>4. /\ Cardinality(BeforeFestive) \in Nat /\ Cardinality(BeforeFestive') \in Nat
        /\ Cardinality(BeforeFestive') =
             Cardinality(BeforeFestive) + One(w \in BeforeFestive') - One(w \in BeforeFestive)
    BY <2>1, <2>2, CountMoves
  <2> QED
    BY <2>3, <2>4 DEF One
<1>3. FestiveIs(t) => FestiveRuns'
  BY <1>1 DEF FestiveRuns
<1>4. (pushed \/ FestiveIs(wk[w]) => pushed' \/ FestiveIs(t)) => (r => s)
  BY <1>1 DEF FestiveRuns
<1>5. festive \in Nat /\ twice \in Nat /\ festive + Cardinality(BeforeFestive) <= twice + One(r)
  BY Types DEF Inv, NudgesOk
<1>6. One(p) \in {0, 1} /\ One(q) \in {0, 1} /\ One(r) \in {0, 1} /\ One(s) \in {0, 1}
  BY DEF One
<1>7. \/ festive' + One(q) + twice <= festive + One(p) + twice' /\ One(r) <= One(s)
      \/ festive' + One(q) + twice + 1 <= festive + One(p) + twice'
      \/ festive' + One(q) + twice <= festive + One(p) + twice' + 1 /\ One(r) = 0 /\ One(s) = 1
  BY <1>3, <1>4 DEF One
<1> DEFINE b == Cardinality(BeforeFestive)  pn == One(p)  qn == One(q)  rn == One(r)  sn == One(s)
<1>8. /\ b \in Nat /\ c \in Nat /\ c = b + qn - pn /\ festive + b <= twice + rn
      /\ pn \in {0, 1} /\ qn \in {0, 1} /\ rn \in {0, 1} /\ sn \in {0, 1}
      /\ \/ festive' + qn + twice <= festive + pn + twice' /\ rn <= sn
         \/ festive' + qn + twice + 1 <= festive + pn + twice'
         \/ festive' + qn + twice <= festive + pn + twice' + 1 /\ rn = 0 /\ sn = 1
  BY <1>2, <1>5, <1>6, <1>7
<1> HIDE DEF b, c, pn, qn, rn, sn
<1>9. festive' + c <= twice' + sn
  <2>1. festive \in Nat /\ twice \in Nat /\ festive' \in Nat /\ twice' \in Nat
    BY <1>5
  <2> DEFINE n == festive  m == festive'  x == twice  y == twice'
  <2>2. n \in Nat /\ m \in Nat /\ x \in Nat /\ y \in Nat
    BY <2>1
  <2>3. /\ n + b <= x + rn
        /\ \/ m + qn + x <= n + pn + y /\ rn <= sn
           \/ m + qn + x + 1 <= n + pn + y
           \/ m + qn + x <= n + pn + y + 1 /\ rn = 0 /\ sn = 1
    BY <1>8
  <2> HIDE DEF n, m, x, y
  <2>4. m + c <= y + sn
    BY <1>8, <2>2, <2>3, Balance
  <2> QED
    BY <2>4 DEF m, y
<1> QED
  BY <1>9 DEF c, sn

LEMMA NudgesMoved ==
  ASSUME Inv, NEW w \in Workers, NEW t, GoesTo(w, t), OfNudge(t),
         daily' + Cardinality(BeforeDaily)' <= twice' + One(Recent' \/ DailyRuns'),
         festive' + Cardinality(BeforeFestive)' <= twice' + One(pushed' \/ FestiveRuns')
  PROVE  NudgesOk'
<1>1. wk'[w] = t /\ \A v \in Workers : v # w => wk'[v] = wk[v]
  BY Gone DEF Inv
<1>2. \A v \in Workers : OfNudge(wk'[v])
  BY <1>1 DEF Inv, NudgesOk
<1> QED
  BY <1>2 DEF NudgesOk, OfNudge, One

-----------------------------------------------------------------------------
(* Turns, from their ideas on. *)

LEMMA GoesOn ==
  ASSUME Inv, NEW w \in Workers, NEW t \in Task, wk[w].pc \notin {"idle", "drop", "dropping", "post", "posted"},
         t.job = wk[w].job, t.sess \in Sessions, t.day = wk[w].day, wk' = [wk EXCEPT ![w] = t]
  PROVE  GoesTo(w, t)
  BY JobsOk DEF GoesTo, TaskOk

LEMMA HasSession ==
  ASSUME Inv, NEW w \in Workers, wk[w].pc \notin {"idle", "drop", "dropping", "post", "posted"}
  PROVE  wk[w] \in Task /\ wk[w].sess \in Sessions /\ state[wk[w].sess] \in State
  BY JobsOk, Types DEF TaskOk, Inv

\* A step that is neither of an answer nor of a nudge that is under way.
LEMMA TurnStepOk ==
  ASSUME Inv, NEW w \in Workers, NEW t, NudgeStep(w, t), ~t.hushed \/ t.hushed = wk[w].hushed,
         wk[w].pc \notin NudgePC \ {"prefs"}, t.pc \notin NudgePC,
         UNCHANGED <<pushed, daily, festive, twice>>,
         suggested' = suggested \/ suggested' = day + 1,
         SessAside \/ SessInv'
  PROVE  Inv'
<1>1. wk'[w] = t /\ \A v \in Workers : v # w => wk'[v] = wk[v]
  BY Gone DEF NudgeStep, Inv
<1>2. NudgesAside
  BY <1>1 DEF NudgesAside, NudgeStep, OwnerAside
<1> QED
  BY <1>2, NudgeStepOk, SessAsideOk, NudgesAsideOk DEF Inv

LEMMA ScheduleOk ==
  ASSUME Inv, ScheduleDaily(day) \/ ScheduleDaily(day + 1)
  PROVE  \A j \in queue' : j \in queue \/ (j \in Job /\ j.kind \in {"daily", "festival"})
<1>1. day \in Nat /\ day + 1 \in Nat
  BY SMTT(30), Types DEF Inv
<1> QED
  BY <1>1, DailyJobOk DEF ScheduleDaily

LEMMA TurnActsOk ==
  ASSUME Inv, NEW w \in Workers, TurnActs(w), UNCHANGED inboxVars
  PROVE  Inv'
<1>1. wk[w].pc = "turn"
  BY DEF TurnActs, At
<1>2. wk[w] \in Task /\ wk[w].sess \in Sessions /\ state[wk[w].sess] \in State
  BY <1>1, HasSession
<1> DEFINE take == Looked(wk[w], "take", state[wk[w].sess])
           ask == Looked(wk[w], "suggest", state[wk[w].sess])
<1>3. /\ take \in Task /\ take.pc = "take" /\ take.job = wk[w].job /\ take.sess = wk[w].sess
      /\ take.day = wk[w].day /\ take.hushed = wk[w].hushed
      /\ ask \in Task /\ ask.pc = "suggest" /\ ask.job = wk[w].job /\ ask.sess = wk[w].sess
      /\ ask.day = wk[w].day /\ ask.hushed = wk[w].hushed
  <2>1. "take" \in PC /\ "suggest" \in PC
    BY DEF PC
  <2>2. /\ take \in Task /\ take.pc = "take" /\ take.job = wk[w].job /\ take.sess = wk[w].sess
        /\ take.day = wk[w].day /\ take.hushed = wk[w].hushed
    BY <1>2, <2>1, LookedOk
  <2>3. /\ ask \in Task /\ ask.pc = "suggest" /\ ask.job = wk[w].job /\ ask.sess = wk[w].sess
        /\ ask.day = wk[w].day /\ ask.hushed = wk[w].hushed
    BY <1>2, <2>1, LookedOk
  <2> QED
    BY <2>2, <2>3
<1>4. \/ wk' = [wk EXCEPT ![w] = take] \/ wk' = [wk EXCEPT ![w] = ask] \/ wk' = [wk EXCEPT ![w] = Idle]
  BY DEF TurnActs, Go, Ended, Looked
<1>5. \A j \in queue' : j \in queue \/ (j \in Job /\ j.kind \in {"daily", "festival"})
  BY ScheduleOk DEF TurnActs, Ended
<1> HIDE DEF take, ask
<1>6. PICK t \in {take, ask, Idle} : wk' = [wk EXCEPT ![w] = t]
  BY <1>4
<1>7. /\ GoesTo(w, t) /\ t.pc \in {"take", "suggest", "idle"} /\ t.job \in {NoJob, wk[w].job}
      /\ (~t.hushed \/ t.hushed = wk[w].hushed)
  BY <1>1, <1>2, <1>3, <1>6, GoesOn, IdleStep, IdleOk
<1>8. wk'[w] = t /\ \A v \in Workers : v # w => wk'[v] = wk[v]
  BY <1>7, Gone DEF Inv
<1>9. /\ UNCHANGED <<day, ownerVars, rowVars, pushed, daily, festive, twice, held>>
      /\ OwnerAside /\ (suggested' = suggested \/ suggested' = day + 1)
  BY DEF TurnActs, Else, OwnerAside
<1>10. NudgeStep(w, t)
  <2>1. day + 1 \in Nat
    BY SMTT(30), Types DEF Inv
  <2> QED
    BY <1>1, <1>5, <1>7, <1>9, <2>1, Types DEF NudgeStep, InboxPC, Inv, ownerVars, rowVars
<1>11. SessAside
  BY <1>7, <1>8, <1>9 DEF SessAside, ownerVars, rowVars
<1> QED
  BY <1>1, <1>7, <1>9, <1>10, <1>11, TurnStepOk DEF NudgePC

LEMMA TurnWritesOk ==
  ASSUME Inv, NEW w \in Workers, TurnWrites(w), UNCHANGED inboxVars
  PROVE  Inv'
<1>1. wk[w].pc \in {"take", "suggest"}
  BY DEF TurnWrites
<1>2. wk' = [wk EXCEPT ![w] = Idle] /\ queue' = queue
  BY DEF TurnWrites, Ended, Go
<1>3. /\ GoesTo(w, Idle) /\ Idle.pc \notin InboxPC \union NudgePC
      /\ \A v \in Workers : wk'[v].hushed => wk[v].hushed
  BY <1>2, IdleStep
<1> DEFINE new == [wk[w].seen EXCEPT !.ideas = IF At(w, "take") THEN "none" ELSE "asked"]
<1>4. wk[w].seen \in State
  BY JobsOk DEF Task
<1>5. new \in State /\ new.edit = wk[w].seen.edit
  BY <1>4 DEF State
<1>6. WriteState(w, new) /\ held' = 0
  BY DEF TurnWrites
<1> HIDE DEF new
<1>7. OwnerAside /\ UNCHANGED <<prefs, stalePrefs, suggested, pushed, daily, festive, twice>>
  BY DEF TurnWrites, Else
<1>8. SessInv' /\ state' \in [Sessions -> State] /\ stale' \in Nat
  BY <1>3, <1>5, <1>6, <1>7, WriteStateOk DEF Inv
<1>9. NudgeStep(w, Idle)
  BY <1>1, <1>2, <1>3, <1>6, <1>7, <1>8, IdleOk, Types DEF NudgeStep, InboxPC, Inv, ownerVars, rowVars
<1> QED
  BY <1>1, <1>3, <1>7, <1>8, <1>9, IdleOk, TurnStepOk DEF NudgePC

LEMMA ChecklistOk ==
  ASSUME Inv, NEW w \in Workers, Checklist(w), UNCHANGED inboxVars
  PROVE  Inv'
<1>1. wk[w].pc = "prefs"
  BY DEF Checklist, At
<1>2. wk' = [wk EXCEPT ![w] = Idle] /\ queue' = queue
  BY DEF Checklist, Ended, Go
<1>3. /\ GoesTo(w, Idle) /\ Idle.pc \notin InboxPC \union NudgePC
      /\ \A v \in Workers : wk'[v].hushed => wk[v].hushed
  BY <1>2, IdleStep
<1> DEFINE new == [wk[w].prefs EXCEPT !.checklist = TRUE]
<1>4. wk[w].prefs \in Prefs
  BY JobsOk DEF Task
<1>5. new \in Prefs /\ new.snooze = wk[w].prefs.snooze
  BY <1>4 DEF Prefs
<1>6. WritePrefs(w, new)
  BY DEF Checklist
<1> HIDE DEF new
<1>7. OwnerAside /\ UNCHANGED <<state, stale, suggested, pushed, daily, festive, twice, held>>
  BY DEF Checklist, Else, nudgeVars
<1>8. SessInv' /\ prefs' \in Prefs /\ stalePrefs' \in Nat
  BY <1>3, <1>5, <1>6, <1>7, WritePrefsOk DEF Inv
<1>9. NudgeStep(w, Idle)
  BY <1>1, <1>2, <1>3, <1>7, <1>8, IdleOk, Types DEF NudgeStep, InboxPC, Inv, ownerVars, rowVars
<1> QED
  BY <1>1, <1>3, <1>7, <1>8, <1>9, IdleOk, TurnStepOk DEF NudgePC

-----------------------------------------------------------------------------
(* Nudges. *)

\* What a step does not add to.
LEMMA DailySame ==
  ASSUME Inv, NEW w \in Workers, NEW t, GoesTo(w, t), daily' = daily,
         t.pc \in DailyPC <=> wk[w].pc \in DailyPC,
         DailyIs(wk[w]) => DailyIs(t), Recent => Recent', twice' = twice \/ twice' = twice + 1
  PROVE  daily' + Cardinality(BeforeDaily)' <= twice' + One(Recent' \/ DailyRuns')
<1>1. daily \in Nat /\ twice \in Nat /\ twice' \in Nat /\ twice <= twice'
  BY SMTT(30), Types DEF Inv
<1>2. One(t.pc \in DailyPC) = One(wk[w].pc \in DailyPC) /\ One(t.pc \in DailyPC) \in Nat
  BY DEF One
<1>3. daily' + One(t.pc \in DailyPC) + twice <= daily + One(wk[w].pc \in DailyPC) + twice'
  <2> DEFINE a == One(t.pc \in DailyPC)  b == One(wk[w].pc \in DailyPC)
             n == daily  m == daily'  x == twice  y == twice'
  <2>1. a = b /\ a \in Nat /\ n \in Nat /\ n = m /\ x \in Nat /\ y \in Nat /\ x <= y
    BY <1>1, <1>2
  <2> HIDE DEF a, b, n, m, x, y
  <2>2. m + a + x <= n + b + y
    BY <2>1
  <2> QED
    BY <2>2 DEF a, b, n, m, x, y
<1> QED
  BY <1>1, <1>3, DailyCount

LEMMA FestiveSame ==
  ASSUME Inv, NEW w \in Workers, NEW t, GoesTo(w, t), festive' = festive,
         t.pc = "pitch" <=> wk[w].pc = "pitch",
         FestiveIs(wk[w]) => FestiveIs(t), pushed => pushed', twice' = twice \/ twice' = twice + 1
  PROVE  festive' + Cardinality(BeforeFestive)' <= twice' + One(pushed' \/ FestiveRuns')
<1>1. festive \in Nat /\ twice \in Nat /\ twice' \in Nat /\ twice <= twice'
  BY SMTT(30), Types DEF Inv
<1>2. One(t.pc = "pitch") = One(wk[w].pc = "pitch") /\ One(t.pc = "pitch") \in Nat
  BY DEF One
<1>3. festive' + One(t.pc = "pitch") + twice <= festive + One(wk[w].pc = "pitch") + twice'
  <2> DEFINE a == One(t.pc = "pitch")  b == One(wk[w].pc = "pitch")
             n == festive  m == festive'  x == twice  y == twice'
  <2>1. a = b /\ a \in Nat /\ n \in Nat /\ n = m /\ x \in Nat /\ y \in Nat /\ x <= y
    BY <1>1, <1>2
  <2> HIDE DEF a, b, n, m, x, y
  <2>2. m + a + x <= n + b + y
    BY <2>1
  <2> QED
    BY <2>2 DEF a, b, n, m, x, y
<1> QED
  BY <1>1, <1>3, FestiveCount

\* The task of a nudge that begins.
Opening(j, p) == Nudge(p, j, sess, prefs, open, day, day < quiet)

LEMMA BeginOk ==
  ASSUME Inv, NEW w \in Workers, NEW j \in queue, NEW p \in {"prefs", "pick", "pitch"},
         Begin(w, j, p), wk[w].pc = "idle", Awake, j.kind \in {"daily", "festival"},
         queue' = queue \ {j}, Else, UNCHANGED inboxVars,
         UNCHANGED <<rowVars, keys, swept, suggested, pushed, daily, festive, held>>
  PROVE  /\ NudgeStep(w, Opening(j, p)) /\ SessInv'
         /\ Opening(j, p).pc = p /\ Opening(j, p).job = j
         /\ twice' = IF Nudging THEN twice + 1 ELSE twice
<1> DEFINE t == Opening(j, p)
<1>1. (day < quiet) \in BOOLEAN /\ day \in 0..MAX_DAY /\ day \in Nat /\ sess \in 0..MAX_SESSIONS /\ sess \in Sessions
  BY Types DEF Inv
<1>2. /\ t \in Task /\ t.pc = p /\ t.job = j /\ t.sess = sess /\ t.day = day /\ t.hushed = (day < quiet)
  <2>1. p \in PC /\ j \in Job /\ prefs \in Prefs /\ open \in BOOLEAN
    BY JobsOk, Types DEF PC, Inv
  <2> DEFINE h == day < quiet
  <2>2. h \in BOOLEAN /\ t = Nudge(p, j, sess, prefs, open, day, h)
    BY <1>1 DEF Opening
  <2> HIDE DEF h, t
  <2>3. /\ t \in Task /\ t.pc = p /\ t.job = j /\ t.sess = sess /\ t.day = day /\ t.hushed = h
    BY <1>1, <2>1, <2>2, NudgeOk
  <2> QED
    BY <2>3 DEF h
<1>3. wk' = [wk EXCEPT ![w] = t]
  BY DEF Begin, Go, Opening, Nudge
<1>4. twice' = (IF Nudging THEN twice + 1 ELSE twice) /\ twice' \in Nat
  BY SMTT(30), Types DEF Begin, Inv
<1> HIDE DEF t
<1>5. GoesTo(w, t)
  BY <1>1, <1>2, <1>3, JobsOk DEF GoesTo, TaskOk
<1>6. wk'[w] = t /\ \A v \in Workers : v # w => wk'[v] = wk[v]
  BY <1>5, Gone DEF Inv
<1>7. NudgeStep(w, t)
  BY <1>2, <1>4, <1>5, Types DEF NudgeStep, InboxPC, Else, Inv, ownerVars, rowVars
<1>8. SessInv'
  <2>1. stalePrefs = 0 => ~(day < quiet)
    BY SMTT(30), <1>1, Types DEF Awake, SessInv, Inv
  <2>2. stalePrefs # 0 => stalePrefs > 0
    BY SMTT(30), Types DEF Inv
  <2>3. t.hushed => stalePrefs > 0
    BY <1>2, <2>1, <2>2
  <2>4. \A v \in Workers : wk'[v].hushed => stalePrefs > 0
    BY <1>6, <2>3 DEF SessInv, Inv
  <2> QED
    BY <2>4 DEF SessInv, Else, OwnerAside, ownerVars, rowVars, Inv
<1> QED
  BY <1>2, <1>4, <1>7, <1>8 DEF t

LEMMA DroppedOk ==
  ASSUME Inv, queue' \subseteq queue, Else, UNCHANGED inboxVars,
         UNCHANGED <<wk, rowVars, keys, swept, suggested, pushed, daily, festive, held, twice>>
  PROVE  Inv'
<1>1. Typed'
  BY Types DEF Typed, IngestOk, Else, OwnerAside, inboxVars, Inv, ownerVars, rowVars
<1>2. InboxAside /\ SessAside /\ NudgesAside
  BY DEF InboxAside, SessAside, NudgesAside, Else, OwnerAside, ownerVars, rowVars
<1> QED
  BY <1>1, <1>2, InboxAsideOk, SessAsideOk, NudgesAsideOk DEF Inv

LEMMA Runs ==
  ASSUME Inv, ~Nudging
  PROVE  ~DailyRuns /\ ~FestiveRuns
<1>1. \A v \in Workers : DailyIs(wk[v]) \/ FestiveIs(wk[v])
        => wk[v].job.kind \in {"daily", "festival"} /\ wk[v].pc # "idle"
  BY DEF Inv, NudgesOk, OfNudge, DailyIs, FestiveIs, DailyPC
<1> QED
  BY <1>1 DEF Nudging, At, DailyRuns, FestiveRuns

LEMMA DailyCheckOk ==
  ASSUME Inv, NEW w \in Workers, NEW j \in queue, DailyCheck(w, j), UNCHANGED inboxVars
  PROVE  Inv'
<1>1. /\ wk[w].pc = "idle" /\ queue' = queue \ {j} /\ j.kind = "daily" /\ Else
      /\ UNCHANGED <<rowVars, keys, swept, suggested, pushed, daily, festive, held>>
  BY DEF DailyCheck, Takes, At
<1>2. CASE UNCHANGED <<wk, twice>>
  BY <1>1, <1>2, DroppedOk
<1>3. ASSUME NEW p \in {"prefs", "pick"}, Begin(w, j, p), Awake, ~Recent
      PROVE  Inv'
  <2> DEFINE t == Opening(j, p)
  <2>1. /\ NudgeStep(w, t) /\ SessInv' /\ t.pc = p /\ t.job = j
        /\ twice' = IF Nudging THEN twice + 1 ELSE twice
    BY <1>1, <1>3, BeginOk
  <2> HIDE DEF t
  <2>2. GoesTo(w, t) /\ OfNudge(t)
    BY <1>1, <1>3, <2>1 DEF NudgeStep, OfNudge
  <2>3. Recent' = Recent /\ day' = day
    BY <1>1 DEF Recent, Else, OwnerAside
  <2>4. festive' + Cardinality(BeforeFestive)' <= twice' + One(pushed' \/ FestiveRuns')
    BY <1>1, <1>3, <2>1, <2>2, FestiveSame DEF FestiveIs
  <2>5. daily' + Cardinality(BeforeDaily)' <= twice' + One(Recent' \/ DailyRuns')
    <3>1. CASE p = "prefs"
      BY <1>1, <2>1, <2>2, <2>3, <3>1, DailySame DEF DailyIs, DailyPC
    <3>2. CASE p = "pick"
      <4>1. daily \in Nat /\ twice \in Nat /\ daily' = daily /\ twice' \in Nat
        BY SMTT(30), <1>1, <2>1, Types DEF Inv
      <4>2. One(t.pc \in DailyPC) = 1 /\ One(wk[w].pc \in DailyPC) = 0 /\ DailyIs(t)
        BY <1>1, <2>1, <3>2 DEF One, DailyPC, DailyIs
      <4>3. CASE Nudging
        <5>1. twice' = twice + 1
          BY <2>1, <4>3
        <5>2. daily' + One(t.pc \in DailyPC) + twice <= daily + One(wk[w].pc \in DailyPC) + twice'
          BY <4>1, <4>2, <5>1
        <5> QED
          BY <2>2, <4>1, <4>2, <5>2, DailyCount
      <4>4. CASE ~Nudging
        <5>1. twice' = twice /\ ~(Recent \/ DailyRuns)
          BY <1>3, <2>1, <4>4, Runs
        <5>2. daily' + One(t.pc \in DailyPC) + twice <= daily + One(wk[w].pc \in DailyPC) + twice' + 1
          BY <4>1, <4>2, <5>1
        <5> QED
          BY <2>2, <4>1, <4>2, <5>1, <5>2, DailyCount
      <4> QED
        BY <4>3, <4>4
    <3> QED
      BY <1>3, <3>1, <3>2
  <2>6. NudgesOk'
    BY <2>2, <2>4, <2>5, NudgesMoved
  <2> QED
    BY <2>1, <2>6, NudgeStepOk DEF Inv
<1> QED
  <2>1. ASSUME NEW p \in {"pick"} \union (IF prefs.checklist THEN {} ELSE {"prefs"})
        PROVE  p \in {"prefs", "pick"}
    BY <2>1
  <2> QED
    BY <1>2, <1>3, <2>1 DEF DailyCheck

LEMMA DailySent ==
  ASSUME Inv, NEW w \in Workers, NEW t, GoesTo(w, t), twice' = twice,
         wk[w].pc \in DailyPC, ~(t.pc \in DailyPC),
         (daily' = daily + 1 /\ DailyIs(t)) \/ daily' = daily
  PROVE  daily' + Cardinality(BeforeDaily)' <= twice' + One(Recent' \/ DailyRuns')
<1>1. daily \in Nat /\ twice \in Nat /\ daily' \in Nat /\ twice' \in Nat
  BY SMTT(30), Types DEF Inv
<1>2. One(t.pc \in DailyPC) = 0 /\ One(wk[w].pc \in DailyPC) = 1
  BY DEF One
<1>3. CASE daily' = daily + 1 /\ DailyIs(t)
  <2>1. daily' + One(t.pc \in DailyPC) + twice <= daily + One(wk[w].pc \in DailyPC) + twice'
    BY <1>1, <1>2, <1>3
  <2> QED
    BY <1>1, <1>3, <2>1, DailyCount
<1>4. CASE daily' = daily
  <2>1. daily' + One(t.pc \in DailyPC) + twice + 1 <= daily + One(wk[w].pc \in DailyPC) + twice'
    BY <1>1, <1>2, <1>4
  <2> QED
    BY <1>1, <2>1, DailyCount
<1> QED
  BY <1>3, <1>4

LEMMA FestiveSent ==
  ASSUME Inv, NEW w \in Workers, NEW t, GoesTo(w, t), twice' = twice,
         wk[w].pc = "pitch", ~(t.pc = "pitch"),
         (festive' = festive + 1 /\ FestiveIs(t)) \/ festive' = festive
  PROVE  festive' + Cardinality(BeforeFestive)' <= twice' + One(pushed' \/ FestiveRuns')
<1>1. festive \in Nat /\ twice \in Nat /\ festive' \in Nat /\ twice' \in Nat
  BY SMTT(30), Types DEF Inv
<1>2. One(t.pc = "pitch") = 0 /\ One(wk[w].pc = "pitch") = 1
  BY DEF One
<1>3. CASE festive' = festive + 1 /\ FestiveIs(t)
  <2>1. festive' + One(t.pc = "pitch") + twice <= festive + One(wk[w].pc = "pitch") + twice'
    BY <1>1, <1>2, <1>3
  <2> QED
    BY <1>1, <1>3, <2>1, FestiveCount
<1>4. CASE festive' = festive
  <2>1. festive' + One(t.pc = "pitch") + twice + 1 <= festive + One(wk[w].pc = "pitch") + twice'
    BY <1>1, <1>2, <1>4
  <2> QED
    BY <1>1, <2>1, FestiveCount
<1> QED
  BY <1>3, <1>4

LEMMA NudgeMoveOk ==
  ASSUME Inv, NEW w \in Workers, NEW t, NudgeStep(w, t), OfNudge(t),
         SessInv' \/ (UNCHANGED <<rowVars, held>> /\ (~t.hushed \/ t.hushed = wk[w].hushed)),
         daily' + Cardinality(BeforeDaily)' <= twice' + One(Recent' \/ DailyRuns'),
         festive' + Cardinality(BeforeFestive)' <= twice' + One(pushed' \/ FestiveRuns')
  PROVE  Inv'
<1>1. GoesTo(w, t) /\ OwnerAside
  BY DEF NudgeStep
<1>2. wk'[w] = t /\ \A v \in Workers : v # w => wk'[v] = wk[v]
  BY <1>1, Gone DEF Inv
<1>3. SessInv'
  <2>1. CASE UNCHANGED <<rowVars, held>> /\ (~t.hushed \/ t.hushed = wk[w].hushed)
    <3>1. SessAside
      BY <1>1, <1>2, <2>1 DEF SessAside, OwnerAside, ownerVars, rowVars
    <3> QED
      BY <3>1, SessAsideOk DEF Inv
  <2> QED
    BY <2>1
<1>4. NudgesOk'
  BY <1>1, NudgesMoved
<1> QED
  BY <1>3, <1>4, NudgeStepOk DEF Inv

LEMMA FestivalCheckOk ==
  ASSUME Inv, NEW w \in Workers, NEW j \in queue, FestivalCheck(w, j), UNCHANGED inboxVars
  PROVE  Inv'
<1>1. /\ wk[w].pc = "idle" /\ queue' = queue \ {j} /\ j.kind = "festival" /\ Else
      /\ UNCHANGED <<rowVars, keys, swept, suggested, pushed, daily, festive, held>>
  BY DEF FestivalCheck, Takes, At
<1>2. CASE UNCHANGED <<wk, twice>>
  BY <1>1, <1>2, DroppedOk
<1>3. CASE Begin(w, j, "pitch") /\ Awake /\ Due
  <2> DEFINE t == Opening(j, "pitch")
  <2>1. /\ NudgeStep(w, t) /\ SessInv' /\ t.pc = "pitch" /\ t.job = j
        /\ twice' = IF Nudging THEN twice + 1 ELSE twice
    BY <1>1, <1>3, BeginOk
  <2> HIDE DEF t
  <2>2. GoesTo(w, t) /\ OfNudge(t)
    BY <1>1, <2>1 DEF NudgeStep, OfNudge
  <2>3. Recent' = Recent /\ day' = day /\ ~pushed
    BY <1>1, <1>3 DEF Recent, Else, OwnerAside, Due
  <2>4. daily' + Cardinality(BeforeDaily)' <= twice' + One(Recent' \/ DailyRuns')
    BY <1>1, <2>1, <2>2, <2>3, DailySame DEF DailyIs, DailyPC
  <2>5. festive' + Cardinality(BeforeFestive)' <= twice' + One(pushed' \/ FestiveRuns')
    <3>1. festive \in Nat /\ twice \in Nat /\ festive' = festive /\ twice' \in Nat
      BY SMTT(30), <1>1, <2>1, Types DEF Inv
    <3>2. One(t.pc = "pitch") = 1 /\ One(wk[w].pc = "pitch") = 0 /\ FestiveIs(t)
      BY <1>1, <2>1 DEF One, FestiveIs
    <3>3. CASE Nudging
      <4>1. twice' = twice + 1
        BY <2>1, <3>3
      <4>2. festive' + One(t.pc = "pitch") + twice <= festive + One(wk[w].pc = "pitch") + twice'
        BY <3>1, <3>2, <4>1
      <4> QED
        BY <2>2, <3>1, <3>2, <4>2, FestiveCount
    <3>4. CASE ~Nudging
      <4>1. twice' = twice /\ ~(pushed \/ FestiveRuns)
        BY <2>1, <2>3, <3>4, Runs
      <4>2. festive' + One(t.pc = "pitch") + twice <= festive + One(wk[w].pc = "pitch") + twice' + 1
        BY <3>1, <3>2, <4>1
      <4> QED
        BY <2>2, <3>1, <3>2, <4>1, <4>2, FestiveCount
    <3> QED
      BY <3>3, <3>4
  <2> QED
    BY <2>1, <2>2, <2>4, <2>5, NudgeMoveOk
<1> QED
  BY <1>2, <1>3 DEF FestivalCheck

LEMMA DailyPickOk ==
  ASSUME Inv, NEW w \in Workers, DailyPick(w), UNCHANGED inboxVars
  PROVE  Inv'
<1>1. wk[w].pc = "pick" /\ Else /\ UNCHANGED <<rowVars, queue, nudgeVars>>
  BY DEF DailyPick, At
<1>2. PICK p \in {"week", "line"} : wk' = [wk EXCEPT ![w] = Picked(wk[w], p, sess, prefs)]
  BY DEF DailyPick, Go, Picked
<1> DEFINE t == Picked(wk[w], p, sess, prefs)
<1>3. wk[w] \in Task /\ sess \in 0..MAX_SESSIONS /\ sess \in Sessions /\ prefs \in Prefs /\ p \in PC
  BY JobsOk, Types DEF PC, Inv
<1>4. /\ t \in Task /\ t.pc = p /\ t.job = wk[w].job /\ t.sess = sess /\ t.day = wk[w].day
      /\ t.hushed = wk[w].hushed
  BY <1>3, PickedOk
<1> HIDE DEF t
<1>5. GoesTo(w, t)
  BY <1>1, <1>2, <1>3, <1>4, GoesOn DEF t
<1>6. wk[w].job.kind = "daily"
  BY <1>1 DEF Inv, NudgesOk, OfNudge
<1>7. UNCHANGED <<suggested, pushed, daily, festive, twice, held, rowVars>> /\ Recent' = Recent
  BY <1>1 DEF nudgeVars, Recent, Else, OwnerAside
<1>8. NudgeStep(w, t) /\ OfNudge(t)
  BY <1>1, <1>4, <1>5, <1>6, <1>7, Types DEF NudgeStep, InboxPC, Else, OfNudge, Inv, ownerVars, rowVars
<1>9. /\ t.pc \in DailyPC /\ wk[w].pc \in DailyPC /\ t.pc # "pitch" /\ wk[w].pc # "pitch"
      /\ DailyIs(t) /\ ~FestiveIs(wk[w])
  BY <1>1, <1>4 DEF DailyIs, FestiveIs, DailyPC
<1>10. /\ daily' + Cardinality(BeforeDaily)' <= twice' + One(Recent' \/ DailyRuns')
       /\ festive' + Cardinality(BeforeFestive)' <= twice' + One(pushed' \/ FestiveRuns')
  BY <1>5, <1>7, <1>9, DailySame, FestiveSame
<1> QED
  BY <1>4, <1>7, <1>8, <1>10, NudgeMoveOk

LEMMA WeekSentOk ==
  ASSUME Inv, NEW w \in Workers, WeekSent(w), UNCHANGED inboxVars
  PROVE  Inv'
<1> DEFINE t == Turned(wk[w], "line")
<1>1. wk[w].pc = "week" /\ Else /\ UNCHANGED <<state, stale, queue, nudgeVars>> /\ WritePrefs(w, wk[w].prefs)
  BY DEF WeekSent, At
<1>2. wk' = [wk EXCEPT ![w] = t]
  BY DEF WeekSent, To, Go, Turned
<1>3. wk[w] \in Task /\ wk[w].sess \in Sessions /\ "line" \in PC /\ wk[w].prefs \in Prefs
  BY <1>1, HasSession DEF PC, Task
<1>4. /\ t \in Task /\ t.pc = "line" /\ t.job = wk[w].job /\ t.sess = wk[w].sess /\ t.day = wk[w].day
      /\ t.hushed = wk[w].hushed
  BY <1>3, TurnedOk
<1> HIDE DEF t
<1>5. GoesTo(w, t)
  BY <1>1, <1>2, <1>3, <1>4, GoesOn
<1>6. wk[w].job.kind = "daily"
  BY <1>1 DEF Inv, NudgesOk, OfNudge
<1>7. UNCHANGED <<suggested, pushed, daily, festive, twice, held, state, stale>> /\ Recent' = Recent /\ OwnerAside
  BY <1>1 DEF nudgeVars, Recent, Else, OwnerAside
<1>8. \A v \in Workers : wk'[v].hushed => wk[v].hushed
  BY <1>4, <1>5, Gone DEF Inv
<1>9. SessInv' /\ prefs' \in Prefs /\ stalePrefs' \in Nat
  BY <1>1, <1>3, <1>7, <1>8, WritePrefsOk DEF Inv
<1>10. NudgeStep(w, t) /\ OfNudge(t)
  BY <1>1, <1>4, <1>5, <1>6, <1>7, <1>9, Types DEF NudgeStep, InboxPC, OfNudge, Inv, ownerVars, rowVars
<1>11. /\ t.pc \in DailyPC /\ wk[w].pc \in DailyPC /\ t.pc # "pitch" /\ wk[w].pc # "pitch"
       /\ DailyIs(t) /\ ~FestiveIs(wk[w])
  BY <1>1, <1>4 DEF DailyIs, FestiveIs, DailyPC
<1>12. /\ daily' + Cardinality(BeforeDaily)' <= twice' + One(Recent' \/ DailyRuns')
       /\ festive' + Cardinality(BeforeFestive)' <= twice' + One(pushed' \/ FestiveRuns')
  BY <1>5, <1>7, <1>11, DailySame, FestiveSame
<1> QED
  BY <1>9, <1>10, <1>12, NudgeMoveOk

LEMMA DailySendOk ==
  ASSUME Inv, NEW w \in Workers, DailySend(w), UNCHANGED inboxVars
  PROVE  Inv'
<1> DEFINE rec == Turned(wk[w], "record")
<1>1. /\ wk[w].pc = "line" /\ queue' = queue /\ OwnerAside
      /\ UNCHANGED <<rowVars, suggested, pushed, festive, twice, held>>
  BY DEF DailySend, At, Ended
<1>2. \/ daily' = daily + 1 /\ wk' = [wk EXCEPT ![w] = rec]
      \/ daily' = daily /\ wk' = [wk EXCEPT ![w] = Idle]
  BY DEF DailySend, To, Go, Ended, Turned
<1>3. wk[w] \in Task /\ wk[w].sess \in Sessions /\ "record" \in PC
  BY <1>1, HasSession DEF PC
<1>4. /\ rec \in Task /\ rec.pc = "record" /\ rec.job = wk[w].job /\ rec.sess = wk[w].sess
      /\ rec.day = wk[w].day /\ rec.hushed = wk[w].hushed
  BY <1>3, TurnedOk
<1> HIDE DEF rec
<1>5. wk[w].job.kind = "daily"
  BY <1>1 DEF Inv, NudgesOk, OfNudge
<1>6. PICK t \in {rec, Idle} : /\ wk' = [wk EXCEPT ![w] = t]
                               /\ (t.pc = "record" /\ daily' = daily + 1 /\ t.job = wk[w].job /\ t.hushed = wk[w].hushed)
                                  \/ (t = Idle /\ daily' = daily)
  BY <1>2, <1>4
<1>7. GoesTo(w, t)
  BY <1>1, <1>3, <1>4, <1>6, GoesOn, IdleStep
<1>8. Recent' = Recent /\ daily' \in Nat
  BY SMTT(30), <1>1, <1>6, Types DEF Recent, OwnerAside, Inv
<1>9. NudgeStep(w, t) /\ OfNudge(t) /\ (~t.hushed \/ t.hushed = wk[w].hushed)
  BY <1>1, <1>5, <1>6, <1>7, <1>8, IdleOk, Types DEF NudgeStep, InboxPC, OfNudge, Inv, ownerVars, rowVars
<1>10. /\ wk[w].pc \in DailyPC /\ ~(t.pc \in DailyPC) /\ ((daily' = daily + 1 /\ DailyIs(t)) \/ daily' = daily)
       /\ ~FestiveIs(wk[w]) /\ (t.pc = "pitch" <=> wk[w].pc = "pitch")
  BY <1>1, <1>5, <1>6, IdleOk DEF DailyIs, FestiveIs, DailyPC
<1>11. daily' + Cardinality(BeforeDaily)' <= twice' + One(Recent' \/ DailyRuns')
  BY <1>1, <1>7, <1>10, DailySent
<1>12. festive' + Cardinality(BeforeFestive)' <= twice' + One(pushed' \/ FestiveRuns')
  BY <1>1, <1>7, <1>8, <1>10, FestiveSame
<1> QED
  BY <1>1, <1>9, <1>11, <1>12, NudgeMoveOk

LEMMA FestivalSendOk ==
  ASSUME Inv, NEW w \in Workers, FestivalSend(w), UNCHANGED inboxVars
  PROVE  Inv'
<1> DEFINE rec == Turned(wk[w], "record")
<1>1. /\ wk[w].pc = "pitch" /\ queue' = queue /\ OwnerAside
      /\ UNCHANGED <<rowVars, suggested, pushed, daily, twice, held>>
  BY DEF FestivalSend, At, Ended
<1>2. \/ festive' = festive + 1 /\ wk' = [wk EXCEPT ![w] = rec]
      \/ festive' = festive /\ wk' = [wk EXCEPT ![w] = Idle]
  BY DEF FestivalSend, To, Go, Ended, Turned
<1>3. wk[w] \in Task /\ wk[w].sess \in Sessions /\ "record" \in PC
  BY <1>1, HasSession DEF PC
<1>4. /\ rec \in Task /\ rec.pc = "record" /\ rec.job = wk[w].job /\ rec.sess = wk[w].sess
      /\ rec.day = wk[w].day /\ rec.hushed = wk[w].hushed
  BY <1>3, TurnedOk
<1> HIDE DEF rec
<1>5. wk[w].job.kind = "festival"
  BY <1>1 DEF Inv, NudgesOk, OfNudge
<1>6. PICK t \in {rec, Idle} : /\ wk' = [wk EXCEPT ![w] = t]
                               /\ (t.pc = "record" /\ festive' = festive + 1 /\ t.job = wk[w].job /\ t.hushed = wk[w].hushed)
                                  \/ (t = Idle /\ festive' = festive)
  BY <1>2, <1>4
<1>7. GoesTo(w, t)
  BY <1>1, <1>3, <1>4, <1>6, GoesOn, IdleStep
<1>8. Recent' = Recent /\ festive' \in Nat
  BY SMTT(30), <1>1, <1>6, Types DEF Recent, OwnerAside, Inv
<1>9. NudgeStep(w, t) /\ OfNudge(t) /\ (~t.hushed \/ t.hushed = wk[w].hushed)
  BY <1>1, <1>5, <1>6, <1>7, <1>8, IdleOk, Types DEF NudgeStep, InboxPC, OfNudge, Inv, ownerVars, rowVars
<1>10. /\ wk[w].pc = "pitch" /\ ~(t.pc = "pitch") /\ ((festive' = festive + 1 /\ FestiveIs(t)) \/ festive' = festive)
       /\ ~DailyIs(wk[w]) /\ (t.pc \in DailyPC <=> wk[w].pc \in DailyPC)
  BY <1>1, <1>5, <1>6, IdleOk DEF DailyIs, FestiveIs, DailyPC
<1>11. festive' + Cardinality(BeforeFestive)' <= twice' + One(pushed' \/ FestiveRuns')
  BY <1>1, <1>7, <1>10, FestiveSent
<1>12. daily' + Cardinality(BeforeDaily)' <= twice' + One(Recent' \/ DailyRuns')
  BY <1>1, <1>7, <1>8, <1>10, DailySame
<1> QED
  BY <1>1, <1>9, <1>11, <1>12, NudgeMoveOk

LEMMA DailyReadOk ==
  ASSUME Inv, NEW w \in Workers, DailyRead(w), UNCHANGED inboxVars
  PROVE  Inv'
<1> DEFINE t == Looked(wk[w], "write", state[wk[w].sess])
<1>1. /\ wk[w].pc = "record" /\ wk[w].job.kind = "daily" /\ Else
      /\ UNCHANGED <<rowVars, queue, nudgeVars>>
  BY DEF DailyRead, At
<1>2. wk' = [wk EXCEPT ![w] = t]
  BY DEF DailyRead, Go, Looked
<1>3. /\ wk[w] \in Task /\ wk[w].sess \in Sessions /\ state[wk[w].sess] \in State /\ "write" \in PC
      /\ sess \in 0..MAX_SESSIONS /\ sess \in Sessions /\ state[sess] \in State
  BY <1>1, HasSession, Types DEF PC, Inv
<1>4. /\ t \in Task /\ t.pc = "write" /\ t.job = wk[w].job /\ t.sess \in Sessions /\ t.day = wk[w].day
      /\ t.hushed = wk[w].hushed
  BY <1>3, LookedOk
<1> HIDE DEF t
<1>5. GoesTo(w, t)
  BY <1>1, <1>2, <1>3, <1>4, GoesOn
<1>6. UNCHANGED <<suggested, pushed, daily, festive, twice, held, rowVars>> /\ Recent' = Recent
  BY <1>1 DEF nudgeVars, Recent, Else, OwnerAside
<1>7. NudgeStep(w, t) /\ OfNudge(t)
  BY <1>1, <1>4, <1>5, <1>6, Types DEF NudgeStep, InboxPC, Else, OfNudge, Inv, ownerVars, rowVars
<1>8. /\ t.pc \notin DailyPC /\ wk[w].pc \notin DailyPC /\ t.pc # "pitch" /\ wk[w].pc # "pitch"
      /\ (DailyIs(wk[w]) => DailyIs(t)) /\ (FestiveIs(wk[w]) => FestiveIs(t))
  BY <1>1, <1>4 DEF DailyIs, FestiveIs, DailyPC
<1>9. /\ daily' + Cardinality(BeforeDaily)' <= twice' + One(Recent' \/ DailyRuns')
      /\ festive' + Cardinality(BeforeFestive)' <= twice' + One(pushed' \/ FestiveRuns')
  BY <1>5, <1>6, <1>8, DailySame, FestiveSame
<1> QED
  BY <1>4, <1>6, <1>7, <1>9, NudgeMoveOk

LEMMA FestivalReadOk ==
  ASSUME Inv, NEW w \in Workers, FestivalRead(w), UNCHANGED inboxVars
  PROVE  Inv'
<1> DEFINE t == Renewed(wk[w], "write", sess, state[sess])
<1>1. /\ wk[w].pc = "record" /\ wk[w].job.kind = "festival" /\ Else
      /\ UNCHANGED <<rowVars, queue, nudgeVars>>
  BY DEF FestivalRead, At
<1>2. wk' = [wk EXCEPT ![w] = t]
  BY DEF FestivalRead, Go, Renewed
<1>3. /\ wk[w] \in Task /\ wk[w].sess \in Sessions /\ state[wk[w].sess] \in State /\ "write" \in PC
      /\ sess \in 0..MAX_SESSIONS /\ sess \in Sessions /\ state[sess] \in State
  BY <1>1, HasSession, Types DEF PC, Inv
<1>4. /\ t \in Task /\ t.pc = "write" /\ t.job = wk[w].job /\ t.sess \in Sessions /\ t.day = wk[w].day
      /\ t.hushed = wk[w].hushed
  BY <1>3, RenewedOk
<1> HIDE DEF t
<1>5. GoesTo(w, t)
  BY <1>1, <1>2, <1>3, <1>4, GoesOn
<1>6. UNCHANGED <<suggested, pushed, daily, festive, twice, held, rowVars>> /\ Recent' = Recent
  BY <1>1 DEF nudgeVars, Recent, Else, OwnerAside
<1>7. NudgeStep(w, t) /\ OfNudge(t)
  BY <1>1, <1>4, <1>5, <1>6, Types DEF NudgeStep, InboxPC, Else, OfNudge, Inv, ownerVars, rowVars
<1>8. /\ t.pc \notin DailyPC /\ wk[w].pc \notin DailyPC /\ t.pc # "pitch" /\ wk[w].pc # "pitch"
      /\ (DailyIs(wk[w]) => DailyIs(t)) /\ (FestiveIs(wk[w]) => FestiveIs(t))
  BY <1>1, <1>4 DEF DailyIs, FestiveIs, DailyPC
<1>9. /\ daily' + Cardinality(BeforeDaily)' <= twice' + One(Recent' \/ DailyRuns')
      /\ festive' + Cardinality(BeforeFestive)' <= twice' + One(pushed' \/ FestiveRuns')
  BY <1>5, <1>6, <1>8, DailySame, FestiveSame
<1> QED
  BY <1>4, <1>6, <1>7, <1>9, NudgeMoveOk

LEMMA DailyRecordOk ==
  ASSUME Inv, NEW w \in Workers, DailyRecord(w), UNCHANGED inboxVars
  PROVE  Inv'
<1> DEFINE new == [wk[w].seen EXCEPT !.ideas = "daily"]
<1>1. /\ wk[w].pc = "write" /\ wk[w].job.kind = "daily" /\ queue' = queue /\ wk' = [wk EXCEPT ![w] = Idle]
      /\ OwnerAside /\ UNCHANGED <<prefs, stalePrefs, pushed, daily, festive, twice>>
      /\ suggested' = day + 1 /\ held' = 0 /\ WriteState(w, new)
  BY DEF DailyRecord, At, Ended, Go, Else
<1>2. new \in State /\ new.edit = wk[w].seen.edit
  <2>1. wk[w].seen \in State
    BY JobsOk DEF Task
  <2> QED
    BY <2>1 DEF State
<1> HIDE DEF new
<1>3. GoesTo(w, Idle) /\ \A v \in Workers : wk'[v].hushed => wk[v].hushed
  BY <1>1, IdleStep
<1>4. SessInv' /\ state' \in [Sessions -> State] /\ stale' \in Nat
  BY <1>1, <1>2, <1>3, WriteStateOk DEF Inv
<1>5. Recent' /\ day + 1 \in Nat
  BY SMTT(30), <1>1, Types DEF Recent, OwnerAside, Inv
<1>6. NudgeStep(w, Idle) /\ OfNudge(Idle)
  BY <1>1, <1>3, <1>4, <1>5, IdleOk, Types DEF NudgeStep, InboxPC, OfNudge, Inv, ownerVars, rowVars
<1>7. /\ Idle.pc \notin DailyPC /\ wk[w].pc \notin DailyPC /\ Idle.pc # "pitch" /\ wk[w].pc # "pitch"
      /\ ~FestiveIs(wk[w])
  BY <1>1, IdleOk DEF FestiveIs, DailyPC
<1>8. festive' + Cardinality(BeforeFestive)' <= twice' + One(pushed' \/ FestiveRuns')
  BY <1>1, <1>3, <1>7, FestiveSame
<1>9. daily' + Cardinality(BeforeDaily)' <= twice' + One(Recent' \/ DailyRuns')
  <2>1. daily \in Nat /\ twice \in Nat /\ daily' = daily /\ twice' = twice
    BY <1>1, Types DEF Inv
  <2>2. One(Idle.pc \in DailyPC) = 0 /\ One(wk[w].pc \in DailyPC) = 0
    BY <1>7 DEF One
  <2>3. daily' + One(Idle.pc \in DailyPC) + twice <= daily + One(wk[w].pc \in DailyPC) + twice'
    BY <2>1, <2>2
  <2> QED
    BY <1>3, <1>5, <2>1, <2>3, DailyCount
<1> QED
  BY <1>4, <1>6, <1>8, <1>9, NudgeMoveOk

LEMMA FestivalRecordOk ==
  ASSUME Inv, NEW w \in Workers, FestivalRecord(w), UNCHANGED inboxVars
  PROVE  Inv'
<1> DEFINE new == [wk[w].seen EXCEPT !.ideas = "festival", !.at = wk[w].day + 1]
<1>1. /\ wk[w].pc = "write" /\ wk[w].job.kind = "festival" /\ queue' = queue /\ wk' = [wk EXCEPT ![w] = Idle]
      /\ OwnerAside /\ UNCHANGED <<prefs, stalePrefs, daily, festive, twice>>
      /\ suggested' = day + 1 /\ pushed' /\ held' = wk[w].day + 1 /\ WriteState(w, new)
  BY DEF FestivalRecord, At, Ended, Go, Else
<1>2. new \in State /\ new.edit = wk[w].seen.edit /\ new.ideas = "festival" /\ new.at = held' /\ held' \in Nat
  <2>1. wk[w].seen \in State /\ wk[w].day \in Nat /\ wk[w].day <= MAX_DAY
    BY JobsOk DEF Task, TaskOk
  <2>2. wk[w].day + 1 \in 0..(MAX_DAY + 1)
    BY <2>1, SessionConstants
  <2> DEFINE d == wk[w].day + 1
  <2>3. d \in 0..(MAX_DAY + 1) /\ held' = d /\ d \in Nat
    BY <1>1, <2>1, <2>2
  <2> HIDE DEF d
  <2>4. /\ [wk[w].seen EXCEPT !.ideas = "festival", !.at = d] \in State
        /\ [wk[w].seen EXCEPT !.ideas = "festival", !.at = d].edit = wk[w].seen.edit
        /\ [wk[w].seen EXCEPT !.ideas = "festival", !.at = d].ideas = "festival"
        /\ [wk[w].seen EXCEPT !.ideas = "festival", !.at = d].at = d
    BY <2>1, <2>3 DEF State
  <2> QED
    BY <2>3, <2>4 DEF d
<1> HIDE DEF new
<1>3. GoesTo(w, Idle) /\ \A v \in Workers : wk'[v].hushed => wk[v].hushed
  BY <1>1, IdleStep
<1>4. SessInv' /\ state' \in [Sessions -> State] /\ stale' \in Nat
  BY <1>1, <1>2, <1>3, WriteStateOk DEF Inv
<1>5. Recent' /\ day + 1 \in Nat
  BY SMTT(30), <1>1, Types DEF Recent, OwnerAside, Inv
<1>6. NudgeStep(w, Idle) /\ OfNudge(Idle)
  BY <1>1, <1>2, <1>3, <1>4, <1>5, IdleOk, Types DEF NudgeStep, InboxPC, OfNudge, Inv, ownerVars, rowVars
<1>7. /\ Idle.pc \notin DailyPC /\ wk[w].pc \notin DailyPC /\ Idle.pc # "pitch" /\ wk[w].pc # "pitch"
      /\ ~DailyIs(wk[w])
  BY <1>1, IdleOk DEF DailyIs, DailyPC
<1>8. daily' + Cardinality(BeforeDaily)' <= twice' + One(Recent' \/ DailyRuns')
  BY <1>1, <1>3, <1>5, <1>7, DailySame
<1>9. festive' + Cardinality(BeforeFestive)' <= twice' + One(pushed' \/ FestiveRuns')
  <2>1. festive \in Nat /\ twice \in Nat /\ festive' = festive /\ twice' = twice
    BY <1>1, Types DEF Inv
  <2>2. One(Idle.pc = "pitch") = 0 /\ One(wk[w].pc = "pitch") = 0
    BY <1>7 DEF One
  <2>3. festive' + One(Idle.pc = "pitch") + twice <= festive + One(wk[w].pc = "pitch") + twice'
    BY <2>1, <2>2
  <2> QED
    BY <1>1, <1>3, <2>1, <2>3, FestiveCount
<1> QED
  BY <1>4, <1>6, <1>8, <1>9, NudgeMoveOk

LEMMA FestivalSweepOk ==
  ASSUME Inv, FestivalSweep, UNCHANGED inboxVars
  PROVE  Inv'
<1>1. /\ UNCHANGED <<wk, rowVars, keys, suggested, pushed, daily, festive, twice, held>> /\ Else
      /\ queue' = queue \union {[DailyJob(FESTIVAL) EXCEPT !.kind = "festival"]}
  BY DEF FestivalSweep
<1>2. \A j \in queue' : j \in queue \/ (j \in Job /\ j.kind = "festival")
  BY <1>1, DailyJobOk
<1>3. queue' \subseteq Job /\ \A j \in queue' : OfSession(j)
  BY <1>2, JobsOk DEF OfSession
<1>4. Typed'
  BY <1>1, <1>3 DEF Typed, IngestOk, Else, OwnerAside, inboxVars, Inv, ownerVars, rowVars
<1>5. InboxAside /\ SessAside /\ NudgesAside
  BY <1>1, <1>2 DEF InboxAside, JobOk, SessAside, NudgesAside, Else, OwnerAside, ownerVars, rowVars
<1> QED
  BY <1>4, <1>5, InboxAsideOk, SessAsideOk, NudgesAsideOk DEF Inv

-----------------------------------------------------------------------------
(* Replies. *)

LEMMA RepliesCount ==
  ASSUME Inv, NEW w \in Workers, NEW t, GoesTo(w, t), NEW e \in Events,
         posts' \in [Events -> Seq(Nat)], extra' \in [Events -> Nat],
         \/ /\ Len(posts'[e]) + One(PostsAt(t, e)) + extra[e] <= Len(posts[e]) + One(PostsAt(wk[w], e)) + extra'[e]
            /\ event[e].status = "sent" \/ ActsOn(wk[w], e) => event'[e].status = "sent" \/ ActsOn(t, e)
         \/ Len(posts'[e]) + One(PostsAt(t, e)) + extra[e] + 1 <= Len(posts[e]) + One(PostsAt(wk[w], e)) + extra'[e]
         \/ /\ Len(posts'[e]) + One(PostsAt(t, e)) + extra[e] <= Len(posts[e]) + One(PostsAt(wk[w], e)) + extra'[e] + 1
            /\ ~(event[e].status = "sent" \/ Acting(e)) /\ ActsOn(t, e)
  PROVE  Len(posts'[e]) + Cardinality(AtPost(e)') <= extra'[e] + One(event'[e].status = "sent" \/ Acting(e)')
<1> DEFINE p == PostsAt(wk[w], e)  q == PostsAt(t, e)
           r == event[e].status = "sent" \/ Acting(e)  s == event'[e].status = "sent" \/ Acting(e)'
<1>1. wk'[w] = t /\ \A v \in Workers : v # w => wk'[v] = wk[v]
  BY Gone DEF Inv
<1>2. /\ Cardinality(AtPost(e)) \in Nat /\ Cardinality(AtPost(e)') \in Nat
      /\ Cardinality(AtPost(e)') = Cardinality(AtPost(e)) + One(q) - One(p)
  <2>1. AtPost(e) \in SUBSET Workers /\ AtPost(e)' \in SUBSET Workers
    BY DEF AtPost
  <2>2. \A v \in Workers : v # w => (v \in AtPost(e) <=> v \in AtPost(e)')
    BY <1>1 DEF AtPost, PostsAt
  <2>3. (w \in AtPost(e) <=> p) /\ (w \in AtPost(e)' <=> q)
    BY <1>1 DEF AtPost, PostsAt
  <2>4. /\ Cardinality(AtPost(e)) \in Nat /\ Cardinality(AtPost(e)') \in Nat
        /\ Cardinality(AtPost(e)') = Cardinality(AtPost(e)) + One(w \in AtPost(e)') - One(w \in AtPost(e))
    BY <2>1, <2>2, CountMoves
  <2> QED
    BY <2>3, <2>4 DEF One
<1>3. ActsOn(t, e) => Acting(e)'
  BY <1>1 DEF Acting, ActsOn
<1>4. (event[e].status = "sent" \/ ActsOn(wk[w], e) => event'[e].status = "sent" \/ ActsOn(t, e)) => (r => s)
  BY <1>1 DEF Acting, ActsOn
<1> DEFINE n == Len(posts[e])  m == Len(posts'[e])  x == extra[e]  y == extra'[e]
           b == Cardinality(AtPost(e))  c == Cardinality(AtPost(e)')
           pn == One(p)  qn == One(q)  rn == One(r)  sn == One(s)
<1>5. n \in Nat /\ m \in Nat /\ x \in Nat /\ y \in Nat
  <2>1. posts[e] \in Seq(Nat) /\ posts'[e] \in Seq(Nat) /\ extra[e] \in Nat /\ extra'[e] \in Nat
    BY Types DEF Inv
  <2> QED
    BY <2>1, LenProperties
<1>6. b \in Nat /\ c \in Nat /\ c = b + qn - pn
  BY <1>2
<1>7. n + b <= x + rn
  BY DEF Inv, RepliesOk
<1>8. pn \in {0, 1} /\ qn \in {0, 1} /\ rn \in {0, 1} /\ sn \in {0, 1}
  BY DEF One
<1>9. \/ m + qn + x <= n + pn + y /\ (r => s)
      \/ m + qn + x + 1 <= n + pn + y
      \/ m + qn + x <= n + pn + y + 1 /\ ~r /\ s
  BY <1>3, <1>4
<1>10. ((r => s) => rn <= sn) /\ (~r /\ s => rn = 0 /\ sn = 1)
  BY DEF One
<1> HIDE DEF n, m, x, y, b, c, p, q, r, s, pn, qn, rn, sn
<1>11. \/ m + qn + x <= n + pn + y /\ rn <= sn
       \/ m + qn + x + 1 <= n + pn + y
       \/ m + qn + x <= n + pn + y + 1 /\ rn = 0 /\ sn = 1
  BY <1>9, <1>10
<1>12. m + c <= y + sn
  BY <1>5, <1>6, <1>7, <1>8, <1>11, Balance
<1> QED
  BY <1>12 DEF m, c, y, sn, s

LEMMA RepliesSame ==
  ASSUME Inv, NEW w \in Workers, NEW t, GoesTo(w, t), NEW e \in Events,
         posts' \in [Events -> Seq(Nat)], extra' \in [Events -> Nat],
         posts'[e] = posts[e], extra'[e] = extra[e],
         PostsAt(t, e) <=> PostsAt(wk[w], e),
         event[e].status = "sent" \/ ActsOn(wk[w], e) => event'[e].status = "sent" \/ ActsOn(t, e)
  PROVE  Len(posts'[e]) + Cardinality(AtPost(e)') <= extra'[e] + One(event'[e].status = "sent" \/ Acting(e)')
<1> DEFINE n == Len(posts[e])  m == Len(posts'[e])  x == extra[e]  y == extra'[e]
           a == One(PostsAt(t, e))  b == One(PostsAt(wk[w], e))
<1>1. n \in Nat /\ m = n /\ x \in Nat /\ y = x /\ a = b /\ a \in Nat
  <2>1. posts[e] \in Seq(Nat) /\ extra[e] \in Nat
    BY Types DEF Inv
  <2>2. Len(posts[e]) \in Nat
    BY <2>1, LenProperties
  <2> QED
    BY <2>1, <2>2 DEF One
<1> HIDE DEF n, m, x, y, a, b
<1>2. m + a + x <= n + b + y
  BY <1>1
<1>3. Len(posts'[e]) + One(PostsAt(t, e)) + extra[e] <= Len(posts[e]) + One(PostsAt(wk[w], e)) + extra'[e]
  BY <1>2 DEF n, m, x, y, a, b
<1> QED
  BY <1>3, RepliesCount

-----------------------------------------------------------------------------
(* The inbox. *)

LEMMA MarkOk ==
  ASSUME Inv, NEW e \in Events, NEW st \in Statuses, Mark(e, st)
  PROVE  /\ event' \in [Events -> [status : Statuses, draft : Nat]]
         /\ event'[e].status = st /\ event'[e].draft = event[e].draft
         /\ \A f \in Events : f # e => event'[f] = event[f]
<1>1. event \in [Events -> [status : Statuses, draft : Nat]]
  BY Types DEF Inv
<1>2. event[e] \in [status : Statuses, draft : Nat]
  BY <1>1
<1> DEFINE r == [event[e] EXCEPT !.status = st]
<1>3. r \in [status : Statuses, draft : Nat] /\ r.status = st /\ r.draft = event[e].draft
  BY <1>2
<1>4. event' = [event EXCEPT ![e] = r]
  BY <1>1 DEF Mark
<1> HIDE DEF r
<1> QED
  BY <1>1, <1>3, <1>4

\* A worker of the inbox goes on with t.
InboxStep(w, t) ==
  /\ GoesTo(w, t) /\ wk[w].pc \notin NudgePC /\ t.pc \notin NudgePC /\ (~t.hushed \/ t.hushed = wk[w].hushed)
  /\ queue' \subseteq queue
  /\ UNCHANGED <<day, ownerVars, rowVars, nudgeVars>>
  /\ event' \in [Events -> [status : Statuses, draft : Nat]] /\ drafts' \in Nat
  /\ posts' \in [Events -> Seq(Nat)] /\ extra' \in [Events -> Nat]

LEMMA InboxStepOk ==
  ASSUME Inv, NEW w \in Workers, NEW t, InboxStep(w, t), DraftsOk', RepliesOk'
  PROVE  Inv'
<1>1. /\ wk' \in [Workers -> Task] /\ wk'[w] = t
      /\ \A v \in Workers : v # w => wk'[v] = wk[v]
      /\ \A v \in Workers : TaskOk(wk'[v])
  BY Gone DEF InboxStep, Inv
<1>2. UNCHANGED <<day, ownerVars, rowVars>>
  BY DEF InboxStep
<1>3. \A h \in Hooks : IngestOk(hook[h])'
  BY <1>2 DEF Inv, Typed, IngestOk, ownerVars
<1>4. Typed'
  BY <1>1, <1>3 DEF InboxStep, Typed, nudgeVars, Inv, ownerVars, rowVars
<1>5. SessAside /\ NudgesAside
  BY <1>1 DEF InboxStep, SessAside, NudgesAside, nudgeVars, ownerVars, rowVars
<1> QED
  BY <1>4, <1>5, SessAsideOk, NudgesAsideOk DEF Inv

LEMMA PostsAppended ==
  ASSUME Inv, NEW e \in Events, NEW x \in Nat
  PROVE  /\ Append(posts[e], x) \in Seq(Nat) /\ Len(Append(posts[e], x)) = Len(posts[e]) + 1
         /\ Len(posts[e]) \in Nat
         /\ \A i \in 1..Len(Append(posts[e], x)) :
              Append(posts[e], x)[i] = x \/ (i \in 1..Len(posts[e]) /\ Append(posts[e], x)[i] = posts[e][i])
<1>1. posts[e] \in Seq(Nat)
  BY Types DEF Inv
<1> QED
  BY <1>1, AppendProperties, LenProperties

\* The rows keep their drafts, and what is posted is the reply of the worker at it; a
\* second run that is about to write a draft is noticed.
DraftsStay(w, t) ==
  /\ UNCHANGED <<shown, hook>> /\ beside \subseteq beside'
  /\ \A e \in Events : /\ event'[e].draft = event[e].draft
                       /\ event'[e].status \in {"none", "new"} => event[e].status \in {"none", "new"}
                       /\ \/ posts'[e] = posts[e]
                          \/ posts'[e] = Append(posts[e], wk[w].text) /\ wk[w].pc = "post" /\ wk[w].job.event = e
  /\ Drafting(t)
  /\ t.pc = "note" => \A v \in Workers \ {w} : At(v, "note") /\ wk[v].job.event = t.job.event => t.job.event \in beside'

LEMMA DraftsStayOk ==
  ASSUME Inv, NEW w \in Workers, NEW t, GoesTo(w, t), DraftsStay(w, t),
         \A j \in queue' : j \in queue \/ JobOk(j)
  PROVE  DraftsOk'
<1>1. wk'[w] = t /\ \A v \in Workers : v # w => wk'[v] = wk[v]
  BY Gone DEF Inv
<1>2. shown' = shown /\ hook' = hook /\ beside \subseteq beside' /\ \A e \in Events : event'[e].draft = event[e].draft
  BY DEF DraftsStay
<1>3. \A j : JobOk(j) => JobOk(j)'
  BY <1>2 DEF JobOk
<1>4. ASSUME NEW u, Drafting(u)
      PROVE  /\ JobOk(u.job)'
             /\ u.pc = "note" /\ u.job.event \notin beside' => event'[u.job.event].draft = 0
             /\ u.pc = "offer" /\ u.job.event \notin beside' => u.text = event'[u.job.event].draft
             /\ u.pc = "post" /\ u.text # 0 /\ u.job.event \notin beside' => <<u.job.event, u.text>> \in shown'
  <2>1. u.pc \in {"note", "offer"} => u.job.event \in Events
    BY <1>4 DEF Drafting, JobOk
  <2> QED
    BY <1>2, <1>3, <1>4, <2>1 DEF Drafting
<1>5. \A v \in Workers : Drafting(wk[v])'
  <2>1. ASSUME NEW v \in Workers, NEW u, wk'[v] = u, Drafting(u)
        PROVE  Drafting(wk[v])'
    <3>1. JobOk(wk[v].job)'
      BY <1>4, <2>1 DEF JobOk
    <3> QED
      BY <1>4, <2>1, <3>1 DEF Drafting
  <2>2. \A v \in Workers : Drafting(wk[v]) /\ (v # w => wk'[v] = wk[v])
    BY <1>1 DEF Inv, DraftsOk
  <2> QED
    BY <1>1, <2>1, <2>2 DEF DraftsStay, Alone, ownerVars
<1>6. DraftShownIsPosted'
  <2> SUFFICES ASSUME NEW e \in Events \ beside', NEW i \in 1..Len(posts'[e]), posts'[e][i] # 0
               PROVE  <<e, posts'[e][i]>> \in shown
    BY <1>2 DEF DraftShownIsPosted
  <2>0. e \in Events \ beside
    BY <1>2
  <2>1. CASE posts'[e] = posts[e]
    BY <2>0, <2>1 DEF Inv, DraftsOk, DraftShownIsPosted
  <2>2. CASE posts'[e] = Append(posts[e], wk[w].text) /\ wk[w].pc = "post" /\ wk[w].job.event = e
    <3>1. wk[w].text \in Nat
      BY JobsOk DEF Task
    <3>2. posts'[e][i] = wk[w].text \/ (i \in 1..Len(posts[e]) /\ posts'[e][i] = posts[e][i])
      BY <2>2, <3>1, PostsAppended
    <3>3. wk[w].text # 0 => <<e, wk[w].text>> \in shown
      BY <2>0, <2>2 DEF Inv, DraftsOk, Drafting
    <3> QED
      BY <2>0, <3>2, <3>3 DEF Inv, DraftsOk, DraftShownIsPosted
  <2> QED
    BY <2>1, <2>2 DEF DraftsStay, Alone, ownerVars
<1>7. /\ \A e \in Events : event'[e].status \in {"none", "new"} => event'[e].draft = 0
      /\ \A p \in shown' : ShownOk(p)'
  BY <1>2 DEF DraftsStay, Inv, DraftsOk, ShownOk
<1>8. \A j \in queue' : JobOk(j)'
  BY <1>3 DEF Inv, DraftsOk
<1>9. \A h \in Hooks : Tapped(hook[h])'
  BY <1>2 DEF Inv, DraftsOk, Tapped
<1>10. OneNotes'
  <2> SUFFICES ASSUME NEW v \in Workers, NEW u \in Workers, v # u, wk'[v].pc = "note", wk'[u].pc = "note",
                      wk'[v].job.event = wk'[u].job.event
               PROVE  wk'[v].job.event \in beside'
    BY DEF OneNotes, At
  <2>1. CASE v = w
    BY <1>1, <2>1 DEF DraftsStay, At
  <2>2. CASE u = w
    BY <1>1, <2>2 DEF DraftsStay, At
  <2>3. CASE v # w /\ u # w
    BY <1>1, <1>2, <2>3 DEF Inv, DraftsOk, OneNotes, At
  <2> QED
    BY <2>1, <2>2, <2>3
<1> QED
  BY <1>5, <1>6, <1>7, <1>8, <1>9, <1>10 DEF DraftsOk

LEMMA DraftingIdle == Drafting(Idle)
  BY IdleOk, NoJobOk DEF Drafting

LEMMA RecordOk ==
  ASSUME Inv, NEW e \in Events, Record(e), UNCHANGED nudgeVars
  PROVE  Inv'
<1> DEFINE j == [kind |-> "notify", event |-> e, action |-> "none", n |-> 0, sess |-> 0]
<1>1. /\ event[e].status = "none" /\ Mark(e, "new") /\ queue' = queue \union {j}
      /\ UNCHANGED <<wk, drafts, shown, posts, extra, beside>> /\ Alone
  BY DEF Record
<1>2. j \in Job /\ j.kind = "notify" /\ j.event = e
  BY SessionConstants DEF Job
<1> HIDE DEF j
<1>3. /\ event' \in [Events -> [status : Statuses, draft : Nat]]
      /\ event'[e].status = "new" /\ event'[e].draft = event[e].draft
      /\ \A f \in Events : f # e => event'[f] = event[f]
  BY <1>1, MarkOk DEF Statuses
<1>4. \A f \in Events : event'[f].draft = event[f].draft
  BY <1>3
<1>5. Typed'
  <2>1. \A h \in Hooks : IngestOk(hook[h])'
    BY <1>1 DEF Inv, Typed, IngestOk, Alone, ownerVars
  <2> QED
    BY <1>1, <1>2, <1>3, <2>1 DEF Typed, Alone, OfSession, nudgeVars, Inv, ownerVars, rowVars
<1>6. SessAside /\ NudgesAside
  BY <1>1 DEF SessAside, NudgesAside, Alone, nudgeVars, ownerVars, rowVars
<1>7. \A i : JobOk(i) => JobOk(i)'
  BY <1>1, <1>4 DEF JobOk
<1>8. DraftsOk'
  <2>1. \A v \in Workers : Drafting(wk[v])'
    BY <1>1, <1>4, <1>7 DEF Inv, DraftsOk, Drafting, JobOk
  <2>2. \A i \in queue' : JobOk(i)'
    BY <1>1, <1>2, <1>7 DEF Inv, DraftsOk, JobOk
  <2>3. DraftShownIsPosted'
    BY <1>1 DEF Inv, DraftsOk, DraftShownIsPosted
  <2>4. \A f \in Events : event'[f].status \in {"none", "new"} => event'[f].draft = 0
    BY <1>1, <1>3 DEF Inv, DraftsOk
  <2>5. \A p \in shown' : ShownOk(p)'
    BY <1>1, <1>4 DEF Inv, DraftsOk, ShownOk
  <2>6. \A h \in Hooks : Tapped(hook[h])'
    BY <1>1, <1>4 DEF Inv, DraftsOk, Tapped, Alone, ownerVars
  <2>7. OneNotes'
    BY <1>1 DEF Inv, DraftsOk, OneNotes, At
  <2> QED
    BY <2>1, <2>2, <2>3, <2>4, <2>5, <2>6, <2>7 DEF DraftsOk
<1>9. RepliesOk'
  <2>1. ASSUME NEW f \in Events
        PROVE  /\ event'[f].status = "sent" <=> event[f].status = "sent"
               /\ AtPost(f)' = AtPost(f) /\ (Acting(f)' <=> Acting(f)) /\ posts'[f] = posts[f] /\ extra'[f] = extra[f]
    BY <1>1, <1>3 DEF AtPost, PostsAt, Acting
  <2> QED
    BY <2>1 DEF Inv, RepliesOk, One
<1> QED
  BY <1>5, <1>6, <1>8, <1>9, SessAsideOk, NudgesAsideOk DEF Inv

LEMMA RepliesStay ==
  ASSUME Inv, NEW w \in Workers, NEW t, InboxStep(w, t), UNCHANGED <<posts, extra>>,
         \A e \in Events : /\ PostsAt(t, e) <=> PostsAt(wk[w], e)
                           /\ ActsOn(wk[w], e) => ActsOn(t, e) \/ event'[e].status = "sent"
                           /\ event[e].status = "sent" => event'[e].status = "sent"
  PROVE  RepliesOk'
<1>1. GoesTo(w, t) /\ posts' \in [Events -> Seq(Nat)] /\ extra' \in [Events -> Nat]
  BY DEF InboxStep
<1> SUFFICES ASSUME NEW e \in Events
             PROVE  Len(posts'[e]) + Cardinality(AtPost(e)') <= extra'[e] + One(event'[e].status = "sent" \/ Acting(e)')
  BY DEF RepliesOk, One
<1>2. event[e].status = "sent" \/ ActsOn(wk[w], e) => event'[e].status = "sent" \/ ActsOn(t, e)
  OBVIOUS
<1> QED
  BY <1>1, <1>2, RepliesSame

LEMMA NotifyReadOk ==
  ASSUME Inv, NEW w \in Workers, NEW j \in queue, NotifyRead(w, j), UNCHANGED nudgeVars
  PROVE  Inv'
<1> DEFINE b == Begun("draft", j, sess)
<1>1. /\ wk[w].pc = "idle" /\ j.kind = "notify" /\ queue' \subseteq queue /\ Alone /\ UNCHANGED inboxVars
      /\ wk' = [wk EXCEPT ![w] = b] \/ wk' = [wk EXCEPT ![w] = Idle]
  BY DEF NotifyRead, Takes, At, Go, Begun
<1>2. j \in Job /\ OfSession(j) /\ JobOk(j) /\ sess \in Sessions /\ sess \in 0..MAX_SESSIONS /\ "draft" \in PC
  BY JobsOk, Types DEF PC, Inv
<1>3. b \in Task /\ b.pc = "draft" /\ b.job = j /\ b.sess = sess /\ b.day = 0 /\ ~b.hushed
  BY <1>2, BegunOk
<1> HIDE DEF b
<1>4. PICK t \in {b, Idle} : wk' = [wk EXCEPT ![w] = t]
  BY <1>1
<1>5. /\ GoesTo(w, t) /\ t.pc \in {"draft", "idle"} /\ ~t.hushed
  BY <1>2, <1>3, <1>4, IdleOk, IdleStep, SessionConstants DEF GoesTo, TaskOk
<1>6. InboxStep(w, t)
  BY <1>1, <1>5, Types DEF InboxStep, NudgePC, Alone, inboxVars, Inv, ownerVars, rowVars
<1>7. DraftsStay(w, t)
  BY <1>1, <1>2, <1>3, <1>5, DraftingIdle DEF DraftsStay, Drafting, inboxVars, Alone, ownerVars
<1>8. RepliesOk'
  BY <1>1, <1>5, <1>6, RepliesStay DEF PostsAt, ActsOn, inboxVars
<1> QED
  BY <1>1, <1>5, <1>6, <1>7, <1>8, DraftsStayOk, InboxStepOk

LEMMA NotifySendOk ==
  ASSUME Inv, NEW w \in Workers, NotifySend(w), UNCHANGED nudgeVars
  PROVE  Inv'
<1>1. /\ wk[w].pc = "offer" /\ wk' = [wk EXCEPT ![w] = Idle] /\ queue' = queue
      /\ UNCHANGED <<day, ownerVars, rowVars, event, drafts, posts, extra, beside>>
      /\ shown' = shown \union {<<wk[w].job.event, wk[w].text>>} \/ shown' = shown
  BY DEF NotifySend, At, Done, Go
<1>2. GoesTo(w, Idle)
  BY <1>1, IdleStep
<1>3. wk'[w] = Idle /\ \A v \in Workers : v # w => wk'[v] = wk[v]
  BY <1>2, Gone DEF Inv
<1>4. InboxStep(w, Idle)
  BY <1>1, <1>2, IdleOk, Types DEF InboxStep, NudgePC, Inv, ownerVars, rowVars
<1>5. ShownOk(<<wk[w].job.event, wk[w].text>>)
  <2>1. /\ wk[w].job.event \in Events /\ wk[w].text # 0 /\ wk[w].text \in Nat
        /\ wk[w].job.event \notin beside => wk[w].text = event[wk[w].job.event].draft
    BY <1>1, JobsOk DEF Inv, DraftsOk, Drafting, JobOk, Task
  <2> QED
    BY <2>1 DEF ShownOk
<1>6. DraftsOk'
  <2>1. \A p \in shown' : ShownOk(p)'
    BY <1>1, <1>5 DEF Inv, DraftsOk, ShownOk
  <2>2. shown \subseteq shown' /\ event' = event /\ posts' = posts /\ beside' = beside /\ hook' = hook
    BY <1>1 DEF ownerVars
  <2>3. \A i : JobOk(i) => JobOk(i)'
    BY <2>2 DEF JobOk
  <2>4. ASSUME NEW v \in Workers
        PROVE  Drafting(wk[v])'
    <3>1. CASE v = w
      BY <1>3, <3>1, IdleOk, BlankOk DEF Drafting, JobOk
    <3>2. CASE v # w
      BY <1>3, <2>2, <2>3, <3>2 DEF Inv, DraftsOk, Drafting, JobOk
    <3> QED
      BY <3>1, <3>2
  <2>5. DraftShownIsPosted'
    BY <2>2 DEF Inv, DraftsOk, DraftShownIsPosted
  <2>6. \A e \in Events : event'[e].status \in {"none", "new"} => event'[e].draft = 0
    BY <2>2 DEF Inv, DraftsOk
  <2>7. \A i \in queue' : JobOk(i)'
    BY <1>1, <2>3 DEF Inv, DraftsOk
  <2>8. \A h \in Hooks : Tapped(hook[h])'
    BY <2>2 DEF Inv, DraftsOk, Tapped
  <2>9. OneNotes'
    BY <1>3, <2>2, IdleOk DEF Inv, DraftsOk, OneNotes, At
  <2> QED
    BY <2>1, <2>4, <2>5, <2>6, <2>7, <2>8, <2>9 DEF DraftsOk
<1>7. RepliesOk'
  BY <1>1, <1>4, IdleOk, RepliesStay DEF PostsAt, ActsOn
<1> QED
  BY <1>4, <1>6, <1>7, InboxStepOk

LEMMA ActQuickOk ==
  ASSUME Inv, NEW w \in Workers, NEW j \in queue, ActQuick(w, j), UNCHANGED nudgeVars
  PROVE  Inv'
<1> DEFINE b == Skipping(j)
<1>1. /\ wk[w].pc = "idle" /\ j.kind = "act" /\ queue' \subseteq queue /\ Alone /\ UNCHANGED inboxVars
      /\ wk' = [wk EXCEPT ![w] = b] \/ wk' = [wk EXCEPT ![w] = Idle]
  BY DEF ActQuick, Takes, At, Go, Skipping
<1>2. j \in Job /\ OfSession(j) /\ JobOk(j)
  BY JobsOk
<1>3. b \in Task /\ b.pc = "drop" /\ b.job = j /\ b.day = 0 /\ ~b.hushed
  BY <1>2, SkippingOk
<1> HIDE DEF b
<1>4. PICK t \in {b, Idle} : wk' = [wk EXCEPT ![w] = t]
  BY <1>1
<1>5. GoesTo(w, t) /\ t.pc \in {"drop", "idle"} /\ ~t.hushed
  BY <1>2, <1>3, <1>4, IdleOk, IdleStep, SessionConstants DEF GoesTo, TaskOk
<1>6. InboxStep(w, t)
  BY <1>1, <1>5, Types DEF InboxStep, NudgePC, Alone, inboxVars, Inv, ownerVars, rowVars
<1>7. DraftsStay(w, t)
  BY <1>1, <1>2, <1>3, <1>5, DraftingIdle DEF DraftsStay, Drafting, inboxVars, Alone, ownerVars
<1>8. RepliesOk'
  BY <1>1, <1>5, <1>6, RepliesStay DEF PostsAt, ActsOn, inboxVars
<1> QED
  BY <1>1, <1>5, <1>6, <1>7, <1>8, DraftsStayOk, InboxStepOk

LEMMA SkipReadOk ==
  ASSUME Inv, NEW w \in Workers, SkipRead(w), UNCHANGED nudgeVars
  PROVE  Inv'
<1> DEFINE b == Turned(wk[w], "dropping")
<1>1. /\ wk[w].pc = "drop" /\ queue' = queue /\ Alone /\ UNCHANGED inboxVars
      /\ wk' = [wk EXCEPT ![w] = b] \/ wk' = [wk EXCEPT ![w] = Idle]
  BY DEF SkipRead, At, Go, Turned
<1>2. wk[w] \in Task /\ TaskOk(wk[w]) /\ Drafting(wk[w]) /\ "dropping" \in PC
  BY JobsOk DEF Inv, DraftsOk, PC
<1>3. b \in Task /\ b.pc = "dropping" /\ b.job = wk[w].job /\ b.day = wk[w].day /\ b.hushed = wk[w].hushed
  BY <1>2, TurnedOk
<1> HIDE DEF b
<1>4. PICK t \in {b, Idle} : wk' = [wk EXCEPT ![w] = t]
  BY <1>1
<1>5. GoesTo(w, t) /\ t.pc \in {"dropping", "idle"} /\ (~t.hushed \/ t.hushed = wk[w].hushed)
  BY <1>1, <1>2, <1>3, <1>4, IdleOk, IdleStep DEF GoesTo, TaskOk
<1>6. InboxStep(w, t)
  BY <1>1, <1>5, Types DEF InboxStep, NudgePC, Alone, inboxVars, Inv, ownerVars, rowVars
<1>7. Drafting(t)
  BY <1>1, <1>2, <1>3, DraftingIdle DEF Drafting
<1>8. DraftsStay(w, t)
  BY <1>1, <1>5, <1>7 DEF DraftsStay, inboxVars, Alone, ownerVars
<1>9. RepliesOk'
  BY <1>1, <1>5, <1>6, RepliesStay DEF PostsAt, ActsOn, inboxVars
<1> QED
  BY <1>1, <1>5, <1>6, <1>8, <1>9, DraftsStayOk, InboxStepOk

\* A write that does not know that the event is answered meanwhile is paid for.
LEMMA UnanswersOk ==
  ASSUME Inv, NEW w \in Workers, NEW t, InboxStep(w, t), NEW e \in Events, Unanswers(e), UNCHANGED posts,
         wk[w].pc \notin {"post", "posted"}, t.pc \notin {"post", "posted"},
         \A f \in Events : f # e => event'[f] = event[f]
  PROVE  RepliesOk'
<1>1. GoesTo(w, t) /\ posts' \in [Events -> Seq(Nat)] /\ extra' \in [Events -> Nat]
  BY DEF InboxStep
<1> SUFFICES ASSUME NEW f \in Events
             PROVE  Len(posts'[f]) + Cardinality(AtPost(f)') <= extra'[f] + One(event'[f].status = "sent" \/ Acting(f)')
  BY DEF RepliesOk, One
<1>2. ~ActsOn(wk[w], f) /\ ~PostsAt(wk[w], f) /\ ~ActsOn(t, f) /\ ~PostsAt(t, f)
  BY DEF ActsOn, PostsAt
<1>3. extra \in [Events -> Nat] /\ posts[f] \in Seq(Nat)
  BY Types DEF Inv
<1>4. CASE f = e /\ event[e].status = "sent"
  <2>1. extra'[f] = extra[f] + 1 /\ extra[f] \in Nat /\ Len(posts[f]) \in Nat /\ Len(posts'[f]) = Len(posts[f])
    BY <1>3, <1>4, LenProperties DEF Unanswers
  <2>2. One(PostsAt(t, f)) = 0 /\ One(PostsAt(wk[w], f)) = 0
    BY <1>2 DEF One
  <2>3. Len(posts'[f]) + One(PostsAt(t, f)) + extra[f] + 1 <= Len(posts[f]) + One(PostsAt(wk[w], f)) + extra'[f]
    BY <2>1, <2>2
  <2> QED
    BY <1>1, <2>3, RepliesCount
<1>5. CASE ~(f = e /\ event[e].status = "sent")
  <2>1. extra'[f] = extra[f] /\ posts'[f] = posts[f]
    BY <1>3, <1>5 DEF Unanswers
  <2>2. event[f].status = "sent" => event'[f].status = "sent"
    BY <1>5
  <2> QED
    BY <1>1, <1>2, <2>1, <2>2, RepliesSame
<1> QED
  BY <1>4, <1>5

LEMMA UnanswersType ==
  ASSUME Inv, NEW e \in Events, Unanswers(e)
  PROVE  extra' \in [Events -> Nat]
<1>1. extra \in [Events -> Nat] /\ extra[e] + 1 \in Nat
  <2>1. extra \in [Events -> Nat] /\ extra[e] \in Nat
    BY Types DEF Inv
  <2> QED
    BY <2>1
<1> QED
  BY <1>1 DEF Unanswers

LEMMA SkipWriteOk ==
  ASSUME Inv, NEW w \in Workers, SkipWrite(w), UNCHANGED nudgeVars
  PROVE  Inv'
<1>0. PICK e : e = wk[w].job.event
  OBVIOUS
<1>1. /\ wk[w].pc = "dropping" /\ Mark(e, "skipped") /\ Unanswers(e) /\ wk' = [wk EXCEPT ![w] = Idle]
      /\ queue' = queue /\ Alone /\ UNCHANGED <<drafts, shown, posts, beside>>
  BY <1>0 DEF SkipWrite, At, Done, Go
<1>2. e \in Events
  BY <1>0, <1>1 DEF Inv, DraftsOk, Drafting, JobOk
<1>3. /\ event' \in [Events -> [status : Statuses, draft : Nat]]
      /\ event'[e].status = "skipped" /\ event'[e].draft = event[e].draft
      /\ \A f \in Events : f # e => event'[f] = event[f]
  BY <1>1, <1>2, MarkOk DEF Statuses
<1>4. GoesTo(w, Idle)
  BY <1>1, IdleStep
<1>5. InboxStep(w, Idle)
  BY <1>1, <1>2, <1>3, <1>4, IdleOk, Types, UnanswersType DEF InboxStep, NudgePC, Alone, Inv, ownerVars, rowVars
<1>6. DraftsStay(w, Idle)
  BY <1>1, <1>3, IdleOk, DraftingIdle DEF DraftsStay, Alone, ownerVars
<1>7. RepliesOk'
  BY <1>1, <1>2, <1>3, <1>5, IdleOk, UnanswersOk
<1> QED
  BY <1>1, <1>4, <1>5, <1>6, <1>7, DraftsStayOk, InboxStepOk

LEMMA ActRecordOk ==
  ASSUME Inv, NEW w \in Workers, ActRecord(w), UNCHANGED nudgeVars
  PROVE  Inv'
<1>1. /\ wk[w].pc = "posted" /\ Mark(wk[w].job.event, "sent") /\ wk' = [wk EXCEPT ![w] = Idle] /\ queue' = queue
      /\ Alone /\ UNCHANGED <<drafts, shown, posts, extra, beside>>
  BY DEF ActRecord, At, Done, Go
<1>2. wk[w].job.event \in Events
  BY <1>1 DEF Inv, DraftsOk, Drafting, JobOk
<1>3. /\ event' \in [Events -> [status : Statuses, draft : Nat]]
      /\ event'[wk[w].job.event].status = "sent" /\ \A f \in Events : event'[f].draft = event[f].draft
      /\ \A f \in Events : f # wk[w].job.event => event'[f] = event[f]
  BY <1>1, <1>2, MarkOk DEF Statuses
<1>4. GoesTo(w, Idle)
  BY <1>1, IdleStep
<1>5. InboxStep(w, Idle)
  BY <1>1, <1>3, <1>4, IdleOk, Types DEF InboxStep, NudgePC, Alone, Inv, ownerVars, rowVars
<1>6. DraftsStay(w, Idle)
  BY <1>1, <1>3, IdleOk, DraftingIdle DEF DraftsStay, Alone, ownerVars
<1>7. RepliesOk'
  BY <1>1, <1>3, <1>5, IdleOk, RepliesStay DEF PostsAt, ActsOn
<1> QED
  BY <1>1, <1>4, <1>5, <1>6, <1>7, DraftsStayOk, InboxStepOk

LEMMA NotifyDraftOk ==
  ASSUME Inv, NEW w \in Workers, NotifyDraft(w), UNCHANGED nudgeVars
  PROVE  Inv'
<1>0. PICK e : e = wk[w].job.event
  OBVIOUS
<1> DEFINE d == drafts + 1
           b == Worded(wk[w], "note", d)
<1>1. /\ wk[w].pc = "draft" /\ queue' = queue /\ Alone /\ UNCHANGED <<event, shown, posts, extra>>
      /\ \/ /\ event[e].status = "new" /\ wk' = [wk EXCEPT ![w] = b] /\ drafts' = d
            /\ beside' = IF Noting(e) THEN beside \union {e} ELSE beside
         \/ wk' = [wk EXCEPT ![w] = Idle] /\ drafts' = drafts /\ beside' = beside
  BY <1>0 DEF NotifyDraft, At, Go, Worded
<1>2. e \in Events /\ wk[w].job.kind = "notify" /\ JobOk(wk[w].job)
  BY <1>0, <1>1 DEF Inv, DraftsOk, Drafting, JobOk
<1>3. d \in Nat /\ d # 0 /\ drafts \in Nat
  <2>1. drafts \in Nat
    BY Types DEF Inv
  <2> QED
    BY <2>1
<1>4. wk[w] \in Task /\ wk[w].sess \in Sessions /\ "note" \in PC
  BY <1>1, HasSession DEF PC
<1>5. /\ b \in Task /\ b.pc = "note" /\ b.job = wk[w].job /\ b.sess = wk[w].sess /\ b.day = wk[w].day
      /\ b.hushed = wk[w].hushed /\ b.text = d
  BY <1>3, <1>4, WordedOk
<1> HIDE DEF b, d
<1>6. CASE wk' = [wk EXCEPT ![w] = Idle] /\ drafts' = drafts /\ beside' = beside
  <2>1. GoesTo(w, Idle)
    BY <1>6, IdleStep
  <2>2. InboxStep(w, Idle)
    BY <1>1, <1>3, <1>6, <2>1, IdleOk, Types DEF InboxStep, NudgePC, Alone, Inv, ownerVars, rowVars
  <2>3. DraftsStay(w, Idle)
    BY <1>1, <1>6, IdleOk, DraftingIdle DEF DraftsStay, Alone, ownerVars
  <2>4. RepliesOk'
    BY <1>1, <2>2, IdleOk, RepliesStay DEF PostsAt, ActsOn
  <2> QED
    BY <1>1, <2>1, <2>2, <2>3, <2>4, DraftsStayOk, InboxStepOk
<1>7. CASE /\ event[e].status = "new" /\ wk' = [wk EXCEPT ![w] = b] /\ drafts' = d
           /\ beside' = IF Noting(e) THEN beside \union {e} ELSE beside
  <2>1. GoesTo(w, b)
    BY <1>1, <1>4, <1>5, <1>7, GoesOn
  <2>2. InboxStep(w, b)
    BY <1>1, <1>3, <1>5, <1>7, <2>1, Types DEF InboxStep, NudgePC, Alone, Inv, ownerVars, rowVars
  <2>3. event[e].draft = 0
    BY <1>2, <1>7 DEF Inv, DraftsOk
  <2>4. Drafting(b)
    BY <1>0, <1>2, <1>3, <1>5, <2>3 DEF Drafting
  <2>5. \A v \in Workers \ {w} : At(v, "note") /\ wk[v].job.event = b.job.event => b.job.event \in beside'
    BY <1>0, <1>5, <1>7 DEF Noting
  <2>6. DraftsStay(w, b)
    BY <1>1, <1>7, <2>4, <2>5 DEF DraftsStay, Alone, ownerVars
  <2>7. RepliesOk'
    BY <1>1, <1>5, <2>2, RepliesStay DEF PostsAt, ActsOn
  <2> QED
    BY <1>1, <2>1, <2>2, <2>6, <2>7, DraftsStayOk, InboxStepOk
<1> QED
  BY <1>1, <1>6, <1>7

\* A draft is written: but for events drafted twice at once it is the first, so nothing
\* was shown of the event before, and nobody taps on it.
LEMMA NotifyWriteOk ==
  ASSUME Inv, NEW w \in Workers, NotifyWrite(w), UNCHANGED nudgeVars
  PROVE  Inv'
<1>0. PICK e, d : e = wk[w].job.event /\ d = wk[w].text
  OBVIOUS
<1> DEFINE t == Turned(wk[w], "offer")
<1>1. /\ wk[w].pc = "note" /\ queue' = queue /\ Alone /\ UNCHANGED <<drafts, shown, posts, beside>>
      /\ wk' = [wk EXCEPT ![w] = t] /\ Unanswers(e)
      /\ event' = [event EXCEPT ![e] = [status |-> "drafted", draft |-> d]]
  BY <1>0 DEF NotifyWrite, At, To, Go, Turned
<1>2. /\ e \in Events /\ wk[w].job.kind = "notify" /\ JobOk(wk[w].job) /\ d # 0
      /\ e \notin beside => event[e].draft = 0
  BY <1>0, <1>1 DEF Inv, DraftsOk, Drafting, JobOk
<1>3. wk[w] \in Task /\ wk[w].sess \in Sessions /\ "offer" \in PC /\ d \in Nat
  BY <1>0, <1>1, HasSession DEF PC, Task
<1>4. /\ t \in Task /\ t.pc = "offer" /\ t.job = wk[w].job /\ t.sess = wk[w].sess /\ t.day = wk[w].day
      /\ t.hushed = wk[w].hushed /\ t.text = d
  BY <1>0, <1>3, TurnedOk
<1> HIDE DEF t
<1>5. /\ event' \in [Events -> [status : Statuses, draft : Nat]]
      /\ event'[e].status = "drafted" /\ event'[e].draft = d
      /\ \A f \in Events : f # e => event'[f] = event[f]
  <2>1. event \in [Events -> [status : Statuses, draft : Nat]]
    BY Types DEF Inv
  <2>2. [status |-> "drafted", draft |-> d] \in [status : Statuses, draft : Nat]
    BY <1>3 DEF Statuses
  <2> QED
    BY <1>1, <1>2, <2>1, <2>2
<1>6. GoesTo(w, t)
  BY <1>1, <1>3, <1>4, GoesOn
<1>7. wk'[w] = t /\ \A v \in Workers : v # w => wk'[v] = wk[v]
  BY <1>6, Gone DEF Inv
<1>8. InboxStep(w, t)
  BY <1>1, <1>2, <1>4, <1>5, <1>6, Types, UnanswersType DEF InboxStep, NudgePC, Alone, Inv, ownerVars, rowVars
<1>9. e \notin beside => \A x : <<e, x>> \notin shown
  <2> SUFFICES ASSUME e \notin beside, NEW x, <<e, x>> \in shown PROVE FALSE
    OBVIOUS
  <2>1. ShownOk(<<e, x>>)
    BY DEF Inv, DraftsOk
  <2> QED
    BY <1>2, <2>1 DEF ShownOk
<1>10. UNCHANGED <<shown, posts, beside, hook>>
  BY <1>1 DEF Alone, ownerVars
<1>11. DraftsOk'
  <2>1. \A j : JobOk(j) => JobOk(j)'
    BY <1>5, <1>9, <1>10 DEF JobOk
  <2>2. \A p \in shown' : ShownOk(p)'
    <3> SUFFICES ASSUME NEW p \in shown PROVE ShownOk(p)'
      BY <1>10
    <3>1. PICK f \in Events, x \in Nat : p = <<f, x>> /\ (f \notin beside => x = event[f].draft /\ x # 0)
      BY DEF Inv, DraftsOk, ShownOk
    <3>2. f \notin beside => event'[f] = event[f]
      BY <1>5, <1>9, <3>1
    <3> QED
      BY <1>10, <3>1, <3>2 DEF ShownOk
  <2>3. \A f \in Events : event'[f].status \in {"none", "new"} => event'[f].draft = 0
    BY <1>5 DEF Inv, DraftsOk
  <2>4. ASSUME NEW v \in Workers
        PROVE  Drafting(wk[v])'
    <3>1. JobOk(wk[v].job) /\ Drafting(wk[v])
      BY DEF Inv, DraftsOk, Drafting
    <3>2. CASE v = w
      <4>1. JobOk(wk[v].job)'
        BY <1>4, <1>7, <2>1, <3>1, <3>2 DEF JobOk
      <4> QED
        BY <1>0, <1>2, <1>4, <1>5, <1>7, <3>2, <4>1 DEF Drafting
    <3>3. CASE v # w
      <4>1. wk'[v] = wk[v]
        BY <1>7, <3>3
      <4>2. wk[v].pc \in {"note", "offer"} /\ wk[v].job.event \notin beside => wk[v].job.event # e
        BY <1>0, <1>1, <1>2, <3>1, <3>3 DEF Drafting, Inv, DraftsOk, OneNotes, At
      <4>3. JobOk(wk[v].job)'
        BY <2>1, <3>1, <4>1 DEF JobOk
      <4>4. wk[v].pc \in {"note", "offer"} /\ wk[v].job.event \notin beside
              => event'[wk[v].job.event] = event[wk[v].job.event]
        BY <1>5, <3>1, <4>2 DEF Drafting, JobOk
      <4> QED
        BY <1>10, <3>1, <4>1, <4>3, <4>4 DEF Drafting
    <3> QED
      BY <3>2, <3>3
  <2>5. DraftShownIsPosted'
    BY <1>10 DEF Inv, DraftsOk, DraftShownIsPosted
  <2>6. \A j \in queue' : JobOk(j)'
    BY <1>1, <2>1 DEF Inv, DraftsOk
  <2>7. \A h \in Hooks : Tapped(hook[h])'
    BY <1>5, <1>9, <1>10 DEF Inv, DraftsOk, Tapped
  <2>8. OneNotes'
    BY <1>4, <1>7, <1>10 DEF Inv, DraftsOk, OneNotes, At
  <2> QED
    BY <2>2, <2>3, <2>4, <2>5, <2>6, <2>7, <2>8 DEF DraftsOk
<1>12. RepliesOk'
  BY <1>1, <1>2, <1>4, <1>5, <1>8, UnanswersOk
<1> QED
  BY <1>8, <1>11, <1>12, InboxStepOk

LEMMA ActReadOk ==
  ASSUME Inv, NEW w \in Workers, NEW j \in queue, ActRead(w, j), UNCHANGED nudgeVars
  PROVE  Inv'
<1> DEFINE e == j.event
           x == IF j.action = "custom" THEN 0 ELSE event[e].draft
           t == Answer(j, x)
<1>1. /\ wk[w].pc = "idle" /\ j.kind = "act" /\ j.action \in {"send", "custom"} /\ queue' \subseteq queue
      /\ Alone /\ UNCHANGED <<event, drafts, shown, posts, beside>>
      /\ \/ /\ event[e].status # "sent" /\ wk' = [wk EXCEPT ![w] = t]
            /\ extra' = [extra EXCEPT ![e] = IF Acting(e) THEN extra[e] + 1 ELSE extra[e]]
         \/ UNCHANGED <<wk, extra>>
  BY DEF ActRead, Takes, At, Go, Posts, Answer
<1>2. j \in Job /\ OfSession(j) /\ JobOk(j) /\ e \in Events
  BY <1>1, JobsOk DEF JobOk
<1>3. x \in Nat /\ (x # 0 /\ e \notin beside => <<e, x>> \in shown)
  <2>1. event[e] \in [status : Statuses, draft : Nat]
    BY <1>2, Types DEF Inv
  <2>2. event[e].draft \in Nat
    BY <2>1
  <2> QED
    BY <1>1, <1>2, <2>2 DEF JobOk
<1>4. t \in Task /\ t.pc = "post" /\ t.job = j /\ t.text = x /\ t.day = 0 /\ ~t.hushed
  BY <1>2, <1>3, AnswerOk
<1> HIDE DEF t, x
<1>5. CASE UNCHANGED <<wk, extra>>
  <2>1. wk' = [wk EXCEPT ![w] = wk[w]]
    BY <1>5, Types DEF Inv
  <2>2. GoesTo(w, wk[w])
    BY <2>1, JobsOk DEF GoesTo
  <2>3. InboxStep(w, wk[w])
    BY <1>1, <1>5, <2>2, Types DEF InboxStep, NudgePC, Alone, Inv, ownerVars, rowVars
  <2>4. DraftsStay(w, wk[w])
    BY <1>1 DEF DraftsStay, Inv, DraftsOk, Alone, ownerVars
  <2>5. RepliesOk'
    BY <1>1, <1>5, <2>3, RepliesStay DEF PostsAt, ActsOn
  <2> QED
    BY <1>1, <2>2, <2>3, <2>4, <2>5, DraftsStayOk, InboxStepOk
<1>6. CASE /\ event[e].status # "sent" /\ wk' = [wk EXCEPT ![w] = t]
           /\ extra' = [extra EXCEPT ![e] = IF Acting(e) THEN extra[e] + 1 ELSE extra[e]]
  <2>1. GoesTo(w, t)
    BY <1>2, <1>4, <1>6, SessionConstants DEF GoesTo, TaskOk
  <2>2. /\ extra' \in [Events -> Nat] /\ extra'[e] = (IF Acting(e) THEN extra[e] + 1 ELSE extra[e])
        /\ \A f \in Events : f # e => extra'[f] = extra[f]
    <3> DEFINE y == IF Acting(e) THEN extra[e] + 1 ELSE extra[e]
    <3>1. extra \in [Events -> Nat] /\ extra[e] \in Nat
      BY <1>2, Types DEF Inv
    <3>2. y \in Nat
      BY <3>1
    <3>3. extra' = [extra EXCEPT ![e] = y]
      BY <1>6
    <3> HIDE DEF y
    <3>4. extra' \in [Events -> Nat] /\ extra'[e] = y /\ \A f \in Events : f # e => extra'[f] = extra[f]
      BY <1>2, <3>1, <3>2, <3>3
    <3> QED
      BY <3>4 DEF y
  <2>3. InboxStep(w, t)
    BY <1>1, <1>4, <2>1, <2>2, Types DEF InboxStep, NudgePC, Alone, Inv, ownerVars, rowVars
  <2>4. DraftsStay(w, t)
    BY <1>1, <1>2, <1>3, <1>4 DEF DraftsStay, Drafting, Alone, ownerVars
  <2>5. RepliesOk'
    <3> SUFFICES ASSUME NEW f \in Events
                 PROVE  Len(posts'[f]) + Cardinality(AtPost(f)') <= extra'[f] + One(event'[f].status = "sent" \/ Acting(f)')
      BY DEF RepliesOk, One
    <3>1. posts' \in [Events -> Seq(Nat)] /\ posts'[f] = posts[f] /\ event' = event
      BY <1>1, Types DEF Inv
    <3>2. CASE f # e
      BY <1>1, <1>4, <2>1, <2>2, <3>1, <3>2, RepliesSame DEF PostsAt, ActsOn
    <3>3. CASE f = e
      <4>1. One(PostsAt(t, f)) = 1 /\ One(PostsAt(wk[w], f)) = 0 /\ ActsOn(t, f)
        BY <1>1, <1>4, <3>3 DEF One, PostsAt, ActsOn
      <4>2. Len(posts'[f]) = Len(posts[f]) /\ Len(posts[f]) \in Nat /\ extra[f] \in Nat
        BY <3>1, Types, LenProperties DEF Inv
      <4>3. CASE Acting(e)
        <5>1. extra'[f] = extra[f] + 1
          BY <2>2, <3>3, <4>3
        <5>2. Len(posts'[f]) + One(PostsAt(t, f)) + extra[f] <= Len(posts[f]) + One(PostsAt(wk[w], f)) + extra'[f]
          BY <4>1, <4>2, <5>1
        <5> QED
          BY <2>1, <2>2, <3>1, <4>1, <5>2, RepliesCount
      <4>4. CASE ~Acting(e)
        <5>1. extra'[f] = extra[f] /\ ~(event[f].status = "sent" \/ Acting(f))
          BY <1>6, <2>2, <3>3, <4>4
        <5>2. Len(posts'[f]) + One(PostsAt(t, f)) + extra[f] <= Len(posts[f]) + One(PostsAt(wk[w], f)) + extra'[f] + 1
          BY <4>1, <4>2, <5>1
        <5> QED
          BY <2>1, <2>2, <3>1, <4>1, <5>1, <5>2, RepliesCount
      <4> QED
        BY <4>3, <4>4
    <3> QED
      BY <3>2, <3>3
  <2> QED
    BY <1>1, <2>1, <2>3, <2>4, <2>5, DraftsStayOk, InboxStepOk
<1> QED
  BY <1>1, <1>5, <1>6

LEMMA ActPostOk ==
  ASSUME Inv, NEW w \in Workers, ActPost(w), UNCHANGED nudgeVars
  PROVE  Inv'
<1> DEFINE done == Turned(wk[w], "posted")
<1>0. PICK e, x : e = wk[w].job.event /\ x = wk[w].text
  OBVIOUS
<1>1. /\ wk[w].pc = "post" /\ queue' = queue
      /\ UNCHANGED <<day, ownerVars, rowVars, drafts, shown, beside>>
      /\ \/ posts' = [posts EXCEPT ![e] = Append(posts[e], x)] /\ wk' = [wk EXCEPT ![w] = done] /\ UNCHANGED <<event, extra>>
         \/ Mark(e, "failed") /\ wk' = [wk EXCEPT ![w] = Idle] /\ UNCHANGED <<posts, extra>>
         \/ /\ posts' = [posts EXCEPT ![e] = Append(posts[e], x)] /\ extra' = [extra EXCEPT ![e] = extra[e] + 1]
            /\ Mark(e, "failed") /\ wk' = [wk EXCEPT ![w] = Idle]
  BY <1>0 DEF ActPost, At, To, Go, Turned
<1>2. wk[w].job.kind = "act" /\ e \in Events /\ x \in Nat /\ wk[w] \in Task /\ wk[w].job \in Job
      /\ JobOk(wk[w].job) /\ TaskOk(wk[w]) /\ "posted" \in PC
  BY <1>0, <1>1, JobsOk DEF Inv, DraftsOk, Drafting, JobOk, Task, PC
<1>3. /\ done \in Task /\ done.pc = "posted" /\ done.job = wk[w].job /\ done.day = wk[w].day
      /\ done.hushed = wk[w].hushed
  BY <1>2, TurnedOk
<1> HIDE DEF done
<1>4. posts \in [Events -> Seq(Nat)] /\ extra \in [Events -> Nat] /\ extra[e] \in Nat
      /\ event \in [Events -> [status : Statuses, draft : Nat]] /\ drafts \in Nat
  BY <1>2, Types DEF Inv
<1>5. /\ posts' = [posts EXCEPT ![e] = Append(posts[e], x)] =>
           /\ posts' \in [Events -> Seq(Nat)] /\ posts'[e] = Append(posts[e], x)
           /\ \A f \in Events : f # e => posts'[f] = posts[f]
      /\ Len(Append(posts[e], x)) = Len(posts[e]) + 1 /\ Len(posts[e]) \in Nat
  <2>1. Append(posts[e], x) \in Seq(Nat) /\ Len(Append(posts[e], x)) = Len(posts[e]) + 1 /\ Len(posts[e]) \in Nat
    BY <1>2, PostsAppended
  <2> DEFINE q == Append(posts[e], x)
  <2>2. q \in Seq(Nat)
    BY <2>1
  <2> HIDE DEF q
  <2>3. posts' = [posts EXCEPT ![e] = q] =>
          /\ posts' \in [Events -> Seq(Nat)] /\ posts'[e] = q
          /\ \A f \in Events : f # e => posts'[f] = posts[f]
    BY <1>2, <1>4, <2>2
  <2> QED
    BY <2>1, <2>3 DEF q
<1>6. Mark(e, "failed") =>
        /\ event' \in [Events -> [status : Statuses, draft : Nat]] /\ event'[e].status = "failed"
        /\ event'[e].draft = event[e].draft /\ \A f \in Events : f # e => event'[f] = event[f]
  BY <1>2, MarkOk DEF Statuses
<1>7. One(PostsAt(wk[w], e)) = 1
  BY <1>0, <1>1 DEF One, PostsAt
<1>8. ASSUME NEW t, GoesTo(w, t), t = done \/ t = Idle,
             posts' \in [Events -> Seq(Nat)], extra' \in [Events -> Nat],
             event' \in [Events -> [status : Statuses, draft : Nat]],
             \A f \in Events : event'[f].draft = event[f].draft,
             \A f \in Events : event'[f].status \in {"none", "new"} => event[f].status \in {"none", "new"},
             \A f \in Events : f # e => event'[f] = event[f] /\ posts'[f] = posts[f] /\ extra'[f] = extra[f],
             posts'[e] = posts[e] \/ posts'[e] = Append(posts[e], x),
             Len(posts'[e]) + Cardinality(AtPost(e)') <= extra'[e] + One(event'[e].status = "sent" \/ Acting(e)')
      PROVE  Inv'
  <2>1. t.pc \in {"posted", "idle"} /\ (~t.hushed \/ t.hushed = wk[w].hushed) /\ Drafting(t)
    <3>1. CASE t = Idle
      BY <3>1, IdleOk, DraftingIdle
    <3>2. CASE t = done
      BY <1>2, <1>3, <3>2 DEF Drafting
    <3> QED
      BY <1>8, <3>1, <3>2
  <2>2. InboxStep(w, t)
    BY <1>1, <1>4, <1>8, <2>1 DEF InboxStep, NudgePC
  <2>3. DraftsStay(w, t)
    BY <1>0, <1>1, <1>8, <2>1 DEF DraftsStay, Alone, ownerVars
  <2>4. RepliesOk'
    <3>1. ASSUME NEW f \in Events, f # e
          PROVE  Len(posts'[f]) + Cardinality(AtPost(f)') <= extra'[f] + One(event'[f].status = "sent" \/ Acting(f)')
      <4>1. posts'[f] = posts[f] /\ extra'[f] = extra[f] /\ event'[f] = event[f]
        BY <1>8, <3>1
      <4>2. ~ActsOn(wk[w], f) /\ ~PostsAt(wk[w], f) /\ ~PostsAt(t, f)
        BY <1>0, <2>1, <3>1 DEF ActsOn, PostsAt
      <4> QED
        BY <1>8, <4>1, <4>2, RepliesSame
    <3> QED
      BY <1>8, <3>1 DEF RepliesOk, One
  <2> QED
    BY <1>1, <1>8, <2>2, <2>3, <2>4, DraftsStayOk, InboxStepOk
<1>9. CASE posts' = [posts EXCEPT ![e] = Append(posts[e], x)] /\ wk' = [wk EXCEPT ![w] = done] /\ UNCHANGED <<event, extra>>
  <2>1. GoesTo(w, done)
    BY <1>1, <1>2, <1>3, <1>9 DEF GoesTo, TaskOk
  <2>2. One(PostsAt(done, e)) = 0 /\ ActsOn(done, e)
    BY <1>0, <1>3 DEF One, PostsAt, ActsOn
  <2>3. Len(posts'[e]) + One(PostsAt(done, e)) + extra[e] <= Len(posts[e]) + One(PostsAt(wk[w], e)) + extra'[e]
    <3>1. Len(posts'[e]) = Len(posts[e]) + 1 /\ extra'[e] = extra[e]
      BY <1>5, <1>9
    <3> QED
      BY <1>4, <1>5, <1>7, <2>2, <3>1
  <2>4. posts' \in [Events -> Seq(Nat)] /\ extra' \in [Events -> Nat]
    BY <1>4, <1>5, <1>9
  <2>5. Len(posts'[e]) + Cardinality(AtPost(e)') <= extra'[e] + One(event'[e].status = "sent" \/ Acting(e)')
    BY <1>2, <2>1, <2>2, <2>3, <2>4, RepliesCount
  <2> QED
    BY <1>4, <1>5, <1>8, <1>9, <2>1, <2>4, <2>5
<1>10. CASE Mark(e, "failed") /\ wk' = [wk EXCEPT ![w] = Idle] /\ UNCHANGED <<posts, extra>>
  <2>1. GoesTo(w, Idle)
    BY <1>10, IdleStep
  <2>2. One(PostsAt(Idle, e)) = 0
    BY IdleOk DEF One, PostsAt
  <2>3. Len(posts'[e]) + One(PostsAt(Idle, e)) + extra[e] + 1 <= Len(posts[e]) + One(PostsAt(wk[w], e)) + extra'[e]
    <3>1. Len(posts'[e]) = Len(posts[e]) /\ extra'[e] = extra[e]
      BY <1>10
    <3> QED
      BY <1>4, <1>5, <1>7, <2>2, <3>1
  <2>4. posts' \in [Events -> Seq(Nat)] /\ extra' \in [Events -> Nat]
    BY <1>4, <1>10
  <2>5. Len(posts'[e]) + Cardinality(AtPost(e)') <= extra'[e] + One(event'[e].status = "sent" \/ Acting(e)')
    BY <1>2, <2>1, <2>3, <2>4, RepliesCount
  <2>6. \A f \in Events : event'[f].draft = event[f].draft
                          /\ (event'[f].status \in {"none", "new"} => event[f].status \in {"none", "new"})
    BY <1>6, <1>10
  <2> QED
    BY <1>6, <1>8, <1>10, <2>1, <2>4, <2>5, <2>6
<1>11. CASE /\ posts' = [posts EXCEPT ![e] = Append(posts[e], x)] /\ extra' = [extra EXCEPT ![e] = extra[e] + 1]
            /\ Mark(e, "failed") /\ wk' = [wk EXCEPT ![w] = Idle]
  <2>1. GoesTo(w, Idle)
    BY <1>11, IdleStep
  <2>2. One(PostsAt(Idle, e)) = 0
    BY IdleOk DEF One, PostsAt
  <2>3. /\ extra' \in [Events -> Nat] /\ extra'[e] = extra[e] + 1
        /\ \A f \in Events : f # e => extra'[f] = extra[f]
    BY <1>2, <1>4, <1>11
  <2>4. Len(posts'[e]) + One(PostsAt(Idle, e)) + extra[e] + 1 <= Len(posts[e]) + One(PostsAt(wk[w], e)) + extra'[e]
    <3>1. Len(posts'[e]) = Len(posts[e]) + 1
      BY <1>5, <1>11
    <3> QED
      BY <1>4, <1>5, <1>7, <2>2, <2>3, <3>1
  <2>5. posts' \in [Events -> Seq(Nat)]
    BY <1>5, <1>11
  <2>6. Len(posts'[e]) + Cardinality(AtPost(e)') <= extra'[e] + One(event'[e].status = "sent" \/ Acting(e)')
    BY <1>2, <2>1, <2>3, <2>4, <2>5, RepliesCount
  <2>7. \A f \in Events : event'[f].draft = event[f].draft
                          /\ (event'[f].status \in {"none", "new"} => event[f].status \in {"none", "new"})
    BY <1>6, <1>11
  <2> QED
    BY <1>5, <1>6, <1>8, <1>11, <2>1, <2>3, <2>5, <2>6, <2>7
<1> QED
  BY <1>1, <1>9, <1>10, <1>11

-----------------------------------------------------------------------------
(* Faults and time. *)

LEMMA LostOk ==
  ASSUME Inv, NEW w \in Workers, Lost(w)
  PROVE  Inv'
<1>0. PICK e : e = wk[w].job.event
  OBVIOUS
<1>1. /\ wk[w].pc # "idle" /\ queue' = queue \union {wk[w].job} /\ wk' = [wk EXCEPT ![w] = Idle]
      /\ UNCHANGED <<day, ownerVars, rowVars, event, drafts, shown, posts, beside,
                     suggested, pushed, daily, festive, held>>
      /\ extra' = (IF wk[w].pc = "posted" THEN [extra EXCEPT ![e] = extra[e] + 1] ELSE extra)
      /\ twice' = IF wk[w].pc \in {"record", "write"} THEN twice + 1 ELSE twice
  BY <1>0 DEF Lost, Lose, At, Go, InboxLost, NudgesLost
<1>2. GoesTo(w, Idle)
  BY <1>1, IdleStep
<1>3. wk'[w] = Idle /\ (\A v \in Workers : v # w => wk'[v] = wk[v])
      /\ wk' \in [Workers -> Task] /\ \A v \in Workers : TaskOk(wk'[v])
  BY <1>2, Gone DEF Inv
<1>4. wk[w].job \in Job /\ JobOk(wk[w].job) /\ OfSession(wk[w].job)
  BY <1>1, JobsOk DEF TaskOk
<1>5. wk[w].pc \in {"post", "posted"} => e \in Events
  BY <1>0 DEF Inv, DraftsOk, Drafting, JobOk
<1>6. extra \in [Events -> Nat] /\ posts \in [Events -> Seq(Nat)] /\ twice \in Nat /\ daily \in Nat /\ festive \in Nat
  BY Types DEF Inv
<1>7. /\ extra' \in [Events -> Nat]
      /\ \A f \in Events : extra'[f] = IF ActsOn(wk[w], f) /\ wk[w].pc = "posted" THEN extra[f] + 1 ELSE extra[f]
  <2>1. CASE wk[w].pc = "posted"
    <3>1. extra' = [extra EXCEPT ![e] = extra[e] + 1] /\ e \in Events
      BY <1>1, <1>5, <2>1
    <3>2. extra[e] + 1 \in Nat
      BY <1>6, <3>1
    <3> QED
      BY <1>0, <1>6, <2>1, <3>1, <3>2 DEF ActsOn
  <2>2. CASE wk[w].pc # "posted"
    BY <1>1, <1>6, <2>2
  <2> QED
    BY <2>1, <2>2
<1>8. twice' \in Nat
  BY <1>1, <1>6
<1>9. Typed'
  <2>1. \A j \in queue' : j \in Job /\ OfSession(j)
    BY <1>1, <1>4, JobsOk
  <2> QED
    BY <1>1, <1>3, <1>7, <1>8, <2>1 DEF Typed, IngestOk, Inv, ownerVars, rowVars
<1>10. SessInv'
  <2>1. SessAside
    BY <1>1, <1>3, IdleOk DEF SessAside, ownerVars, rowVars
  <2> QED
    BY <2>1, SessAsideOk DEF Inv
<1>11. DraftsOk'
  <2>1. DraftsStay(w, Idle)
    BY <1>1, IdleOk, DraftingIdle DEF DraftsStay, ownerVars
  <2>2. \A j \in queue' : j \in queue \/ JobOk(j)
    BY <1>1, <1>4
  <2> QED
    BY <1>2, <2>1, <2>2, DraftsStayOk
<1>12. RepliesOk'
  <2> SUFFICES ASSUME NEW f \in Events
               PROVE  Len(posts'[f]) + Cardinality(AtPost(f)') <= extra'[f] + One(event'[f].status = "sent" \/ Acting(f)')
    BY DEF RepliesOk, One
  <2>1. posts' \in [Events -> Seq(Nat)] /\ posts'[f] = posts[f] /\ event'[f] = event[f]
    BY <1>1, <1>6
  <2>2. One(PostsAt(Idle, f)) = 0 /\ ~ActsOn(Idle, f) /\ ~PostsAt(Idle, f)
    BY IdleOk DEF One, PostsAt, ActsOn
  <2>3. Len(posts[f]) \in Nat /\ extra[f] \in Nat /\ Len(posts'[f]) = Len(posts[f])
    BY <1>6, <2>1, LenProperties
  <2>4. CASE ActsOn(wk[w], f)
    <3>1. Len(posts'[f]) + One(PostsAt(Idle, f)) + extra[f] + 1 <= Len(posts[f]) + One(PostsAt(wk[w], f)) + extra'[f]
      <4>1. CASE wk[w].pc = "posted"
        <5>1. extra'[f] = extra[f] + 1 /\ One(PostsAt(wk[w], f)) = 0
          BY <1>7, <2>4, <4>1 DEF One, PostsAt
        <5> QED
          BY <2>2, <2>3, <5>1
      <4>2. CASE wk[w].pc = "post"
        <5>1. extra'[f] = extra[f] /\ One(PostsAt(wk[w], f)) = 1
          BY <1>7, <2>4, <4>2 DEF One, PostsAt, ActsOn
        <5> QED
          BY <2>2, <2>3, <5>1
      <4> QED
        BY <2>4, <4>1, <4>2 DEF ActsOn
    <3> QED
      BY <1>2, <1>7, <2>1, <3>1, RepliesCount
  <2>5. CASE ~ActsOn(wk[w], f)
    <3>1. extra'[f] = extra[f] /\ ~PostsAt(wk[w], f)
      BY <1>7, <2>5 DEF ActsOn, PostsAt
    <3> QED
      BY <1>2, <1>7, <2>1, <2>2, <2>5, <3>1, RepliesSame
  <2> QED
    BY <2>4, <2>5
<1>13. NudgesOk'
  <2>1. Recent' = Recent /\ pushed' = pushed /\ daily' = daily /\ festive' = festive
    BY <1>1 DEF Recent
  <2>2. OfNudge(Idle) /\ Idle.pc \notin DailyPC /\ Idle.pc # "pitch"
    BY IdleOk DEF OfNudge, DailyPC
  <2>3. twice' = twice \/ twice' = twice + 1
    BY <1>1
  <2>4. daily' + Cardinality(BeforeDaily)' <= twice' + One(Recent' \/ DailyRuns')
    <3>1. CASE wk[w].pc \in DailyPC
      <4>1. twice' = twice
        BY <1>1, <3>1 DEF DailyPC
      <4> QED
        BY <1>2, <2>1, <2>2, <3>1, <4>1, DailySent
    <3>2. CASE wk[w].pc \in {"record", "write"}
      <4>1. twice' = twice + 1 /\ One(Idle.pc \in DailyPC) = 0 /\ One(wk[w].pc \in DailyPC) = 0
        BY <1>1, <2>2, <3>2 DEF One, DailyPC
      <4>2. daily' + One(Idle.pc \in DailyPC) + twice + 1 <= daily + One(wk[w].pc \in DailyPC) + twice'
        BY <1>6, <2>1, <4>1
      <4> QED
        BY <1>2, <1>6, <1>8, <2>1, <4>2, DailyCount
    <3>3. CASE wk[w].pc \notin DailyPC \union {"record", "write"}
      <4>1. ~DailyIs(wk[w])
        BY <3>3 DEF DailyIs
      <4> QED
        BY <1>2, <2>1, <2>2, <2>3, <3>3, <4>1, DailySame
    <3> QED
      BY <3>1, <3>2, <3>3
  <2>5. festive' + Cardinality(BeforeFestive)' <= twice' + One(pushed' \/ FestiveRuns')
    <3>1. CASE wk[w].pc = "pitch"
      <4>1. twice' = twice
        BY <1>1, <3>1
      <4> QED
        BY <1>2, <2>1, <2>2, <3>1, <4>1, FestiveSent
    <3>2. CASE wk[w].pc \in {"record", "write"}
      <4>1. twice' = twice + 1 /\ One(Idle.pc = "pitch") = 0 /\ One(wk[w].pc = "pitch") = 0
        BY <1>1, <2>2, <3>2 DEF One
      <4>2. festive' + One(Idle.pc = "pitch") + twice + 1 <= festive + One(wk[w].pc = "pitch") + twice'
        BY <1>6, <2>1, <4>1
      <4> QED
        BY <1>2, <1>6, <1>8, <2>1, <4>2, FestiveCount
    <3>3. CASE wk[w].pc \notin {"pitch", "record", "write"}
      <4>1. ~FestiveIs(wk[w])
        BY <3>3 DEF FestiveIs
      <4> QED
        BY <1>2, <2>1, <2>2, <2>3, <3>3, <4>1, FestiveSame
    <3> QED
      BY <3>1, <3>2, <3>3
  <2> QED
    BY <1>2, <2>2, <2>4, <2>5, NudgesMoved
<1> QED
  BY <1>9, <1>10, <1>11, <1>12, <1>13 DEF Inv

LEMMA RunAgainOk ==
  ASSUME Inv, NEW w \in Workers, RunAgain(w), UNCHANGED <<inboxVars, nudgeVars>>
  PROVE  Inv'
<1>1. /\ wk[w].pc # "idle" /\ queue' = queue \union {wk[w].job}
      /\ UNCHANGED <<day, ownerVars, rowVars, wk>>
  BY DEF RunAgain, At
<1>2. wk[w].job \in Job /\ JobOk(wk[w].job) /\ OfSession(wk[w].job)
  BY <1>1, JobsOk DEF TaskOk
<1>3. \A j \in queue' : j \in Job /\ OfSession(j) /\ (j \in queue \/ JobOk(j))
  BY <1>1, <1>2, JobsOk
<1>4. Typed'
  BY <1>1, <1>3 DEF Typed, IngestOk, inboxVars, nudgeVars, Inv, ownerVars, rowVars
<1>5. InboxAside /\ SessAside /\ NudgesAside
  BY <1>1, <1>3 DEF InboxAside, SessAside, NudgesAside, nudgeVars, ownerVars, rowVars
<1> QED
  BY <1>4, <1>5, InboxAsideOk, SessAsideOk, NudgesAsideOk DEF Inv

LEMMA CloseWindowOk ==
  ASSUME Inv, CloseWindow, UNCHANGED <<inboxVars, nudgeVars>>
  PROVE  Inv'
<1>1. /\ open' = FALSE
      /\ UNCHANGED <<day, sess, rowVars, msgs, armed, queue, wk, hook, crossed, quiet, hijacked>>
  BY DEF CloseWindow
<1>2. Typed'
  BY <1>1 DEF Typed, IngestOk, inboxVars, nudgeVars, Inv, rowVars
<1>3. InboxAside /\ SessAside /\ NudgesAside
  BY <1>1 DEF InboxAside, SessAside, NudgesAside, nudgeVars, ownerVars, rowVars
<1> QED
  BY <1>2, <1>3, InboxAsideOk, SessAsideOk, NudgesAsideOk DEF Inv

LEMMA NextDayOk ==
  ASSUME Inv, NextDay
  PROVE  Inv'
<1>1. /\ day < MAX_DAY /\ day' = day + 1 /\ daily' = 0
      /\ (\A v \in Workers : wk[v].pc = "idle") /\ (\A h \in Hooks : hook[h].pc = "idle")
      /\ UNCHANGED <<ownerVars, rowVars, queue, wk, inboxVars, suggested, pushed, festive, twice, held>>
  BY DEF NextDay, DayPasses, At
<1>2. day \in Nat /\ MAX_DAY \in Nat /\ held \in Nat /\ IDEA_TTL \in Nat /\ twice \in Nat /\ festive \in Nat
  BY Types DEF Inv
<1>3. day' \in 0..MAX_DAY
  BY <1>1, <1>2
<1>4. Typed'
  BY <1>1, <1>3 DEF Typed, IngestOk, inboxVars, Inv, ownerVars, rowVars
<1>5. SessInv'
  <2>1. day' + 1 - held < IDEA_TTL => day + 1 - held < IDEA_TTL
    BY <1>1, <1>2
  <2> QED
    BY <1>1, <2>1 DEF SessInv, Inv, ownerVars, rowVars
<1>6. InboxAside
  BY <1>1 DEF InboxAside, ownerVars
<1>7. NudgesOk'
  <2>1. BeforeDaily' = {} /\ BeforeFestive' = BeforeFestive
    BY <1>1 DEF BeforeDaily, BeforeFestive, DailyPC
  <2>2. Cardinality(BeforeDaily)' = 0
    BY <2>1, FS_EmptySet
  <2>3. FestiveRuns' = FestiveRuns /\ One(Recent' \/ DailyRuns') \in {0, 1}
    BY <1>1 DEF FestiveRuns, FestiveIs, One
  <2>4. daily' + Cardinality(BeforeDaily)' <= twice' + One(Recent' \/ DailyRuns')
    <3> DEFINE o == One(Recent' \/ DailyRuns')
    <3>1. o \in {0, 1} /\ daily' = 0 /\ twice' = twice
      BY <1>1, <2>3
    <3> HIDE DEF o
    <3>2. daily' + Cardinality(BeforeDaily)' <= twice' + o
      BY <1>2, <2>2, <3>1
    <3> QED
      BY <3>2 DEF o
  <2>5. festive' + Cardinality(BeforeFestive)' <= twice' + One(pushed' \/ FestiveRuns')
    BY <1>1, <2>1, <2>3 DEF NudgesOk, Inv
  <2>6. \A v \in Workers : OfNudge(wk'[v])
    BY <1>1 DEF NudgesOk, Inv
  <2> QED
    BY <2>4, <2>5, <2>6 DEF NudgesOk, OfNudge, One
<1> QED
  BY <1>4, <1>5, <1>6, <1>7, InboxAsideOk DEF Inv

-----------------------------------------------------------------------------
(* The theorems. *)

LEMMA InitOk == Init => Inv
<1> SUFFICES ASSUME Init PROVE Inv
  OBVIOUS
<1>1. /\ day = 0 /\ sess = 1 /\ open = TRUE /\ state = [s \in Sessions |-> Blank]
      /\ prefs = [snooze |-> 0, checklist |-> FALSE] /\ msgs = 0
      /\ queue = {} /\ wk = [w \in Workers |-> Idle] /\ hook = [h \in Hooks |-> NoIngest]
      /\ stale = 0 /\ stalePrefs = 0 /\ crossed = 0 /\ quiet = 0 /\ hijacked = {}
      /\ event = [e \in Events |-> [status |-> "none", draft |-> 0]] /\ drafts = 0 /\ shown = {}
      /\ posts = [e \in Events |-> <<>>] /\ extra = [e \in Events |-> 0]
      /\ suggested = 0 /\ ~pushed /\ daily = 0 /\ festive = 0 /\ twice = 0 /\ held = 0
  BY DEF Init, SessionInit, InboxInit, NudgesInit
<1>2. Idle \in Task /\ Idle.pc = "idle" /\ ~Idle.hushed /\ TaskOk(Idle) /\ \A w \in Workers : wk[w] = Idle
  BY <1>1, IdleOk
<1>3. Typed
  <2>1. day \in 0..MAX_DAY /\ sess \in Sessions
    BY <1>1, SessionConstants DEF Sessions
  <2>2. state \in [Sessions -> State] /\ prefs \in Prefs
    BY <1>1, BlankOk
  <2>3. wk \in [Workers -> Task] /\ hook \in [Hooks -> Ingest] /\ \A h \in Hooks : IngestOk(hook[h])
    BY <1>1, <1>2, NoIngestOk
  <2>4. event \in [Events -> [status : Statuses, draft : Nat]]
    BY <1>1 DEF Statuses
  <2>5. posts \in [Events -> Seq(Nat)] /\ extra \in [Events -> Nat]
    BY <1>1
  <2> QED
    BY <1>1, <1>2, <2>1, <2>2, <2>3, <2>4, <2>5 DEF Typed
<1>4. SessInv
  <2>1. state[sess].edit = NoEvent /\ prefs.snooze = 0
    BY <1>1, BlankOk, SessionConstants DEF Sessions
  <2> QED
    BY <1>1, <1>2, <2>1 DEF SessInv
<1>5. \A e \in Events : posts[e] = <<>> /\ extra[e] = 0 /\ event[e].status = "none" /\ event[e].draft = 0
  BY <1>1
<1>6. DraftsOk
  <2>1. \A w \in Workers : Drafting(wk[w])
    BY <1>2, DraftingIdle
  <2>2. DraftShownIsPosted
    BY <1>5 DEF DraftShownIsPosted
  <2>3. OneNotes /\ \A h \in Hooks : Tapped(hook[h])
    BY <1>1, <1>2, NoIngestOk DEF OneNotes, At
  <2> QED
    BY <1>1, <1>5, <2>1, <2>2, <2>3 DEF DraftsOk
<1>7. RepliesOk
  <2>1. ASSUME NEW e \in Events
        PROVE  Len(posts[e]) = 0 /\ AtPost(e) = {} /\ extra[e] = 0
    BY <1>2, <1>5 DEF AtPost, PostsAt
  <2>2. Cardinality({}) = 0
    BY FS_EmptySet
  <2>3. ASSUME NEW e \in Events
        PROVE  Len(posts[e]) + Cardinality(AtPost(e)) <= extra[e] + One(event[e].status = "sent" \/ Acting(e))
    <3>1. Len(posts[e]) + Cardinality(AtPost(e)) = 0 /\ extra[e] = 0
      <4>1. Len(posts[e]) = 0 /\ Cardinality(AtPost(e)) = 0 /\ extra[e] = 0
        BY <2>1, <2>2, Zenon
      <4> QED
        BY <4>1
    <3>2. One(event[e].status = "sent" \/ Acting(e)) \in {0, 1}
      BY DEF One
    <3> QED
      BY <3>1, <3>2
  <2> QED
    BY <2>3 DEF RepliesOk
<1>8. NudgesOk
  <2>1. BeforeDaily = {} /\ BeforeFestive = {} /\ Cardinality({}) = 0
    BY <1>2, FS_EmptySet DEF BeforeDaily, BeforeFestive, DailyPC
  <2>2. \A w \in Workers : OfNudge(wk[w])
    BY <1>2 DEF OfNudge
  <2> QED
    BY <1>1, <2>1, <2>2 DEF NudgesOk, One
<1> QED
  BY <1>3, <1>4, <1>6, <1>7, <1>8 DEF Inv

LEMMA TapOk ==
  ASSUME Inv, NEW kind \in {"send", "edit_prompt", "drop"}, NEW e \in Events, Tap(kind, e), UNCHANGED nudgeVars
  PROVE  Inv'
<1>1. PICK d \in 1..drafts : <<e, d>> \in shown
  BY DEF Tap
<1>2. e \notin beside => <<e, event[e].draft>> \in shown
  <2>1. ShownOk(<<e, d>>)
    BY <1>1 DEF Inv, DraftsOk
  <2> QED
    BY <1>1, <2>1 DEF ShownOk
<1>3. kind \in Kinds
  BY DEF Kinds
<1> QED
  BY <1>2, <1>3, InboundReadOk DEF Tap

LEMMA OwnerWritesOk ==
  ASSUME Inv, OwnerWrites
  PROVE  Inv'
<1>1. PICK kind \in {"text", "photo"} \union (IF daily + festive + suggested > 0 THEN {"make", "skip"} ELSE {}) :
        InboundRead(kind, NoEvent)
  BY DEF OwnerWrites
<1>2. kind \in {"text", "photo", "make", "skip"}
  BY <1>1
<1>3. kind \in Kinds
  BY <1>2 DEF Kinds
<1> QED
  BY <1>1, <1>2, <1>3, InboundReadOk DEF OwnerWrites

LEMMA WorksOk ==
  ASSUME Inv, NEW w \in Workers,
         \/ InboxWorks(w) /\ UNCHANGED nudgeVars
         \/ NudgesWork(w) /\ UNCHANGED inboxVars
  PROVE  Inv'
<1>1. CASE InboxWorks(w) /\ UNCHANGED nudgeVars
  <2>1. CASE \E j \in queue : NotifyRead(w, j) \/ ActQuick(w, j) \/ ActRead(w, j)
    BY <1>1, <2>1, NotifyReadOk, ActQuickOk, ActReadOk
  <2>2. CASE NotifyDraft(w) \/ NotifyWrite(w) \/ NotifySend(w)
    BY <1>1, <2>2, NotifyDraftOk, NotifyWriteOk, NotifySendOk
  <2>3. CASE SkipRead(w) \/ SkipWrite(w) \/ ActPost(w) \/ ActRecord(w)
    BY <1>1, <2>3, SkipReadOk, SkipWriteOk, ActPostOk, ActRecordOk
  <2> QED
    BY <1>1, <2>1, <2>2, <2>3 DEF InboxWorks
<1>2. CASE NudgesWork(w) /\ UNCHANGED inboxVars
  <2>1. CASE \E j \in queue : TurnRead(w, j) \/ DailyCheck(w, j) \/ FestivalCheck(w, j)
    BY <1>2, <2>1, TurnReadOk, DailyCheckOk, FestivalCheckOk
  <2>2. CASE TurnActs(w) \/ TurnWrites(w) \/ Checklist(w)
    BY <1>2, <2>2, TurnActsOk, TurnWritesOk, ChecklistOk
  <2>3. CASE DailyPick(w) \/ WeekSent(w) \/ DailySend(w) \/ DailyRead(w) \/ DailyRecord(w)
    BY <1>2, <2>3, DailyPickOk, WeekSentOk, DailySendOk, DailyReadOk, DailyRecordOk
  <2>4. CASE FestivalSend(w) \/ FestivalRead(w) \/ FestivalRecord(w)
    BY <1>2, <2>4, FestivalSendOk, FestivalReadOk, FestivalRecordOk
  <2> QED
    BY <1>2, <2>1, <2>2, <2>3, <2>4 DEF NudgesWork
<1> QED
  BY <1>1, <1>2

LEMMA StepOk == Inv /\ [Next]_vars => Inv'
<1> SUFFICES ASSUME Inv, [Next]_vars PROVE Inv'
  OBVIOUS
<1>1. CASE OwnerWrites
  BY <1>1, OwnerWritesOk
<1>2. CASE InboxTaps /\ UNCHANGED nudgeVars
  BY <1>2, TapOk DEF InboxTaps
<1>3. CASE (\E e \in Events : Record(e)) /\ UNCHANGED nudgeVars
  BY <1>3, RecordOk
<1>4. CASE FestivalSweep /\ UNCHANGED inboxVars
  BY <1>4, FestivalSweepOk
<1>5. ASSUME NEW w \in Workers,
             \/ InboxWorks(w) /\ UNCHANGED nudgeVars
             \/ NudgesWork(w) /\ UNCHANGED inboxVars
      PROVE  Inv'
  BY <1>5, WorksOk
<1>6. ASSUME NEW w \in Workers, Lost(w)
      PROVE  Inv'
  BY <1>6, LostOk
<1>7. ASSUME NEW w \in Workers, RunAgain(w) /\ UNCHANGED <<inboxVars, nudgeVars>>
      PROVE  Inv'
  BY <1>7, RunAgainOk
<1>8. CASE CloseWindow /\ UNCHANGED <<inboxVars, nudgeVars>>
  BY <1>8, CloseWindowOk
<1>9. CASE NextDay
  BY <1>9, NextDayOk
<1>10. CASE UNCHANGED vars
  <2>1. UNCHANGED <<sessVars, inboxVars, nudgeVars>>
    BY <1>10 DEF vars
  <2>2. Typed'
    BY <2>1 DEF Typed, IngestOk, sessVars, inboxVars, nudgeVars, Inv, ownerVars, rowVars
  <2>3. InboxAside /\ SessAside /\ NudgesAside
    BY <2>1 DEF InboxAside, SessAside, NudgesAside, sessVars, nudgeVars, ownerVars, rowVars
  <2> QED
    BY <2>2, <2>3, InboxAsideOk, SessAsideOk, NudgesAsideOk DEF Inv
<1>11. CASE Webhook /\ UNCHANGED <<inboxVars, nudgeVars>>
  BY <1>11, WebhookOk
<1> QED
  BY <1>1, <1>2, <1>3, <1>4, <1>5, <1>6, <1>7, <1>8, <1>9, <1>10, <1>11 DEF Next

LEMMA Reached == Spec => []Inv
<1>1. Init => Inv
  BY InitOk
<1>2. Inv /\ [Next]_vars => Inv'
  BY StepOk
<1> QED
  BY <1>1, <1>2, PTL DEF Spec

\* A comment is answered at most once more often than runs of ig_action were lost after the
\* post or ran beside another one, and its record was written over (handlers.py: ig_action,
\* whose gate is the status, read without a lock).
THEOREM AnsweredOnce == Spec => []RepliedOnce
<1>1. Inv => RepliedOnce
  <2> SUFFICES ASSUME Inv, NEW e \in Events
               PROVE  Len(posts[e]) <= 1 + extra[e]
    BY DEF RepliedOnce
  <2> DEFINE n == Len(posts[e])  c == Cardinality(AtPost(e))  x == extra[e]
             o == One(event[e].status = "sent" \/ Acting(e))
  <2>1. n + c <= x + o
    BY DEF Inv, RepliesOk
  <2>2. posts[e] \in Seq(Nat) /\ x \in Nat
    BY Types DEF Inv
  <2>3. n \in Nat
    BY <2>2, LenProperties
  <2>4. IsFiniteSet(AtPost(e))
    BY SessionConstants, FS_Subset DEF AtPost
  <2>5. c \in Nat
    BY <2>4, FS_CardinalityType
  <2>6. o \in {0, 1}
    BY DEF One
  <2> HIDE DEF n, c, x, o
  <2>7. n <= 1 + x
    BY <2>1, <2>2, <2>3, <2>5, <2>6
  <2> QED
    BY <2>7 DEF n, x
<1> QED
  BY <1>1, Reached, PTL

\* What a tap on Send posts is a draft the owner was sent (service.py: the owner's tap is the
\* gate), however taps, drafts and second runs of a job interleave, but for events that two
\* runs of ig_event_notify drafted beside each other.
THEOREM OnlyShownIsPosted == Spec => []DraftShownIsPosted
<1>1. Inv => DraftShownIsPosted
  BY DEF Inv, DraftsOk
<1> QED
  BY <1>1, Reached, PTL

\* A message of the owner becomes a public reply only right after their tap on Edit, but for
\* a write of the session's state that was stale, and for messages taken in beside the one
\* that changed the edit (ingest.py: _ig_action; repo.py: touch_session).
THEOREM NoReplyHijacked == Spec => []HijackOnlyByOvertaking
<1>1. Inv => HijackOnlyByOvertaking
  <2> SUFFICES ASSUME Inv, stale = 0, crossed = 0 PROVE hijacked = {}
    BY Types DEF HijackOnlyByOvertaking, Inv
  <2> QED
    BY DEF Inv, SessInv
<1> QED
  BY <1>1, Reached, PTL

\* One idea a day and one offer for the festival, but for the runs that were lost before the
\* record or began beside another (handlers.py: daily_suggestion, festival_push).
THEOREM OneNudge == Spec => []NudgedOnce
<1>1. Inv => NudgedOnce
  <2> SUFFICES ASSUME Inv PROVE daily <= 1 + twice /\ festive <= 1 + twice
    BY DEF NudgedOnce
  <2> DEFINE b == Cardinality(BeforeDaily)  c == Cardinality(BeforeFestive)
             o == One(Recent \/ DailyRuns)  p == One(pushed \/ FestiveRuns)
  <2>1. daily + b <= twice + o /\ festive + c <= twice + p
    BY DEF Inv, NudgesOk
  <2>2. IsFiniteSet(BeforeDaily) /\ IsFiniteSet(BeforeFestive)
    BY SessionConstants, FS_Subset DEF BeforeDaily, BeforeFestive
  <2>3. b \in Nat /\ c \in Nat
    BY <2>2, FS_CardinalityType
  <2>4. o \in {0, 1} /\ p \in {0, 1}
    BY DEF One
  <2>5. daily \in Nat /\ festive \in Nat /\ twice \in Nat
    BY Types DEF Inv
  <2> HIDE DEF b, c, o, p
  <2> QED
    BY <2>1, <2>3, <2>4, <2>5
<1> QED
  BY <1>1, Reached, PTL

\* An offer that is recorded stays on the newest session until it is taken, replaced or too
\* old, over any number of sessions (repo.py: _carry_over), unless a write was stale.
THEOREM OffersStay == Spec => []IdeasKept
<1>1. Inv => IdeasKept
  BY DEF Inv, SessInv, IdeasKept
<1> QED
  BY <1>1, Reached, PTL

\* No nudge begins in the days the owner asked for silence, unless a write of template_prefs
\* was stale (votes.py: snooze_nudge, nudge_snoozed).
THEOREM SilenceKept == Spec => []QuietAfterNotToday
<1>1. Inv => QuietAfterNotToday
  BY DEF Inv, SessInv, QuietAfterNotToday
<1> QED
  BY <1>1, Reached, PTL
=============================================================================
