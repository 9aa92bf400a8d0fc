------------------------------- MODULE Nudges -------------------------------
(***************************************************************************)
(* Ideas that are offered before the owner asks: the daily suggestion, the *)
(* festival push, in the window or as a paid template, and the turns that  *)
(* take an idea up or offer more (queue/handlers.py: daily_suggestion,     *)
(* festival_push; insights/festival_push.py, suggest.py, votes.py;         *)
(* creative/pipeline.py: _schedule_daily_nudge; agent/tools.py).           *)
(*                                                                         *)
(* Abstractions: which ideas there are and how they are worded is data;    *)
(* there is always one.  Whether the photographs are few is a choice.  One *)
(* festival; sweep and push come in the morning hours, the daily idea at   *)
(* NUDGE_HOUR_IST, so what was suggested earlier on the same day was       *)
(* suggested less than 6 hours ago.                                        *)
(***************************************************************************)
EXTENDS Session

CONSTANTS FESTIVAL,   \* its day
          LEAD,       \* PUSH_LEAD_DAYS
          TEMPLATE    \* WA_TEMPLATE_FESTIVAL is set and the month's cap allows one

ASSUME NudgesConstants == FESTIVAL \in Nat /\ LEAD \in Nat \ {0} /\ TEMPLATE \in BOOLEAN

VARIABLES keys,       \* dedupe keys of daily jobs, by day
          swept,      \* the dedupe key of the festival's job is taken
          suggested,  \* day of the last "suggested" event, plus one
          pushed,     \* one of them is the festival's
          daily,      \* daily ideas sent today
          festive,    \* festival offers sent
          twice,      \* runs that can have sent one too many: lost before the record, or
                      \* begun beside another
          held        \* the day an offer was recorded that is neither taken nor replaced, plus one

nudgeVars == <<keys, swept, suggested, pushed, daily, festive, twice, held>>

NudgesTypeOK ==
  /\ keys \subseteq 0..(MAX_DAY + 1) /\ swept \in BOOLEAN
  /\ suggested \in 0..(MAX_DAY + 1) /\ pushed \in BOOLEAN
  /\ daily \in Nat /\ festive \in Nat /\ twice \in Nat
  /\ held \in 0..(MAX_DAY + 1)

NudgesInit ==
  /\ keys = {} /\ swept = FALSE /\ suggested = 0 /\ pushed = FALSE
  /\ daily = 0 /\ festive = 0 /\ twice = 0 /\ held = 0

\* What a step of a worker leaves alone unless it says otherwise.
OwnerAside == UNCHANGED <<day, ownerVars>>

Else == OwnerAside /\ UNCHANGED faults

Ended(w) == Go(w, Idle) /\ UNCHANGED queue

\* Mutant: a snooze is not asked for.
Awake_Always == TRUE

\* nudge_snoozed says no; on the last day the hour decides.
Awake == day >= prefs.snooze

Nudging == \E w \in Workers : wk[w].job.kind \in {"daily", "festival"} /\ ~At(w, "idle")

-----------------------------------------------------------------------------
(* Turns. *)

DailyJob(d) == [kind |-> "daily", event |-> NoEvent, action |-> "none", n |-> d, sess |-> 0]

\* _schedule_daily_nudge: today's slot, or tomorrow's when it has gone.
ScheduleDaily(d) ==
  /\ keys' = keys \union {d}
  /\ queue' = IF d \in keys THEN queue ELSE queue \union {DailyJob(d)}

\* A turn begins; it knows the session of its message.
TurnRead(w, j) ==
  /\ Takes(w, "turn", j)
  /\ Go(w, [Idle EXCEPT !.pc = "turn", !.job = j, !.sess = j.sess])
  /\ Else /\ UNCHANGED <<rowVars, nudgeVars>>

\* It makes a creative, of an idea that is on the session if there is one, or for
\* "Another idea" suggests; or neither.
TurnActs(w) ==
  /\ At(w, "turn")
  /\ \/ /\ \E d \in {day, day + 1} : ScheduleDaily(d)
        /\ Go(w, IF state[wk[w].sess].ideas # "none"
                 THEN [wk[w] EXCEPT !.pc = "take", !.seen = state[wk[w].sess]] ELSE Idle)
        /\ UNCHANGED suggested
     \/ /\ suggested' = day + 1
        /\ Go(w, [wk[w] EXCEPT !.pc = "suggest", !.seen = state[wk[w].sess]])
        /\ UNCHANGED <<keys, queue>>
     \/ Ended(w) /\ UNCHANGED <<keys, suggested>>
  /\ Else /\ UNCHANGED <<rowVars, swept, pushed, daily, festive, twice, held>>

\* _set_session_state: the ideas taken go, those suggested replace them; the time of
\* earlier ones stays.
TurnWrites(w) ==
  /\ wk[w].pc \in {"take", "suggest"}
  /\ WriteState(w, [wk[w].seen EXCEPT !.ideas = IF At(w, "take") THEN "none" ELSE "asked"])
  /\ held' = 0
  /\ Ended(w) /\ Else /\ UNCHANGED <<prefs, stalePrefs, keys, swept, suggested, pushed, daily, festive, twice>>

-----------------------------------------------------------------------------
(* daily_suggestion *)

Begin(w, j, pc) ==
  /\ Go(w, [Idle EXCEPT !.pc = pc, !.job = j, !.sess = sess, !.prefs = prefs, !.free = open,
                        !.day = day, !.hushed = day < quiet])
  /\ twice' = IF Nudging THEN twice + 1 ELSE twice

\* Mutant: what was suggested today does not hold the next idea back.
Recent_Never == FALSE

\* suggested_recently.
Recent == suggested = day + 1

\* The first transaction: not snoozed, nothing suggested for 20 hours, the window open.
\* The brand that has few photographs gets the checklist first, once.
DailyCheck(w, j) ==
  /\ Takes(w, "daily", j) /\ j.n <= day
  /\ \/ Awake /\ ~Recent /\ open /\ \E pc \in {"pick"} \union (IF prefs.checklist THEN {} ELSE {"prefs"}) : Begin(w, j, pc)
     \/ /\ day <= prefs.snooze \/ suggested >= day \/ ~open
        /\ UNCHANGED <<wk, twice>>
  /\ Else /\ UNCHANGED <<rowVars, keys, swept, suggested, pushed, daily, festive, held>>

\* Its commit says that the checklist was sent, and then it is, or not.
Checklist(w) ==
  /\ At(w, "prefs")
  /\ WritePrefs(w, [wk[w].prefs EXCEPT !.checklist = TRUE])
  /\ Ended(w) /\ Else /\ UNCHANGED <<state, stale, nudgeVars>>

\* The second transaction reads session and brand again, an Instagram sync later; on
\* a Monday it writes template_prefs back.
DailyPick(w) ==
  /\ At(w, "pick")
  /\ \E pc \in {"week", "line"} : Go(w, [wk[w] EXCEPT !.pc = pc, !.sess = sess, !.prefs = prefs])
  /\ Else /\ UNCHANGED <<rowVars, queue, nudgeVars>>

WeekSent(w) ==
  /\ At(w, "week")
  /\ WritePrefs(w, wk[w].prefs)
  /\ To(w, "line") /\ Else /\ UNCHANGED <<state, stale, queue, nudgeVars>>

\* send_text: it reaches the phone, or the window has closed or the provider says no
\* and nothing is recorded.
DailySend(w) ==
  /\ At(w, "line")
  /\ \/ open /\ daily' = daily + 1 /\ To(w, "record") /\ UNCHANGED <<queue, faults>>
     \/ Refused /\ Ended(w) /\ UNCHANGED daily
  /\ OwnerAside /\ UNCHANGED <<rowVars, keys, swept, suggested, pushed, festive, twice, held>>

\* The third transaction begins, on the session of the second.
DailyRead(w) ==
  /\ At(w, "record") /\ wk[w].job.kind = "daily"
  /\ Go(w, [wk[w] EXCEPT !.pc = "write", !.seen = state[wk[w].sess]])
  /\ Else /\ UNCHANGED <<rowVars, queue, nudgeVars>>

\* Suggestions and the event; no time is set.
DailyRecord(w) ==
  /\ At(w, "write") /\ wk[w].job.kind = "daily"
  /\ WriteState(w, [wk[w].seen EXCEPT !.ideas = "daily"])
  /\ suggested' = day + 1 /\ held' = 0
  /\ Ended(w) /\ Else /\ UNCHANGED <<prefs, stalePrefs, keys, swept, pushed, daily, festive, twice>>

-----------------------------------------------------------------------------
(* festival_push *)

Due == FESTIVAL - day \in 1..LEAD /\ ~pushed

\* sweep: the dedupe key is of the festival, not of the day.
FestivalSweep ==
  /\ Awake /\ Due /\ ~swept
  /\ swept' = TRUE
  /\ queue' = queue \union {[DailyJob(FESTIVAL) EXCEPT !.kind = "festival"]}
  /\ Else /\ UNCHANGED <<wk, rowVars, keys, suggested, pushed, daily, festive, twice, held>>

\* The same again when the job runs; then in the window, unless something was suggested
\* in the last 6 hours, or by a template.
FestivalCheck(w, j) ==
  /\ Takes(w, "festival", j)
  /\ \/ Awake /\ Due /\ (IF open THEN ~Recent ELSE TEMPLATE) /\ Begin(w, j, "pitch")
     \/ /\ day <= prefs.snooze \/ ~Due \/ (open /\ Recent) \/ (~open /\ ~TEMPLATE)
        /\ UNCHANGED <<wk, twice>>
  /\ Else /\ UNCHANGED <<rowVars, keys, swept, suggested, pushed, daily, festive, held>>

\* A template goes out whatever the window is.
FestivalSend(w) ==
  /\ At(w, "pitch")
  /\ \/ (wk[w].free => open) /\ festive' = festive + 1 /\ To(w, "record") /\ UNCHANGED <<queue, faults>>
     \/ Refused /\ Ended(w) /\ UNCHANGED festive
  /\ OwnerAside /\ UNCHANGED <<rowVars, keys, swept, suggested, pushed, daily, twice, held>>

\* The newest session is asked for again.
FestivalRead(w) ==
  /\ At(w, "record") /\ wk[w].job.kind = "festival"
  /\ Go(w, [wk[w] EXCEPT !.pc = "write", !.sess = sess, !.seen = state[sess]])
  /\ Else /\ UNCHANGED <<rowVars, queue, nudgeVars>>

FestivalRecord(w) ==
  /\ At(w, "write") /\ wk[w].job.kind = "festival"
  /\ WriteState(w, [wk[w].seen EXCEPT !.ideas = "festival", !.at = wk[w].day + 1])
  /\ suggested' = day + 1 /\ pushed' = TRUE /\ held' = wk[w].day + 1
  /\ Ended(w) /\ Else /\ UNCHANGED <<prefs, stalePrefs, keys, swept, daily, festive, twice>>

\* A worker lost after the send and before the record leaves no trace of it.
NudgesLost(w) ==
  twice' = IF wk[w].pc \in {"record", "write"} THEN twice + 1 ELSE twice

-----------------------------------------------------------------------------
NudgesWork(w) ==
  \/ \E j \in queue : TurnRead(w, j) \/ DailyCheck(w, j) \/ FestivalCheck(w, j)
  \/ TurnActs(w) \/ TurnWrites(w)
  \/ Checklist(w) \/ DailyPick(w) \/ WeekSent(w) \/ DailySend(w) \/ DailyRead(w) \/ DailyRecord(w)
  \/ FestivalSend(w) \/ FestivalRead(w) \/ FestivalRecord(w)

-----------------------------------------------------------------------------
(* Properties *)

\* "A nudge that arrives twice is spam" (handlers.py:511): however often the jobs are
\* scheduled, swept, delayed over night and run again, an owner gets one idea a day and
\* one offer for the festival, but for runs that sent and were lost before the record,
\* or that began beside another one.
NudgedOnce == daily <= 1 + twice /\ festive <= 1 + twice

\* The tap on a pushed idea finds it: an offer that is recorded stays on the newest
\* session until it is taken, replaced or IDEA_TTL days old, over any number of windows
\* that close, unless somebody has written over the session's state.
IdeasKept ==
  held # 0 /\ day + 1 - held < IDEA_TTL /\ stale = 0 => state[sess].ideas = "festival"

\* "Not today" buys SNOOZE days of silence: no nudge that begins in them is sent, unless
\* a worker has written over the brand's template_prefs.
QuietAfterNotToday == (\E w \in Workers : wk[w].hushed) => stalePrefs > 0

\* "still sends each owner one offer per festival" (festival_push.py:226): an owner who
\* has not said no and with no fault gets it before the day.
FestivalOffered ==
  day = FESTIVAL /\ faults = 0 /\ quiet = 0 /\ swept
    => festive > 0 \/ (\E j \in queue : j.kind = "festival") \/ Nudging
=============================================================================
