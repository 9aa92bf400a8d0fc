------------------------------ MODULE Session ------------------------------
(***************************************************************************)
(* What the webhook, the inbox and the nudges of one owner share: the      *)
(* WhatsApp sessions with their 24-hour window and their `state`, the      *)
(* brand's template_prefs, and the jobs (db/repo.py: touch_session,        *)
(* _carry_over, latest_session; channels/whatsapp/ingest.py: ingest,       *)
(* _ig_action; insights/votes.py: snooze_nudge).                           *)
(*                                                                         *)
(* Abstractions.                                                           *)
(*  - Time goes by days: a window closes on the day after the owner's last *)
(*    message, an age of exactly a limit may be either side of it.         *)
(*  - state and template_prefs are JSON columns, read and written back     *)
(*    whole, by a worker and by the webhook alike: Hooks are messages that *)
(*    are taken in at the same time.  A SELECT locks nothing; the first    *)
(*    UPDATE locks the row up to the commit, so what follows it is a step. *)
(*  - A job is queued, run and run again as JobQueue has it; a job that    *)
(*    raises or loses its worker goes back, and MAX_FAULTS is less than    *)
(*    MAX_ATTEMPTS.  Drops and duplicates of messages are Conversation's.  *)
(*  - MAX_DAY, MAX_SESSIONS, MAX_MSGS bound days, sessions and messages.   *)
(***************************************************************************)
EXTENDS Integers, Sequences, FiniteSets

CONSTANTS Workers,
          Hooks,             \* messages of the owner that are taken in at the same time
          Events, NoEvent,   \* comments and DMs on Instagram
          SNOOZE,            \* days of "Not today"
          IDEA_TTL,          \* PUSHED_IDEA_TTL, in days
          MAX_DAY, MAX_SESSIONS, MAX_MSGS, MAX_FAULTS

ASSUME SessionConstants ==
  /\ IsFiniteSet(Workers) /\ IsFiniteSet(Hooks)
  /\ NoEvent \notin Events
  /\ SNOOZE \in Nat \ {0} /\ IDEA_TTL \in Nat \ {0}
  /\ MAX_DAY \in Nat /\ MAX_SESSIONS \in Nat \ {0} /\ MAX_MSGS \in Nat /\ MAX_FAULTS \in Nat

VARIABLES day,
          sess,    \* the newest session, the only one not closed
          open,    \* whether its window is
          wrote,   \* the day of the owner's last message
          state,   \* WaSession.state of each session
          prefs,   \* template_prefs: the day the ideas resume, and the checklist
          msgs,    \* messages of the owner so far
          armed,   \* the event whose Edit the last one was a tap on, if it was one
          queue,   \* jobs waiting
          wk,      \* the job of each worker
          faults,
          hook,    \* the message in each hook
          stale,   \* writes of a state, or to a session, that had changed since it was read
          stalePrefs, \* likewise of template_prefs
          crossed, \* messages taken in on an edit, or in a session, that had changed meanwhile
          quiet,   \* the day the owner's own "Not today" ends
          hijacked \* events a message became the reply to that did not follow its Edit tap

ownerVars == <<sess, open, wrote, msgs, armed, hook, crossed, quiet, hijacked>>

rowVars == <<state, prefs, stale, stalePrefs>>

sessVars == <<day, ownerVars, rowVars, queue, wk, faults>>

Sessions == 1..MAX_SESSIONS

State == [edit : Events \union {NoEvent},
          ideas : {"none", "daily", "festival", "asked"},  \* suggestions
          at : 0..(MAX_DAY + 1)]                           \* suggestions_at, 0 for none

Blank == [edit |-> NoEvent, ideas |-> "none", at |-> 0]

Prefs == [snooze : 0..(MAX_DAY + SNOOZE), checklist : BOOLEAN]

Kinds == {"text", "photo", "make", "skip", "send", "edit_prompt", "drop"}

Job == [kind : {"turn", "act", "notify", "daily", "festival"},
        event : Events \union {NoEvent},
        action : {"send", "edit_prompt", "drop", "custom", "none"},
        n : Nat,               \* the message, or the day, that the job is of
        sess : 0..MAX_SESSIONS]

NoJob == [kind |-> "turn", event |-> NoEvent, action |-> "none", n |-> 0, sess |-> 0]

PC == {"idle",
       "draft", "note", "offer", "drop", "dropping", "post", "posted",
       "turn", "take", "suggest", "prefs", "pick", "week", "line", "pitch", "record", "write"}

Task == [pc : PC, job : Job,
         sess : 0..MAX_SESSIONS,   \* the session read
         seen : State,             \* its state when it was read
         prefs : Prefs,            \* template_prefs when they were read
         text : Nat,               \* the reply of an inbox job
         free : BOOLEAN,           \* festival: in the window
         day : Nat,                \* festival: now
         hushed : BOOLEAN]         \* the owner had said "Not today" when a nudge was begun

Idle == [pc |-> "idle", job |-> NoJob, sess |-> 0, seen |-> Blank, prefs |-> [snooze |-> 0, checklist |-> FALSE],
         text |-> 0, free |-> FALSE, day |-> 0, hushed |-> FALSE]

Ingest == [pc : {"idle", "read", "prefs"},
           kind : Kinds, event : Events \union {NoEvent}, n : Nat,
           from : Sessions,      \* the session read
           fresh : BOOLEAN,      \* its window is closed: the message opens the next one
           seen : State,         \* its state when it was read
           base : State,         \* what of it the message starts from
           prefs : Prefs]        \* template_prefs when they were read

NoIngest == [pc |-> "idle", kind |-> "text", event |-> NoEvent, n |-> 0, from |-> 1, fresh |-> FALSE,
             seen |-> Blank, base |-> Blank, prefs |-> [snooze |-> 0, checklist |-> FALSE]]

SessionTypeOK ==
  /\ day \in 0..MAX_DAY /\ wrote \in 0..MAX_DAY
  /\ sess \in Sessions /\ open \in BOOLEAN
  /\ state \in [Sessions -> State] /\ prefs \in Prefs
  /\ msgs \in 0..MAX_MSGS /\ armed \in Events \union {NoEvent}
  /\ queue \subseteq Job
  /\ wk \in [Workers -> Task] /\ hook \in [Hooks -> Ingest]
  /\ faults \in 0..MAX_FAULTS /\ stale \in Nat /\ stalePrefs \in Nat /\ crossed \in Nat /\ quiet \in Nat
  /\ hijacked \subseteq Events

\* The owner has just written for the first time.
SessionInit ==
  /\ day = 0 /\ wrote = 0 /\ sess = 1 /\ open = TRUE
  /\ state = [s \in Sessions |-> Blank]
  /\ prefs = [snooze |-> 0, checklist |-> FALSE]
  /\ msgs = 0 /\ armed = NoEvent
  /\ queue = {} /\ wk = [w \in Workers |-> Idle] /\ hook = [h \in Hooks |-> NoIngest]
  /\ faults = 0 /\ stale = 0 /\ stalePrefs = 0 /\ crossed = 0 /\ quiet = 0 /\ hijacked = {}

At(w, pc) == wk[w].pc = pc

Go(w, task) == wk' = [wk EXCEPT ![w] = task]

To(w, pc) == Go(w, [wk[w] EXCEPT !.pc = pc])

Takes(w, kind, j) == At(w, "idle") /\ j \in queue /\ j.kind = kind /\ queue' = queue \ {j}

-----------------------------------------------------------------------------
(* The webhook. *)

\* Mutant: what was pushed is not carried into the session that its tap opens.
CarryOver_Nothing(st) == {Blank}

\* _carry_over: ideas that have a time go with the owner into the next session while
\* they are fresh; nothing else does.
CarryOver(st) ==
  LET age == day + 1 - st.at
      kept == [st EXCEPT !.edit = NoEvent]
  IN IF st.ideas = "none" \/ st.at = 0 \/ age > IDEA_TTL THEN {Blank}
     ELSE IF age = IDEA_TTL THEN {Blank, kept} ELSE {kept}

\* Mutant: only another tap on a draft, or the typed reply, ends an edit.
Edited_KeepsPending(st, kind, e) ==
  CASE kind = "edit_prompt" -> [st EXCEPT !.edit = e]
    [] kind \in {"send", "drop", "text"} -> [st EXCEPT !.edit = NoEvent]
    [] OTHER -> st

\* _ig_action: Edit arms the edit, and every other message disarms it.
Edited(st, kind, e) == [st EXCEPT !.edit = IF kind = "edit_prompt" THEN e ELSE NoEvent]

\* The session a message is in.
SessionOf(i) == IF i.fresh THEN i.from + 1 ELSE i.from

\* The job of a message: a tap on a draft, the text typed after Edit, or a turn.
JobOf(i) ==
  CASE i.kind \in {"send", "edit_prompt", "drop"} ->
         [kind |-> "act", event |-> i.event, action |-> i.kind, n |-> i.n, sess |-> SessionOf(i)]
    [] i.kind = "text" /\ i.base.edit # NoEvent ->
         [kind |-> "act", event |-> i.base.edit, action |-> "custom", n |-> i.n, sess |-> SessionOf(i)]
    [] OTHER -> [kind |-> "turn", event |-> NoEvent, action |-> "none", n |-> i.n, sess |-> SessionOf(i)]

Ingests(h, i) == hook' = [hook EXCEPT ![h] = i]

\* Rows that others wait for: a hook past its first UPDATE has its session's.
Unlocked(s) == \A h \in Hooks : hook[h].pc = "prefs" => hook[h].from # s

\* ingest, of a message or a tap on the buttons of event e: touch_session's SELECT.
InboundRead(kind, e) ==
  /\ msgs < MAX_MSGS /\ msgs' = msgs + 1
  /\ open \/ sess < MAX_SESSIONS
  /\ \E h \in Hooks, st \in IF open THEN {state[sess]} ELSE CarryOver(state[sess]) :
       /\ hook[h].pc = "idle"
       /\ Ingests(h, [NoIngest EXCEPT !.pc = "read", !.kind = kind, !.event = e, !.n = msgs + 1,
                                      !.from = sess, !.fresh = ~open, !.seen = state[sess], !.base = st])
  /\ UNCHANGED <<day, sess, open, wrote, rowVars, armed, queue, wk, faults, crossed, quiet, hijacked>>

\* Another message has opened the next session first: the insert fails, and that
\* session is read instead.
InboundAgain(h) ==
  LET i == hook[h]
  IN /\ i.pc = "read" /\ i.fresh /\ i.from # sess
     /\ Ingests(h, [i EXCEPT !.from = sess, !.fresh = FALSE, !.seen = state[sess], !.base = state[sess]])
     /\ UNCHANGED <<day, sess, open, wrote, rowVars, msgs, armed, queue, wk, faults, crossed, quiet, hijacked>>

\* "Not today" reads the brand with the session's row locked.
InboundPrefs(h) ==
  LET i == hook[h]
  IN /\ i.pc = "read" /\ i.kind = "skip" /\ (i.fresh => i.from = sess) /\ Unlocked(i.from)
     /\ Ingests(h, [i EXCEPT !.pc = "prefs", !.prefs = prefs])
     /\ UNCHANGED <<day, sess, open, wrote, rowVars, msgs, armed, queue, wk, faults, crossed, quiet, hijacked>>

\* From the first UPDATE to the commit: the session is opened or extended, its state is
\* written if _ig_action changes what was read, "Not today" snoozes the nudges, and the
\* job is queued.
Inbound(h) ==
  LET i == hook[h]
      job == JobOf(i)
      new == Edited(i.base, i.kind, i.event)
      writes == i.fresh \/ new # i.base
  IN /\ IF i.kind = "skip" THEN i.pc = "prefs" ELSE i.pc = "read" /\ Unlocked(i.from)
     /\ i.fresh => i.from = sess
     /\ state' = IF writes THEN [state EXCEPT ![SessionOf(i)] = new] ELSE state
     /\ stale' = IF writes /\ (i.from # sess \/ state[i.from] # i.seen) THEN stale + 1 ELSE stale
     /\ crossed' = IF i.from # sess \/ state[i.from].edit # i.seen.edit THEN crossed + 1 ELSE crossed
     /\ sess' = IF i.fresh THEN sess + 1 ELSE sess
     /\ open' = TRUE /\ wrote' = day /\ armed' = IF i.kind = "edit_prompt" THEN i.event ELSE NoEvent
     /\ IF i.kind = "skip"
        THEN /\ prefs' = [i.prefs EXCEPT !.snooze = day + SNOOZE] /\ quiet' = day + SNOOZE
             /\ stalePrefs' = IF prefs # i.prefs THEN stalePrefs + 1 ELSE stalePrefs
        ELSE UNCHANGED <<prefs, quiet, stalePrefs>>
     /\ queue' = queue \union {job}
     /\ hijacked' = IF job.action = "custom" /\ job.event # armed
                    THEN hijacked \union {job.event} ELSE hijacked
     /\ Ingests(h, NoIngest)
     /\ UNCHANGED <<day, msgs, wk, faults>>

Webhook == \E h \in Hooks : InboundAgain(h) \/ InboundPrefs(h) \/ Inbound(h)

-----------------------------------------------------------------------------
(* What workers write back. *)

\* sess.state = {...}: the column as it was read, with the change.
WriteState(w, new) ==
  LET s == wk[w].sess
  IN /\ Unlocked(s)
     /\ state' = [state EXCEPT ![s] = new]
     /\ stale' = IF state[s] # wk[w].seen \/ s # sess THEN stale + 1 ELSE stale

\* brand.template_prefs = {...}, likewise.
WritePrefs(w, new) ==
  /\ prefs' = new
  /\ stalePrefs' = IF prefs # wk[w].prefs THEN stalePrefs + 1 ELSE stalePrefs

\* send_text says no: the window is closed, or the provider refuses it.
Refused ==
  IF open THEN faults < MAX_FAULTS /\ faults' = faults + 1 ELSE UNCHANGED faults

\* The worker is lost, or its job raises: the job is queued again.
Lose(w) ==
  /\ ~At(w, "idle")
  /\ faults < MAX_FAULTS /\ faults' = faults + 1
  /\ queue' = queue \union {wk[w].job}
  /\ Go(w, Idle)
  /\ UNCHANGED <<day, ownerVars, rowVars>>

\* A reaper puts a running job back (JobQueue's OneInstancePerJob).
RunAgain(w) ==
  /\ ~At(w, "idle") /\ wk[w].job \notin queue
  /\ faults < MAX_FAULTS /\ faults' = faults + 1
  /\ queue' = queue \union {wk[w].job}
  /\ UNCHANGED <<day, ownerVars, rowVars, wk>>

-----------------------------------------------------------------------------
(* Time. *)

CloseWindow ==
  /\ open /\ day = wrote + 1
  /\ open' = FALSE
  /\ UNCHANGED <<day, sess, wrote, rowVars, msgs, armed, queue, wk, faults, hook, crossed, quiet, hijacked>>

\* Handlers take seconds.  A job that is due waits over night only for workers that
\* are down, which is a fault.
DayPasses ==
  /\ day < MAX_DAY /\ (\A w \in Workers : At(w, "idle")) /\ (\A h \in Hooks : hook[h].pc = "idle")
  /\ open => day = wrote
  /\ day' = day + 1
  /\ IF \A j \in queue : j.kind = "daily" /\ j.n > day THEN UNCHANGED faults
     ELSE faults < MAX_FAULTS /\ faults' = faults + 1
  /\ UNCHANGED <<ownerVars, rowVars, queue, wk>>
=============================================================================
