---------------------------- MODULE Conversation ----------------------------
(***************************************************************************)
(* One owner's conversation: the webhook stores each message with its job, *)
(* a worker runs the job as a turn of the agent, and the turn stamps the   *)
(* messages its reply answers (channels/whatsapp/ingest.py, send.py,       *)
(* agent/runner.py).                                                       *)
(*                                                                         *)
(* Abstractions.                                                           *)
(*  - The messages table is log, in the order of created_at, which is the  *)
(*    time the row's transaction began and not the time it committed.      *)
(*  - The job of a message keeps what JobLifecycle promises of it; pushes, *)
(*    reaping and promotion are JobQueue's.                                *)
(*  - Sessions are numbered as they are opened; only the newest one can    *)
(*    have an open window.                                                 *)
(*  - A turn is about any message that is not an Instagram tap.  What the  *)
(*    model says, and which tools it calls, is a choice; a tool that sends *)
(*    something is a Line.                                                 *)
(*  - Crashes, refused transactions, failed calls and refused sends cost   *)
(*    one of MAX_FAULTS each; so does a window that expires on a message   *)
(*    whose job has not ended, for that takes a queue stopped for a day.   *)
(*  - MAX_LINES bounds what a turn sends before it ends (agent_max_turns   *)
(*    bounds it in the code), MAX_SESSIONS the sessions.                   *)
(***************************************************************************)
EXTENDS Integers, Sequences, FiniteSets

CONSTANTS Workers,        \* worker instances
          Msgs,           \* inbound messages, by provider message id
          NoMsg,          \* the msg of an outbound row and of an idle worker
          MAX_ATTEMPTS, HISTORY_LIMIT, SAY_BUDGET,
          MAX_LINES, MAX_SESSIONS, MAX_FAULTS

ASSUME ConversationConstants ==
  /\ NoMsg \notin Msgs
  /\ IsFiniteSet(Msgs)
  /\ MAX_ATTEMPTS \in Nat \ {0}
  /\ HISTORY_LIMIT \in Nat \ {0}
  /\ SAY_BUDGET \in Nat
  /\ MAX_LINES \in Nat
  /\ MAX_SESSIONS \in Nat
  /\ MAX_FAULTS \in Nat

VARIABLES inbox,     \* how far the ingest of each message is
          log,       \* rows of messages, in the order of created_at
          answered,  \* messages whose answered_at is set
          live,      \* the newest session, 0 before the first message
          open,      \* its 24-hour window has not expired
          job, tries,   \* status and attempts of each message's job
          wk,        \* the turn each worker is running
          replies,   \* replies and apologies that reached the owner, by message covered
          unstamped, \* those of them whose turn ended without the stamp
          faults

convVars == <<inbox, log, answered, live, open, job, tries, wk, replies, unstamped, faults>>

\* One row: the message, or NoMsg when it is outbound, and its session.
LogRow == [msg : Msgs \union {NoMsg}, sess : 0..MAX_SESSIONS]

PC == {"idle",
       "read",       \* at the top of run_turn
       "loop",       \* between two calls to the model
       "sorry",      \* in the except branch
       "mirror",     \* the provider has answered, record_outbound has not run
       "mark",       \* before _mark_answered
       "finish"}     \* run_turn has returned

Turn == [pc : PC, msg : Msgs \union {NoMsg}, covered : SUBSET Msgs, asked : SUBSET Msgs,
         lines : 0..MAX_LINES, said : Nat, shown : BOOLEAN, told : BOOLEAN]

Free == [pc |-> "idle", msg |-> NoMsg, covered |-> {}, asked |-> {},
         lines |-> 0, said |-> 0, shown |-> FALSE, told |-> FALSE]

TypeOK ==
  /\ inbox \in [Msgs -> {"none", "arriving", "in", "lost"}]
  /\ log \in Seq(LogRow)
  /\ answered \subseteq Msgs
  /\ live \in 0..MAX_SESSIONS
  /\ open \in BOOLEAN
  /\ job \in [Msgs -> {"none", "queued", "running", "done", "dead"}]
  /\ tries \in [Msgs -> 0..MAX_ATTEMPTS]
  /\ wk \in [Workers -> Turn]
  /\ replies \in [Msgs -> Nat]
  /\ unstamped \in [Msgs -> Nat]
  /\ faults \in 0..MAX_FAULTS

Init ==
  /\ inbox = [m \in Msgs |-> "none"]
  /\ log = <<>>
  /\ answered = {}
  /\ live = 0
  /\ open = FALSE
  /\ job = [m \in Msgs |-> "none"]
  /\ tries = [m \in Msgs |-> 0]
  /\ wk = [w \in Workers |-> Free]
  /\ replies = [m \in Msgs |-> 0]
  /\ unstamped = [m \in Msgs |-> 0]
  /\ faults = 0

NoFault == UNCHANGED faults

Fault == faults < MAX_FAULTS /\ faults' = faults + 1

-----------------------------------------------------------------------------
(* The webhook: ingest of one message, and of a message delivered again. *)

jobVars == <<job, tries>>
told == <<replies, unstamped>>

\* The transaction begins: the row it will insert has its place in the order.
Arrive(m) ==
  /\ inbox[m] = "none"
  /\ inbox' = [inbox EXCEPT ![m] = "arriving"]
  /\ log' = Append(log, [msg |-> m, sess |-> 0])
  /\ UNCHANGED <<answered, live, open, jobVars, wk, told, faults>>

\* touch_session: an expired session is closed and another one opened.
Touched == IF open THEN live ELSE live + 1

TouchSession == Touched <= MAX_SESSIONS /\ live' = Touched /\ open' = TRUE

\* Mutant: the job is added after the message's transaction, by a call that is lost.
Store_JobApart(m) ==
  /\ inbox[m] = "arriving"
  /\ TouchSession
  /\ inbox' = [inbox EXCEPT ![m] = "in"]
  /\ log' = [i \in DOMAIN log |-> IF log[i].msg = m THEN [log[i] EXCEPT !.sess = Touched] ELSE log[i]]
  /\ \/ job' = [job EXCEPT ![m] = "queued"] /\ NoFault
     \/ UNCHANGED job /\ Fault
  /\ UNCHANGED <<answered, tries, wk, told>>

\* Message row and job row are committed together, and the session extended.
Store(m) ==
  /\ inbox[m] = "arriving"
  /\ TouchSession
  /\ inbox' = [inbox EXCEPT ![m] = "in"]
  /\ log' = [i \in DOMAIN log |-> IF log[i].msg = m THEN [log[i] EXCEPT !.sess = Touched] ELSE log[i]]
  /\ job' = [job EXCEPT ![m] = "queued"]
  /\ UNCHANGED <<answered, tries, wk, told, faults>>

\* ingest raises: the 200 has gone out, and the provider will not send it again.
Drop(m) ==
  /\ inbox[m] = "arriving"
  /\ inbox' = [inbox EXCEPT ![m] = "lost"]
  /\ Fault
  /\ UNCHANGED <<log, answered, live, open, jobVars, wk, told>>

\* The provider delivers m again: the session is touched before record_message
\* finds the row.
Redeliver(m) ==
  /\ inbox[m] = "in"
  /\ TouchSession
  /\ UNCHANGED <<inbox, log, answered, jobVars, wk, told, faults>>

Settled(m) == inbox[m] \in {"none", "lost"} \/ job[m] \in {"done", "dead"}

\* 24 hours pass without a message.
Expire ==
  /\ open /\ live < MAX_SESSIONS
  /\ open' = FALSE
  /\ IF \A m \in Msgs : Settled(m) THEN NoFault ELSE Fault
  /\ UNCHANGED <<inbox, log, answered, live, jobVars, wk, told>>

-----------------------------------------------------------------------------
(* What a turn reads: recent_messages, _covered and _history. *)

IsOut(row) == row.msg = NoMsg

SessionOf(m) == log[CHOOSE i \in DOMAIN log : log[i].msg = m].sess

\* The committed rows of m's session, by their place in the order ...
Rows(m) == {i \in DOMAIN log : /\ log[i].sess = SessionOf(m)
                               /\ IsOut(log[i]) \/ inbox[log[i].msg] = "in"}

\* ... and the last HISTORY_LIMIT of them.
Recent(m) == {i \in Rows(m) : Cardinality({j \in Rows(m) : j > i}) < HISTORY_LIMIT}

\* Mutant: an outbound row does not end what came before it.
Covered_NoReset(rows, m) == {m} \union {x \in Msgs \ answered : \E k \in rows : log[k].msg = x}

\* _covered: the unanswered messages after the last outbound row, and m itself.
Covered(rows, m) ==
  {m} \union {x \in Msgs \ answered : \E k \in rows :
                /\ log[k].msg = x
                /\ \A l \in rows : l > k => ~IsOut(log[l])}

\* Mutant: the replies at the end of the rows are not dropped.
LastUserTurn_KeepsReplies(rows) ==
  {x \in Msgs : \E k \in rows : log[k].msg = x /\ \A l \in rows : l > k => ~IsOut(log[l])}

\* What _history leaves as the last user turn: replies at the end are dropped,
\* and the messages before them, back to the reply before those, are one turn.
LastUserTurn(rows) ==
  {x \in Msgs : \E k \in rows :
     /\ log[k].msg = x
     /\ \A l, n \in rows : k < l /\ l < n /\ IsOut(log[l]) => IsOut(log[n])}

-----------------------------------------------------------------------------
(* The worker: the job around the turn. *)

Set(w, turn) == wk' = [wk EXCEPT ![w] = turn]

Goto(w, pc) == wk' = [wk EXCEPT ![w].pc = pc]

\* The rest of the state but for w's turn and the faults.
SameBook == UNCHANGED <<inbox, answered, live, open>>

Claim(w, m) ==
  /\ wk[w].pc = "idle"
  /\ job[m] = "queued"
  /\ job' = [job EXCEPT ![m] = "running"]
  /\ tries' = [tries EXCEPT ![m] = @ + 1]
  /\ Set(w, [Free EXCEPT !.pc = "read", !.msg = m])
  /\ SameBook /\ UNCHANGED <<log, told, faults>>

\* Mutant: the attempts are not counted against MAX_ATTEMPTS.
Again_NoLimit(m) == "queued"

Again(m) == IF tries[m] < MAX_ATTEMPTS THEN "queued" ELSE "dead"

\* The handler raises before run_turn has its own try block.
Raise(w) ==
  /\ wk[w].pc = "read"
  /\ job' = [job EXCEPT ![wk[w].msg] = Again(wk[w].msg)]
  /\ Set(w, Free)
  /\ Fault
  /\ SameBook /\ UNCHANGED <<log, tries, told>>

\* One more for each message of S.
Counted(f, S) == [m \in Msgs |-> IF m \in S THEN f[m] + 1 ELSE f[m]]

\* The turn ends without its stamp although its reply reached the owner.
LeaveUnstamped(t) == unstamped' = Counted(unstamped, IF t.told THEN t.covered ELSE {})

\* The instance is lost.
Crash(w) ==
  /\ wk[w].pc # "idle"
  /\ IF wk[w].pc = "finish" THEN UNCHANGED unstamped ELSE LeaveUnstamped(wk[w])
  /\ Set(w, Free)
  /\ Fault
  /\ SameBook /\ UNCHANGED <<log, jobVars, replies>>

\* The reaper finds a running job that no instance holds any more.
Reap(m) ==
  /\ job[m] = "running"
  /\ \A w \in Workers : wk[w].msg # m
  /\ job' = [job EXCEPT ![m] = Again(m)]
  /\ SameBook /\ UNCHANGED <<log, tries, wk, told, faults>>

Finish(w) ==
  /\ wk[w].pc = "finish"
  /\ job' = [job EXCEPT ![wk[w].msg] = "done"]
  /\ Set(w, Free)
  /\ SameBook /\ UNCHANGED <<log, tries, told, faults>>

-----------------------------------------------------------------------------
(* The worker: run_turn and _loop. *)

\* Mutant: a message another turn has answered is not skipped.
Read_NoSkip(w) ==
  /\ wk[w].pc = "read"
  /\ LET rows == Recent(wk[w].msg)
     IN Set(w, [wk[w] EXCEPT !.pc = "loop", !.covered = Covered(rows, wk[w].msg),
                             !.asked = LastUserTurn(rows)])
  /\ SameBook /\ UNCHANGED <<log, jobVars, told, faults>>

\* The first transaction of run_turn; it returns when the message is answered.
Read(w) ==
  /\ wk[w].pc = "read"
  /\ LET m == wk[w].msg
         rows == Recent(m)
     IN IF m \in answered
        THEN Goto(w, "finish")
        ELSE Set(w, [wk[w] EXCEPT !.pc = "loop", !.covered = Covered(rows, m),
                                  !.asked = LastUserTurn(rows)])
  /\ SameBook /\ UNCHANGED <<log, jobVars, told, faults>>

\* record_outbound, in the session of the turn's message; its failure is swallowed.
Mirrored(w) ==
  \/ log' = Append(log, [msg |-> NoMsg, sess |-> SessionOf(wk[w].msg)]) /\ NoFault
  \/ UNCHANGED log /\ Fault

\* A tool shows or says something: sent and mirrored, or held back by the
\* budget or a closed window; the turn does not look at which.
Line(w) ==
  /\ wk[w].pc = "loop" /\ wk[w].asked # {} /\ wk[w].lines < MAX_LINES
  /\ \E counts \in BOOLEAN :
       LET sent == open /\ ~(counts /\ wk[w].said >= SAY_BUDGET)
       IN /\ Set(w, [wk[w] EXCEPT !.lines = @ + 1, !.said = IF counts THEN @ + 1 ELSE @,
                                  !.shown = @ \/ sent])
          /\ IF sent THEN Mirrored(w) ELSE UNCHANGED log /\ NoFault
  /\ SameBook /\ UNCHANGED <<jobVars, told>>

\* Mutant: run_turn has no except branch around _loop's failures.
ModelFails_NoApology(w) ==
  /\ wk[w].pc = "loop"
  /\ Goto(w, "finish")
  /\ IF wk[w].asked = {} THEN NoFault ELSE Fault
  /\ SameBook /\ UNCHANGED <<log, jobVars, told>>

\* The model API refuses, which it does to a history without a user turn.
ModelFails(w) ==
  /\ wk[w].pc = "loop"
  /\ Goto(w, "sorry")
  /\ IF wk[w].asked = {} THEN NoFault ELSE Fault
  /\ SameBook /\ UNCHANGED <<log, jobVars, told>>

\* The owner has been answered on every message the turn covers.
Told(w, pc) ==
  /\ Set(w, [wk[w] EXCEPT !.pc = pc, !.told = TRUE])
  /\ replies' = Counted(replies, wk[w].covered)
  /\ NoFault

\* The turn goes on and the owner has seen no reply.
Untold(w, pc) == Goto(w, pc) /\ UNCHANGED replies

\* send_text: kept back by the closed window; accepted; or refused, which send
\* reports as ok=False and which is mirrored all the same.
SendText(w) ==
  \/ ~open /\ Untold(w, "mark") /\ NoFault
  \/ open /\ Told(w, "mirror")
  \/ open /\ Untold(w, "mirror") /\ Fault

\* The closing reply, or the apology for too many rounds.  The text may be empty:
\* what was shown is then the reply, and only a model at fault has shown nothing.
Reply(w) ==
  /\ wk[w].pc = "loop" /\ wk[w].asked # {}
  /\ \/ SendText(w)
     \/ wk[w].shown /\ Told(w, "mark")
     \/ ~wk[w].shown /\ Untold(w, "mark") /\ Fault
     \/ Untold(w, "sorry") /\ Fault                 \* send_text raises
  /\ SameBook /\ UNCHANGED <<log, jobVars, unstamped>>

\* The apology is one more line within the budget; over it, say holds it back.
Sorry(w) ==
  /\ wk[w].pc = "sorry"
  /\ \/ wk[w].said < SAY_BUDGET /\ SendText(w)
     \/ wk[w].said >= SAY_BUDGET /\ Untold(w, "mark") /\ NoFault
     \/ Untold(w, "finish") /\ Fault                \* send_text raises
  /\ SameBook /\ UNCHANGED <<log, jobVars, unstamped>>

\* record_outbound of the reply.
RecordOutbound(w) ==
  /\ wk[w].pc = "mirror"
  /\ Goto(w, "mark")
  /\ Mirrored(w)
  /\ SameBook /\ UNCHANGED <<jobVars, told>>

\* _mark_answered; an exception in it is swallowed.
MarkAnswered(w) ==
  /\ wk[w].pc = "mark"
  /\ Goto(w, "finish")
  /\ \/ answered' = answered \union wk[w].covered /\ NoFault /\ UNCHANGED unstamped
     \/ UNCHANGED answered /\ Fault /\ LeaveUnstamped(wk[w])
  /\ UNCHANGED <<inbox, live, open, log, jobVars, replies>>

-----------------------------------------------------------------------------
Webhook == \E m \in Msgs : Arrive(m) \/ Store(m) \/ Drop(m) \/ Redeliver(m)

RunTurn(w) ==
  Read(w) \/ Line(w) \/ ModelFails(w) \/ Reply(w) \/ Sorry(w) \/ RecordOutbound(w) \/ MarkAnswered(w)

Works(w) == (\E m \in Msgs : Claim(w, m)) \/ RunTurn(w) \/ Finish(w)

Next ==
  \/ Webhook
  \/ Expire
  \/ \E m \in Msgs : Reap(m)
  \/ \E w \in Workers : Works(w) \/ Raise(w) \/ Crash(w)

Spec == Init /\ [][Next]_convVars

\* Instances work as long as there is work, none of the jobs is overlooked, and
\* the reaper comes round.
Fairness ==
  /\ \A w \in Workers : WF_convVars(RunTurn(w) \/ Finish(w))
  /\ \A m \in Msgs : SF_convVars(\E w \in Workers : Claim(w, m)) /\ WF_convVars(Reap(m))

FairSpec == Spec /\ Fairness

-----------------------------------------------------------------------------
(* Properties *)

\* A message is answered again only when the stamp of an answer was never
\* written: "Answering again would repeat the reply -- and repeat a charged tool
\* call" (runner.py:125-126).  It takes the stamp, the skip and _covered together,
\* whatever outbound rows are missing.
AnsweredOnce == \A m \in Msgs : replies[m] <= 1 + unstamped[m]

\* A turn about one message stamps another only if the model was asked it in
\* that turn: _covered and _history, which read the rows each in its own way,
\* agree on what the reply answers.
StampedWasAsked == \A w \in Workers : wk[w].covered \ {wk[w].msg} \subseteq wk[w].asked

\* As many outbound rows have come behind m in its session as the history has rows,
\* which nothing in the code prevents: an attempt before this one, or the turn of another
\* message, may show a carousel and say things in many rounds, and a row has its place
\* from the time its transaction began.
OutBehind(m) == {j \in DOMAIN log : /\ IsOut(log[j])
                                    /\ \E i \in 1..(j - 1) : log[i].msg = m /\ log[i].sess = log[j].sess}

Outrun(m) == Cardinality(OutBehind(m)) >= HISTORY_LIMIT

\* The model is asked something in every turn that is not outrun: what _history keeps
\* of the rows of a message that is to be answered holds a user turn (runner.py:84-103),
\* however late rows appear, and whatever other turns send and stamp meanwhile.
AskedUnlessOutrun == \A w \in Workers : wk[w].pc = "loop" => wk[w].asked # {} \/ Outrun(wk[w].msg)

\* One failure costs no owner their answer: a message whose job has ended was
\* answered or stamped with an apology, unless two things failed, or its turn may have
\* been outrun and was refused for want of a question.
OneFailureSurvived ==
  \A m \in Msgs : job[m] \in {"done", "dead"} =>
    m \in answered \/ replies[m] > 0 \/ faults >= 2 \/ Outrun(m)

\* The model is never asked without a question.  Refuted: HISTORY_LIMIT lines of our own
\* behind a message cut it out of what its turn is asked.
AskedSomething == \A w \in Workers : wk[w].pc = "loop" => wk[w].asked # {}

\* The job of every stored message ends.
EventuallyHandled == \A m \in Msgs : (inbox[m] = "in") ~> (job[m] \in {"done", "dead"})

\* What this module takes for granted of its jobs is what JobQueue implements.
Queue == INSTANCE JobLifecycle WITH
  Jobs <- Msgs, Unserved <- {}, MaxTries <- MAX_ATTEMPTS, state <- job

JobsAsPromised == Queue!LSpec

\* What a turn asks of the model has not been answered by an earlier turn: the
\* stamp is there so that answering again does not "repeat the reply -- and repeat
\* a charged tool call" (runner.py:126).  One instance is enough to break it.
AskedOnce == \A w \in Workers : wk[w].pc = "loop" => wk[w].asked \intersect answered = {}
=============================================================================
