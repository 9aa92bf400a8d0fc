------------------------- MODULE ConversationProofs -------------------------
(***************************************************************************)
(* Theorems about Conversation, for every value of its constants.          *)
(***************************************************************************)
EXTENDS Conversation, FiniteSetTheorems, WellFoundedInduction, TLAPS

-----------------------------------------------------------------------------
(* Types *)

InLog(m) == \E i \in DOMAIN log : log[i].msg = m

\* A message whose ingest has begun has its row; one with a job is stored; a
\* queued job has an attempt left; a busy worker is at a stored message.
TypeInv ==
  /\ TypeOK
  /\ \A m \in Msgs : inbox[m] # "none" => InLog(m)
  /\ \A m \in Msgs : inbox[m] # "in" => job[m] = "none" /\ tries[m] = 0
  /\ \A m \in Msgs : job[m] = "queued" => tries[m] < MAX_ATTEMPTS
  /\ \A w \in Workers : wk[w].pc # "idle" => wk[w].msg \in Msgs /\ inbox[wk[w].msg] = "in"

\* A step that writes neither the messages nor the jobs keeps what TypeInv says of them.
LEMMA RowKept ==
  ASSUME TypeInv, NEW r \in LogRow
  PROVE  /\ Append(log, r) \in Seq(LogRow)
         /\ \A m : InLog(m) => \E i \in DOMAIN Append(log, r) : Append(log, r)[i].msg = m
         /\ \E i \in DOMAIN Append(log, r) : Append(log, r)[i].msg = r.msg
<1>1. log \in Seq(LogRow)
  BY DEF TypeInv, TypeOK
<1>2. /\ Append(log, r) \in Seq(LogRow) /\ Len(Append(log, r)) = Len(log) + 1
      /\ Len(log) \in Nat /\ DOMAIN log = 1..Len(log)
      /\ DOMAIN Append(log, r) = 1..(Len(log) + 1)
      /\ \A i \in DOMAIN log : Append(log, r)[i] = log[i]
      /\ Append(log, r)[Len(log) + 1] = r
  BY <1>1
<1> QED BY <1>2 DEF InLog

\* The session of a message that has a row is a session.
LEMMA SessionTyped ==
  ASSUME TypeInv, NEW m \in Msgs, inbox[m] # "none"
  PROVE  SessionOf(m) \in 0..MAX_SESSIONS
<1>1. PICK i \in DOMAIN log : log[i].msg = m
  BY DEF TypeInv, InLog
<1> DEFINE j == CHOOSE k \in DOMAIN log : log[k].msg = m
<1>2. j \in DOMAIN log
  BY <1>1
<1>3. log \in Seq(LogRow)
  BY DEF TypeInv, TypeOK
<1>4. log[j] \in LogRow
  BY <1>2, <1>3
<1> QED BY <1>4 DEF SessionOf, LogRow

LEMMA FreeTyped == Free \in Turn
  BY ConversationConstants DEF Free, Turn, PC

LEMMA TypeInit == Init => TypeInv
<1> SUFFICES ASSUME Init PROVE TypeInv
  OBVIOUS
<1>1. wk \in [Workers -> Turn] /\ \A w \in Workers : wk[w].pc = "idle"
  BY FreeTyped DEF Init, Free
<1>2. log \in Seq(LogRow) /\ live \in 0..MAX_SESSIONS /\ faults \in 0..MAX_FAULTS
  BY ConversationConstants DEF Init
<1>3. /\ inbox = [m \in Msgs |-> "none"] /\ job = [m \in Msgs |-> "none"]
      /\ tries = [m \in Msgs |-> 0]
  BY DEF Init
<1>4. tries \in [Msgs -> 0..MAX_ATTEMPTS] /\ 0 \in Nat
  BY <1>3, ConversationConstants
<1>5. replies \in [Msgs -> Nat] /\ unstamped \in [Msgs -> Nat] /\ answered = {} /\ open = FALSE
  BY DEF Init
<1>6. TypeOK
  BY <1>1, <1>2, <1>3, <1>4, <1>5 DEF TypeOK
<1> QED BY <1>1, <1>3, <1>6 DEF TypeInv

\* What a step of a worker that only moves on must show.
LEMMA WorkerMoves ==
  ASSUME TypeInv, NEW w \in Workers, wk[w].pc # "idle", NEW t \in Turn, Set(w, t),
         t.pc = "idle" \/ t.msg = wk[w].msg,
         UNCHANGED <<inbox, jobVars, live, open>>,
         answered' \subseteq Msgs, replies' \in [Msgs -> Nat], unstamped' \in [Msgs -> Nat],
         faults' \in 0..MAX_FAULTS,
         log' = log \/ Mirrored(w)
  PROVE  TypeInv'
<1>1. log' \in Seq(LogRow) /\ \A m \in Msgs : InLog(m) => InLog(m)'
  <2>1. CASE log' = log
    BY <2>1 DEF TypeInv, TypeOK, InLog
  <2>2. CASE Mirrored(w) /\ log' # log
    <3> DEFINE r == [msg |-> NoMsg, sess |-> SessionOf(wk[w].msg)]
    <3>1. r \in LogRow
      BY SessionTyped DEF TypeInv, LogRow
    <3>2. log' = Append(log, r)
      BY <2>2 DEF Mirrored
    <3> QED BY SMTT(30), <3>1, <3>2, RowKept DEF InLog
  <2> QED BY <2>1, <2>2
<1>2. wk' \in [Workers -> Turn]
  BY DEF Set, TypeInv, TypeOK
<1>3. \A v \in Workers : wk'[v].pc # "idle" => wk'[v].msg \in Msgs /\ inbox'[wk'[v].msg] = "in"
  BY DEF Set, TypeInv, TypeOK
<1> QED BY <1>1, <1>2, <1>3 DEF TypeInv, TypeOK, jobVars

LEMMA CountedTyped ==
  ASSUME NEW f \in [Msgs -> Nat], NEW S
  PROVE  /\ Counted(f, S) \in [Msgs -> Nat]
         /\ \A m \in Msgs : Counted(f, S)[m] = IF m \in S THEN f[m] + 1 ELSE f[m]
  BY DEF Counted

\* The fault counter stays within its bound.
LEMMA FaultTyped ==
  ASSUME TypeInv, NoFault \/ Fault
  PROVE  faults' \in 0..MAX_FAULTS
  BY ConversationConstants DEF TypeInv, TypeOK, NoFault, Fault

-----------------------------------------------------------------------------
LEMMA TypeWebhook == ASSUME TypeInv, Webhook \/ Expire PROVE TypeInv'
<1> USE ConversationConstants
<1>t. faults' \in 0..MAX_FAULTS
  <2>1. NoFault \/ Fault
    BY DEF Webhook, Expire, Arrive, Store, Drop, Redeliver, NoFault
  <2> QED BY <2>1, FaultTyped
<1>1. ASSUME NEW m \in Msgs, Arrive(m) PROVE TypeInv'
  <2> DEFINE r == [msg |-> m, sess |-> 0]
  <2>1. r \in LogRow /\ r.msg = m
    BY DEF LogRow
  <2>2. log' = Append(log, r)
    BY <1>1 DEF Arrive
  <2> HIDE DEF r
  <2>3. log' \in Seq(LogRow) /\ InLog(m)' /\ \A n \in Msgs : InLog(n) => InLog(n)'
    <3>1. /\ Append(log, r) \in Seq(LogRow)
          /\ \A n : InLog(n) => \E i \in DOMAIN Append(log, r) : Append(log, r)[i].msg = n
          /\ \E i \in DOMAIN Append(log, r) : Append(log, r)[i].msg = r.msg
      BY <2>1, RowKept
    <3> QED BY <2>1, <2>2, <3>1 DEF InLog
  <2>4. inbox' = [inbox EXCEPT ![m] = "arriving"] /\ inbox[m] = "none"
        /\ UNCHANGED <<answered, live, open, job, tries, wk, replies, unstamped>>
    BY <1>1 DEF Arrive, jobVars, told
  <2> QED BY <2>3, <2>4, <1>t DEF TypeInv, TypeOK
<1>2. ASSUME NEW m \in Msgs, Store(m) PROVE TypeInv'
  <2>1. log \in Seq(LogRow) /\ Touched \in 0..MAX_SESSIONS /\ live' \in 0..MAX_SESSIONS
    BY <1>2 DEF Store, TouchSession, Touched, TypeInv, TypeOK
  <2> DEFINE f(i) == IF log[i].msg = m THEN [log[i] EXCEPT !.sess = Touched] ELSE log[i]
  <2>2. log' = [i \in 1..Len(log) |-> f(i)] /\ Len(log) \in Nat /\ DOMAIN log = 1..Len(log)
    BY <1>2, <2>1 DEF Store
  <2>3. \A i \in 1..Len(log) : f(i) \in LogRow /\ f(i).msg = log[i].msg
    <3> SUFFICES ASSUME NEW i \in 1..Len(log) PROVE f(i) \in LogRow /\ f(i).msg = log[i].msg
      OBVIOUS
    <3>1. log[i] \in LogRow
      BY <2>1
    <3>2. [log[i] EXCEPT !.sess = Touched] \in LogRow
          /\ [log[i] EXCEPT !.sess = Touched].msg = log[i].msg
      BY <3>1, <2>1 DEF LogRow
    <3> QED BY <3>1, <3>2
  <2>4. log' \in Seq(LogRow) /\ DOMAIN log' = DOMAIN log
        /\ \A i \in DOMAIN log : log'[i].msg = log[i].msg
    BY <2>2, <2>3
  <2>5. \A n \in Msgs : InLog(n) => InLog(n)'
    BY <2>4 DEF InLog
  <2>6. /\ inbox' = [inbox EXCEPT ![m] = "in"] /\ inbox[m] = "arriving"
        /\ job' = [job EXCEPT ![m] = "queued"] /\ open' = TRUE
        /\ UNCHANGED <<answered, tries, wk, replies, unstamped>>
    BY <1>2 DEF Store, TouchSession, told
  <2>7. TypeOK'
    BY <2>1, <2>4, <2>6, <1>t DEF TypeInv, TypeOK
  <2>8. tries[m] = 0 /\ InLog(m)
    BY <2>6 DEF TypeInv
  <2>9. \A n \in Msgs : inbox'[n] # "none" => InLog(n)'
    BY <2>5, <2>6, <2>8 DEF TypeInv, TypeOK
  <2>10. /\ \A n \in Msgs : inbox'[n] # "in" => job'[n] = "none" /\ tries'[n] = 0
         /\ \A n \in Msgs : job'[n] = "queued" => tries'[n] < MAX_ATTEMPTS
    BY <2>6, <2>8 DEF TypeInv, TypeOK
  <2>11. \A v \in Workers : wk'[v].pc # "idle" => wk'[v].msg \in Msgs /\ inbox'[wk'[v].msg] = "in"
    BY <2>6 DEF TypeInv, TypeOK
  <2> QED BY <2>7, <2>9, <2>10, <2>11 DEF TypeInv
<1>3. ASSUME NEW m \in Msgs, Drop(m) PROVE TypeInv'
  BY <1>3, <1>t DEF Drop, jobVars, told, TypeInv, TypeOK, InLog
<1>4. ASSUME NEW m \in Msgs, Redeliver(m) PROVE TypeInv'
  BY <1>4, <1>t DEF Redeliver, TouchSession, Touched, jobVars, told, TypeInv, TypeOK, InLog
<1>5. CASE Expire
  BY <1>5, <1>t DEF Expire, jobVars, told, TypeInv, TypeOK, InLog
<1> QED BY <1>1, <1>2, <1>3, <1>4, <1>5 DEF Webhook

LEMMA TypeJobs ==
  ASSUME TypeInv, NEW w \in Workers, NEW m \in Msgs,
         Claim(w, m) \/ Raise(w) \/ Crash(w) \/ Reap(m) \/ Finish(w)
  PROVE  TypeInv'
<1> USE ConversationConstants
<1>t. faults' \in 0..MAX_FAULTS
  <2>1. NoFault \/ Fault
    BY DEF Claim, Raise, Crash, Reap, Finish, NoFault
  <2> QED BY <2>1, FaultTyped
<1>s. log' = log /\ inbox' = inbox /\ answered' = answered /\ live' = live /\ open' = open
  BY DEF Claim, Raise, Crash, Reap, Finish, SameBook
<1>1. CASE Claim(w, m)
  <2> DEFINE t == [Free EXCEPT !.pc = "read", !.msg = m]
  <2>1. t \in Turn /\ t.pc = "read" /\ t.msg = m
    BY FreeTyped DEF Free, Turn, PC
  <2>2. inbox[m] = "in" /\ tries[m] < MAX_ATTEMPTS /\ wk' = [wk EXCEPT ![w] = t]
    BY <1>1 DEF Claim, Set, TypeInv
  <2>3. /\ job' = [job EXCEPT ![m] = "running"] /\ tries' = [tries EXCEPT ![m] = @ + 1]
        /\ UNCHANGED <<replies, unstamped>>
    BY <1>1 DEF Claim, told
  <2>4. tries' \in [Msgs -> 0..MAX_ATTEMPTS] /\ wk' \in [Workers -> Turn]
    BY SMTT(30), <2>1, <2>2, <2>3 DEF TypeInv, TypeOK
  <2>5. \A v \in Workers : wk'[v].pc # "idle" => wk'[v].msg \in Msgs /\ inbox'[wk'[v].msg] = "in"
    BY <2>1, <2>2, <1>s DEF TypeInv, TypeOK
  <2> QED BY SMTT(30), <2>2, <2>3, <2>4, <2>5, <1>s, <1>t DEF TypeInv, TypeOK, InLog
<1>2. CASE Raise(w)
  <2> DEFINE n == wk[w].msg
  <2>1. /\ n \in Msgs /\ inbox[n] = "in" /\ wk' = [wk EXCEPT ![w] = Free]
        /\ job' = [job EXCEPT ![n] = Again(n)] /\ UNCHANGED <<tries, replies, unstamped>>
    BY <1>2 DEF Raise, Set, told, TypeInv
  <2>2. Again(n) \in {"queued", "dead"} /\ (Again(n) = "queued" => tries[n] < MAX_ATTEMPTS)
    BY DEF Again
  <2>3. wk' \in [Workers -> Turn] /\ Free.pc = "idle"
    BY <2>1, FreeTyped DEF TypeInv, TypeOK, Free
  <2>4. \A v \in Workers : wk'[v].pc # "idle" => wk'[v].msg \in Msgs /\ inbox'[wk'[v].msg] = "in"
    BY <2>1, <2>3, <1>s DEF TypeInv, TypeOK
  <2> QED BY <2>1, <2>2, <2>3, <2>4, <1>s, <1>t DEF TypeInv, TypeOK, InLog
<1>3. CASE Crash(w)
  <2>1. unstamped' \in [Msgs -> Nat]
    <3>1. UNCHANGED unstamped \/ LeaveUnstamped(wk[w])
      BY <1>3 DEF Crash
    <3> QED BY SMTT(30), <3>1, CountedTyped DEF LeaveUnstamped, TypeInv, TypeOK
  <2>2. Free \in Turn /\ Free.pc = "idle" /\ Set(w, Free) /\ wk[w].pc # "idle"
    BY <1>3, FreeTyped DEF Crash, Free
  <2>3. answered' \subseteq Msgs /\ replies' \in [Msgs -> Nat] /\ UNCHANGED jobVars
    BY <1>3, <1>s DEF Crash, TypeInv, TypeOK
  <2> QED BY <2>1, <2>2, <2>3, <1>s, <1>t, WorkerMoves
<1>4. CASE Reap(m)
  <2>1. /\ job' = [job EXCEPT ![m] = Again(m)] /\ job[m] = "running"
        /\ UNCHANGED <<tries, wk, replies, unstamped>>
    BY <1>4 DEF Reap, told
  <2>2. Again(m) \in {"queued", "dead"} /\ (Again(m) = "queued" => tries[m] < MAX_ATTEMPTS)
    BY DEF Again
  <2> QED BY <2>1, <2>2, <1>s, <1>t DEF TypeInv, TypeOK, InLog
<1>5. CASE Finish(w)
  <2> DEFINE n == wk[w].msg
  <2>1. /\ n \in Msgs /\ inbox[n] = "in" /\ wk' = [wk EXCEPT ![w] = Free]
        /\ job' = [job EXCEPT ![n] = "done"] /\ UNCHANGED <<tries, replies, unstamped>>
    BY <1>5 DEF Finish, Set, told, TypeInv
  <2>3. wk' \in [Workers -> Turn] /\ Free.pc = "idle"
    BY <2>1, FreeTyped DEF TypeInv, TypeOK, Free
  <2>4. \A v \in Workers : wk'[v].pc # "idle" => wk'[v].msg \in Msgs /\ inbox'[wk'[v].msg] = "in"
    BY <2>1, <2>3, <1>s DEF TypeInv, TypeOK
  <2> QED BY <2>1, <2>3, <2>4, <1>s, <1>t DEF TypeInv, TypeOK, InLog
<1> QED BY <1>1, <1>2, <1>3, <1>4, <1>5

\* What a worker holds within run_turn, apart from its message.
LEMMA MovedTurn ==
  ASSUME NEW t \in Turn, NEW p \in PC \ {"idle"}
  PROVE  /\ [t EXCEPT !.pc = p] \in Turn /\ [t EXCEPT !.pc = p].msg = t.msg
         /\ [t EXCEPT !.pc = p, !.told = TRUE] \in Turn
         /\ [t EXCEPT !.pc = p, !.told = TRUE].msg = t.msg
  BY DEF Turn

\* A step of run_turn keeps the worker at its message.
LEMMA TurnSteps ==
  ASSUME TypeInv, NEW w \in Workers, RunTurn(w)
  PROVE  \E u \in Turn : Set(w, u) /\ u.msg = wk[w].msg
<1> USE ConversationConstants
<1> DEFINE t == wk[w]
<1>0. t \in Turn /\ t.msg \in Msgs
  <2>1. t.pc # "idle"
    BY DEF RunTurn, Read, Line, ModelFails, Reply, Sorry, RecordOutbound, MarkAnswered
  <2> QED BY <2>1 DEF TypeInv, TypeOK
<1> USE <1>0
<1>1. CASE Read(w)
  <2>1. CASE t.msg \in answered
    BY ZenonT(60), <1>1, <2>1, MovedTurn DEF Read, Goto, Set, PC
  <2>2. CASE t.msg \notin answered
    <3> DEFINE rows == Recent(t.msg)
               u == [t EXCEPT !.pc = "loop", !.covered = Covered(rows, t.msg),
                              !.asked = LastUserTurn(rows)]
    <3>1. Set(w, u)
      BY <1>1, <2>2 DEF Read
    <3>2. Covered(rows, t.msg) \in SUBSET Msgs /\ LastUserTurn(rows) \in SUBSET Msgs
      BY DEF Covered, LastUserTurn
    <3>3. u \in Turn /\ u.msg = t.msg
      BY <3>2 DEF Turn, PC
    <3> QED BY <3>1, <3>3
  <2> QED BY <2>1, <2>2
<1>2. CASE Line(w)
  <2>1. PICK counts \in BOOLEAN, sent \in BOOLEAN :
          Set(w, [t EXCEPT !.lines = @ + 1, !.said = IF counts THEN @ + 1 ELSE @,
                           !.shown = @ \/ sent])
    BY <1>2 DEF Line
  <2> DEFINE u == [t EXCEPT !.lines = @ + 1, !.said = IF counts THEN @ + 1 ELSE @,
                            !.shown = @ \/ sent]
  <2>2. t.lines < MAX_LINES
    BY <1>2 DEF Line
  <2>3. t.lines + 1 \in 0..MAX_LINES /\ t.said + 1 \in Nat /\ t.said \in Nat
    BY <2>2 DEF Turn
  <2>4. (t.shown \/ sent) \in BOOLEAN
    OBVIOUS
  <2>5. u \in Turn /\ u.msg = t.msg
    BY <2>3, <2>4 DEF Turn
  <2> QED BY <2>1, <2>5
<1>3. CASE ModelFails(w)
  BY <1>3, MovedTurn DEF ModelFails, Goto, Set, PC
<1>4. CASE Reply(w)
  <2>1. PICK p \in PC \ {"idle"} :
          Set(w, [t EXCEPT !.pc = p]) \/ Set(w, [t EXCEPT !.pc = p, !.told = TRUE])
    BY <1>4 DEF Reply, SendText, Told, Untold, Goto, Set, PC
  <2> QED BY <2>1, MovedTurn
<1>5. CASE Sorry(w)
  <2>1. PICK p \in PC \ {"idle"} :
          Set(w, [t EXCEPT !.pc = p]) \/ Set(w, [t EXCEPT !.pc = p, !.told = TRUE])
    BY <1>5 DEF Sorry, SendText, Told, Untold, Goto, Set, PC
  <2> QED BY <2>1, MovedTurn
<1>6. CASE RecordOutbound(w)
  BY <1>6, MovedTurn DEF RecordOutbound, Goto, Set, PC
<1>7. CASE MarkAnswered(w)
  BY <1>7, MovedTurn DEF MarkAnswered, Goto, Set, PC
<1> QED BY <1>1, <1>2, <1>3, <1>4, <1>5, <1>6, <1>7 DEF RunTurn

LEMMA TypeTurn ==
  ASSUME TypeInv, NEW w \in Workers, RunTurn(w)
  PROVE  TypeInv'
<1> USE ConversationConstants
<1> DEFINE t == wk[w]
<1>0. t \in Turn /\ t.pc # "idle" /\ t.msg \in Msgs /\ inbox[t.msg] = "in"
  <2>1. t.pc # "idle"
    BY DEF RunTurn, Read, Line, ModelFails, Reply, Sorry, RecordOutbound, MarkAnswered
  <2> QED BY <2>1 DEF TypeInv, TypeOK
<1>t. faults' \in 0..MAX_FAULTS
  <2>1. NoFault \/ Fault
    BY DEF RunTurn, Read, Line, ModelFails, Reply, Sorry, RecordOutbound, MarkAnswered, NoFault,
           Mirrored, SendText, Told, Untold
  <2> QED BY <2>1, FaultTyped
<1>s. UNCHANGED <<inbox, jobVars, live, open>>
  BY DEF RunTurn, Read, Line, ModelFails, Reply, Sorry, RecordOutbound, MarkAnswered, SameBook
<1>l. log' = log \/ Mirrored(w)
  BY DEF RunTurn, Read, Line, ModelFails, Reply, Sorry, RecordOutbound, MarkAnswered
<1>a. answered' \subseteq Msgs
  <2>1. answered' = answered \/ answered' = answered \union t.covered
    BY DEF RunTurn, Read, Line, ModelFails, Reply, Sorry, RecordOutbound, MarkAnswered, SameBook
  <2> QED BY <2>1, <1>0 DEF TypeInv, TypeOK, Turn
<1>r. replies' \in [Msgs -> Nat] /\ unstamped' \in [Msgs -> Nat]
  <2>1. /\ UNCHANGED replies \/ replies' = Counted(replies, t.covered)
        /\ UNCHANGED unstamped \/ LeaveUnstamped(t)
    BY DEF RunTurn, Read, Line, ModelFails, Reply, Sorry, RecordOutbound, MarkAnswered, told,
           SendText, Told, Untold
  <2>2. replies \in [Msgs -> Nat] /\ unstamped \in [Msgs -> Nat]
    BY DEF TypeInv, TypeOK
  <2>3. replies' \in [Msgs -> Nat]
    BY <2>1, <2>2, CountedTyped
  <2>4. unstamped' \in [Msgs -> Nat]
    BY <2>1, <2>2, CountedTyped DEF LeaveUnstamped
  <2> QED BY <2>3, <2>4
<1>w. \E u \in Turn : Set(w, u) /\ u.msg = t.msg
  BY TurnSteps
<1> QED BY <1>0, <1>t, <1>s, <1>l, <1>a, <1>r, <1>w, WorkerMoves

LEMMA TypeStep == TypeInv /\ [Next]_convVars => TypeInv'
<1> SUFFICES ASSUME TypeInv, [Next]_convVars PROVE TypeInv'
  OBVIOUS
<1>1. CASE Webhook \/ Expire
  BY <1>1, TypeWebhook
<1>2. ASSUME NEW m \in Msgs, Reap(m) PROVE TypeInv'
  <2>1. CASE Workers = {}
    BY <1>2, <2>1 DEF Reap, SameBook, told, Again, TypeInv, TypeOK, InLog
  <2>2. CASE Workers # {}
    BY <1>2, <2>2, TypeJobs
  <2> QED BY <2>1, <2>2
<1>3. ASSUME NEW w \in Workers, Works(w) \/ Raise(w) \/ Crash(w) PROVE TypeInv'
  <2>1. CASE \E m \in Msgs : Claim(w, m)
    BY <2>1, TypeJobs
  <2>2. CASE RunTurn(w)
    BY <2>2, TypeTurn
  <2>3. CASE Finish(w) \/ Raise(w) \/ Crash(w)
    <3>1. wk[w].pc # "idle"
      BY <2>3 DEF Finish, Raise, Crash
    <3>2. wk[w].msg \in Msgs
      BY <3>1 DEF TypeInv
    <3> QED BY <2>3, <3>2, TypeJobs
  <2> QED BY <1>3, <2>1, <2>2, <2>3 DEF Works
<1>4. CASE UNCHANGED convVars
  BY <1>4 DEF convVars, TypeInv, TypeOK, InLog
<1> QED BY <1>1, <1>2, <1>3, <1>4 DEF Next

\* Every reachable state of the conversation is well typed: the attempts of a job stay
\* within MAX_ATTEMPTS because a job goes back to the queue only with one left
\* (worker.py:147, client.py:230), and a turn is only ever at a stored message.
THEOREM TypeCorrect == Spec => []TypeOK
<1>1. TypeInv => TypeOK
  BY DEF TypeInv
<1> QED BY <1>1, TypeInit, TypeStep, PTL DEF Spec

-----------------------------------------------------------------------------
(* What is stamped was asked *)

\* The messages after the last reply are all in the last user turn, wherever
\* the history is cut off: what _covered finds, _history shows.
LEMMA CoveredIsAsked ==
  ASSUME NEW rows, NEW m
  PROVE  Covered(rows, m) \ {m} \subseteq LastUserTurn(rows)
  BY DEF Covered, LastUserTurn

\* A step leaves what a turn covers and asks as it was, empties it, or is its Read.
LEMMA TurnKept ==
  ASSUME TypeInv, [Next]_convVars, NEW v \in Workers
  PROVE  \/ UNCHANGED <<wk[v].msg, wk[v].covered, wk[v].asked>>
         \/ wk'[v].covered = {}
         \/ Read(v) /\ wk[v].msg \notin answered
<1> USE DEF TypeInv, TypeOK
<1>1. CASE wk' = wk
  BY <1>1
<1>2. ASSUME NEW w \in Workers, NEW t, Set(w, t), v # w
      PROVE UNCHANGED <<wk[v].msg, wk[v].covered, wk[v].asked>>
  BY <1>2 DEF Set
<1>3. ASSUME NEW w \in Workers, Works(w) \/ Raise(w) \/ Crash(w)
      PROVE \E t : Set(w, t)
  BY <1>3 DEF Works, RunTurn, Claim, Raise, Crash, Finish, Read, Line, ModelFails, Reply, Sorry,
              RecordOutbound, MarkAnswered, SendText, Told, Untold, Goto, Set
<1>4. ASSUME (\E m \in Msgs : Claim(v, m)) \/ Finish(v) \/ Raise(v) \/ Crash(v)
      PROVE wk'[v].covered = {}
  <2>1. Set(v, Free) \/ \E m \in Msgs : Set(v, [Free EXCEPT !.pc = "read", !.msg = m])
    BY <1>4 DEF Claim, Finish, Raise, Crash
  <2>2. Free.covered = {} /\ \A m : [Free EXCEPT !.pc = "read", !.msg = m].covered = {}
    BY DEF Free
  <2>3. \A t : Set(v, t) => wk'[v] = t
    BY DEF Set
  <2> QED BY <2>1, <2>2, <2>3
<1>5. ASSUME Line(v) \/ ModelFails(v) \/ Reply(v) \/ Sorry(v) \/ RecordOutbound(v) \/ MarkAnswered(v)
      PROVE UNCHANGED <<wk[v].msg, wk[v].covered, wk[v].asked>>
  <2>1. wk[v] \in Turn
    OBVIOUS
  <2>2. CASE Line(v)
    BY <2>1, <2>2 DEF Line, Set, Turn
  <2>3. CASE ModelFails(v) \/ Reply(v) \/ Sorry(v) \/ RecordOutbound(v) \/ MarkAnswered(v)
    <3>1. \E p \in PC : Goto(v, p) \/ Set(v, [wk[v] EXCEPT !.pc = p, !.told = TRUE])
      BY <2>3 DEF ModelFails, Reply, Sorry, RecordOutbound, MarkAnswered, SendText, Told, Untold, PC
    <3>2. PICK p \in PC : \/ wk'[v] = [wk[v] EXCEPT !.pc = p]
                          \/ wk'[v] = [wk[v] EXCEPT !.pc = p, !.told = TRUE]
      BY ZenonT(60), <3>1 DEF Goto, Set
    <3>3. wk'[v].msg = wk[v].msg /\ wk'[v].covered = wk[v].covered /\ wk'[v].asked = wk[v].asked
      BY ZenonT(60), <2>1, <3>2 DEF Turn
    <3> QED BY <3>3
  <2> QED BY <1>5, <2>2, <2>3
<1>6. ASSUME Read(v), wk[v].msg \in answered
      PROVE UNCHANGED <<wk[v].msg, wk[v].covered, wk[v].asked>>
  BY <1>6 DEF Read, Goto, Set, Turn
<1>7. ASSUME NEW w \in Workers, Works(w) \/ Raise(w) \/ Crash(w)
      PROVE \/ UNCHANGED <<wk[v].msg, wk[v].covered, wk[v].asked>>
            \/ wk'[v].covered = {}
            \/ Read(v) /\ wk[v].msg \notin answered
  <2>1. CASE v # w
    BY <1>2, <1>3, <1>7, <2>1
  <2>2. CASE v = w
    BY <1>4, <1>5, <1>6, <1>7, <2>2 DEF Works, RunTurn
  <2> QED BY <2>1, <2>2
<1>8. CASE Webhook \/ Expire \/ (\E m \in Msgs : Reap(m)) \/ UNCHANGED convVars
  BY <1>1, <1>8 DEF Webhook, Arrive, Store, Drop, Redeliver, Expire, Reap, convVars
<1> QED BY <1>7, <1>8 DEF Next

\* A turn stamps another message than its own only if the model was asked it in that
\* turn, for any number of instances, however rows are lost or late and the history
\* is cut (runner.py:57-103).
THEOREM StampsOnlyWhatWasAsked == Spec => []StampedWasAsked
<1>1. Init => StampedWasAsked
  BY DEF Init, StampedWasAsked, Free
<1>2. TypeInv /\ StampedWasAsked /\ [Next]_convVars => StampedWasAsked'
  <2> SUFFICES ASSUME TypeInv, StampedWasAsked, [Next]_convVars, NEW v \in Workers
               PROVE  wk'[v].covered \ {wk'[v].msg} \subseteq wk'[v].asked
    BY DEF StampedWasAsked
  <2>1. CASE UNCHANGED <<wk[v].msg, wk[v].covered, wk[v].asked>>
    BY <2>1 DEF StampedWasAsked
  <2>2. CASE wk'[v].covered = {}
    BY <2>2
  <2>3. CASE Read(v) /\ wk[v].msg \notin answered
    <3> DEFINE m == wk[v].msg
               rows == Recent(m)
               u == [wk[v] EXCEPT !.pc = "loop", !.covered = Covered(rows, m),
                                  !.asked = LastUserTurn(rows)]
    <3>1. wk[v] \in Turn /\ wk'[v] = u
      BY <2>3 DEF Read, Set, TypeInv, TypeOK
    <3>2. u.msg = m /\ u.covered = Covered(rows, m) /\ u.asked = LastUserTurn(rows)
      BY <3>1 DEF Turn
    <3> QED BY <3>1, <3>2, CoveredIsAsked
  <2> QED BY <2>1, <2>2, <2>3, TurnKept
<1> QED BY <1>1, <1>2, TypeInit, TypeStep, PTL DEF Spec

-----------------------------------------------------------------------------
(* Answered once, with one instance *)

\* One instance at most.
Alone == \A v, w \in Workers : v = w

\* The messages whose reply is out and whose stamp is still to be written.
Stamping(t) == IF t.told /\ t.pc \in {"mirror", "mark"} THEN t.covered ELSE {}

Due(m) == m \in answered \/ \E w \in Workers : m \in Stamping(wk[w])

\* Every reply is accounted for by the stamp, by a stamp to come or by a lost one.
Accounted ==
  \A m \in Msgs : /\ replies[m] <= unstamped[m] + 1
                  /\ ~Due(m) => replies[m] <= unstamped[m]

\* Until its reply is out a turn has told nobody, and until its stamp is written
\* nothing it covers is answered.
TurnInv(t, done) ==
  /\ t.pc \in {"idle", "read", "loop", "sorry"} => ~t.told
  /\ t.pc \in {"loop", "sorry", "mirror", "mark"} => t.covered \intersect done = {}

OnceInv == (\A w \in Workers : TurnInv(wk[w], answered)) /\ Accounted

\* The sums are kept when the replies are, and nothing that was due is forgotten.
LEMMA SameReplies ==
  ASSUME Accounted, UNCHANGED <<replies, unstamped>>, \A m \in Msgs : Due(m) => Due(m)'
  PROVE  Accounted'
  BY DEF Accounted

LEMMA OnceInit == Init => OnceInv
<1> SUFFICES ASSUME Init PROVE OnceInv
  OBVIOUS
<1>1. \A w \in Workers : wk[w] = Free /\ Free.pc = "idle" /\ Free.told = FALSE /\ Free.covered = {}
  BY DEF Init, Free
<1>2. \A w \in Workers : TurnInv(wk[w], answered)
  BY <1>1 DEF TurnInv
<1>3. \A m \in Msgs : replies[m] = 0 /\ unstamped[m] = 0
  BY DEF Init
<1> QED BY <1>2, <1>3 DEF OnceInv, Accounted

\* The step of the only instance.
LEMMA OneWorker ==
  ASSUME TypeInv, Alone, NEW w \in Workers, NEW t, Set(w, t)
  PROVE  /\ \A v \in Workers : wk'[v] = t
         /\ \A m : Due(m)' <=> m \in answered' \/ m \in Stamping(t)
         /\ \A m : Due(m) <=> m \in answered \/ m \in Stamping(wk[w])
<1>1. wk'[w] = t /\ \A v \in Workers : v = w
  BY DEF Set, Alone, TypeInv, TypeOK
<1> QED BY <1>1 DEF Due

\* A step of the only instance that answers nobody and loses no stamp.
LEMMA QuietStep ==
  ASSUME TypeInv, OnceInv, Alone, NEW w \in Workers, NEW t, Set(w, t), TurnInv(t, answered'),
         answered \subseteq answered', UNCHANGED <<replies, unstamped>>,
         \A m \in Stamping(wk[w]) : m \in Stamping(t) \/ m \in answered'
  PROVE  OnceInv'
<1>1. \A v \in Workers : TurnInv(wk'[v], answered')
  BY OneWorker DEF TurnInv
<1>2. Accounted'
  BY OneWorker, SameReplies DEF OnceInv
<1> QED BY <1>1, <1>2 DEF OnceInv

\* A reply or an apology reaches the owner.
LEMMA ToldStep ==
  ASSUME TypeInv, OnceInv, Alone, NEW w \in Workers, wk[w].pc \in {"loop", "sorry"},
         NEW p \in {"mirror", "mark"}, Told(w, p), UNCHANGED <<answered, unstamped>>
  PROVE  OnceInv'
<1> DEFINE t == [wk[w] EXCEPT !.pc = p, !.told = TRUE]
<1>1. wk[w] \in Turn /\ Set(w, t) /\ replies' = Counted(replies, wk[w].covered)
  BY DEF Told, TypeInv, TypeOK
<1>2. t.pc = p /\ t.told = TRUE /\ t.covered = wk[w].covered
  BY <1>1 DEF Turn
<1> HIDE DEF t
<1>3. wk[w].covered \intersect answered = {} /\ ~wk[w].told
  BY DEF OnceInv, TurnInv
<1>4. Stamping(t) = wk[w].covered /\ Stamping(wk[w]) = {}
  BY <1>2, <1>3 DEF Stamping
<1>5. \A v \in Workers : TurnInv(wk'[v], answered')
  <2>1. TurnInv(t, answered')
    BY <1>2, <1>3 DEF TurnInv
  <2> QED BY <1>1, <2>1, OneWorker DEF TurnInv
<1>6. /\ \A m : Due(m)' <=> m \in answered \/ m \in wk[w].covered
      /\ \A m : Due(m) <=> m \in answered
  BY <1>1, <1>4, OneWorker
<1>7. ASSUME NEW m \in Msgs
      PROVE  replies'[m] <= unstamped'[m] + 1 /\ (~Due(m)' => replies'[m] <= unstamped'[m])
  <2>1. replies \in [Msgs -> Nat] /\ unstamped \in [Msgs -> Nat]
    BY DEF TypeInv, TypeOK
  <2>2. replies'[m] = IF m \in wk[w].covered THEN replies[m] + 1 ELSE replies[m]
    BY <1>1, <2>1, CountedTyped
  <2>3. replies[m] <= unstamped[m] + 1 /\ (~Due(m) => replies[m] <= unstamped[m])
    BY DEF OnceInv, Accounted
  <2>4. replies[m] \in Nat /\ unstamped[m] \in Nat
    BY <2>1
  <2>5. CASE m \in wk[w].covered
    <3>1. Due(m)' /\ ~Due(m)
      BY <1>3, <1>6, <2>5
    <3> QED BY <2>2, <2>3, <2>4, <2>5, <3>1
  <2>6. CASE m \notin wk[w].covered
    <3>1. Due(m) <=> Due(m)'
      BY <1>6, <2>6
    <3> QED BY <2>2, <2>3, <2>6, <3>1
  <2> QED BY <2>5, <2>6
<1> QED BY <1>5, <1>7 DEF OnceInv, Accounted

\* The turn ends, and the stamp of what it told is lost.
LEMMA LostStamp ==
  ASSUME TypeInv, OnceInv, Alone, NEW w \in Workers, wk[w].pc # "finish", LeaveUnstamped(wk[w]),
         UNCHANGED <<answered, replies>>, NEW t, Set(w, t), t.pc \in {"idle", "finish"},
         t.pc = "idle" => ~t.told
  PROVE  OnceInv'
<1> DEFINE S == IF wk[w].told THEN wk[w].covered ELSE {}
<1>1. unstamped' = Counted(unstamped, S)
  BY DEF LeaveUnstamped
<1>2. wk[w].pc \in PC /\ wk[w] \in Turn
  BY DEF TypeInv, TypeOK, Turn
<1>3. Stamping(wk[w]) = S
  BY <1>2 DEF OnceInv, TurnInv, Stamping, PC
<1>4. Stamping(t) = {} /\ TurnInv(t, answered')
  BY DEF Stamping, TurnInv
<1> HIDE DEF S
<1>5. \A v \in Workers : TurnInv(wk'[v], answered')
  BY <1>4, OneWorker DEF TurnInv
<1>6. /\ \A m : Due(m)' <=> m \in answered
      /\ \A m : Due(m) <=> m \in answered \/ m \in S
  BY <1>3, <1>4, OneWorker
<1>7. ASSUME NEW m \in Msgs
      PROVE  replies'[m] <= unstamped'[m] + 1 /\ (~Due(m)' => replies'[m] <= unstamped'[m])
  <2>1. replies \in [Msgs -> Nat] /\ unstamped \in [Msgs -> Nat]
    BY DEF TypeInv, TypeOK
  <2>2. unstamped'[m] = IF m \in S THEN unstamped[m] + 1 ELSE unstamped[m]
    BY <1>1, <2>1, CountedTyped
  <2>3. replies[m] <= unstamped[m] + 1 /\ (~Due(m) => replies[m] <= unstamped[m])
    BY DEF OnceInv, Accounted
  <2>4. replies[m] \in Nat /\ unstamped[m] \in Nat /\ replies'[m] = replies[m]
    BY <2>1
  <2>5. CASE m \in S
    BY <2>2, <2>3, <2>4, <2>5
  <2>6. CASE m \notin S
    <3>1. Due(m) <=> Due(m)'
      BY <1>6, <2>6
    <3> QED BY <2>2, <2>3, <2>4, <2>6, <3>1
  <2> QED BY <2>5, <2>6
<1> QED BY <1>5, <1>7 DEF OnceInv, Accounted

LEMMA OnceStep == Alone /\ TypeInv /\ OnceInv /\ [Next]_convVars => OnceInv'
<1> SUFFICES ASSUME Alone, TypeInv, OnceInv, [Next]_convVars PROVE OnceInv'
  OBVIOUS
<1> USE DEF SameBook, told
<1>f. Free.pc = "idle" /\ Free.told = FALSE /\ Free.covered = {}
  BY DEF Free
<1>1. CASE Webhook \/ Expire \/ (\E m \in Msgs : Reap(m)) \/ UNCHANGED convVars
  <2>1. UNCHANGED <<wk, answered, replies, unstamped>>
    BY <1>1 DEF Webhook, Arrive, Store, Drop, Redeliver, Expire, Reap, convVars
  <2> QED BY <2>1 DEF OnceInv, TurnInv, Accounted, Due
<1>2. ASSUME NEW w \in Workers, NEW m \in Msgs, Claim(w, m) PROVE OnceInv'
  <2> DEFINE t == [Free EXCEPT !.pc = "read", !.msg = m]
  <2>1. t.pc = "read" /\ t.told = FALSE
    BY DEF Free
  <2>2. Set(w, t) /\ wk[w].pc = "idle" /\ UNCHANGED <<answered, replies, unstamped>>
    BY <1>2 DEF Claim
  <2> HIDE DEF t
  <2> QED BY <2>1, <2>2, QuietStep DEF TurnInv, Stamping
<1>3. ASSUME NEW w \in Workers, Raise(w) \/ Finish(w) PROVE OnceInv'
  <2>1. Set(w, Free) /\ wk[w].pc \in {"read", "finish"} /\ UNCHANGED <<answered, replies, unstamped>>
    BY <1>3 DEF Raise, Finish
  <2> QED BY <2>1, <1>f, QuietStep DEF TurnInv, Stamping
<1>4. ASSUME NEW w \in Workers, Crash(w) PROVE OnceInv'
  <2>1. Set(w, Free) /\ UNCHANGED <<answered, replies>>
    BY <1>4 DEF Crash
  <2>2. CASE wk[w].pc = "finish"
    <3>1. UNCHANGED unstamped
      BY <1>4, <2>2 DEF Crash
    <3> QED BY <2>1, <2>2, <3>1, <1>f, QuietStep DEF TurnInv, Stamping
  <2>3. CASE wk[w].pc # "finish"
    <3>1. LeaveUnstamped(wk[w])
      BY <1>4, <2>3 DEF Crash
    <3> QED BY <2>1, <2>3, <3>1, <1>f, LostStamp
  <2> QED BY <2>2, <2>3
<1>5. ASSUME NEW w \in Workers, Read(w) PROVE OnceInv'
  <2> DEFINE m == wk[w].msg
             rows == Recent(m)
             u == [wk[w] EXCEPT !.pc = "loop", !.covered = Covered(rows, m),
                                !.asked = LastUserTurn(rows)]
  <2>1. /\ wk[w] \in Turn /\ wk[w].pc = "read" /\ ~wk[w].told
        /\ UNCHANGED <<answered, replies, unstamped>>
    BY <1>5 DEF Read, TypeInv, TypeOK, OnceInv, TurnInv
  <2>2. CASE m \in answered
    <3> DEFINE t == [wk[w] EXCEPT !.pc = "finish"]
    <3>1. Set(w, t) /\ t.pc = "finish"
      BY <1>5, <2>1, <2>2 DEF Read, Goto, Set, Turn
    <3> HIDE DEF t
    <3> QED BY <2>1, <3>1, QuietStep DEF TurnInv, Stamping
  <2>3. CASE m \notin answered
    <3>1. Set(w, u)
      BY <1>5, <2>3 DEF Read
    <3>2. u.pc = "loop" /\ u.told = wk[w].told /\ u.covered = Covered(rows, m)
      BY <2>1 DEF Turn
    <3>3. Covered(rows, m) \intersect answered = {}
      BY <2>3 DEF Covered
    <3> HIDE DEF u
    <3> QED BY <2>1, <3>1, <3>2, <3>3, QuietStep DEF TurnInv, Stamping
  <2> QED BY <2>2, <2>3
<1>6. ASSUME NEW w \in Workers, Line(w) PROVE OnceInv'
  <2>1. wk[w] \in Turn /\ wk[w].pc = "loop" /\ UNCHANGED <<answered, replies, unstamped>>
    BY <1>6 DEF Line, TypeInv, TypeOK
  <2>2. PICK t : Set(w, t) /\ t.pc = wk[w].pc /\ t.told = wk[w].told /\ t.covered = wk[w].covered
    <3>1. PICK l, s, h : Set(w, [wk[w] EXCEPT !.lines = l, !.said = s, !.shown = h])
      BY <1>6 DEF Line
    <3> DEFINE u == [wk[w] EXCEPT !.lines = l, !.said = s, !.shown = h]
    <3>2. u.pc = wk[w].pc /\ u.told = wk[w].told /\ u.covered = wk[w].covered
      BY <2>1 DEF Turn
    <3> QED BY <3>1, <3>2
  <2>3. TurnInv(wk[w], answered)
    BY DEF OnceInv
  <2> QED BY <2>1, <2>2, <2>3, QuietStep DEF TurnInv, Stamping
\* What is left of run_turn moves on, tells or stamps.
<1>7. ASSUME NEW w \in Workers, NEW p \in PC \ {"idle", "read"}, Goto(w, p),
             wk[w].pc \in {"loop", "sorry", "mirror"}, wk[w].pc = "mirror" => p = "mark",
             UNCHANGED <<answered, replies, unstamped>>
      PROVE  OnceInv'
  <2> DEFINE t == [wk[w] EXCEPT !.pc = p]
  <2>1. wk[w] \in Turn /\ Set(w, t)
    BY <1>7 DEF Goto, Set, TypeInv, TypeOK
  <2>2. t.pc = p /\ t.told = wk[w].told /\ t.covered = wk[w].covered
    BY <2>1 DEF Turn
  <2>3. TurnInv(wk[w], answered)
    BY DEF OnceInv
  <2> HIDE DEF t
  <2>4. TurnInv(t, answered')
    BY <1>7, <2>2, <2>3 DEF TurnInv
  <2>5. \A m \in Stamping(wk[w]) : m \in Stamping(t)
    BY <1>7, <2>2, <2>3 DEF TurnInv, Stamping
  <2> QED BY <1>7, <2>1, <2>4, <2>5, QuietStep
<1>8. ASSUME NEW w \in Workers,
             ModelFails(w) \/ Reply(w) \/ Sorry(w) \/ RecordOutbound(w)
      PROVE  OnceInv'
  <2>1. /\ wk[w].pc \in {"loop", "sorry", "mirror"} /\ UNCHANGED <<answered, unstamped>>
        /\ \/ /\ \E p \in {"sorry", "mirror", "mark", "finish"} : Goto(w, p) /\ wk[w].pc # "mirror"
              /\ UNCHANGED replies
           \/ Goto(w, "mark") /\ UNCHANGED replies
           \/ wk[w].pc # "mirror" /\ \E p \in {"mirror", "mark"} : Told(w, p)
    BY <1>8 DEF ModelFails, Reply, Sorry, RecordOutbound, SendText, Untold
  <2>2. CASE wk[w].pc # "mirror" /\ \E p \in {"mirror", "mark"} : Told(w, p)
    BY <2>1, <2>2, ToldStep
  <2>3. CASE /\ \E p \in {"sorry", "mirror", "mark", "finish"} : Goto(w, p) /\ wk[w].pc # "mirror"
             /\ UNCHANGED replies
    BY <2>1, <2>3, <1>7 DEF PC
  <2>4. CASE Goto(w, "mark") /\ UNCHANGED replies
    BY <2>1, <2>4, <1>7 DEF PC
  <2> QED BY <2>1, <2>2, <2>3, <2>4
<1>9. ASSUME NEW w \in Workers, MarkAnswered(w) PROVE OnceInv'
  <2> DEFINE t == [wk[w] EXCEPT !.pc = "finish"]
  <2>1. wk[w] \in Turn /\ Set(w, t) /\ wk[w].pc = "mark" /\ UNCHANGED replies
    BY <1>9 DEF MarkAnswered, Goto, Set, TypeInv, TypeOK
  <2>2. t.pc = "finish"
    BY <2>1 DEF Turn
  <2> HIDE DEF t
  <2>3. CASE answered' = answered \union wk[w].covered /\ UNCHANGED unstamped
    BY <2>1, <2>2, <2>3, QuietStep DEF TurnInv, Stamping
  <2>4. CASE UNCHANGED answered /\ LeaveUnstamped(wk[w])
    BY <2>1, <2>2, <2>4, LostStamp
  <2> QED BY <1>9, <2>3, <2>4 DEF MarkAnswered
<1> QED BY <1>1, <1>2, <1>3, <1>4, <1>5, <1>6, <1>8, <1>9 DEF Next, Works, RunTurn

\* With one instance a message is answered again only when the stamp of an answer
\* was lost, whatever else fails and in whatever order jobs run
\* (runner.py:124-132, worker.py:159-162).
THEOREM RepliesAccountedFor == ASSUME Alone PROVE Spec => []AnsweredOnce
<1>1. TypeInv /\ OnceInv => AnsweredOnce
  <2> SUFFICES ASSUME TypeInv, OnceInv, NEW m \in Msgs PROVE replies[m] <= 1 + unstamped[m]
    BY DEF AnsweredOnce
  <2>1. replies[m] \in Nat /\ unstamped[m] \in Nat
    BY DEF TypeInv, TypeOK
  <2>2. replies[m] <= unstamped[m] + 1
    BY DEF OnceInv, Accounted
  <2> QED BY <2>1, <2>2
<1>2. TypeInv /\ OnceInv /\ [Next]_convVars => TypeInv' /\ OnceInv'
  BY TypeStep, OnceStep
<1> QED BY <1>1, <1>2, TypeInit, OnceInit, PTL DEF Spec

-----------------------------------------------------------------------------
(* The jobs keep to JobLifecycle *)

\* A busy instance has a running job, and has it alone.
Held ==
  \A w \in Workers : wk[w].pc # "idle" =>
    /\ job[wk[w].msg] = "running"
    /\ \A v \in Workers : wk[v].pc # "idle" /\ wk[v].msg = wk[w].msg => v = w

\* The effect of a step on the jobs and on who holds them.
JobStep ==
  \/ UNCHANGED jobVars
  \/ \E m \in Msgs : inbox[m] = "arriving" /\ job' = [job EXCEPT ![m] = "queued"] /\ UNCHANGED tries
  \/ \E w \in Workers, m \in Msgs : Claim(w, m)
  \/ \E m \in Msgs : /\ job' = [job EXCEPT ![m] = Again(m)] /\ UNCHANGED tries
                     /\ \/ job[m] = "running"
                        \/ \E w \in Workers : wk[w].pc # "idle" /\ wk[w].msg = m
  \/ \E w \in Workers : wk[w].pc # "idle" /\ job' = [job EXCEPT ![wk[w].msg] = "done"] /\ UNCHANGED tries

LEMMA StepsOfJobs == TypeInv /\ [Next]_convVars => JobStep
<1> SUFFICES ASSUME TypeInv, [Next]_convVars PROVE JobStep
  OBVIOUS
<1>1. CASE Webhook \/ Expire \/ UNCHANGED convVars
  BY <1>1 DEF Webhook, Arrive, Store, Drop, Redeliver, Expire, convVars, jobVars, JobStep
<1>2. ASSUME NEW m \in Msgs, Reap(m) PROVE JobStep
  BY <1>2 DEF Reap, JobStep
<1>3. ASSUME NEW w \in Workers, Raise(w) PROVE JobStep
  <2>1. wk[w].pc # "idle" /\ wk[w].msg \in Msgs
    BY <1>3 DEF Raise, TypeInv
  <2> QED BY <1>3, <2>1 DEF Raise, JobStep
<1>4. ASSUME NEW w \in Workers, Finish(w) PROVE JobStep
  BY <1>4 DEF Finish, JobStep
<1>5. ASSUME NEW w \in Workers, RunTurn(w) \/ Crash(w) PROVE UNCHANGED jobVars
  BY <1>5 DEF RunTurn, Crash, Read, Line, ModelFails, Reply, Sorry, RecordOutbound, MarkAnswered
<1>6. ASSUME NEW w \in Workers, Works(w) \/ Raise(w) \/ Crash(w) PROVE JobStep
  BY <1>3, <1>4, <1>5, <1>6 DEF Works, JobStep
<1> QED BY <1>1, <1>2, <1>6 DEF Next

\* A busy worker's step leaves its message, or leaves it idle.
LEMMA HeldStep == TypeInv /\ Held /\ [Next]_convVars => Held'
<1> SUFFICES ASSUME TypeInv, Held, [Next]_convVars PROVE Held'
  OBVIOUS
<1>t. wk \in [Workers -> Turn] /\ job \in [Msgs -> {"none", "queued", "running", "done", "dead"}]
  BY DEF TypeInv, TypeOK
<1>m. \A w \in Workers : wk[w].pc # "idle" => wk[w].msg \in Msgs /\ inbox[wk[w].msg] = "in"
  BY DEF TypeInv
<1>f. Free.pc = "idle"
  BY DEF Free
<1>1. CASE Webhook \/ Expire \/ UNCHANGED convVars
  <2>1. wk' = wk /\ (job' = job \/ \E m \in Msgs : inbox[m] = "arriving" /\ job' = [job EXCEPT ![m] = "queued"])
    BY <1>1 DEF Webhook, Arrive, Store, Drop, Redeliver, Expire, convVars, jobVars
  <2> QED BY <2>1, <1>t, <1>m DEF Held
<1>2. ASSUME NEW m \in Msgs, Reap(m) PROVE Held'
  <2>1. wk' = wk /\ job' = [job EXCEPT ![m] = Again(m)] /\ \A w \in Workers : wk[w].msg # m
    BY <1>2 DEF Reap
  <2> QED BY <2>1, <1>t, <1>m DEF Held
<1>3. ASSUME NEW w \in Workers, NEW m \in Msgs, Claim(w, m) PROVE Held'
  <2> DEFINE t == [Free EXCEPT !.pc = "read", !.msg = m]
  <2>1. t.msg = m
    BY DEF Free
  <2> HIDE DEF t
  <2>2. /\ wk' = [wk EXCEPT ![w] = t] /\ job' = [job EXCEPT ![m] = "running"]
        /\ job[m] = "queued" /\ wk[w].pc = "idle"
    BY <1>3 DEF Claim, Set, t
  <2>3. \A v \in Workers : wk[v].pc # "idle" => wk[v].msg # m
    BY <2>2 DEF Held
  <2>4. \A v \in Workers : wk'[v] = IF v = w THEN t ELSE wk[v]
    BY <2>2, <1>t
  <2>5. job'[m] = "running" /\ \A n \in Msgs : n # m => job'[n] = job[n]
    BY <2>2, <1>t
  <2> QED BY <2>1, <2>3, <2>4, <2>5, <1>m DEF Held
<1>4. ASSUME NEW w \in Workers, Raise(w) \/ Finish(w) PROVE Held'
  <2>1. /\ wk' = [wk EXCEPT ![w] = Free] /\ wk[w].pc # "idle"
        /\ \E s : job' = [job EXCEPT ![wk[w].msg] = s]
    BY <1>4 DEF Raise, Finish, Set
  <2>2. \A v \in Workers : wk'[v] = IF v = w THEN Free ELSE wk[v]
    BY <2>1, <1>t
  <2>3. \A n \in Msgs : n # wk[w].msg => job'[n] = job[n]
    BY <2>1, <1>t
  <2>4. \A v \in Workers : v # w /\ wk[v].pc # "idle" => wk[v].msg # wk[w].msg
    BY <2>1 DEF Held
  <2> QED BY <2>2, <2>3, <2>4, <1>m, <1>f DEF Held
<1>5. ASSUME NEW w \in Workers, Crash(w) PROVE Held'
  <2>1. wk' = [wk EXCEPT ![w] = Free] /\ job' = job
    BY <1>5 DEF Crash, Set, jobVars
  <2>2. \A v \in Workers : wk'[v] = IF v = w THEN Free ELSE wk[v]
    BY <2>1, <1>t
  <2> QED BY <2>1, <2>2, <1>f DEF Held
<1>6. ASSUME NEW w \in Workers, RunTurn(w) PROVE Held'
  <2>1. job' = job /\ wk[w].pc # "idle"
    BY <1>6 DEF RunTurn, Read, Line, ModelFails, Reply, Sorry, RecordOutbound, MarkAnswered, jobVars
  <2>2. PICK u : Set(w, u) /\ u.msg = wk[w].msg
    BY <1>6, TurnSteps
  <2>3. \A v \in Workers : wk'[v] = IF v = w THEN u ELSE wk[v]
    BY <2>2, <1>t DEF Set
  <2> QED BY <2>1, <2>2, <2>3 DEF Held
<1> QED BY <1>1, <1>2, <1>3, <1>4, <1>5, <1>6 DEF Next, Works

\* What the conversation takes for granted of its jobs is the lifecycle that JobQueue
\* implements: one attempt at a time, MAX_ATTEMPTS of them, what has ended stays ended.
THEOREM JobsKeepLifecycle == Spec => JobsAsPromised
<1>1. Init => Queue!LInit /\ Held
  BY DEF Init, Queue!LInit, Held, Free
<1>2. TypeInv /\ Held /\ [Next]_convVars => [Queue!LNext]_<<job, tries>>
  <2> SUFFICES ASSUME TypeInv, Held, JobStep, UNCHANGED jobVars => UNCHANGED <<job, tries>>
               PROVE  UNCHANGED <<job, tries>> \/ Queue!LNext
    BY StepsOfJobs DEF jobVars
  <2> USE DEF Queue!LNext, Queue!Step, Queue!Stays, Queue!Moves, Queue!Accept, Queue!Start,
              Queue!Succeed, Queue!TryAgain, Queue!GiveUp, Queue!Refuse
  <2>t. /\ job \in [Msgs -> {"none", "queued", "running", "done", "dead"}]
        /\ tries \in [Msgs -> 0..MAX_ATTEMPTS] /\ MAX_ATTEMPTS \in Nat
    BY ConversationConstants DEF TypeInv, TypeOK
  <2>1. ASSUME NEW m \in Msgs, inbox[m] = "arriving", job' = [job EXCEPT ![m] = "queued"], UNCHANGED tries
        PROVE Queue!LNext
    <3>1. job[m] = "none"
      BY <2>1 DEF TypeInv
    <3> QED BY <2>1, <2>t, <3>1
  <2>2. ASSUME NEW w \in Workers, NEW m \in Msgs, Claim(w, m) PROVE Queue!LNext
    <3>1. job[m] = "queued" /\ tries[m] < MAX_ATTEMPTS
      BY <2>2 DEF Claim, TypeInv
    <3>2. job' = [job EXCEPT ![m] = "running"] /\ tries' = [tries EXCEPT ![m] = @ + 1]
      BY <2>2 DEF Claim
    <3> QED BY <2>t, <3>1, <3>2
  <2>3. ASSUME NEW m \in Msgs, job[m] = "running", job' = [job EXCEPT ![m] = Again(m)], UNCHANGED tries
        PROVE Queue!LNext
    <3>1. \/ Again(m) = "queued" /\ tries[m] < MAX_ATTEMPTS
          \/ Again(m) = "dead" /\ tries[m] = MAX_ATTEMPTS
      BY <2>t DEF Again
    <3> QED BY <2>3, <2>t, <3>1
  <2>4. ASSUME NEW w \in Workers, wk[w].pc # "idle", job' = [job EXCEPT ![wk[w].msg] = "done"], UNCHANGED tries
        PROVE Queue!LNext
    <3>1. wk[w].msg \in Msgs /\ job[wk[w].msg] = "running"
      BY <2>4 DEF Held, TypeInv
    <3> QED BY <2>4, <2>t, <3>1
  <2> QED BY <2>1, <2>2, <2>3, <2>4 DEF JobStep, Held
<1> QED BY <1>1, <1>2, TypeInit, TypeStep, HeldStep, PTL DEF Spec, JobsAsPromised, Queue!LSpec, Queue!lvars

-----------------------------------------------------------------------------
(* The model is asked something *)

\* A set of places in the log has a last one.
LEMMA LastPlace ==
  ASSUME NEW n \in Nat, NEW S, S \subseteq 1..n, S # {}
  PROVE  \E k \in S : \A j \in S : j <= k
<1> DEFINE R == OpToRel(<, Nat)
           T == {n - k : k \in S}
<1>1. IsWellFoundedOn(R, Nat)
  BY NatLessThanWellFounded
<1>2. T \subseteq Nat /\ T # {}
  <2>1. \A k \in S : n - k \in Nat
    OBVIOUS
  <2>2. \E k \in S : n - k \in T
    OBVIOUS
  <2> QED BY <2>1, <2>2
<1> HIDE DEF R, T
<1>3. \E x \in T : \A y \in T : ~(<<y, x>> \in R)
  BY <1>1, <1>2, WFMin
<1>4. PICK x \in T : \A y \in T : ~(y < x)
  BY <1>2, <1>3 DEF R, OpToRel
<1>5. PICK k \in S : x = n - k
  BY DEF T
<1>6. ASSUME NEW j \in S PROVE j <= k
  <2>1. n - j \in T
    BY DEF T
  <2> QED BY <1>4, <1>5, <2>1
<1> QED BY <1>6

\* The history of a message holds a question as long as fewer outbound rows than it
\* keeps have come behind the message, however many messages have: the last message
\* among its rows is kept, and what follows it is dropped.
LEMMA HistoryAsks ==
  ASSUME TypeInv, NEW m \in Msgs, inbox[m] = "in", ~Outrun(m)
  PROVE  LastUserTurn(Recent(m)) # {}
<1>1. log \in Seq(LogRow) /\ Len(log) \in Nat /\ DOMAIN log = 1..Len(log)
  BY DEF TypeInv, TypeOK
<1>2. PICK i \in DOMAIN log : log[i].msg = m /\ log[i].sess = SessionOf(m)
  <2>1. \E j \in DOMAIN log : log[j].msg = m
    BY DEF TypeInv, InLog
  <2> QED BY <2>1 DEF SessionOf
<1> DEFINE S == {k \in Rows(m) : ~IsOut(log[k])}
<1>3. i \in S
  BY <1>2, ConversationConstants DEF Rows, IsOut
<1>4. PICK k \in S : \A j \in S : j <= k
  <2>1. S \subseteq 1..Len(log)
    BY <1>1 DEF Rows
  <2> HIDE DEF S
  <2> QED BY <1>1, <1>3, <2>1, LastPlace
<1>5. k \in Rows(m) /\ k \in DOMAIN log /\ ~IsOut(log[k]) /\ i <= k
  BY <1>3, <1>4 DEF Rows
<1>6. \A j \in Rows(m) : j > k => IsOut(log[j])
  BY <1>1, <1>4 DEF Rows
<1> HIDE DEF S
<1>7. {j \in Rows(m) : j > k} \subseteq OutBehind(m)
  <2> SUFFICES ASSUME NEW j \in Rows(m), j > k PROVE j \in OutBehind(m)
    OBVIOUS
  <2>1. j \in DOMAIN log /\ log[j].sess = SessionOf(m) /\ IsOut(log[j])
    BY <1>6 DEF Rows
  <2>2. i < j
    BY <1>1, <1>5, <2>1
  <2> QED BY <1>1, <1>2, <2>1, <2>2 DEF OutBehind
<1>8. Cardinality({j \in Rows(m) : j > k}) < HISTORY_LIMIT
  <2>1. IsFiniteSet(OutBehind(m))
    <3>1. OutBehind(m) \subseteq 1..Len(log)
      BY <1>1 DEF OutBehind
    <3>2. IsFiniteSet(1..Len(log))
      BY <1>1, FS_Interval
    <3> QED BY <3>1, <3>2, FS_Subset
  <2> DEFINE A == {j \in Rows(m) : j > k}
             B == OutBehind(m)
  <2>2. A \subseteq B /\ IsFiniteSet(B) /\ ~(Cardinality(B) >= HISTORY_LIMIT)
    BY <1>7, <2>1 DEF Outrun
  <2> HIDE DEF A, B
  <2>3. /\ Cardinality(A) \in Nat /\ Cardinality(B) \in Nat /\ Cardinality(A) <= Cardinality(B)
    BY <2>2, FS_Subset, FS_CardinalityType
  <2>4. Cardinality(A) < HISTORY_LIMIT
    BY <2>2, <2>3, ConversationConstants
  <2> QED BY <2>4 DEF A
<1>9. k \in Recent(m)
  BY <1>5, <1>8 DEF Recent
<1>10. log[k].msg \in Msgs
  <2>1. log[k] \in LogRow
    BY <1>1, <1>5
  <2> QED BY <1>5, <2>1 DEF LogRow, IsOut
<1>11. \A l, n \in Recent(m) : k < l /\ l < n /\ IsOut(log[l]) => IsOut(log[n])
  <2> SUFFICES ASSUME NEW l \in Recent(m), NEW n \in Recent(m), k < l, l < n
               PROVE  IsOut(log[n])
    OBVIOUS
  <2>1. n \in Rows(m) /\ l \in DOMAIN log /\ n \in DOMAIN log
    BY DEF Recent, Rows
  <2>2. n > k
    BY <1>1, <1>5, <2>1
  <2> QED BY <1>6, <2>1, <2>2
<1> QED BY <1>9, <1>10, <1>11 DEF LastUserTurn

\* A turn is between two calls to the model as it was before, or has just read.
LEMMA LoopEntered ==
  ASSUME TypeInv, [Next]_convVars, NEW v \in Workers, wk'[v].pc = "loop"
  PROVE  \/ wk[v].pc = "loop" /\ wk'[v].asked = wk[v].asked /\ wk'[v].msg = wk[v].msg
         \/ Read(v) /\ wk[v].msg \notin answered
<1> USE DEF TypeInv, TypeOK
<1>1. CASE wk' = wk
  BY <1>1
<1>2. ASSUME NEW w \in Workers, NEW t, Set(w, t), v # w
      PROVE wk'[v] = wk[v]
  BY <1>2 DEF Set
<1>3. ASSUME NEW w \in Workers, Works(w) \/ Raise(w) \/ Crash(w)
      PROVE \E t : Set(w, t)
  BY <1>3 DEF Works, RunTurn, Claim, Raise, Crash, Finish, Read, Line, ModelFails, Reply, Sorry,
              RecordOutbound, MarkAnswered, SendText, Told, Untold, Goto, Set
<1>4. ASSUME (\E m \in Msgs : Claim(v, m)) \/ Finish(v) \/ Raise(v) \/ Crash(v)
      PROVE FALSE
  <2>1. Set(v, Free) \/ \E m \in Msgs : Set(v, [Free EXCEPT !.pc = "read", !.msg = m])
    BY <1>4 DEF Claim, Finish, Raise, Crash
  <2>2. Free.pc = "idle" /\ \A m : [Free EXCEPT !.pc = "read", !.msg = m].pc = "read"
    BY DEF Free
  <2>3. \A t : Set(v, t) => wk'[v] = t
    BY DEF Set
  <2> QED BY <2>1, <2>2, <2>3
<1>5. ASSUME Line(v) PROVE wk[v].pc = "loop" /\ wk'[v].asked = wk[v].asked /\ wk'[v].msg = wk[v].msg
  BY <1>5 DEF Line, Set, Turn
<1>6. ASSUME ModelFails(v) \/ Reply(v) \/ Sorry(v) \/ RecordOutbound(v) \/ MarkAnswered(v)
      PROVE FALSE
  <2>1. \E p \in PC \ {"loop"} : Goto(v, p) \/ Set(v, [wk[v] EXCEPT !.pc = p, !.told = TRUE])
    BY <1>6 DEF ModelFails, Reply, Sorry, RecordOutbound, MarkAnswered, SendText, Told, Untold, PC
  <2>2. PICK p \in PC \ {"loop"} : \/ wk'[v] = [wk[v] EXCEPT !.pc = p]
                                   \/ wk'[v] = [wk[v] EXCEPT !.pc = p, !.told = TRUE]
    BY ZenonT(60), <2>1 DEF Goto, Set
  <2>3. wk'[v].pc = p
    <3>1. wk[v] \in Turn
      OBVIOUS
    <3>2. /\ [wk[v] EXCEPT !.pc = p].pc = p
          /\ [wk[v] EXCEPT !.pc = p, !.told = TRUE].pc = p
      BY <3>1 DEF Turn
    <3> QED BY <2>2, <3>2
  <2> QED BY <2>3
<1>7. ASSUME Read(v), wk[v].msg \in answered PROVE FALSE
  BY <1>7 DEF Read, Goto, Set, Turn
<1>8. ASSUME NEW w \in Workers, Works(w) \/ Raise(w) \/ Crash(w)
      PROVE \/ wk[v].pc = "loop" /\ wk'[v].asked = wk[v].asked /\ wk'[v].msg = wk[v].msg
            \/ Read(v) /\ wk[v].msg \notin answered
  <2>1. CASE v # w
    BY <1>2, <1>3, <1>8, <2>1
  <2>2. CASE v = w
    BY <1>4, <1>5, <1>6, <1>7, <1>8, <2>2 DEF Works, RunTurn
  <2> QED BY <2>1, <2>2
<1>9. CASE Webhook \/ Expire \/ (\E m \in Msgs : Reap(m)) \/ UNCHANGED convVars
  BY <1>1, <1>9 DEF Webhook, Arrive, Store, Drop, Redeliver, Expire, Reap, convVars
<1> QED BY <1>8, <1>9 DEF Next

\* Rows are added behind a stored message and none is taken away.
LEMMA BehindStays ==
  ASSUME TypeInv, [Next]_convVars, NEW m \in Msgs, inbox[m] = "in"
  PROVE  inbox'[m] = "in" /\ OutBehind(m) \subseteq OutBehind(m)'
<1>1. log \in Seq(LogRow) /\ Len(log) \in Nat /\ DOMAIN log = 1..Len(log)
      /\ inbox \in [Msgs -> {"none", "arriving", "in", "lost"}]
  BY DEF TypeInv, TypeOK
<1>2. ASSUME inbox'[m] = "in", DOMAIN log \subseteq DOMAIN log',
             \A j \in DOMAIN log : log[j].msg = m \/ IsOut(log[j]) => log'[j] = log[j]
      PROVE  OutBehind(m) \subseteq OutBehind(m)'
  <2> SUFFICES ASSUME NEW j \in DOMAIN log, IsOut(log[j]), NEW i \in 1..(j - 1), log[i].msg = m,
                      log[i].sess = log[j].sess
               PROVE  j \in OutBehind(m)'
    BY DEF OutBehind
  <2>1. i \in DOMAIN log
    BY <1>1
  <2>2. j \in DOMAIN log' /\ log'[j] = log[j] /\ log'[i] = log[i]
    BY <1>2, <2>1
  <2>3. log'[j].msg = NoMsg /\ log'[i].msg = m /\ log'[i].sess = log'[j].sess
    BY <2>2 DEF IsOut
  <2> QED BY <2>2, <2>3 DEF OutBehind, IsOut
<1>3. ASSUME log' = log \/ \E row : log' = Append(log, row)
      PROVE  /\ DOMAIN log \subseteq DOMAIN log'
             /\ \A j \in DOMAIN log : log[j].msg = m \/ IsOut(log[j]) => log'[j] = log[j]
  <2>1. CASE log' = log
    BY <2>1
  <2>2. ASSUME NEW row, log' = Append(log, row)
        PROVE  DOMAIN log \subseteq DOMAIN log' /\ \A j \in DOMAIN log : log'[j] = log[j]
    BY <1>1, <2>2
  <2> QED BY <1>3, <2>1, <2>2
<1>4. CASE Webhook
  <2>1. ASSUME NEW k \in Msgs, Arrive(k) PROVE inbox'[m] = "in" /\ \E row : log' = Append(log, row)
    BY <1>1, <2>1 DEF Arrive
  <2>2. ASSUME NEW k \in Msgs, Drop(k) \/ Redeliver(k) PROVE inbox'[m] = "in" /\ log' = log
    BY <1>1, <2>2 DEF Drop, Redeliver
  <2>3. ASSUME NEW k \in Msgs, Store(k)
        PROVE  /\ inbox'[m] = "in" /\ DOMAIN log \subseteq DOMAIN log'
               /\ \A j \in DOMAIN log : log[j].msg = m \/ IsOut(log[j]) => log'[j] = log[j]
    <3>1. k # m /\ k # NoMsg /\ inbox'[m] = "in"
      BY <1>1, <2>3, ConversationConstants DEF Store
    <3>2. log' = [i \in DOMAIN log |->
                    IF log[i].msg = k THEN [log[i] EXCEPT !.sess = Touched] ELSE log[i]]
      BY <2>3 DEF Store
    <3> QED BY <3>1, <3>2 DEF IsOut
  <2> QED BY <1>2, <1>3, <1>4, <2>1, <2>2, <2>3 DEF Webhook
<1>5. CASE Expire \/ (\E k \in Msgs : Reap(k)) \/ UNCHANGED convVars
  <2>1. inbox' = inbox /\ log' = log
    BY <1>5 DEF Expire, Reap, SameBook, convVars
  <2> QED BY <1>2, <1>3, <2>1
<1>6. ASSUME NEW w \in Workers, Works(w) \/ Raise(w) \/ Crash(w)
      PROVE  inbox'[m] = "in" /\ OutBehind(m) \subseteq OutBehind(m)'
  <2>1. inbox' = inbox /\ (log' = log \/ \E row : log' = Append(log, row))
    BY <1>6 DEF Works, RunTurn, Claim, Raise, Crash, Finish, Read, Line, ModelFails, Reply, Sorry,
                RecordOutbound, MarkAnswered, Mirrored, SameBook
  <2> QED BY <1>2, <1>3, <2>1
<1> QED BY <1>4, <1>5, <1>6 DEF Next

\* The stored messages that have been outrun, which they stay.
Late == {m \in Msgs : inbox[m] = "in" /\ Outrun(m)}

LEMMA LateStays == TypeInv /\ TypeInv' /\ [Next]_convVars => Late \subseteq Late'
<1> SUFFICES ASSUME TypeInv, TypeInv', [Next]_convVars, NEW m \in Msgs, inbox[m] = "in", Outrun(m)
             PROVE  inbox'[m] = "in" /\ Outrun(m)'
  BY DEF Late
<1>1. inbox'[m] = "in" /\ OutBehind(m) \subseteq OutBehind(m)'
  BY BehindStays
<1>2. log' \in Seq(LogRow) /\ Len(log') \in Nat /\ DOMAIN log' = 1..Len(log')
  BY DEF TypeInv, TypeOK
<1>3. IsFiniteSet(OutBehind(m)')
  <2>1. OutBehind(m)' \subseteq 1..Len(log')
    BY <1>2 DEF OutBehind
  <2>2. IsFiniteSet(1..Len(log'))
    BY <1>2, FS_Interval
  <2> QED BY <2>1, <2>2, FS_Subset
<1>4. ASSUME NEW A, NEW B, A \subseteq B, IsFiniteSet(B), Cardinality(A) >= HISTORY_LIMIT
      PROVE  Cardinality(B) >= HISTORY_LIMIT
  <2>1. /\ Cardinality(A) \in Nat /\ Cardinality(B) \in Nat /\ Cardinality(A) <= Cardinality(B)
    BY <1>4, FS_Subset, FS_CardinalityType
  <2> QED BY <1>4, <2>1, ConversationConstants
<1>5. Cardinality(OutBehind(m)) >= HISTORY_LIMIT
  BY DEF Outrun
<1>6. Cardinality(OutBehind(m)') >= HISTORY_LIMIT
  BY <1>1, <1>3, <1>4, <1>5
<1> QED BY <1>1, <1>6 DEF Outrun

\* A turn that has no question is about a message that has been outrun.
Asking == \A w \in Workers : wk[w].pc = "loop" => wk[w].asked # {} \/ wk[w].msg \in Late

LEMMA AskedStep == TypeInv /\ TypeInv' /\ Asking /\ [Next]_convVars => Asking'
<1> SUFFICES ASSUME TypeInv, TypeInv', Asking, [Next]_convVars,
                    NEW v \in Workers, wk'[v].pc = "loop"
             PROVE  wk'[v].asked # {} \/ wk'[v].msg \in Late'
  BY DEF Asking
<1>0. Late \subseteq Late'
  BY LateStays
<1>1. CASE wk[v].pc = "loop" /\ wk'[v].asked = wk[v].asked /\ wk'[v].msg = wk[v].msg
  BY <1>0, <1>1 DEF Asking
<1>2. CASE Read(v) /\ wk[v].msg \notin answered
  <2> DEFINE m == wk[v].msg
             u == [wk[v] EXCEPT !.pc = "loop", !.covered = Covered(Recent(m), m),
                                !.asked = LastUserTurn(Recent(m))]
  <2>1. wk[v] \in Turn /\ wk'[v] = u /\ wk[v].pc = "read"
    BY <1>2 DEF Read, Set, TypeInv, TypeOK
  <2>2. u.asked = LastUserTurn(Recent(m)) /\ u.msg = m
    BY <2>1 DEF Turn
  <2>3. m \in Msgs /\ inbox[m] = "in"
    BY <2>1 DEF TypeInv
  <2>4. LastUserTurn(Recent(m)) # {} \/ m \in Late
    BY <2>3, HistoryAsks DEF Late
  <2> QED BY <1>0, <2>1, <2>2, <2>4
<1> QED BY <1>1, <1>2, LoopEntered

LEMMA AskingInit == Init => Asking
  BY DEF Init, Asking, Free

\* Every turn that is not outrun asks the model something, for any number of instances,
\* whatever is lost and however late rows appear (runner.py:84-103, 120-123): only the cut
\* of the history can lose the question, and only when HISTORY_LIMIT outbound rows have
\* come behind the message.
THEOREM TurnsAskUnlessOutrun == Spec => []AskedUnlessOutrun
<1>1. Asking => AskedUnlessOutrun
  BY DEF Asking, AskedUnlessOutrun, Late
<1> QED BY <1>1, AskingInit, AskedStep, TypeInit, TypeStep, PTL DEF Spec

-----------------------------------------------------------------------------
(* One failure *)

\* A turn at work on a message covers it, has told its owner something if it says so, and
\* until the second failure comes to an end only if it did, or stamped it, or was outrun.
TurnOk(t, failed, stamped, heard, late) ==
  /\ t.pc \in {"loop", "sorry", "mirror", "mark"} => t.msg \in t.covered
  /\ t.pc # "idle" /\ t.told = TRUE => heard[t.msg] > 0
  /\ t.pc = "sorry" => failed >= 1 \/ t.msg \in late
  /\ t.pc \in {"mirror", "mark"} => t.told = TRUE \/ failed >= 1 \/ t.msg \in late
  /\ t.pc = "finish" => t.msg \in stamped \/ heard[t.msg] > 0 \/ t.msg \in late

Unheld(m) == \A w \in Workers : wk[w].pc = "idle" \/ wk[w].msg # m

\* An attempt more than the first, or one that nobody holds any more, is a failure; a job
\* that is given up would be two.
JobOk(m) ==
  /\ job[m] = "queued" => tries[m] <= faults
  /\ job[m] = "running" => tries[m] <= faults + 1 /\ (Unheld(m) => tries[m] <= faults)
  /\ job[m] # "dead"
  /\ job[m] = "done" => m \in answered \/ replies[m] > 0 \/ m \in Late

\* The window of a message in hand closes only if the queue had stopped for a day.
WindowOk == ~open /\ faults = 0 => \A m \in Msgs : inbox[m] = "in" => job[m] = "done"

Survives ==
  faults < 2 =>
    /\ \A w \in Workers : TurnOk(wk[w], faults, answered, replies, Late)
    /\ \A m \in Msgs : JobOk(m)
    /\ WindowOk

\* What happens to a turn leaves the others as they were.
LEMMA TurnStays ==
  ASSUME TypeInv, TypeInv', faults <= faults', answered \subseteq answered', Late \subseteq Late',
         \A m \in Msgs : replies[m] <= replies'[m],
         NEW v \in Workers, TurnOk(wk[v], faults, answered, replies, Late)
  PROVE  TurnOk(wk[v], faults', answered', replies', Late')
<1> DEFINE t == wk[v]
<1>1. /\ faults \in Int /\ faults' \in Int
      /\ \A m \in Msgs : replies[m] \in Int /\ replies'[m] \in Int
  BY DEF TypeInv, TypeOK
<1>2. t.pc # "idle" => t.msg \in Msgs
  BY DEF TypeInv
<1> QED BY <1>1, <1>2 DEF TurnOk

\* What a step of run_turn must show of its own turn.
LEMMA TurnSurvives ==
  ASSUME TypeInv, TypeInv', Survives, faults' < 2, faults <= faults', answered \subseteq answered', Late \subseteq Late',
         \A m \in Msgs : replies[m] <= replies'[m],
         UNCHANGED <<inbox, job, tries, live, open>>,
         NEW w \in Workers, wk[w].pc # "idle",
         NEW t, Set(w, t), t.pc # "idle", t.msg = wk[w].msg,
         TurnOk(t, faults', answered', replies', Late')
  PROVE  Survives'
<1>1. /\ faults \in Nat /\ faults' \in Nat
      /\ \A m \in Msgs : /\ replies[m] \in Nat /\ replies'[m] \in Nat
                         /\ tries[m] \in Nat
      /\ wk \in [Workers -> Turn]
  BY ConversationConstants DEF TypeInv, TypeOK
<1>2. \A v \in Workers : wk'[v] = IF v = w THEN t ELSE wk[v]
  BY <1>1 DEF Set
<1>3. faults < 2
  BY <1>1
<1>4. ASSUME NEW v \in Workers PROVE TurnOk(wk'[v], faults', answered', replies', Late')
  <2>1. CASE v = w
    BY <1>2, <2>1
  <2>2. CASE v # w
    <3>1. TurnOk(wk[v], faults', answered', replies', Late')
      BY <1>3, TurnStays DEF Survives
    <3> QED BY <1>2, <2>2, <3>1
  <2> QED BY <2>1, <2>2
<1>5. ASSUME NEW m \in Msgs PROVE JobOk(m)'
  <2>1. JobOk(m)
    BY <1>3 DEF Survives
  <2>2. Unheld(m)' => Unheld(m)
    BY <1>2 DEF Unheld
  <2> QED BY <1>1, <2>1, <2>2 DEF JobOk
<1>6. WindowOk'
  <2>1. WindowOk
    BY <1>3 DEF Survives
  <2> QED BY <1>1, <2>1 DEF WindowOk
<1> QED BY <1>4, <1>5, <1>6 DEF Survives

\* What a step of the queue must show: of the job it is about, and of the window.
LEMMA JobSurvives ==
  ASSUME TypeInv, TypeInv', Survives, faults' < 2, faults <= faults',
         UNCHANGED <<answered, replies>>, Late \subseteq Late', NEW m \in Msgs,
         \A n \in Msgs \ {m} : job'[n] = job[n] /\ tries'[n] = tries[n],
         \A n \in Msgs \ {m} : Unheld(n)' => Unheld(n) \/ faults < faults',
         \A v \in Workers : wk'[v] = wk[v] \/ TurnOk(wk'[v], faults', answered', replies', Late'),
         JobOk(m)', WindowOk'
  PROVE  Survives'
<1>1. /\ faults \in Nat /\ faults' \in Nat
      /\ \A n \in Msgs : replies[n] \in Nat /\ tries[n] \in Nat
  BY ConversationConstants DEF TypeInv, TypeOK
<1>3. faults < 2
  BY <1>1
<1>4. ASSUME NEW v \in Workers PROVE TurnOk(wk'[v], faults', answered', replies', Late')
  <2>1. TurnOk(wk[v], faults', answered', replies', Late')
    <3>1. TurnOk(wk[v], faults, answered, replies, Late)
      BY <1>3 DEF Survives
    <3>2. answered \subseteq answered' /\ \A n \in Msgs : replies[n] <= replies'[n]
      BY <1>1
    <3> QED BY <3>1, <3>2, TurnStays
  <2> QED BY <2>1
<1>5. ASSUME NEW n \in Msgs, n # m PROVE JobOk(n)'
  <2>1. JobOk(n)
    BY <1>3 DEF Survives
  <2>2. /\ Unheld(n)' => Unheld(n) \/ faults < faults'
        /\ job'[n] = job[n] /\ tries'[n] = tries[n] /\ tries[n] \in Nat
    BY <1>1, <1>5
  <2> QED BY <1>1, <2>1, <2>2 DEF JobOk
<1> QED BY <1>4, <1>5 DEF Survives

\* A turn that moves on without a word: what its new place asks of it.
LEMMA UntoldSurvives ==
  ASSUME TypeInv, TypeInv', Survives, faults' < 2, faults <= faults', answered \subseteq answered', Late \subseteq Late',
         UNCHANGED <<inbox, job, tries, live, open, replies>>,
         NEW w \in Workers, wk[w].pc \in {"loop", "sorry", "mirror", "mark"},
         NEW p \in {"sorry", "mirror", "mark", "finish"}, Goto(w, p),
         p = "sorry" => faults' >= 1 \/ wk[w].msg \in Late',
         p \in {"mirror", "mark"} => wk[w].told = TRUE \/ faults' >= 1 \/ wk[w].msg \in Late',
         p = "finish" => wk[w].msg \in answered' \/ wk[w].told = TRUE \/ wk[w].msg \in Late'
  PROVE  Survives'
<1> DEFINE t == wk[w]
           u == [t EXCEPT !.pc = p]
<1>1. t \in Turn /\ u.pc = p /\ u.msg = t.msg /\ u.covered = t.covered /\ u.told = t.told
  BY DEF TypeInv, TypeOK, Turn
<1>2. faults \in Nat /\ faults' \in Nat /\ \A m \in Msgs : replies[m] \in Nat
  BY DEF TypeInv, TypeOK
<1>3. TurnOk(t, faults, answered, replies, Late) /\ t.msg \in Msgs
  BY <1>2 DEF Survives, TypeInv
<1>4. Set(w, u)
  BY DEF Goto, Set
<1> HIDE DEF u
<1>5. TurnOk(u, faults', answered', replies', Late')
  BY <1>1, <1>2, <1>3 DEF TurnOk
<1>6. \A m \in Msgs : replies[m] <= replies'[m]
  BY <1>2
<1>7. t.pc # "idle" /\ u.pc # "idle"
  BY <1>1
<1> QED BY <1>1, <1>4, <1>5, <1>6, <1>7, TurnSurvives

\* A turn that tells its owner something tells them about the message it is about.
LEMMA ToldSurvives ==
  ASSUME TypeInv, TypeInv', Survives, faults' < 2,
         UNCHANGED <<inbox, job, tries, live, open, answered>>, Late \subseteq Late',
         NEW w \in Workers, wk[w].pc \in {"loop", "sorry"},
         NEW p \in {"mirror", "mark"}, Told(w, p)
  PROVE  Survives'
<1> DEFINE t == wk[w]
           u == [t EXCEPT !.pc = p, !.told = TRUE]
<1>1. t \in Turn /\ u.pc = p /\ u.msg = t.msg /\ u.covered = t.covered /\ u.told = TRUE
  BY DEF TypeInv, TypeOK, Turn
<1>2. faults \in Nat /\ faults' = faults /\ replies \in [Msgs -> Nat]
  BY DEF TypeInv, TypeOK, Told, NoFault
<1>3. TurnOk(t, faults, answered, replies, Late) /\ t.msg \in Msgs
  BY <1>2 DEF Survives, TypeInv
<1>4. Set(w, u) /\ replies' = Counted(replies, t.covered)
  BY DEF Told
<1> HIDE DEF u
<1>5. \A m \in Msgs : /\ replies[m] \in Nat
                      /\ replies'[m] = IF m \in t.covered THEN replies[m] + 1 ELSE replies[m]
  BY <1>2, <1>4, CountedTyped
<1>6. t.msg \in t.covered
  BY <1>3 DEF TurnOk
<1>7. replies'[t.msg] > 0
  BY <1>3, <1>5, <1>6
<1>8. TurnOk(u, faults', answered', replies', Late')
  BY <1>1, <1>6, <1>7 DEF TurnOk
<1>9. faults <= faults' /\ \A m \in Msgs : replies[m] <= replies'[m]
  BY <1>2, <1>5
<1>10. t.pc # "idle" /\ u.pc # "idle"
  BY <1>1
<1> QED BY <1>1, <1>4, <1>8, <1>9, <1>10, TurnSurvives

LEMMA SurvivesTurn ==
  ASSUME TypeInv, TypeInv', Held, Asking, Survives, faults' < 2, Late \subseteq Late',
         NEW w \in Workers, RunTurn(w)
  PROVE  Survives'
<1> DEFINE t == wk[w]
<1>0. /\ t.pc # "idle" /\ t \in Turn /\ t.msg \in Msgs /\ inbox[t.msg] = "in"
      /\ job[t.msg] = "running"
  <2>1. t.pc # "idle"
    BY DEF RunTurn, Read, Line, ModelFails, Reply, Sorry, RecordOutbound, MarkAnswered
  <2> QED BY <2>1 DEF TypeInv, TypeOK, Held
<1>n. faults \in Nat /\ faults' \in Nat /\ replies \in [Msgs -> Nat]
  BY DEF TypeInv, TypeOK
<1>s. UNCHANGED <<inbox, job, tries, live, open>>
  BY DEF RunTurn, Read, Line, ModelFails, Reply, Sorry, RecordOutbound, MarkAnswered, SameBook, jobVars
<1>f. faults <= faults'
  <2>1. NoFault \/ Fault
    BY DEF RunTurn, Read, Line, ModelFails, Reply, Sorry, RecordOutbound, MarkAnswered, NoFault,
           Mirrored, SendText, Told, Untold
  <2> QED BY <2>1, <1>n DEF NoFault, Fault
<1>a. answered \subseteq answered'
  BY DEF RunTurn, Read, Line, ModelFails, Reply, Sorry, RecordOutbound, MarkAnswered, SameBook
<1>h. TurnOk(t, faults, answered, replies, Late)
  BY <1>n, <1>f DEF Survives
<1>g. Fault => faults' >= 1
  BY <1>n DEF Fault
\* The window of the message in hand is closed after a failure only.
<1>w. ~open => faults >= 1
  <2>1. WindowOk
    BY <1>n, <1>f DEF Survives
  <2> QED BY <1>0, <1>n, <2>1 DEF WindowOk
<1>1. CASE Read(w)
  <2>0. t.pc = "read" /\ UNCHANGED <<answered, replies, faults>>
    BY <1>1 DEF Read, SameBook, told
  <2>r. \A m \in Msgs : replies[m] <= replies'[m]
    BY <1>n, <2>0
  <2>1. CASE t.msg \in answered
    <3> DEFINE u == [t EXCEPT !.pc = "finish"]
    <3>1. Set(w, u)
      BY <1>1, <2>1 DEF Read, Goto, Set
    <3>2. u.pc = "finish" /\ u.msg = t.msg /\ u.told = t.told
      BY <1>0 DEF Turn
    <3> HIDE DEF u
    <3>3. TurnOk(u, faults', answered', replies', Late')
      BY <1>h, <2>0, <2>1, <3>2 DEF TurnOk
    <3> QED BY <1>0, <1>s, <1>f, <1>a, <2>r, <3>1, <3>2, <3>3, TurnSurvives
  <2>2. CASE t.msg \notin answered
    <3> DEFINE rows == Recent(t.msg)
               u == [t EXCEPT !.pc = "loop", !.covered = Covered(rows, t.msg),
                              !.asked = LastUserTurn(rows)]
    <3>1. Set(w, u)
      BY <1>1, <2>2 DEF Read
    <3>2. u.pc = "loop" /\ u.msg = t.msg /\ u.told = t.told /\ u.covered = Covered(rows, t.msg)
      BY <1>0 DEF Turn
    <3>3. t.msg \in Covered(rows, t.msg)
      BY DEF Covered
    <3> HIDE DEF u
    <3>4. TurnOk(u, faults', answered', replies', Late')
      BY <1>h, <2>0, <3>2, <3>3 DEF TurnOk
    <3> QED BY <1>0, <1>s, <1>f, <1>a, <2>r, <3>1, <3>2, <3>4, TurnSurvives
  <2> QED BY <2>1, <2>2
<1>2. CASE Line(w)
  <2>0. t.pc = "loop" /\ UNCHANGED <<answered, replies>>
    BY <1>2 DEF Line, SameBook, told
  <2>1. PICK l, s, h : Set(w, [t EXCEPT !.lines = l, !.said = s, !.shown = h])
    BY <1>2 DEF Line
  <2> DEFINE u == [t EXCEPT !.lines = l, !.said = s, !.shown = h]
  <2>2. u.pc = "loop" /\ u.msg = t.msg /\ u.told = t.told /\ u.covered = t.covered
    BY <1>0, <2>0 DEF Turn
  <2>3. Set(w, u)
    BY <2>1
  <2> HIDE DEF u
  <2>4. TurnOk(u, faults', answered', replies', Late')
    BY <1>h, <2>0, <2>2 DEF TurnOk
  <2>r. \A m \in Msgs : replies[m] <= replies'[m]
    BY <1>n, <2>0
  <2> QED BY <1>0, <1>s, <1>f, <1>a, <2>r, <2>2, <2>3, <2>4, TurnSurvives
<1>3. CASE ModelFails(w)
  <2>1. /\ t.pc = "loop" /\ Goto(w, "sorry") /\ UNCHANGED replies
        /\ IF t.asked = {} THEN NoFault ELSE Fault
    BY <1>3 DEF ModelFails, told
  <2>2. t.asked # {} \/ t.msg \in Late
    BY <2>1 DEF Asking
  <2>3. faults' >= 1 \/ t.msg \in Late'
    BY <2>1, <2>2, <1>g
  <2> QED BY <1>s, <1>f, <1>a, <2>1, <2>3, UntoldSurvives
\* send_text: what is kept back was failed, what is told is told.
<1>t. ASSUME SendText(w), t.pc \in {"loop", "sorry"}, UNCHANGED answered PROVE Survives'
  <2>1. CASE ~open /\ Untold(w, "mark")
    <3>1. faults' >= 1
      BY <1>w, <1>n, <1>f, <2>1
    <3> QED BY <1>s, <1>f, <1>a, <1>t, <2>1, <3>1, UntoldSurvives DEF Untold
  <2>2. CASE Told(w, "mirror")
    BY <1>s, <1>t, <2>2, ToldSurvives
  <2>3. CASE Untold(w, "mirror") /\ Fault
    BY <1>s, <1>f, <1>a, <1>g, <1>t, <2>3, UntoldSurvives DEF Untold
  <2> QED BY <1>t, <2>1, <2>2, <2>3 DEF SendText
<1>4. CASE Reply(w)
  <2>0. t.pc = "loop" /\ UNCHANGED answered
    BY <1>4 DEF Reply, SameBook
  <2>1. CASE SendText(w)
    BY <2>0, <2>1, <1>t
  <2>2. CASE Told(w, "mark")
    BY <1>s, <2>0, <2>2, ToldSurvives
  <2>3. ASSUME NEW p \in {"mark", "sorry"}, Untold(w, p), Fault PROVE Survives'
    BY <1>s, <1>f, <1>a, <1>g, <2>0, <2>3, UntoldSurvives DEF Untold
  <2> QED BY <1>4, <2>1, <2>2, <2>3 DEF Reply
<1>5. CASE Sorry(w)
  <2>0. t.pc = "sorry" /\ UNCHANGED answered
    BY <1>5 DEF Sorry, SameBook
  <2>f. (faults >= 1 /\ faults' >= 1 /\ ~Fault) \/ t.msg \in Late'
    BY <1>h, <1>n, <1>f, <2>0 DEF TurnOk, Fault
  <2>1. CASE SendText(w)
    BY <2>0, <2>1, <1>t
  <2>2. CASE Untold(w, "mark")
    BY <1>s, <1>f, <1>a, <2>0, <2>f, <2>2, UntoldSurvives DEF Untold
  <2>3. CASE Untold(w, "finish") /\ Fault
    <3>1. t.msg \in Late'
      BY <2>f, <2>3
    <3> QED BY <1>s, <1>f, <1>a, <2>0, <2>3, <3>1, UntoldSurvives DEF Untold
  <2> QED BY <1>5, <2>1, <2>2, <2>3 DEF Sorry
<1>6. CASE RecordOutbound(w)
  <2>1. t.pc = "mirror" /\ Goto(w, "mark") /\ UNCHANGED replies
    BY <1>6 DEF RecordOutbound, told
  <2>2. t.told = TRUE \/ faults' >= 1 \/ t.msg \in Late'
    BY <1>h, <1>n, <1>f, <2>1 DEF TurnOk
  <2> QED BY <1>s, <1>f, <1>a, <2>1, <2>2, UntoldSurvives
<1>7. CASE MarkAnswered(w)
  <2>1. t.pc = "mark" /\ Goto(w, "finish") /\ UNCHANGED replies
    BY <1>7 DEF MarkAnswered
  <2>2. CASE answered' = answered \union t.covered
    <3>1. t.msg \in answered'
      BY <1>h, <2>1, <2>2 DEF TurnOk
    <3> QED BY <1>s, <1>f, <1>a, <2>1, <3>1, UntoldSurvives
  <2>3. CASE Fault
    <3>1. t.told = TRUE \/ t.msg \in Late'
      BY <1>h, <1>n, <2>1, <2>3 DEF TurnOk, Fault
    <3> QED BY <1>s, <1>f, <1>a, <2>1, <3>1, UntoldSurvives
  <2> QED BY <1>7, <2>2, <2>3 DEF MarkAnswered
<1> QED BY <1>1, <1>2, <1>3, <1>4, <1>5, <1>6, <1>7 DEF RunTurn

LEMMA SurvivesWebhook ==
  ASSUME TypeInv, TypeInv', Survives, faults' < 2, Late \subseteq Late', NEW m \in Msgs,
         Arrive(m) \/ Store(m) \/ Drop(m) \/ Redeliver(m) \/ Expire \/ UNCHANGED convVars
  PROVE  Survives'
<1>n. /\ faults \in Nat /\ faults' \in Nat /\ m \in Msgs
      /\ job \in [Msgs -> {"none", "queued", "running", "done", "dead"}]
      /\ inbox \in [Msgs -> {"none", "arriving", "in", "lost"}]
  <2>1. faults \in Nat /\ faults' \in Nat
    BY DEF TypeInv, TypeOK
  <2> QED BY <2>1 DEF TypeInv, TypeOK
<1>s. UNCHANGED <<answered, tries, wk, replies>>
  BY DEF Arrive, Store, Drop, Redeliver, Expire, convVars, jobVars, told
<1>f. faults <= faults'
  BY <1>n DEF Arrive, Store, Drop, Redeliver, Expire, convVars, NoFault, Fault
<1>h. (\A n \in Msgs : JobOk(n)) /\ WindowOk
  BY <1>n, <1>f DEF Survives
<1>u. \A n \in Msgs : Unheld(n)' => Unheld(n)
  BY <1>s DEF Unheld
<1>1. CASE Store(m)
  <2>1. /\ job' = [job EXCEPT ![m] = "queued"] /\ open' = TRUE /\ faults' = faults
        /\ inbox[m] = "arriving"
    BY <1>1 DEF Store, TouchSession
  <2>2. tries[m] = 0
    BY <2>1 DEF TypeInv
  <2>3. job'[m] = "queued" /\ \A n \in Msgs \ {m} : job'[n] = job[n]
    BY <1>n, <2>1
  <2>4. JobOk(m)'
    BY <1>n, <1>s, <2>2, <2>3 DEF JobOk
  <2>5. WindowOk'
    BY <2>1 DEF WindowOk
  <2> QED BY <1>s, <1>f, <1>u, <2>3, <2>4, <2>5, JobSurvives
<1>2. CASE ~Store(m)
  <2>1. job' = job
    BY <1>2 DEF Arrive, Drop, Redeliver, Expire, convVars, jobVars
  <2>2. JobOk(m)'
    <3>1. JobOk(m) /\ (Unheld(m)' <=> Unheld(m)) /\ tries[m] \in Nat
      BY <1>h, <1>s, ConversationConstants DEF Unheld, TypeInv, TypeOK
    <3> QED BY <1>n, <1>s, <1>f, <2>1, <3>1 DEF JobOk
  <2>3. WindowOk'
    <3>1. CASE open' = TRUE
      BY <3>1 DEF WindowOk
    <3>2. CASE faults' # 0
      BY <3>2 DEF WindowOk
    <3>3. CASE faults' = 0 /\ open' # TRUE
      <4>1. faults = 0
        BY <1>n, <1>f, <3>3
      <4>2. ~Fault
        BY <4>1, <3>3 DEF Fault
      <4>3. CASE Expire
        <5>1. (\A n \in Msgs : Settled(n)) /\ inbox' = inbox
          BY <4>2, <4>3 DEF Expire
        <5>2. \A n \in Msgs : inbox[n] = "in" => job[n] = "done"
          BY <1>h, <5>1 DEF Settled, JobOk
        <5> QED BY <2>1, <5>1, <5>2 DEF WindowOk
      <4>4. CASE ~Expire
        <5>1. open' = open /\ \A n \in Msgs : inbox'[n] = "in" => inbox[n] = "in"
          <6>1. open' = open /\ (inbox' = inbox \/ inbox' = [inbox EXCEPT ![m] = "arriving"])
            BY <1>2, <3>3, <4>2, <4>4 DEF Arrive, Drop, Redeliver, TouchSession, convVars
          <6> QED BY <1>n, <6>1
        <5> QED BY <1>h, <2>1, <4>1, <5>1 DEF WindowOk
      <4> QED BY <4>3, <4>4
    <3> QED BY <3>1, <3>2, <3>3
  <2> QED BY <1>s, <1>f, <1>u, <2>1, <2>2, <2>3, JobSurvives
<1> QED BY <1>1, <1>2

LEMMA SurvivesJobs ==
  ASSUME MAX_ATTEMPTS > 1, TypeInv, TypeInv', Held, Survives, faults' < 2, Late \subseteq Late',
         NEW w \in Workers, NEW m \in Msgs,
         Claim(w, m) \/ Raise(w) \/ Crash(w) \/ Finish(w)
  PROVE  Survives'
<1>n. /\ faults \in Nat /\ faults' \in Nat /\ MAX_ATTEMPTS \in Nat
      /\ job \in [Msgs -> {"none", "queued", "running", "done", "dead"}]
      /\ tries \in [Msgs -> 0..MAX_ATTEMPTS] /\ wk \in [Workers -> Turn]
  BY ConversationConstants DEF TypeInv, TypeOK
<1>s. UNCHANGED <<answered, inbox, open, replies>>
  BY DEF Claim, Raise, Crash, Finish, SameBook, told
<1>f. faults <= faults'
  BY <1>n DEF Claim, Raise, Crash, Finish, Fault
<1>h. /\ \A n \in Msgs : JobOk(n)
      /\ \A v \in Workers : TurnOk(wk[v], faults, answered, replies, Late)
      /\ WindowOk
  BY <1>n, <1>f DEF Survives
<1>i. Free.pc = "idle" /\ TurnOk(Free, faults', answered', replies', Late')
  BY DEF TurnOk, Free
\* A job that is tried again, or given up: MAX_ATTEMPTS attempts are out of reach.
<1>a. ASSUME NEW n \in Msgs, tries[n] < 2
      PROVE  Again(n) = "queued"
  BY <1>n, <1>a DEF Again
<1>1. CASE Claim(w, m)
  <2> DEFINE t == [Free EXCEPT !.pc = "read", !.msg = m]
  <2>1. t.pc = "read" /\ t.msg = m /\ t.told = FALSE
    BY DEF Free
  <2>2. /\ wk[w].pc = "idle" /\ job[m] = "queued" /\ faults' = faults
        /\ job' = [job EXCEPT ![m] = "running"] /\ tries' = [tries EXCEPT ![m] = @ + 1]
        /\ wk' = [wk EXCEPT ![w] = t]
    BY <1>1 DEF Claim, Set
  <2> HIDE DEF t
  <2>3. TurnOk(t, faults', answered', replies', Late')
    BY <2>1 DEF TurnOk
  <2>4. \A v \in Workers : wk'[v] = IF v = w THEN t ELSE wk[v]
    BY <1>n, <2>2
  <2>5. /\ job'[m] = "running" /\ tries'[m] = tries[m] + 1
        /\ \A n \in Msgs \ {m} : job'[n] = job[n] /\ tries'[n] = tries[n]
    BY <1>n, <2>2
  <2>6. \A n \in Msgs \ {m} : Unheld(n)' => Unheld(n)
    BY <2>1, <2>2, <2>4 DEF Unheld
  <2>7. ~Unheld(m)'
    BY <2>1, <2>4 DEF Unheld
  <2>8. tries[m] <= faults /\ tries[m] \in Nat
    BY <1>h, <1>n, <2>2 DEF JobOk
  <2>9. JobOk(m)'
    BY <1>n, <2>2, <2>5, <2>7, <2>8 DEF JobOk
  <2>10. WindowOk'
    <3>1. inbox[m] = "in"
      BY <2>2 DEF TypeInv
    <3> QED BY <1>h, <1>s, <2>2, <3>1 DEF WindowOk
  <2> QED BY <1>s, <1>f, <2>3, <2>4, <2>5, <2>6, <2>9, <2>10, JobSurvives
<1>2. CASE Raise(w)
  <2>0. PICK n \in Msgs : n = wk[w].msg
    BY <1>2 DEF Raise, TypeInv
  <2>1. /\ n \in Msgs /\ wk' = [wk EXCEPT ![w] = Free] /\ wk[w].pc # "idle" /\ tries' = tries
        /\ job' = [job EXCEPT ![n] = Again(n)] /\ faults' = faults + 1
    BY <1>2, <2>0 DEF Raise, Set, Fault, TypeInv
  <2>2. job[n] = "running"
    BY <2>0, <2>1 DEF Held
  <2>3. tries[n] <= faults' /\ tries[n] \in Nat
    BY <1>h, <1>n, <2>1, <2>2 DEF JobOk
  <2>4. job'[n] = "queued"
    BY <1>n, <1>a, <2>1, <2>3
  <2>5. \A v \in Workers : wk'[v] = IF v = w THEN Free ELSE wk[v]
    BY <1>n, <2>1
  <2>6. JobOk(n)'
    BY <2>1, <2>3, <2>4 DEF JobOk
  <2>7. WindowOk'
    BY <1>n, <2>1 DEF WindowOk
  <2>8. \A k \in Msgs \ {n} : job'[k] = job[k]
    BY <1>n, <2>1
  <2>9. \A v \in Workers : wk'[v] = wk[v] \/ TurnOk(wk'[v], faults', answered', replies', Late')
    BY <1>i, <2>5
  <2>10. faults < faults'
    BY <1>n, <2>1
  <2> QED BY <1>s, <1>f, <2>1, <2>6, <2>7, <2>8, <2>9, <2>10, JobSurvives
<1>3. CASE Crash(w)
  <2>0. PICK n \in Msgs : n = wk[w].msg
    BY <1>3 DEF Crash, TypeInv
  <2>1. /\ n \in Msgs /\ wk' = [wk EXCEPT ![w] = Free] /\ wk[w].pc # "idle" /\ tries' = tries
        /\ job' = job /\ faults' = faults + 1
    BY <1>3, <2>0 DEF Crash, Set, Fault, TypeInv, jobVars
  <2>2. job[n] = "running"
    BY <2>0, <2>1 DEF Held
  <2>3. tries[n] <= faults' /\ tries[n] \in Nat
    BY <1>h, <1>n, <2>1, <2>2 DEF JobOk
  <2>5. \A v \in Workers : wk'[v] = IF v = w THEN Free ELSE wk[v]
    BY <1>n, <2>1
  <2>6. JobOk(n)'
    BY <1>n, <2>1, <2>2, <2>3 DEF JobOk
  <2>7. WindowOk'
    BY <1>n, <2>1 DEF WindowOk
  <2>9. \A v \in Workers : wk'[v] = wk[v] \/ TurnOk(wk'[v], faults', answered', replies', Late')
    BY <1>i, <2>5
  <2>10. faults < faults'
    BY <1>n, <2>1
  <2> QED BY <1>s, <1>f, <2>1, <2>6, <2>7, <2>9, <2>10, JobSurvives
<1>4. CASE Finish(w)
  <2>0. PICK n \in Msgs : n = wk[w].msg
    BY <1>4 DEF Finish, TypeInv
  <2>1. /\ n \in Msgs /\ wk' = [wk EXCEPT ![w] = Free] /\ wk[w].pc = "finish" /\ tries' = tries
        /\ job' = [job EXCEPT ![n] = "done"] /\ faults' = faults
    BY <1>4, <2>0 DEF Finish, Set, TypeInv
  <2>2. n \in answered \/ replies[n] > 0 \/ n \in Late'
    BY <1>h, <2>0, <2>1 DEF TurnOk
  <2>3. job'[n] = "done" /\ \A k \in Msgs \ {n} : job'[k] = job[k]
    BY <1>n, <2>1
  <2>5. \A v \in Workers : wk'[v] = IF v = w THEN Free ELSE wk[v]
    BY <1>n, <2>1
  <2>6. JobOk(n)'
    BY <1>s, <2>2, <2>3 DEF JobOk
  <2>7. WindowOk'
    BY <1>h, <1>s, <2>1, <2>3 DEF WindowOk
  <2>8. \A k \in Msgs \ {n} : Unheld(k)' => Unheld(k)
    BY <2>0, <2>5 DEF Unheld
  <2>9. \A v \in Workers : wk'[v] = wk[v] \/ TurnOk(wk'[v], faults', answered', replies', Late')
    BY <1>i, <2>5
  <2> QED BY <1>s, <1>f, <2>1, <2>3, <2>6, <2>7, <2>8, <2>9, JobSurvives
<1> QED BY <1>1, <1>2, <1>3, <1>4

LEMMA SurvivesReap ==
  ASSUME MAX_ATTEMPTS > 1, TypeInv, TypeInv', Survives, faults' < 2, Late \subseteq Late',
         NEW m \in Msgs, Reap(m)
  PROVE  Survives'
<1>n. /\ faults \in Nat /\ MAX_ATTEMPTS \in Nat
      /\ job \in [Msgs -> {"none", "queued", "running", "done", "dead"}]
      /\ tries \in [Msgs -> 0..MAX_ATTEMPTS]
  BY ConversationConstants DEF TypeInv, TypeOK
<1>1. /\ job' = [job EXCEPT ![m] = Again(m)] /\ job[m] = "running" /\ Unheld(m)
      /\ UNCHANGED <<tries, wk, faults, answered, inbox, open, replies>>
  BY DEF Reap, Unheld, SameBook, told
<1>h. JobOk(m) /\ WindowOk
  BY <1>n, <1>1 DEF Survives
<1>2. tries[m] <= faults /\ tries[m] \in Nat
  BY <1>h, <1>n, <1>1 DEF JobOk
<1>3. job'[m] = "queued" /\ \A n \in Msgs \ {m} : job'[n] = job[n]
  BY <1>n, <1>1, <1>2 DEF Again
<1>4. JobOk(m)'
  BY <1>1, <1>2, <1>3 DEF JobOk
<1>5. WindowOk'
  <2>1. inbox[m] = "in"
    BY <1>1 DEF TypeInv
  <2> QED BY <1>h, <1>1, <2>1 DEF WindowOk
<1>6. \A n \in Msgs : Unheld(n)' => Unheld(n)
  BY <1>1 DEF Unheld
<1>7. faults <= faults' /\ \A v \in Workers : wk'[v] = wk[v]
  BY <1>n, <1>1
<1> QED BY <1>1, <1>3, <1>4, <1>5, <1>6, <1>7, JobSurvives

LEMMA SurvivesInit == Init => Survives
<1>1. Init => /\ \A w \in Workers : TurnOk(wk[w], faults, answered, replies, Late)
              /\ \A m \in Msgs : JobOk(m)
              /\ WindowOk
  BY DEF Init, TurnOk, JobOk, WindowOk, Free
<1> QED BY <1>1 DEF Survives

LEMMA SurvivesStep ==
  ASSUME MAX_ATTEMPTS > 1
  PROVE  TypeInv /\ Held /\ Survives /\ Asking /\ [Next]_convVars => Survives'
<1> SUFFICES ASSUME TypeInv, Held, Survives, Asking, [Next]_convVars, faults' < 2
             PROVE  Survives'
  BY DEF Survives
<1>1. TypeInv' /\ Late \subseteq Late'
  BY TypeStep, LateStays
<1>2. CASE Webhook \/ Expire \/ UNCHANGED convVars
  <2>1. CASE Msgs = {}
    <3>1. UNCHANGED wk /\ faults <= faults'
      BY <1>1, <1>2, <2>1 DEF Webhook, Expire, convVars, NoFault, Fault, TypeInv, TypeOK
    <3>2. UNCHANGED <<answered, replies>> /\ faults < 2
      BY <1>1, <1>2, <2>1, <3>1 DEF Webhook, Expire, convVars, told, TypeInv, TypeOK
    <3>3. \A v \in Workers : wk[v].pc = "idle"
      BY <2>1 DEF TypeInv
    <3> QED BY <2>1, <3>1, <3>3 DEF Survives, TurnOk, WindowOk
  <2>2. CASE Msgs # {}
    BY <1>1, <1>2, <2>2, SurvivesWebhook DEF Webhook
  <2> QED BY <2>1, <2>2
<1>3. ASSUME NEW m \in Msgs, Reap(m) PROVE Survives'
  BY <1>1, <1>3, SurvivesReap
<1>4. ASSUME NEW w \in Workers, Raise(w) \/ Crash(w) \/ Finish(w) PROVE Survives'
  <2>1. wk[w].msg \in Msgs
    BY <1>4 DEF Raise, Crash, Finish, TypeInv
  <2> QED BY <1>1, <1>4, <2>1, SurvivesJobs
<1>5. ASSUME NEW w \in Workers, NEW m \in Msgs, Claim(w, m) PROVE Survives'
  BY <1>1, <1>5, SurvivesJobs
<1>6. ASSUME NEW w \in Workers, RunTurn(w) PROVE Survives'
  BY <1>1, <1>6, SurvivesTurn
<1> QED BY <1>2, <1>3, <1>4, <1>5, <1>6 DEF Next, Works

\* One failure of anything - a call, a write, a send, an instance - costs no owner their
\* answer, unless HISTORY_LIMIT lines of our own have come behind their message, provided
\* that a job has a second attempt (runner.py:124-132, worker.py:147-162; MAX_ATTEMPTS is
\* 3, queue/client.py:38).
THEOREM AnswerSurvivesFailure ==
  ASSUME MAX_ATTEMPTS > 1
  PROVE  Spec => []OneFailureSurvived
<1>1. TypeInv /\ Survives => OneFailureSurvived
  <2> SUFFICES ASSUME TypeInv, Survives, NEW m \in Msgs, job[m] \in {"done", "dead"}, ~(faults >= 2)
               PROVE  m \in answered \/ replies[m] > 0 \/ Outrun(m)
    BY DEF OneFailureSurvived
  <2>1. faults < 2
    BY DEF TypeInv, TypeOK
  <2> QED BY <2>1 DEF Survives, JobOk, Late
<1>2. Init => Held
  BY DEF Init, Held, Free
<1>3. TypeInv /\ Held /\ Survives /\ Asking /\ [Next]_convVars => Survives'
  BY SurvivesStep
<1> QED BY <1>1, <1>2, <1>3, AskingInit, AskedStep, TypeInit, TypeStep, HeldStep, SurvivesInit,
           PTL DEF Spec
=============================================================================
