-------------------------------- MODULE Login --------------------------------
(***************************************************************************)
(* A brand's Instagram logins and the reading of its numbers: the callback *)
(* of integrations/instagram/oauth.py, the calls that find a token dead    *)
(* (publishing and replying in agent/tools.py and queue/handlers.py, the   *)
(* sync of insights/performance.py), and the hourly sweep.  Meta is called *)
(* outside transactions: what a call learns of a token is written to the   *)
(* row afterwards, by the row's id.  Time goes in parts of a day.          *)
(***************************************************************************)
EXTENDS Integers, FiniteSets

CONSTANTS Callers, Users,     \* instances; Instagram accounts of the owner
          PARTS, RESYNC,      \* parts of a day; RESYNC_HOURS in them, rounded up
          TRIES,              \* worker.MAX_ATTEMPTS
          MAX_NOW, MAX_TOKENS, MAX_FAULTS, MAX_POSTS \* bounds

ASSUME LoginConstants ==
  /\ PARTS \in Nat \ {0} /\ RESYNC \in Nat \ {0} /\ TRIES \in Nat \ {0}
  /\ RESYNC <= PARTS       \* 20 hours and a day
  /\ {MAX_NOW, MAX_TOKENS, MAX_FAULTS, MAX_POSTS} \subseteq Nat

VARIABLES now, row, minted, dead, web, call, job, stamp, since, swept, posts, faults

loginVars == <<now, row, minted, dead, web, call, job, stamp, since, swept, posts, faults>>

NoUser == "nobody"
NeverRead == -PARTS
Unconnected == [status |-> "none", token |-> 0]
NoCall == [kind |-> "none", user |-> NoUser, token |-> 0, began |-> 0]
NoLogin == [user |-> NoUser, token |-> 0]

Day(t) == t \div PARTS
Days == 0 .. Day(MAX_NOW)

LoginInit ==
  /\ now = 0 /\ swept = FALSE
  /\ row = [u \in Users |-> Unconnected]
  /\ minted = 0 /\ dead = {}
  /\ web = NoLogin
  /\ call = [w \in Callers |-> NoCall]
  /\ job = [d \in Days |-> [state |-> "none", tries |-> 0]]
  /\ stamp = NeverRead /\ since = 0
  /\ posts = 0 /\ faults = 0

Connected == {u \in Users : row[u].status = "connected"}

SyncedRecently == now - stamp < RESYNC

-----------------------------------------------------------------------------
\* callback: the code is exchanged and the profile read before the row is written; a
\* failed exchange changes nothing.
Exchange ==
  /\ web = NoLogin /\ minted < MAX_TOKENS
  /\ minted' = minted + 1
  /\ \E u \in Users : web' = [user |-> u, token |-> minted']
  /\ UNCHANGED <<now, row, dead, call, job, stamp, since, swept, posts, faults>>

Connect ==
  /\ web # NoLogin
  /\ row' = [row EXCEPT ![web.user] = [status |-> "connected", token |-> web.token]]
  /\ since' = IF Connected = {} THEN now ELSE since
  /\ web' = NoLogin
  /\ UNCHANGED <<now, minted, dead, call, job, stamp, swept, posts, faults>>

\* Sixty days, or the owner takes the permission away.
TokenDies ==
  /\ \E t \in (1 .. minted) \ dead : dead' = dead \union {t}
  /\ UNCHANGED <<now, row, minted, web, call, job, stamp, since, swept, posts, faults>>

-----------------------------------------------------------------------------
BeginCall(w, kind) ==
  \E u \in Connected :
    call' = [call EXCEPT ![w] = [kind |-> kind, user |-> u, token |-> row[u].token, began |-> now]]

End(w) == call' = [call EXCEPT ![w] = NoCall]

\* A publish call or a reply to a comment: any connected row, whichever comes first.
BeginPost(w) ==
  /\ call[w] = NoCall /\ posts < MAX_POSTS
  /\ posts' = posts + 1
  /\ BeginCall(w, "post")
  /\ UNCHANGED <<now, row, minted, dead, web, job, stamp, since, swept, faults>>

\* A token in its last week is refreshed first, and the row written by its id.
RefreshToken(w) ==
  LET u == call[w].user IN
  /\ call[w].kind = "post" /\ call[w].token \notin dead /\ minted < MAX_TOKENS
  /\ minted' = minted + 1
  /\ row' = [row EXCEPT ![u].token = minted']
  /\ call' = [call EXCEPT ![w].token = minted', ![w].kind = "posting"]
  /\ UNCHANGED <<now, dead, web, job, stamp, since, swept, posts, faults>>

\* sync_insights, queued by the sweep; or sync_if_due before a daily suggestion; or the
\* job of a post, 48 hours on.  Without a connection they end at once.
TakeSync(d) == [job EXCEPT ![d] = [state |-> "running", tries |-> @.tries + 1]]

BeginSync(w) ==
  /\ call[w] = NoCall
  /\ \E d \in Days : job[d].state = "queued" /\
       IF Connected = {} THEN job' = [job EXCEPT ![d].state = "done"] /\ UNCHANGED call
       ELSE job' = TakeSync(d) /\ BeginCall(w, "sync")
  /\ UNCHANGED <<now, row, minted, dead, web, stamp, since, swept, posts, faults>>

BeginAside(w) ==
  /\ call[w] = NoCall /\ (~SyncedRecently \/ posts > 0)
  /\ BeginCall(w, "aside")
  /\ UNCHANGED <<now, row, minted, dead, web, job, stamp, since, swept, posts, faults>>

\* How a call leaves the job that it is, if it is one; one sync job runs at a time.
EndSync(w, state) ==
  job' = IF call[w].kind # "sync" THEN job
         ELSE [d \in Days |-> IF job[d].state = "running" THEN [job[d] EXCEPT !.state = state]
                              ELSE job[d]]

\* Only codes 190 and 102 say that the token is dead (is_auth_error).
SaysDead_AnyError(w) == TRUE

SaysDead(w) == call[w].token \in dead

Disconnect(w) ==
  /\ call[w] # NoCall /\ SaysDead(w)
  /\ row' = [row EXCEPT ![call[w].user].status = "disconnected"]
  /\ EndSync(w, "done")
  /\ End(w)
  /\ UNCHANGED <<now, minted, dead, web, stamp, since, swept, posts, faults>>

\* The post is out, or the numbers are read and committed.
Succeed(w) ==
  /\ call[w] # NoCall /\ call[w].token \notin dead
  /\ stamp' = IF call[w].kind \in {"sync", "aside"} THEN call[w].began ELSE stamp
  /\ EndSync(w, "done")
  /\ End(w)
  /\ UNCHANGED <<now, row, minted, dead, web, since, swept, posts, faults>>

\* Meta fails in another way, or the worker is lost: a post and a sync aside give up,
\* the job is tried again until it is dead.
CallFails(w) ==
  /\ call[w] # NoCall /\ faults < MAX_FAULTS
  /\ faults' = faults + 1
  /\ EndSync(w, IF \E d \in Days : job[d].state = "running" /\ job[d].tries = TRIES
               THEN "dead" ELSE "queued")
  /\ End(w)
  /\ UNCHANGED <<now, row, minted, dead, web, stamp, since, swept, posts>>

-----------------------------------------------------------------------------
\* The sweep asks once a day for a brand that was not read lately: the dedupe key is the
\* brand and the day.
Asked_Ever(d) == \E x \in Days : job[x].state # "none"

Asked(d) == job[d].state # "none"

Sweep ==
  /\ ~swept /\ swept' = TRUE
  /\ job' = IF Connected = {} \/ SyncedRecently \/ Asked(Day(now)) THEN job
            ELSE [job EXCEPT ![Day(now)] = [state |-> "queued", tries |-> 0]]
  /\ UNCHANGED <<now, row, minted, dead, web, call, stamp, since, posts, faults>>

\* Sweeps are hourly and calls and jobs take minutes, a part of a day is hours: each part
\* has its sweep, what it asked for is done, and no call lasts through a part.
Later ==
  /\ now < MAX_NOW /\ swept
  /\ \A d \in Days : job[d].state \in {"none", "done", "dead"}
  /\ \A w \in Callers : call[w] = NoCall \/ call[w].began = now
  /\ now' = now + 1 /\ swept' = FALSE
  /\ UNCHANGED <<row, minted, dead, web, call, job, stamp, since, posts, faults>>

Calls(w) ==
  \/ BeginPost(w) \/ RefreshToken(w) \/ BeginSync(w) \/ BeginAside(w)
  \/ Disconnect(w) \/ Succeed(w) \/ CallFails(w)

LoginNext ==
  \/ Exchange \/ Connect \/ TokenDies \/ Sweep \/ Later
  \/ \E w \in Callers : Calls(w)

LoginSpec == LoginInit /\ [][LoginNext]_loginVars

-----------------------------------------------------------------------------
\* A login is dropped only for a dead token: its own, or, when the owner has logged in
\* again while the call was out, the one the call had read (the comment at
\* client._DEAD_TOKEN_CODES: any other error "would disconnect an account over a rejected
\* image").
DroppedOnlyWhenDead ==
  [][\A u \in Users : row[u].status = "connected" /\ row'[u].status = "disconnected" =>
       \/ row[u].token \in dead
       \/ \E w \in Callers : call[w].user = u /\ call[w].token \in dead
                               /\ call[w].token # row[u].token]_loginVars

\* While Meta answers and logins are live, an account that stays connected is read again
\* before RESYNC and a day have gone by, whatever the reads in between and however often
\* the owner logs in anew.
NumbersKeepComing ==
  faults = 0 /\ dead = {} /\ Connected # {} /\ swept
    /\ (\A d \in Days : job[d].state \in {"none", "done", "dead"})
  => \/ now - stamp < RESYNC + PARTS
     \/ now - since < PARTS

\* The next post goes to the account that the owner connected last.  Refuted: connecting
\* a second account leaves the first connected, and the publisher takes either.
PostsToLatest == Cardinality(Connected) <= 1

\* A live login is never dropped.  Refuted: a call that has read the old token
\* disconnects the row after the owner has logged in again.
LiveLoginKept ==
  [][\A u \in Users : row[u].status = "connected" /\ row'[u].status = "disconnected" =>
       row[u].token \in dead]_loginVars
=============================================================================
