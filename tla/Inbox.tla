------------------------------- MODULE Inbox -------------------------------
(***************************************************************************)
(* The engagement inbox: a comment or DM becomes an event, its drafted     *)
(* reply is sent to the owner with Send, Edit and Skip, and their tap, or  *)
(* what they type after Edit, is posted (inbox/router.py, service.py;      *)
(* queue/handlers.py: ig_event_notify, ig_action).                         *)
(*                                                                         *)
(* A draft is a number, a typed reply is 0.  Confirmations are left out.   *)
(***************************************************************************)
EXTENDS Session

VARIABLES event,   \* IgEvent: its status and its draft
          drafts,  \* drafts written so far
          shown,   \* drafts that were sent to the owner with their buttons
          posts,   \* replies on Instagram, of each event
          extra,   \* what can have made a reply too many: a run of ig_action that ended without
                   \* its record or began beside another one of its event, and a write over it
          beside   \* events drafted twice at once

inboxVars == <<event, drafts, shown, posts, extra, beside>>

Statuses == {"none", "new", "drafted", "sent", "skipped", "failed"}

InboxTypeOK ==
  /\ event \in [Events -> [status : Statuses, draft : Nat]]
  /\ drafts \in Nat
  /\ shown \subseteq Events \X (1..drafts)
  /\ posts \in [Events -> Seq(0..drafts)]
  /\ extra \in [Events -> Nat] /\ beside \subseteq Events

InboxInit ==
  /\ event = [e \in Events |-> [status |-> "none", draft |-> 0]]
  /\ drafts = 0 /\ shown = {}
  /\ posts = [e \in Events |-> <<>>]
  /\ extra = [e \in Events |-> 0] /\ beside = {}

Mark(e, status) == event' = [event EXCEPT ![e].status = status]

\* A write that does not know that the event is answered meanwhile.
Unanswers(e) == extra' = IF event[e].status = "sent" THEN [extra EXCEPT ![e] = @ + 1] ELSE extra

\* Everything of Session that a step of a worker on its own task leaves alone.
Alone == UNCHANGED <<day, ownerVars, rowVars, faults>>

Done(w) == Go(w, Idle) /\ UNCHANGED queue

\* The Instagram webhook: the event and its job in one transaction; a second delivery
\* finds the event and adds nothing.
Record(e) ==
  /\ event[e].status = "none"
  /\ Mark(e, "new")
  /\ queue' = queue \union {[kind |-> "notify", event |-> e, action |-> "none", n |-> 0, sess |-> 0]}
  /\ Alone /\ UNCHANGED <<wk, drafts, shown, posts, extra, beside>>

-----------------------------------------------------------------------------
(* ig_event_notify *)

\* It goes no further for an event past 'new', or with the window closed: then the
\* event stays 'new', and nothing comes back for it.
NotifyRead(w, j) ==
  /\ Takes(w, "notify", j)
  /\ Go(w, IF event[j.event].status = "new" /\ open THEN [Idle EXCEPT !.pc = "draft", !.job = j, !.sess = sess] ELSE Idle)
  /\ Alone /\ UNCHANGED inboxVars

\* Mutant: the status is not read again after the model has drafted.
NotifyDraft_Unread(w) ==
  /\ At(w, "draft")
  /\ drafts' = drafts + 1
  /\ Go(w, [wk[w] EXCEPT !.pc = "note", !.text = drafts + 1])
  /\ Alone /\ UNCHANGED <<queue, event, shown, posts, extra, beside>>

Noting(e) == \E w \in Workers : At(w, "note") /\ wk[w].job.event = e

\* The model has drafted.  The second transaction reads the status again ("a tap raced
\* us; do not overwrite"), without a lock.
NotifyDraft(w) ==
  LET e == wk[w].job.event
  IN /\ At(w, "draft")
     /\ IF event[e].status = "new"
        THEN /\ drafts' = drafts + 1
             /\ Go(w, [wk[w] EXCEPT !.pc = "note", !.text = drafts + 1])
             /\ beside' = IF Noting(e) THEN beside \union {e} ELSE beside
        ELSE Go(w, Idle) /\ UNCHANGED <<drafts, beside>>
     /\ Alone /\ UNCHANGED <<queue, event, shown, posts, extra>>

\* Its commit writes over whatever the event is by then.
NotifyWrite(w) ==
  LET e == wk[w].job.event
  IN /\ At(w, "note")
     /\ event' = [event EXCEPT ![e] = [status |-> "drafted", draft |-> wk[w].text]]
     /\ Unanswers(e)
     /\ To(w, "offer")
     /\ Alone /\ UNCHANGED <<queue, drafts, shown, posts, beside>>

\* send_text: the owner gets it, or it is lost with the event drafted.
NotifySend(w) ==
  /\ At(w, "offer")
  /\ \/ open /\ shown' = shown \union {<<wk[w].job.event, wk[w].text>>} /\ UNCHANGED faults
     \/ Refused /\ UNCHANGED shown
  /\ Done(w)
  /\ UNCHANGED <<day, ownerVars, rowVars, event, drafts, posts, extra, beside>>

-----------------------------------------------------------------------------
(* ig_action *)

\* A tap needs buttons, and the webhook believes whatever tap it gets.
Tap(kind, e) ==
  /\ \E d \in 1..drafts : <<e, d>> \in shown
  /\ InboundRead(kind, e)
  /\ UNCHANGED inboxVars

Unsettled(e) == event[e].status \in {"new", "drafted"}

\* Edit only asks for the text; Skip is for an event that is not yet answered.
ActQuick(w, j) ==
  /\ Takes(w, "act", j) /\ j.action \in {"edit_prompt", "drop"}
  /\ Go(w, IF j.action = "drop" /\ Unsettled(j.event) THEN [Idle EXCEPT !.pc = "drop", !.job = j] ELSE Idle)
  /\ Alone /\ UNCHANGED inboxVars

\* The second transaction of a Skip reads the status again, without a lock.
SkipRead(w) ==
  /\ At(w, "drop")
  /\ Go(w, IF Unsettled(wk[w].job.event) THEN [wk[w] EXCEPT !.pc = "dropping"] ELSE Idle)
  /\ Alone /\ UNCHANGED <<queue, inboxVars>>

\* Its commit ends the event, whatever it is by then.
SkipWrite(w) ==
  /\ At(w, "dropping")
  /\ Mark(wk[w].job.event, "skipped") /\ Unanswers(wk[w].job.event)
  /\ Done(w) /\ Alone /\ UNCHANGED <<drafts, shown, posts, beside>>

Acting(e) == \E w \in Workers : wk[w].pc \in {"post", "posted"} /\ wk[w].job.event = e

\* Mutant: a second tap on Send is a second reply.
Posts_Again(j) == TRUE

\* Everything but an event that is already answered is posted.
Posts(j) == event[j.event].status # "sent"

\* The first transaction: the status and the reply as they are now.
ActRead(w, j) ==
  /\ Takes(w, "act", j) /\ j.action \in {"send", "custom"}
  /\ IF Posts(j)
     THEN /\ Go(w, [Idle EXCEPT !.pc = "post", !.job = j,
                                !.text = IF j.action = "custom" THEN 0 ELSE event[j.event].draft])
          /\ extra' = [extra EXCEPT ![j.event] = IF Acting(j.event) THEN @ + 1 ELSE @]
     ELSE UNCHANGED <<wk, extra>>
  /\ Alone /\ UNCHANGED <<event, drafts, shown, posts, beside>>

\* The reply is posted; or not, and the event says failed, as it does when there is no
\* login any more, or when only the answer is lost.
ActPost(w) ==
  LET e == wk[w].job.event
  IN /\ At(w, "post")
     /\ \/ /\ posts' = [posts EXCEPT ![e] = Append(@, wk[w].text)]
           /\ To(w, "posted") /\ UNCHANGED <<event, extra, faults>>
        \/ /\ Mark(e, "failed") /\ Go(w, Idle) /\ UNCHANGED <<posts, extra, faults>>
        \/ /\ faults < MAX_FAULTS /\ faults' = faults + 1
           /\ posts' = [posts EXCEPT ![e] = Append(@, wk[w].text)]
           /\ extra' = [extra EXCEPT ![e] = @ + 1]
           /\ Mark(e, "failed") /\ Go(w, Idle)
     /\ UNCHANGED <<day, ownerVars, rowVars, queue, drafts, shown, beside>>

ActRecord(w) ==
  /\ At(w, "posted")
  /\ Mark(wk[w].job.event, "sent")
  /\ Done(w) /\ Alone /\ UNCHANGED <<drafts, shown, posts, extra, beside>>

\* A worker lost after the post leaves no trace of it.
InboxLost(w) ==
  extra' = IF At(w, "posted") THEN [extra EXCEPT ![wk[w].job.event] = @ + 1] ELSE extra

-----------------------------------------------------------------------------
InboxWorks(w) ==
  \/ \E j \in queue : NotifyRead(w, j) \/ ActQuick(w, j) \/ ActRead(w, j)
  \/ NotifyDraft(w) \/ NotifyWrite(w) \/ NotifySend(w)
  \/ SkipRead(w) \/ SkipWrite(w) \/ ActPost(w) \/ ActRecord(w)

InboxTaps == \E e \in Events, kind \in {"send", "edit_prompt", "drop"} : Tap(kind, e)

-----------------------------------------------------------------------------
(* Properties *)

\* A comment is answered once, unless a run of ig_action ended after the post without
\* recording it, two ran at once, or a Skip or a draft was written over the record of it:
\* "already posted; a double tap is a no-op" (handlers.py:413), whatever taps, edits and
\* second runs of a job there are.
RepliedOnce == \A e \in Events : Len(posts[e]) <= 1 + extra[e]

\* "Nothing is auto-posted; the owner's tap is the gate" (service.py:7): what a tap on
\* Send posts is a draft the owner was sent, although the row is read only when the
\* job runs and drafts are written beside it; but for an event that two runs of the
\* notify job both found 'new' (handlers.py:344).
DraftShownIsPosted ==
  \A e \in Events \ beside : \A i \in 1..Len(posts[e]) : posts[e][i] # 0 => <<e, posts[e][i]>> \in shown

\* What the owner types becomes a public reply only right after they tapped Edit on
\* that very event ("so it can't hijack a later reply", ingest.py:171), but for a write
\* of the session's state that brings an old edit back, and for a message that was
\* taken in beside the one that changed the edit.
HijackOnlyByOvertaking == hijacked # {} => stale > 0 \/ crossed > 0

\* The same, without exception.
NeverHijacked == hijacked = {}
=============================================================================
