------------------------------ MODULE Outreach ------------------------------
(* Inbox and nudges of one owner side by side, over one session and one pool *)
(* of workers.                                                               *)
EXTENDS Inbox, Nudges

vars == <<sessVars, inboxVars, nudgeVars>>

TypeOK == SessionTypeOK /\ InboxTypeOK /\ NudgesTypeOK

Init == SessionInit /\ InboxInit /\ NudgesInit

\* What the owner writes or sends of their own, and with the buttons of an idea that was sent.
OwnerWrites ==
  /\ \E kind \in {"text", "photo"} \union (IF daily + festive + suggested > 0 THEN {"make", "skip"} ELSE {}) : InboundRead(kind, NoEvent)
  /\ UNCHANGED <<inboxVars, nudgeVars>>

Lost(w) == Lose(w) /\ InboxLost(w) /\ NudgesLost(w)
           /\ UNCHANGED <<event, drafts, shown, posts, beside, keys, swept, suggested, pushed, daily, festive, held>>

NextDay == DayPasses /\ daily' = 0
           /\ UNCHANGED <<inboxVars, keys, swept, suggested, pushed, festive, twice, held>>

Next ==
  \/ OwnerWrites
  \/ InboxTaps /\ UNCHANGED nudgeVars
  \/ Webhook /\ UNCHANGED <<inboxVars, nudgeVars>>
  \/ (\E e \in Events : Record(e)) /\ UNCHANGED nudgeVars
  \/ FestivalSweep /\ UNCHANGED inboxVars
  \/ \E w \in Workers :
       \/ InboxWorks(w) /\ UNCHANGED nudgeVars
       \/ NudgesWork(w) /\ UNCHANGED inboxVars
       \/ Lost(w)
       \/ RunAgain(w) /\ UNCHANGED <<inboxVars, nudgeVars>>
  \/ CloseWindow /\ UNCHANGED <<inboxVars, nudgeVars>>
  \/ NextDay

Spec == Init /\ [][Next]_vars
=============================================================================
