----------------------------- MODULE Revisions -----------------------------
(***************************************************************************)
(* The versions of one brand's creatives: briefs saved over one another,   *)
(* the rows of their slides, and the pictures in the bucket that versions  *)
(* share (creative/pipeline.py: generate, recompose, regenerate_image,     *)
(* reap_stuck_creatives; db/repo.py; integrations/storage/r2.py).          *)
(*                                                                         *)
(* Abstractions.                                                           *)
(*  - What a revision changes, and whether the copy can be set, fits or is *)
(*    allowed, is a choice: a turn that refuses before it stores anything  *)
(*    changes nothing and is no step.                                      *)
(*  - "generating" and "composing" are one status, "making"; credits and   *)
(*    slow turns that a reaper overtakes are CreativeBilling's.            *)
(*  - Days pass only between turns, which take minutes.  The lifecycle     *)
(*    rule deletes a draft at any time after TTL days.                     *)
(*  - A picture's key is the slide whose row first stored it; the owner's  *)
(*    photograph and the studio built around it are one lane, "photo", and *)
(*    which slides find a photograph of theirs does not change.            *)
(*  - MAX_BRIEFS bounds the versions, MAX_DAY the days, MAX_FAULTS the     *)
(*    workers lost.                                                        *)
(***************************************************************************)
EXTENDS Integers, FiniteSets

CONSTANTS Workers,
          Slides,                \* positions of a carousel; one of a single post
          Photos,                \* slides that show one of the owner's photographs
          TTL,                   \* DRAFT_TTL_DAYS, and the lifecycle rule's Days
          MAX_BRIEFS, MAX_DAY, MAX_FAULTS

ASSUME RevisionsConstants ==
  /\ IsFiniteSet(Workers)
  /\ IsFiniteSet(Slides) /\ Slides # {}
  /\ Photos \subseteq Slides
  /\ TTL \in Nat \ {0}
  /\ MAX_BRIEFS \in Nat
  /\ MAX_DAY \in Nat
  /\ MAX_FAULTS \in Nat

VARIABLES day,
          briefs,    \* number of briefs saved
          brief,     \* their rows
          row,       \* the Creative row of each slide of each brief
          bucket,    \* objects in the bucket
          storedOn,  \* the day the objects of a slide were stored
          photoPic,  \* slides whose stored picture shows the owner's photograph
          shown,     \* briefs a turn returned as made; the agent knows of no others
          offered,   \* briefs whose approval buttons were sent
          wk,        \* the turn of each worker
          faults

revVars == <<day, briefs, brief, row, bucket, storedOn, photoPic, shown, offered, wk, faults>>

Briefs == 1..MAX_BRIEFS
Creatives == Briefs \X Slides
NoKey == <<0, 0>>

Objects == {"bg", "card", "post"} \X Creatives

Brief == [status : {"none", "draft", "superseded", "approved"},
          parent : 0..MAX_BRIEFS]

Row == [status : {"none", "making", "ready", "approved", "published", "failed"},
        bg : Creatives \union {NoKey},
        lane : {"none", "photo", "made"},  \* imagegen_provider
        card : {"none", "draft", "kept"},  \* prefix of composed_key
        expires : Nat, tapped : BOOLEAN]

NoRow == [status |-> "none", bg |-> NoKey, lane |-> "none", card |-> "none", expires |-> 0, tapped |-> FALSE]

PC == {"idle",
       "revise",   \* recompose: the guard passed, nothing saved
       "redo",     \* regenerate_image: the kept slides chosen, nothing saved
       "recompose", "generate"}  \* the version is saved and its slides are made

Turn == [pc : PC, brief : 0..MAX_BRIEFS, slides : SUBSET Slides, bad : SUBSET Slides]

Free == [pc |-> "idle", brief |-> 0, slides |-> {}, bad |-> {}]

TypeOK ==
  /\ day \in 0..MAX_DAY
  /\ briefs \in 0..MAX_BRIEFS
  /\ brief \in [Briefs -> Brief]
  /\ row \in [Creatives -> Row]
  /\ bucket \subseteq Objects
  /\ storedOn \in [Creatives -> 0..MAX_DAY]
  /\ photoPic \subseteq Creatives
  /\ shown \subseteq Briefs /\ offered \subseteq Briefs
  /\ wk \in [Workers -> Turn]
  /\ faults \in 0..MAX_FAULTS

Init ==
  /\ day = 0 /\ briefs = 0
  /\ brief = [b \in Briefs |-> [status |-> "none", parent |-> 0]]
  /\ row = [c \in Creatives |-> NoRow]
  /\ bucket = {} /\ photoPic = {}
  /\ storedOn = [c \in Creatives |-> 0]
  /\ shown = {} /\ offered = {}
  /\ wk = [w \in Workers |-> Free]
  /\ faults = 0

Rows(b) == {row[<<b, s>>] : s \in Slides}

Stored(key) == <<"bg", key>> \in bucket

InFlight == \E c \in Creatives : row[c].status = "making"

Expired(r) == r.expires <= day

Set(w, turn) == wk' = [wk EXCEPT ![w] = turn]

-----------------------------------------------------------------------------
(* Saving a version. *)

\* save_brief: the child is saved and its parent superseded in one transaction.
SaveBrief(parent) ==
  /\ briefs < MAX_BRIEFS
  /\ briefs' = briefs + 1
  /\ brief' = [b \in Briefs |->
       CASE b = briefs + 1 -> [status |-> "draft", parent |-> parent]
         [] b = parent     -> [brief[b] EXCEPT !.status = "superseded"]
         [] OTHER          -> brief[b]]

\* Mutant: the drafts are said to live a day longer than they do.
Saved_LongLived(bg, lane) ==
  [c \in Creatives |->
    IF c[1] # briefs + 1 THEN row[c]
    ELSE [NoRow EXCEPT !.status = "making", !.bg = bg[c[2]], !.lane = lane[c[2]], !.expires = day + TTL + 1]]

\* The rows of the new version, with the pictures and lanes they start from.
Saved(bg, lane) ==
  [c \in Creatives |->
    IF c[1] # briefs + 1 THEN row[c]
    ELSE [NoRow EXCEPT !.status = "making", !.bg = bg[c[2]], !.lane = lane[c[2]], !.expires = day + TTL]]

Unlaned == [s \in Slides |-> "none"]

\* create_creative, as generate saves it.
Create(w) ==
  /\ wk[w].pc = "idle"
  /\ ~InFlight
  /\ SaveBrief(0)
  /\ row' = Saved([s \in Slides |-> NoKey], Unlaned)
  /\ Set(w, [Free EXCEPT !.pc = "generate", !.brief = briefs + 1])
  /\ UNCHANGED <<day, bucket, storedOn, photoPic, shown, offered, faults>>

\* generate without the credits: the version is saved, and its slides have failed.
Unpaid(parent) ==
  /\ ~InFlight
  /\ SaveBrief(parent)
  /\ row' = [c \in Creatives |->
       IF c[1] = briefs + 1 THEN [NoRow EXCEPT !.status = "failed", !.expires = day + TTL] ELSE row[c]]

CreateUnpaid(w) ==
  /\ wk[w].pc = "idle"
  /\ Unpaid(0)
  /\ UNCHANGED <<day, bucket, storedOn, photoPic, shown, offered, wk, faults>>

\* recompose up to _revision_guard, which fetches the picture of every slide that
\* has one: a picture that is gone raises there, and the tool reports an error.
Revise(w, b) ==
  /\ wk[w].pc = "idle"
  /\ b \in shown
  /\ \A s \in Slides : row[<<b, s>>].bg # NoKey => Stored(row[<<b, s>>].bg)
  /\ Set(w, [Free EXCEPT !.pc = "revise", !.brief = b])
  /\ UNCHANGED <<day, briefs, brief, row, bucket, storedOn, photoPic, shown, offered, faults>>

\* recompose's second transaction.  rebuilt: studio slides stood in a new window,
\* stored under the child's own key.  The child's rows do not take the lane over.
SaveRevision(w) ==
  LET b == wk[w].brief
      n == briefs + 1
  IN /\ wk[w].pc = "revise"
     /\ \A s \in Slides : row[<<b, s>>].bg # NoKey /\ ~Expired(row[<<b, s>>])
     /\ SaveBrief(b)
     /\ \E rebuilt \in SUBSET {s \in Slides : row[<<b, s>>].lane = "photo"} :
          /\ row' = Saved([s \in Slides |-> IF s \in rebuilt THEN <<n, s>> ELSE row[<<b, s>>].bg],
                          Unlaned)
          /\ bucket' = bucket \union {<<"bg", <<n, s>>>> : s \in rebuilt}
          /\ photoPic' = photoPic \union ({n} \X rebuilt)
     /\ storedOn' = [c \in Creatives |-> IF c[1] = n THEN day ELSE storedOn[c]]
     /\ Set(w, [Free EXCEPT !.pc = "recompose", !.brief = n, !.slides = Slides])
     /\ UNCHANGED <<day, shown, offered, faults>>

\* The second transaction refuses: no picture to reuse, or the drafts expired.
ReviseRefused(w) ==
  /\ wk[w].pc = "revise"
  /\ \E s \in Slides : row[<<wk[w].brief, s>>].bg = NoKey \/ Expired(row[<<wk[w].brief, s>>])
  /\ Set(w, Free)
  /\ UNCHANGED <<day, briefs, brief, row, bucket, storedOn, photoPic, shown, offered, faults>>

\* The slides whose row says they show the owner's photograph (_owner_photo_slides).
PhotoSlides(b) == {s \in Slides : row[<<b, s>>].lane = "photo"}

\* regenerate_image before generate.  target: the slides asked for, one or all of
\* them; the pictures of the others are kept, and of all the owner's own.  What is
\* the owner's photograph already is refused.
Redo(w, b) ==
  \E target \in {{s} : s \in Slides} \union {Slides} :
    LET own == PhotoSlides(b) \intersect target
        mixed == target = Slides /\ PhotoSlides(b) # Slides
        kept == IF Cardinality(Slides) = 1 THEN {}
                ELSE (Slides \ target) \union (IF target = Slides THEN own ELSE {})
    IN /\ wk[w].pc = "idle"
       /\ b \in shown
       /\ own = {} \/ mixed
       /\ \A s \in kept : ~Expired(row[<<b, s>>])
       /\ Set(w, [Free EXCEPT !.pc = "redo", !.brief = b,
                              !.slides = {s \in kept : row[<<b, s>>].bg # NoKey}])
       /\ UNCHANGED <<day, briefs, brief, row, bucket, storedOn, photoPic, shown, offered, faults>>

\* generate with a parent and the pictures to reuse; slides are the reused ones.
SaveRedo(w) ==
  LET b == wk[w].brief
      Kept(s) == s \in wk[w].slides
  IN /\ wk[w].pc = "redo"
     /\ ~InFlight
     /\ SaveBrief(b)
     /\ row' = Saved([s \in Slides |-> IF Kept(s) THEN row[<<b, s>>].bg ELSE NoKey],
                     [s \in Slides |-> IF Kept(s) THEN row[<<b, s>>].lane ELSE "none"])
     /\ Set(w, [wk[w] EXCEPT !.pc = "generate", !.brief = briefs + 1])
     /\ UNCHANGED <<day, bucket, storedOn, photoPic, shown, offered, faults>>

\* in_flight_gate, or the owner is out of credits.
RedoRefused(w) ==
  /\ wk[w].pc = "redo"
  /\ \/ InFlight /\ UNCHANGED <<briefs, brief, row>>
     \/ Unpaid(wk[w].brief)
  /\ Set(w, Free)
  /\ UNCHANGED <<day, bucket, storedOn, photoPic, shown, offered, faults>>

-----------------------------------------------------------------------------
(* Making the slides of a saved version. *)

Making(w) == wk[w].pc \in {"recompose", "generate"}

Remaining(w) == {s \in Slides \ wk[w].bad : row[<<wk[w].brief, s>>].status = "making"}

\* _build_one and _recompose_one: a kept picture is fetched, a new one is the
\* owner's photograph or is made; the card is stored, and then the row is ready.
\* Only _build_one writes the lane.
SlideReady(w, s) ==
  LET c == <<wk[w].brief, s>>
      kept == s \in wk[w].slides
      lane == IF s \in Photos THEN "photo" ELSE "made"
      key == IF kept THEN row[c].bg ELSE c
  IN /\ Making(w) /\ s \in Remaining(w)
     /\ kept => Stored(key)
     /\ bucket' = bucket \union {<<"card", c>>, <<"bg", key>>}
     /\ photoPic' = IF ~kept /\ lane = "photo" THEN photoPic \union {c} ELSE photoPic
     /\ storedOn' = [storedOn EXCEPT ![c] = day]
     /\ row' = [row EXCEPT ![c].status = "ready", ![c].card = "draft", ![c].bg = key,
                           ![c].lane = IF kept THEN @ ELSE lane]
     /\ UNCHANGED <<day, briefs, brief, shown, offered, wk, faults>>

\* A slide raises: a check refuses it, or the picture it should reuse is gone.
SlideBad(w, s) ==
  /\ Making(w) /\ s \in Remaining(w)
  /\ wk' = [wk EXCEPT ![w].bad = @ \union {s}]
  /\ UNCHANGED <<day, briefs, brief, row, bucket, storedOn, photoPic, shown, offered, faults>>

\* Mutant: the parent's rows are failed with the slides that raised.
MarkFailed_ParentToo(w, s) ==
  LET c == <<wk[w].brief, s>>
  IN /\ Making(w) /\ Remaining(w) = {} /\ s \in wk[w].bad
     /\ row' = [d \in Creatives |-> IF d[2] = s /\ d[1] \in {c[1], brief[c[1]].parent}
                                    THEN [row[d] EXCEPT !.status = "failed"] ELSE row[d]]
     /\ wk' = [wk EXCEPT ![w].bad = @ \ {s}]
     /\ UNCHANGED <<day, briefs, brief, bucket, storedOn, photoPic, shown, offered, faults>>

\* _contain_revision and generate, once every slide has ended: those that raised
\* are marked failed, one transaction each.
MarkFailed(w, s) ==
  /\ Making(w) /\ Remaining(w) = {} /\ s \in wk[w].bad
  /\ row' = [row EXCEPT ![<<wk[w].brief, s>>].status = "failed"]
  /\ wk' = [wk EXCEPT ![w].bad = @ \ {s}]
  /\ UNCHANGED <<day, briefs, brief, bucket, storedOn, photoPic, shown, offered, faults>>

\* A revision is one answer, and one refused slide refuses it; generate shows
\* the slides that came out.
Presentable(w) ==
  IF wk[w].pc = "recompose" THEN \A r \in Rows(wk[w].brief) : r.status = "ready"
                            ELSE \E r \in Rows(wk[w].brief) : r.status = "ready"

\* The tool returns, and the agent and the session know of the version if it is ok.
EndMaking(w) ==
  /\ Making(w) /\ Remaining(w) = {} /\ wk[w].bad = {}
  /\ shown' = IF Presentable(w) THEN shown \union {wk[w].brief} ELSE shown
  /\ Set(w, Free)
  /\ UNCHANGED <<day, briefs, brief, row, bucket, storedOn, photoPic, offered, faults>>

\* The instance is lost.
Crash(w) ==
  /\ wk[w].pc # "idle"
  /\ faults < MAX_FAULTS /\ faults' = faults + 1
  /\ Set(w, Free)
  /\ UNCHANGED <<day, briefs, brief, row, bucket, storedOn, photoPic, shown, offered>>

Stuck(c) == row[c].status = "making"

\* reap_stuck_creatives, STUCK_AFTER later: no worker is making these any more.
Reap ==
  LET dead == {c \in Creatives : Stuck(c) /\ \A w \in Workers : Making(w) => wk[w].brief # c[1]}
  IN /\ dead # {}
     /\ row' = [c \in Creatives |-> IF c \in dead THEN [row[c] EXCEPT !.status = "failed"] ELSE row[c]]
     /\ UNCHANGED <<day, briefs, brief, bucket, storedOn, photoPic, shown, offered, wk, faults>>

-----------------------------------------------------------------------------
(* Approval. *)

\* Mutant: the buttons are sent as soon as one slide is ready.
Approvable_Any(b) == \E r \in Rows(b) : r.status \in {"ready", "approved"}

Approvable(b) == \A r \in Rows(b) : r.status \in {"ready", "approved"}

\* request_approval sends the buttons; they stay in the chat.
RequestApproval(w, b) ==
  /\ wk[w].pc = "idle"
  /\ b <= briefs /\ b \notin offered
  /\ Approvable(b)
  /\ offered' = offered \union {b}
  /\ UNCHANGED <<day, briefs, brief, row, bucket, storedOn, photoPic, shown, wk, faults>>

Stampable(r) == ~r.tapped /\ r.status \in {"ready", "approved"}

\* The webhook, from the owner's tap on the buttons of b: mark_approved.
Tap(b) ==
  /\ b \in offered
  /\ \E r \in Rows(b) : Stampable(r)
  /\ row' = [c \in Creatives |-> IF c[1] = b /\ Stampable(row[c])
                                 THEN [row[c] EXCEPT !.tapped = TRUE, !.status = "approved"] ELSE row[c]]
  /\ brief' = [brief EXCEPT ![b].status = "approved"]
  /\ UNCHANGED <<day, briefs, bucket, storedOn, photoPic, shown, offered, wk, faults>>

-----------------------------------------------------------------------------
(* Time. *)

DayPasses ==
  /\ day < MAX_DAY
  /\ \A w \in Workers : wk[w].pc = "idle"
  /\ day' = day + 1
  /\ UNCHANGED <<briefs, brief, row, bucket, storedOn, photoPic, shown, offered, wk, faults>>

\* The lifecycle rule: objects under drafts/ that are TTL days old.
Sweep ==
  LET old == {o \in bucket : o[1] # "post" /\ storedOn[o[2]] + TTL <= day}
  IN /\ old # {}
     /\ bucket' = bucket \ old
     /\ UNCHANGED <<day, briefs, brief, row, storedOn, photoPic, shown, offered, wk, faults>>

-----------------------------------------------------------------------------
Makes(w) == (\E s \in Slides : SlideReady(w, s) \/ SlideBad(w, s) \/ MarkFailed(w, s)) \/ EndMaking(w)

Works(w) ==
  \/ Create(w) \/ CreateUnpaid(w) \/ SaveRevision(w) \/ ReviseRefused(w) \/ SaveRedo(w) \/ RedoRefused(w) \/ Makes(w)
  \/ \E b \in Briefs : Revise(w, b) \/ Redo(w, b) \/ RequestApproval(w, b)

Around == Reap \/ Sweep \/ \E b \in Briefs : Tap(b)

Next == Around \/ DayPasses \/ \E w \in Workers : Works(w) \/ Crash(w)

Spec == Init /\ [][Next]_revVars

-----------------------------------------------------------------------------
(* Properties *)

\* A slide that has come to an end keeps what the owner was shown: a revision of
\* it, a failure of that revision ("the version they already have is untouched",
\* pipeline.py:3194) and the reaper leave its picture, its card and its status;
\* only the owner's tap and the publication of it move it on.
OutcomesKept ==
  [][\A c \in Creatives : row[c].status \notin {"none", "making"} =>
       /\ row'[c].bg = row[c].bg /\ row'[c].lane = row[c].lane
       /\ row[c].status = "failed" <=> row'[c].status = "failed"
       /\ row[c].tapped => row'[c].tapped]_revVars

\* expires_at tells the truth about a version that stores its own pictures: until
\* that day they are in the bucket, whatever other versions share them.
ExpiryTellsTheTruth ==
  \A b \in Briefs, s \in Slides :
    LET r == row[<<b, s>>]
    IN r.bg = <<b, s>> /\ ~Expired(r) => Stored(r.bg)

\* A slide that shows the owner's photograph says so in its lane, which
\* "recompose, _owner_photo_slides and _revision_guard all read ... to tell a
\* photograph from a made picture" (pipeline.py:2578-2581).
LaneIsThePicture ==
  \A c \in Creatives : row[c].status = "ready" => (row[c].bg \in photoPic <=> row[c].lane = "photo")

\* A row's picture is in the bucket until the row's own expires_at, which recompose
\* and regenerate_image ask before they reuse it: "composing over a key that is gone
\* would strand the new rows" (pipeline.py:1134-1135).
PicturesUntilExpiry ==
  \A c \in Creatives : row[c].bg # NoKey /\ row[c].status = "ready" /\ ~Expired(row[c]) => Stored(row[c].bg)
=============================================================================
