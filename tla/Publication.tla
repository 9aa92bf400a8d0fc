---------------------------- MODULE Publication ----------------------------
(***************************************************************************)
(* Posting a version to Instagram, beside the turns that revise it         *)
(* (agent/tools.py: _publish_to_instagram; queue/handlers.py:              *)
(* publish_scheduled; integrations/instagram/client.py).                   *)
(*                                                                         *)
(* Abstractions: the caption, the token and the kind of post are left out; *)
(* containers are made and polled in one step, in which Instagram fetches  *)
(* the cards.  MAX_CALLS bounds the calls of the tool that pass its gate.  *)
(***************************************************************************)
EXTENDS Revisions

CONSTANT MAX_CALLS

ASSUME PublicationConstants == MAX_CALLS \in Nat

VARIABLES pub,        \* each worker's call of publish_to_instagram
          calls,      \* calls that passed the gate
          connected,  \* IgAccount.status
          posts,      \* posts on Instagram, of each brief
          excess      \* calls of a brief that can have made a post too many: one that
                      \* ended without its record, or began beside another one

pubVars == <<pub, calls, connected, posts, excess>>
vars == <<revVars, pubVars>>

PubPC == {"idle",
          "facts",   \* the Publication row is saved
          "post",    \* the cards are publishable
          "link",    \* media_publish has returned the id, the permalink is asked for
          "record"}

Call == [pc : PubPC, brief : 0..MAX_BRIEFS, slides : SUBSET Slides]

NoCall == [pc |-> "idle", brief |-> 0, slides |-> {}]

PubTypeOK ==
  /\ TypeOK
  /\ pub \in [Workers -> Call]
  /\ calls \in 0..MAX_CALLS
  /\ connected \in BOOLEAN
  /\ posts \in [Briefs -> Nat]
  /\ excess \in [Briefs -> Nat]

PubInit ==
  /\ Init
  /\ pub = [w \in Workers |-> NoCall]
  /\ calls = 0
  /\ connected = TRUE
  /\ posts = [b \in Briefs |-> 0]
  /\ excess = [b \in Briefs |-> 0]

SetCall(w, call) == pub' = [pub EXCEPT ![w] = call]

Calling(b) == \E w \in Workers : pub[w].brief = b

\* The gate: no failed slide, something ready, all of it tapped.  A slide that is
\* still being made is not asked about.
Gated(b, slides) ==
  /\ slides # {} /\ slides = {s \in Slides : row[<<b, s>>].status \in {"ready", "approved"}}
  /\ Cardinality(Slides) > 1 => \A r \in Rows(b) : r.status # "failed"
  /\ \A s \in slides : row[<<b, s>>].tapped

\* The first transaction; no look is taken at other publications of the brief.
Gate(w, b) ==
  /\ pub[w].pc = "idle" /\ wk[w].pc = "idle"
  /\ b <= briefs /\ calls < MAX_CALLS
  /\ connected
  /\ \E slides \in SUBSET Slides : Gated(b, slides) /\ SetCall(w, [pc |-> "facts", brief |-> b, slides |-> slides])
  /\ calls' = calls + 1
  /\ excess' = [excess EXCEPT ![b] = IF Calling(b) THEN @ + 1 ELSE @]
  /\ UNCHANGED <<revVars, connected, posts>>

CardsThere(w) == \A s \in pub[w].slides : <<"card", <<pub[w].brief, s>>>> \in bucket

\* assert_publishable reads the cards.
Facts(w) ==
  /\ pub[w].pc = "facts"
  /\ \/ CardsThere(w) /\ SetCall(w, [pub[w] EXCEPT !.pc = "post"])
     \/ SetCall(w, NoCall)
  /\ UNCHANGED <<revVars, calls, connected, posts, excess>>

\* The containers are refused, not ready in time, or the login is no longer good.
ContainerFails(w) ==
  /\ pub[w].pc = "post"
  /\ SetCall(w, NoCall)
  /\ connected' \in {connected, FALSE}
  /\ UNCHANGED <<revVars, calls, posts, excess>>

\* media_publish: the post is live.
Post(w) ==
  /\ pub[w].pc = "post" /\ CardsThere(w)
  /\ posts' = [posts EXCEPT ![pub[w].brief] = @ + 1]
  /\ SetCall(w, [pub[w] EXCEPT !.pc = "link"])
  /\ UNCHANGED <<revVars, calls, connected, excess>>

Permalink(w) ==
  /\ pub[w].pc = "link"
  /\ SetCall(w, [pub[w] EXCEPT !.pc = "record"])
  /\ UNCHANGED <<revVars, calls, connected, posts, excess>>

\* The second request of publish_container fails: the publication is recorded as
\* failed, and the rows stay approved.
NoPermalink(w) ==
  /\ pub[w].pc = "link"
  /\ faults < MAX_FAULTS /\ faults' = faults + 1
  /\ SetCall(w, NoCall)
  /\ excess' = [excess EXCEPT ![pub[w].brief] = @ + 1]
  /\ connected' \in {connected, FALSE}
  /\ UNCHANGED <<day, briefs, brief, row, bucket, storedOn, photoPic, shown, offered, wk, calls, posts>>

\* Mutant: the key is moved whether or not the card was copied.
Published_AlwaysKept(r, promoted) == [r EXCEPT !.status = "published", !.card = "kept"]

\* Mutant: only the publication's own row says that it is published.
Published_StaysApproved(r, promoted) == [r EXCEPT !.card = IF promoted THEN "kept" ELSE @]

\* The row of a slide that is live; its key is moved if its card was copied.
Published(r, promoted) == [r EXCEPT !.status = "published", !.card = IF promoted THEN "kept" ELSE @]

\* promote copies the cards out of drafts/, or fails for some, and then the rows
\* and the publication are written.
Record(w) ==
  LET mine == {pub[w].brief} \X pub[w].slides
  IN /\ pub[w].pc = "record"
     /\ \E promoted \in SUBSET {c \in mine : <<"card", c>> \in bucket} :
          /\ bucket' = bucket \union {<<"post", c>> : c \in promoted}
          /\ row' = [c \in Creatives |->
               IF c \in mine THEN Published(row[c], c \in promoted) ELSE row[c]]
     /\ SetCall(w, NoCall)
     /\ UNCHANGED <<day, briefs, brief, storedOn, photoPic, shown, offered, wk, faults,
                    calls, connected, posts, excess>>

\* The instance is lost: between the post and the record, nothing knows of it.
PubCrash(w) ==
  /\ pub[w].pc # "idle"
  /\ faults < MAX_FAULTS /\ faults' = faults + 1
  /\ excess' = IF pub[w].pc \in {"link", "record"}
               THEN [excess EXCEPT ![pub[w].brief] = @ + 1] ELSE excess
  /\ SetCall(w, NoCall)
  /\ UNCHANGED <<day, briefs, brief, row, bucket, storedOn, photoPic, shown, offered, wk,
                 calls, connected, posts>>

\* The owner follows the connect link.
Connect == ~connected /\ connected' = TRUE /\ UNCHANGED <<revVars, pub, calls, posts, excess>>

-----------------------------------------------------------------------------
Publishes(w) ==
  Facts(w) \/ ContainerFails(w) \/ Post(w) \/ Permalink(w) \/ Record(w)

PubNext ==
  \/ Around /\ UNCHANGED pubVars
  \/ DayPasses /\ (\A w \in Workers : pub[w].pc = "idle") /\ UNCHANGED pubVars
  \/ \E w \in Workers : pub[w].pc = "idle" /\ (Works(w) \/ Crash(w)) /\ UNCHANGED pubVars
  \/ \E w \in Workers : Publishes(w) \/ NoPermalink(w) \/ PubCrash(w) \/ \E b \in Briefs : Gate(w, b)
  \/ Connect

PubSpec == PubInit /\ [][PubNext]_vars

-----------------------------------------------------------------------------
(* Properties *)

\* What goes live is the whole version and the one the owner tapped on: every
\* slide, none failed, each with the owner's own tap, although slides are made,
\* revised and reaped while the buttons wait in the chat.
PostsWhatWasTapped ==
  [][\A b \in Briefs : posts'[b] # posts[b] =>
       \A r \in Rows(b) : r.tapped /\ r.status \in {"approved", "published"}]_vars

\* A version goes live once, unless a call of the tool ended after the post without
\* recording it, or two calls ran at once: nothing but the status of the rows stops
\* a second post.
PostedOnce == \A b \in Briefs : posts[b] <= 1 + excess[b]

\* The post's card outlives the drafts wherever the row says it does.
PostPictureKept ==
  \A c \in Creatives : row[c].card = "kept" => <<"post", c>> \in bucket

\* Both promises about pictures: this one, and the expiry of the drafts (Revisions).
PicturesKept == PostPictureKept /\ ExpiryTellsTheTruth
=============================================================================
