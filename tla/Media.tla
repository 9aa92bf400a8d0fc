-------------------------------- MODULE Media --------------------------------
(***************************************************************************)
(* The owner's photos and voice notes (queue/handlers.py: handle_image and *)
(* transcribe_and_handle) and what they and the turns write of the brand:  *)
(* its logo, its colours, whether it has a logo at all (agent/tools.py:    *)
(* _update_brand).  A handler reads the brand, waits for downloads and     *)
(* models, and writes later; instances run several handlers at once, and   *)
(* one that is slow or lost has its job run again.                         *)
(***************************************************************************)
EXTENDS Integers, Sequences, FiniteSets

CONSTANTS Instances,
          MESSAGES,     \* what the owner sends, in order: kind and what it asks for
          MAX_LOSSES    \* bound: jobs lost, failed or run by two instances

ASSUME MediaConstants ==
  /\ MAX_LOSSES \in Nat /\ IsFiniteSet(Instances)
  /\ MESSAGES \in Seq([kind : {"photo", "note", "text"}, asks : {"nothing", "colour", "no logo"}])

VARIABLES brand,      \* logo: the photo it is, or 0; palette: whose colours; noLogo
          sent,       \* how many of MESSAGES have arrived
          candidate,  \* photo -> is_logo_candidate of its payload
          task,       \* message -> queued, running or done
          stored,     \* photo -> its rows in brand_assets
          transcript, paid, \* note -> whether it has one; calls of the speech vendor
          answered, heard,  \* message -> stamped; was in the turn as itself
          floor,      \* what had arrived when the last reply went out
          hand,       \* instance -> the job it runs
          losses, twice,    \* message -> jobs lost; jobs run by a second instance
          stated, stale     \* the owner has stated a colour; it was overwritten unread

mediaVars == <<brand, sent, candidate, task, stored, transcript, paid, answered, heard,
               floor, hand, losses, twice, stated, stale>>

Messages == DOMAIN MESSAGES
Kind(k) == MESSAGES[k].kind
Bare == [logo |-> 0, palette |-> "none", noLogo |-> FALSE]
Empty == [at |-> "idle", msg |-> 0, logo |-> FALSE, base |-> Bare, covers |-> {}, taken |-> Bare]

MediaInit ==
  /\ brand = Bare /\ sent = 0 /\ floor = 0
  /\ candidate = [k \in Messages |-> FALSE]
  /\ task = [k \in Messages |-> "none"]
  /\ stored = [k \in Messages |-> 0]
  /\ transcript = [k \in Messages |-> FALSE]
  /\ paid = [k \in Messages |-> 0]
  /\ answered = [k \in Messages |-> FALSE]
  /\ heard = [k \in Messages |-> FALSE]
  /\ hand = [i \in Instances |-> Empty]
  /\ losses = [k \in Messages |-> 0]
  /\ twice = [k \in Messages |-> 0]
  /\ stated = FALSE /\ stale = FALSE

Step(i, to) == hand' = [hand EXCEPT ![i].at = to]
At(i, at, kind) == hand[i].at = at /\ Kind(hand[i].msg) = kind

\* ingest: the payload says whether a photo may be the logo.
MayBeLogo == brand.logo = 0 /\ ~brand.noLogo

Arrives ==
  /\ sent < Len(MESSAGES)
  /\ sent' = sent + 1
  /\ candidate' = [candidate EXCEPT ![sent'] = Kind(sent') = "photo" /\ MayBeLogo]
  /\ task' = [task EXCEPT ![sent'] = "queued"]
  /\ UNCHANGED <<brand, stored, transcript, paid, answered, heard, floor, hand, losses, twice,
                 stated, stale>>

-----------------------------------------------------------------------------
Take(i, k) == hand' = [hand EXCEPT ![i] = [Empty EXCEPT !.at = "begun", !.msg = k, !.taken = brand]]

TakeJob(i) ==
  /\ hand[i].at = "idle"
  /\ \E k \in Messages : task[k] = "queued" /\ task' = [task EXCEPT ![k] = "running"] /\ Take(i, k)
  /\ UNCHANGED <<brand, sent, candidate, stored, transcript, paid, answered, heard, floor,
                 losses, twice, stated, stale>>

Faults(k) == losses[k] + twice[k]
MayFail == \A k \in Messages : Faults(k) < MAX_LOSSES

\* A job that takes longer than STALE_RUNNING is put back while it runs.
TakeRunning(i) ==
  /\ hand[i].at = "idle" /\ MayFail
  /\ \E k \in Messages : task[k] = "running" /\ twice' = [twice EXCEPT ![k] = @ + 1] /\ Take(i, k)
  /\ UNCHANGED <<brand, sent, candidate, task, stored, transcript, paid, answered, heard, floor,
                 losses, stated, stale>>

\* The instance dies, or a download, an upload or a measurement raises: the job is run
\* again.
Lose(i) ==
  LET k == hand[i].msg IN
  /\ hand[i].at # "idle" /\ MayFail
  /\ losses' = [losses EXCEPT ![k] = @ + 1]
  /\ task' = [task EXCEPT ![k] = IF \E j \in Instances \ {i} : hand[j].msg = k THEN @ ELSE "queued"]
  /\ hand' = [hand EXCEPT ![i] = Empty]
  /\ UNCHANGED <<brand, sent, candidate, stored, transcript, paid, answered, heard, floor, twice,
                 stated, stale>>

-----------------------------------------------------------------------------
Stored_Unasked(k) == FALSE

\* "A re-run: the photo is stored and the brand updated; just answer."
Stored(k) == stored[k] > 0

PhotoBegins(i) ==
  /\ At(i, "begun", "photo")
  /\ Step(i, IF Stored(hand[i].msg) THEN "turn" ELSE "fetching")
  /\ UNCHANGED <<brand, sent, candidate, task, stored, transcript, paid, answered, heard, floor,
                 losses, twice, stated, stale>>

IsLogo_AsSent(k) == candidate[k]

\* "Decided NOW, not when the webhook landed."
IsLogo(k) == candidate[k] /\ MayBeLogo

\* Downloaded: the brand is read.  The picture is then prepared, described and uploaded.
PhotoDecided(i) ==
  /\ At(i, "fetching", "photo")
  /\ hand' = [hand EXCEPT ![i].at = "making", ![i].logo = IsLogo(hand[i].msg)]
  /\ UNCHANGED <<brand, sent, candidate, task, stored, transcript, paid, answered, heard, floor,
                 losses, twice, stated, stale>>

\* The last transaction: a logo's reads the brand, asks the embedding vendor, and writes.
PhotoStored(i) ==
  /\ At(i, "making", "photo")
  /\ IF hand[i].logo THEN hand' = [hand EXCEPT ![i].at = "storing", ![i].base = brand] /\ UNCHANGED stored
     ELSE Step(i, "turn") /\ stored' = [stored EXCEPT ![hand[i].msg] = @ + 1]
  /\ UNCHANGED <<brand, sent, candidate, task, transcript, paid, answered, heard, floor, losses,
                 twice, stated, stale>>

Merge_MeasuredFirst(palette) == "measured"

\* "Never overwrite colours the client stated themselves."
Merge(palette) == IF palette = "stated" THEN "stated" ELSE "measured"

\* Only the columns that changed are written.
LogoStored(i) ==
  LET base == hand[i].base
      palette == IF Merge(base.palette) = base.palette THEN brand.palette ELSE Merge(base.palette)
  IN /\ At(i, "storing", "photo")
     /\ brand' = [brand EXCEPT !.logo = hand[i].msg, !.palette = palette]
     /\ stale' = (stale \/ (brand.palette = "stated" /\ base.palette # "stated"))
     /\ stored' = [stored EXCEPT ![hand[i].msg] = @ + 1]
     /\ Step(i, "turn")
     /\ UNCHANGED <<sent, candidate, task, transcript, paid, answered, heard, floor, losses, twice,
                    stated>>

-----------------------------------------------------------------------------
\* "The transcript is already there; do not pay the vendor twice."
NoteBegins(i) ==
  /\ At(i, "begun", "note")
  /\ Step(i, IF transcript[hand[i].msg] THEN "turn" ELSE "fetching")
  /\ UNCHANGED <<brand, sent, candidate, task, stored, transcript, paid, answered, heard, floor,
                 losses, twice, stated, stale>>

\* The speech vendor answers; the transcript is committed afterwards.
NoteTranscribed(i) ==
  /\ At(i, "fetching", "note")
  /\ paid' = [paid EXCEPT ![hand[i].msg] = @ + 1]
  /\ Step(i, "making")
  /\ UNCHANGED <<brand, sent, candidate, task, stored, transcript, answered, heard, floor, losses,
                 twice, stated, stale>>

NoteStored(i) ==
  /\ At(i, "making", "note")
  /\ transcript' = [transcript EXCEPT ![hand[i].msg] = TRUE]
  /\ Step(i, "turn")
  /\ UNCHANGED <<brand, sent, candidate, task, stored, paid, answered, heard, floor, losses, twice,
                 stated, stale>>

\* No audio or no transcript: the turn says that it could not be heard.
NoteUnheard(i) ==
  /\ At(i, "fetching", "note")
  /\ Step(i, "turn")
  /\ UNCHANGED <<brand, sent, candidate, task, stored, transcript, paid, answered, heard, floor,
                 losses, twice, stated, stale>>

-----------------------------------------------------------------------------
TextBegins(i) ==
  /\ At(i, "begun", "text")
  /\ Step(i, "turn")
  /\ UNCHANGED <<brand, sent, candidate, task, stored, transcript, paid, answered, heard, floor,
                 losses, twice, stated, stale>>

EndJob(i) == task' = [task EXCEPT ![hand[i].msg] = "done"] /\ hand' = [hand EXCEPT ![i] = Empty]

\* What the model is shown of a message is the message, unless it is a note that nobody
\* has transcribed yet.
Shown(k) == Kind(k) = "note" => transcript[k]

\* run_turn: skipped if the message was covered; or it covers what came after the last
\* reply.
TurnBegins(i) ==
  LET k == hand[i].msg
      covers == {k} \union {n \in floor + 1 .. sent : ~answered[n]}
  IN /\ hand[i].at = "turn"
     /\ IF answered[k] THEN EndJob(i) /\ UNCHANGED heard
        ELSE /\ hand' = [hand EXCEPT ![i].at = "asking", ![i].covers = covers]
             /\ heard' = [n \in Messages |-> IF n \in covers THEN Shown(n) ELSE heard[n]]
             /\ UNCHANGED task
     /\ UNCHANGED <<brand, sent, candidate, stored, transcript, paid, answered, floor, losses,
                    twice, stated, stale>>

\* update_brand, for what the owner was heard to ask.
TurnSaves(i) ==
  /\ hand[i].at = "asking"
  /\ \E n \in hand[i].covers :
       /\ heard[n] /\ MESSAGES[n].asks # "nothing"
       /\ \/ /\ MESSAGES[n].asks = "colour"
             /\ brand' = [brand EXCEPT !.palette = "stated"] /\ stated' = TRUE
          \/ /\ MESSAGES[n].asks = "no logo"
             /\ brand' = [brand EXCEPT !.noLogo = TRUE] /\ UNCHANGED stated
  /\ UNCHANGED <<sent, candidate, task, stored, transcript, paid, answered, heard, floor, hand,
                 losses, twice, stale>>

TurnEnds(i) ==
  /\ hand[i].at = "asking"
  /\ answered' = [n \in Messages |-> answered[n] \/ n \in hand[i].covers]
  /\ floor' = sent
  /\ EndJob(i)
  /\ UNCHANGED <<brand, sent, candidate, stored, transcript, paid, heard, losses, twice, stated,
                 stale>>

Photo(i) == PhotoBegins(i) \/ PhotoDecided(i) \/ PhotoStored(i) \/ LogoStored(i)
Note(i) == NoteBegins(i) \/ NoteTranscribed(i) \/ NoteStored(i) \/ NoteUnheard(i)

MediaNext ==
  \/ Arrives
  \/ \E i \in Instances :
       \/ TakeJob(i) \/ TakeRunning(i) \/ Lose(i) \/ Photo(i) \/ Note(i)
       \/ TextBegins(i) \/ TurnBegins(i) \/ TurnSaves(i) \/ TurnEnds(i)

MediaSpec == MediaInit /\ [][MediaNext]_mediaVars

-----------------------------------------------------------------------------
\* A colour that the owner has stated is the brand's, whenever a logo is measured; but
\* for a logo whose last transaction had read the brand before the owner stated it.
OwnColoursKept == stated /\ ~stale => brand.palette = "stated"

\* A photo becomes the logo only if, when its job was taken, there was none and the owner
\* had not said that there is none: only two photos handled at once, or one handled while
\* the owner says so, can get it wrong ("the second one used to overwrite the first").
LogoAsAsked ==
  [][brand'.logo # brand.logo =>
       \E i \in Instances :
         hand[i].msg = brand'.logo /\ hand[i].taken.logo = 0 /\ ~hand[i].taken.noLogo]_mediaVars

\* However often a job is run, a photo is stored once and a note paid for once, and once
\* more for each time that a second instance had it or that the paid answer was lost.
StoredOnce ==
  \A k \in Messages :
    /\ stored[k] <= 1 + twice[k]
    /\ paid[k] <= 1 + twice[k] + losses[k]

\* Neither a stated colour nor a photo nor a paid note is lost or made twice.
MediaAsPromised == OwnColoursKept /\ StoredOnce

\* A note that has a transcript was answered by a turn that had it.  Refuted: a text's
\* turn covers the note before it is transcribed, and the note's own turn is skipped.
NoteHeard == \A k \in Messages : answered[k] /\ transcript[k] => heard[k]
=============================================================================
