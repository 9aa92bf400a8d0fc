-------------------------- MODULE PublicationProofs --------------------------
(***************************************************************************)
(* What the versions of a brand and the posts made of them keep, for any   *)
(* number of instances, slides and versions, and however often a worker is *)
(* lost or a permalink is not answered.                                    *)
(*                                                                         *)
(* RevInv is about the rows and the pictures, CallsTapped and Counted are  *)
(* about the calls of publish_to_instagram.                                *)
(***************************************************************************)
EXTENDS Publication, FiniteSetTheorems, TLAPS

UnsavedIsEmpty == \A c \in Creatives : c[1] > briefs => row[c] = NoRow

Numbered ==
  /\ shown \subseteq 1..briefs /\ offered \subseteq 1..briefs
  /\ \A w \in Workers : wk[w].brief <= briefs /\ (wk[w].pc # "idle" => wk[w].brief # 0)

\* No two turns make the slides of one version, and what raised is still being made.
MakersApart ==
  /\ \A v, w \in Workers : Making(v) /\ Making(w) /\ wk[v].brief = wk[w].brief => v = w
  /\ \A w \in Workers : ~Making(w) => wk[w].bad = {}
  /\ \A w \in Workers : \A s \in wk[w].bad : row[<<wk[w].brief, s>>].status = "making"

\* A tap is on a version whose buttons were sent, and such a version has come out whole.
TapsKept ==
  \A c \in Creatives :
    /\ row[c].tapped <=> row[c].status \in {"approved", "published"}
    /\ row[c].tapped => c[1] \in offered
    /\ c[1] \in offered => row[c].status \in {"ready", "approved", "published"}

KeysSaved == \A c \in Creatives : row[c].bg # NoKey => row[c].bg[1] <= briefs

\* A row of a version's own picture expires no later than the lifecycle rule may delete it.
LivesAsLong ==
  \A c \in Creatives :
    /\ row[c].expires <= day + TTL
    /\ row[c].bg = c => row[c].expires <= storedOn[c] + TTL
    /\ row[c].bg = c /\ ~Expired(row[c]) => Stored(c)

RowInv == UnsavedIsEmpty /\ TapsKept /\ KeysSaved /\ LivesAsLong /\ PostPictureKept

RevInv == TypeOK /\ RowInv /\ Numbered /\ MakersApart

\* What a step does to the rows, for the steps that add a version, end a slide, fail slides
\* that are being made, or leave the rows alone.
NewVersion ==
  /\ briefs < MAX_BRIEFS /\ briefs' = briefs + 1 /\ day' = day
  /\ row' \in [Creatives -> Row]
  /\ \A c \in Creatives : c[1] # briefs + 1 => row'[c] = row[c] /\ storedOn'[c] = storedOn[c]
  /\ \A c \in Creatives : c[1] = briefs + 1 =>
       /\ row'[c].status \in {"making", "failed"} /\ ~row'[c].tapped /\ row'[c].card = "none"
       /\ row'[c].expires = day + TTL
       /\ row'[c].bg # NoKey => row'[c].bg[1] <= briefs + 1
       /\ row'[c].bg = c => storedOn'[c] = day /\ <<"bg", c>> \in bucket'
  /\ bucket \subseteq bucket'
  /\ UNCHANGED <<shown, offered>>

SomeFail ==
  /\ row' \in [Creatives -> Row]
  /\ \A c \in Creatives : \/ row'[c] = row[c]
                          \/ row[c].status = "making" /\ row'[c] = [row[c] EXCEPT !.status = "failed"]
  /\ UNCHANGED <<day, briefs, bucket, storedOn, shown, offered>>

\* A slide that has come to an end keeps it, and one that is published stays so.
OutcomeStep ==
  \A c \in Creatives : row[c].status \notin {"none", "making"} =>
    /\ row'[c].bg = row[c].bg /\ row'[c].lane = row[c].lane
    /\ row[c].status = "failed" <=> row'[c].status = "failed"
    /\ row[c].tapped => row'[c].tapped
    /\ row[c].status = "published" => row'[c].status = "published"

-----------------------------------------------------------------------------
LEMMA Domain ==
  /\ \A c \in Creatives : c[1] \in Briefs /\ c[2] \in Slides /\ c = <<c[1], c[2]>>
  /\ \A b \in Briefs, s \in Slides : <<b, s>> \in Creatives
  /\ NoKey \notin Creatives
  BY RevisionsConstants DEF Creatives, Briefs, NoKey

LEMMA Types ==
  ASSUME RevInv
  PROVE  /\ row \in [Creatives -> Row] /\ briefs \in Nat /\ day \in Nat /\ TTL \in Nat
         /\ brief \in [Briefs -> Brief] /\ MAX_BRIEFS \in Nat /\ briefs <= MAX_BRIEFS
         /\ wk \in [Workers -> Turn] /\ storedOn \in [Creatives -> 0..MAX_DAY]
  BY RevisionsConstants DEF RevInv, TypeOK

LEMMA NewVersionOk ==
  ASSUME RevInv, NewVersion
  PROVE  RowInv' /\ OutcomeStep
<1>1. row \in [Creatives -> Row] /\ briefs \in Nat /\ day \in Nat /\ TTL \in Nat
  BY RevisionsConstants DEF RevInv, TypeOK
<1>2. UnsavedIsEmpty'
  BY <1>1, Domain DEF RevInv, RowInv, UnsavedIsEmpty, NewVersion, Briefs
<1>3. TapsKept'
  <2>1. \A c \in Creatives : c[1] = briefs + 1 => c[1] \notin offered
    BY <1>1 DEF RevInv, Numbered
  <2> QED
    BY <1>1, <2>1 DEF RevInv, RowInv, TapsKept, NewVersion
<1>4. KeysSaved'
  <2> SUFFICES ASSUME NEW c \in Creatives, row'[c].bg # NoKey
               PROVE  row'[c].bg[1] <= briefs'
    BY DEF KeysSaved
  <2>1. CASE c[1] = briefs + 1
    BY <2>1 DEF NewVersion
  <2>2. CASE c[1] # briefs + 1
    <3>1. row[c].bg # NoKey /\ row[c].bg \in Creatives
      BY <1>1, <2>2 DEF NewVersion, Row
    <3>2. row[c].bg[1] \in Nat
      BY <3>1, Domain DEF Briefs
    <3> QED
      BY <1>1, <2>2, <3>1, <3>2 DEF NewVersion, RevInv, RowInv, KeysSaved
  <2> QED
    BY <2>1, <2>2
<1>5. LivesAsLong'
  <2> SUFFICES ASSUME NEW c \in Creatives
               PROVE  /\ row'[c].expires <= day' + TTL
                      /\ row'[c].bg = c => row'[c].expires <= storedOn'[c] + TTL
                      /\ row'[c].bg = c /\ ~(row'[c].expires <= day') => Stored(c)'
    BY DEF LivesAsLong, Expired
  <2>1. CASE c[1] = briefs + 1
    BY <1>1, <2>1 DEF NewVersion, Stored
  <2>2. CASE c[1] # briefs + 1
    BY <2>2 DEF NewVersion, Stored, Expired, RevInv, RowInv, LivesAsLong
  <2> QED
    BY <2>1, <2>2
<1>6. PostPictureKept'
  BY DEF RevInv, RowInv, PostPictureKept, NewVersion
<1>7. OutcomeStep
  <2>1. ASSUME NEW c \in Creatives, row[c].status # "none"
        PROVE  row'[c] = row[c]
    <3>1. c[1] # briefs + 1
      BY <1>1, <2>1 DEF RevInv, RowInv, UnsavedIsEmpty, NoRow
    <3> QED
      BY <3>1 DEF NewVersion
  <2> QED
    BY <2>1 DEF OutcomeStep
<1> QED
  BY <1>2, <1>3, <1>4, <1>5, <1>6, <1>7 DEF RowInv

LEMMA SomeFailOk ==
  ASSUME RevInv, SomeFail
  PROVE  RowInv' /\ OutcomeStep
<1>1. row \in [Creatives -> Row]
  BY DEF RevInv, TypeOK
<1>2. ASSUME NEW c \in Creatives
      PROVE  /\ row'[c].tapped = row[c].tapped /\ row'[c].bg = row[c].bg /\ row'[c].card = row[c].card
             /\ row'[c].expires = row[c].expires
             /\ \/ row'[c] = row[c]
                \/ row[c].status = "making" /\ row'[c].status = "failed"
  <2>1. row[c] \in Row
    BY <1>1
  <2>2. CASE row'[c] = row[c]
    BY <2>2
  <2>3. CASE row[c].status = "making" /\ row'[c] = [row[c] EXCEPT !.status = "failed"]
    BY <2>1, <2>3 DEF Row
  <2> QED
    BY <2>2, <2>3 DEF SomeFail
<1>3. UnsavedIsEmpty'
  <2>1. NoRow.status # "making"
    BY DEF NoRow
  <2> QED
    BY <1>2, <2>1 DEF SomeFail, RevInv, RowInv, UnsavedIsEmpty
<1>4. TapsKept'
  BY <1>2 DEF SomeFail, RevInv, RowInv, TapsKept
<1>5. KeysSaved' /\ PostPictureKept'
  BY <1>2 DEF SomeFail, RevInv, RowInv, KeysSaved, PostPictureKept
<1>6. LivesAsLong'
  BY <1>2 DEF SomeFail, RevInv, RowInv, LivesAsLong, Stored, Expired
<1>7. OutcomeStep
  BY DEF SomeFail, OutcomeStep
<1> QED
  BY <1>3, <1>4, <1>5, <1>6, <1>7 DEF RowInv

LEMMA RowsAlone ==
  ASSUME RevInv, UNCHANGED <<day, briefs, row, bucket, storedOn, offered>>
  PROVE  RowInv' /\ OutcomeStep
  BY DEF RevInv, RowInv, UnsavedIsEmpty, TapsKept, KeysSaved, LivesAsLong, PostPictureKept, Stored, Expired, OutcomeStep

-----------------------------------------------------------------------------
LEMMA Blank == /\ Free \in Turn /\ Free.pc = "idle" /\ Free.bad = {} /\ Free.brief = 0
               /\ NoRow \in Row
  BY RevisionsConstants DEF Free, Turn, PC, NoRow, Row

\* The turns a worker turns to.
TurnTo(t, p, n) == [t EXCEPT !.pc = p, !.brief = n]
TurnWith(t, p, n, S) == [t EXCEPT !.pc = p, !.brief = n, !.slides = S]

LEMMA TurnToOk ==
  ASSUME NEW t \in Turn, NEW p \in PC, NEW n \in 0..MAX_BRIEFS
  PROVE  /\ TurnTo(t, p, n) \in Turn /\ TurnTo(t, p, n).pc = p /\ TurnTo(t, p, n).brief = n
         /\ TurnTo(t, p, n).bad = t.bad
  BY DEF Turn, TurnTo

LEMMA TurnWithOk ==
  ASSUME NEW t \in Turn, NEW p \in PC, NEW n \in 0..MAX_BRIEFS, NEW S \in SUBSET Slides
  PROVE  /\ TurnWith(t, p, n, S) \in Turn /\ TurnWith(t, p, n, S).pc = p
         /\ TurnWith(t, p, n, S).brief = n /\ TurnWith(t, p, n, S).bad = t.bad
  BY DEF Turn, TurnWith

LEMMA TurnBad ==
  ASSUME NEW t \in Turn, NEW S \in SUBSET Slides
  PROVE  /\ [t EXCEPT !.bad = S] \in Turn /\ [t EXCEPT !.bad = S].bad = S
         /\ [t EXCEPT !.bad = S].pc = t.pc /\ [t EXCEPT !.bad = S].brief = t.brief
  BY DEF Turn

\* A worker turns to t.
Turns(w, t) ==
  /\ t \in Turn /\ wk' = [wk EXCEPT ![w] = t]
  /\ briefs' \in Nat /\ briefs <= briefs'
  /\ t.brief <= briefs' /\ (t.pc # "idle" => t.brief # 0)
  /\ shown' \subseteq 1..briefs' /\ offered' \subseteq 1..briefs'
  /\ t.pc \in {"recompose", "generate"} =>
       \A v \in Workers \ {w} : Making(v) => wk[v].brief # t.brief
  /\ t.pc \notin {"recompose", "generate"} => t.bad = {}
  /\ \A s \in t.bad : row'[<<t.brief, s>>].status = "making"
  /\ \A v \in Workers \ {w} : \A s \in wk[v].bad : row'[<<wk[v].brief, s>>].status = "making"

LEMMA WorkersOk ==
  ASSUME RevInv, NEW w \in Workers, NEW t, Turns(w, t)
  PROVE  Numbered' /\ MakersApart' /\ wk' \in [Workers -> Turn]
<1>1. wk \in [Workers -> Turn] /\ briefs \in Nat
  BY Types
<1>2. t \in Turn /\ wk'[w] = t /\ \A v \in Workers \ {w} : wk'[v] = wk[v]
  BY <1>1 DEF Turns
<1>3. wk' \in [Workers -> Turn]
  BY <1>1 DEF Turns
<1>4. \A v \in Workers : wk[v].brief \in Nat /\ wk'[v].brief \in Nat
  BY <1>1, <1>3, RevisionsConstants DEF Turn
<1>5. Numbered'
  BY <1>1, <1>2, <1>4 DEF Numbered, RevInv, Turns
<1>6. MakersApart'
  BY <1>1, <1>2 DEF MakersApart, Making, RevInv, Turns
<1> QED
  BY <1>3, <1>5, <1>6

\* A row of a version that is saved.
MakingRow(b, l, d) == [NoRow EXCEPT !.status = "making", !.bg = b, !.lane = l, !.expires = d]

LEMMA MakingRowOk ==
  ASSUME NEW d \in Nat, NEW b \in Creatives \union {NoKey}, NEW l \in {"none", "photo", "made"}
  PROVE  /\ MakingRow(b, l, d) \in Row /\ MakingRow(b, l, d).status = "making"
         /\ MakingRow(b, l, d).bg = b /\ MakingRow(b, l, d).expires = d
         /\ MakingRow(b, l, d).card = "none" /\ ~MakingRow(b, l, d).tapped
  BY DEF MakingRow, NoRow, Row

\* A version is saved, with the pictures bg and the lanes lane.
Saves(parent, bg, lane) ==
  /\ parent \in 0..MAX_BRIEFS /\ SaveBrief(parent)
  /\ bg \in [Slides -> Creatives \union {NoKey}] /\ lane \in [Slides -> {"none", "photo", "made"}]
  /\ row' = Saved(bg, lane) /\ day' = day /\ UNCHANGED <<shown, offered>> /\ bucket \subseteq bucket'
  /\ \A c \in Creatives : c[1] # briefs + 1 => storedOn'[c] = storedOn[c]
  /\ \A s \in Slides : bg[s] # NoKey => bg[s][1] <= briefs + 1
  /\ \A s \in Slides : bg[s] = <<briefs + 1, s>> =>
       storedOn'[<<briefs + 1, s>>] = day /\ <<"bg", <<briefs + 1, s>>>> \in bucket'

LEMMA SavedOk ==
  ASSUME RevInv, NEW parent, NEW bg, NEW lane, Saves(parent, bg, lane)
  PROVE  /\ NewVersion /\ brief' \in [Briefs -> Brief] /\ briefs' \in 0..MAX_BRIEFS
         /\ \A b \in Briefs, s \in Slides : b <= briefs => row'[<<b, s>>] = row[<<b, s>>]
<1>1. /\ row \in [Creatives -> Row] /\ briefs \in Nat /\ day \in Nat /\ TTL \in Nat
      /\ brief \in [Briefs -> Brief] /\ MAX_BRIEFS \in Nat
  BY Types
<1>2. /\ briefs < MAX_BRIEFS /\ briefs' = briefs + 1 /\ parent \in 0..MAX_BRIEFS
      /\ bg \in [Slides -> Creatives \union {NoKey}] /\ lane \in [Slides -> {"none", "photo", "made"}]
  BY DEF Saves, SaveBrief
<1>3. ASSUME NEW c \in Creatives, c[1] = briefs + 1
      PROVE  /\ row'[c] \in Row /\ row'[c].status = "making" /\ row'[c].bg = bg[c[2]]
             /\ row'[c].expires = day + TTL /\ row'[c].card = "none" /\ ~row'[c].tapped
  <2>1. row'[c] = MakingRow(bg[c[2]], lane[c[2]], day + TTL)
    BY <1>3 DEF Saves, Saved, MakingRow
  <2>2. /\ bg[c[2]] \in Creatives \union {NoKey} /\ lane[c[2]] \in {"none", "photo", "made"}
        /\ day + TTL \in Nat
    BY <1>1, <1>2, Domain
  <2> QED
    BY <2>1, <2>2, MakingRowOk
<1>4. ASSUME NEW c \in Creatives, c[1] # briefs + 1
      PROVE  row'[c] = row[c]
  BY <1>4 DEF Saves, Saved
<1>5. ASSUME NEW c \in Creatives
      PROVE  row'[c] \in Row
  <2>1. CASE c[1] = briefs + 1
    BY <1>3, <2>1
  <2>2. CASE c[1] # briefs + 1
    BY <1>1, <1>4, <2>2
  <2> QED
    BY <2>1, <2>2
<1>6. row' \in [Creatives -> Row]
  <2>1. row' = [c \in Creatives |-> row'[c]]
    BY DEF Saves, Saved
  <2> QED
    BY <1>5, <2>1
<1>7. ASSUME NEW c \in Creatives, c[1] = briefs + 1
      PROVE  /\ row'[c].bg # NoKey => row'[c].bg[1] <= briefs + 1
             /\ row'[c].bg = c => storedOn'[c] = day /\ <<"bg", c>> \in bucket'
  <2>1. c = <<briefs + 1, c[2]>> /\ c[2] \in Slides /\ row'[c].bg = bg[c[2]]
    <3>1. c = <<c[1], c[2]>> /\ c[2] \in Slides
      BY Domain
    <3> QED
      BY <1>3, <1>7, <3>1
  <2>2. bg[c[2]] = <<briefs + 1, c[2]>> =>
          storedOn'[<<briefs + 1, c[2]>>] = day /\ <<"bg", <<briefs + 1, c[2]>>>> \in bucket'
    BY <2>1 DEF Saves
  <2>3. bg[c[2]] # NoKey => bg[c[2]][1] <= briefs + 1
    BY <2>1 DEF Saves
  <2> QED
    BY <2>1, <2>2, <2>3
<1>8. NewVersion
  <2>1. /\ day' = day /\ UNCHANGED <<shown, offered>> /\ bucket \subseteq bucket'
        /\ \A c \in Creatives : c[1] # briefs + 1 => storedOn'[c] = storedOn[c]
    BY DEF Saves
  <2>2. ASSUME NEW c \in Creatives, c[1] = briefs + 1
        PROVE  /\ row'[c].status \in {"making", "failed"} /\ ~row'[c].tapped /\ row'[c].card = "none"
               /\ row'[c].expires = day + TTL
    BY <1>3, <2>2
  <2> QED
    BY <1>2, <1>4, <1>6, <1>7, <2>1, <2>2 DEF NewVersion
<1>9. brief' \in [Briefs -> Brief]
  <2>1. \A b \in Briefs : /\ brief[b].status \in {"none", "draft", "superseded", "approved"}
                          /\ brief[b].parent \in 0..MAX_BRIEFS /\ brief[b] \in Brief
    BY <1>1 DEF Brief
  <2>2. \A b \in Briefs : [brief[b] EXCEPT !.status = "superseded"] \in Brief
    BY <2>1 DEF Brief
  <2>3. [status |-> "draft", parent |-> parent] \in Brief
    BY <1>2 DEF Brief
  <2> QED
    BY <2>1, <2>2, <2>3 DEF Saves, SaveBrief
<1>10. \A b \in Briefs, s \in Slides : b <= briefs => row'[<<b, s>>] = row[<<b, s>>]
  <2> SUFFICES ASSUME NEW b \in Briefs, NEW s \in Slides, b <= briefs
               PROVE  row'[<<b, s>>] = row[<<b, s>>]
    OBVIOUS
  <2>1. <<b, s>> \in Creatives /\ <<b, s>>[1] # briefs + 1
    BY <1>1, Domain DEF Briefs
  <2> QED
    BY <1>4, <2>1
<1> QED
  <2>1. briefs' \in 0..MAX_BRIEFS
    BY <1>1, <1>2
  <2> QED
    BY <1>8, <1>9, <1>10, <2>1

\* The workers' rows, when those of the versions saved so far are left alone.
LEMMA OthersBad ==
  ASSUME RevInv, \A b \in Briefs, s \in Slides : b <= briefs => row'[<<b, s>>] = row[<<b, s>>]
  PROVE  \A v \in Workers : \A s \in wk[v].bad : row'[<<wk[v].brief, s>>].status = "making"
<1> SUFFICES ASSUME NEW v \in Workers, NEW s \in wk[v].bad
             PROVE  row'[<<wk[v].brief, s>>].status = "making"
  OBVIOUS
<1>1. wk[v] \in Turn /\ Making(v)
  BY DEF RevInv, TypeOK, MakersApart
<1>2. wk[v].brief \in Briefs /\ wk[v].brief <= briefs /\ s \in Slides
  BY <1>1, RevisionsConstants DEF RevInv, Numbered, Making, Turn, Briefs
<1> QED
  BY <1>2 DEF RevInv, MakersApart

LEMMA WorkersStay ==
  ASSUME RevInv, wk' = wk, briefs' \in Nat, briefs <= briefs',
         shown' \subseteq 1..briefs', offered' \subseteq 1..briefs',
         \A v \in Workers : \A s \in wk[v].bad : row'[<<wk[v].brief, s>>].status = "making"
  PROVE  Numbered' /\ MakersApart'
<1>1. briefs \in Nat /\ \A v \in Workers : wk[v].brief \in Nat
  BY Types, RevisionsConstants DEF Turn
<1>2. Numbered'
  BY <1>1 DEF RevInv, Numbered
<1>3. MakersApart'
  BY DEF RevInv, MakersApart, Making
<1> QED
  BY <1>2, <1>3

\* Only a worker's turn changes, and what is known to the agent.
LEMMA TurnsAlone ==
  ASSUME RevInv, NEW w \in Workers, NEW t, Turns(w, t), shown' \subseteq Briefs, faults' \in 0..MAX_FAULTS,
         UNCHANGED <<day, briefs, brief, row, bucket, storedOn, photoPic, offered>>
  PROVE  RevInv' /\ OutcomeStep
<1>1. RowInv' /\ OutcomeStep
  BY RowsAlone
<1>2. Numbered' /\ MakersApart' /\ wk' \in [Workers -> Turn]
  BY WorkersOk
<1>3. TypeOK'
  BY <1>2 DEF RevInv, TypeOK
<1> QED
  BY <1>1, <1>2, <1>3 DEF RevInv

\* A turn that makes nothing yet, or no more.
LEMMA Idles ==
  ASSUME RevInv, NEW w \in Workers, NEW t \in Turn, wk' = [wk EXCEPT ![w] = t],
         t.pc \notin {"recompose", "generate"}, t.bad = {}, t.pc # "idle" => t.brief \in 1..briefs,
         t.pc = "idle" => t.brief = 0,
         briefs' = briefs, row' = row, offered' = offered, shown' \subseteq 1..briefs
  PROVE  Turns(w, t)
<1>1. briefs \in Nat /\ briefs' \in Nat /\ briefs <= briefs'
  BY Types
<1>2. t.brief <= briefs' /\ (t.pc # "idle" => t.brief # 0)
  BY <1>1
<1>3. \A v \in Workers \ {w} : \A s \in wk[v].bad : row'[<<wk[v].brief, s>>].status = "making"
  BY DEF RevInv, MakersApart
<1>4. shown' \subseteq 1..briefs' /\ offered' \subseteq 1..briefs'
  BY DEF RevInv, Numbered
<1> QED
  BY <1>1, <1>2, <1>3, <1>4 DEF Turns

LEMMA ReviseOk ==
  ASSUME RevInv, NEW w \in Workers, NEW b \in Briefs, Revise(w, b) \/ Redo(w, b)
  PROVE  RevInv' /\ OutcomeStep
<1>1. b \in 1..briefs /\ shown \subseteq 1..briefs /\ shown \subseteq Briefs /\ faults \in 0..MAX_FAULTS
  BY DEF RevInv, TypeOK, Numbered, Revise, Redo
<1>2. b \in 0..MAX_BRIEFS /\ "revise" \in PC /\ "redo" \in PC
  BY RevisionsConstants DEF Briefs, PC
<1>3. UNCHANGED <<day, briefs, brief, row, bucket, storedOn, photoPic, shown, offered, faults>>
  BY DEF Revise, Redo
<1>4. PICK t \in Turn : /\ wk' = [wk EXCEPT ![w] = t] /\ t.bad = {} /\ t.brief = b
                        /\ t.pc \in {"revise", "redo"}
  <2>1. CASE Revise(w, b)
    <3>1. wk' = [wk EXCEPT ![w] = TurnTo(Free, "revise", b)]
      BY <2>1 DEF Revise, Set, TurnTo
    <3>2. /\ TurnTo(Free, "revise", b) \in Turn /\ TurnTo(Free, "revise", b).bad = {}
          /\ TurnTo(Free, "revise", b).pc = "revise" /\ TurnTo(Free, "revise", b).brief = b
      BY <1>2, Blank, TurnToOk
    <3> QED
      BY <3>1, <3>2
  <2>2. CASE Redo(w, b)
    <3>1. PICK S \in SUBSET Slides : wk' = [wk EXCEPT ![w] = TurnWith(Free, "redo", b, S)]
      BY <2>2 DEF Redo, Set, TurnWith
    <3>2. /\ TurnWith(Free, "redo", b, S) \in Turn /\ TurnWith(Free, "redo", b, S).bad = {}
          /\ TurnWith(Free, "redo", b, S).pc = "redo" /\ TurnWith(Free, "redo", b, S).brief = b
      BY <1>2, Blank, TurnWithOk
    <3> QED
      BY <3>1, <3>2
  <2> QED
    BY <2>1, <2>2
<1>5. Turns(w, t)
  BY <1>1, <1>3, <1>4, Idles
<1> QED
  BY <1>1, <1>3, <1>5, TurnsAlone

LEMMA FreedOk ==
  ASSUME RevInv, NEW w \in Workers, ReviseRefused(w) \/ EndMaking(w) \/ Crash(w)
  PROVE  RevInv' /\ OutcomeStep
<1>1. /\ UNCHANGED <<day, briefs, brief, row, bucket, storedOn, photoPic, offered>>
      /\ wk' = [wk EXCEPT ![w] = Free]
  BY DEF ReviseRefused, EndMaking, Crash, Set
<1>2. faults' \in 0..MAX_FAULTS
  BY RevisionsConstants DEF RevInv, TypeOK, ReviseRefused, EndMaking, Crash
<1>3. shown' \subseteq 1..briefs /\ shown' \subseteq Briefs
  <2>1. shown \subseteq 1..briefs /\ briefs \in Nat /\ briefs <= MAX_BRIEFS /\ MAX_BRIEFS \in Nat
    BY Types DEF RevInv, Numbered
  <2>2. shown' = shown \/ (Making(w) /\ shown' = shown \union {wk[w].brief})
    BY DEF ReviseRefused, EndMaking, Crash
  <2>3. Making(w) => wk[w].brief \in 1..briefs
    <3>1. wk[w].brief \in Nat
      BY Types, RevisionsConstants DEF Turn
    <3> QED
      BY <2>1, <3>1 DEF Making, RevInv, Numbered
  <2>4. 1..briefs \subseteq Briefs
    BY <2>1 DEF Briefs
  <2>5. shown' \subseteq 1..briefs
    BY <2>1, <2>2, <2>3
  <2> QED
    BY <2>4, <2>5
<1>4. Turns(w, Free)
  BY <1>1, <1>3, Blank, Idles
<1> QED
  BY <1>1, <1>2, <1>3, <1>4, TurnsAlone

\* A version is saved by a worker that turns to t.
SavesInto(w, t) ==
  /\ t \in Turn /\ wk' = [wk EXCEPT ![w] = t] /\ t.bad = {}
  /\ t.brief <= briefs + 1 /\ (t.pc = "idle" \/ t.brief = briefs + 1)
  /\ NewVersion /\ brief' \in [Briefs -> Brief] /\ briefs' \in 0..MAX_BRIEFS
  /\ \A b \in Briefs, s \in Slides : b <= briefs => row'[<<b, s>>] = row[<<b, s>>]
  /\ bucket' \subseteq Objects /\ photoPic' \subseteq Creatives
  /\ storedOn' \in [Creatives -> 0..MAX_DAY] /\ faults' = faults

LEMMA VersionOk ==
  ASSUME RevInv, NEW w \in Workers, NEW t, SavesInto(w, t)
  PROVE  RevInv' /\ OutcomeStep
<1>1. RowInv' /\ OutcomeStep
  BY NewVersionOk DEF SavesInto
<1>2. /\ briefs \in Nat /\ briefs' = briefs + 1 /\ t.brief \in Nat /\ t.brief <= briefs + 1
      /\ (t.pc # "idle" => t.brief # 0)
  BY Types, RevisionsConstants DEF NewVersion, Turn, SavesInto
<1>3. \A v \in Workers : wk[v].brief <= briefs /\ wk[v].brief \in Nat
  BY Types, RevisionsConstants DEF RevInv, Numbered, Turn
<1>4. shown' \subseteq 1..briefs' /\ offered' \subseteq 1..briefs'
  BY <1>2 DEF RevInv, Numbered, NewVersion, SavesInto
<1>5. \A v \in Workers : \A s \in wk[v].bad : row'[<<wk[v].brief, s>>].status = "making"
  BY OthersBad DEF SavesInto
<1>6. Turns(w, t)
  BY <1>2, <1>3, <1>4, <1>5 DEF Turns, SavesInto
<1>7. Numbered' /\ MakersApart' /\ wk' \in [Workers -> Turn]
  BY <1>6, WorkersOk
<1>8. TypeOK'
  BY <1>7 DEF RevInv, TypeOK, NewVersion, SavesInto
<1> QED
  BY <1>1, <1>7, <1>8 DEF RevInv

LEMMA CreateOk ==
  ASSUME RevInv, NEW w \in Workers, Create(w)
  PROVE  RevInv' /\ OutcomeStep
<1> DEFINE bg == [s \in Slides |-> NoKey]
           t == TurnTo(Free, "generate", briefs + 1)
<1>1. briefs \in Nat /\ MAX_BRIEFS \in Nat /\ briefs < MAX_BRIEFS /\ briefs' = briefs + 1
  BY Types DEF Create, SaveBrief
<1>2. bg \in [Slides -> Creatives \union {NoKey}] /\ Unlaned \in [Slides -> {"none", "photo", "made"}]
  BY DEF Unlaned
<1>3. \A s \in Slides : bg[s] = NoKey /\ bg[s] # <<briefs + 1, s>>
  BY <1>1 DEF NoKey
<1>4. Saves(0, bg, Unlaned)
  <2>1. row' = Saved(bg, Unlaned)
    BY DEF Create
  <2>2. /\ SaveBrief(0) /\ day' = day /\ UNCHANGED <<shown, offered>> /\ bucket' = bucket
        /\ storedOn' = storedOn /\ 0 \in 0..MAX_BRIEFS
    BY <1>1 DEF Create
  <2> HIDE DEF bg
  <2> QED
    BY <1>2, <1>3, <2>1, <2>2 DEF Saves
<1>5. t \in Turn /\ t.brief = briefs + 1 /\ t.pc = "generate" /\ t.bad = {}
  <2>1. briefs + 1 \in 0..MAX_BRIEFS /\ "generate" \in PC
    BY <1>1 DEF PC
  <2> QED
    BY <2>1, Blank, TurnToOk
<1>6. /\ wk' = [wk EXCEPT ![w] = t] /\ bucket' = bucket /\ photoPic' = photoPic
      /\ storedOn' = storedOn /\ faults' = faults
  BY DEF Create, Set, TurnTo
<1>7. bucket' \subseteq Objects /\ photoPic' \subseteq Creatives /\ storedOn' \in [Creatives -> 0..MAX_DAY]
  BY <1>6 DEF RevInv, TypeOK
<1> HIDE DEF bg, t
<1>8. /\ NewVersion /\ brief' \in [Briefs -> Brief] /\ briefs' \in 0..MAX_BRIEFS
       /\ \A c \in Briefs, s \in Slides : c <= briefs => row'[<<c, s>>] = row[<<c, s>>]
  BY <1>4, SavedOk
<1>9. SavesInto(w, t)
  BY <1>1, <1>5, <1>6, <1>7, <1>8 DEF SavesInto
<1> QED
  BY <1>9, VersionOk

LEMMA SaveRevisionOk ==
  ASSUME RevInv, NEW w \in Workers, SaveRevision(w)
  PROVE  RevInv' /\ OutcomeStep
<1> DEFINE b == wk[w].brief
           n == briefs + 1
           t == TurnWith(Free, "recompose", n, Slides)
<1>1. briefs \in Nat /\ MAX_BRIEFS \in Nat /\ briefs < MAX_BRIEFS /\ briefs' = n
  BY Types DEF SaveRevision, SaveBrief
<1>2. b \in 1..briefs /\ b \in Briefs /\ b \in 0..MAX_BRIEFS
  <2>1. b \in Nat /\ b <= briefs /\ b # 0
    BY Types, RevisionsConstants DEF Turn, RevInv, Numbered, SaveRevision
  <2> QED
    BY <1>1, <2>1 DEF Briefs
<1>3. PICK rebuilt \in SUBSET Slides :
        /\ row' = Saved([s \in Slides |-> IF s \in rebuilt THEN <<n, s>> ELSE row[<<b, s>>].bg], Unlaned)
        /\ bucket' = bucket \union {<<"bg", <<n, s>>>> : s \in rebuilt}
        /\ photoPic' = photoPic \union ({n} \X rebuilt)
  BY DEF SaveRevision
<1> DEFINE bg == [s \in Slides |-> IF s \in rebuilt THEN <<n, s>> ELSE row[<<b, s>>].bg]
<1>4. n \in Briefs /\ \A s \in Slides : <<n, s>> \in Creatives /\ <<b, s>> \in Creatives
  BY <1>1, <1>2, Domain DEF Briefs
<1>5. \A s \in Slides : row[<<b, s>>].bg \in Creatives \union {NoKey}
  BY <1>4, Types DEF Row
<1>6. bg \in [Slides -> Creatives \union {NoKey}] /\ Unlaned \in [Slides -> {"none", "photo", "made"}]
  BY <1>4, <1>5 DEF Unlaned
<1>7. ASSUME NEW s \in Slides
      PROVE  /\ bg[s] # NoKey => bg[s][1] <= n
             /\ bg[s] = <<n, s>> => s \in rebuilt
  <2>1. CASE s \in rebuilt
    BY <1>1, <2>1
  <2>2. CASE s \notin rebuilt
    <3>1. bg[s] = row[<<b, s>>].bg
      BY <2>2
    <3>2. bg[s] # NoKey => bg[s][1] <= briefs /\ bg[s] \in Creatives
      BY <1>4, <1>5, <3>1 DEF RevInv, RowInv, KeysSaved
    <3>3. bg[s] # NoKey => bg[s][1] \in Nat
      BY <3>2, Domain DEF Briefs
    <3>4. <<n, s>> # NoKey /\ <<n, s>>[1] = n
      BY <1>1 DEF NoKey
    <3> HIDE DEF bg
    <3> QED
      BY <1>1, <3>2, <3>3, <3>4
  <2> QED
    BY <2>1, <2>2
<1>8. storedOn' = [c \in Creatives |-> IF c[1] = n THEN day ELSE storedOn[c]]
  BY DEF SaveRevision
<1>9. Saves(b, bg, Unlaned)
  <2>1. row' = Saved(bg, Unlaned)
    BY <1>3
  <2>2. /\ SaveBrief(b) /\ day' = day /\ UNCHANGED <<shown, offered>>
    BY DEF SaveRevision
  <2>3. bucket \subseteq bucket' /\ \A s \in rebuilt : <<"bg", <<n, s>>>> \in bucket'
    BY <1>3
  <2>4. \A c \in Creatives : c[1] # n => storedOn'[c] = storedOn[c]
    BY <1>8
  <2>5. \A s \in Slides : storedOn'[<<n, s>>] = day
    BY <1>4, <1>8
  <2> HIDE DEF bg
  <2> QED
    BY <1>2, <1>6, <1>7, <2>1, <2>2, <2>3, <2>4, <2>5 DEF Saves
<1>10. t \in Turn /\ t.brief = n /\ t.pc = "recompose" /\ t.bad = {}
  <2>1. n \in 0..MAX_BRIEFS /\ "recompose" \in PC /\ Slides \in SUBSET Slides
    BY <1>1 DEF PC
  <2> QED
    BY <2>1, Blank, TurnWithOk
<1>11. wk' = [wk EXCEPT ![w] = t] /\ faults' = faults
  BY DEF SaveRevision, Set, TurnWith
<1>12. bucket' \subseteq Objects /\ photoPic' \subseteq Creatives
  BY <1>3, <1>4 DEF RevInv, TypeOK, Objects, Creatives
<1>13. storedOn' \in [Creatives -> 0..MAX_DAY]
  BY <1>8 DEF RevInv, TypeOK
<1> HIDE DEF b, bg, t
<1>14. /\ NewVersion /\ brief' \in [Briefs -> Brief] /\ briefs' \in 0..MAX_BRIEFS
       /\ \A c \in Briefs, s \in Slides : c <= briefs => row'[<<c, s>>] = row[<<c, s>>]
  BY <1>9, SavedOk
<1>15. SavesInto(w, t)
  BY <1>1, <1>10, <1>11, <1>12, <1>13, <1>14 DEF SavesInto
<1> QED
  BY <1>15, VersionOk

LEMMA SaveRedoOk ==
  ASSUME RevInv, NEW w \in Workers, SaveRedo(w)
  PROVE  RevInv' /\ OutcomeStep
<1> DEFINE b == wk[w].brief
           n == briefs + 1
           t == TurnTo(wk[w], "generate", n)
           bg == [s \in Slides |-> IF s \in wk[w].slides THEN row[<<b, s>>].bg ELSE NoKey]
           lane == [s \in Slides |-> IF s \in wk[w].slides THEN row[<<b, s>>].lane ELSE "none"]
<1>1. briefs \in Nat /\ MAX_BRIEFS \in Nat /\ briefs < MAX_BRIEFS /\ briefs' = n
  BY Types DEF SaveRedo, SaveBrief
<1>2. b \in 1..briefs /\ b \in Briefs /\ b \in 0..MAX_BRIEFS
  <2>1. b \in Nat /\ b <= briefs /\ b # 0
    BY Types, RevisionsConstants DEF Turn, RevInv, Numbered, SaveRedo
  <2> QED
    BY <1>1, <2>1 DEF Briefs
<1>3. \A s \in Slides : <<b, s>> \in Creatives
  BY <1>2, Domain
<1>4. \A s \in Slides : /\ row[<<b, s>>].bg \in Creatives \union {NoKey}
                        /\ row[<<b, s>>].lane \in {"none", "photo", "made"}
  BY <1>3, Types DEF Row
<1>5. bg \in [Slides -> Creatives \union {NoKey}] /\ lane \in [Slides -> {"none", "photo", "made"}]
  BY <1>4
<1>6. ASSUME NEW s \in Slides
      PROVE  /\ bg[s] # NoKey => bg[s][1] <= n
             /\ bg[s] # <<n, s>>
  <2>1. bg[s] = NoKey \/ bg[s] = row[<<b, s>>].bg
    OBVIOUS
  <2>2. bg[s] # NoKey => bg[s][1] <= briefs /\ bg[s] \in Creatives
    BY <1>3, <1>4, <2>1 DEF RevInv, RowInv, KeysSaved
  <2>3. bg[s] # NoKey => bg[s][1] \in Nat
    BY <2>2, Domain DEF Briefs
  <2>4. <<n, s>> # NoKey /\ <<n, s>>[1] = n /\ ~(n <= briefs)
    BY <1>1 DEF NoKey
  <2>5. bg[s] # NoKey => bg[s][1] <= n
    BY <1>1, <2>2, <2>3
  <2> HIDE DEF bg, n
  <2> QED
    BY <2>2, <2>4, <2>5
<1>7. Saves(b, bg, lane)
  <2>1. row' = Saved(bg, lane)
    BY DEF SaveRedo
  <2>2. /\ SaveBrief(b) /\ day' = day /\ UNCHANGED <<shown, offered, bucket, storedOn>>
    BY DEF SaveRedo
  <2> HIDE DEF bg, lane
  <2> QED
    BY <1>2, <1>5, <1>6, <2>1, <2>2 DEF Saves
<1>8. t \in Turn /\ t.brief = n /\ t.pc = "generate" /\ t.bad = {}
  <2>1. n \in 0..MAX_BRIEFS /\ "generate" \in PC
    BY <1>1 DEF PC
  <2>2. wk[w] \in Turn /\ wk[w].bad = {}
    BY Types DEF RevInv, MakersApart, Making, SaveRedo
  <2> QED
    BY <2>1, <2>2, TurnToOk
<1>9. /\ wk' = [wk EXCEPT ![w] = t] /\ faults' = faults /\ bucket' = bucket /\ photoPic' = photoPic
      /\ storedOn' = storedOn
  BY DEF SaveRedo, Set, TurnTo
<1>10. bucket' \subseteq Objects /\ photoPic' \subseteq Creatives /\ storedOn' \in [Creatives -> 0..MAX_DAY]
  BY <1>9 DEF RevInv, TypeOK
<1> HIDE DEF b, bg, lane, t
<1>11. /\ NewVersion /\ brief' \in [Briefs -> Brief] /\ briefs' \in 0..MAX_BRIEFS
       /\ \A c \in Briefs, s \in Slides : c <= briefs => row'[<<c, s>>] = row[<<c, s>>]
  BY <1>7, SavedOk
<1>12. SavesInto(w, t)
  BY <1>1, <1>8, <1>9, <1>10, <1>11 DEF SavesInto
<1> QED
  BY <1>12, VersionOk

LEMMA FailedRowOk ==
  ASSUME NEW d \in Nat
  PROVE  LET r == [NoRow EXCEPT !.status = "failed", !.expires = d]
         IN /\ r \in Row /\ r.status = "failed" /\ r.bg = NoKey /\ r.expires = d
            /\ r.card = "none" /\ ~r.tapped
  BY DEF NoRow, Row

LEMMA UnpaidOk ==
  ASSUME RevInv, NEW parent \in 0..MAX_BRIEFS, Unpaid(parent),
         UNCHANGED <<day, bucket, storedOn, shown, offered>>
  PROVE  /\ NewVersion /\ brief' \in [Briefs -> Brief] /\ briefs' \in 0..MAX_BRIEFS
         /\ \A b \in Briefs, s \in Slides : b <= briefs => row'[<<b, s>>] = row[<<b, s>>]
<1> DEFINE r == [NoRow EXCEPT !.status = "failed", !.expires = day + TTL]
<1>1. /\ briefs \in Nat /\ MAX_BRIEFS \in Nat /\ briefs < MAX_BRIEFS /\ briefs' = briefs + 1
      /\ day + TTL \in Nat /\ row \in [Creatives -> Row] /\ brief \in [Briefs -> Brief]
  BY Types DEF Unpaid, SaveBrief
<1>2. /\ r \in Row /\ r.status = "failed" /\ r.bg = NoKey /\ r.expires = day + TTL
      /\ r.card = "none" /\ ~r.tapped
  BY <1>1, FailedRowOk
<1>3. row' = [c \in Creatives |-> IF c[1] = briefs + 1 THEN r ELSE row[c]]
  BY DEF Unpaid
<1> HIDE DEF r
<1>4. row' \in [Creatives -> Row]
  BY <1>1, <1>2, <1>3
<1>5. \A c \in Creatives : c # NoKey
  BY Domain
<1>6. NewVersion
  BY <1>1, <1>2, <1>3, <1>4, <1>5 DEF NewVersion
<1>7. brief' \in [Briefs -> Brief]
  <2>1. \A b \in Briefs : /\ brief[b].status \in {"none", "draft", "superseded", "approved"}
                          /\ brief[b].parent \in 0..MAX_BRIEFS /\ brief[b] \in Brief
    BY <1>1 DEF Brief
  <2>2. \A b \in Briefs : [brief[b] EXCEPT !.status = "superseded"] \in Brief
    BY <2>1 DEF Brief
  <2>3. [status |-> "draft", parent |-> parent] \in Brief
    BY DEF Brief
  <2> QED
    BY <2>1, <2>2, <2>3 DEF Unpaid, SaveBrief
<1>8. \A b \in Briefs, s \in Slides : b <= briefs => row'[<<b, s>>] = row[<<b, s>>]
  <2> SUFFICES ASSUME NEW b \in Briefs, NEW s \in Slides, b <= briefs
               PROVE  row'[<<b, s>>] = row[<<b, s>>]
    OBVIOUS
  <2>1. <<b, s>> \in Creatives /\ <<b, s>>[1] # briefs + 1
    BY <1>1, Domain DEF Briefs
  <2> QED
    BY <1>3, <2>1
<1>9. briefs' \in 0..MAX_BRIEFS
  BY <1>1
<1> QED
  BY <1>6, <1>7, <1>8, <1>9

LEMMA CreateUnpaidOk ==
  ASSUME RevInv, NEW w \in Workers, CreateUnpaid(w) \/ (RedoRefused(w) /\ Unpaid(wk[w].brief))
  PROVE  RevInv' /\ OutcomeStep
<1>1. PICK parent \in 0..MAX_BRIEFS : Unpaid(parent)
  <2>1. wk[w].brief \in 0..MAX_BRIEFS /\ 0 \in 0..MAX_BRIEFS
    BY Types DEF Turn
  <2> QED
    BY <2>1 DEF CreateUnpaid
<1>2. UNCHANGED <<day, bucket, storedOn, photoPic, shown, offered, faults>>
  BY DEF CreateUnpaid, RedoRefused
<1>3. PICK t \in Turn : /\ wk' = [wk EXCEPT ![w] = t] /\ t.bad = {} /\ t.pc = "idle"
                        /\ t.brief <= briefs + 1
  <2>1. CASE CreateUnpaid(w)
    <3>1. wk' = [wk EXCEPT ![w] = wk[w]] /\ wk[w] \in Turn /\ wk[w].pc = "idle"
      BY <2>1, Types DEF CreateUnpaid
    <3>2. wk[w].bad = {}
      BY <3>1 DEF RevInv, MakersApart, Making
    <3>3. wk[w].brief <= briefs + 1
      BY Types, RevisionsConstants DEF RevInv, Numbered, Turn
    <3> QED
      BY <3>1, <3>2, <3>3
  <2>2. CASE RedoRefused(w)
    <3>1. wk' = [wk EXCEPT ![w] = Free]
      BY <2>2 DEF RedoRefused, Set
    <3>2. 0 <= briefs + 1
      BY Types
    <3> QED
      BY <3>1, <3>2, Blank
  <2> QED
    BY <2>1, <2>2
<1>4. /\ NewVersion /\ brief' \in [Briefs -> Brief] /\ briefs' \in 0..MAX_BRIEFS
      /\ \A b \in Briefs, s \in Slides : b <= briefs => row'[<<b, s>>] = row[<<b, s>>]
  BY <1>1, <1>2, UnpaidOk
<1>5. bucket' \subseteq Objects /\ photoPic' \subseteq Creatives /\ storedOn' \in [Creatives -> 0..MAX_DAY]
  BY <1>2 DEF RevInv, TypeOK
<1>6. SavesInto(w, t)
  BY <1>2, <1>3, <1>4, <1>5 DEF SavesInto
<1> QED
  BY <1>6, VersionOk

LEMMA RedoRefusedOk ==
  ASSUME RevInv, NEW w \in Workers, RedoRefused(w)
  PROVE  RevInv' /\ OutcomeStep
<1>1. CASE Unpaid(wk[w].brief)
  BY <1>1, CreateUnpaidOk
<1>2. CASE UNCHANGED <<briefs, brief, row>>
  <2>1. UNCHANGED <<day, briefs, brief, row, bucket, storedOn, photoPic, shown, offered, faults>>
    BY <1>2 DEF RedoRefused
  <2>2. wk' = [wk EXCEPT ![w] = Free]
    BY DEF RedoRefused, Set
  <2>3. shown' \subseteq 1..briefs /\ shown' \subseteq Briefs /\ faults' \in 0..MAX_FAULTS
    BY <2>1 DEF RevInv, TypeOK, Numbered
  <2>4. Turns(w, Free)
    BY <2>1, <2>2, <2>3, Blank, Idles
  <2> QED
    BY <2>1, <2>3, <2>4, TurnsAlone
<1> QED
  BY <1>1, <1>2 DEF RedoRefused

-----------------------------------------------------------------------------
\* A worker that makes a version makes one that is saved.
LEMMA MakerAt ==
  ASSUME RevInv, NEW w \in Workers, Making(w)
  PROVE  wk[w].brief \in Briefs /\ wk[w].brief \in 1..briefs /\ wk[w] \in Turn
<1>1. wk[w].brief \in Nat /\ wk[w].brief <= briefs /\ wk[w].brief # 0 /\ wk[w] \in Turn
  BY Types, RevisionsConstants DEF Turn, RevInv, Numbered, Making
<1> QED
  BY <1>1, Types DEF Briefs

LEMMA SlideReadyOk ==
  ASSUME RevInv, NEW w \in Workers, NEW s \in Slides, SlideReady(w, s)
  PROVE  RevInv' /\ OutcomeStep
<1> DEFINE c == <<wk[w].brief, s>>
           kept == s \in wk[w].slides
           lane == IF s \in Photos THEN "photo" ELSE "made"
           key == IF kept THEN row[c].bg ELSE c
           r == [row[c] EXCEPT !.status = "ready", !.card = "draft", !.bg = key,
                               !.lane = IF kept THEN @ ELSE lane]
<1>1. wk[w].brief \in Briefs /\ wk[w].brief \in 1..briefs /\ c \in Creatives /\ c[1] = wk[w].brief
  BY MakerAt, Domain DEF SlideReady
<1>2. /\ row[c] \in Row /\ row[c].status = "making" /\ s \notin wk[w].bad
      /\ row[c].bg \in Creatives \union {NoKey}
  BY <1>1, Types DEF SlideReady, Remaining, Row
<1>3. key \in Creatives \union {NoKey}
  BY <1>1, <1>2
<1>4. /\ r \in Row /\ r.status = "ready" /\ r.card = "draft" /\ r.bg = key
      /\ r.expires = row[c].expires /\ (r.tapped <=> row[c].tapped)
  <2> HIDE DEF key, c
  <2> QED
    BY <1>2, <1>3 DEF Row
<1>5. row' = [row EXCEPT ![c] = r]
  BY DEF SlideReady
<1>6. /\ bucket' = bucket \union {<<"card", c>>, <<"bg", key>>} /\ storedOn' = [storedOn EXCEPT ![c] = day]
      /\ UNCHANGED <<day, briefs, brief, shown, offered, wk, faults>>
      /\ photoPic' \in {photoPic, photoPic \union {c}}
  BY DEF SlideReady
<1>7. kept => Stored(key)
  BY DEF SlideReady
<1>8. ~kept => key = c
  OBVIOUS
<1>9. kept => key = row[c].bg
  OBVIOUS
<1> HIDE DEF key, kept, r, c
<1>10. row' \in [Creatives -> Row] /\ row'[c] = r /\ \A d \in Creatives : d # c => row'[d] = row[d]
  BY <1>1, <1>4, <1>5, Types
<1>11. /\ storedOn' \in [Creatives -> 0..MAX_DAY] /\ storedOn'[c] = day
       /\ \A d \in Creatives : d # c => storedOn'[d] = storedOn[d]
  BY <1>1, <1>6 DEF RevInv, TypeOK
<1>12. UnsavedIsEmpty'
  <2>1. ~(c[1] > briefs)
    BY <1>1, Types
  <2> QED
    BY <1>6, <1>10, <2>1 DEF RevInv, RowInv, UnsavedIsEmpty
<1>13. TapsKept'
  <2>1. c[1] \notin offered /\ ~row[c].tapped
    BY <1>1, <1>2 DEF RevInv, RowInv, TapsKept
  <2>2. \A d \in Creatives : d[1] = c[1] => d[1] \notin offered
    BY <2>1
  <2> QED
    BY <1>4, <1>6, <1>10, <2>1 DEF RevInv, RowInv, TapsKept
<1>14. KeysSaved'
  <2>1. r.bg # NoKey => r.bg[1] <= briefs
    <3>1. CASE kept
      BY <1>1, <1>4, <1>9, <3>1 DEF RevInv, RowInv, KeysSaved
    <3>2. CASE ~kept
      BY <1>1, <1>4, <1>8, <3>2, Types
    <3> QED
      BY <3>1, <3>2
  <2> QED
    BY <1>6, <1>10, <2>1 DEF RevInv, RowInv, KeysSaved
<1>15. LivesAsLong'
  <2>1. row[c].expires <= day + TTL
    BY <1>1 DEF RevInv, RowInv, LivesAsLong
  <2>2. <<"bg", key>> \in bucket' /\ bucket \subseteq bucket'
    BY <1>6
  <2> SUFFICES ASSUME NEW d \in Creatives
               PROVE  /\ row'[d].expires <= day' + TTL
                      /\ row'[d].bg = d => row'[d].expires <= storedOn'[d] + TTL
                      /\ row'[d].bg = d /\ ~(row'[d].expires <= day') => Stored(d)'
    BY DEF LivesAsLong, Expired
  <2>3. CASE d = c
    BY <1>4, <1>6, <1>10, <1>11, <2>1, <2>2, <2>3 DEF Stored
  <2>4. CASE d # c
    BY <1>6, <1>10, <1>11, <2>2, <2>4 DEF Stored, RevInv, RowInv, LivesAsLong, Expired
  <2> QED
    BY <2>3, <2>4
<1>16. PostPictureKept'
  BY <1>4, <1>6, <1>10 DEF RevInv, RowInv, PostPictureKept
<1>17. Numbered' /\ MakersApart'
  <2>1. ASSUME NEW v \in Workers, NEW u \in wk[v].bad
        PROVE  row'[<<wk[v].brief, u>>].status = "making"
    <3>1. Making(v)
      BY <2>1 DEF RevInv, MakersApart
    <3>2. wk[v].brief \in Briefs /\ u \in Slides
      BY <3>1, MakerAt, Types DEF Turn
    <3>3. <<wk[v].brief, u>> \in Creatives /\ row[<<wk[v].brief, u>>].status = "making"
      BY <3>2, Domain DEF RevInv, MakersApart
    <3>4. <<wk[v].brief, u>> # c
      <4>1. Making(w)
        BY DEF SlideReady
      <4>2. wk[v].brief = wk[w].brief => v = w
        BY <3>1, <4>1 DEF RevInv, MakersApart
      <4> QED
        BY <1>2, <4>2 DEF c
    <3> QED
      BY <1>10, <3>3, <3>4
  <2>2. briefs' \in Nat /\ briefs <= briefs' /\ shown' \subseteq 1..briefs' /\ offered' \subseteq 1..briefs'
    BY <1>6, Types DEF RevInv, Numbered
  <2> QED
    BY <1>6, <2>1, <2>2, WorkersStay
<1>18. TypeOK'
  <2>1. bucket' \subseteq Objects
    <3>1. key \in Creatives
      BY <1>3, <1>7, <1>8, <1>1, Domain DEF Stored, RevInv, TypeOK, Objects
    <3> QED
      BY <1>1, <1>6, <3>1 DEF RevInv, TypeOK, Objects
  <2>2. photoPic' \subseteq Creatives
    BY <1>1, <1>6 DEF RevInv, TypeOK
  <2> QED
    BY <1>6, <1>10, <1>11, <2>1, <2>2 DEF RevInv, TypeOK
<1>19. OutcomeStep
  BY <1>2, <1>10 DEF OutcomeStep
<1> QED
  BY <1>12, <1>13, <1>14, <1>15, <1>16, <1>17, <1>18, <1>19 DEF RevInv, RowInv

LEMMA SlideBadOk ==
  ASSUME RevInv, NEW w \in Workers, NEW s \in Slides, SlideBad(w, s)
  PROVE  RevInv' /\ OutcomeStep
<1> DEFINE t == [wk[w] EXCEPT !.bad = wk[w].bad \union {s}]
<1>1. wk[w].brief \in 1..briefs /\ wk[w] \in Turn /\ Making(w)
  BY MakerAt DEF SlideBad
<1>2. /\ t \in Turn /\ t.bad = wk[w].bad \union {s} /\ t.pc = wk[w].pc /\ t.brief = wk[w].brief
  <2>1. wk[w].bad \union {s} \in SUBSET Slides
    BY <1>1 DEF Turn
  <2> QED
    BY <1>1, <2>1, TurnBad
<1>3. /\ wk' = [wk EXCEPT ![w] = t] /\ row[<<wk[w].brief, s>>].status = "making"
      /\ UNCHANGED <<day, briefs, brief, row, bucket, storedOn, photoPic, shown, offered, faults>>
  BY DEF SlideBad, Remaining
<1> HIDE DEF t
<1>4. Turns(w, t)
  <2>1. briefs' \in Nat /\ briefs <= briefs' /\ shown' \subseteq 1..briefs' /\ offered' \subseteq 1..briefs'
    BY <1>3, Types DEF RevInv, Numbered
  <2>2. t.brief <= briefs' /\ t.brief # 0
    BY <1>1, <1>2, <1>3, Types
  <2>3. \A v \in Workers \ {w} : Making(v) => wk[v].brief # t.brief
    BY <1>1, <1>2 DEF RevInv, MakersApart
  <2>4. t.pc \in {"recompose", "generate"}
    BY <1>1, <1>2 DEF Making
  <2>5. \A v \in Workers : \A u \in wk[v].bad : row'[<<wk[v].brief, u>>].status = "making"
    BY <1>3 DEF RevInv, MakersApart
  <2>6. \A u \in t.bad : row'[<<t.brief, u>>].status = "making"
    BY <1>2, <1>3, <2>5
  <2> QED
    BY <1>2, <1>3, <2>1, <2>2, <2>3, <2>4, <2>5, <2>6 DEF Turns
<1>5. shown' \subseteq Briefs /\ faults' \in 0..MAX_FAULTS
  BY <1>3 DEF RevInv, TypeOK
<1> QED
  BY <1>3, <1>4, <1>5, TurnsAlone

LEMMA FailedOne ==
  ASSUME NEW r \in Row
  PROVE  [r EXCEPT !.status = "failed"] \in Row
  BY DEF Row

LEMMA MarkFailedOk ==
  ASSUME RevInv, NEW w \in Workers, NEW s \in Slides, MarkFailed(w, s)
  PROVE  RevInv' /\ OutcomeStep
<1> DEFINE t == [wk[w] EXCEPT !.bad = wk[w].bad \ {s}]
           c == <<wk[w].brief, s>>
<1>1. /\ wk[w].brief \in 1..briefs /\ wk[w].brief \in Briefs /\ wk[w] \in Turn /\ Making(w)
      /\ s \in wk[w].bad
  BY MakerAt DEF MarkFailed
<1>2. c \in Creatives /\ row[c].status = "making" /\ row[c] \in Row
  BY <1>1, Domain, Types DEF RevInv, MakersApart
<1>3. /\ t \in Turn /\ t.bad = wk[w].bad \ {s} /\ t.pc = wk[w].pc /\ t.brief = wk[w].brief
  <2>1. wk[w].bad \ {s} \in SUBSET Slides
    BY <1>1 DEF Turn
  <2> QED
    BY <1>1, <2>1, TurnBad
<1>4. /\ wk' = [wk EXCEPT ![w] = t] /\ row' = [row EXCEPT ![c] = [row[c] EXCEPT !.status = "failed"]]
      /\ UNCHANGED <<day, briefs, brief, bucket, storedOn, photoPic, shown, offered, faults>>
  BY DEF MarkFailed
<1>5. [row[c] EXCEPT !.status = "failed"] \in Row
  BY <1>2, FailedOne
<1>6. SomeFail
  BY <1>2, <1>4, <1>5, Types DEF SomeFail
<1>7. \A d \in Creatives : d # c => row'[d] = row[d]
  BY <1>4, Types
<1> HIDE DEF t
<1>8. ASSUME NEW v \in Workers, NEW u \in wk[v].bad, <<wk[v].brief, u>> # c
      PROVE  row'[<<wk[v].brief, u>>].status = "making"
  <2>1. Making(v)
    BY <1>8 DEF RevInv, MakersApart
  <2>2. wk[v].brief \in Briefs /\ u \in Slides
    BY <2>1, MakerAt, Types DEF Turn
  <2> QED
    BY <1>7, <1>8, <2>2, Domain DEF RevInv, MakersApart
<1>9. Turns(w, t)
  <2>1. briefs' \in Nat /\ briefs <= briefs' /\ shown' \subseteq 1..briefs' /\ offered' \subseteq 1..briefs'
    BY <1>4, Types DEF RevInv, Numbered
  <2>2. t.brief <= briefs' /\ t.brief # 0
    BY <1>1, <1>3, <1>4, Types
  <2>3. \A v \in Workers \ {w} : Making(v) => wk[v].brief # t.brief
    BY <1>1, <1>3 DEF RevInv, MakersApart
  <2>4. t.pc \in {"recompose", "generate"}
    BY <1>1, <1>3 DEF Making
  <2>5. \A v \in Workers \ {w} : \A u \in wk[v].bad : row'[<<wk[v].brief, u>>].status = "making"
    <3> SUFFICES ASSUME NEW v \in Workers \ {w}, NEW u \in wk[v].bad
                 PROVE  row'[<<wk[v].brief, u>>].status = "making"
      OBVIOUS
    <3>1. wk[v].brief # wk[w].brief
      BY <1>1 DEF RevInv, MakersApart
    <3> QED
      BY <1>8, <3>1
  <2>6. \A u \in t.bad : row'[<<t.brief, u>>].status = "making"
    BY <1>3, <1>8
  <2> QED
    BY <1>3, <1>4, <2>1, <2>2, <2>3, <2>4, <2>5, <2>6 DEF Turns
<1>10. RowInv' /\ OutcomeStep
  BY <1>6, SomeFailOk
<1>11. Numbered' /\ MakersApart' /\ wk' \in [Workers -> Turn]
  BY <1>9, WorkersOk
<1>12. TypeOK'
  BY <1>4, <1>6, <1>11 DEF RevInv, TypeOK, SomeFail
<1> QED
  BY <1>6, <1>10, <1>11, <1>12 DEF RevInv

LEMMA ReapOk ==
  ASSUME RevInv, Reap
  PROVE  RevInv' /\ OutcomeStep
<1> DEFINE dead == {c \in Creatives : Stuck(c) /\ \A w \in Workers : Making(w) => wk[w].brief # c[1]}
<1>1. /\ row' = [c \in Creatives |-> IF c \in dead THEN [row[c] EXCEPT !.status = "failed"] ELSE row[c]]
      /\ UNCHANGED <<day, briefs, brief, bucket, storedOn, photoPic, shown, offered, wk, faults>>
  BY DEF Reap
<1>2. \A c \in Creatives : row[c] \in Row /\ [row[c] EXCEPT !.status = "failed"] \in Row
  BY Types, FailedOne
<1>3. \A c \in Creatives : c \in dead => row[c].status = "making"
  BY DEF Stuck
<1>4. \A v \in Workers, c \in Creatives : Making(v) /\ wk[v].brief = c[1] => c \notin dead
  OBVIOUS
<1> HIDE DEF dead
<1>5. SomeFail
  BY <1>1, <1>2, <1>3 DEF SomeFail
<1>6. RowInv' /\ OutcomeStep
  BY <1>5, SomeFailOk
<1>7. Numbered' /\ MakersApart'
  <2>1. ASSUME NEW v \in Workers, NEW u \in wk[v].bad
        PROVE  row'[<<wk[v].brief, u>>].status = "making"
    <3>1. Making(v)
      BY <2>1 DEF RevInv, MakersApart
    <3>2. wk[v].brief \in Briefs /\ u \in Slides
      BY <3>1, MakerAt, Types DEF Turn
    <3>3. /\ <<wk[v].brief, u>> \in Creatives /\ <<wk[v].brief, u>>[1] = wk[v].brief
          /\ row[<<wk[v].brief, u>>].status = "making"
      BY <3>2, Domain DEF RevInv, MakersApart
    <3>4. <<wk[v].brief, u>> \notin dead
      BY <1>4, <3>1, <3>3
    <3> QED
      BY <1>1, <3>3, <3>4
  <2>2. briefs' \in Nat /\ briefs <= briefs' /\ shown' \subseteq 1..briefs' /\ offered' \subseteq 1..briefs'
    BY <1>1, Types DEF RevInv, Numbered
  <2> QED
    BY <1>1, <2>1, <2>2, WorkersStay
<1>8. TypeOK'
  BY <1>1, <1>5 DEF RevInv, TypeOK, SomeFail
<1> QED
  BY <1>5, <1>6, <1>7, <1>8 DEF RevInv

-----------------------------------------------------------------------------
LEMMA RequestApprovalOk ==
  ASSUME RevInv, NEW w \in Workers, NEW b \in Briefs, RequestApproval(w, b)
  PROVE  RevInv' /\ OutcomeStep
<1>1. /\ b <= briefs /\ offered' = offered \union {b}
      /\ UNCHANGED <<day, briefs, brief, row, bucket, storedOn, photoPic, shown, wk, faults>>
      /\ \A s \in Slides : row[<<b, s>>].status \in {"ready", "approved"}
  BY DEF RequestApproval, Approvable, Rows
<1>2. TapsKept'
  <2>1. ASSUME NEW c \in Creatives, c[1] = b
        PROVE  row[c].status \in {"ready", "approved"}
    BY <1>1, <2>1, Domain
  <2> QED
    BY <1>1, <2>1 DEF RevInv, RowInv, TapsKept
<1>3. RowInv'
  BY <1>1, <1>2 DEF RevInv, RowInv, UnsavedIsEmpty, KeysSaved, LivesAsLong, PostPictureKept, Stored, Expired
<1>4. b \in 1..briefs
  BY <1>1, Types DEF Briefs
<1>5. Numbered' /\ MakersApart'
  BY <1>1, <1>4 DEF RevInv, Numbered, MakersApart, Making
<1>6. TypeOK'
  BY <1>1 DEF RevInv, TypeOK
<1> QED
  BY <1>1, <1>3, <1>5, <1>6 DEF RevInv, OutcomeStep

LEMMA TappedRow ==
  ASSUME NEW r \in Row
  PROVE  LET q == [r EXCEPT !.tapped = TRUE, !.status = "approved"]
         IN /\ q \in Row /\ q.tapped /\ q.status = "approved" /\ q.bg = r.bg /\ q.lane = r.lane
            /\ q.card = r.card /\ q.expires = r.expires
  BY DEF Row

\* Rows move on without a picture, a lane or a day of theirs changing; the bucket grows.
MovesOn ==
  /\ row' \in [Creatives -> Row] /\ bucket \subseteq bucket'
  /\ \A c \in Creatives :
       /\ row'[c].bg = row[c].bg /\ row'[c].lane = row[c].lane /\ row'[c].expires = row[c].expires
       /\ row'[c].card = row[c].card \/ (row'[c].card = "kept" /\ <<"post", c>> \in bucket')
       /\ \/ row'[c] = row[c]
          \/ row[c].status \in {"ready", "approved"} /\ row'[c].tapped /\ c[1] \in offered
             /\ row'[c].status \in {"approved", "published"}
          \/ row[c].status = "published" /\ row'[c].status = "published" /\ row'[c].tapped
  /\ UNCHANGED <<day, briefs, storedOn, photoPic, shown, offered, wk>>
  /\ brief' \in [Briefs -> Brief] /\ bucket' \subseteq Objects /\ faults' \in 0..MAX_FAULTS

LEMMA MovesOnOk ==
  ASSUME RevInv, MovesOn
  PROVE  RevInv' /\ OutcomeStep
<1>1. UnsavedIsEmpty'
  <2>1. NoRow.status \notin {"ready", "approved", "published"}
    BY DEF NoRow
  <2> QED
    BY <2>1 DEF MovesOn, RevInv, RowInv, UnsavedIsEmpty
<1>2. TapsKept'
  BY DEF MovesOn, RevInv, RowInv, TapsKept
<1>3. KeysSaved'
  BY DEF MovesOn, RevInv, RowInv, KeysSaved
<1>4. LivesAsLong'
  BY DEF MovesOn, RevInv, RowInv, LivesAsLong, Stored, Expired
<1>5. PostPictureKept'
  BY DEF MovesOn, RevInv, RowInv, PostPictureKept
<1>6. OutcomeStep
  BY DEF MovesOn, OutcomeStep
<1>7. Numbered' /\ MakersApart'
  <2>1. ASSUME NEW v \in Workers, NEW u \in wk[v].bad
        PROVE  row'[<<wk[v].brief, u>>].status = "making"
    <3>1. Making(v)
      BY <2>1 DEF RevInv, MakersApart
    <3>2. wk[v].brief \in Briefs /\ u \in Slides
      BY <3>1, MakerAt, Types DEF Turn
    <3>3. <<wk[v].brief, u>> \in Creatives /\ row[<<wk[v].brief, u>>].status = "making"
      BY <3>2, Domain DEF RevInv, MakersApart
    <3> QED
      BY <3>3 DEF MovesOn
  <2>2. briefs' \in Nat /\ briefs <= briefs' /\ shown' \subseteq 1..briefs' /\ offered' \subseteq 1..briefs'
    BY Types DEF RevInv, Numbered, MovesOn
  <2> QED
    BY <2>1, <2>2, WorkersStay DEF MovesOn
<1>8. TypeOK'
  BY DEF MovesOn, RevInv, TypeOK
<1> QED
  BY <1>1, <1>2, <1>3, <1>4, <1>5, <1>6, <1>7, <1>8 DEF RevInv, RowInv

LEMMA TapOk ==
  ASSUME RevInv, NEW b \in Briefs, Tap(b)
  PROVE  RevInv' /\ OutcomeStep
<1>1. /\ row' = [c \in Creatives |-> IF c[1] = b /\ Stampable(row[c])
                 THEN [row[c] EXCEPT !.tapped = TRUE, !.status = "approved"] ELSE row[c]]
      /\ brief' = [brief EXCEPT ![b].status = "approved"] /\ b \in offered
      /\ UNCHANGED <<day, briefs, bucket, storedOn, photoPic, shown, offered, wk, faults>>
  BY DEF Tap
<1>2. ASSUME NEW c \in Creatives
      PROVE  /\ row'[c] \in Row
             /\ row'[c].bg = row[c].bg /\ row'[c].lane = row[c].lane /\ row'[c].expires = row[c].expires
             /\ row'[c].card = row[c].card
             /\ \/ row'[c] = row[c]
                \/ row[c].status \in {"ready", "approved"} /\ row'[c].tapped /\ c[1] \in offered
                   /\ row'[c].status \in {"approved", "published"}
  <2>1. row[c] \in Row
    BY Types
  <2>2. CASE c[1] = b /\ Stampable(row[c])
    <3>1. row'[c] = [row[c] EXCEPT !.tapped = TRUE, !.status = "approved"]
      BY <1>1, <2>2
    <3>2. row[c].status \in {"ready", "approved"}
      BY <2>2 DEF Stampable
    <3> QED
      BY <1>1, <2>1, <2>2, <3>1, <3>2, TappedRow
  <2>3. CASE ~(c[1] = b /\ Stampable(row[c]))
    BY <1>1, <2>1, <2>3
  <2> QED
    BY <2>2, <2>3
<1>3. row' \in [Creatives -> Row]
  BY <1>1, <1>2
<1>4. brief' \in [Briefs -> Brief]
  <2>1. [brief[b] EXCEPT !.status = "approved"] \in Brief
    BY Types DEF Brief
  <2> QED
    BY <1>1, <2>1, Types
<1>5. bucket' \subseteq Objects /\ faults' \in 0..MAX_FAULTS
  BY <1>1 DEF RevInv, TypeOK
<1>6. MovesOn
  BY <1>1, <1>2, <1>3, <1>4, <1>5 DEF MovesOn
<1> QED
  BY <1>6, MovesOnOk

LEMMA DayPassesOk ==
  ASSUME RevInv, DayPasses
  PROVE  RevInv' /\ OutcomeStep
<1>1. /\ day' = day + 1 /\ day < MAX_DAY /\ day \in Nat /\ MAX_DAY \in Nat /\ day' \in 0..MAX_DAY
      /\ UNCHANGED <<briefs, brief, row, bucket, storedOn, photoPic, shown, offered, wk, faults>>
  BY RevisionsConstants, Types DEF DayPasses
<1>2. LivesAsLong'
  <2> SUFFICES ASSUME NEW c \in Creatives
               PROVE  /\ row[c].expires <= day' + TTL
                      /\ row[c].bg = c => row[c].expires <= storedOn[c] + TTL
                      /\ row[c].bg = c /\ ~(row[c].expires <= day') => Stored(c)
    BY <1>1 DEF LivesAsLong, Expired, Stored
  <2>1. row[c].expires \in Nat /\ TTL \in Nat
    BY Types DEF Row
  <2>2. /\ row[c].expires <= day + TTL
        /\ row[c].bg = c => row[c].expires <= storedOn[c] + TTL
        /\ row[c].bg = c /\ ~(row[c].expires <= day) => Stored(c)
    BY DEF RevInv, RowInv, LivesAsLong, Expired
  <2> QED
    BY <1>1, <2>1, <2>2
<1>3. RowInv'
  BY <1>1, <1>2 DEF RevInv, RowInv, UnsavedIsEmpty, TapsKept, KeysSaved, PostPictureKept
<1>4. Numbered' /\ MakersApart' /\ TypeOK'
  BY <1>1 DEF RevInv, Numbered, MakersApart, Making, TypeOK
<1> QED
  BY <1>1, <1>3, <1>4 DEF RevInv, OutcomeStep

LEMMA SweepOk ==
  ASSUME RevInv, Sweep
  PROVE  RevInv' /\ OutcomeStep
<1>1. /\ bucket' = bucket \ {o \in bucket : o[1] # "post" /\ storedOn[o[2]] + TTL <= day}
      /\ UNCHANGED <<day, briefs, brief, row, storedOn, photoPic, shown, offered, wk, faults>>
  BY DEF Sweep
<1>2. LivesAsLong'
  <2> SUFFICES ASSUME NEW c \in Creatives, row[c].bg = c, ~(row[c].expires <= day)
               PROVE  <<"bg", c>> \in bucket'
    BY <1>1 DEF RevInv, RowInv, LivesAsLong, Expired, Stored
  <2>1. row[c].expires \in Nat /\ TTL \in Nat /\ storedOn[c] \in Nat /\ day \in Nat
    BY Types, RevisionsConstants DEF Row
  <2>2. <<"bg", c>> \in bucket /\ row[c].expires <= storedOn[c] + TTL
    BY DEF RevInv, RowInv, LivesAsLong, Expired, Stored
  <2>3. ~(storedOn[c] + TTL <= day)
    BY <2>1, <2>2
  <2> QED
    BY <1>1, <2>2, <2>3
<1>3. PostPictureKept'
  BY <1>1 DEF RevInv, RowInv, PostPictureKept
<1>4. RowInv'
  BY <1>1, <1>2, <1>3 DEF RevInv, RowInv, UnsavedIsEmpty, TapsKept, KeysSaved
<1>5. Numbered' /\ MakersApart' /\ TypeOK'
  BY <1>1 DEF RevInv, Numbered, MakersApart, Making, TypeOK
<1> QED
  BY <1>1, <1>4, <1>5 DEF RevInv, OutcomeStep

LEMMA RevInit == Init => RevInv
<1> SUFFICES ASSUME Init
             PROVE  RevInv
  OBVIOUS
<1>1. TypeOK
  BY RevisionsConstants, Blank DEF Init, TypeOK, Brief, Creatives
<1>2. /\ \A c \in Creatives : row[c] = NoRow
      /\ bucket = {} /\ day = 0 /\ briefs = 0 /\ \A c \in Creatives : storedOn[c] = 0
      /\ offered = {} /\ shown = {} /\ \A w \in Workers : wk[w] = Free
  BY DEF Init
<1>3. /\ NoRow.status = "none" /\ ~NoRow.tapped /\ NoRow.bg = NoKey /\ NoRow.expires = 0
      /\ NoRow.card = "none" /\ \A c \in Creatives : c # NoKey
  BY Domain DEF NoRow
<1>4. TTL \in Nat
  BY RevisionsConstants
<1>5. RowInv
  BY <1>2, <1>3, <1>4 DEF RowInv, UnsavedIsEmpty, TapsKept, KeysSaved, LivesAsLong, PostPictureKept
<1>6. Numbered /\ MakersApart
  BY <1>2, Blank DEF Numbered, MakersApart, Making
<1> QED
  BY <1>1, <1>5, <1>6 DEF RevInv

\* A step of the turns and of what is around them.
LEMMA WorksOk ==
  ASSUME RevInv, NEW w \in Workers, Works(w) \/ Crash(w)
  PROVE  RevInv' /\ OutcomeStep
<1>1. CASE Create(w)
  BY <1>1, CreateOk
<1>2. CASE CreateUnpaid(w)
  BY <1>2, CreateUnpaidOk
<1>3. CASE SaveRevision(w)
  BY <1>3, SaveRevisionOk
<1>4. CASE ReviseRefused(w) \/ EndMaking(w) \/ Crash(w)
  BY <1>4, FreedOk
<1>5. CASE SaveRedo(w)
  BY <1>5, SaveRedoOk
<1>6. CASE RedoRefused(w)
  BY <1>6, RedoRefusedOk
<1>7. ASSUME NEW s \in Slides, SlideReady(w, s) \/ SlideBad(w, s) \/ MarkFailed(w, s)
      PROVE  RevInv' /\ OutcomeStep
  BY <1>7, SlideReadyOk, SlideBadOk, MarkFailedOk
<1>8. ASSUME NEW b \in Briefs, Revise(w, b) \/ Redo(w, b) \/ RequestApproval(w, b)
      PROVE  RevInv' /\ OutcomeStep
  BY <1>8, ReviseOk, RequestApprovalOk
<1> QED
  BY <1>1, <1>2, <1>3, <1>4, <1>5, <1>6, <1>7, <1>8 DEF Works, Makes

LEMMA AroundOk ==
  ASSUME RevInv, Around \/ DayPasses
  PROVE  RevInv' /\ OutcomeStep
  BY ReapOk, SweepOk, TapOk, DayPassesOk DEF Around

\* A fault, or nothing, as far as the versions go.
LEMMA FaultOk ==
  ASSUME RevInv, faults' \in 0..MAX_FAULTS,
         UNCHANGED <<day, briefs, brief, row, bucket, storedOn, photoPic, shown, offered, wk>>
  PROVE  RevInv' /\ OutcomeStep
<1>1. RowInv' /\ OutcomeStep
  BY RowsAlone
<1>2. Numbered' /\ MakersApart' /\ TypeOK'
  BY DEF RevInv, Numbered, MakersApart, Making, TypeOK
<1> QED
  BY <1>1, <1>2 DEF RevInv

-----------------------------------------------------------------------------
(* The calls of publish_to_instagram. *)

\* A call is for a version that is tapped whole, and the slides it leaves out are live.
CallsTapped ==
  \A w \in Workers :
    /\ pub[w].pc = "idle" => pub[w].brief = 0
    /\ pub[w].pc # "idle" =>
         /\ pub[w].brief # 0
         /\ \A s \in Slides : row[<<pub[w].brief, s>>].tapped
         /\ \A s \in Slides \ pub[w].slides : row[<<pub[w].brief, s>>].status = "published"

\* The calls that may still post, and whether nothing is left to be posted but by them.
Posting(b) == {w \in Workers : pub[w].brief = b /\ pub[w].pc \in {"facts", "post"}}
AllOut(b) == \A s \in Slides : row[<<b, s>>].status = "published"
Spent(b) == IF AllOut(b) \/ Calling(b) THEN 1 ELSE 0

Counted == \A b \in Briefs : posts[b] + Cardinality(Posting(b)) <= excess[b] + Spent(b)

CallTypes ==
  /\ pub \in [Workers -> Call] /\ posts \in [Briefs -> Nat] /\ excess \in [Briefs -> Nat]

Inv == RevInv /\ CallTypes /\ CallsTapped /\ Counted

\* What live rows were, they stay: for the steps that leave the calls alone.
LEMMA CallsAlone ==
  ASSUME Inv, RevInv', OutcomeStep, UNCHANGED <<pub, posts, excess>>
  PROVE  Inv'
<1>1. \A w \in Workers : pub[w] \in Call
  BY DEF Inv, CallTypes
<1>2. ASSUME NEW c \in Creatives
      PROVE  /\ row[c].tapped => row'[c].tapped
             /\ row[c].status = "published" => row'[c].status = "published"
  <2>1. row[c].tapped => row[c].status \in {"approved", "published"}
    BY DEF Inv, RevInv, RowInv, TapsKept
  <2> QED
    BY <2>1 DEF OutcomeStep
<1>3. CallsTapped'
  <2> SUFFICES ASSUME NEW w \in Workers, pub[w].pc # "idle"
               PROVE  /\ pub[w].brief # 0
                      /\ \A s \in Slides : row'[<<pub[w].brief, s>>].tapped
                      /\ \A s \in Slides \ pub[w].slides : row'[<<pub[w].brief, s>>].status = "published"
    BY DEF Inv, CallsTapped
  <2>1. pub[w].brief \in Briefs
    BY <1>1, RevisionsConstants DEF Call, Briefs, Inv, CallsTapped
  <2>2. \A s \in Slides : <<pub[w].brief, s>> \in Creatives
    BY <2>1, Domain
  <2> QED
    BY <1>2, <2>2 DEF Inv, CallsTapped
<1>4. Counted'
  <2> SUFFICES ASSUME NEW b \in Briefs
               PROVE  posts[b] + Cardinality(Posting(b)) <= excess[b] + Spent(b)'
    BY DEF Counted, Posting
  <2>1. AllOut(b) => AllOut(b)'
    BY <1>2, Domain DEF AllOut
  <2>2. Calling(b)' <=> Calling(b)
    BY DEF Calling
  <2>3. /\ posts[b] \in Nat /\ excess[b] \in Nat /\ Cardinality(Posting(b)) \in Nat
    <3>1. IsFiniteSet(Posting(b))
      BY RevisionsConstants, FS_Subset DEF Posting
    <3> QED
      BY <3>1, FS_CardinalityType DEF Inv, CallTypes
  <2>4. posts[b] + Cardinality(Posting(b)) <= excess[b] + Spent(b)
    BY DEF Inv, Counted
  <2>5. Spent(b) \in {0, 1} /\ Spent(b)' \in {0, 1} /\ (Spent(b) = 1 => Spent(b)' = 1)
    BY <2>1, <2>2 DEF Spent
  <2> QED
    BY <2>3, <2>4, <2>5
<1>5. CallTypes'
  BY DEF Inv, CallTypes
<1> QED
  BY <1>3, <1>4, <1>5 DEF Inv

LEMMA Countable ==
  ASSUME NEW S \in SUBSET Workers, NEW w
  PROVE  /\ IsFiniteSet(S) /\ Cardinality(S) \in Nat
         /\ Cardinality(S \union {w}) = (IF w \in S THEN Cardinality(S) ELSE Cardinality(S) + 1)
         /\ Cardinality(S \ {w}) = (IF w \in S THEN Cardinality(S) - 1 ELSE Cardinality(S))
<1>1. IsFiniteSet(S)
  BY RevisionsConstants, FS_Subset
<1> QED
  BY <1>1, FS_CardinalityType, FS_AddElement, FS_RemoveElement

LEMMA CallMoves ==
  ASSUME pub \in [Workers -> Call], NEW w \in Workers, NEW call \in Call, SetCall(w, call)
  PROVE  /\ pub' \in [Workers -> Call] /\ pub'[w] = call
         /\ \A v \in Workers \ {w} : pub'[v] = pub[v]
         /\ \A b : Posting(b)' = IF call.brief = b /\ call.pc \in {"facts", "post"}
                                 THEN Posting(b) \union {w} ELSE Posting(b) \ {w}
<1>1. pub' \in [Workers -> Call] /\ pub'[w] = call /\ \A v \in Workers \ {w} : pub'[v] = pub[v]
  BY DEF SetCall
<1> QED
  BY <1>1 DEF Posting

One(p) == IF p THEN 1 ELSE 0
MayPost(call) == call.pc \in {"facts", "post"}

\* All of a version is live after the step.
OutNext(b) == \A s \in Slides : row'[<<b, s>>].status = "published"

\* A call moves on or ends: what it adds to the posts and what it may still add is paid for
\* by what it might have added before, or by an excess.
CallStep(w, call) ==
  LET b == pub[w].brief
  IN /\ pub[w].pc # "idle" /\ call \in Call /\ SetCall(w, call)
     /\ call.pc = "idle" => call.brief = 0
     /\ call.pc # "idle" => call.brief = b /\ call.slides = pub[w].slides
     /\ posts' \in [Briefs -> Nat] /\ excess' \in [Briefs -> Nat]
     /\ \A d \in Briefs : d # b => posts'[d] = posts[d] /\ excess'[d] = excess[d]
     /\ posts'[b] + One(MayPost(call)) + One(call.pc = "idle" /\ ~OutNext(b)) + excess[b]
          <= posts[b] + excess'[b] + One(MayPost(pub[w]))

LEMMA CallAt ==
  ASSUME Inv, NEW w \in Workers, pub[w].pc # "idle"
  PROVE  /\ pub[w] \in Call /\ pub[w].brief \in Briefs /\ pub[w].slides \in SUBSET Slides
         /\ \A s \in Slides : <<pub[w].brief, s>> \in Creatives /\ row[<<pub[w].brief, s>>].tapped
         /\ \A s \in Slides \ pub[w].slides : row[<<pub[w].brief, s>>].status = "published"
<1>1. pub[w] \in Call /\ pub[w].brief # 0
  BY DEF Inv, CallTypes, CallsTapped
<1>2. pub[w].brief \in Briefs /\ pub[w].slides \in SUBSET Slides
  BY <1>1, RevisionsConstants DEF Call, Briefs
<1> QED
  BY <1>1, <1>2, Domain DEF Inv, CallsTapped

LEMMA Stays ==
  ASSUME Inv, OutcomeStep, NEW b \in Briefs, NEW s \in Slides
  PROVE  /\ row[<<b, s>>].tapped => row'[<<b, s>>].tapped
         /\ row[<<b, s>>].status = "published" => row'[<<b, s>>].status = "published"
<1>1. <<b, s>> \in Creatives
  BY Domain
<1>2. row[<<b, s>>].tapped => row[<<b, s>>].status \in {"approved", "published"}
  BY <1>1 DEF Inv, RevInv, RowInv, TapsKept
<1> QED
  BY <1>1, <1>2 DEF OutcomeStep

LEMMA CallStepOk ==
  ASSUME Inv, RevInv', OutcomeStep, NEW w \in Workers, NEW call, CallStep(w, call)
  PROVE  Inv'
<1> PICK b : b = pub[w].brief
  OBVIOUS
<1>1. call \in Call /\ SetCall(w, call) /\ pub[w].pc # "idle" /\ pub \in [Workers -> Call]
  BY DEF CallStep, Inv, CallTypes
<1>2. /\ pub' \in [Workers -> Call] /\ pub'[w] = call
      /\ \A v \in Workers \ {w} : pub'[v] = pub[v]
  BY <1>1, CallMoves
<1>3. \A d \in Briefs : /\ posts[d] \in Nat /\ excess[d] \in Nat /\ posts'[d] \in Nat /\ excess'[d] \in Nat
                        /\ posts[d] + Cardinality(Posting(d)) <= excess[d] + Spent(d)
  BY DEF CallStep, Inv, CallTypes, Counted
<1>4. CallTypes'
  BY <1>2 DEF CallStep, CallTypes
<1>5. CallsTapped'
  <2> SUFFICES ASSUME NEW v \in Workers
               PROVE  /\ pub'[v].pc = "idle" => pub'[v].brief = 0
                      /\ pub'[v].pc # "idle" =>
                           /\ pub'[v].brief # 0
                           /\ \A s \in Slides : row'[<<pub'[v].brief, s>>].tapped
                           /\ \A s \in Slides \ pub'[v].slides : row'[<<pub'[v].brief, s>>].status = "published"
    BY DEF CallsTapped
  <2>1. pub'[v].pc = "idle" => pub'[v].brief = 0
    BY <1>2 DEF CallStep, Inv, CallsTapped
  <2>2. ASSUME pub'[v].pc # "idle"
        PROVE  pub[v].pc # "idle" /\ pub'[v].brief = pub[v].brief /\ pub'[v].slides = pub[v].slides
    BY <1>2, <2>2 DEF CallStep
  <2>3. ASSUME pub'[v].pc # "idle"
        PROVE  /\ pub[v].brief # 0
               /\ \A s \in Slides : row'[<<pub[v].brief, s>>].tapped
               /\ \A s \in Slides \ pub[v].slides : row'[<<pub[v].brief, s>>].status = "published"
    <3>1. pub[v].pc # "idle"
      BY <2>2, <2>3
    <3>2. pub[v].brief \in Briefs
      BY <3>1, CallAt
    <3>3. pub[v].brief # 0
      BY <3>1 DEF Inv, CallsTapped
    <3> QED
      BY <3>1, <3>2, <3>3, CallAt, Stays
  <2> QED
    BY <2>1, <2>2, <2>3
<1>6. b \in Briefs
  BY <1>1, CallAt
<1>7. ASSUME NEW d \in Briefs
      PROVE  posts'[d] + Cardinality(Posting(d)') <= excess'[d] + Spent(d)'
  <2>1. Posting(d)' = IF call.brief = d /\ call.pc \in {"facts", "post"}
                      THEN Posting(d) \union {w} ELSE Posting(d) \ {w}
    BY <1>1, CallMoves
  <2>2. w \in Posting(d) <=> d = b /\ MayPost(pub[w])
    BY DEF Posting, MayPost
  <2>3. Posting(d) \in SUBSET Workers
    BY DEF Posting
  <2>4. AllOut(d) => AllOut(d)'
    BY Stays DEF AllOut
  <2>5. /\ Spent(d) \in {0, 1} /\ Spent(d)' \in {0, 1} /\ Cardinality(Posting(d)) \in Nat
        /\ Cardinality(Posting(d) \union {w}) = (IF w \in Posting(d) THEN Cardinality(Posting(d)) ELSE Cardinality(Posting(d)) + 1)
        /\ Cardinality(Posting(d) \ {w}) = (IF w \in Posting(d) THEN Cardinality(Posting(d)) - 1 ELSE Cardinality(Posting(d)))
    BY <2>3, Countable DEF Spent
  <2>6. CASE d # b
    <3>1. call.brief # d
      BY <1>6, <2>6, RevisionsConstants DEF CallStep, Briefs
    <3>2. Calling(d) => Calling(d)'
      BY <1>2, <2>6 DEF Calling
    <3>3. Spent(d) = 1 => Spent(d)' = 1
      BY <2>4, <3>2 DEF Spent
    <3>4. Cardinality(Posting(d)') = Cardinality(Posting(d))
      BY <2>1, <2>2, <2>5, <2>6, <3>1
    <3>5. posts'[d] = posts[d] /\ excess'[d] = excess[d]
      BY <2>6 DEF CallStep
    <3> QED
      BY <1>3, <2>5, <3>3, <3>4, <3>5
  <2>7. CASE d = b
    <3>1. Cardinality(Posting(b)') + One(MayPost(pub[w])) = Cardinality(Posting(b)) + One(MayPost(call))
      <4>1. call.brief = b \/ ~MayPost(call)
        BY DEF CallStep, MayPost
      <4>2. Posting(b)' = IF MayPost(call) THEN Posting(b) \union {w} ELSE Posting(b) \ {w}
        BY <2>1, <2>7, <4>1 DEF MayPost
      <4> QED
        BY <2>2, <2>5, <2>7, <4>2 DEF One
    <3>2. call.pc # "idle" \/ OutNext(b) => Spent(b)' = 1
      BY <1>2 DEF CallStep, Spent, Calling, OutNext, AllOut
    <3>3. 1 <= Spent(b)' + One(call.pc = "idle" /\ ~OutNext(b))
      BY <2>5, <2>7, <3>2 DEF One
    <3>4. posts'[b] + One(MayPost(call)) + One(call.pc = "idle" /\ ~OutNext(b)) + excess[b]
            <= posts[b] + excess'[b] + One(MayPost(pub[w]))
      BY DEF CallStep
    <3>5. /\ One(MayPost(call)) \in {0, 1} /\ One(MayPost(pub[w])) \in {0, 1}
          /\ One(call.pc = "idle" /\ ~OutNext(b)) \in {0, 1}
      BY DEF One
    <3>6. Cardinality(Posting(b)') \in Nat
      <4>1. Posting(b)' \in SUBSET Workers
        BY DEF Posting
      <4> QED
        BY <4>1, Countable
    <3> QED
      BY <1>3, <1>6, <2>5, <2>7, <3>1, <3>3, <3>4, <3>5, <3>6
  <2> QED
    BY <2>6, <2>7
<1>8. Counted'
  BY <1>7 DEF Counted
<1> QED
  BY <1>4, <1>5, <1>8 DEF Inv

CallTo(c, p) == [c EXCEPT !.pc = p]

LEMMA CallToOk ==
  ASSUME NEW c \in Call, NEW p \in PubPC
  PROVE  /\ CallTo(c, p) \in Call /\ CallTo(c, p).pc = p /\ CallTo(c, p).brief = c.brief
         /\ CallTo(c, p).slides = c.slides
  BY DEF Call, CallTo

LEMMA NoCallOk == NoCall \in Call /\ NoCall.pc = "idle" /\ NoCall.brief = 0
  BY RevisionsConstants DEF NoCall, Call, PubPC

\* The calls that move on or end with nothing more posted than they might have.
LEMMA QuietCallOk ==
  ASSUME Inv, RevInv', OutcomeStep, NEW w \in Workers, pub[w].pc # "idle",
         \/ SetCall(w, NoCall) /\ UNCHANGED <<posts, excess>>
            /\ (MayPost(pub[w]) \/ OutNext(pub[w].brief))
         \/ SetCall(w, NoCall) /\ posts' = posts /\ excess' = [excess EXCEPT ![pub[w].brief] = @ + 1]
         \/ SetCall(w, CallTo(pub[w], "post")) /\ UNCHANGED <<posts, excess>> /\ MayPost(pub[w])
         \/ SetCall(w, CallTo(pub[w], "record")) /\ UNCHANGED <<posts, excess>>
         \/ SetCall(w, CallTo(pub[w], "link")) /\ excess' = excess /\ MayPost(pub[w])
            /\ posts' = [posts EXCEPT ![pub[w].brief] = @ + 1]
  PROVE  Inv'
<1>1. PICK b \in Briefs : b = pub[w].brief
  BY CallAt
<1>2. pub[w] \in Call /\ {"post", "record", "link"} \subseteq PubPC
  BY CallAt DEF PubPC
<1>3. /\ posts \in [Briefs -> Nat] /\ excess \in [Briefs -> Nat]
      /\ posts[b] \in Nat /\ excess[b] \in Nat
  BY DEF Inv, CallTypes
<1>4. \A p : One(p) \in {0, 1} /\ (p => One(p) = 1) /\ (~p => One(p) = 0)
  BY DEF One
<1>5. PICK call \in Call :
        /\ SetCall(w, call)
        /\ call.pc = "idle" => call.brief = 0
        /\ call.pc # "idle" => call.brief = b /\ call.slides = pub[w].slides
        /\ posts' \in [Briefs -> Nat] /\ excess' \in [Briefs -> Nat]
        /\ \A d \in Briefs : d # b => posts'[d] = posts[d] /\ excess'[d] = excess[d]
        /\ posts'[b] + One(MayPost(call)) + One(call.pc = "idle" /\ ~OutNext(b)) + excess[b]
             <= posts[b] + excess'[b] + One(MayPost(pub[w]))
  <2>1. CASE SetCall(w, NoCall) /\ UNCHANGED <<posts, excess>> /\ (MayPost(pub[w]) \/ OutNext(pub[w].brief))
    <3>1. One(MayPost(NoCall)) = 0 /\ One(NoCall.pc = "idle" /\ ~OutNext(b)) <= One(MayPost(pub[w]))
      BY <1>1, <2>1, NoCallOk DEF MayPost, One
    <3>2. /\ One(MayPost(NoCall)) \in {0, 1} /\ One(MayPost(pub[w])) \in {0, 1}
          /\ One(NoCall.pc = "idle" /\ ~OutNext(b)) \in {0, 1}
      BY DEF One
    <3> QED
      BY <1>3, <2>1, <3>1, <3>2, NoCallOk
  <2>2. CASE SetCall(w, NoCall) /\ posts' = posts /\ excess' = [excess EXCEPT ![pub[w].brief] = @ + 1]
    <3>1. /\ excess' \in [Briefs -> Nat] /\ excess'[b] = excess[b] + 1
          /\ \A d \in Briefs : d # b => excess'[d] = excess[d]
      BY <1>1, <1>3, <2>2
    <3>2. /\ One(MayPost(NoCall)) = 0 /\ One(MayPost(pub[w])) \in {0, 1}
          /\ One(NoCall.pc = "idle" /\ ~OutNext(b)) \in {0, 1}
      BY NoCallOk DEF One, MayPost
    <3> QED
      BY <1>3, <2>2, <3>1, <3>2, NoCallOk
  <2>3. CASE SetCall(w, CallTo(pub[w], "post")) /\ UNCHANGED <<posts, excess>> /\ MayPost(pub[w])
    <3> DEFINE call == CallTo(pub[w], "post")
    <3>1. call \in Call /\ call.pc = "post" /\ call.brief = b /\ call.slides = pub[w].slides
      BY <1>1, <1>2, CallToOk
    <3>2. One(MayPost(call)) = 1 /\ One(MayPost(pub[w])) = 1 /\ One(call.pc = "idle" /\ ~OutNext(b)) = 0
      BY <2>3, <3>1 DEF One, MayPost
    <3>5. SetCall(w, call)
      BY <2>3
    <3> HIDE DEF call
    <3>6. posts' = posts /\ excess' = excess
      BY <2>3
    <3> QED
      BY <1>3, <3>1, <3>2, <3>5, <3>6
  <2>4. CASE SetCall(w, CallTo(pub[w], "record")) /\ UNCHANGED <<posts, excess>>
    <3> DEFINE call == CallTo(pub[w], "record")
    <3>1. call \in Call /\ call.pc = "record" /\ call.brief = b /\ call.slides = pub[w].slides
      BY <1>1, <1>2, CallToOk
    <3>2. One(MayPost(call)) = 0 /\ One(MayPost(pub[w])) \in {0, 1} /\ One(call.pc = "idle" /\ ~OutNext(b)) = 0
      BY <3>1 DEF One, MayPost
    <3>5. SetCall(w, call)
      BY <2>4
    <3> HIDE DEF call
    <3> QED
      BY <1>3, <2>4, <3>1, <3>2, <3>5
  <2>5. CASE SetCall(w, CallTo(pub[w], "link")) /\ excess' = excess /\ MayPost(pub[w])
             /\ posts' = [posts EXCEPT ![pub[w].brief] = @ + 1]
    <3> DEFINE call == CallTo(pub[w], "link")
    <3>1. call \in Call /\ call.pc = "link" /\ call.brief = b /\ call.slides = pub[w].slides
      BY <1>1, <1>2, CallToOk
    <3>2. One(MayPost(call)) = 0 /\ One(MayPost(pub[w])) = 1 /\ One(call.pc = "idle" /\ ~OutNext(b)) = 0
      BY <2>5, <3>1 DEF One, MayPost
    <3>3. /\ posts' \in [Briefs -> Nat] /\ posts'[b] = posts[b] + 1
          /\ \A d \in Briefs : d # b => posts'[d] = posts[d]
      BY <1>1, <1>3, <2>5
    <3>5. SetCall(w, call)
      BY <2>5
    <3> HIDE DEF call
    <3>6. excess' = excess
      BY <2>5
    <3>7. \A d \in Briefs : d # b => posts'[d] = posts[d] /\ excess'[d] = excess[d]
      BY <3>3, <3>6
    <3>8. posts'[b] + One(MayPost(call)) + One(call.pc = "idle" /\ ~OutNext(b)) + excess[b]
            <= posts[b] + excess'[b] + One(MayPost(pub[w]))
      BY <1>3, <3>2, <3>3, <3>6
    <3> QED
      BY <1>3, <3>1, <3>3, <3>5, <3>6, <3>7, <3>8
  <2> QED
    BY <2>1, <2>2, <2>3, <2>4, <2>5
<1>6. CallStep(w, call)
  BY <1>1, <1>5 DEF CallStep
<1> QED
  BY <1>6, CallStepOk

LEMMA PublishesOk ==
  ASSUME Inv, NEW w \in Workers,
         Facts(w) \/ ContainerFails(w) \/ Post(w) \/ Permalink(w) \/ NoPermalink(w) \/ PubCrash(w)
  PROVE  Inv' /\ OutcomeStep
<1>1. /\ UNCHANGED <<day, briefs, brief, row, bucket, storedOn, photoPic, shown, offered, wk>>
      /\ faults' \in 0..MAX_FAULTS /\ pub[w].pc # "idle" /\ RevInv
  <2>1. faults \in 0..MAX_FAULTS
    BY DEF Inv, RevInv, TypeOK
  <2>2. MAX_FAULTS \in Nat
    BY RevisionsConstants
  <2>3. CASE Facts(w) \/ ContainerFails(w) \/ Post(w) \/ Permalink(w)
    BY <2>1, <2>3 DEF Facts, ContainerFails, Post, Permalink, revVars, Inv
  <2>4. CASE NoPermalink(w)
    BY <2>1, <2>2, <2>4 DEF NoPermalink, Inv
  <2>5. CASE PubCrash(w)
    BY <2>1, <2>2, <2>5 DEF PubCrash, Inv
  <2> QED
    BY <2>3, <2>4, <2>5
<1>2. RevInv' /\ OutcomeStep
  BY <1>1, FaultOk
<1>3. CASE Facts(w)
  BY <1>1, <1>2, <1>3, QuietCallOk DEF Facts, MayPost, CallTo
<1>4. CASE ContainerFails(w)
  BY <1>1, <1>2, <1>4, QuietCallOk DEF ContainerFails, MayPost
<1>5. CASE Post(w)
  BY <1>1, <1>2, <1>5, QuietCallOk DEF Post, MayPost, CallTo
<1>6. CASE Permalink(w)
  BY <1>1, <1>2, <1>6, QuietCallOk DEF Permalink, CallTo
<1>7. CASE NoPermalink(w)
  BY <1>1, <1>2, <1>7, QuietCallOk DEF NoPermalink
<1>8. CASE PubCrash(w)
  <2>1. pub[w].pc \in PubPC
    BY <1>1, CallAt DEF Call
  <2>2. CASE pub[w].pc \in {"link", "record"}
    BY <1>1, <1>2, <1>8, <2>2, QuietCallOk DEF PubCrash
  <2>3. CASE pub[w].pc \notin {"link", "record"}
    <3>1. MayPost(pub[w])
      BY <1>1, <2>1, <2>3 DEF PubPC, MayPost
    <3> QED
      BY <1>1, <1>2, <1>8, <2>3, <3>1, QuietCallOk DEF PubCrash
  <2> QED
    BY <2>2, <2>3
<1> QED
  BY <1>2, <1>3, <1>4, <1>5, <1>6, <1>7, <1>8

LEMMA PublishedRow ==
  ASSUME NEW r \in Row, NEW promoted \in BOOLEAN
  PROVE  /\ Published(r, promoted) \in Row /\ Published(r, promoted).status = "published"
         /\ Published(r, promoted).tapped = r.tapped /\ Published(r, promoted).bg = r.bg
         /\ Published(r, promoted).lane = r.lane /\ Published(r, promoted).expires = r.expires
         /\ Published(r, promoted).card = IF promoted THEN "kept" ELSE r.card
  BY DEF Published, Row

LEMMA RecordOk ==
  ASSUME Inv, NEW w \in Workers, Record(w)
  PROVE  Inv' /\ OutcomeStep
<1> DEFINE mine == {pub[w].brief} \X pub[w].slides
<1>1. /\ pub[w].pc = "record" /\ SetCall(w, NoCall) /\ UNCHANGED <<posts, excess>>
      /\ UNCHANGED <<day, briefs, brief, storedOn, photoPic, shown, offered, wk, faults>>
  BY DEF Record
<1>2. PICK promoted \in SUBSET mine :
        /\ bucket' = bucket \union {<<"post", c>> : c \in promoted}
        /\ row' = [c \in Creatives |-> IF c \in mine THEN Published(row[c], c \in promoted) ELSE row[c]]
  BY DEF Record
<1>3. mine \subseteq Creatives
  BY <1>1, CallAt DEF Creatives
<1>4. \A c \in mine : row[c].tapped /\ c \in Creatives /\ c[1] = pub[w].brief
  BY <1>1, CallAt, <1>3
<1>5. \A s \in Slides : s \in pub[w].slides <=> <<pub[w].brief, s>> \in mine
  OBVIOUS
<1> HIDE DEF mine
<1>6. ASSUME NEW c \in Creatives
      PROVE  /\ row'[c] \in Row
             /\ row'[c].bg = row[c].bg /\ row'[c].lane = row[c].lane /\ row'[c].expires = row[c].expires
             /\ row'[c].card = row[c].card \/ (row'[c].card = "kept" /\ <<"post", c>> \in bucket')
             /\ \/ row'[c] = row[c]
                \/ row[c].status \in {"ready", "approved"} /\ row'[c].tapped /\ c[1] \in offered
                   /\ row'[c].status \in {"approved", "published"}
                \/ row[c].status = "published" /\ row'[c].status = "published" /\ row'[c].tapped
             /\ c \in mine => row'[c].status = "published"
  <2>1. row[c] \in Row
    BY Types DEF Inv
  <2>2. CASE c \in mine
    <3> PICK kept \in BOOLEAN : kept <=> c \in promoted
      OBVIOUS
    <3>1. row'[c] = Published(row[c], kept)
      <4>1. row'[c] = Published(row[c], c \in promoted)
        BY <1>2, <2>2
      <4>2. CASE kept
        BY <4>1, <4>2 DEF Published
      <4>3. CASE ~kept
        BY <4>1, <4>3 DEF Published
      <4> QED
        BY <4>2, <4>3
    <3>2. row[c].tapped /\ row[c].status \in {"approved", "published"} /\ c[1] \in offered
      BY <1>4, <2>2 DEF Inv, RevInv, RowInv, TapsKept
    <3>3. /\ row'[c] \in Row /\ row'[c].status = "published" /\ row'[c].tapped = row[c].tapped
          /\ row'[c].bg = row[c].bg /\ row'[c].lane = row[c].lane /\ row'[c].expires = row[c].expires
          /\ row'[c].card = IF kept THEN "kept" ELSE row[c].card
      BY <2>1, <3>1, PublishedRow
    <3>4. kept => <<"post", c>> \in bucket'
      BY <1>2
    <3>5. row'[c].tapped
      BY <3>2, <3>3
    <3> QED
      BY <3>2, <3>3, <3>4, <3>5
  <2>3. CASE c \notin mine
    BY <1>2, <2>1, <2>3
  <2> QED
    BY <2>2, <2>3
<1>7. row' \in [Creatives -> Row] /\ bucket \subseteq bucket'
  BY <1>2, <1>6
<1>8. bucket' \subseteq Objects
  BY <1>2, <1>3 DEF Objects, Inv, RevInv, TypeOK
<1>9. MovesOn
  <2>1. brief' \in [Briefs -> Brief] /\ faults' \in 0..MAX_FAULTS
    BY <1>1 DEF Inv, RevInv, TypeOK
  <2> QED
    BY <1>1, <1>6, <1>7, <1>8, <2>1 DEF MovesOn
<1>10. RevInv' /\ OutcomeStep
  BY <1>9, MovesOnOk DEF Inv
<1>11. OutNext(pub[w].brief)
  <2> SUFFICES ASSUME NEW s \in Slides
               PROVE  row'[<<pub[w].brief, s>>].status = "published"
    BY DEF OutNext
  <2>1. CASE s \in pub[w].slides
    BY <1>3, <1>5, <1>6, <2>1
  <2>2. CASE s \notin pub[w].slides
    BY <1>1, <1>10, <2>2, CallAt, Stays
  <2> QED
    BY <2>1, <2>2
<1> QED
  BY <1>1, <1>10, <1>11, QuietCallOk

\* A version whose rows are asked for by the gate has been tapped whole: a tap is on a
\* version that was offered, and no slide of such a version is being made or has failed.
LEMMA GatedWhole ==
  ASSUME RevInv, NEW b \in Briefs, NEW slides \in SUBSET Slides, Gated(b, slides)
  PROVE  /\ \A s \in Slides : row[<<b, s>>].tapped
         /\ \A s \in Slides \ slides : row[<<b, s>>].status = "published"
         /\ ~AllOut(b)
<1>1. PICK u \in slides : TRUE
  BY DEF Gated
<1>2. \A s \in Slides : <<b, s>> \in Creatives /\ <<b, s>>[1] = b
  BY Domain
<1>3. row[<<b, u>>].tapped /\ row[<<b, u>>].status \in {"ready", "approved"}
  BY <1>1 DEF Gated
<1>4. b \in offered
  BY <1>1, <1>2, <1>3 DEF RevInv, RowInv, TapsKept
<1>5. \A s \in Slides : row[<<b, s>>].status \in {"ready", "approved", "published"}
  BY <1>2, <1>4 DEF RevInv, RowInv, TapsKept
<1>6. \A s \in Slides \ slides : row[<<b, s>>].status = "published"
  BY <1>5 DEF Gated
<1>7. \A s \in Slides : row[<<b, s>>].tapped
  BY <1>2, <1>6 DEF Gated, RevInv, RowInv, TapsKept
<1>8. ~AllOut(b)
  BY <1>1, <1>3 DEF AllOut
<1> QED
  BY <1>6, <1>7, <1>8

LEMMA GateOk ==
  ASSUME Inv, NEW w \in Workers, NEW b \in Briefs, Gate(w, b)
  PROVE  Inv' /\ OutcomeStep
<1>1. PICK slides \in SUBSET Slides :
        Gated(b, slides) /\ SetCall(w, [pc |-> "facts", brief |-> b, slides |-> slides])
  BY DEF Gate
<1> DEFINE call == [pc |-> "facts", brief |-> b, slides |-> slides]
<1>2. /\ call \in Call /\ call.pc = "facts" /\ call.brief = b /\ call.slides = slides /\ b # 0
  BY RevisionsConstants DEF Call, PubPC, Briefs
<1>3. SetCall(w, call)
  BY <1>1
<1>4. /\ pub[w].pc = "idle" /\ UNCHANGED <<revVars, posts>> /\ RevInv
      /\ excess' = [excess EXCEPT ![b] = IF Calling(b) THEN @ + 1 ELSE @]
      /\ pub \in [Workers -> Call] /\ posts \in [Briefs -> Nat] /\ excess \in [Briefs -> Nat]
  BY DEF Gate, Inv, CallTypes
<1>5. RevInv' /\ OutcomeStep
  <2>1. faults' \in 0..MAX_FAULTS
    BY <1>4 DEF revVars, RevInv, TypeOK
  <2> QED
    BY <1>4, <2>1, FaultOk DEF revVars
<1> HIDE DEF call
<1>6. /\ pub' \in [Workers -> Call] /\ pub'[w] = call
      /\ \A v \in Workers \ {w} : pub'[v] = pub[v]
  BY <1>2, <1>3, <1>4, CallMoves
<1>7. CallsTapped'
  <2>1. /\ \A s \in Slides : row[<<b, s>>].tapped
        /\ \A s \in Slides \ slides : row[<<b, s>>].status = "published"
    BY <1>1, <1>4, GatedWhole
  <2> QED
    BY <1>2, <1>4, <1>6, <2>1 DEF CallsTapped, Inv, revVars
<1>8. CallTypes' /\ excess' \in [Briefs -> Nat]
  BY <1>4, <1>6 DEF CallTypes
<1>9. ASSUME NEW d \in Briefs
      PROVE  posts'[d] + Cardinality(Posting(d)') <= excess'[d] + Spent(d)'
  <2>1. Posting(d)' = IF call.brief = d /\ call.pc \in {"facts", "post"}
                      THEN Posting(d) \union {w} ELSE Posting(d) \ {w}
    BY <1>2, <1>3, <1>4, CallMoves
  <2>2. w \notin Posting(d) /\ Posting(d) \in SUBSET Workers
    BY <1>4 DEF Posting
  <2>3. /\ Cardinality(Posting(d)) \in Nat /\ Cardinality(Posting(d) \union {w}) = Cardinality(Posting(d)) + 1
        /\ Cardinality(Posting(d) \ {w}) = Cardinality(Posting(d))
    BY <2>2, Countable
  <2>4. /\ posts[d] \in Nat /\ excess[d] \in Nat /\ posts'[d] = posts[d]
        /\ posts[d] + Cardinality(Posting(d)) <= excess[d] + Spent(d)
    BY <1>4 DEF Inv, Counted
  <2>5. Spent(d) \in {0, 1} /\ Spent(d)' \in {0, 1}
    BY DEF Spent
  <2>6. CASE d # b
    <3>1. excess'[d] = excess[d] /\ Cardinality(Posting(d)') = Cardinality(Posting(d))
      BY <1>2, <1>4, <2>1, <2>3, <2>6
    <3>2. Calling(d) => Calling(d)'
      <4>1. pub[w].brief # d
        BY <1>4, RevisionsConstants DEF Inv, CallsTapped, Briefs
      <4> QED
        BY <1>6, <4>1 DEF Calling
    <3>3. AllOut(d)' <=> AllOut(d)
      BY <1>4 DEF AllOut, revVars
    <3>4. Spent(d) = 1 => Spent(d)' = 1
      BY <3>2, <3>3 DEF Spent
    <3> QED
      BY <2>3, <2>4, <2>5, <3>1, <3>4
  <2>7. CASE d = b
    <3>1. Cardinality(Posting(d)') = Cardinality(Posting(d)) + 1
      BY <1>2, <2>1, <2>3, <2>7
    <3>2. Spent(d)' = 1
      BY <1>2, <1>6, <2>7 DEF Spent, Calling
    <3>3. Spent(d) = IF Calling(b) THEN 1 ELSE 0
      BY <1>1, <1>4, <2>7, GatedWhole DEF Spent
    <3>4. excess'[d] = IF Calling(b) THEN excess[d] + 1 ELSE excess[d]
      BY <1>4, <2>7
    <3> QED
      BY <2>3, <2>4, <2>5, <3>1, <3>2, <3>3, <3>4
  <2> QED
    BY <2>6, <2>7
<1>10. Counted'
  BY <1>9 DEF Counted
<1> QED
  BY <1>5, <1>7, <1>8, <1>10 DEF Inv

LEMMA InitOk == PubInit => Inv
<1> SUFFICES ASSUME PubInit
             PROVE  Inv
  OBVIOUS
<1>1. RevInv
  BY RevInit DEF PubInit
<1>2. /\ pub = [w \in Workers |-> NoCall] /\ posts = [b \in Briefs |-> 0] /\ excess = [b \in Briefs |-> 0]
  BY DEF PubInit
<1>3. CallTypes /\ CallsTapped
  BY <1>2, NoCallOk DEF CallTypes, CallsTapped
<1>4. Counted
  <2> SUFFICES ASSUME NEW b \in Briefs
               PROVE  posts[b] + Cardinality(Posting(b)) <= excess[b] + Spent(b)
    BY DEF Counted
  <2>1. Posting(b) = {}
    BY <1>2, NoCallOk DEF Posting
  <2>2. Cardinality(Posting(b)) = 0
    BY <2>1, FS_EmptySet
  <2>3. Spent(b) \in {0, 1}
    BY DEF Spent
  <2> QED
    BY <1>2, <2>2, <2>3
<1> QED
  BY <1>1, <1>3, <1>4 DEF Inv

LEMMA StepOk == Inv /\ [PubNext]_vars => Inv' /\ (OutcomeStep \/ UNCHANGED revVars)
<1> SUFFICES ASSUME Inv, [PubNext]_vars
             PROVE  Inv' /\ (OutcomeStep \/ UNCHANGED revVars)
  OBVIOUS
<1>1. CASE UNCHANGED vars
  BY <1>1 DEF vars, revVars, pubVars, Inv, RevInv, TypeOK, RowInv, UnsavedIsEmpty, TapsKept, KeysSaved,
     LivesAsLong, PostPictureKept, Stored, Expired, Numbered, MakersApart, Making, CallTypes, CallsTapped,
     Counted, Posting, Spent, AllOut, Calling
<1>2. CASE (Around \/ DayPasses) /\ UNCHANGED pubVars
  <2>1. RevInv' /\ OutcomeStep /\ UNCHANGED <<pub, posts, excess>>
    BY <1>2, AroundOk DEF Inv, pubVars
  <2> QED
    BY <2>1, CallsAlone
<1>3. ASSUME NEW w \in Workers, Works(w) \/ Crash(w), UNCHANGED pubVars
      PROVE  Inv' /\ OutcomeStep
  <2>1. RevInv' /\ OutcomeStep /\ UNCHANGED <<pub, posts, excess>>
    BY <1>3, WorksOk DEF Inv, pubVars
  <2> QED
    BY <2>1, CallsAlone
<1>4. ASSUME NEW w \in Workers, Publishes(w) \/ NoPermalink(w) \/ PubCrash(w)
      PROVE  Inv' /\ OutcomeStep
  BY <1>4, PublishesOk, RecordOk DEF Publishes
<1>5. ASSUME NEW w \in Workers, NEW b \in Briefs, Gate(w, b)
      PROVE  Inv' /\ OutcomeStep
  BY <1>5, GateOk
<1>6. CASE Connect
  <2>1. UNCHANGED <<day, briefs, brief, row, bucket, storedOn, photoPic, shown, offered, wk, faults>>
    BY <1>6 DEF Connect, revVars
  <2>2. faults' \in 0..MAX_FAULTS /\ RevInv
    BY <2>1 DEF Inv, RevInv, TypeOK
  <2>3. RevInv' /\ OutcomeStep
    BY <2>1, <2>2, FaultOk
  <2> QED
    BY <1>6, <2>3, CallsAlone DEF Connect
<1> QED
  BY <1>1, <1>2, <1>3, <1>4, <1>5, <1>6 DEF PubNext

LEMMA Reached == PubSpec => []Inv
  BY InitOk, StepOk, PTL DEF PubSpec

-----------------------------------------------------------------------------
\* What goes live is the whole version the owner tapped on, for any number of instances
\* that make, revise, reap and publish at once: the gate asks only about the rows that are
\* ready, and the invariant is why the others are no danger (agent/tools.py:
\* _publish_to_instagram).
THEOREM OnlyTappedGoesLive == PubSpec => PostsWhatWasTapped
<1> DEFINE A == \A b \in Briefs : posts'[b] # posts[b] =>
                  \A r \in Rows(b) : r.tapped /\ r.status \in {"approved", "published"}
<1>1. Inv /\ [PubNext]_vars => [A]_vars
  <2> SUFFICES ASSUME Inv, PubNext, NEW b \in Briefs, posts'[b] # posts[b], NEW s \in Slides
               PROVE  row[<<b, s>>].tapped /\ row[<<b, s>>].status \in {"approved", "published"}
    BY DEF Rows
  <2>1. PICK w \in Workers : Post(w)
    BY DEF PubNext, pubVars, Publishes, Facts, ContainerFails, Permalink, Record, NoPermalink,
       PubCrash, Gate, Connect
  <2>2. pub[w].brief = b /\ pub[w].pc # "idle"
    BY <2>1 DEF Post, Inv, CallTypes
  <2>3. row[<<b, s>>].tapped /\ <<b, s>> \in Creatives
    BY <2>2, CallAt
  <2> QED
    BY <2>3 DEF Inv, RevInv, RowInv, TapsKept
<1> QED
  BY <1>1, Reached, PTL DEF PubSpec, PostsWhatWasTapped

\* A version goes live once, and once more for each call that ended after its post without
\* the record or began beside another one: nothing else makes a second post, however often
\* the job is run again (agent/tools.py: _publish_to_instagram; queue/handlers.py:
\* publish_scheduled).
THEOREM NoPostTooMany == PubSpec => []PostedOnce
<1>1. Inv => PostedOnce
  <2> SUFFICES ASSUME Inv, NEW b \in Briefs
               PROVE  posts[b] <= 1 + excess[b]
    BY DEF PostedOnce
  <2>1. Posting(b) \in SUBSET Workers
    BY DEF Posting
  <2>2. Cardinality(Posting(b)) \in Nat /\ posts[b] \in Nat /\ excess[b] \in Nat /\ Spent(b) \in {0, 1}
    BY <2>1, Countable DEF Inv, CallTypes, Spent
  <2>3. posts[b] + Cardinality(Posting(b)) <= excess[b] + Spent(b)
    BY DEF Inv, Counted
  <2> QED
    BY <2>2, <2>3
<1> QED
  BY <1>1, Reached, PTL

\* A slide that has come to an end keeps the picture, the lane, the failure and the tap it
\* ended with, whatever turns, reapers and publications run beside each other
\* (creative/pipeline.py: recompose, _contain_revision, reap_stuck_creatives).
THEOREM EndedSlidesStay == PubSpec => OutcomesKept
<1> DEFINE A == \A c \in Creatives : row[c].status \notin {"none", "making"} =>
                  /\ row'[c].bg = row[c].bg /\ row'[c].lane = row[c].lane
                  /\ row[c].status = "failed" <=> row'[c].status = "failed"
                  /\ row[c].tapped => row'[c].tapped
<1>1. Inv /\ [PubNext]_vars => [A]_revVars
  BY StepOk DEF OutcomeStep
<1> QED
  BY <1>1, Reached, PTL DEF PubSpec, OutcomesKept

\* A row that says its card was kept has it outside drafts/, and a version's own pictures are
\* in the bucket until its expires_at, whatever the lifecycle rule deletes
\* (integrations/storage/r2.py: promote; creative/pipeline.py: DRAFT_TTL_DAYS).
THEOREM PicturesStay == PubSpec => []PicturesKept
<1>1. Inv => PicturesKept
  <2> SUFFICES ASSUME Inv, NEW b \in Briefs, NEW s \in Slides,
                      row[<<b, s>>].bg = <<b, s>>, ~Expired(row[<<b, s>>])
               PROVE  Stored(<<b, s>>)
    BY DEF PicturesKept, ExpiryTellsTheTruth, Inv, RevInv, RowInv
  <2>1. <<b, s>> \in Creatives
    BY Domain
  <2> QED
    BY <2>1 DEF Inv, RevInv, RowInv, LivesAsLong
<1> QED
  BY <1>1, Reached, PTL

\* Every variable of the versions has its type in every reachable state.
THEOREM RevisionsTyped == PubSpec => []TypeOK
<1>1. Inv => TypeOK
  BY DEF Inv, RevInv
<1> QED
  BY <1>1, Reached, PTL
=============================================================================
