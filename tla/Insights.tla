------------------------------- MODULE Insights -------------------------------
(***************************************************************************)
(* What is learned from the posts and from the owner's taps.  The readings *)
(* of an account's posts (insights/performance.py sync_brand, with the     *)
(* calls of integrations/instagram/insights.py) are a state machine: two   *)
(* syncs of one brand may overlap, and the numbers of a post are re-read   *)
(* the less often the older it is.  Scoring, the follow-up to the best     *)
(* post, the ranking of ideas (suggest.py) and the owner's taste           *)
(* (profile.py) are functions of what is recorded.  Time goes in days.     *)
(***************************************************************************)
EXTENDS Integers, Sequences, FiniteSets, SequencesExt

CONSTANTS Readers,           \* syncs at once: jobs of the instances
          IgPosts,
          MAX_MEDIA,         \* posts a sync lists, newest first
          WINDOW_DAYS, YOUNG_DAYS, YOUNG_EVERY, SETTLING_DAYS, SETTLING_EVERY, OLD_EVERY,
          MAX_CLOCK          \* bound: days

ASSUME InsightsConstants ==
  {MAX_MEDIA, WINDOW_DAYS, YOUNG_DAYS, YOUNG_EVERY, SETTLING_DAYS, SETTLING_EVERY, OLD_EVERY,
   MAX_CLOCK} \subseteq Nat

VARIABLES
  clock,
  postedAt,   \* post -> the day it went up, or NotPosted
  ours,       \* the posts whose Publication row carries their Instagram id
  metric,        \* post -> its PostMetric: when its numbers were read, synced_at, its facts
  reading     \* reader -> the sync it runs

insightsVars == <<clock, postedAt, ours, metric, reading>>

NotPosted == MAX_CLOCK + 1
NeverStamped == -1
NoRow == [read |-> NeverStamped, synced |-> NeverStamped, facts |-> FALSE]
NoSync == [at |-> "idle", start |-> 0, known |-> [p \in IgPosts |-> NeverStamped],
           media |-> {}, got |-> {}, day |-> 0]

InsightsInit ==
  /\ clock = 0
  /\ postedAt = [p \in IgPosts |-> NotPosted] /\ ours = {}
  /\ metric = [p \in IgPosts |-> NoRow]
  /\ reading = [s \in Readers |-> NoSync]

-----------------------------------------------------------------------------
\* A post appears on Instagram, made here or by the owner's own hand; the row that says it
\* is ours comes after it.
PostAppears(p) ==
  /\ postedAt[p] = NotPosted
  /\ postedAt' = [postedAt EXCEPT ![p] = clock]
  /\ UNCHANGED <<clock, ours, metric, reading>>

PostRecorded(p) ==
  /\ postedAt[p] <= clock /\ p \notin ours
  /\ ours' = ours \union {p}
  /\ UNCHANGED <<clock, postedAt, metric, reading>>

DayPasses ==
  /\ clock < MAX_CLOCK
  /\ clock' = clock + 1
  /\ UNCHANGED <<postedAt, ours, metric, reading>>

-----------------------------------------------------------------------------
\* list_media: the newest MAX_MEDIA of the window.
Listed(since) ==
  LET there == {p \in IgPosts : postedAt[p] <= clock /\ postedAt[p] >= since}
  IN {p \in there : Cardinality({q \in there : postedAt[q] > postedAt[p]}) < MAX_MEDIA}

Cadence(age) ==
  IF age <= YOUNG_DAYS THEN YOUNG_EVERY
  ELSE IF age <= SETTLING_DAYS THEN SETTLING_EVERY
  ELSE OLD_EVERY

ReadDue(p, synced, now) ==
  synced = NeverStamped \/ now - synced >= Cadence(now - postedAt[p])

\* `now` and what is known are taken together, before any call.
SyncBegins(s) ==
  /\ reading[s].at = "idle"
  /\ reading' = [reading EXCEPT ![s] =
       [NoSync EXCEPT !.at = "listing", !.start = clock,
                      !.known = [p \in IgPosts |-> metric[p].synced]]]
  /\ UNCHANGED <<clock, postedAt, ours, metric>>

\* The list, and the numbers of the posts that are due: one post that cannot be read does
\* not lose the rest.  A dead login or a list that fails ends the sync (Login).
SyncReads(s) ==
  /\ reading[s].at = "listing"
  /\ LET media == Listed(reading[s].start - WINDOW_DAYS)
         due == {p \in media : ReadDue(p, reading[s].known[p], reading[s].start)}
     IN \E got \in SUBSET due :
          reading' = [reading EXCEPT ![s].at = "read", ![s].media = media,
                                     ![s].got = got, ![s].day = clock]
  /\ UNCHANGED <<clock, postedAt, ours, metric>>

Stamp_WhenWritten(s) == clock

Stamp(s) == reading[s].start

\* One transaction: a row for every post listed, numbers and stamp for those read, and the
\* facts of the brief once the post is known for ours.
SyncWrites(s) ==
  /\ reading[s].at = "read"
  /\ metric' = [p \in IgPosts |->
       IF p \notin reading[s].media THEN metric[p]
       ELSE [metric[p] EXCEPT
               !.read = IF p \in reading[s].got THEN reading[s].day ELSE @,
               !.synced = IF p \in reading[s].got THEN Stamp(s) ELSE @,
               !.facts = @ \/ p \in ours]]
  /\ reading' = [reading EXCEPT ![s] = NoSync]
  /\ UNCHANGED <<clock, postedAt, ours>>

SyncEnds(s) ==
  /\ reading[s].at = "listing"
  /\ reading' = [reading EXCEPT ![s] = NoSync]
  /\ UNCHANGED <<clock, postedAt, ours, metric>>

InsightsNext ==
  \/ \E p \in IgPosts : PostAppears(p) \/ PostRecorded(p)
  \/ \E s \in Readers : SyncBegins(s) \/ SyncReads(s) \/ SyncWrites(s) \/ SyncEnds(s)
  \/ DayPasses

InsightsSpec == InsightsInit /\ [][InsightsNext]_insightsVars

-----------------------------------------------------------------------------
\* synced_at never claims numbers newer than they are, whatever overlaps: it is what _due
\* goes by, so a stamp that runs ahead would leave a young post unread, and a post whose
\* reading failed keeps its old one.  Facts are only those of a post known for ours.
StampsHonest ==
  \A p \in IgPosts :
    /\ metric[p].read >= metric[p].synced
    /\ metric[p].synced = NeverStamped <=> metric[p].read = NeverStamped
    /\ metric[p].facts => p \in ours

\* Refuted: of two overlapping syncs the one that read first may write last.
NumbersNeverGoBack == [][\A p \in IgPosts : metric'[p].read >= metric[p].read]_insightsVars

-----------------------------------------------------------------------------
\* The follow-up (sequel_for).  `top` is ranked by rate, best first; a candidate says
\* whether it reached enough accounts, is old enough to be judged, beat the median by
\* SEQUEL_LIFT, and had a sequel offered within the month.
Judged(c) == c.reached /\ c.settled

\* The first that qualifies; one that was judged and fell short ends the search.
ReachesIn_NotPastTheYoung(top, n) == \A m \in 1 .. n - 1 : Judged(top[m]) /\ top[m].lifted

ReachesIn(top, n) == \A m \in 1 .. n - 1 : Judged(top[m]) => top[m].lifted

Sequels(top) ==
  {n \in DOMAIN top : ReachesIn(top, n) /\ Judged(top[n]) /\ top[n].lifted /\ ~top[n].offered}

SequelFor(top) ==
  IF Sequels(top) = {} THEN 0 ELSE CHOOSE n \in Sequels(top) : \A m \in Sequels(top) : n <= m

\* "Ranked by rate: nothing below this one qualifies either": stopping there, and stepping
\* over the young and the offered, loses no post that deserves a follow-up.
SequelIsTheBest(top) ==
  (\A n \in 2 .. Len(top) : top[n].lifted => top[n - 1].lifted) =>
    LET deserving == {n \in DOMAIN top : Judged(top[n]) /\ top[n].lifted /\ ~top[n].offered}
    IN IF deserving = {} THEN SequelFor(top) = 0
       ELSE SequelFor(top) \in deserving /\ \A n \in deserving : SequelFor(top) <= n

-----------------------------------------------------------------------------
\* The day's ideas (suggest).  Each comes from a source of its own; `found` are those that
\* have one, and the how-to is always there.
Sources == <<"slot", "festival", "sequel", "photo", "howto", "hook">>
LIMIT == 3

\* _weekday_hook: what the day of the week asks for; Monday is 0.
WeekdayHook(weekday, dayOfMonth) ==
  IF weekday \in {4, 5} \/ dayOfMonth <= 5 THEN "promo"
  ELSE CASE weekday = 0 -> "behind_the_scenes"
         [] weekday = 6 -> "testimonial"
         [] OTHER -> "none"

IntentOf(source, planned, followed, hook) ==
  CASE source = "slot" -> planned
    [] source = "festival" -> "festive"
    [] source = "sequel" -> followed
    [] source = "photo" -> "new_product"
    [] source = "howto" -> "educational"
    [] source = "hook" -> hook

\* What the last two briefs were about is put behind the rest, unless a festival or a
\* success speaks for it.
Repeats_Strictly(source, intent, recent) == intent \in recent

Repeats(source, intent, recent) == intent \in recent /\ source \notin {"festival", "sequel"}

\* The order of the sort, which is stable: the plan, what is fresh, then by source.
IdeaRank(source, intent, recent) ==
  LET base == CHOOSE n \in DOMAIN Sources : Sources[n] = source
  IN IF source = "slot" THEN 0
     ELSE base + (IF Repeats(source, intent, recent) THEN Len(Sources) ELSE 0)

Suggest(found, recent, planned, followed, hook) ==
  LET all == found \union {"howto"} \union (IF hook = "none" THEN {} ELSE {"hook"})
      rank(i) == IdeaRank(i, IntentOf(i, planned, followed, hook), recent)
      before(i) == {j \in all : rank(j) < rank(i)}
      offered == {i \in all : Cardinality(before(i)) < LIMIT}
  IN [n \in 1 .. Cardinality(offered) |->
        CHOOSE i \in offered : Cardinality(before(i)) = n - 1]

\* "The month's plan comes first", "a festival is the strongest reason to post", then the
\* follow-up: the three best reasons are never cut by the limit, and a repeated intent is
\* offered before a fresh one only for one of them.
BestReasonsOffered(found, recent, planned, followed, hook) ==
  LET ideas == Suggest(found, recent, planned, followed, hook)
      intent(i) == IntentOf(i, planned, followed, hook)
  IN /\ "slot" \in found => ideas[1] = "slot"
     /\ found \intersect {"slot", "festival", "sequel"} \subseteq {ideas[n] : n \in DOMAIN ideas}
     /\ \A m, n \in DOMAIN ideas :
          m < n /\ intent(ideas[m]) \in recent /\ intent(ideas[n]) \notin recent
            => ideas[m] \in {"slot", "festival", "sequel"}

-----------------------------------------------------------------------------
\* The owner's taste (events.py, profile.py): a vote is a kind and the brief it is on,
\* newest first.
LIKES_PICTURE == {"approve", "publish", "change_words"}
DISLIKES_PICTURE == {"change_picture", "regenerate"}
DISLIKES_WORDS == {"change_words", "revise"}
VoteKinds == LIKES_PICTURE \union DISLIKES_PICTURE \union DISLIKES_WORDS

NoTaste == [seen_pic |-> {}, seen_words |-> {}, likes |-> 0, dislikes |-> 0, rewritten |-> 0]

\* One turn of the loop: the picture of a brief counts once, and so do its words.
PictureCounts_EachTap(t, vote) == TRUE

PictureCounts(t, vote) == vote.brief \notin t.seen_pic

Tally(t, vote) ==
  LET aboutPicture == vote.kind \in LIKES_PICTURE \union DISLIKES_PICTURE
      picture == aboutPicture /\ PictureCounts(t, vote)
      words == vote.kind \in DISLIKES_WORDS /\ vote.brief \notin t.seen_words
  IN [seen_pic |-> IF picture THEN t.seen_pic \union {vote.brief} ELSE t.seen_pic,
      seen_words |-> IF words THEN t.seen_words \union {vote.brief} ELSE t.seen_words,
      likes |-> t.likes + (IF picture /\ vote.kind \in LIKES_PICTURE THEN 1 ELSE 0),
      dislikes |-> t.dislikes + (IF picture /\ vote.kind \in DISLIKES_PICTURE THEN 1 ELSE 0),
      rewritten |-> t.rewritten + (IF words THEN 1 ELSE 0)]

TasteOf(votes) == FoldLeft(Tally, NoTaste, votes)

\* The newest vote of a brief among those of some kinds, or 0.
Newest(votes, brief, kinds) ==
  LET on == {n \in DOMAIN votes : votes[n].brief = brief /\ votes[n].kind \in kinds}
  IN IF on = {} THEN 0 ELSE CHOOSE n \in on : \A m \in on : n <= m

\* "One opinion per brief per axis, newest first: 'change the picture' and the regenerate
\* that follows it are the same dislike, not two" (taste), for the picture.
OneOpinionPerBrief(votes) ==
  LET briefs == {votes[n].brief : n \in DOMAIN votes}
      last(b) == Newest(votes, b, LIKES_PICTURE \union DISLIKES_PICTURE)
      ofKind(kinds) == {b \in briefs : last(b) # 0 /\ votes[last(b)].kind \in kinds}
  IN /\ TasteOf(votes).likes = Cardinality(ofKind(LIKES_PICTURE))
     /\ TasteOf(votes).dislikes = Cardinality(ofKind(DISLIKES_PICTURE))

\* The same for the words.  Refuted: a brief once rewritten counts as rewritten whatever
\* the owner thought of its words later, LIKES_WORDS being read by nobody.
LIKES_WORDS == {"approve", "publish", "change_picture"}
OneOpinionOnWords(votes) ==
  LET briefs == {votes[n].brief : n \in DOMAIN votes}
      last(b) == Newest(votes, b, LIKES_WORDS \union DISLIKES_WORDS)
  IN TasteOf(votes).rewritten
       = Cardinality({b \in briefs : last(b) # 0 /\ votes[last(b)].kind \in DISLIKES_WORDS})
=============================================================================
