------------------------------ MODULE MediaProofs ------------------------------
(***************************************************************************)
(* What the handlers of photos and notes keep, for any number of instances *)
(* and messages and however often jobs are lost or run twice.              *)
(***************************************************************************)
EXTENDS Media, FiniteSetTheorems, SequenceTheorems, TLAPS

Msgs == Messages \union {0}
Brand == [logo : Msgs, palette : {"none", "measured", "stated"}, noLogo : BOOLEAN]
Places == {"idle", "begun", "fetching", "making", "storing", "turn", "asking"}
Hand == [at : Places, msg : Msgs, logo : BOOLEAN, base : Brand, covers : SUBSET Int, taken : Brand]

Typed ==
  /\ brand \in Brand /\ sent \in Nat /\ floor \in Nat
  /\ hand \in [Instances -> Hand]
  /\ task \in [Messages -> {"none", "queued", "running", "done"}]
  /\ stored \in [Messages -> Nat] /\ paid \in [Messages -> Nat]
  /\ losses \in [Messages -> Nat] /\ twice \in [Messages -> Nat]

\* The instances that have a message, those that may still store it, those that may still
\* have it transcribed; and whether an instance may still take it.
Holding(k) == {i \in Instances : hand[i].msg = k}
Storing(k) == {i \in Instances : hand[i].msg = k /\ hand[i].at \in {"fetching", "making", "storing"}}
Paying(k) == {i \in Instances : hand[i].msg = k /\ hand[i].at \in {"begun", "fetching"}}
Waiting(k) == IF task[k] \in {"none", "queued"} THEN 1 ELSE 0

\* One instance more for each time the job was taken while it ran.  A photo that is stored
\* is asked for before it is fetched, so only those that had it then can store it again; a
\* note is paid for by those that took it, once more for each time it was lost.
MessageInv(k) ==
  /\ k > sent => task[k] = "none"
  /\ task[k] \in {"none", "queued"} => Holding(k) = {}
  /\ Cardinality(Holding(k)) <= 1 + twice[k]
  /\ stored[k] > 0 => stored[k] + Cardinality(Storing(k)) <= 1 + twice[k]
  /\ Kind(k) # "photo" => stored[k] = 0
  /\ paid[k] + Cardinality(Paying(k)) + Waiting(k) <= 1 + twice[k] + losses[k]

Inv ==
  /\ Typed
  /\ \A i \in Instances : hand[i].at = "idle" <=> hand[i].msg = 0
  /\ \A k \in Messages : MessageInv(k)
  /\ OwnColoursKept

LEMMA Numbered ==
  /\ Messages = 1 .. Len(MESSAGES) /\ Len(MESSAGES) \in Nat /\ 0 \notin Messages
  /\ IsFiniteSet(Instances)
<1>1. MESSAGES \in Seq([kind : {"photo", "note", "text"}, asks : {"nothing", "colour", "no logo"}])
  BY MediaConstants
<1>2. Len(MESSAGES) \in Nat /\ DOMAIN MESSAGES = 1 .. Len(MESSAGES)
  BY <1>1, LenProperties
<1>3. IsFiniteSet(Instances)
  BY MediaConstants
<1> QED
  BY <1>2, <1>3 DEF Messages

LEMMA Counted ==
  ASSUME NEW S \in SUBSET Instances, NEW i \in Instances
  PROVE  /\ IsFiniteSet(S) /\ Cardinality(S) \in Nat
         /\ Cardinality(S \union {i}) = (IF i \in S THEN Cardinality(S) ELSE Cardinality(S) + 1)
         /\ Cardinality(S \ {i}) = (IF i \in S THEN Cardinality(S) - 1 ELSE Cardinality(S))
<1>1. IsFiniteSet(S)
  BY Numbered, FS_Subset
<1> QED
  BY <1>1, FS_CardinalityType, FS_AddElement, FS_RemoveElement

LEMMA Changed ==
  ASSUME NEW S \in SUBSET Instances, NEW i \in Instances, NEW b \in BOOLEAN, NEW T,
         T = IF b THEN S \union {i} ELSE S \ {i}
  PROVE  /\ Cardinality(S) \in Nat /\ Cardinality(T) \in Nat
         /\ b /\ i \in S => Cardinality(T) = Cardinality(S)
         /\ b /\ i \notin S => Cardinality(T) = Cardinality(S) + 1
         /\ ~b /\ i \in S => Cardinality(T) = Cardinality(S) - 1
         /\ ~b /\ i \notin S => Cardinality(T) = Cardinality(S)
<1>1. CASE b
  <2>1. T = S \union {i} /\ T \in SUBSET Instances
    BY <1>1
  <2> QED
    BY <1>1, <2>1, Counted
<1>2. CASE ~b
  <2>1. T = S \ {i} /\ T \in SUBSET Instances
    BY <1>2
  <2>2. Cardinality(S) \in Nat /\ Cardinality(T) \in Nat
    BY <2>1, Counted
  <2>3. Cardinality(T) = IF i \in S THEN Cardinality(S) - 1 ELSE Cardinality(S)
    <3>1. Cardinality(S \ {i}) = IF i \in S THEN Cardinality(S) - 1 ELSE Cardinality(S)
      BY Counted
    <3> QED
      BY <2>1, <3>1
  <2> QED
    BY <1>2, <2>2, <2>3
<1> QED
  BY <1>1, <1>2

LEMMA Counts ==
  ASSUME NEW k
  PROVE  /\ Cardinality(Holding(k)) \in Nat /\ Cardinality(Storing(k)) \in Nat
         /\ Cardinality(Paying(k)) \in Nat
         /\ Cardinality(Storing(k)) <= Cardinality(Holding(k))
<1>1. /\ Holding(k) \in SUBSET Instances /\ Storing(k) \in SUBSET Holding(k)
      /\ Paying(k) \in SUBSET Instances
  BY DEF Holding, Storing, Paying
<1>2. IsFiniteSet(Holding(k)) /\ IsFiniteSet(Paying(k))
  BY <1>1, Numbered, FS_Subset
<1> QED
  BY <1>1, <1>2, FS_Subset, FS_CardinalityType

LEMMA BlankOk == Bare \in Brand /\ Empty \in Hand /\ Empty.at = "idle" /\ Empty.msg = 0
  BY DEF Bare, Empty, Brand, Hand, Places, Msgs

LEMMA InitOk == MediaInit => Inv
<1> SUFFICES ASSUME MediaInit
             PROVE  Inv
  OBVIOUS
<1>1. Typed
  BY BlankOk DEF MediaInit, Typed
<1>2. \A i \in Instances : hand[i].at = "idle" /\ hand[i].msg = 0
  BY BlankOk DEF MediaInit
<1>3. ASSUME NEW k \in Messages
      PROVE  MessageInv(k)
  <2>1. Holding(k) = {} /\ Storing(k) = {} /\ Paying(k) = {}
    BY <1>2, Numbered DEF Holding, Storing, Paying
  <2> QED
    BY <2>1, FS_EmptySet DEF MediaInit, MessageInv, Waiting
<1>4. OwnColoursKept
  BY DEF MediaInit, OwnColoursKept
<1> QED
  BY <1>1, <1>2, <1>3, <1>4 DEF Inv

-----------------------------------------------------------------------------
\* An instance turns to another place, to a message or away from one: the sets it is in.
LEMMA HandMoves ==
  ASSUME Typed, NEW i \in Instances, NEW h \in Hand, hand' = [hand EXCEPT ![i] = h], NEW k
  PROVE  /\ Holding(k)' = IF h.msg = k THEN Holding(k) \union {i} ELSE Holding(k) \ {i}
         /\ Storing(k)' = IF h.msg = k /\ h.at \in {"fetching", "making", "storing"}
                          THEN Storing(k) \union {i} ELSE Storing(k) \ {i}
         /\ Paying(k)' = IF h.msg = k /\ h.at \in {"begun", "fetching"}
                         THEN Paying(k) \union {i} ELSE Paying(k) \ {i}
<1>1. hand'[i] = h /\ \A j \in Instances : j # i => hand'[j] = hand[j]
  BY DEF Typed
<1> QED
  BY <1>1 DEF Holding, Storing, Paying

\* What another message is said of stays, when the instance does not have it.
LEMMA OthersStay ==
  ASSUME Inv, NEW i \in Instances, NEW h \in Hand, hand' = [hand EXCEPT ![i] = h],
         NEW k \in Messages, hand[i].msg # k, h.msg # k,
         task'[k] = task[k], stored'[k] = stored[k], paid'[k] = paid[k], twice'[k] = twice[k],
         losses'[k] = losses[k], UNCHANGED sent
  PROVE  MessageInv(k)'
<1>1. Holding(k)' = Holding(k) /\ Storing(k)' = Storing(k) /\ Paying(k)' = Paying(k)
  BY HandMoves DEF Inv, Holding, Storing, Paying
<1>2. MessageInv(k)
  BY DEF Inv
<1> QED
  BY <1>1, <1>2 DEF MessageInv, Waiting

InPay(at) == IF at \in {"begun", "fetching"} THEN 1 ELSE 0
Storer(at) == at \in {"fetching", "making", "storing"}

\* What is left of Inv when the messages are dealt with.
LEMMA Assembled ==
  ASSUME Inv, NEW i \in Instances, NEW h \in Hand, hand' = [hand EXCEPT ![i] = h],
         h.at = "idle" <=> h.msg = 0,
         brand' \in Brand, sent' \in Nat, floor' \in Nat, OwnColoursKept',
         task' \in [Messages -> {"none", "queued", "running", "done"}],
         stored' \in [Messages -> Nat], paid' \in [Messages -> Nat],
         losses' \in [Messages -> Nat], twice' \in [Messages -> Nat],
         \A k \in Messages : MessageInv(k)'
  PROVE  Inv'
<1>1. hand' \in [Instances -> Hand]
  BY DEF Inv, Typed
<1>2. \A j \in Instances : hand'[j].at = "idle" <=> hand'[j].msg = 0
  BY DEF Inv, Typed
<1> QED
  BY <1>1, <1>2 DEF Inv, Typed

\* An instance takes a message.
LEMMA TakesOk ==
  ASSUME Inv, NEW i \in Instances, hand[i].at = "idle", NEW k \in Messages,
         NEW h \in Hand, h.at = "begun", h.msg = k, hand' = [hand EXCEPT ![i] = h],
         \/ /\ task[k] = "queued" /\ task' = [task EXCEPT ![k] = "running"] /\ UNCHANGED twice
         \/ /\ task[k] = "running" /\ twice' = [twice EXCEPT ![k] = twice[k] + 1]
            /\ UNCHANGED task,
         UNCHANGED <<brand, sent, stored, paid, floor, losses, stated, stale>>
  PROVE  Inv'
<1>1. hand[i].msg = 0 /\ k # 0
  BY Numbered DEF Inv
<1>2. ASSUME NEW n \in Messages, n # k
      PROVE  MessageInv(n)'
  <2>1. task'[n] = task[n] /\ twice'[n] = twice[n]
    BY <1>2 DEF Inv, Typed
  <2>2. hand[i].msg # n /\ h.msg # n
    BY <1>1, <1>2, Numbered
  <2> QED
    BY <2>1, <2>2, OthersStay
<1>3. MessageInv(k)'
  <2>1. i \notin Holding(k) /\ i \notin Storing(k) /\ i \notin Paying(k)
    BY <1>1 DEF Holding, Storing, Paying
  <2>2. /\ Holding(k)' = Holding(k) \union {i} /\ Storing(k)' = Storing(k)
        /\ Paying(k)' = Paying(k) \union {i}
    <3>1. Typed /\ h.msg = k /\ h.at \notin {"fetching", "making", "storing"}
      BY DEF Inv
    <3>2. /\ Holding(k)' = Holding(k) \union {i} /\ Storing(k)' = Storing(k) \ {i}
          /\ Paying(k)' = Paying(k) \union {i}
      BY <3>1, HandMoves
    <3> QED
      BY <2>1, <3>2
  <2>3. /\ Cardinality(Holding(k)') = Cardinality(Holding(k)) + 1
        /\ Cardinality(Paying(k)') = Cardinality(Paying(k)) + 1
    BY <2>1, <2>2, Counted DEF Holding, Paying
  <2>4. MessageInv(k) /\ twice[k] \in Nat /\ losses[k] \in Nat /\ paid[k] \in Nat /\ stored[k] \in Nat
    BY DEF Inv, Typed
  <2>5. /\ task[k] = "queued" => task'[k] = "running" /\ twice'[k] = twice[k]
        /\ task[k] = "running" => task'[k] = "running" /\ twice'[k] = twice[k] + 1
        /\ task[k] \in {"queued", "running"}
    BY DEF Inv, Typed
  <2>6. task[k] = "queued" => Cardinality(Holding(k)) = 0
    BY <2>4, FS_EmptySet DEF MessageInv
  <2>7. sent \in Nat /\ k \in Nat
    BY Numbered DEF Inv, Typed
  <2> QED
    BY <2>2, <2>3, <2>4, <2>5, <2>6, <2>7, Counts DEF MessageInv, Waiting
<1>4. task' \in [Messages -> {"none", "queued", "running", "done"}] /\ twice' \in [Messages -> Nat]
  BY DEF Inv, Typed
<1>5. OwnColoursKept'
  BY DEF Inv, OwnColoursKept
<1>6. \A n \in Messages : MessageInv(n)'
  BY <1>2, <1>3
<1> QED
  BY <1>1, <1>4, <1>5, <1>6, Assembled DEF Inv, Typed

\* It gets on with it: a photo is stored by one that may store it, and one comes to where
\* it may only while the photo is not stored; a note is paid for by one that was to pay.
LEMMA MovesOk ==
  ASSUME Inv, NEW i \in Instances, NEW k \in Messages, hand[i].msg = k,
         NEW h \in Hand, h.at # "idle", h.msg = k, hand' = [hand EXCEPT ![i] = h],
         NEW st \in Nat, stored' = [stored EXCEPT ![k] = st],
         NEW pd \in Nat, paid' = [paid EXCEPT ![k] = pd],
         pd + InPay(h.at) <= paid[k] + InPay(hand[i].at),
         \/ st = stored[k] /\ (Storer(h.at) => Storer(hand[i].at) \/ stored[k] = 0)
         \/ st = stored[k] + 1 /\ Kind(k) = "photo" /\ Storer(hand[i].at) /\ ~Storer(h.at),
         brand' \in Brand, OwnColoursKept', UNCHANGED <<sent, task, losses, twice, floor>>
  PROVE  Inv'
<1>1. ASSUME NEW n \in Messages, n # k
      PROVE  MessageInv(n)'
  <2>1. /\ stored'[n] = stored[n] /\ paid'[n] = paid[n] /\ task'[n] = task[n]
        /\ twice'[n] = twice[n] /\ losses'[n] = losses[n]
    BY <1>1 DEF Inv, Typed
  <2> QED
    BY <1>1, <2>1, OthersStay
<1>2. MessageInv(k)'
  <2>1. /\ MessageInv(k) /\ twice[k] \in Nat /\ losses[k] \in Nat /\ paid[k] \in Nat /\ stored[k] \in Nat
    BY DEF Inv, Typed
  <2>2. stored'[k] = st /\ paid'[k] = pd
    BY DEF Inv, Typed
  <2>3. Holding(k)' = Holding(k)
    BY HandMoves DEF Inv, Holding
  <2>4. Cardinality(Paying(k)') = Cardinality(Paying(k)) + InPay(h.at) - InPay(hand[i].at)
    <3>1. Paying(k)' = IF InPay(h.at) = 1 THEN Paying(k) \union {i} ELSE Paying(k) \ {i}
      <4>1. Typed
        BY DEF Inv
      <4>2. Paying(k)' = IF h.at \in {"begun", "fetching"} THEN Paying(k) \union {i} ELSE Paying(k) \ {i}
        BY <4>1, HandMoves
      <4> QED
        BY <4>2 DEF InPay
    <3>2. i \in Paying(k) <=> InPay(hand[i].at) = 1
      BY DEF Paying, InPay
    <3>3. Paying(k) \in SUBSET Instances /\ InPay(h.at) \in {0, 1} /\ InPay(hand[i].at) \in {0, 1}
      BY DEF Paying, InPay
    <3> DEFINE b == InPay(h.at) = 1
               T == Paying(k)'
    <3>4. T = (IF b THEN Paying(k) \union {i} ELSE Paying(k) \ {i}) /\ b \in BOOLEAN
      BY <3>1
    <3> HIDE DEF T
    <3>5. /\ Cardinality(Paying(k)) \in Nat
          /\ b /\ i \in Paying(k) => Cardinality(T) = Cardinality(Paying(k))
          /\ b /\ i \notin Paying(k) => Cardinality(T) = Cardinality(Paying(k)) + 1
          /\ ~b /\ i \in Paying(k) => Cardinality(T) = Cardinality(Paying(k)) - 1
          /\ ~b /\ i \notin Paying(k) => Cardinality(T) = Cardinality(Paying(k))
      BY ZenonT(60), <3>3, <3>4, Changed
    <3>6. Cardinality(T) = Cardinality(Paying(k)) + InPay(h.at) - InPay(hand[i].at)
      BY <3>2, <3>3, <3>5
    <3> QED
      BY <3>6 DEF T
  <2>5. /\ ~Storer(h.at) /\ Storer(hand[i].at) => Cardinality(Storing(k)') = Cardinality(Storing(k)) - 1
        /\ Storer(h.at) => Cardinality(Storing(k)') <= Cardinality(Storing(k)) + 1
        /\ Storer(h.at) /\ Storer(hand[i].at) => Cardinality(Storing(k)') = Cardinality(Storing(k))
        /\ ~Storer(h.at) => Cardinality(Storing(k)') <= Cardinality(Storing(k))
    <3>1. Storing(k)' = IF Storer(h.at) THEN Storing(k) \union {i} ELSE Storing(k) \ {i}
      BY HandMoves DEF Inv, Storer
    <3>2. i \in Storing(k) <=> Storer(hand[i].at)
      BY DEF Storing, Storer
    <3>3. Storing(k) \in SUBSET Instances
      BY DEF Storing
    <3> DEFINE b == Storer(h.at)
               T == Storing(k)'
    <3>4. T = (IF b THEN Storing(k) \union {i} ELSE Storing(k) \ {i}) /\ b \in BOOLEAN
      BY <3>1 DEF Storer
    <3> HIDE DEF T, b
    <3>5. /\ Cardinality(Storing(k)) \in Nat
          /\ b /\ i \in Storing(k) => Cardinality(T) = Cardinality(Storing(k))
          /\ b /\ i \notin Storing(k) => Cardinality(T) = Cardinality(Storing(k)) + 1
          /\ ~b /\ i \in Storing(k) => Cardinality(T) = Cardinality(Storing(k)) - 1
          /\ ~b /\ i \notin Storing(k) => Cardinality(T) = Cardinality(Storing(k))
      BY ZenonT(60), <3>3, <3>4, Changed
    <3>6. /\ ~b /\ Storer(hand[i].at) => Cardinality(T) = Cardinality(Storing(k)) - 1
          /\ b => Cardinality(T) <= Cardinality(Storing(k)) + 1
          /\ b /\ Storer(hand[i].at) => Cardinality(T) = Cardinality(Storing(k))
          /\ ~b => Cardinality(T) <= Cardinality(Storing(k))
      BY <3>2, <3>5
    <3> QED
      BY <3>6 DEF T, b
  <2>6. /\ Cardinality(Storing(k)) \in Nat /\ Cardinality(Paying(k)) \in Nat
        /\ Cardinality(Storing(k)') \in Nat /\ Cardinality(Paying(k)') \in Nat
        /\ Cardinality(Storing(k)) <= Cardinality(Holding(k)) /\ Cardinality(Holding(k)) \in Nat
        /\ InPay(h.at) \in {0, 1} /\ InPay(hand[i].at) \in {0, 1}
    <3>1. Storing(k)' \in SUBSET Instances /\ Paying(k)' \in SUBSET Instances
      BY DEF Storing, Paying
    <3> QED
      BY <3>1, Counts, Counted DEF InPay
  <2>7. Waiting(k)' = Waiting(k) /\ Waiting(k) \in Nat
    BY DEF Waiting
  <2>8. st > 0 => st + Cardinality(Storing(k)') <= 1 + twice[k]
    <3>1. CASE st = stored[k] + 1
      BY <2>1, <2>5, <2>6, <3>1 DEF MessageInv
    <3>2. CASE st = stored[k]
      BY <2>1, <2>5, <2>6, <3>2 DEF MessageInv
    <3> QED
      BY <3>1, <3>2
  <2>9. pd + Cardinality(Paying(k)') + Waiting(k)' <= 1 + twice[k] + losses[k]
    BY <2>1, <2>4, <2>6, <2>7 DEF MessageInv
  <2> QED
    BY <2>1, <2>2, <2>3, <2>8, <2>9 DEF MessageInv
<1>3. stored' \in [Messages -> Nat] /\ paid' \in [Messages -> Nat]
  BY DEF Inv, Typed
<1>4. h.at = "idle" <=> h.msg = 0
  BY Numbered
<1>5. \A n \in Messages : MessageInv(n)'
  BY <1>1, <1>2
<1> QED
  BY <1>3, <1>4, <1>5, Assembled DEF Inv, Typed

\* It is done with it, or loses it.
LEMMA EndsOk ==
  ASSUME Inv, NEW i \in Instances, NEW k \in Messages, hand[i].msg = k,
         hand' = [hand EXCEPT ![i] = Empty],
         NEW x \in {"queued", "running", "done"}, task' = [task EXCEPT ![k] = x],
         x = "queued" => Holding(k) \ {i} = {},
         NEW ls \in Nat, losses' = [losses EXCEPT ![k] = ls],
         ls >= losses[k] + (IF x = "queued" THEN 1 ELSE 0),
         floor' \in Nat, UNCHANGED <<brand, sent, stored, paid, twice, stated, stale>>
  PROVE  Inv'
<1>1. Empty \in Hand /\ Empty.at = "idle" /\ Empty.msg = 0 /\ k # 0
  BY BlankOk, Numbered
<1>2. ASSUME NEW n \in Messages, n # k
      PROVE  MessageInv(n)'
  <2>1. task'[n] = task[n] /\ losses'[n] = losses[n] /\ n # 0
    BY <1>2, Numbered DEF Inv, Typed
  <2> QED
    BY <1>1, <1>2, <2>1, OthersStay
<1>3. MessageInv(k)'
  <2>1. /\ MessageInv(k) /\ twice[k] \in Nat /\ losses[k] \in Nat /\ paid[k] \in Nat /\ stored[k] \in Nat
        /\ sent \in Nat
    BY DEF Inv, Typed
  <2>0. k \in Nat
    BY Numbered
  <2>2. task'[k] = x /\ losses'[k] = ls
    BY DEF Inv, Typed
  <2>3. i \in Holding(k) /\ task[k] \notin {"none", "queued"} /\ k <= sent
    BY <2>0, <2>1 DEF Holding, MessageInv
  <2>4. /\ Holding(k)' = Holding(k) \ {i} /\ Storing(k)' = Storing(k) \ {i}
        /\ Paying(k)' = Paying(k) \ {i}
    BY ZenonT(60), <1>1, HandMoves DEF Inv
  <2>5. /\ Cardinality(Holding(k)') <= Cardinality(Holding(k))
        /\ Cardinality(Storing(k)') <= Cardinality(Storing(k))
        /\ Cardinality(Paying(k)') <= Cardinality(Paying(k))
        /\ Cardinality(Holding(k)') \in Nat /\ Cardinality(Storing(k)') \in Nat
        /\ Cardinality(Paying(k)') \in Nat
    <3>1. ASSUME NEW S \in SUBSET Instances
          PROVE  Cardinality(S \ {i}) <= Cardinality(S) /\ Cardinality(S \ {i}) \in Nat
      <4> DEFINE T == S \ {i}
                 b == FALSE
      <4>1. T = (IF b THEN S \union {i} ELSE S \ {i}) /\ b \in BOOLEAN
        OBVIOUS
      <4>2. ~b
        OBVIOUS
      <4> HIDE DEF T, b
      <4>3. /\ Cardinality(S) \in Nat /\ Cardinality(T) \in Nat
            /\ ~b /\ i \in S => Cardinality(T) = Cardinality(S) - 1
            /\ ~b /\ i \notin S => Cardinality(T) = Cardinality(S)
        BY <4>1, Changed
      <4>4. Cardinality(T) <= Cardinality(S) /\ Cardinality(T) \in Nat
        BY <4>2, <4>3
      <4> QED
        BY <4>4 DEF T
    <3>2. /\ Holding(k) \in SUBSET Instances /\ Storing(k) \in SUBSET Instances
          /\ Paying(k) \in SUBSET Instances
      BY DEF Holding, Storing, Paying
    <3> QED
      BY <2>4, <3>1, <3>2
  <2>6. Waiting(k) = 0 /\ Waiting(k)' = IF x = "queued" THEN 1 ELSE 0
    BY <2>2, <2>3 DEF Waiting
  <2> QED
    BY <2>0, <2>1, <2>2, <2>3, <2>4, <2>5, <2>6, Counts DEF MessageInv
<1>4. task' \in [Messages -> {"none", "queued", "running", "done"}] /\ losses' \in [Messages -> Nat]
  BY DEF Inv, Typed
<1>5. OwnColoursKept'
  BY DEF Inv, OwnColoursKept
<1>6. \A n \in Messages : MessageInv(n)'
  BY <1>2, <1>3
<1> QED
  BY <1>1, <1>4, <1>5, <1>6, Assembled DEF Inv, Typed

-----------------------------------------------------------------------------
(* The edits of a hand, and one lemma per step. *)

Now(h, at) == [h EXCEPT !.at = at]
Decided(h, logo) == [h EXCEPT !.at = "making", !.logo = logo]
Merging(h, base) == [h EXCEPT !.at = "storing", !.base = base]
Asking(h, covers) == [h EXCEPT !.at = "asking", !.covers = covers]
Taken(k, b) == [Empty EXCEPT !.at = "begun", !.msg = k, !.taken = b]

LEMMA NowOk ==
  ASSUME NEW h \in Hand, NEW at \in Places
  PROVE  Now(h, at) \in Hand /\ Now(h, at).at = at /\ Now(h, at).msg = h.msg
  BY Zenon DEF Hand, Now

LEMMA DecidedOk ==
  ASSUME NEW h \in Hand, NEW logo \in BOOLEAN
  PROVE  LET u == Decided(h, logo) IN u \in Hand /\ u.at = "making" /\ u.msg = h.msg
  BY Zenon DEF Hand, Places, Decided

LEMMA MergingOk ==
  ASSUME NEW h \in Hand, NEW base \in Brand
  PROVE  LET u == Merging(h, base) IN u \in Hand /\ u.at = "storing" /\ u.msg = h.msg
  BY Zenon DEF Hand, Places, Merging

LEMMA AskingOk ==
  ASSUME NEW h \in Hand, NEW covers \in SUBSET Int
  PROVE  LET u == Asking(h, covers) IN u \in Hand /\ u.at = "asking" /\ u.msg = h.msg
  BY Zenon DEF Hand, Places, Asking

LEMMA TakenOk ==
  ASSUME NEW k \in Messages, NEW b \in Brand
  PROVE  LET u == Taken(k, b) IN u \in Hand /\ u.at = "begun" /\ u.msg = k
<1>1. k \in Msgs
  BY DEF Msgs
<1> QED
  BY <1>1, BlankOk, Zenon DEF Hand, Places, Taken

\* What an instance that is busy holds.
LEMMA Busy ==
  ASSUME Inv, NEW i \in Instances, hand[i].at # "idle"
  PROVE  /\ hand[i] \in Hand /\ hand[i].msg \in Messages /\ hand[i].base \in Brand
         /\ stored[hand[i].msg] \in Nat /\ paid[hand[i].msg] \in Nat /\ losses[hand[i].msg] \in Nat
         /\ stored' = stored => stored' = [stored EXCEPT ![hand[i].msg] = stored[hand[i].msg]]
         /\ paid' = paid => paid' = [paid EXCEPT ![hand[i].msg] = paid[hand[i].msg]]
<1>1. hand[i] \in Hand /\ hand[i].msg # 0
  BY DEF Inv, Typed
<1>2. hand[i].msg \in Messages /\ hand[i].base \in Brand
  BY <1>1 DEF Hand, Msgs
<1> QED
  BY <1>1, <1>2 DEF Inv, Typed

LEMMA JustMoves ==
  ASSUME Inv, NEW i \in Instances, hand[i].at # "idle",
         NEW h \in Hand, h.at # "idle", h.msg = hand[i].msg, hand' = [hand EXCEPT ![i] = h],
         InPay(h.at) <= InPay(hand[i].at),
         Storer(h.at) => Storer(hand[i].at) \/ stored[hand[i].msg] = 0,
         UNCHANGED <<brand, sent, task, stored, paid, losses, twice, floor, stated, stale>>
  PROVE  Inv'
<1> DEFINE k == hand[i].msg
           st == stored[k]
           pd == paid[k]
<1>1. /\ k \in Messages /\ st \in Nat /\ pd \in Nat
      /\ stored' = [stored EXCEPT ![k] = st] /\ paid' = [paid EXCEPT ![k] = pd]
  BY Busy
<1>2. /\ pd + InPay(h.at) <= paid[k] + InPay(hand[i].at)
      /\ st = stored[k] /\ (Storer(h.at) => Storer(hand[i].at) \/ stored[k] = 0)
  BY <1>1 DEF InPay
<1>3. brand' \in Brand /\ OwnColoursKept'
  BY DEF Inv, Typed, OwnColoursKept
<1>4. hand[i].msg = k /\ h.msg = k
  OBVIOUS
<1> HIDE DEF k, st, pd
<1> QED
  BY <1>1, <1>2, <1>3, <1>4, MovesOk

\* A photo or a note goes to another place, and nothing is written.
LEMMA StepsOk ==
  ASSUME Inv, NEW i \in Instances, NEW to \in Places, to # "idle", hand[i].at # "idle",
         Step(i, to), InPay(to) <= InPay(hand[i].at),
         Storer(to) => Storer(hand[i].at) \/ stored[hand[i].msg] = 0,
         UNCHANGED <<brand, sent, task, stored, paid, losses, twice, floor, stated, stale>>
  PROVE  Inv'
<1> DEFINE h == Now(hand[i], to)
<1>1. h \in Hand /\ h.at = to /\ h.msg = hand[i].msg
  BY Busy, NowOk
<1>2. hand' = [hand EXCEPT ![i] = h]
  BY DEF Step, Now
<1> HIDE DEF h
<1> QED
  BY <1>1, <1>2, JustMoves

LEMMA BeginsOk ==
  ASSUME Inv, NEW i \in Instances, PhotoBegins(i) \/ NoteBegins(i) \/ TextBegins(i)
  PROVE  Inv'
<1>1. /\ hand[i].at = "begun"
      /\ Step(i, "turn") \/ (Step(i, "fetching") /\ (Kind(hand[i].msg) = "photo" => ~Stored(hand[i].msg)))
      /\ UNCHANGED <<brand, sent, task, stored, paid, losses, twice, floor, stated, stale>>
  <2>1. CASE PhotoBegins(i)
    BY <2>1 DEF PhotoBegins, At
  <2>2. CASE NoteBegins(i)
    BY <2>2 DEF NoteBegins, At
  <2>3. CASE TextBegins(i)
    BY <2>3 DEF TextBegins, At
  <2> QED
    BY <2>1, <2>2, <2>3
<1>2. hand[i].at # "idle"
  BY <1>1
<1>3. CASE Step(i, "turn")
  <2>1. "turn" \in Places /\ InPay("turn") <= InPay(hand[i].at) /\ ~Storer("turn")
    BY <1>1 DEF Places, InPay, Storer
  <2> QED
    BY <1>1, <1>2, <1>3, <2>1, StepsOk
<1>4. CASE Step(i, "fetching") /\ (Kind(hand[i].msg) = "photo" => ~Stored(hand[i].msg))
  <2>1. "fetching" \in Places /\ InPay("fetching") <= InPay(hand[i].at)
    BY <1>1 DEF Places, InPay
  <2>2. stored[hand[i].msg] = 0
    BY <1>2, <1>4, Busy DEF Inv, MessageInv, Stored
  <2> QED
    BY <1>1, <1>2, <1>4, <2>1, <2>2, StepsOk
<1> QED
  BY <1>1, <1>3, <1>4

LEMMA NoteStepsOk ==
  ASSUME Inv, NEW i \in Instances, NoteStored(i) \/ NoteUnheard(i)
  PROVE  Inv'
<1>1. /\ hand[i].at \in {"fetching", "making"} /\ Step(i, "turn")
      /\ UNCHANGED <<brand, sent, task, stored, paid, losses, twice, floor, stated, stale>>
  BY DEF NoteStored, NoteUnheard, At
<1>2. /\ "turn" \in Places /\ InPay("turn") <= InPay(hand[i].at) /\ ~Storer("turn")
      /\ hand[i].at # "idle"
  BY <1>1 DEF Places, InPay, Storer
<1> QED
  BY <1>1, <1>2, StepsOk

LEMMA PhotoDecidedOk ==
  ASSUME Inv, NEW i \in Instances, PhotoDecided(i)
  PROVE  Inv'
<1> DEFINE logo == IsLogo(hand[i].msg)
           h == Decided(hand[i], logo)
<1>1. /\ hand[i].at = "fetching" /\ hand' = [hand EXCEPT ![i] = h]
      /\ UNCHANGED <<brand, sent, task, stored, paid, losses, twice, floor, stated, stale>>
  BY DEF PhotoDecided, At, Decided
<1>2. logo \in BOOLEAN
  BY DEF IsLogo, MayBeLogo
<1> HIDE DEF logo
<1>3. h \in Hand /\ h.at = "making" /\ h.msg = hand[i].msg
  BY <1>1, <1>2, Busy, DecidedOk
<1> HIDE DEF h
<1>4. /\ InPay(h.at) <= InPay(hand[i].at) /\ Storer(hand[i].at)
      /\ hand[i].at # "idle" /\ h.at # "idle"
  BY <1>1, <1>3 DEF InPay, Storer
<1> QED
  BY <1>1, <1>3, <1>4, JustMoves

LEMMA NoteTranscribedOk ==
  ASSUME Inv, NEW i \in Instances, NoteTranscribed(i)
  PROVE  Inv'
<1> DEFINE k == hand[i].msg
           h == Now(hand[i], "making")
           pd == paid[k] + 1
           st == stored[k]
<1>1. /\ hand[i].at = "fetching" /\ hand' = [hand EXCEPT ![i] = h] /\ paid' = [paid EXCEPT ![k] = pd]
      /\ UNCHANGED <<brand, sent, task, stored, losses, twice, floor, stated, stale>>
  BY DEF NoteTranscribed, At, Step, Now
<1>2. /\ k \in Messages /\ pd \in Nat /\ st \in Nat /\ paid[k] \in Nat /\ st = stored[k]
      /\ stored' = [stored EXCEPT ![k] = st] /\ hand[i] \in Hand /\ "making" \in Places
      /\ pd = paid[k] + 1
  <2>1. hand[i].at # "idle"
    BY <1>1
  <2>2. /\ k \in Messages /\ hand[i] \in Hand /\ st \in Nat /\ paid[k] \in Nat
        /\ stored' = [stored EXCEPT ![k] = st]
    BY <1>1, <2>1, Busy
  <2> HIDE DEF k
  <2>3. pd \in Nat /\ "making" \in Places
    BY <2>2 DEF Places
  <2> QED
    BY <2>2, <2>3
<1>3. h \in Hand /\ h.at = "making" /\ h.msg = k
  BY <1>2, NowOk
<1>4. hand[i].msg = k
  OBVIOUS
<1> HIDE DEF k, h, pd, st
<1>5. pd + InPay(h.at) <= paid[k] + InPay(hand[i].at) /\ Storer(hand[i].at) /\ h.at # "idle"
  BY <1>1, <1>2, <1>3 DEF InPay, Storer
<1>6. brand' \in Brand /\ OwnColoursKept'
  BY <1>1 DEF Inv, Typed, OwnColoursKept
<1> QED
  BY <1>1, <1>2, <1>3, <1>4, <1>5, <1>6, MovesOk

\* The row of a photo is written by one that may write it, which then goes on to the turn.
LEMMA StoresOk ==
  ASSUME Inv, NEW i \in Instances, hand[i].at \in {"making", "storing"}, Step(i, "turn"),
         Kind(hand[i].msg) = "photo",
         stored' = [stored EXCEPT ![hand[i].msg] = @ + 1], brand' \in Brand, OwnColoursKept',
         UNCHANGED <<sent, task, paid, losses, twice, floor>>
  PROVE  Inv'
<1> DEFINE k == hand[i].msg
           h == Now(hand[i], "turn")
           st == stored[k] + 1
           pd == paid[k]
<1>1. /\ hand' = [hand EXCEPT ![i] = h] /\ stored' = [stored EXCEPT ![k] = st]
  BY DEF Step, Now
<1>2. /\ k \in Messages /\ st \in Nat /\ pd \in Nat /\ pd = paid[k] /\ st = stored[k] + 1
      /\ paid' = [paid EXCEPT ![k] = pd] /\ hand[i] \in Hand /\ "turn" \in Places
  <2>1. hand[i].at # "idle"
    OBVIOUS
  <2>2. /\ k \in Messages /\ hand[i] \in Hand /\ pd \in Nat /\ stored[k] \in Nat
        /\ paid' = [paid EXCEPT ![k] = pd]
    BY <2>1, Busy
  <2> HIDE DEF k
  <2>3. st \in Nat /\ "turn" \in Places
    BY <2>2 DEF Places
  <2> QED
    BY <2>2, <2>3
<1>3. h \in Hand /\ h.at = "turn" /\ h.msg = k
  BY <1>2, NowOk
<1>4. hand[i].msg = k /\ Kind(k) = "photo"
  OBVIOUS
<1> HIDE DEF k, h, pd, st
<1>5. /\ pd + InPay(h.at) <= paid[k] + InPay(hand[i].at) /\ Storer(hand[i].at) /\ ~Storer(h.at)
      /\ h.at # "idle"
  BY <1>2, <1>3 DEF InPay, Storer
<1> QED
  BY ZenonT(60), <1>1, <1>2, <1>3, <1>4, <1>5, MovesOk

LEMMA PhotoStoredOk ==
  ASSUME Inv, NEW i \in Instances, PhotoStored(i)
  PROVE  Inv'
<1>1. /\ hand[i].at = "making" /\ Kind(hand[i].msg) = "photo"
      /\ UNCHANGED <<brand, sent, task, paid, losses, twice, floor, stated, stale>>
  BY DEF PhotoStored, At
<1>2. brand \in Brand /\ brand' \in Brand /\ OwnColoursKept'
  BY <1>1 DEF Inv, Typed, OwnColoursKept
<1>3. CASE hand[i].logo
  <2> DEFINE h == Merging(hand[i], brand)
  <2>1. hand' = [hand EXCEPT ![i] = h] /\ UNCHANGED stored
    BY <1>3 DEF PhotoStored, Merging
  <2>2. h \in Hand /\ h.at = "storing" /\ h.msg = hand[i].msg
    BY <1>1, <1>2, Busy, MergingOk
  <2> HIDE DEF h
  <2>3. /\ InPay(h.at) <= InPay(hand[i].at) /\ Storer(hand[i].at)
        /\ hand[i].at # "idle" /\ h.at # "idle"
    BY <1>1, <2>2 DEF InPay, Storer
  <2> QED
    BY <1>1, <2>1, <2>2, <2>3, JustMoves
<1>4. CASE ~hand[i].logo
  <2>1. Step(i, "turn") /\ stored' = [stored EXCEPT ![hand[i].msg] = @ + 1]
    BY <1>4 DEF PhotoStored
  <2> QED
    BY <1>1, <1>2, <2>1, StoresOk
<1> QED
  BY <1>3, <1>4

\* Of the brand, what a logo, a colour or a no changes.
Logoed(b, logo, palette) == [b EXCEPT !.logo = logo, !.palette = palette]

LEMMA LogoedOk ==
  ASSUME NEW b \in Brand, NEW logo \in Msgs, NEW palette \in {"none", "measured", "stated"}
  PROVE  Logoed(b, logo, palette) \in Brand /\ Logoed(b, logo, palette).palette = palette
  BY Zenon DEF Brand, Logoed

LEMMA SavedOk ==
  ASSUME NEW b \in Brand
  PROVE  /\ [b EXCEPT !.palette = "stated"] \in Brand
         /\ [b EXCEPT !.palette = "stated"].palette = "stated"
         /\ [b EXCEPT !.noLogo = TRUE] \in Brand
         /\ [b EXCEPT !.noLogo = TRUE].palette = b.palette
<1>1. [b EXCEPT !.palette = "stated"] \in Brand
  BY Zenon DEF Brand
<1>2. [b EXCEPT !.noLogo = TRUE] \in Brand
  BY TRUE \in BOOLEAN, Zenon DEF Brand
<1>3. [b EXCEPT !.palette = "stated"].palette = "stated" /\ [b EXCEPT !.noLogo = TRUE].palette = b.palette
  BY Zenon DEF Brand
<1> QED
  BY <1>1, <1>2, <1>3

\* The merge is of what was read; it is written over what is there only if it changed, so
\* a colour stated before that reading stays, and one stated after it is what stale tells.
LEMMA LogoStoredOk ==
  ASSUME Inv, NEW i \in Instances, LogoStored(i)
  PROVE  Inv'
<1> DEFINE base == hand[i].base
           palette == IF Merge(base.palette) = base.palette THEN brand.palette ELSE Merge(base.palette)
<1>1. /\ hand[i].at = "storing" /\ Kind(hand[i].msg) = "photo" /\ Step(i, "turn")
      /\ stored' = [stored EXCEPT ![hand[i].msg] = @ + 1]
      /\ brand' = Logoed(brand, hand[i].msg, palette)
      /\ stale' = (stale \/ (brand.palette = "stated" /\ base.palette # "stated"))
      /\ UNCHANGED <<sent, task, paid, losses, twice, floor, stated>>
  BY DEF LogoStored, At, Logoed
<1>2. brand \in Brand /\ hand[i].msg \in Msgs
  BY <1>1, Busy DEF Inv, Typed, Msgs
<1>3. palette \in {"none", "measured", "stated"}
  BY <1>2 DEF Brand, Merge
<1>4. stated /\ ~stale' => palette = "stated"
  BY <1>1 DEF Inv, OwnColoursKept, Merge
<1> HIDE DEF palette
<1>5. brand' \in Brand /\ brand'.palette = palette
  BY <1>1, <1>2, <1>3, LogoedOk
<1>6. OwnColoursKept'
  BY <1>1, <1>4, <1>5 DEF OwnColoursKept
<1> QED
  BY <1>1, <1>5, <1>6, StoresOk

LEMMA TakeJobOk ==
  ASSUME Inv, NEW i \in Instances, TakeJob(i) \/ TakeRunning(i)
  PROVE  Inv'
<1>1. PICK k \in Messages :
        /\ hand' = [hand EXCEPT ![i] = Taken(k, brand)]
        /\ \/ task[k] = "queued" /\ task' = [task EXCEPT ![k] = "running"] /\ UNCHANGED twice
           \/ task[k] = "running" /\ twice' = [twice EXCEPT ![k] = @ + 1] /\ UNCHANGED task
  BY DEF TakeJob, TakeRunning, Take, Taken
<1>2. /\ hand[i].at = "idle"
      /\ UNCHANGED <<brand, sent, stored, paid, floor, losses, stated, stale>>
  BY DEF TakeJob, TakeRunning
<1> DEFINE h == Taken(k, brand)
<1>3. h \in Hand /\ h.at = "begun" /\ h.msg = k /\ hand' = [hand EXCEPT ![i] = h]
  BY <1>1, TakenOk DEF Inv, Typed
<1>4. \/ task[k] = "queued" /\ task' = [task EXCEPT ![k] = "running"] /\ UNCHANGED twice
      \/ task[k] = "running" /\ twice' = [twice EXCEPT ![k] = twice[k] + 1] /\ UNCHANGED task
  BY <1>1
<1> HIDE DEF h
<1> QED
  BY <1>2, <1>3, <1>4, TakesOk

LEMMA LoseOk ==
  ASSUME Inv, NEW i \in Instances, Lose(i)
  PROVE  Inv'
<1> DEFINE k == hand[i].msg
           x == IF \E j \in Instances \ {i} : hand[j].msg = k THEN task[k] ELSE "queued"
           ls == losses[k] + 1
<1>1. /\ hand[i].at # "idle" /\ hand' = [hand EXCEPT ![i] = Empty]
      /\ losses' = [losses EXCEPT ![k] = ls] /\ task' = [task EXCEPT ![k] = x]
      /\ UNCHANGED <<brand, sent, stored, paid, floor, twice, stated, stale>>
  BY DEF Lose
<1>2. k \in Messages /\ losses[k] \in Nat
  BY <1>1, Busy
<1>3. task[k] \in {"running", "done"}
  <2>1. i \in Holding(k)
    BY DEF Holding
  <2>2. MessageInv(k) /\ task[k] \in {"none", "queued", "running", "done"}
    BY <1>2 DEF Inv, Typed
  <2> QED
    BY <2>1, <2>2 DEF MessageInv
<1>4. x \in {"queued", "running", "done"} /\ (x = "queued" => Holding(k) \ {i} = {})
  BY <1>3 DEF Holding
<1>5. hand[i].msg = k /\ ls = losses[k] + 1
  OBVIOUS
<1>6. floor' \in Nat
  BY <1>1 DEF Inv, Typed
<1> HIDE DEF k, x, ls
<1>7. ls \in Nat /\ ls >= losses[k] + (IF x = "queued" THEN 1 ELSE 0)
  BY <1>2, <1>5
<1> QED
  BY <1>1, <1>2, <1>4, <1>5, <1>6, <1>7, EndsOk

LEMMA EndJobOk ==
  ASSUME Inv, NEW i \in Instances, hand[i].at # "idle", EndJob(i), floor' \in Nat,
         UNCHANGED <<brand, sent, stored, paid, losses, twice, stated, stale>>
  PROVE  Inv'
<1> DEFINE k == hand[i].msg
           ls == losses[k]
           x == "done"
<1>1. /\ hand' = [hand EXCEPT ![i] = Empty] /\ task' = [task EXCEPT ![k] = x]
      /\ losses' = [losses EXCEPT ![k] = ls]
      /\ UNCHANGED <<brand, sent, stored, paid, twice, stated, stale>>
  BY DEF EndJob, Inv, Typed
<1>2. k \in Messages /\ ls \in Nat
  BY Busy
<1>3. hand[i].msg = k
  OBVIOUS
<1>4. x \in {"queued", "running", "done"} /\ (x = "queued" => Holding(k) \ {i} = {})
  OBVIOUS
<1>5. ls = losses[k] /\ x # "queued"
  OBVIOUS
<1>6. floor' \in Nat
  OBVIOUS
<1> HIDE DEF k, ls, x
<1>7. ls >= losses[k] + (IF x = "queued" THEN 1 ELSE 0)
  BY <1>2, <1>5
<1> QED
  BY <1>1, <1>2, <1>3, <1>4, <1>6, <1>7, EndsOk

LEMMA TurnBeginsOk ==
  ASSUME Inv, NEW i \in Instances, TurnBegins(i)
  PROVE  Inv'
<1> DEFINE covers == {hand[i].msg} \union {n \in floor + 1 .. sent : ~answered[n]}
           h == Asking(hand[i], covers)
<1>1. /\ hand[i].at = "turn"
      /\ UNCHANGED <<brand, sent, stored, paid, floor, losses, twice, stated, stale>>
  BY DEF TurnBegins
<1>2. CASE answered[hand[i].msg]
  <2>1. EndJob(i)
    BY <1>2 DEF TurnBegins
  <2>2. floor' \in Nat
    BY <1>1 DEF Inv, Typed
  <2> QED
    BY <1>1, <2>1, <2>2, EndJobOk
<1>3. CASE ~answered[hand[i].msg]
  <2>1. hand' = [hand EXCEPT ![i] = h] /\ UNCHANGED task
    BY <1>3 DEF TurnBegins, Asking
  <2>2. hand[i] \in Hand /\ hand[i].msg \in Int
    BY <1>1, Busy, Numbered
  <2>3. covers \in SUBSET Int
    BY <2>2 DEF Inv, Typed
  <2> HIDE DEF covers
  <2>4. h \in Hand /\ h.at = "asking" /\ h.msg = hand[i].msg
    BY <2>2, <2>3, AskingOk
  <2> HIDE DEF h
  <2>5. /\ InPay(h.at) <= InPay(hand[i].at) /\ ~Storer(h.at)
        /\ hand[i].at # "idle" /\ h.at # "idle"
    BY <1>1, <2>4 DEF InPay, Storer
  <2> QED
    BY <1>1, <2>1, <2>4, <2>5, JustMoves
<1> QED
  BY <1>2, <1>3

\* A turn that saves writes of the brand only, and what it saves is the owner's word.
LEMMA TurnSavesOk ==
  ASSUME Inv, NEW i \in Instances, TurnSaves(i)
  PROVE  Inv'
<1>1. UNCHANGED <<sent, task, stored, paid, floor, hand, losses, twice, stale>>
  BY DEF TurnSaves
<1>2. brand \in Brand
  BY DEF Inv, Typed
<1>3. brand' \in Brand /\ OwnColoursKept'
  <2>1. CASE brand' = [brand EXCEPT !.palette = "stated"]
    <3>1. brand' \in Brand /\ brand'.palette = "stated"
      BY <1>2, <2>1, SavedOk
    <3> QED
      BY <3>1 DEF OwnColoursKept
  <2>2. CASE brand' = [brand EXCEPT !.noLogo = TRUE] /\ UNCHANGED stated
    <3>1. brand' \in Brand /\ brand'.palette = brand.palette
      BY <1>2, <2>2, SavedOk
    <3> QED
      BY <1>1, <2>2, <3>1 DEF Inv, OwnColoursKept
  <2> QED
    BY <2>1, <2>2 DEF TurnSaves
<1>4. Typed'
  BY <1>1, <1>3 DEF Inv, Typed
<1>5. \A k \in Messages : MessageInv(k)'
  BY ZenonT(60), <1>1 DEF Inv, MessageInv, Holding, Storing, Paying, Waiting
<1>6. \A j \in Instances : hand'[j].at = "idle" <=> hand'[j].msg = 0
  BY <1>1 DEF Inv
<1> QED
  BY <1>3, <1>4, <1>5, <1>6 DEF Inv

LEMMA TurnEndsOk ==
  ASSUME Inv, NEW i \in Instances, TurnEnds(i)
  PROVE  Inv'
<1>1. /\ hand[i].at = "asking" /\ EndJob(i) /\ floor' = sent
      /\ UNCHANGED <<brand, sent, stored, paid, losses, twice, stated, stale>>
  BY DEF TurnEnds
<1>2. floor' \in Nat
  BY <1>1 DEF Inv, Typed
<1> QED
  BY <1>1, <1>2, EndJobOk

\* A message that arrives was nobody's.
LEMMA ArrivesOk ==
  ASSUME Inv, Arrives
  PROVE  Inv'
<1>1. /\ sent < Len(MESSAGES) /\ sent' = sent + 1 /\ task' = [task EXCEPT ![sent'] = "queued"]
      /\ UNCHANGED <<brand, stored, paid, floor, hand, losses, twice, stated, stale>>
  BY DEF Arrives
<1>2. sent \in Nat /\ sent' \in Nat /\ sent' \in Messages
  BY <1>1, Numbered DEF Inv, Typed
<1>3. Typed'
  BY <1>1, <1>2 DEF Inv, Typed
<1>4. ASSUME NEW k \in Messages
      PROVE  MessageInv(k)'
  <2>1. /\ MessageInv(k) /\ k \in Nat /\ sent \in Nat
        /\ Holding(k)' = Holding(k) /\ Storing(k)' = Storing(k) /\ Paying(k)' = Paying(k)
    BY <1>1, Numbered DEF Inv, Typed, Holding, Storing, Paying
  <2>2. CASE k = sent'
    <3>1. task[k] = "none" /\ task'[k] = "queued"
      BY <1>1, <1>2, <2>1, <2>2 DEF Inv, Typed, MessageInv
    <3>2. Waiting(k)' = Waiting(k)
      BY <3>1 DEF Waiting
    <3> QED
      BY <1>1, <2>1, <2>2, <3>1, <3>2 DEF MessageInv
  <2>3. CASE k # sent'
    <3>1. task'[k] = task[k]
      BY <1>1, <1>2, <2>3 DEF Inv, Typed
    <3>2. Waiting(k)' = Waiting(k) /\ (k > sent' => k > sent)
      BY <1>1, <2>1, <3>1 DEF Waiting
    <3> QED
      BY <1>1, <2>1, <3>1, <3>2 DEF MessageInv
  <2> QED
    BY <2>2, <2>3
<1>5. OwnColoursKept'
  BY <1>1 DEF Inv, OwnColoursKept
<1>6. \A j \in Instances : hand'[j].at = "idle" <=> hand'[j].msg = 0
  BY <1>1 DEF Inv
<1> QED
  BY <1>3, <1>4, <1>5, <1>6 DEF Inv

LEMMA StepOk == Inv /\ [MediaNext]_mediaVars => Inv'
<1> SUFFICES ASSUME Inv, [MediaNext]_mediaVars
             PROVE  Inv'
  OBVIOUS
<1>1. CASE Arrives
  BY <1>1, ArrivesOk
<1>2. ASSUME NEW i \in Instances,
             \/ TakeJob(i) \/ TakeRunning(i) \/ Lose(i) \/ Photo(i) \/ Note(i)
             \/ TextBegins(i) \/ TurnBegins(i) \/ TurnSaves(i) \/ TurnEnds(i)
      PROVE  Inv'
  <2>1. CASE TakeJob(i) \/ TakeRunning(i)
    BY <2>1, TakeJobOk
  <2>2. CASE Lose(i)
    BY <2>2, LoseOk
  <2>3. CASE Photo(i)
    BY <2>3, BeginsOk, PhotoDecidedOk, PhotoStoredOk, LogoStoredOk DEF Photo
  <2>4. CASE Note(i)
    BY <2>4, BeginsOk, NoteTranscribedOk, NoteStepsOk DEF Note
  <2>5. CASE TextBegins(i)
    BY <2>5, BeginsOk
  <2>6. CASE TurnBegins(i)
    BY <2>6, TurnBeginsOk
  <2>7. CASE TurnSaves(i)
    BY <2>7, TurnSavesOk
  <2>8. CASE TurnEnds(i)
    BY <2>8, TurnEndsOk
  <2> QED
    BY <1>2, <2>1, <2>2, <2>3, <2>4, <2>5, <2>6, <2>7, <2>8
<1>3. CASE UNCHANGED mediaVars
  BY ZenonT(60), <1>3 DEF mediaVars, Inv, Typed, MessageInv, Holding, Storing, Paying, Waiting, OwnColoursKept
<1> QED
  BY <1>1, <1>2, <1>3 DEF MediaNext

LEMMA Reached == MediaSpec => []Inv
  BY InitOk, StepOk, PTL DEF MediaSpec

-----------------------------------------------------------------------------
\* A colour the owner has stated is the brand's after any number of logos, photos at once,
\* lost jobs and jobs run twice, but for a logo that had read the brand before it
\* (queue/handlers.py: handle_image; imagegen/colors.py: "Never overwrite colours the
\* client stated themselves").
THEOREM OwnColoursStay == MediaSpec => []OwnColoursKept
<1>1. Inv => OwnColoursKept
  BY DEF Inv
<1> QED
  BY <1>1, Reached, PTL

\* However many instances run the job of a photo or a note and however often it is lost,
\* the photo has one row and the note is paid for once, and one more for each time that a
\* second instance had it or that the paid answer was lost (queue/handlers.py:
\* handle_image, transcribe_and_handle).
THEOREM EachStoredOnce == MediaSpec => []StoredOnce
<1>1. Inv => StoredOnce
  <2> SUFFICES ASSUME Inv, NEW k \in Messages
               PROVE  stored[k] <= 1 + twice[k] /\ paid[k] <= 1 + twice[k] + losses[k]
    BY DEF StoredOnce
  <2>1. /\ MessageInv(k) /\ stored[k] \in Nat /\ paid[k] \in Nat /\ twice[k] \in Nat
        /\ losses[k] \in Nat
    BY DEF Inv, Typed
  <2>2. Waiting(k) \in Nat
    BY DEF Waiting
  <2> QED
    BY <2>1, <2>2, Counts DEF MessageInv
<1> QED
  BY <1>1, Reached, PTL

\* Both together, as the run checks them (queue/handlers.py: handle_image,
\* transcribe_and_handle).
THEOREM MediaComesRight == MediaSpec => []MediaAsPromised
  BY OwnColoursStay, EachStoredOnce, PTL DEF MediaAsPromised

-----------------------------------------------------------------------------
\* What a handler took the brand for: there was no logo if there is none now, and what it
\* decided of the logo it decided of a brand without one, whose owner had not said no.
HandInv(h, b) ==
  /\ b.logo = 0 => h.taken.logo = 0
  /\ h.taken.noLogo = TRUE => b.noLogo = TRUE
  /\ h.logo = TRUE \/ h.at = "storing" => h.taken.logo = 0 /\ h.taken.noLogo = FALSE

LogoInv == \A i \in Instances : HandInv(hand[i], brand)

\* A logo stays one, and that there is none stays said.
LEMMA BrandGrows ==
  ASSUME Inv, [MediaNext]_mediaVars
  PROVE  (brand'.logo = 0 => brand.logo = 0) /\ (brand.noLogo = TRUE => brand'.noLogo = TRUE)
<1>1. ASSUME NEW i \in Instances, LogoStored(i)
      PROVE  brand'.logo = hand[i].msg /\ hand[i].msg # 0 /\ brand'.noLogo = brand.noLogo
  <2>1. PICK palette : brand' = [brand EXCEPT !.logo = hand[i].msg, !.palette = palette]
    BY <1>1 DEF LogoStored
  <2>2. hand[i].at # "idle"
    BY <1>1 DEF LogoStored, At
  <2> QED
    BY <2>1, <2>2 DEF Inv, Typed, Brand
<1>2. ASSUME NEW i \in Instances, TurnSaves(i)
      PROVE  brand'.logo = brand.logo /\ (brand'.noLogo = brand.noLogo \/ brand'.noLogo = TRUE)
  <2>1. \/ brand' = [brand EXCEPT !.palette = "stated"]
        \/ brand' = [brand EXCEPT !.noLogo = TRUE]
    BY <1>2 DEF TurnSaves
  <2> QED
    BY <2>1 DEF Inv, Typed, Brand
<1>3. CASE UNCHANGED brand
  BY <1>3
<1> QED
  BY <1>1, <1>2, <1>3
  DEF MediaNext, Photo, Note, Arrives, TakeJob, TakeRunning, Lose, PhotoBegins, PhotoDecided,
      PhotoStored, NoteBegins, NoteTranscribed, NoteStored, NoteUnheard, TextBegins, TurnBegins,
      TurnEnds, mediaVars

\* The handler after a step that neither takes a job, decides nor reads the brand.
LEMMA HandKept ==
  ASSUME Inv, LogoInv, [MediaNext]_mediaVars, NEW i \in Instances,
         hand'[i].taken = hand[i].taken, hand'[i].logo = hand[i].logo,
         hand'[i].at # "storing" \/ hand[i].logo = TRUE \/ hand[i].at = "storing"
  PROVE  HandInv(hand'[i], brand')
  BY BrandGrows DEF LogoInv, HandInv

LEMMA EmptyHand == ASSUME NEW b PROVE HandInv(Empty, b)
  BY DEF HandInv, Empty, Bare

LEMMA LogoStepOk == Inv /\ LogoInv /\ [MediaNext]_mediaVars => LogoInv'
<1> SUFFICES ASSUME Inv, LogoInv, [MediaNext]_mediaVars, NEW i \in Instances
             PROVE  HandInv(hand'[i], brand')
  BY DEF LogoInv
<1>0. hand \in [Instances -> Hand] /\ hand[i] \in Hand /\ brand \in Brand
  BY DEF Inv, Typed
<1>1. CASE hand'[i] = hand[i]
  BY <1>1, HandKept, BrandGrows DEF LogoInv, HandInv
<1>2. CASE hand'[i] = Empty
  BY <1>2, EmptyHand
<1>3. ASSUME TakeJob(i) \/ TakeRunning(i) PROVE HandInv(hand'[i], brand')
  <2>1. PICK k : Take(i, k)
    BY <1>3 DEF TakeJob, TakeRunning
  <2>2. brand' = brand
    BY <1>3 DEF TakeJob, TakeRunning
  <2> DEFINE new == [Empty EXCEPT !.at = "begun", !.msg = k, !.taken = brand]
  <2>3. new.at = "begun" /\ new.logo = FALSE /\ new.taken = brand
    BY DEF Empty
  <2>4. hand'[i] = new
    BY <1>0, <2>1 DEF Take
  <2> HIDE DEF new
  <2> QED
    BY <2>2, <2>3, <2>4 DEF HandInv
<1>4. ASSUME PhotoDecided(i) PROVE HandInv(hand'[i], brand')
  <2>1. /\ hand' = [hand EXCEPT ![i].at = "making", ![i].logo = IsLogo(hand[i].msg)]
        /\ brand' = brand
    BY <1>4 DEF PhotoDecided
  <2> DEFINE logo == IsLogo(hand[i].msg)
  <2>2. logo => brand.logo = 0 /\ brand.noLogo = FALSE
    BY <1>0 DEF IsLogo, MayBeLogo, Brand
  <2>3. hand'[i] = [hand[i] EXCEPT !.at = "making", !.logo = logo]
    BY <1>0, <2>1
  <2> HIDE DEF logo
  <2>4. /\ hand'[i].at = "making" /\ hand'[i].taken = hand[i].taken
        /\ hand'[i].logo = TRUE => logo
    BY <1>0, <2>3 DEF Hand
  <2>5. hand[i].taken.noLogo \in BOOLEAN
    BY <1>0 DEF Hand, Brand
  <2>6. HandInv(hand[i], brand)
    BY DEF LogoInv
  <2> QED
    BY <2>1, <2>2, <2>4, <2>5, <2>6 DEF HandInv
<1>5. ASSUME PhotoStored(i) PROVE HandInv(hand'[i], brand')
  <2>1. \/ hand[i].logo /\ hand' = [hand EXCEPT ![i].at = "storing", ![i].base = brand]
        \/ Step(i, "turn")
    BY <1>5 DEF PhotoStored
  <2>2. hand[i].logo \in BOOLEAN
    BY <1>0 DEF Hand
  <2>3. /\ hand'[i].taken = hand[i].taken /\ hand'[i].logo = hand[i].logo
        /\ hand'[i].at # "storing" \/ hand[i].logo = TRUE
    BY <1>0, <2>1, <2>2 DEF Step, Hand
  <2> QED
    BY <2>3, HandKept
<1>6. ASSUME NEW to, to # "storing", Step(i, to) PROVE HandInv(hand'[i], brand')
  <2>1. /\ hand'[i].taken = hand[i].taken /\ hand'[i].logo = hand[i].logo /\ hand'[i].at = to
    BY <1>0, <1>6 DEF Step, Hand
  <2> QED
    BY <1>6, <2>1, HandKept
<1>7. ASSUME TurnBegins(i) PROVE HandInv(hand'[i], brand')
  <2>1. \/ hand' = [hand EXCEPT ![i] = Empty]
        \/ \E covers : hand' = [hand EXCEPT ![i].at = "asking", ![i].covers = covers]
    BY <1>7 DEF TurnBegins, EndJob
  <2>2. CASE hand' = [hand EXCEPT ![i] = Empty]
    BY <1>0, <1>2, <2>2
  <2>3. CASE \E covers : hand' = [hand EXCEPT ![i].at = "asking", ![i].covers = covers]
    <3>1. /\ hand'[i].taken = hand[i].taken /\ hand'[i].logo = hand[i].logo
          /\ hand'[i].at = "asking"
      BY <1>0, <2>3 DEF Hand
    <3> QED
      BY <3>1, HandKept
  <2> QED
    BY <2>1, <2>2, <2>3
<1>8. ASSUME NEW j \in Instances,
             \/ TakeJob(j) \/ TakeRunning(j) \/ Lose(j) \/ Photo(j) \/ Note(j)
             \/ TextBegins(j) \/ TurnBegins(j) \/ TurnSaves(j) \/ TurnEnds(j)
      PROVE  HandInv(hand'[i], brand')
  <2>1. CASE j # i
    <3>1. hand'[i] = hand[i]
      BY <1>0, <1>8, <2>1
      DEF Photo, Note, TakeJob, TakeRunning, Take, Lose, PhotoBegins, PhotoDecided, PhotoStored,
          LogoStored, NoteBegins, NoteTranscribed, NoteStored, NoteUnheard, TextBegins, TurnBegins,
          TurnSaves, TurnEnds, EndJob, Step
    <3> QED
      BY <1>1, <3>1
  <2>2. CASE j = i /\ (Lose(i) \/ TurnEnds(i))
    BY <1>0, <1>2, <2>2 DEF Lose, TurnEnds, EndJob
  <2>3. CASE j = i /\ TurnSaves(i)
    BY <1>1, <2>3 DEF TurnSaves
  <2>4. CASE j = i /\ (PhotoBegins(i) \/ LogoStored(i) \/ Note(i) \/ TextBegins(i))
    BY <1>6, <2>4 DEF PhotoBegins, LogoStored, Note, NoteBegins, NoteTranscribed, NoteStored,
                      NoteUnheard, TextBegins
  <2> QED
    BY <1>3, <1>4, <1>5, <1>7, <1>8, <2>1, <2>2, <2>3, <2>4 DEF Photo
<1>9. CASE Arrives \/ UNCHANGED mediaVars
  BY <1>1, <1>9 DEF Arrives, mediaVars
<1> QED
  BY <1>8, <1>9 DEF MediaNext

\* A photo becomes the logo only if there was none, and the owner had not said that there
\* is none, when its job was taken: IsLogo is asked after the download and the transaction
\* comes after the measuring, so it is two handlers at once that could get it wrong, for
\* any number of instances and messages (queue/handlers.py: handle_image, "the second one
\* used to overwrite the first").
THEOREM LogosAsAsked == MediaSpec => LogoAsAsked
<1>1. MediaInit => LogoInv
  BY EmptyHand DEF MediaInit, LogoInv
<1>2. Inv /\ LogoInv /\ [MediaNext]_mediaVars =>
        [brand'.logo # brand.logo =>
           \E i \in Instances :
             hand[i].msg = brand'.logo /\ hand[i].taken.logo = 0 /\ ~hand[i].taken.noLogo]_mediaVars
  <2> SUFFICES ASSUME Inv, LogoInv, MediaNext, brand'.logo # brand.logo
               PROVE  \E i \in Instances :
                        hand[i].msg = brand'.logo /\ hand[i].taken.logo = 0 /\ ~hand[i].taken.noLogo
    OBVIOUS
  <2>1. brand \in Brand
    BY DEF Inv, Typed
  <2>2. ASSUME NEW i \in Instances, TurnSaves(i) PROVE brand'.logo = brand.logo
    <3>1. \/ brand' = [brand EXCEPT !.palette = "stated"]
          \/ brand' = [brand EXCEPT !.noLogo = TRUE]
      BY <2>2 DEF TurnSaves
    <3> QED
      BY <2>1, <3>1 DEF Brand
  <2>3. PICK i \in Instances : LogoStored(i)
    BY <2>2
    DEF MediaNext, Photo, Note, Arrives, TakeJob, TakeRunning, Lose, PhotoBegins, PhotoDecided,
        PhotoStored, NoteBegins, NoteTranscribed, NoteStored, NoteUnheard, TextBegins, TurnBegins,
        TurnEnds
  <2>4. brand'.logo = hand[i].msg
    <3>1. PICK palette : brand' = [brand EXCEPT !.logo = hand[i].msg, !.palette = palette]
      BY <2>3 DEF LogoStored
    <3> QED
      BY <2>1, <3>1 DEF Brand
  <2>5. hand[i].at = "storing"
    BY <2>3 DEF LogoStored, At
  <2> QED
    BY <2>4, <2>5 DEF LogoInv, HandInv
<1>3. MediaSpec => []LogoInv
  BY <1>1, Reached, LogoStepOk, PTL DEF MediaSpec
<1> QED
  BY <1>2, <1>3, Reached, PTL DEF MediaSpec, LogoAsAsked
=============================================================================
