-------------------------------- MODULE Vendor --------------------------------
(***************************************************************************)
(* One call of an image provider (creative/imagegen/providers.py): the     *)
(* POST that orders a picture, tried again on busy answers and on lost     *)
(* ones, the polls of the vendors that answer before the picture is there, *)
(* the download, and the clock over all of it.  The vendor is external: it *)
(* may take an order whose answer is lost.  Time goes in TICK seconds.     *)
(***************************************************************************)
EXTENDS Integers

CONSTANTS PROVIDERS,        \* name -> [budget, read, polled, poll]: seconds / TICK
          SUBMIT_ATTEMPTS, GET_ATTEMPTS, RETRY_AFTER,
          MAX_BLIPS         \* bound: faults on the way to the vendor

ASSUME VendorConstants ==
  /\ SUBMIT_ATTEMPTS \in Nat \ {0} /\ GET_ATTEMPTS \in Nat \ {0} /\ {MAX_BLIPS, RETRY_AFTER} \subseteq Nat
  /\ \A p \in DOMAIN PROVIDERS :
       /\ PROVIDERS[p].polled \in BOOLEAN
       /\ {PROVIDERS[p].budget, PROVIDERS[p].read, PROVIDERS[p].poll} \subseteq Nat

VARIABLES provider, at, tries, elapsed, waited,
          orders,     \* pictures the vendor has taken on, each billed
          recorded,   \* pictures whose cost the result carries
          blips, slow, bad

vendorVars == <<provider, at, tries, elapsed, waited, orders, recorded, blips, slow, bad>>

P == PROVIDERS[provider]
Over == at \in {"done", "failed"}

VendorInit ==
  /\ provider \in DOMAIN PROVIDERS
  /\ at = "submit" /\ tries = 0 /\ elapsed = 0 /\ waited = 0
  /\ orders = 0 /\ recorded = 0 /\ blips = 0
  /\ slow = FALSE /\ bad = FALSE

\* Every await is inside wait_for(BUDGET_S): time passes up to the budget.
Within(ticks) == elapsed + ticks <= P.budget /\ elapsed' = elapsed + ticks

Blip == blips < MAX_BLIPS /\ blips' = blips + 1

-----------------------------------------------------------------------------
MoreSubmits == tries + 1 < SUBMIT_ATTEMPTS

SubmitAgain == at' = (IF MoreSubmits THEN "submit" ELSE "failed") /\ tries' = tries + 1

\* 2xx: a synchronous vendor's answer is the picture or its address, of the others a job.
Submitted ==
  /\ at = "submit"
  /\ \E t \in 0 .. P.read : Within(t)
  /\ orders' = orders + 1
  /\ at' = (IF P.polled THEN "poll" ELSE "fetch") /\ tries' = 0 /\ waited' = 0
  /\ UNCHANGED <<provider, recorded, blips, slow, bad>>

\* 429 and the 5xx, "nothing has been generated yet"; and a connection that ends or is
\* silent for the read timeout.  Of neither is it known whether the order was taken.  A
\* pause follows, as long as the vendor asked for up to RETRY_AFTER.
SubmitLost ==
  /\ at = "submit" /\ Blip
  /\ \E t \in {0, RETRY_AFTER, P.read} : Within(t)
  /\ orders' \in {orders, orders + 1}
  /\ SubmitAgain
  /\ UNCHANGED <<provider, waited, recorded, slow, bad>>

\* Any other status, an answer that is not JSON or has no job in it.
SubmitRefused ==
  /\ at = "submit"
  /\ at' = "failed" /\ bad' = TRUE
  /\ orders' \in {orders, orders + 1}
  /\ UNCHANGED <<provider, tries, elapsed, waited, recorded, blips, slow>>

-----------------------------------------------------------------------------
MoreGets_OneLess == tries + 2 < GET_ATTEMPTS

MoreGets == tries + 1 < GET_ATTEMPTS

\* _get: the same GET again, never the submit.
GetLost ==
  /\ at \in {"poll", "fetch"} /\ Blip
  /\ \E t \in {0, P.read} : Within(t) /\ waited' = waited + t
  /\ IF MoreGets THEN tries' = tries + 1 /\ UNCHANGED at
     ELSE at' = "failed" /\ UNCHANGED tries
  /\ UNCHANGED <<provider, orders, recorded, slow, bad>>

\* Not yet: the deadline is looked at after an answer, so the last poll may be late.
PolledEarly ==
  /\ at = "poll" /\ Within(1)
  /\ waited' = waited + 1 /\ tries' = 0
  /\ IF waited' > P.poll THEN at' = "failed" /\ slow' = TRUE ELSE UNCHANGED <<at, slow>>
  /\ UNCHANGED <<provider, orders, recorded, blips, bad>>

PolledReady ==
  /\ at = "poll"
  /\ at' = "fetch" /\ tries' = 0
  /\ UNCHANGED <<provider, elapsed, waited, orders, recorded, blips, slow, bad>>

\* A status that says so, a result without an address, or a status that is final.
PolledFailed ==
  /\ at \in {"poll", "fetch"}
  /\ at' = "failed" /\ bad' = TRUE
  /\ UNCHANGED <<provider, tries, elapsed, waited, orders, recorded, blips, slow>>

\* Downloaded, and readable, large enough and not blank (_gate); or not.
Fetched ==
  /\ at = "fetch" /\ \E t \in 0 .. 1 : Within(t)
  /\ \/ at' = "done" /\ recorded' = recorded + 1 /\ UNCHANGED bad
     \/ at' = "failed" /\ bad' = TRUE /\ UNCHANGED recorded
  /\ UNCHANGED <<provider, tries, waited, orders, blips, slow>>

\* wait_for: cancelled wherever it is, once the budget is spent.
OverBudget ==
  /\ ~Over /\ elapsed = P.budget
  /\ at' = "failed" /\ slow' = TRUE
  /\ UNCHANGED <<provider, tries, elapsed, waited, orders, recorded, blips, bad>>

VendorNext ==
  \/ Submitted \/ SubmitLost \/ SubmitRefused \/ GetLost
  \/ PolledEarly \/ PolledReady \/ PolledFailed \/ Fetched \/ OverBudget

VendorSpec == VendorInit /\ [][VendorNext]_vendorVars

-----------------------------------------------------------------------------
\* "A GET that survives a transient blip without touching the submit" (_get), and a
\* submit that does: fewer blips than attempts never end a call that the vendor answers
\* well and within its time.
BlipsSurvived ==
  at = "failed" => bad \/ slow \/ blips >= SUBMIT_ATTEMPTS \/ blips >= GET_ATTEMPTS

\* A call pays for one picture: "the only thing retried on 429/5xx: nothing has been
\* generated yet" (_submit_with_retry).  Refuted: a gateway's 5xx or a silent connection
\* may come after the order, and it is placed again.
OneOrderPerCall == orders <= 1
=============================================================================
