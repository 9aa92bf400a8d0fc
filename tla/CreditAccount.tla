---------------------------- MODULE CreditAccount ----------------------------
(***************************************************************************)
(* What the billing promises the owner, with no idempotency keys, creative *)
(* rows or workers in it: credits come in with a payment, once for each;   *)
(* they are spent on a creative once, and only when they are there; what   *)
(* is spent on a creative may come back in parts and never exceeds what    *)
(* it cost.  No other step touches the balance.                            *)
(***************************************************************************)
EXTENDS Integers, FiniteSetsExt

CONSTANTS Creatives, Payments, START, PACK

VARIABLES balance,
          kept,       \* credits spent on a creative and not given back
          bought,     \* creatives ever charged for
          received    \* payments credited

avars == <<balance, kept, bought, received>>

AInit == balance = START /\ kept = [c \in Creatives |-> 0] /\ bought = {} /\ received = {}

Total(f) == MapThenSumSet(LAMBDA c : f[c], Creatives)

Receive(p) ==
  /\ p \in Payments \ received
  /\ received' = received \union {p}
  /\ balance' = balance + PACK
  /\ UNCHANGED <<kept, bought>>

Buy(c) ==
  /\ c \in Creatives \ bought
  /\ bought' = bought \union {c}
  /\ \E n \in 1..balance : balance' = balance - n /\ kept' = [kept EXCEPT ![c] = n]
  /\ UNCHANGED received

\* One transaction may give back for several creatives.
GiveBack ==
  /\ \A c \in Creatives : kept'[c] \in 0..kept[c]
  /\ balance' = balance + Total(kept) - Total(kept')
  /\ UNCHANGED <<bought, received>>

ANext == (\E p \in Payments : Receive(p)) \/ (\E c \in Creatives : Buy(c)) \/ GiveBack

ASpec == AInit /\ [][ANext]_avars
=============================================================================
