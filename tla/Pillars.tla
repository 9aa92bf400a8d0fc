------------------------------- MODULE Pillars -------------------------------
(***************************************************************************)
(* app/insights/plan.py, the arithmetic of a month: how many posts of each *)
(* pillar a goal's mix gives n free days, and in which order.  Shares are  *)
(* percentages, so that they compare without rounding.                     *)
(***************************************************************************)
EXTENDS Integers, Sequences, SequencesExt, FiniteSetsExt

\* The keys of each mix, in the order of the dict.
Order == <<"product", "proof", "education", "behind_the_scenes", "offer">>
Names == {Order[i] : i \in DOMAIN Order}

Mix(product, proof, education, behind, offer) ==
  [p \in Names |-> CASE p = "product" -> product [] p = "proof" -> proof
                     [] p = "education" -> education [] p = "offer" -> offer
                     [] OTHER -> behind]

MIX_BY_GOAL ==
  [awareness |-> Mix(30, 15, 25, 20, 10), footfall |-> Mix(25, 15, 10, 15, 35),
   leads |-> Mix(20, 30, 30, 10, 10), launch |-> Mix(40, 15, 15, 20, 10)]

GOALS == DOMAIN MIX_BY_GOAL

InOrder(p) == CHOOSE i \in DOMAIN Order : Order[i] = p

\* Of S, the pillar with the largest share, amount over whole; max and sorted keep the
\* dict's order among equals.
Ahead(S, amount, whole) ==
  CHOOSE p \in S : \A q \in S \ {p} :
    LET ahead == amount[p] * whole[q] - amount[q] * whole[p]
    IN ahead > 0 \/ (ahead = 0 /\ InOrder(p) < InOrder(q))

\* round(): to the nearest, halves to the even neighbour.
RoundShare(share, n) ==
  LET whole == (share * n) \div 100
      rest == (share * n) % 100
  IN IF rest > 50 \/ (rest = 50 /\ whole % 2 = 1) THEN whole + 1 ELSE whole

Total(counts) ==
  counts["product"] + counts["proof"] + counts["education"] + counts["behind_the_scenes"]
    + counts["offer"]

\* A hundred times what the pillar still lacks of its share.
Lack(mix, counts, n, p) == mix[p] * n - 100 * counts[p]

\* One turn of either while: a post to the pillar furthest below its share, or from the one
\* furthest above.  Of equal surpluses the code's doubles make that of the smaller share
\* the larger.
Nearer(mix, n, counts) ==
  LET one == [p \in Names |-> 1]
      short == Ahead(Names, [p \in Names |-> Lack(mix, counts, n, p)], one)
      over == Ahead(Names, [p \in Names |-> -101 * Lack(mix, counts, n, p) - mix[p]], one)
  IN IF Total(counts) < n THEN [counts EXCEPT ![short] = @ + 1]
     ELSE IF Total(counts) > n THEN [counts EXCEPT ![over] = @ - 1]
     ELSE counts

\* The rounded shares, made to add up to n.
Counts(mix, n) ==
  LET made[i \in 0 .. Len(Order)] ==
        IF i = 0 THEN [p \in Names |-> RoundShare(mix[p], n)] ELSE Nearer(mix, n, made[i - 1])
  IN made[Len(Order)]

NextPillar_AnyAgain(mix, left, last) ==
  LET open == {p \in Names : left[p] > 0}
  IN IF open = {} THEN "product"
     ELSE Ahead(open, left, mix)

\* The pillar with most of its share left, other than the one just used if there is
\* another.
NextPillar(mix, left, last) ==
  LET open == {p \in Names : left[p] > 0}
      others == open \ {last}
  IN IF open = {} THEN "product"
     ELSE Ahead(IF others = {} THEN open ELSE others, left, mix)

\* One more day is given its pillar.
NextDay(mix, acc) ==
  LET p == NextPillar(mix, acc.left, acc.last)
  IN [out |-> Append(acc.out, p), left |-> [acc.left EXCEPT ![p] = @ - 1], last |-> p]

WeightedPillars(mix, n) ==
  LET dealt[i \in 0 .. n] ==
        IF i = 0 THEN [out |-> <<>>, left |-> Counts(mix, n), last |-> "none"]
        ELSE NextDay(mix, dealt[i - 1])
  IN dealt[n].out

-----------------------------------------------------------------------------
\* Every day has a pillar and every pillar is within one post of its share (the docstrings
\* of plan and of _weighted_pillars).
SharesKept(mix, n) ==
  LET pillars == WeightedPillars(mix, n)
      Count(p) == Cardinality({i \in 1 .. n : pillars[i] = p})
  IN /\ Len(pillars) = n
     /\ \A p \in Names : LET lack == mix[p] * n - 100 * Count(p)
                         IN -100 < lack /\ lack < 100

\* For each goal and each number of free days the shares are kept, and no two days in a row
\* have the same pillar.  TLC evaluates it for the days that a month can have.
SpreadAsPromised(goal, n) ==
  LET pillars == WeightedPillars(MIX_BY_GOAL[goal], n)
  IN /\ SharesKept(MIX_BY_GOAL[goal], n)
     /\ \A i \in 2 .. n : pillars[i] # pillars[i - 1]
=============================================================================
