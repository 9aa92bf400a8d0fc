--------------------------------- MODULE Boxes ---------------------------------
(***************************************************************************)
(* Boxes on a frame, <<left, top, right, bottom>> with top above bottom:   *)
(* the plate laid under words and pulled back off the product (compose.py  *)
(* _kept_off), and the place a product is stood in, clear of every word    *)
(* and mark (pipeline.py _free_rect, product.py place).  Coordinates are   *)
(* whole; the code rounds once, at the end, inside its own margins.        *)
(***************************************************************************)
EXTENDS Integers, Sequences

Box == Int \X Int \X Int \X Int

Apart(a, b) == a[1] >= b[3] \/ b[1] >= a[3] \/ a[2] >= b[4] \/ b[2] >= a[4]
Inside(a, b) == a[1] >= b[1] /\ a[2] >= b[2] /\ a[3] <= b[3] /\ a[4] <= b[4]
Real(a) == a[1] < a[3] /\ a[2] < a[4]

Least(a, b) == IF a <= b THEN a ELSE b
Most(a, b) == IF a >= b THEN a ELSE b

-----------------------------------------------------------------------------
Feathered(box, feather) ==
  <<box[1] - feather, box[2] - feather, box[3] + feather, box[4] + feather>>

\* What is left of a box above, below, to the left and to the right of another: the four
\* options of both algorithms.
Above(box, keep) == <<box[1], box[2], box[3], keep[2]>>
Below(box, keep) == <<box[1], keep[4], box[3], box[4]>>
LeftOf(box, keep) == <<box[1], box[2], keep[1], box[4]>>
RightOf(box, keep) == <<keep[3], box[2], box[3], box[4]>>

\* Pulled back on the side where it loses least, in the order tuples compare: b, l, r, t.
KeptOff_LeftOrRight(box, keep) ==
  IF Apart(box, keep) THEN box
  ELSE IF keep[3] - box[1] <= box[3] - keep[1] THEN RightOf(box, keep) ELSE LeftOf(box, keep)

KeptOff(box, keep) ==
  LET b == box[4] - keep[2]
      l == keep[3] - box[1]
      r == box[3] - keep[1]
      t == keep[4] - box[2]
  IN IF Apart(box, keep) THEN box
     ELSE IF b <= l /\ b <= r /\ b <= t THEN Above(box, keep)
     ELSE IF l <= r /\ l <= t THEN RightOf(box, keep)
     ELSE IF r <= t THEN LeftOf(box, keep)
     ELSE Below(box, keep)

\* "The feather reaches past the words; it stops at the product": pulled back off the
\* product, a plate still lies under all of its words (_make_legible, _kept_off).
PlateUnderWords(words, keep, feather) ==
  Apart(words, keep) =>
    LET box == KeptOff(Feathered(words, feather), keep)
    IN Apart(box, keep) /\ Inside(words, box)

-----------------------------------------------------------------------------
Area(a) == Most(0, a[3] - a[1]) * Most(0, a[4] - a[2])

\* The largest of the four, the first of equals.
Larger(a, b) == IF Area(b) > Area(a) THEN b ELSE a
CutOff(rect, keep) ==
  Larger(Larger(Larger(Above(rect, keep), Below(rect, keep)), LeftOf(rect, keep)),
         RightOf(rect, keep))

\* One turn of the loop: the first keep-out still in the way.
Clear(rect, keeps) ==
  LET hits == {n \in DOMAIN keeps : ~Apart(rect, keeps[n])}
  IN IF hits = {} THEN rect
     ELSE CutOff(rect, keeps[CHOOSE n \in hits : \A m \in hits : n <= m])

Rounds_One(keeps) == 1

Rounds(keeps) == Len(keeps) + 1

\* `start` is the part of the photo window inside the safe zone.
FreeRect(start, keeps) ==
  LET after[n \in 0 .. Rounds(keeps)] ==
        IF n = 0 THEN start ELSE Clear(after[n - 1], keeps)
  IN after[Rounds(keeps)]

\* place: the product as large as it fits with a margin on every side, at most a quarter
\* enlarged, standing on the floor of its space and held inside it.
PlacedSize(cut, free, margin) ==
  LET zone_w == Most(1, free[3] - free[1] - 2 * margin)
      zone_h == Most(1, free[4] - free[2] - 2 * margin)
      scaled(side) == Most(1, Least(Least((side * zone_w) \div cut[1], (side * zone_h) \div cut[2]),
                                    (side * 5) \div 4))
  IN <<scaled(cut[1]), scaled(cut[2])>>

Place(cut, free, margin) ==
  LET size == PlacedSize(cut, free, margin)
      zone_w == Most(1, free[3] - free[1] - 2 * margin)
      middle == free[1] + margin + (zone_w - size[1]) \div 2
      x == Most(free[1] + margin, Least(middle, free[3] - margin - size[1]))
      y == free[4] - margin - size[2]
  IN <<x, y, x + size[1], y + size[2]>>

\* "The product stands in the rectangle the measured layout leaves clear of words and
\* mark, so nothing sits on it -- by construction" (_build_one), wherever there is room for
\* it with its margin.
ProductClear(start, keeps, cut, margin) ==
  LET free == FreeRect(start, keeps)
  IN Real(free) =>
       /\ Inside(free, start) /\ \A n \in DOMAIN keeps : Apart(free, keeps[n])
       /\ (free[3] - free[1] > 2 * margin /\ free[4] - free[2] > 2 * margin)
            => Inside(Place(cut, free, margin), free)

\* "The largest rectangle inside the photo window and the safe zone that the measured
\* layout leaves clear" (_free_rect).  Refuted: each keep-out is cut off by itself.
FreeRectLargest(start, keeps, all) ==
  \A a \in all :
    Real(a) /\ Inside(a, start) /\ (\A n \in DOMAIN keeps : Apart(a, keeps[n]))
      => Area(a) <= Area(FreeRect(start, keeps))
=============================================================================
