-------------------------------- MODULE Frames --------------------------------
(***************************************************************************)
(* The sizes a picture goes through: the window that the layout leaves for *)
(* it, the frame it is generated at (creative/imagegen/base.py), what each *)
(* vendor makes of that frame (imagegen/providers.py, pipeline.py), and    *)
(* how the compositor fits what comes back (creative/compose.py).  Sizes   *)
(* are pairs of pixels; fractions are compared by cross-multiplying.       *)
(***************************************************************************)
EXTENDS Integers, Sequences, SequencesExt, FiniteSetsExt

GEN_EDGE_MULTIPLE == 16
GEN_MIN_PIXELS == 655360
GEN_MAX_PIXELS == 2560 * 1440
GEN_MAX_EDGE == 3840
BFL_MAX_PIXELS == 4000000
OPENAI_MAX_PIXELS == 8294400

EXPORT == <<1080, 1350>>            \* a post
CONFIGURED == <<1600, 2000>>        \* settings.imagegen_size

NoFrame == <<0, 0>>                 \* WindowTooShort

-----------------------------------------------------------------------------
\* num/den to the nearest whole, halves to the even neighbour.
RoundHalfEven(num, den) ==
  LET whole == num \div den
      rest == 2 * (num % den)
  IN IF rest > den \/ (rest = den /\ whole % 2 = 1) THEN whole + 1 ELSE whole

Snap(num, den) == Max({16, 16 * RoundHalfEven(num, 16 * den)})

\* What a frame loses when it is scaled to cover a window, in window pixels: the
\* overhang of one side, as a fraction <<num, den>>.
CropFor(frame, window) ==
  LET byWidth == window[1] * frame[2]
      byHeight == window[2] * frame[1]
  IN IF byWidth >= byHeight THEN <<byWidth - byHeight, frame[1]>>
     ELSE <<byHeight - byWidth, frame[2]>>

Covers(frame, window) == frame[1] >= window[1] /\ frame[2] >= window[2]

Loses(frame, window, pixels) ==
  LET crop == CropFor(frame, window) IN crop[1] <= pixels * crop[2]

CROP_TOLERANCE == 2
GENERATED_CROP_TOLERANCE == 4

Legal(w, h) ==
  /\ Max({w, h}) <= GEN_MAX_EDGE /\ Max({w, h}) <= 3 * Min({w, h})
  /\ GEN_MIN_PIXELS <= w * h /\ w * h <= GEN_MAX_PIXELS

Candidates(window) ==
  LET bw == window[1]
      bh == window[2]
      steps == (Snap(-((-13 * bw) \div 10), 1) \div 16) .. (Snap(16 * bw, 10) \div 16)
  IN {f \in {<<16 * s, Snap(16 * s * bh, bw) + more>> : s \in steps, more \in {0, 16}} :
        Covers(f, window) /\ Legal(f[1], f[2])}

\* The order of the search: within the tolerance first, then the smaller trim in
\* hundredths of a pixel, then nearest to the oversampling of the post, then as found.
Cents(frame, window) == LET c == CropFor(frame, window) IN RoundHalfEven(100 * c[1], c[2])

OffTarget(frame, window) ==
  LET d == frame[1] * EXPORT[1] - window[1] * CONFIGURED[1] IN IF d < 0 THEN -d ELSE d

Better(f, g, window) ==
  LET fits(x) == Loses(x, window, CROP_TOLERANCE)
      cf == Cents(f, window)
      cg == Cents(g, window)
  IN IF fits(f) # fits(g) THEN fits(f)
     ELSE IF cf # cg THEN cf < cg
     ELSE IF OffTarget(f, window) # OffTarget(g, window)
       THEN OffTarget(f, window) < OffTarget(g, window)
     ELSE f[1] < g[1] \/ (f[1] = g[1] /\ f[2] < g[2])

\* What generation_size_for_box once did: the best frame whatever it trims.
SizeForBox_AnyTrim(window) ==
  LET found == Candidates(window)
  IN IF found = {} THEN NoFrame
     ELSE CHOOSE f \in found : \A g \in found \ {f} : Better(f, g, window)

GenerationSizeForBox(window) ==
  LET found == Candidates(window)
      best == CHOOSE f \in found : \A g \in found \ {f} : Better(f, g, window)
  IN IF found = {} \/ Cents(best, window) > 100 * GENERATED_CROP_TOLERANCE THEN NoFrame
     ELSE best

\* Of the whole canvas of a post: the configured frame, which has its ratio.
GenerationSize(window) == IF window = EXPORT THEN CONFIGURED ELSE GenerationSizeForBox(window)

-----------------------------------------------------------------------------
\* openai_size: the frame itself, or an error.
OpenAIAccepts(f) ==
  /\ f[1] % 16 = 0 /\ f[2] % 16 = 0
  /\ Max({f[1], f[2]}) <= 3840 /\ Max({f[1], f[2]}) <= 3 * Min({f[1], f[2]})
  /\ GEN_MIN_PIXELS <= f[1] * f[2] /\ f[1] * f[2] <= OPENAI_MAX_PIXELS

\* What BFL is asked for: multiples of 16, shrunk until under its ceiling.
Snap16(n) == Max({64, 16 * RoundHalfEven(n, 16)})

BflSize(f) ==
  LET Shrink(g, i) ==
        IF g[1] * g[2] <= BFL_MAX_PIXELS THEN g
        ELSE <<Snap16((9 * g[1]) \div 10), Snap16((9 * g[2]) \div 10)>>
  IN FoldLeft(Shrink, <<Snap16(f[1]), Snap16(f[2])>>, <<1, 2, 3, 4, 5, 6, 7, 8>>)

\* Replicate renders one of eleven ratios, whatever it is asked for.
REPLICATE_RATIOS ==
  <<<<1, 1>>, <<16, 9>>, <<21, 9>>, <<3, 2>>, <<2, 3>>, <<4, 5>>, <<5, 4>>, <<3, 4>>,
    <<4, 3>>, <<9, 16>>, <<9, 21>>>>

\* How far the ratio is from w/h, times h.
RatioOff(r, f) ==
  LET d == r[1] * f[2] - r[2] * f[1] IN <<IF d < 0 THEN -d ELSE d, r[2]>>

NearestRatio(f) ==
  LET off(i) == RatioOff(REPLICATE_RATIOS[i], f)
      nearer(i, j) == off(i)[1] * off(j)[2] < off(j)[1] * off(i)[2]
  IN REPLICATE_RATIOS[CHOOSE i \in DOMAIN REPLICATE_RATIOS :
       \A j \in DOMAIN REPLICATE_RATIOS \ {i} : nearer(i, j) \/ (~nearer(j, i) /\ i < j)]

\* A picture of a ratio loses the same of a window at any size.
RatioFits(r, window) == Loses(r, window, GENERATED_CROP_TOLERANCE)

\* _shape_the_vendor_cannot_make, asked before anything is spent.
ShapeTheVendorCannotMake(asked, window) == ~RatioFits(NearestRatio(asked), window)

\* _size_fault: what a vendor delivered, against what it was asked and must cover.
SizeFault(exact, got, asked, window) ==
  IF exact THEN got # asked
  ELSE ~(Loses(got, window, GENERATED_CROP_TOLERANCE) /\ Covers(got, window))

-----------------------------------------------------------------------------
\* fit_background and picture_fit.  The scale is W/iw or H/ih, the larger: cut holds the
\* sides of the crop, in units of 1/den of a source pixel.
FillsWidth(photo, window) == window[1] * photo[2] >= window[2] * photo[1]

Cut(photo, window) ==
  IF FillsWidth(photo, window)
  THEN [w |-> photo[1] * window[1], h |-> window[2] * photo[1], den |-> window[1]]
  ELSE [w |-> window[1] * photo[2], h |-> photo[2] * window[2], den |-> window[2]]

\* The scale is at most num/100.
EnlargedAtMost(photo, window, num) ==
  100 * window[1] <= num * photo[1] /\ 100 * window[2] <= num * photo[2]

FitsGenerated(picture, window) ==
  EnlargedAtMost(picture, window, 100) /\ Loses(picture, window, GENERATED_CROP_TOLERANCE)

\* A picture kept from an earlier version may lose 15% of the window's side.
FitsKept(picture, window) ==
  LET crop == CropFor(picture, window)
      side == IF FillsWidth(picture, window) THEN window[2] ELSE window[1]
  IN EnlargedAtMost(picture, window, 100) /\ 100 * crop[1] <= 15 * side * crop[2]

Whole == [mode |-> "whole", at |-> <<0, 0>>]
Letterbox == [mode |-> "letterbox", at |-> <<0, 0>>]
PhotoTooSmall == [mode |-> "refused", at |-> <<0, 0>>]

PlaceCrop_Centred(lo, hi, span, den, full) == RoundHalfEven((lo + hi) * den - span, 2 * den)

\* Centre the crop on the subject, keep a margin where there is room, then clamp to the
\* picture; in hundredths of 1/den of a pixel, then rounded.
PlaceCrop(lo, hi, span, den, full) ==
  LET px == 100 * den
      margin == Min({4 * span, 50 * (span - (hi - lo) * den)})
      centred == 50 * ((lo + hi) * den - span)
      start == Max({Min({centred, lo * px - margin}), hi * px + margin - 100 * span})
  IN RoundHalfEven(Min({Max({0, start}), full * px - 100 * span}), px)

TooLarge(lo, hi, span, den) == 2 * den * (hi - lo) > 2 * span + den

FocusCrop(photo, cut, focus) ==
  [mode |-> "crop",
   at |-> <<PlaceCrop(focus[1], focus[3], cut.w, cut.den, photo[1]),
            PlaceCrop(focus[2], focus[4], cut.h, cut.den, photo[2])>>]

FitPhoto(photo, window, focus) ==
  LET cut == Cut(photo, window)
  IN IF photo = window THEN Whole
     ELSE IF ~EnlargedAtMost(photo, window, 115) THEN PhotoTooSmall
     ELSE IF Loses(photo, window, 1) THEN Whole
     ELSE IF TooLarge(focus[1], focus[3], cut.w, cut.den)
             \/ TooLarge(focus[2], focus[4], cut.h, cut.den) THEN Letterbox
     ELSE FocusCrop(photo, cut, focus)

\* The far corner of a crop placed at `at`.
FarCorner(photo, window, at) ==
  LET cut == Cut(photo, window)
  IN <<RoundHalfEven(at[1] * cut.den + cut.w, cut.den), RoundHalfEven(at[2] * cut.den + cut.h, cut.den)>>

-----------------------------------------------------------------------------
\* "Nothing is ever generated that the compositor will throw away"
\* (generation_size_for_box): the frame for a window is one that every vendor accepts as
\* it is, what comes back passes the size gate and fits the window; and a shape is refused
\* on Replicate's behalf only when none of its ratios would do.
FrameSuitsAll(window) ==
  LET f == GenerationSize(window)
  IN f # NoFrame =>
       /\ OpenAIAccepts(f) /\ BflSize(f) = f
       /\ FitsGenerated(f, window) /\ ~SizeFault(FALSE, f, f, window)
       /\ ShapeTheVendorCannotMake(f, window) =>
            \A i \in DOMAIN REPLICATE_RATIOS : ~RatioFits(REPLICATE_RATIOS[i], window)

\* Only a window that is too short has no frame.  Refuted: a window a few pixels off a
\* square, 892x887 or 1080x1075, is covered by no two multiples of 16 within 4 pixels.
EveryWindowHasFrame(window) == window[2] >= 513 => GenerationSize(window) # NoFrame

\* "The crop is placed so the whole of it stays inside the window" (fit_background): of a
\* photograph that is cropped the subject is kept, and nothing outside the photograph is
\* taken, to the pixel that rounding may cost.
SubjectKept(photo, window, focus) ==
  LET fit == FitPhoto(photo, window, focus)
      far == FarCorner(photo, window, fit.at)
  IN fit.mode = "crop" =>
       \A i \in {1, 2} :
         /\ fit.at[i] >= 0 /\ far[i] <= photo[i] + 1
         /\ fit.at[i] <= focus[i] + 1 /\ focus[i + 2] <= far[i] + 1
=============================================================================
