---------------------------- MODULE PrintableArea ----------------------------
(***************************************************************************)
(* job_compute_area: the pixels a client is told to render.                 *)
(*                                                                          *)
(* Lengths are exact here: the unit is 1/1016 inch, in which the sheets     *)
(* given in inches, those given in millimetres (40 units each) and the      *)
(* hardware margin of 1/8 inch are all integers.  The code computes in       *)
(* double and rounds with lround; the two can differ only where a length    *)
(* meets a half of a pixel.  Insets of more than 2^31 pixels, which the     *)
(* cast to int wraps, are left out.                                         *)
(***************************************************************************)
EXTENDS Integers

Inch == 1016
MM(x) == 40 * x
Tenths(x) == (x * Inch) \div 10

\* DEFAULT_MARGIN_INCHES
Margin == Inch \div 8

media_dims ==
    { <<"US_Letter", Tenths(85), 11 * Inch>>, <<"US_Legal", Tenths(85), 14 * Inch>>,
      <<"B_Tabloid", 11 * Inch, 17 * Inch>>, <<"Super B", 13 * Inch, 19 * Inch>>,
      <<"ISO_A3", MM(297), MM(420)>>, <<"ISO_A4", MM(210), MM(297)>>,
      <<"ISO_A6", MM(105), MM(148)>>, <<"HAGAKI", MM(100), MM(148)>>,
      <<"Photo_L", Tenths(35), 5 * Inch>>, <<"Photo_4x6", 4 * Inch, 6 * Inch>>,
      <<"Photo_5x7", 5 * Inch, 7 * Inch>>, <<"Photo_5x7_MainTray", 5 * Inch, 7 * Inch>>,
      <<"Photo_8x10", 8 * Inch, 10 * Inch>>, <<"Photo_10x15", MM(100), MM(150)>>,
      <<"Photo_11x14", 11 * Inch, 14 * Inch>>, <<"Photo_4x8", 4 * Inch, 8 * Inch>>,
      <<"Photo_4X12", 4 * Inch, 12 * Inch>>,
      <<"Printable CD 3.5 inch", Tenths(35), Tenths(35)>>,
      <<"Printable CD 5 inch", MM(120), MM(120)>> }

HasDims(media) == \E row \in media_dims : row[1] = media
media_lookup(media) == CHOOSE row \in media_dims : row[1] = media
Width(media) == media_lookup(media)[2]
Height(media) == media_lookup(media)[3]

-----------------------------------------------------------------------------

\* lround of a length times the resolution, for lengths of zero and more.
Pixels(len, dpi) == (2 * len * dpi + Inch) \div (2 * Inch)

\* Mutant: an inset smaller than the hardware margin is taken as it is.
ClampNot(inset) == inset

\* What the printer can honour of an inset.
Clamp(inset) == IF inset < Margin THEN Margin ELSE inset

\* Pixels of the sheet less the hardware margins, and of what two facing insets
\* take away from them beyond the margin.
Raw(side, dpi) == Pixels(side - Margin - Margin, dpi)
Taken(a, b, dpi) == Pixels((Clamp(a) - Margin) + (Clamp(b) - Margin), dpi)

\* The imageable region is counted inclusively.
Extent(side, a, b, dpi) == Raw(side, dpi) - Taken(a, b, dpi) + 1

NoArea == [ok |-> FALSE, dpi |-> 0, raw_width |-> 0, raw_height |-> 0,
           width |-> 0, height |-> 0, params_adjusted |-> FALSE]

\* The area of a job with parameters p; ok is the return value.
Area(p, dpi) ==
    LET w == Width(p.mediaSize)
        h == Height(p.mediaSize)
        width == Extent(w, p.leftInset, p.rightInset, dpi)
        height == Extent(h, p.topInset, p.bottomInset, dpi)
    IN  IF ~HasDims(p.mediaSize) THEN NoArea
        ELSE IF p.borderless
        THEN [ok |-> TRUE, dpi |-> dpi,
              raw_width |-> Pixels(w, dpi), raw_height |-> Pixels(h, dpi),
              width |-> Pixels(w, dpi), height |-> Pixels(h, dpi),
              params_adjusted |-> FALSE]
        ELSE [ok |-> width > 0 /\ height > 0, dpi |-> dpi,
              raw_width |-> Raw(w, dpi), raw_height |-> Raw(h, dpi),
              width |-> width, height |-> height,
              params_adjusted |->
                \E i \in {p.topInset, p.leftInset, p.rightInset, p.bottomInset} : i < Margin]
=============================================================================
