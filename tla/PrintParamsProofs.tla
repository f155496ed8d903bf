-------------------------- MODULE PrintParamsProofs --------------------------
(***************************************************************************)
(* Proofs about PrintParams and PrintableArea: the printable area is right   *)
(* for every sheet of the table, every resolution and every inset, and the   *)
(* parameters keep their types through accepted and refused edits.          *)
(***************************************************************************)
EXTENDS PrintParams, FiniteSetTheorems, WellFoundedInduction, TLAPS

\* Rounding to pixels is off by half a pixel at most.
LEMMA PixelsRounds ==
    ASSUME NEW len \in Int, NEW dpi \in Int
    PROVE  /\ Pixels(len, dpi) \in Int
           /\ Pixels(len, dpi) * 1016 - 508 <= len * dpi
           /\ len * dpi < Pixels(len, dpi) * 1016 + 508
<1> DEFINE L == len * dpi
<1>1. L \in Int
  OBVIOUS
<1>2. Pixels(len, dpi) = (2 * L + 1016) \div 2032
  <2>1. 2 * len * dpi = 2 * L
    OBVIOUS
  <2> QED BY <2>1 DEF Pixels, Inch
<1> HIDE DEF L
<1>3. /\ (2 * L + 1016) \div 2032 \in Int
      /\ ((2 * L + 1016) \div 2032) * 1016 - 508 <= L
      /\ L < ((2 * L + 1016) \div 2032) * 1016 + 508
  BY <1>1
<1> QED BY <1>2, <1>3 DEF L

\* What a clamped inset leaves out of account is never negative.
LEMMA ClampBounds ==
    ASSUME NEW i \in Int
    PROVE  Clamp(i) \in Int /\ Clamp(i) - Margin \in Nat
BY DEF Clamp, Margin, Inch

\* Two lengths that are rounded apart and subtracted.
LEMMA DifferenceRounds ==
    ASSUME NEW r \in Int, NEW t \in Nat, NEW dpi \in Nat
    PROVE  LET e == Pixels(r, dpi) - Pixels(t, dpi) + 1
           IN  /\ e \in Int /\ Pixels(r, dpi) \in Int
               /\ e <= Pixels(r, dpi) + 1
               /\ (e - 2) * 1016 <= (r - t) * dpi
               /\ (r - t) * dpi <= e * 1016
<1>1. t \in Int /\ dpi \in Int
  OBVIOUS
<1>2. (r - t) * dpi = r * dpi - t * dpi
  OBVIOUS
<1>3. t * dpi \in Nat /\ r * dpi \in Int
  OBVIOUS
<1>4. /\ Pixels(r, dpi) \in Int
      /\ Pixels(r, dpi) * 1016 - 508 <= r * dpi
      /\ r * dpi < Pixels(r, dpi) * 1016 + 508
  BY <1>1, PixelsRounds
<1>5. /\ Pixels(t, dpi) \in Int
      /\ Pixels(t, dpi) * 1016 - 508 <= t * dpi
      /\ t * dpi < Pixels(t, dpi) * 1016 + 508
  BY <1>1, PixelsRounds
<1> DEFINE P == Pixels(r, dpi)
           Q == Pixels(t, dpi)
           L == r * dpi
           M == t * dpi
<1>6. /\ P \in Int /\ Q \in Int /\ L \in Int /\ M \in Nat
      /\ P * 1016 - 508 <= L /\ L < P * 1016 + 508
      /\ Q * 1016 - 508 <= M /\ M < Q * 1016 + 508
      /\ (r - t) * dpi = L - M
  BY <1>2, <1>3, <1>4, <1>5
<1> HIDE DEF P, Q, L, M
<1>7. LET e == P - Q + 1
      IN  /\ e \in Int /\ P \in Int /\ e <= P + 1
          /\ (e - 2) * 1016 <= L - M /\ L - M <= e * 1016
  BY <1>6
<1> QED BY <1>6, <1>7 DEF P, Q

\* The inclusive count of pixels, for two insets that face each other on a side:
\* within a pixel of what they leave of the side, and at most one more than the
\* side less the hardware margins.
THEOREM ExtentIsRight ==
    ASSUME NEW side \in Int, NEW a \in Int, NEW b \in Int, NEW dpi \in Nat
    PROVE  LET e == Extent(side, a, b, dpi)
               left == (side - Clamp(a) - Clamp(b)) * dpi
           IN  /\ e \in Int /\ Raw(side, dpi) \in Int
               /\ e <= Raw(side, dpi) + 1
               /\ (e - 2) * Inch <= left
               /\ left <= e * Inch
<1> DEFINE r == side - Margin - Margin
           t == (Clamp(a) - Margin) + (Clamp(b) - Margin)
<1>1. Margin \in Int /\ Clamp(a) \in Int /\ Clamp(b) \in Int /\ r \in Int /\ t \in Nat
  BY ClampBounds DEF Margin, Inch
<1>2. /\ Raw(side, dpi) = Pixels(r, dpi)
      /\ Extent(side, a, b, dpi) = Pixels(r, dpi) - Pixels(t, dpi) + 1
  BY DEF Raw, Taken, Extent
<1>3. side - Clamp(a) - Clamp(b) = r - t
  BY <1>1
<1> HIDE DEF r, t
<1>4. LET e == Pixels(r, dpi) - Pixels(t, dpi) + 1
      IN  /\ e \in Int /\ Pixels(r, dpi) \in Int
          /\ e <= Pixels(r, dpi) + 1
          /\ (e - 2) * 1016 <= (r - t) * dpi
          /\ (r - t) * dpi <= e * 1016
  BY <1>1, DifferenceRounds
<1> QED BY <1>2, <1>3, <1>4, Inch = 1016 DEF Inch

\* The sheets are integral numbers of units.
LEMMA SheetsAreLengths ==
    ASSUME NEW m, HasDims(m)
    PROVE  Width(m) \in Int /\ Height(m) \in Int
<1>1. \A row \in media_dims : row[2] \in Int /\ row[3] \in Int
  <2> DEFINE Good(row) == row[2] \in Int /\ row[3] \in Int
  <2>1. \A k \in Int : k * Inch \in Int /\ Tenths(k) \in Int /\ MM(k) \in Int
    BY DEF Tenths, MM, Inch
  <2>2. \A s, u, v : u \in Int /\ v \in Int => Good(<<s, u, v>>)
    OBVIOUS
  <2>3. /\ 4 * Inch \in Int /\ 5 * Inch \in Int /\ 6 * Inch \in Int /\ 7 * Inch \in Int
        /\ 8 * Inch \in Int /\ 10 * Inch \in Int /\ 11 * Inch \in Int
        /\ 12 * Inch \in Int /\ 13 * Inch \in Int /\ 14 * Inch \in Int
        /\ 17 * Inch \in Int /\ 19 * Inch \in Int
        /\ Tenths(35) \in Int /\ Tenths(85) \in Int
        /\ MM(100) \in Int /\ MM(105) \in Int /\ MM(120) \in Int /\ MM(148) \in Int
        /\ MM(150) \in Int /\ MM(210) \in Int /\ MM(297) \in Int /\ MM(420) \in Int
    BY <2>1
  <2> HIDE DEF Good
  <2>4. \A row \in media_dims : Good(row)
    BY <2>2, <2>3, ZenonT(200) DEF media_dims
  <2> QED BY <2>4 DEF Good
<1>2. media_lookup(m) \in media_dims
  BY DEF HasDims, media_lookup
<1> QED BY <1>1, <1>2 DEF Width, Height

\* AreaIsRight holds of any parameters with integral insets.
LEMMA AreaOfTypedParams ==
    ASSUME \A f \in Insets : params[f] \in Int
    PROVE  AreaIsRight
<1> SUFFICES ASSUME NEW dpi \in {300, MaxRes},
                    HasDims(params.mediaSize), ~params.borderless
             PROVE  LET a == Area(params, dpi)
                        left(side, i, j) == (side - Clamp(i) - Clamp(j)) * dpi
                        w == left(Width(params.mediaSize), params.leftInset, params.rightInset)
                        h == left(Height(params.mediaSize), params.topInset, params.bottomInset)
                    IN  /\ a.ok => a.width \in 1 .. a.raw_width + 1
                        /\ a.ok => a.height \in 1 .. a.raw_height + 1
                        /\ a.ok => (a.width - 2) * Inch <= w /\ w <= a.width * Inch
                        /\ a.ok => (a.height - 2) * Inch <= h /\ h <= a.height * Inch
                        /\ ~a.ok => w <= 0 \/ h <= 0
  BY DEF AreaIsRight
<1> DEFINE W == Width(params.mediaSize)
           H == Height(params.mediaSize)
           x == Extent(W, params.leftInset, params.rightInset, dpi)
           y == Extent(H, params.topInset, params.bottomInset, dpi)
           w == (W - Clamp(params.leftInset) - Clamp(params.rightInset)) * dpi
           h == (H - Clamp(params.topInset) - Clamp(params.bottomInset)) * dpi
           a == Area(params, dpi)
<1>1. dpi \in Nat
  BY ParamsAssumption
<1>2. W \in Int /\ H \in Int
  BY SheetsAreLengths
<1>3. /\ params.topInset \in Int /\ params.leftInset \in Int
      /\ params.rightInset \in Int /\ params.bottomInset \in Int
  BY DEF Insets
<1>4. /\ x \in Int /\ Raw(W, dpi) \in Int /\ x <= Raw(W, dpi) + 1
      /\ (x - 2) * Inch <= w /\ w <= x * Inch
  BY <1>1, <1>2, <1>3, ExtentIsRight
<1>5. /\ y \in Int /\ Raw(H, dpi) \in Int /\ y <= Raw(H, dpi) + 1
      /\ (y - 2) * Inch <= h /\ h <= y * Inch
  BY <1>1, <1>2, <1>3, ExtentIsRight
<1>6. w \in Int /\ h \in Int
  BY <1>1, <1>2, <1>3, ClampBounds
<1>7. /\ a.ok <=> x > 0 /\ y > 0
      /\ a.width = x /\ a.height = y
      /\ a.raw_width = Raw(W, dpi) /\ a.raw_height = Raw(H, dpi)
  BY DEF Area
<1> HIDE DEF W, H, x, y, w, h, a
<1>8. /\ a.ok => a.width \in 1 .. a.raw_width + 1
      /\ a.ok => a.height \in 1 .. a.raw_height + 1
      /\ a.ok => (a.width - 2) * Inch <= w /\ w <= a.width * Inch
      /\ a.ok => (a.height - 2) * Inch <= h /\ h <= a.height * Inch
      /\ ~a.ok => w <= 0 \/ h <= 0
  BY <1>4, <1>5, <1>6, <1>7 DEF Inch
<1> QED BY <1>8 DEF W, H, w, h, a

-----------------------------------------------------------------------------

\* A nonempty set of places in a table has a first one.
LEMMA FirstPlace ==
    ASSUME NEW S \in SUBSET Nat, S # {}
    PROVE  Min(S) \in S /\ \A y \in S : Min(S) <= y
<1> DEFINE less == {ss \in Nat \X Nat : ss[1] < ss[2]}
<1>1. IsWellFoundedOn(less, Nat)
  BY NatLessThanWellFounded DEF OpToRel
<1>2. \A x, y \in Nat : <<y, x>> \in less <=> y < x
  OBVIOUS
<1> HIDE DEF less
<1>3. PICK x \in S : \A y \in S : <<y, x>> \notin less
  BY <1>1, WFMin
<1>4. \A y \in S : ~(y < x)
  BY <1>2, <1>3
<1>5. \A y \in S : x <= y
  BY <1>4
<1> QED BY <1>5 DEF Min

\* The seven keywords come first, and no key is of two kinds.
LEMMA Places ==
    /\ DOMAIN EnumKeys = 1 .. 7
    /\ \A i, j \in 1 .. 7 : EnumKeys[i] = EnumKeys[j] => i = j
    /\ \A i \in 1 .. 7 : EnumKeys[i] \in Keys
                         /\ EnumKeys[i] \notin Insets \cup Switches \cup {"numCopies"}
    /\ "numCopies" \in Keys /\ Switches \subseteq Keys /\ Insets \subseteq Keys
    /\ "numCopies" \notin Insets \cup Switches /\ Insets \cap Switches = {}
BY DEF EnumKeys, Keys, Insets, Switches

\* An edit names one or two keys, with values that were asked for.
LEMMA EditsAreAsked ==
    ASSUME NEW e \in Edits
    PROVE  /\ DOMAIN e \subseteq Keys /\ DOMAIN e # {}
           /\ \A f \in DOMAIN e : e[f] \in Asks[f]
           /\ Cardinality(DOMAIN e) \in Nat
<1> DEFINE wishes == UNION {{<<f, v>> : v \in Asks[f]} : f \in Keys}
<1>1. PICK a \in wishes, b \in wishes :
           e = [f \in {a[1], b[1]} |-> IF f = a[1] THEN a[2] ELSE b[2]]
  BY DEF Edits
<1>2. \A c \in wishes : c[1] \in Keys /\ c[2] \in Asks[c[1]]
  OBVIOUS
<1> HIDE DEF wishes
<1>3. DOMAIN e = {a[1], b[1]}
  BY <1>1
<1>4. IsFiniteSet({a[1], b[1]})
  <2>1. {a[1], b[1]} = {a[1]} \cup {b[1]}
    OBVIOUS
  <2>2. IsFiniteSet({a[1]})
    BY FS_Singleton
  <2> QED BY <2>1, <2>2, FS_AddElement
<1> QED BY <1>1, <1>2, <1>3, <1>4, FS_CardinalityType

\* What an edit assigns before it is refused, if it is, is of the right kind.
LEMMA AssignedIsTyped ==
    ASSUME TypeOK, NEW e \in Edits
    PROVE  /\ DOMAIN Assigned(e) = Keys
           /\ \A i \in DOMAIN EnumKeys :
                 in_table(Table[EnumKeys[i]], Assigned(e)[EnumKeys[i]])
           /\ Assigned(e).numCopies \in 1 .. 99
           /\ \A f \in Switches : Assigned(e)[f] \in BOOLEAN
           /\ \A f \in Insets : Assigned(e)[f] \in Int
<1> DEFINE taken == Reached(e) \cap DOMAIN e
<1>1. \A f \in Keys : Assigned(e)[f] = IF f \in taken THEN e[f] ELSE params[f]
  BY DEF Assigned
<1>2. ASSUME NEW i \in DOMAIN EnumKeys, EnumKeys[i] \in taken
      PROVE  i \notin BadEnums(e)
  <2>1. CASE BadEnums(e) = {}
    BY <2>1
  <2>2. CASE BadEnums(e) # {}
    <3>1. BadEnums(e) \in SUBSET (1 .. 7)
      BY Places DEF BadEnums
    <3>2. PICK j \in 1 .. Min(BadEnums(e)) - 1 : EnumKeys[i] = EnumKeys[j]
      BY <1>2, <2>2 DEF Reached
    <3>3. Min(BadEnums(e)) \in 1 .. 7 /\ \A y \in BadEnums(e) : Min(BadEnums(e)) <= y
      BY <2>2, <3>1, FirstPlace
    <3>4. j \in 1 .. 7 /\ i \in 1 .. 7
      BY <3>3, Places
    <3>5. i = j
      BY <3>2, <3>4, Places
    <3> QED BY <3>1, <3>2, <3>3, <3>5
  <2> QED BY <2>1, <2>2
<1>3. "numCopies" \in taken => ~BadCopies(e)
  <2>1. \A i \in 1 .. 7 : EnumKeys[i] # "numCopies"
    BY Places
  <2>2. CASE BadEnums(e) # {}
    <3>1. Min(BadEnums(e)) \in 1 .. 7
      BY <2>2, FirstPlace, Places DEF BadEnums
    <3> QED BY <2>1, <2>2, <3>1 DEF Reached
  <2>3. CASE BadEnums(e) = {}
    BY <2>1, <2>3, Places DEF Reached
  <2> QED BY <2>2, <2>3
<1> HIDE DEF taken
<1>4. \A f \in taken : f \in Keys /\ f \in DOMAIN e /\ e[f] \in Asks[f]
  BY EditsAreAsked DEF taken
<1>5. DOMAIN Assigned(e) = Keys
  BY DEF Assigned
<1>6. ASSUME NEW i \in DOMAIN EnumKeys
      PROVE  in_table(Table[EnumKeys[i]], Assigned(e)[EnumKeys[i]])
  <2>1. CASE EnumKeys[i] \in taken
    BY <1>1, <1>2, <1>4, <2>1, Places DEF BadEnums
  <2>2. CASE EnumKeys[i] \notin taken
    BY <1>1, <2>2, Places DEF TypeOK
  <2> QED BY <2>1, <2>2
<1>7. Assigned(e).numCopies \in 1 .. 99
  <2>1. CASE "numCopies" \in taken
    BY <1>1, <1>3, <1>4, <2>1 DEF BadCopies
  <2>2. CASE "numCopies" \notin taken
    BY <1>1, <2>2, Places DEF TypeOK
  <2> QED BY <2>1, <2>2
<1>8. \A f \in Switches : Assigned(e)[f] \in BOOLEAN
  BY <1>1, <1>4, AsksAssumption, Places DEF TypeOK
<1>9. \A f \in Insets : Assigned(e)[f] \in Int
  BY <1>1, <1>4, AsksAssumption, Places DEF TypeOK
<1> QED BY <1>5, <1>6, <1>7, <1>8, <1>9

\* The defaults are of their tables.
LEMMA InitIsTyped == Init => TypeOK
<1> SUFFICES ASSUME Init PROVE TypeOK
  OBVIOUS
<1>1. DOMAIN params = Keys
  BY DEF Init, Defaults, Keys, EnumKeys, Switches, Insets
<1>2. \A i \in DOMAIN EnumKeys : in_table(Table[EnumKeys[i]], params[EnumKeys[i]])
  <2>1. /\ in_table(media_table, "US_Letter")
        /\ in_table(mediatype_table, "Plain")
        /\ in_table(quality_table, "Normal")
        /\ in_table(duplex_table, "None")
        /\ in_table(drytime_table, "Normal")
        /\ in_table(color_table, "Color")
        /\ in_table(tray_table, "Auto")
    <3>1. media_table[1][1] = "US_Letter" /\ 1 \in DOMAIN media_table
      BY DEF media_table
    <3>2. mediatype_table[1][1] = "Plain" /\ 1 \in DOMAIN mediatype_table
      BY DEF mediatype_table
    <3>3. quality_table[2][1] = "Normal" /\ 2 \in DOMAIN quality_table
      BY DEF quality_table
    <3>4. duplex_table[1][1] = "None" /\ 1 \in DOMAIN duplex_table
      BY DEF duplex_table
    <3>5. drytime_table[1][1] = "Normal" /\ 1 \in DOMAIN drytime_table
      BY DEF drytime_table
    <3>6. color_table[2][1] = "Color" /\ 2 \in DOMAIN color_table
      BY DEF color_table
    <3>7. tray_table[2][1] = "Auto" /\ 2 \in DOMAIN tray_table
      BY DEF tray_table
    <3> QED BY <3>1, <3>2, <3>3, <3>4, <3>5, <3>6, <3>7 DEF in_table
  <2> QED BY <2>1 DEF Init, Defaults, EnumKeys, Table
<1>3. params.numCopies \in 1 .. 99
  BY DEF Init, Defaults
<1>4. \A f \in Switches : params[f] \in BOOLEAN
  <2>1. params.borderless = FALSE /\ params.autoRotate = FALSE /\ params.autoScale = FALSE
    BY DEF Init, Defaults
  <2> QED BY <2>1, Zenon DEF Switches
<1>5. \A f \in Insets : params[f] \in Int
  BY DEF Init, Defaults, Insets, Margin, Inch
<1>6. submitted = FALSE /\ insets_set = FALSE /\ DOMAIN granted = Keys
  BY DEF Init
<1>7. asked \in 0 .. MaxKeys
  BY ParamsAssumption DEF Init
<1> QED BY <1>1, <1>2, <1>3, <1>4, <1>5, <1>6, <1>7, Zenon DEF TypeOK

\* An edit assigns what AssignedIsTyped says, refused or not.
LEMMA StepsKeepTypes == TypeOK /\ [Next]_vars => TypeOK'
<1> SUFFICES ASSUME TypeOK, [Next]_vars PROVE TypeOK'
  OBVIOUS
<1>1. ASSUME NEW e \in Edits, Edit(e) PROVE TypeOK'
  <2>1. /\ submitted' \in BOOLEAN /\ insets_set' \in BOOLEAN
        /\ DOMAIN granted' = Keys
    BY <1>1 DEF Edit, TypeOK
  <2>2. asked' \in 0 .. MaxKeys
    BY <1>1, EditsAreAsked, ParamsAssumption DEF Edit, TypeOK
  <2>3. params' = Assigned(e)
    BY <1>1 DEF Edit
  <2> QED BY <2>1, <2>2, <2>3, AssignedIsTyped DEF TypeOK
<1>2. CASE GetFinal
  BY <1>2 DEF GetFinal, TypeOK
<1>3. CASE Submit
  BY <1>3 DEF Submit, TypeOK
<1>4. CASE UNCHANGED vars
  BY <1>4 DEF vars, TypeOK
<1> QED BY <1>1, <1>2, <1>3, <1>4 DEF Next

\* The parameters of a job stay printable: every keyword is one of its table, the
\* number of copies is between 1 and 99, whatever the edits ask for and wherever
\* they are refused.
THEOREM TypeCorrect == Spec => []TypeOK
BY InitIsTyped, StepsKeepTypes, PTL DEF Spec

\* The area a client is told to render is right after any sequence of edits, for
\* every printer resolution and all insets that clients can name.
THEOREM AreaAlwaysRight == Spec => []AreaIsRight
<1>1. TypeOK => AreaIsRight
  BY AreaOfTypedParams DEF TypeOK
<1> QED BY <1>1, TypeCorrect, PTL

-----------------------------------------------------------------------------

\* The keywords of the media table are distinct, and so are its IPP names but for
\* the two of the 5x7 sheet.
LEMMA MediaRows ==
    /\ DOMAIN media_table = 1 .. 20
    /\ \A i, j \in 1 .. 20 : media_table[i][1] = media_table[j][1] => i = j
    /\ \A i, j \in 1 .. 20 :
          media_table[i][2] = media_table[j][2] =>
              i = j \/ {i, j} = {11, 12} \/ media_table[i][2] = NULL
    /\ media_table[11][1] = "Photo_5x7" /\ media_table[12][1] = "Photo_5x7_MainTray"
BY DEF media_table, NULL

\* The two keywords that share an IPP name are one sheet.
LEMMA SameSheetOnBothTrays == SameSheet("Photo_5x7", "Photo_5x7_MainTray")
<1> DEFINE here == <<"Photo_5x7", 5 * Inch, 7 * Inch>>
           there == <<"Photo_5x7_MainTray", 5 * Inch, 7 * Inch>>
<1>a. here \in media_dims /\ there \in media_dims
  BY ZenonT(60) DEF media_dims
<1>b. \A s, u, v : <<s, u, v>>[1] = s
  OBVIOUS
<1>c. \A row \in media_dims : /\ row[1] = "Photo_5x7" => row = here
                             /\ row[1] = "Photo_5x7_MainTray" => row = there
  <2> DEFINE Known(row) == /\ row[1] = "Photo_5x7" => row = here
                           /\ row[1] = "Photo_5x7_MainTray" => row = there
  <2>1. \A s, u, v : s # "Photo_5x7" /\ s # "Photo_5x7_MainTray" => Known(<<s, u, v>>)
    BY <1>b
  <2>2. Known(here) /\ Known(there)
    BY <1>b, Zenon
  <2> HIDE DEF Known
  <2>3. \A row \in media_dims : Known(row)
    BY <2>1, <2>2, ZenonT(200) DEF media_dims
  <2> QED BY <2>3, Zenon DEF Known
<1>1. media_lookup("Photo_5x7") = here
  BY <1>a, <1>b, <1>c DEF media_lookup
<1>2. media_lookup("Photo_5x7_MainTray") = there
  BY <1>a, <1>b, <1>c DEF media_lookup
<1> QED BY <1>1, <1>2 DEF SameSheet, Width, Height

\* The scan from names to keywords ends in a row with the name.
LEMMA RevIsRow ==
    ASSUME NEW t, DOMAIN t \subseteq Nat,
           NEW name, name # NULL, \E i \in DOMAIN t : t[i][2] = name
    PROVE  \E i \in DOMAIN t : /\ t[i][2] = name
                               /\ lookup_rev(t, name) = t[i][1]
                               /\ \A j \in DOMAIN t : t[j][2] = name => i <= j
<1> DEFINE hits == {i \in DOMAIN t : t[i][2] # NULL /\ t[i][2] = name}
<1>1. hits \in SUBSET Nat /\ hits # {}
  OBVIOUS
<1>2. Min(hits) \in hits /\ \A y \in hits : Min(hits) <= y
  BY <1>1, FirstPlace
<1>3. lookup_rev(t, name) = t[Min(hits)][1]
  BY <1>1 DEF lookup_rev
<1> QED BY <1>2, <1>3

\* The scan back ends in the first row with the keyword.
LEMMA FwdIsRow ==
    ASSUME NEW t, DOMAIN t \subseteq Nat, NEW k, \E i \in DOMAIN t : t[i][1] = k
    PROVE  \E i \in DOMAIN t : /\ t[i][1] = k
                               /\ lookup_fwd(t, k) = t[i][2]
                               /\ \A j \in DOMAIN t : t[j][1] = k => i <= j
<1> DEFINE hits == {i \in DOMAIN t : t[i][1] = k}
<1>1. hits \in SUBSET Nat /\ hits # {}
  OBVIOUS
<1>2. Min(hits) \in hits /\ \A y \in hits : Min(hits) <= y
  BY <1>1, FirstPlace
<1>3. lookup_fwd(t, k) = t[Min(hits)][2]
  BY <1>1 DEF lookup_fwd
<1> QED BY <1>2, <1>3

\* A keyword sent as an IPP name and read back names a sheet of the same size.
LEMMA MediaRoundTrip ==
    ASSUME NEW m, in_table(media_table, m), lookup_fwd(media_table, m) # NULL
    PROVE  SameSheet(m, lookup_rev(media_table, lookup_fwd(media_table, m)))
<1> DEFINE name == lookup_fwd(media_table, m)
<1>1. DOMAIN media_table = 1 .. 20 /\ DOMAIN media_table \subseteq Nat
  BY MediaRows
<1>2. PICK i \in 1 .. 20 : media_table[i][1] = m /\ media_table[i][2] = name
  BY <1>1, FwdIsRow DEF in_table
<1>3. PICK k \in 1 .. 20 :
         media_table[k][2] = name /\ lookup_rev(media_table, name) = media_table[k][1]
  BY <1>1, <1>2, RevIsRow
<1>4. i = k \/ {i, k} = {11, 12}
  BY <1>2, <1>3, MediaRows
<1>5. CASE i = k
  BY <1>2, <1>3, <1>5 DEF SameSheet
<1>6. CASE {i, k} = {11, 12}
  <2>1. i \in {11, 12} /\ k \in {11, 12}
    BY <1>6, Zenon
  <2> QED BY <1>2, <1>3, <2>1, MediaRows, SameSheetOnBothTrays DEF SameSheet
<1> QED BY <1>4, <1>5, <1>6

\* A margin in hundredths of a millimetre never exceeds what the area was
\* computed with.
LEMMA MarginBelowClamp ==
    ASSUME NEW i \in Int
    PROVE  Hundredths(i) \in Int /\ 2 * Hundredths(i) <= 5 * Clamp(i)
<1>1. CASE i < 0
  <2>1. -i \in Nat
    BY <1>1
  <2>2. (-i * 2540) \div 1016 \in Nat
    BY <2>1
  <2> QED BY <1>1, <2>2 DEF Hundredths, Clamp, Margin, Inch
<1>2. CASE i >= 0
  <2>1. /\ (i * 2540) \div 1016 \in Int
        /\ 2 * ((i * 2540) \div 1016) <= 5 * i
    BY <1>2
  <2> QED BY <1>2, <2>1 DEF Hundredths, Clamp, Margin, Inch
<1> QED BY <1>1, <1>2

\* One direction of the sheet: what the client was told to render, and the two
\* margins CUPS is asked for.
LEMMA SideFits ==
    ASSUME NEW side \in Int, NEW i \in Int, NEW j \in Int, NEW dpi \in Nat,
           NEW e, e = Extent(side, i, j, dpi)
    PROVE  (e - 2) * 5 * Inch + (Hundredths(i) + Hundredths(j)) * 2 * dpi <= side * 5 * dpi
<1> DEFINE c == Clamp(i) + Clamp(j)
           m == Hundredths(i) + Hundredths(j)
<1>1. /\ c \in Int /\ m \in Int /\ 2 * m <= 5 * c
      /\ side - Clamp(i) - Clamp(j) = side - c
  BY ClampBounds, MarginBelowClamp
<1>2. e \in Int /\ (e - 2) * 1016 <= (side - Clamp(i) - Clamp(j)) * dpi
  BY ExtentIsRight DEF Inch
<1> HIDE DEF c, m
<1>3. (e - 2) * 1016 <= (side - c) * dpi
  BY <1>1, <1>2
<1>4. (5 * c - 2 * m) * dpi >= 0
  <2>1. 5 * c - 2 * m \in Nat
    BY <1>1
  <2>2. \A k \in Nat : k * dpi >= 0
    OBVIOUS
  <2> QED BY <2>1, <2>2
<1>5. /\ (side - c) * dpi = side * dpi - c * dpi
      /\ (5 * c - 2 * m) * dpi = 5 * (c * dpi) - 2 * (m * dpi)
      /\ m * 2 * dpi = 2 * (m * dpi)
      /\ side * 5 * dpi = 5 * (side * dpi)
      /\ (e - 2) * 5 * 1016 = 5 * ((e - 2) * 1016)
      /\ c * dpi \in Int /\ m * dpi \in Int /\ side * dpi \in Int
  BY <1>1, <1>2
<1>6. (e - 2) * 5 * 1016 + m * 2 * dpi <= side * 5 * dpi
  BY <1>2, <1>3, <1>4, <1>5
<1> QED BY <1>6 DEF m, Inch

\* What the job has is what the client may take it to have, and a client that was
\* told it is borderless was not told it has insets as well.
GrantsKept ==
    /\ \A f \in Keys : params[f] \in granted[f]
    /\ ~insets_set => \A f \in Insets : params[f] = Margin
    /\ granted.borderless = {TRUE} => \A f \in Insets : Margin \in granted[f]

\* Inductive: what the client was told, what it was granted and what was sent
\* all come from the parameters, which no edit can have changed since.
PInv ==
    /\ TypeOK
    /\ GrantsKept
    /\ told.ok => \E dpi \in {300, MaxRes} : told = Area(params, dpi)
    /\ submitted => \E res \in Resolutions : sent = Options(res)

\* The request and the area come from the same parameters, in two units.
LEMMA PInvFits == PInv => PageFits
<1> SUFFICES ASSUME PInv, submitted, told.ok PROVE
        /\ sent.media # NULL =>
              SameSheet(params.mediaSize, lookup_rev(media_table, sent.media))
        /\ sent.margins # << >> =>
              /\ (told.width - 2) * 5 * Inch + (sent.margins[2] + sent.margins[3]) * 2 * told.dpi
                     <= Width(params.mediaSize) * 5 * told.dpi
              /\ (told.height - 2) * 5 * Inch + (sent.margins[1] + sent.margins[4]) * 2 * told.dpi
                     <= Height(params.mediaSize) * 5 * told.dpi
  BY DEF PageFits
<1>0. /\ sent.media = lookup_fwd(media_table, params.mediaSize)
      /\ sent.margins = Margins
  BY DEF PInv, Options
<1>1. in_table(media_table, params.mediaSize)
  <2>1. EnumKeys[1] = "mediaSize" /\ 1 \in DOMAIN EnumKeys /\ Table["mediaSize"] = media_table
    BY DEF EnumKeys, Table
  <2> QED BY <2>1 DEF PInv, TypeOK
<1>2. sent.media # NULL =>
        SameSheet(params.mediaSize, lookup_rev(media_table, sent.media))
  BY <1>0, <1>1, MediaRoundTrip
<1>3. PICK dpi \in Nat : told = Area(params, dpi)
  BY ParamsAssumption DEF PInv
<1> DEFINE W == Width(params.mediaSize)
           H == Height(params.mediaSize)
           M == sent.margins
<1>4. HasDims(params.mediaSize) /\ W \in Int /\ H \in Int
  <2>1. HasDims(params.mediaSize)
    BY <1>3 DEF Area, NoArea
  <2> QED BY <2>1, SheetsAreLengths
<1>5. told.dpi = dpi
  BY <1>3, <1>4 DEF Area
<1>6. CASE params.borderless
  <2>1. /\ told.width = Pixels(W, dpi) /\ told.height = Pixels(H, dpi)
    BY <1>3, <1>4, <1>6 DEF Area
  <2>2. M = <<0, 0, 0, 0>>
    BY <1>0, <1>6 DEF Margins
  <2>3. M[1] + M[4] = 0 /\ M[2] + M[3] = 0
    BY <2>2
  <2>4. ASSUME NEW side \in Int
        PROVE  (Pixels(side, dpi) - 2) * 5 * Inch + 0 * 2 * dpi <= side * 5 * dpi
    <3>1. /\ Pixels(side, dpi) \in Int
          /\ Pixels(side, dpi) * 1016 - 508 <= side * dpi
      BY PixelsRounds
    <3> DEFINE P == Pixels(side, dpi)
               L == side * dpi
    <3>2. P \in Int /\ L \in Int /\ P * 1016 - 508 <= L /\ side * 5 * dpi = 5 * L
          /\ 0 * 2 * dpi = 0
      BY <3>1
    <3> HIDE DEF P, L
    <3>3. (P - 2) * 5 * 1016 + 0 <= 5 * L
      BY <3>2
    <3> QED BY <3>2, <3>3 DEF P, L, Inch
  <2> QED BY <1>2, <1>4, <1>5, <2>1, <2>3, <2>4
<1>7. CASE ~params.borderless
  <2>1. /\ told.width = Extent(W, params.leftInset, params.rightInset, dpi)
        /\ told.height = Extent(H, params.topInset, params.bottomInset, dpi)
    BY <1>3, <1>4, <1>7 DEF Area
  <2>2. /\ params.topInset \in Int /\ params.leftInset \in Int
        /\ params.rightInset \in Int /\ params.bottomInset \in Int
    BY DEF PInv, TypeOK, Insets
  <2>3. M # << >> =>
          /\ M[2] + M[3] = Hundredths(params.leftInset) + Hundredths(params.rightInset)
          /\ M[1] + M[4] = Hundredths(params.topInset) + Hundredths(params.bottomInset)
    <3>1. CASE insets_set
      <4>1. M = <<Hundredths(params.topInset), Hundredths(params.leftInset),
                  Hundredths(params.rightInset), Hundredths(params.bottomInset)>>
        BY <1>0, <1>7, <3>1 DEF Margins
      <4>2. /\ M[1] = Hundredths(params.topInset) /\ M[2] = Hundredths(params.leftInset)
            /\ M[3] = Hundredths(params.rightInset) /\ M[4] = Hundredths(params.bottomInset)
        BY <4>1
      <4>3. /\ Hundredths(params.topInset) \in Int
            /\ Hundredths(params.bottomInset) \in Int
        BY <2>2, MarginBelowClamp
      <4> QED BY <4>2, <4>3
    <3>2. CASE ~insets_set
      BY <1>0, <1>7, <3>2 DEF Margins
    <3> QED BY <3>1, <3>2
  <2>4. /\ (told.width - 2) * 5 * Inch
             + (Hundredths(params.leftInset) + Hundredths(params.rightInset)) * 2 * dpi
               <= W * 5 * dpi
        /\ (told.height - 2) * 5 * Inch
             + (Hundredths(params.topInset) + Hundredths(params.bottomInset)) * 2 * dpi
               <= H * 5 * dpi
    BY <1>4, <2>1, <2>2, SideFits
  <2> QED BY <1>2, <1>5, <2>3, <2>4, Zenon
<1> QED BY <1>6, <1>7

\* A fresh job has the defaults, and so it says.
LEMMA PInvInit == Init => PInv
<1> SUFFICES ASSUME Init PROVE PInv
  OBVIOUS
<1>1. ~told.ok /\ ~submitted
  BY DEF Init, NoArea
<1>2. TypeOK
  BY InitIsTyped
<1>3. GrantsKept
  <2>1. \A f \in Keys : params[f] = Defaults[f] /\ granted[f] = {Defaults[f]}
    BY DEF Init
  <2>2. \A f \in Insets : params[f] = Margin
    BY DEF Init, Defaults, Insets
  <2>3. \A f \in Insets : granted[f] = {Margin}
    BY <2>1, <2>2, Places
  <2>4. \A f \in Keys : params[f] \in granted[f]
    BY <2>1
  <2> QED BY <2>2, <2>3, <2>4 DEF GrantsKept
<1> QED BY <1>1, <1>2, <1>3 DEF PInv

\* An edit that is refused leaves what it named open; one that is accepted assigned
\* it all.
LEMMA EditKeepsGrants ==
    ASSUME PInv, NEW e \in Edits, Edit(e)
    PROVE  GrantsKept'
<1> DEFINE taken == Reached(e) \cap DOMAIN e
<1>1. /\ \A f \in Keys : params'[f] = IF f \in taken THEN e[f] ELSE params[f]
      /\ insets_set' = (insets_set \/ taken \cap Insets # {})
  BY DEF Edit, Assigned
<1>2. \A f \in Keys : granted'[f] = IF f \notin DOMAIN e THEN granted[f]
                                    ELSE IF Accepted(e) THEN {e[f]}
                                    ELSE granted[f] \cup {e[f]}
  BY DEF Edit
<1>3. Accepted(e) => /\ \A f \in Keys : f \in DOMAIN e => f \in taken
                     /\ ~(params'.borderless /\ insets_set')
  BY DEF Accepted
<1>4. taken \subseteq DOMAIN e
  OBVIOUS
<1>5. /\ \A f \in Keys : params[f] \in granted[f]
      /\ ~insets_set => \A f \in Insets : params[f] = Margin
      /\ granted.borderless = {TRUE} => \A f \in Insets : Margin \in granted[f]
  BY DEF PInv, GrantsKept
<1> HIDE DEF taken
<1>6. ASSUME NEW f \in Keys PROVE params'[f] \in granted'[f]
  <2>1. CASE f \in DOMAIN e
    BY <1>1, <1>2, <1>3, <1>5, <2>1
  <2>2. CASE f \notin DOMAIN e
    BY <1>1, <1>2, <1>4, <1>5, <2>2
  <2> QED BY <2>1, <2>2
<1>7. ~insets_set' => \A f \in Insets : params'[f] = Margin
  BY <1>1, <1>5, Places
<1>8. "borderless" \in Keys /\ Insets \subseteq Keys
  BY Places DEF Keys, Switches
<1>9. ASSUME granted'["borderless"] = {TRUE}, NEW f \in Insets PROVE Margin \in granted'[f]
  <2>1. params'["borderless"] = TRUE
    BY <1>6, <1>8, <1>9
  <2>2. CASE Accepted(e)
    BY <1>3, <1>6, <1>7, <1>8, <2>1, <2>2
  <2>3. CASE ~Accepted(e)
    <3>1. \A g \in Keys : granted[g] \subseteq granted'[g]
      BY <1>2, <2>3
    <3>2. granted["borderless"] = {TRUE}
      BY <1>5, <1>8, <1>9, <3>1
    <3> QED BY <1>5, <1>8, <3>1, <3>2
  <2> QED BY <2>2, <2>3
<1> QED BY <1>6, <1>7, <1>9 DEF GrantsKept

\* Edits void what was told; a submission ends the edits.
LEMMA PInvStep == PInv /\ [Next]_vars => PInv'
<1> SUFFICES ASSUME PInv, [Next]_vars PROVE PInv'
  OBVIOUS
<1>1. TypeOK'
  BY StepsKeepTypes DEF PInv
<1>2. ASSUME NEW e \in Edits, Edit(e) PROVE PInv'
  <2>1. ~told'.ok /\ ~submitted'
    BY <1>2 DEF Edit, NoArea
  <2>2. GrantsKept'
    BY <1>2, EditKeepsGrants
  <2> QED BY <1>1, <2>1, <2>2 DEF PInv
<1>3. ASSUME UNCHANGED <<params, insets_set, granted>> PROVE
        /\ GrantsKept'
        /\ \A res : Options(res)' = Options(res)
        /\ \A dpi : Area(params, dpi)' = Area(params, dpi)
  BY <1>3 DEF PInv, GrantsKept, Options, Margins, Area
<1>4. CASE GetFinal
  <2>1. /\ UNCHANGED <<params, insets_set, granted, submitted, sent>>
        /\ \E res \in Resolutions : told' = Area(params, IF res > 0 THEN res ELSE 300)
    BY <1>4 DEF GetFinal
  <2>2. \E dpi \in {300, MaxRes} : told' = Area(params, dpi)
    BY <2>1, ParamsAssumption DEF Resolutions
  <2> QED BY <1>1, <1>3, <2>1, <2>2 DEF PInv
<1>5. CASE Submit
  <2>1. /\ UNCHANGED <<params, insets_set, granted, told>>
        /\ \E res \in Resolutions : sent' = Options(res)
    BY <1>5 DEF Submit
  <2> QED BY <1>1, <1>3, <2>1 DEF PInv
<1>6. CASE UNCHANGED vars
  <2>1. UNCHANGED <<params, insets_set, granted, submitted, sent, told>>
    BY <1>6 DEF vars
  <2> QED BY <1>1, <1>3, <2>1 DEF PInv
<1> QED BY <1>2, <1>4, <1>5, <1>6 DEF Next

LEMMA PInvInvariance == Spec => []PInv
BY PInvInit, PInvStep, PTL DEF Spec

\* The page a client was told to render lies between the margins of the request
\* and on its sheet, whatever was edited, in which order, and what was refused.
THEOREM PageAlwaysFits == Spec => []PageFits
BY PInvInvariance, PInvFits, PTL

-----------------------------------------------------------------------------

LEMMA MediaTypeRows ==
    /\ DOMAIN mediatype_table = 1 .. 17
    /\ \A i, j \in 1 .. 17 : mediatype_table[i][1] = mediatype_table[j][1] => i = j
BY DEF mediatype_table, NULL

\* The keywords of these tables are distinct.
LEMMA DistinctKeywords ==
    ASSUME NEW t \in {media_table, mediatype_table, duplex_table, color_table, quality_table}
    PROVE  /\ DOMAIN t \subseteq Nat
           /\ \A i, j \in DOMAIN t : t[i][1] = t[j][1] => i = j
<1>1. CASE t = media_table
  BY <1>1, MediaRows
<1>2. CASE t = mediatype_table
  BY <1>2, MediaTypeRows
<1>3. CASE t = duplex_table
  BY <1>3 DEF duplex_table
<1>4. CASE t = color_table
  BY <1>4 DEF color_table
<1>5. CASE t = quality_table
  BY <1>5 DEF quality_table, NULL
<1> QED BY <1>1, <1>2, <1>3, <1>4, <1>5, SMTT(30)

\* A name of the table comes back as itself: the keyword it is offered under is
\* sent as this name again, although several names fold onto no keyword twice.
LEMMA NameRoundTrip ==
    ASSUME NEW t \in {media_table, mediatype_table, duplex_table, color_table, quality_table},
           NEW name, name # NULL, \E i \in DOMAIN t : t[i][2] = name
    PROVE  lookup_fwd(t, lookup_rev(t, name)) = name
<1>1. /\ DOMAIN t \subseteq Nat
      /\ \A i, j \in DOMAIN t : t[i][1] = t[j][1] => i = j
  BY DistinctKeywords
<1>2. PICK i \in DOMAIN t : t[i][2] = name /\ lookup_rev(t, name) = t[i][1]
  BY <1>1, RevIsRow
<1>3. PICK j \in DOMAIN t : t[j][1] = t[i][1] /\ lookup_fwd(t, t[i][1]) = t[j][2]
  BY <1>1, FwdIsRow
<1> QED BY <1>1, <1>2, <1>3

\* The fraction a margin loses is less than a hundredth of a millimetre.
LEMMA HundredthsCut ==
    ASSUME NEW i \in Int
    PROVE  2 * Hundredths(i) - 5 * i \in -1 .. 1
<1>1. CASE i < 0
  <2>1. -i \in Nat
    BY <1>1
  <2>2. /\ (-i * 2540) \div 1016 \in Int
        /\ 2 * ((-i * 2540) \div 1016) <= 5 * (-i)
        /\ 2 * ((-i * 2540) \div 1016) >= 5 * (-i) - 1
    BY <2>1
  <2> QED BY <1>1, <2>2 DEF Hundredths, Inch
<1>2. CASE i >= 0
  <2>1. /\ (i * 2540) \div 1016 \in Int
        /\ 2 * ((i * 2540) \div 1016) <= 5 * i
        /\ 2 * ((i * 2540) \div 1016) >= 5 * i - 1
    BY <1>2
  <2> QED BY <1>2, <2>1 DEF Hundredths, Inch
<1> QED BY <1>1, <1>2

\* The margins are those of the parameters, which the client may take the job to
\* have, unless a refused edit has set borderless over its insets.
LEMMA MarginsOfGrants ==
    ASSUME PInv, sent.margins = Margins, ~InsetOverruled
    PROVE  MarginsAreSent
<1>1. /\ \A f \in Keys : params[f] \in granted[f]
      /\ ~insets_set => \A f \in Insets : params[f] = Margin
  BY DEF PInv, GrantsKept
<1>2. "borderless" \in Keys /\ Insets \subseteq Keys
  BY Places DEF Keys, Switches
<1>3. params.borderless \in granted.borderless
  BY <1>1, <1>2
<1>4. CASE params.borderless
  BY <1>3, <1>4 DEF Margins, InsetOverruled, MarginsAreSent
<1>5. CASE ~params.borderless
  <2>1. ASSUME NEW i \in DOMAIN InsetOrder
        PROVE  \E v \in granted[InsetOrder[i]] : AsksInset(sent.margins, i, v)
    <3>1. InsetOrder[i] \in Insets
      BY <2>1 DEF InsetOrder, Insets
    <3>2. /\ params[InsetOrder[i]] \in granted[InsetOrder[i]]
          /\ params[InsetOrder[i]] \in Int
      BY <1>1, <1>2, <3>1 DEF PInv, TypeOK
    <3>3. CASE insets_set
      <4>1. sent.margins[i] = Hundredths(params[InsetOrder[i]])
        BY <1>5, <2>1, <3>3 DEF Margins, InsetOrder
      <4>2. sent.margins # << >>
        BY <1>5, <3>3 DEF Margins
      <4> QED BY <3>2, <4>1, <4>2, HundredthsCut DEF AsksInset
    <3>4. CASE ~insets_set
      BY <1>1, <1>5, <3>1, <3>2, <3>4 DEF Margins, AsksInset
    <3> QED BY <3>3, <3>4
  <2> QED BY <1>3, <1>5, <2>1 DEF MarginsAreSent
<1> QED BY <1>4, <1>5

\* The request is made of the parameters, and the parameters are what the client
\* may take them to be.
LEMMA PInvAccepted == PInv => AcceptedIsSent
<1> SUFFICES ASSUME PInv, submitted PROVE AcceptedIsSent
  BY DEF AcceptedIsSent
<1>1. PICK res \in Resolutions : sent = Options(res)
  BY DEF PInv
<1>2. /\ sent["media"] = lookup_fwd(media_table, params["mediaSize"])
      /\ sent["media_type"] = lookup_fwd(mediatype_table, params["mediaType"])
      /\ sent["media_source"] = lookup_fwd(tray_table, params["tray"])
      /\ sent["sides"] = lookup_fwd(duplex_table, params["duplex"])
      /\ sent["color_mode"] = lookup_fwd(color_table, params["color"])
      /\ sent["quality"] = lookup_fwd(quality_table, params["printQuality"])
      /\ sent.copies = params.numCopies
      /\ sent.resolution = IF params.printQuality = "MaxDpi" THEN res ELSE 0
      /\ sent.print_scaling = IF params.autoScale THEN "auto" ELSE "none"
      /\ sent.margins = Margins
  BY <1>1 DEF Options
<1>3. \A f \in Keys : params[f] \in granted[f]
  BY DEF PInv, GrantsKept
<1>4. /\ {"mediaSize", "mediaType", "tray", "duplex", "color", "printQuality"} \subseteq Keys
      /\ {"numCopies", "autoScale"} \subseteq Keys
  BY DEF Keys, EnumKeys, Switches
<1>5. ASSUME NEW f \in DOMAIN Option
      PROVE  \E v \in granted[f] : sent[Option[f]] = lookup_fwd(Table[f], v)
  <2>1. f \in {"mediaSize", "mediaType", "tray", "duplex", "color", "printQuality"}
    BY DEF Option
  <2>2. /\ Table["mediaSize"] = media_table /\ Table["mediaType"] = mediatype_table
        /\ Table["tray"] = tray_table /\ Table["duplex"] = duplex_table
        /\ Table["color"] = color_table /\ Table["printQuality"] = quality_table
    BY DEF Table
  <2>3. /\ Option["mediaSize"] = "media" /\ Option["mediaType"] = "media_type"
        /\ Option["tray"] = "media_source" /\ Option["duplex"] = "sides"
        /\ Option["color"] = "color_mode" /\ Option["printQuality"] = "quality"
    BY DEF Option
  <2>4. sent[Option[f]] = lookup_fwd(Table[f], params[f])
    BY <1>2, <2>1, <2>2, <2>3
  <2> QED BY <1>3, <1>4, <2>1, <2>4
<1>6. sent.resolution # 0 => "MaxDpi" \in granted.printQuality
  BY <1>2, <1>3, <1>4
<1>7. sent.copies \in granted.numCopies
  BY <1>2, <1>3, <1>4
<1>8. (sent.print_scaling = "auto") \in granted.autoScale
  <2>1. params.autoScale \in BOOLEAN
    BY DEF PInv, TypeOK, Switches
  <2>2. params.autoScale = (sent.print_scaling = "auto")
    BY <1>2, <2>1
  <2> QED BY <1>3, <1>4, <2>2
<1>9. granted.borderless = {TRUE} => \A f \in Insets : Margin \in granted[f]
  BY DEF PInv, GrantsKept
<1>10. MarginsAreSent \/ InsetOverruled
  BY <1>2, MarginsOfGrants
<1> QED BY <1>5, <1>6, <1>7, <1>8, <1>9, <1>10 DEF AcceptedIsSent

\* What the client was last told it has is what CUPS is asked for, by the name of
\* just this keyword, whatever was edited and refused before, but for insets that a
\* refused edit has overruled with borderless.
THEOREM AcceptedAlwaysSent == Spec => []AcceptedIsSent
BY PInvInvariance, PInvAccepted, PTL

-----------------------------------------------------------------------------

LEMMA MaxOfTwo ==
    ASSUME NEW a \in Int, NEW b \in Int
    PROVE  Max({a, b}) \in Int /\ a <= Max({a, b}) /\ b <= Max({a, b})
<1>1. \E x \in {a, b} : \A y \in {a, b} : x >= y
  OBVIOUS
<1> QED BY <1>1 DEF Max

LEMMA ProductsKeepOrder ==
    ASSUME NEW x \in Int, NEW y \in Int, x <= y, NEW k \in Nat
    PROVE  x * k <= y * k
<1>1. (y - x) * k >= 0
  <2>1. y - x \in Nat
    OBVIOUS
  <2>2. \A d \in Nat : d * k >= 0
    OBVIOUS
  <2> QED BY <2>1, <2>2
<1>2. (y - x) * k = y * k - x * k
  OBVIOUS
<1> QED BY <1>1, <1>2

\* One length in pixels of two resolutions: each count is a pixel off at most, so
\* the lengths they stand for are two pixels of the coarser one apart at most.
LEMMA ExtentsAgree ==
    ASSUME NEW side \in Int, NEW a \in Int, NEW b \in Int, NEW d \in Nat, NEW r \in Nat
    PROVE  SameLength(Extent(side, a, b, d), d, Extent(side, a, b, r), r)
<1> DEFINE L == side - Clamp(a) - Clamp(b)
           m == Extent(side, a, b, d)
           n == Extent(side, a, b, r)
           X == Max({d, r})
<1>1. L \in Int
  BY ClampBounds
<1>2. /\ m \in Int /\ (m - 2) * 1016 <= L * d /\ L * d <= m * 1016
      /\ n \in Int /\ (n - 2) * 1016 <= L * r /\ L * r <= n * 1016
  BY ExtentIsRight DEF Inch
<1>3. X \in Int /\ d <= X /\ r <= X
  BY MaxOfTwo
<1> HIDE DEF L, m, n, X
<1>4. L * d \in Int /\ L * r \in Int
  BY <1>1
<1>5. /\ ((m - 2) * 1016) * r <= (L * d) * r /\ (L * d) * r <= (m * 1016) * r
      /\ ((n - 2) * 1016) * d <= (L * r) * d /\ (L * r) * d <= (n * 1016) * d
  BY <1>2, <1>4, ProductsKeepOrder
<1>6. /\ (L * d) * r = (L * r) * d
      /\ ((m - 2) * 1016) * r = 1016 * (m * r) - 2032 * r
      /\ (m * 1016) * r = 1016 * (m * r)
      /\ ((n - 2) * 1016) * d = 1016 * (n * d) - 2032 * d
      /\ (n * 1016) * d = 1016 * (n * d)
      /\ m * r \in Int /\ n * d \in Int /\ (L * d) * r \in Int
  BY <1>1, <1>2
<1>7. m * r - n * d \in -2 * X .. 2 * X
  <2>1. 1016 * (m * r) - 2032 * r <= 1016 * (n * d)
    BY <1>5, <1>6
  <2>2. 1016 * (n * d) - 2032 * d <= 1016 * (m * r)
    BY <1>5, <1>6
  <2> QED BY <1>3, <1>6, <2>1, <2>2
<1> QED BY <1>7 DEF m, n, X, SameLength

\* An edit of insets that is accepted leaves the parameters as getAreaForInsets
\* overlaid them.
LEMMA AcceptedIsOverlaid ==
    ASSUME TypeOK, NEW e \in InsetEdits, Edit(e), Accepted(e)
    PROVE  /\ params' = [f \in Keys |-> IF f \in DOMAIN e \cap Insets THEN e[f] ELSE params[f]]
           /\ ~params'.borderless
<1>1. e \in Edits /\ DOMAIN e \subseteq Insets
  BY DEF InsetEdits
<1>2. DOMAIN e \subseteq Keys
  BY <1>1, EditsAreAsked
<1>3. PICK g \in DOMAIN e : TRUE
  BY <1>1, EditsAreAsked
<1>4. Reached(e) = Keys
  BY DEF Accepted
<1>5. params' = Assigned(e)
  BY DEF Edit
<1>6. insets_set'
  BY <1>1, <1>2, <1>3, <1>4 DEF Edit
<1> QED BY <1>1, <1>2, <1>4, <1>5, <1>6 DEF Accepted, Assigned

\* A side that leaves nothing at one resolution leaves two pixels at most at any.
LEMMA ExtentGone ==
    ASSUME NEW side \in Int, NEW a \in Int, NEW b \in Int, NEW d \in Nat, NEW r \in Nat,
           d # 0, ~(Extent(side, a, b, d) > 0)
    PROVE  Extent(side, a, b, r) <= 2
<1> DEFINE L == side - Clamp(a) - Clamp(b)
           m == Extent(side, a, b, d)
           n == Extent(side, a, b, r)
<1>1. L \in Int
  BY ClampBounds
<1>2. /\ m \in Int /\ n \in Int
      /\ L * d <= m * Inch /\ (n - 2) * Inch <= L * r
  BY ExtentIsRight
<1>3. m <= 0
  BY <1>2
<1> HIDE DEF L, m, n
<1>4. L <= 0
  <2>1. L * d <= 0
    BY <1>1, <1>2, <1>3 DEF Inch
  <2>2. \A x \in Nat \ {0}, y \in Nat \ {0} : x * y > 0
    OBVIOUS
  <2> QED BY <1>1, <2>1, <2>2
<1>5. L * r <= 0
  <2>1. L * r <= 0 * r
    BY <1>1, <1>4, ProductsKeepOrder
  <2> QED BY <2>1
<1>6. n <= 2
  BY <1>1, <1>2, <1>5 DEF Inch
<1> QED BY <1>6 DEF n

LEMMA WhatIfStep ==
    ASSUME TypeOK, NEW e \in InsetEdits, Edit(e), Accepted(e), NEW res \in {300, MaxRes}
    PROVE  SameAnswer(AreaForInsets(e), Area(params', res))
<1> DEFINE q == [f \in Keys |-> IF f \in DOMAIN e \cap Insets THEN e[f] ELSE params[f]]
           W == Width(q.mediaSize)
           H == Height(q.mediaSize)
<1>1. q = params' /\ ~q.borderless
  BY AcceptedIsOverlaid
<1>2. AreaForInsets(e) = Area(q, 300)
  BY DEF AreaForInsets
<1>3. TypeOK'
  BY StepsKeepTypes DEF Next, InsetEdits
<1>4. /\ q.topInset \in Int /\ q.leftInset \in Int
      /\ q.rightInset \in Int /\ q.bottomInset \in Int
  BY <1>1, <1>3 DEF TypeOK, Insets
<1> HIDE DEF q
<1>5. 300 \in Nat \ {0} /\ res \in Nat \ {0}
  BY ParamsAssumption
<1>6. CASE ~HasDims(q.mediaSize)
  BY <1>1, <1>2, <1>6 DEF Area, NoArea, SameAnswer
<1>7. CASE HasDims(q.mediaSize)
  <2>1. W \in Int /\ H \in Int
    BY <1>7, SheetsAreLengths
  <2>2. \A dpi : /\ Area(q, dpi).width = Extent(W, q.leftInset, q.rightInset, dpi)
                 /\ Area(q, dpi).height = Extent(H, q.topInset, q.bottomInset, dpi)
                 /\ Area(q, dpi).ok = (/\ Extent(W, q.leftInset, q.rightInset, dpi) > 0
                                       /\ Extent(H, q.topInset, q.bottomInset, dpi) > 0)
                 /\ Area(q, dpi).dpi = dpi
    BY <1>1, <1>7 DEF Area
  <2> HIDE DEF W, H
  <2>3. /\ SameLength(Area(q, 300).width, 300, Area(q, res).width, res)
        /\ SameLength(Area(q, 300).height, 300, Area(q, res).height, res)
    BY <1>4, <1>5, <2>1, <2>2, ExtentsAgree
  <2>4. ASSUME NEW d \in {300, res}, NEW r \in {300, res}, ~Area(q, d).ok
        PROVE  Area(q, r).width <= 2 \/ Area(q, r).height <= 2
    <3>1. d \in Nat /\ d # 0 /\ r \in Nat
      BY <1>5
    <3>2. \/ ~(Extent(W, q.leftInset, q.rightInset, d) > 0)
          \/ ~(Extent(H, q.topInset, q.bottomInset, d) > 0)
      BY <2>2, <2>4
    <3>3. \/ Extent(W, q.leftInset, q.rightInset, r) <= 2
          \/ Extent(H, q.topInset, q.bottomInset, r) <= 2
      BY <1>4, <2>1, <3>1, <3>2, ExtentGone
    <3> QED BY <2>2, <3>3
  <2>5. SameAnswer(Area(q, 300), Area(q, res))
    BY <2>2, <2>3, <2>4 DEF SameAnswer
  <2> QED BY <1>1, <1>2, <2>5
<1> QED BY <1>6, <1>7

\* The answer to "what would these insets leave" comes true when the edit is
\* accepted, for every resolution and all insets.
THEOREM WhatIfAlwaysComesTrue == Spec => WhatIfComesTrue
<1> DEFINE Kept ==
        \A e \in InsetEdits :
          (\A f \in DOMAIN e : granted'[f] = {e[f]}) /\ Edit(e) /\ Accepted(e) =>
              \A res \in {300, MaxRes} :
                  SameAnswer(AreaForInsets(e), Area(params', res))
<1>1. TypeOK => Kept
  BY WhatIfStep, ZenonT(60)
<1> HIDE DEF Kept
<1>2. Spec => [][Kept]_vars
  BY <1>1, TypeCorrect, PTL DEF Spec
<1> QED BY <1>2 DEF WhatIfComesTrue, Kept

=============================================================================
