-------------------------- MODULE CapabilitiesProofs --------------------------
(***************************************************************************)
(* Proofs about Capabilities: for printers that say anything at all of       *)
(* themselves, what is offered can be used and is what CUPS is asked for.    *)
(***************************************************************************)
EXTENDS Capabilities, PrintParamsProofs

\* An offered keyword is the keyword of a name the printer gave.
LEMMA KeywordsAreOfNames ==
    ASSUME NEW t, NEW names, NEW k \in Keywords(t, names)
    PROVE  \E n \in names : /\ k = lookup_rev(t, n) /\ n # NULL
                            /\ \E i \in DOMAIN t : t[i][2] = n
BY DEF Keywords, lookup_rev

\* The tables are functions over places, and so is the one with the two aliases.
LEMMA TrayRows ==
    /\ DOMAIN tray_table = 1 .. 13
    /\ \A i, j \in 1 .. 13 :
          tray_table[i][1] = tray_table[j][1] => i = j \/ {i, j} = {3, 4} \/ {i, j} = {7, 8}
    /\ tray_table[4][2] = "main" /\ tray_table[8][2] = "by-pass-tray"
BY DEF tray_table, NULL

LEMMA PlacesOfTables ==
    ASSUME NEW t \in {media_table, mediatype_table, duplex_table, color_table,
                      quality_table, tray_table}
    PROVE  DOMAIN t \subseteq Nat
BY DistinctKeywords, TrayRows

\* The scan for a keyword ends in the table.
LEMMA KeywordsAreKnown ==
    ASSUME NEW t, DOMAIN t \subseteq Nat, NEW names, NEW k \in Keywords(t, names)
    PROVE  in_table(t, k)
<1>1. PICK n \in names : k = lookup_rev(t, n) /\ n # NULL /\ \E i \in DOMAIN t : t[i][2] = n
  BY KeywordsAreOfNames
<1>2. PICK i \in DOMAIN t : lookup_rev(t, n) = t[i][1]
  BY <1>1, RevIsRow
<1> QED BY <1>1, <1>2 DEF in_table

\* A keyword of an offer is sent as a name the printer gave.
LEMMA OfferedIsSent ==
    ASSUME NEW t \in {media_table, mediatype_table, duplex_table, color_table, quality_table},
           NEW names, NEW k \in Keywords(t, names)
    PROVE  lookup_fwd(t, k) \in names
BY KeywordsAreOfNames, NameRoundTrip

\* A tray as well, unless it goes by an alias: the second row of a keyword is an
\* alias, so a name that is none is the first.
LEMMA TrayIsSent ==
    ASSUME NEW names, NEW k \in Keywords(tray_table, names \ AliasedTrays)
    PROVE  lookup_fwd(tray_table, k) \in names
<1>1. PICK n \in names \ AliasedTrays :
         /\ k = lookup_rev(tray_table, n) /\ n # NULL
         /\ \E i \in DOMAIN tray_table : tray_table[i][2] = n
  BY KeywordsAreOfNames
<1>2. PICK i \in 1 .. 13 : tray_table[i][2] = n /\ k = tray_table[i][1]
  BY <1>1, RevIsRow, TrayRows
<1>3. PICK j \in 1 .. 13 : /\ tray_table[j][1] = k
                           /\ lookup_fwd(tray_table, k) = tray_table[j][2]
                           /\ \A l \in 1 .. 13 : tray_table[l][1] = k => j <= l
  BY <1>2, FwdIsRow, TrayRows
<1>4. i # 4 /\ i # 8
  BY <1>1, <1>2, TrayRows DEF AliasedTrays
<1>5. i = j \/ {i, j} = {3, 4} \/ {i, j} = {7, 8}
  BY <1>2, <1>3, TrayRows
<1>6. j <= i
  BY <1>2, <1>3
<1>7. {i, j} = {3, 4} => i = 4 \/ (i = 3 /\ j = 4)
  OBVIOUS
<1>8. {i, j} = {7, 8} => i = 8 \/ (i = 7 /\ j = 8)
  OBVIOUS
<1>9. i = j
  BY <1>4, <1>5, <1>6, <1>7, <1>8
<1> QED BY <1>1, <1>2, <1>3, <1>9

-----------------------------------------------------------------------------

\* The first fifteen keywords of the media table are of sheets with a size; the
\* others have no name, and the fifteenth has none either.
LEMMA NamedSheets ==
    /\ \A l \in 15 .. 20 : media_table[l][2] = media_table[15][2]
    /\ \A l \in 1 .. 15 : HasDims(media_table[l][1])
<1>1. /\ media_table[15][2] = NULL /\ media_table[16][2] = NULL
      /\ media_table[17][2] = NULL /\ media_table[18][2] = NULL
      /\ media_table[19][2] = NULL /\ media_table[20][2] = NULL
  BY DEF media_table, NULL
<1>2. /\ HasDims(media_table[1][1]) /\ HasDims(media_table[2][1])
      /\ HasDims(media_table[3][1]) /\ HasDims(media_table[4][1])
      /\ HasDims(media_table[5][1]) /\ HasDims(media_table[6][1])
      /\ HasDims(media_table[7][1]) /\ HasDims(media_table[8][1])
      /\ HasDims(media_table[9][1]) /\ HasDims(media_table[10][1])
      /\ HasDims(media_table[11][1]) /\ HasDims(media_table[12][1])
      /\ HasDims(media_table[13][1]) /\ HasDims(media_table[14][1])
      /\ HasDims(media_table[15][1])
  BY DEF media_table, NULL, media_dims, HasDims, Tenths, Inch, MM
<1>3. \A l \in 15 .. 20 : l = 15 \/ l = 16 \/ l = 17 \/ l = 18 \/ l = 19 \/ l = 20
  OBVIOUS
<1>4. \A l \in 1 .. 15 : \/ l = 1 \/ l = 2 \/ l = 3 \/ l = 4 \/ l = 5
                         \/ l = 6 \/ l = 7 \/ l = 8 \/ l = 9 \/ l = 10
                         \/ l = 11 \/ l = 12 \/ l = 13 \/ l = 14 \/ l = 15
  OBVIOUS
<1>5. \A l \in 15 .. 20 : media_table[l][2] = media_table[15][2]
  BY <1>1, <1>3
<1>6. \A l \in 1 .. 15 : HasDims(media_table[l][1])
  BY <1>2, <1>4
<1> QED BY <1>5, <1>6

\* So is every sheet that is offered.
LEMMA SheetsHaveDims ==
    ASSUME NEW names, NEW k \in Keywords(media_table, names)
    PROVE  HasDims(k)
<1>1. PICK n \in names : /\ k = lookup_rev(media_table, n) /\ n # NULL
                         /\ \E i \in DOMAIN media_table : media_table[i][2] = n
  BY KeywordsAreOfNames
<1>2. PICK i \in 1 .. 20 : /\ media_table[i][2] = n /\ k = media_table[i][1]
                           /\ \A j \in 1 .. 20 : media_table[j][2] = n => i <= j
  BY <1>1, RevIsRow, MediaRows
<1>3. i \in 1 .. 15
  BY <1>2, NamedSheets
<1> QED BY <1>2, <1>3, NamedSheets

\* No sheet is smaller than its two margins.
LEMMA SheetsExceedMargins ==
    ASSUME NEW m, HasDims(m)
    PROVE  /\ Width(m) \in Int /\ Width(m) >= Margin + Margin
           /\ Height(m) \in Int /\ Height(m) >= Margin + Margin
<1> DEFINE Large(x) == x \in Int /\ x >= Margin + Margin
           Good(row) == Large(row[2]) /\ Large(row[3])
<1>1. /\ \A k \in 4 .. 19 : Large(k * Inch)
      /\ Large(Tenths(35)) /\ Large(Tenths(85))
      /\ \A k \in 100 .. 420 : Large(MM(k))
  BY DEF Tenths, MM, Margin, Inch
<1>2. \A s, u, v : Large(u) /\ Large(v) => Good(<<s, u, v>>)
  OBVIOUS
<1> HIDE DEF Large
<1>3. /\ Large(4 * Inch) /\ Large(5 * Inch) /\ Large(6 * Inch) /\ Large(7 * Inch)
      /\ Large(8 * Inch) /\ Large(10 * Inch) /\ Large(11 * Inch) /\ Large(12 * Inch)
      /\ Large(13 * Inch) /\ Large(14 * Inch) /\ Large(17 * Inch) /\ Large(19 * Inch)
      /\ Large(Tenths(35)) /\ Large(Tenths(85))
      /\ Large(MM(100)) /\ Large(MM(105)) /\ Large(MM(120)) /\ Large(MM(148))
      /\ Large(MM(150)) /\ Large(MM(210)) /\ Large(MM(297)) /\ Large(MM(420))
  BY <1>1
<1> HIDE DEF Good
<1>4. \A row \in media_dims : Good(row)
  BY <1>2, <1>3, ZenonT(200) DEF media_dims
<1>5. media_lookup(m) \in media_dims
  BY DEF HasDims, media_lookup
<1> QED BY <1>4, <1>5 DEF Width, Height, Good, Large

LEMMA PixelsOfLength ==
    ASSUME NEW len \in Nat, NEW dpi \in Nat
    PROVE  Pixels(len, dpi) \in Nat
<1> DEFINE L == len * dpi
<1>1. L \in Nat /\ 2 * len * dpi = 2 * L
  OBVIOUS
<1> HIDE DEF L
<1>2. (2 * L + 1016) \div 2032 \in Nat
  BY <1>1
<1> QED BY <1>1, <1>2 DEF Pixels, Inch

\* Between the hardware margins there is at least a pixel, at any resolution.
LEMMA MarginsLeaveRoom ==
    ASSUME NEW side \in Int, side >= Margin + Margin, NEW dpi \in Nat
    PROVE  Extent(side, Margin, Margin, dpi) > 0
<1>1. Margin = 127
  BY DEF Margin, Inch
<1>2. Taken(Margin, Margin, dpi) = 0
  <2>1. (Clamp(Margin) - Margin) + (Clamp(Margin) - Margin) = 0
    BY <1>1 DEF Clamp
  <2>2. Pixels(0, dpi) = 0
    BY DEF Pixels, Inch
  <2> QED BY <2>1, <2>2 DEF Taken
<1>3. Raw(side, dpi) \in Nat
  <2>1. side - Margin - Margin \in Nat
    BY <1>1
  <2> QED BY <2>1, PixelsOfLength DEF Raw
<1> QED BY <1>2, <1>3 DEF Extent

\* The duplex, quality and colour keywords that the flags stand for.
LEMMA FlagKeywords ==
    /\ in_table(duplex_table, "None") /\ in_table(duplex_table, "Book")
    /\ in_table(quality_table, "Fast") /\ in_table(quality_table, "Normal")
    /\ in_table(quality_table, "Best")
    /\ in_table(color_table, "Color") /\ in_table(color_table, "Mono")
    /\ lookup_fwd(duplex_table, "Book") = "two-sided-long-edge"
    /\ lookup_fwd(quality_table, "Fast") = "3"
    /\ lookup_fwd(quality_table, "Normal") = "4"
    /\ lookup_fwd(quality_table, "Best") = "5"
    /\ lookup_fwd(color_table, "Color") = "color"
    /\ lookup_fwd(color_table, "Mono") = "monochrome"
<1>1. \A t \in {duplex_table, quality_table, color_table} : \A i \in DOMAIN t :
          in_table(t, t[i][1]) /\ lookup_fwd(t, t[i][1]) = t[i][2]
  <2> SUFFICES ASSUME NEW t \in {duplex_table, quality_table, color_table}, NEW i \in DOMAIN t
               PROVE  in_table(t, t[i][1]) /\ lookup_fwd(t, t[i][1]) = t[i][2]
    OBVIOUS
  <2>1. /\ DOMAIN t \subseteq Nat
        /\ \A k, j \in DOMAIN t : t[k][1] = t[j][1] => k = j
    BY DistinctKeywords
  <2>2. PICK j \in DOMAIN t : t[j][1] = t[i][1] /\ lookup_fwd(t, t[i][1]) = t[j][2]
    BY <2>1, FwdIsRow
  <2> QED BY <2>1, <2>2 DEF in_table
<1>2. /\ 1 \in DOMAIN duplex_table /\ duplex_table[1] = <<"None", "one-sided">>
      /\ 2 \in DOMAIN duplex_table /\ duplex_table[2] = <<"Book", "two-sided-long-edge">>
  BY DEF duplex_table
<1>3. /\ 1 \in DOMAIN quality_table /\ quality_table[1] = <<"Fast", "3">>
      /\ 2 \in DOMAIN quality_table /\ quality_table[2] = <<"Normal", "4">>
      /\ 3 \in DOMAIN quality_table /\ quality_table[3] = <<"Best", "5">>
  BY DEF quality_table
<1>4. /\ 1 \in DOMAIN color_table /\ color_table[1] = <<"Mono", "monochrome">>
      /\ 2 \in DOMAIN color_table /\ color_table[2] = <<"Color", "color">>
  BY DEF color_table
<1>5. \A s, n : <<s, n>>[1] = s /\ <<s, n>>[2] = n
  OBVIOUS
<1> QED BY <1>1, <1>2, <1>3, <1>4, <1>5

\* The fields of an offer.
LEMMA OfferOf ==
    ASSUME NEW p \in Printers
    PROVE  /\ Offers[p].mediaSize = Keywords(media_table, p.media)
           /\ Offers[p].mediaType = Keywords(mediatype_table, p.media_type)
           /\ Offers[p].tray = Keywords(tray_table, p.media_source)
           /\ \A k \in Offers[p].duplex :
                 k = "None" \/ (k = "Book" /\ "two-sided-long-edge" \in p.sides)
           /\ \A k \in Offers[p].printQuality :
                 \/ k = "Fast" /\ "3" \in p.print_quality
                 \/ k = "Normal" /\ "4" \in p.print_quality
                 \/ k = "Best" /\ "5" \in p.print_quality
           /\ \A k \in Offers[p].color :
                 \/ k = "Color" /\ "color" \in p.color_mode
                 \/ k = "Mono" /\ "monochrome" \in p.color_mode
           /\ TRUE \in Offers[p].borderless => 0 \in p.bottom_margin
<1>1. Offers[p] = Offer(p)
  BY DEF Offers
<1>2. /\ Offer(p).mediaSize = Keywords(media_table, p.media)
      /\ Offer(p).mediaType = Keywords(mediatype_table, p.media_type)
      /\ Offer(p).tray = Keywords(tray_table, p.media_source)
  BY DEF Offer, Caps
<1>3. Offer(p).duplex = {"None"} \cup IF "two-sided-long-edge" \in p.sides THEN {"Book"} ELSE {}
  BY DEF Offer, Caps, OfferedIf
<1>4. Offer(p).printQuality = (IF "3" \in p.print_quality THEN {"Fast"} ELSE {})
                              \cup (IF "4" \in p.print_quality THEN {"Normal"} ELSE {})
                              \cup (IF "5" \in p.print_quality THEN {"Best"} ELSE {})
  BY DEF Offer, Caps, OfferedIf
<1>5. Offer(p).color = (IF "color" \in p.color_mode THEN {"Color"} ELSE {})
                       \cup (IF "monochrome" \in p.color_mode THEN {"Mono"} ELSE {})
  BY DEF Offer, Caps, OfferedIf
<1>6. Offer(p).borderless = {FALSE} \cup IF 0 \in p.bottom_margin THEN {TRUE} ELSE {}
  BY DEF Offer, Caps, OfferedIf
<1>7. TRUE \in Offer(p).borderless => 0 \in p.bottom_margin
  BY <1>6
<1> QED BY <1>1, <1>2, <1>3, <1>4, <1>5, <1>7

-----------------------------------------------------------------------------

\* Every keyword of every offer is one an edit knows.
LEMMA OffersAreKnown == OfferedIsKnown
<1> SUFFICES ASSUME NEW f \in DOMAIN Offered, NEW k \in Offered[f]
             PROVE  in_table(Table[f], k)
  BY DEF OfferedIsKnown
<1>1. /\ f \in {"mediaSize", "mediaType", "printQuality", "duplex", "color", "tray"}
      /\ \E p \in Printers : k \in Offers[p][f]
  BY DEF Offered, Table
<1>2. PICK p \in Printers : k \in Offers[p][f]
  BY <1>1
<1>3. /\ Table["mediaSize"] = media_table /\ Table["mediaType"] = mediatype_table
      /\ Table["printQuality"] = quality_table /\ Table["duplex"] = duplex_table
      /\ Table["color"] = color_table /\ Table["tray"] = tray_table
  BY DEF Table
<1>4. CASE f \in {"mediaSize", "mediaType", "tray"}
  <2>1. \/ k \in Keywords(media_table, p.media) /\ Table[f] = media_table
        \/ k \in Keywords(mediatype_table, p.media_type) /\ Table[f] = mediatype_table
        \/ k \in Keywords(tray_table, p.media_source) /\ Table[f] = tray_table
    BY <1>2, <1>3, <1>4, OfferOf
  <2> QED BY <2>1, PlacesOfTables, KeywordsAreKnown
<1>5. CASE f = "duplex"
  BY <1>2, <1>3, <1>5, OfferOf, FlagKeywords
<1>6. CASE f = "printQuality"
  BY <1>2, <1>3, <1>6, OfferOf, FlagKeywords
<1>7. CASE f = "color"
  BY <1>2, <1>3, <1>7, OfferOf, FlagKeywords
<1> QED BY <1>1, <1>4, <1>5, <1>6, <1>7

\* Until somebody asks for insets they are the margins, which leave room on every
\* sheet of every offer.
LEMMA PInvUsable == PInv => OfferIsUsable
<1> SUFFICES ASSUME PInv, ~insets_set, NEW k \in Offered.mediaSize, NEW dpi \in {300, MaxRes}
             PROVE  Area([params EXCEPT !.mediaSize = k], dpi).ok
  BY OffersAreKnown DEF OfferIsUsable
<1> DEFINE q == [params EXCEPT !.mediaSize = k]
<1>1. /\ q.mediaSize = k /\ q.borderless = params.borderless
      /\ q.topInset = Margin /\ q.leftInset = Margin
      /\ q.rightInset = Margin /\ q.bottomInset = Margin
  BY DEF PInv, GrantsKept, TypeOK, Keys, EnumKeys, Switches, Insets
<1>2. HasDims(k)
  <2>1. PICK p \in Printers : k \in Offers[p].mediaSize
    BY DEF Offered, Table
  <2>2. k \in Keywords(media_table, p.media)
    BY <2>1, OfferOf
  <2> QED BY <2>2, SheetsHaveDims
<1>3. dpi \in Nat
  BY ParamsAssumption
<1>4. /\ Extent(Width(k), Margin, Margin, dpi) > 0
      /\ Extent(Height(k), Margin, Margin, dpi) > 0
  BY <1>2, <1>3, SheetsExceedMargins, MarginsLeaveRoom
<1> HIDE DEF q
<1>5. Area(q, dpi).ok
  BY <1>1, <1>2, <1>4 DEF Area
<1> QED BY <1>5 DEF q

\* What is granted and was offered is in the request under a name of the printer.
LEMMA PInvHonoured == PInv => OfferIsHonoured
<1> SUFFICES ASSUME PInv, submitted, NEW p \in Printers PROVE
        /\ granted.mediaSize \subseteq Offers[p].mediaSize => sent.media \in p.media
        /\ granted.mediaType \subseteq Offers[p].mediaType
              => sent.media_type \in p.media_type
        /\ granted.tray \subseteq Keywords(tray_table, p.media_source \ AliasedTrays)
              => sent.media_source \in p.media_source
        /\ granted.duplex \subseteq Offers[p].duplex \ {"None"} => sent.sides \in p.sides
        /\ granted.printQuality \subseteq Offers[p].printQuality
              => sent.quality \in p.print_quality
        /\ granted.color \subseteq Offers[p].color => sent.color_mode \in p.color_mode
        /\ granted.borderless = {TRUE} /\ TRUE \in Offers[p].borderless
              => sent.margins[4] \in p.bottom_margin
  BY DEF OfferIsHonoured
<1>1. PICK res \in Resolutions : sent = Options(res)
  BY DEF PInv
<1>2. /\ sent.media = lookup_fwd(media_table, params.mediaSize)
      /\ sent.media_type = lookup_fwd(mediatype_table, params.mediaType)
      /\ sent.media_source = lookup_fwd(tray_table, params.tray)
      /\ sent.sides = lookup_fwd(duplex_table, params.duplex)
      /\ sent.color_mode = lookup_fwd(color_table, params.color)
      /\ sent.quality = lookup_fwd(quality_table, params.printQuality)
      /\ sent.margins = Margins
  BY <1>1 DEF Options
<1>3. \A f \in Keys : params[f] \in granted[f]
  BY DEF PInv, GrantsKept
<1>4. {"mediaSize", "mediaType", "tray", "duplex", "printQuality", "color", "borderless"}
         \subseteq Keys
  BY DEF Keys, EnumKeys, Switches
<1>5. /\ params.mediaSize \in granted.mediaSize /\ params.mediaType \in granted.mediaType
      /\ params.tray \in granted.tray /\ params.duplex \in granted.duplex
      /\ params.printQuality \in granted.printQuality /\ params.color \in granted.color
      /\ params.borderless \in granted.borderless
  BY <1>3, <1>4
<1>6. ASSUME granted.mediaSize \subseteq Offers[p].mediaSize PROVE sent.media \in p.media
  <2>1. params.mediaSize \in Keywords(media_table, p.media)
    BY <1>5, <1>6, OfferOf
  <2> QED BY <1>2, <2>1, OfferedIsSent
<1>7. ASSUME granted.mediaType \subseteq Offers[p].mediaType
      PROVE  sent.media_type \in p.media_type
  <2>1. params.mediaType \in Keywords(mediatype_table, p.media_type)
    BY <1>5, <1>7, OfferOf
  <2> QED BY <1>2, <2>1, OfferedIsSent
<1>8. ASSUME granted.tray \subseteq Keywords(tray_table, p.media_source \ AliasedTrays)
      PROVE  sent.media_source \in p.media_source
  BY <1>2, <1>5, <1>8, TrayIsSent
<1>9. ASSUME granted.duplex \subseteq Offers[p].duplex \ {"None"} PROVE sent.sides \in p.sides
  <2>1. params.duplex = "Book" /\ "two-sided-long-edge" \in p.sides
    BY <1>5, <1>9, OfferOf
  <2> QED BY <1>2, <2>1, FlagKeywords
<1>10. ASSUME granted.printQuality \subseteq Offers[p].printQuality
       PROVE  sent.quality \in p.print_quality
  <2>1. \/ params.printQuality = "Fast" /\ "3" \in p.print_quality
        \/ params.printQuality = "Normal" /\ "4" \in p.print_quality
        \/ params.printQuality = "Best" /\ "5" \in p.print_quality
    BY <1>5, <1>10, OfferOf
  <2> QED BY <1>2, <2>1, FlagKeywords
<1>11. ASSUME granted.color \subseteq Offers[p].color PROVE sent.color_mode \in p.color_mode
  <2>1. \/ params.color = "Color" /\ "color" \in p.color_mode
        \/ params.color = "Mono" /\ "monochrome" \in p.color_mode
    BY <1>5, <1>11, OfferOf
  <2> QED BY <1>2, <2>1, FlagKeywords
<1>12. ASSUME granted.borderless = {TRUE}, TRUE \in Offers[p].borderless
       PROVE  sent.margins[4] \in p.bottom_margin
  <2>1. params.borderless = TRUE
    BY <1>5, <1>12
  <2>2. sent.margins[4] = 0
    BY <1>2, <2>1 DEF Margins
  <2>3. 0 \in p.bottom_margin
    BY <1>12, OfferOf
  <2> QED BY <2>2, <2>3
<1> QED BY <1>6, <1>7, <1>8, <1>9, <1>10, <1>11, <1>12

-----------------------------------------------------------------------------

\* Everything getCapabilities offers can be used: an edit takes the keyword, and
\* getFinalParamsAndArea has an area for the sheet, for all printers.
THEOREM OfferAlwaysUsable == Spec => []OfferIsUsable
BY PInvInvariance, PInvUsable, PTL

\* What a printer offered and the client was granted is asked of the printer by a
\* name it gave, for all printers and after all edits and refusals.
THEOREM OfferAlwaysHonoured == Spec => []OfferIsHonoured
BY PInvInvariance, PInvHonoured, PTL
=============================================================================
