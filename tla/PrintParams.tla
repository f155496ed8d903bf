----------------------------- MODULE PrintParams -----------------------------
(***************************************************************************)
(* The parameters of one job, from jobs/open over any number of edits to    *)
(* what is asked of CUPS: editPrintParams with its order of checks and       *)
(* assignments, getFinalParamsAndArea, build_cups_params and add_options.   *)
(*                                                                          *)
(* An edit names some of the keys.  The keys are taken one after another,    *)
(* and a bad value ends the call in the middle: what was taken before stays. *)
(***************************************************************************)
EXTENDS ParamMap, PrintableArea, Sequences, FiniteSets

CONSTANTS
    Asks,        \* key -> values the clients may ask for, bad ones included
    MaxKeys,     \* bound: keys named by all edits together
    MaxRes       \* the printer's best resolution in dpi

ASSUME ParamsAssumption == MaxKeys \in Nat /\ MaxRes \in Nat \ {0}

VARIABLES
    submitted,   \* the job was handed over
    params,      \* print_params, by key
    insets_set,
    asked,       \* keys named so far
    granted,     \* the values a client may take a key to have: the one it was
                 \* last told it has, and those of calls refused since
    told,        \* the area it was told last, void after an edit
    sent         \* the options of the CUPS job

vars == <<submitted, params, insets_set, asked, granted, told, sent>>

EnumKeys ==
    <<"mediaSize", "mediaType", "printQuality", "duplex", "dryTime", "color", "tray">>
Switches == {"borderless", "autoRotate", "autoScale"}
Insets == {"topInset", "leftInset", "rightInset", "bottomInset"}
Keys == {EnumKeys[i] : i \in DOMAIN EnumKeys} \cup {"numCopies"} \cup Switches \cup Insets

Table ==
    [mediaSize |-> media_table, mediaType |-> mediatype_table,
     printQuality |-> quality_table, duplex |-> duplex_table,
     dryTime |-> drytime_table, color |-> color_table, tray |-> tray_table]

Defaults ==
    [mediaSize |-> "US_Letter", mediaType |-> "Plain", printQuality |-> "Normal",
     duplex |-> "None", dryTime |-> "Normal", color |-> "Color", tray |-> "Auto",
     numCopies |-> 1, borderless |-> FALSE, autoRotate |-> FALSE, autoScale |-> FALSE,
     topInset |-> Margin, leftInset |-> Margin, rightInset |-> Margin,
     bottomInset |-> Margin]

NoOptions ==
    [media |-> NULL, media_type |-> NULL, media_source |-> NULL, sides |-> NULL,
     color_mode |-> NULL, quality |-> NULL, copies |-> 0, resolution |-> 0,
     print_scaling |-> NULL, margins |-> << >>]

\* What does not have its type is not read: luna_get_bool, luna_get_int.
ASSUME AsksAssumption ==
    /\ \A f \in Switches : Asks[f] \subseteq BOOLEAN
    /\ \A f \in Insets \cup {"numCopies"} : Asks[f] \subseteq Int

\* The parameters stay printable whatever is asked for, also by a refused call.
TypeOK ==
    /\ submitted \in BOOLEAN /\ insets_set \in BOOLEAN
    /\ DOMAIN params = Keys /\ DOMAIN granted = Keys
    /\ \A i \in DOMAIN EnumKeys :
          in_table(Table[EnumKeys[i]], params[EnumKeys[i]])
    /\ params.numCopies \in 1 .. 99
    /\ \A f \in Switches : params[f] \in BOOLEAN
    /\ \A f \in Insets : params[f] \in Int
    /\ asked \in 0 .. MaxKeys

\* A fresh job has the defaults.
Init ==
    /\ submitted = FALSE
    /\ params = Defaults
    /\ insets_set = FALSE
    /\ asked = 0
    /\ granted = [f \in Keys |-> {Defaults[f]}]
    /\ told = NoArea
    /\ sent = NoOptions

-----------------------------------------------------------------------------
(* editPrintParams                                                          *)

\* Bound: an edit names one or two keys.
Edits ==
    LET wishes == UNION {{<<f, v>> : v \in Asks[f]} : f \in Keys}
    IN  { [f \in {a[1], b[1]} |-> IF f = a[1] THEN a[2] ELSE b[2]] : a, b \in wishes }

\* The edits that bring insets only.
InsetEdits == {e \in Edits : DOMAIN e \subseteq Insets}

BadEnums(e) ==
    {i \in DOMAIN EnumKeys : /\ EnumKeys[i] \in DOMAIN e
                             /\ ~in_table(Table[EnumKeys[i]], e[EnumKeys[i]])}

\* Mutant: zero copies are let through.
BadCopiesBelowZero(e) == "numCopies" \in DOMAIN e /\ e.numCopies \notin 0 .. 99

BadCopies(e) == "numCopies" \in DOMAIN e /\ e.numCopies \notin 1 .. 99

\* The keys the handler gets to: those before the first bad keyword; all of the
\* keywords when the number of copies is bad; otherwise every key.
Reached(e) ==
    IF BadEnums(e) # {} THEN {EnumKeys[i] : i \in 1 .. Min(BadEnums(e)) - 1}
    ELSE IF BadCopies(e) THEN {EnumKeys[i] : i \in DOMAIN EnumKeys}
    ELSE Keys

Assigned(e) == [f \in Keys |-> IF f \in Reached(e) \cap DOMAIN e THEN e[f] ELSE params[f]]

\* Mutant: borderless and insets together are acknowledged.
AcceptedTogether(e) == Reached(e) = Keys

\* Borderless and insets exclude each other, whichever call brought them.
Accepted(e) ==
    /\ Reached(e) = Keys
    /\ ~(params'.borderless /\ insets_set')

\* A refused call may have taken a value or not; its client cannot know.
Edit(e) ==
    /\ ~submitted
    /\ asked + Cardinality(DOMAIN e) <= MaxKeys
    /\ asked' = asked + Cardinality(DOMAIN e)
    /\ params' = Assigned(e)
    /\ insets_set' = (insets_set \/ Reached(e) \cap DOMAIN e \cap Insets # {})
    /\ granted' = [f \in Keys |-> IF f \notin DOMAIN e THEN granted[f]
                                  ELSE IF Accepted(e) THEN {e[f]}
                                  ELSE granted[f] \cup {e[f]}]
    /\ told' = NoArea
    /\ UNCHANGED <<submitted, sent>>

-----------------------------------------------------------------------------

\* max_resolution, or 0 when the printer does not say or does not answer.
Resolutions == {0, MaxRes}

\* getFinalParamsAndArea
GetFinal ==
    /\ \E res \in Resolutions :
          told' = Area(params, IF res > 0 THEN res ELSE 300)
    /\ UNCHANGED <<submitted, params, insets_set, asked, granted, sent>>

\* Mutant: one inset of the question is overlooked.
AreaForThreeInsets(e) ==
    Area([f \in Keys |-> IF f \in DOMAIN e \cap (Insets \ {"rightInset"})
                         THEN e[f] ELSE params[f]], 300)

\* getAreaForInsets: the reply for a copy of the parameters with the insets of e,
\* whatever else the job has, and never at the printer's own resolution.
AreaForInsets(e) ==
    Area([f \in Keys |-> IF f \in DOMAIN e \cap Insets THEN e[f] ELSE params[f]], 300)

\* Mutant: inches to tenths of a millimetre.
HundredthsTooFew(inset) == (inset * 254) \div Inch

\* Inches to hundredths of a millimetre, the fraction cut off.
Hundredths(inset) ==
    IF inset < 0 THEN -((-inset * 2540) \div Inch) ELSE (inset * 2540) \div Inch

\* Mutant: explicit insets win over borderless.
MarginsInsetsFirst ==
    IF insets_set
    THEN <<Hundredths(params.topInset), Hundredths(params.leftInset),
           Hundredths(params.rightInset), Hundredths(params.bottomInset)>>
    ELSE IF params.borderless THEN <<0, 0, 0, 0>>
    ELSE << >>

\* media-col margins: top, left, right, bottom.
Margins ==
    IF params.borderless THEN <<0, 0, 0, 0>>
    ELSE IF insets_set
    THEN <<Hundredths(params.topInset), Hundredths(params.leftInset),
           Hundredths(params.rightInset), Hundredths(params.bottomInset)>>
    ELSE << >>

\* build_cups_params and add_options
Options(res) ==
    [media |-> lookup_fwd(media_table, params.mediaSize),
     media_type |-> lookup_fwd(mediatype_table, params.mediaType),
     media_source |-> lookup_fwd(tray_table, params.tray),
     sides |-> lookup_fwd(duplex_table, params.duplex),
     color_mode |-> lookup_fwd(color_table, params.color),
     quality |-> lookup_fwd(quality_table, params.printQuality),
     copies |-> params.numCopies,
     resolution |-> IF params.printQuality = "MaxDpi" THEN res ELSE 0,
     print_scaling |-> IF params.autoScale THEN "auto" ELSE "none",
     margins |-> Margins]

Submit ==
    /\ ~submitted
    /\ submitted' = TRUE
    /\ \E res \in Resolutions : sent' = Options(res)
    /\ UNCHANGED <<params, insets_set, asked, granted, told>>

Next ==
    \/ \E e \in Edits : Edit(e)
    \/ GetFinal
    \/ Submit

Spec == Init /\ [][Next]_vars

-----------------------------------------------------------------------------

SameSheet(m, n) == Width(m) = Width(n) /\ Height(m) = Height(n)

\* The option of a submission that a keyword is sent in.
Option ==
    [mediaSize |-> "media", mediaType |-> "media_type", tray |-> "media_source",
     duplex |-> "sides", color |-> "color_mode", printQuality |-> "quality"]

InsetOrder == <<"topInset", "leftInset", "rightInset", "bottomInset">>

\* Inset v is what margin i of the request says, to the fraction that is cut off;
\* without margins the printer keeps its own.
AsksInset(margins, i, v) ==
    IF margins = << >> THEN v = Margin ELSE 2 * margins[i] - 5 * v \in -1 .. 1

\* The margins are those of a page the client may take the job to have: of a
\* borderless one without any inset of the client's, or of one with all its insets.
MarginsAreSent ==
    \E b \in granted.borderless :
        IF b THEN /\ sent.margins = <<0, 0, 0, 0>>
                  /\ \A f \in Insets : Margin \in granted[f]
        ELSE \A i \in DOMAIN InsetOrder : \E v \in granted[InsetOrder[i]] :
                 AsksInset(sent.margins, i, v)

\* A refused edit has made the page borderless, and an inset was acknowledged: only
\* an acknowledgement takes the default out of what a client may have.
InsetOverruled == params.borderless /\ \E f \in Insets : Margin \notin granted[f]

\* cups_backend.c: "the caller must not set both borderless and insets - the
\* original rejected that combination with -602 and so do we, before we ever get
\* here".  Here for the case in which a client loses by it what it was told it has.
NeverBothSent == submitted => ~InsetOverruled

\* What the client was last told it has is what CUPS is asked for, by the IPP name
\* of just this keyword, also where several keywords share a name or have none:
\* through edits that were accepted, refused half way, or refused at the end after
\* everything was assigned.  After a refused edit it may be the value of that edit,
\* never a third one.  A client is never told that it has both borderless and insets,
\* and a borderless page it was not told of costs it no inset but in the one state
\* that NeverBothSent forbids and the code reaches.
AcceptedIsSent ==
    submitted =>
        /\ \A f \in DOMAIN Option : \E v \in granted[f] :
              sent[Option[f]] = lookup_fwd(Table[f], v)
        /\ sent.resolution # 0 => "MaxDpi" \in granted.printQuality
        /\ sent.copies \in granted.numCopies
        /\ (sent.print_scaling = "auto") \in granted.autoScale
        /\ granted.borderless = {TRUE} => \A f \in Insets : Margin \in granted[f]
        /\ MarginsAreSent \/ InsetOverruled

\* The sheet the client rendered for is the sheet CUPS is asked for, and what it
\* was told to render fits between the margins CUPS is asked for, to a pixel:
\* two computations in two units, from the same parameters, one of them clamped.
PageFits ==
    submitted /\ told.ok =>
        /\ sent.media # NULL =>
              SameSheet(params.mediaSize, lookup_rev(media_table, sent.media))
        /\ sent.margins # << >> =>
              /\ (told.width - 2) * 5 * Inch + (sent.margins[2] + sent.margins[3]) * 2 * told.dpi
                     <= Width(params.mediaSize) * 5 * told.dpi
              /\ (told.height - 2) * 5 * Inch + (sent.margins[1] + sent.margins[4]) * 2 * told.dpi
                     <= Height(params.mediaSize) * 5 * told.dpi

\* The area is of the sheet and shrinks by what the insets ask for: it never
\* exceeds the sheet, is never empty, and an area is refused only when facing
\* insets leave less than a pixel.
AreaIsRight ==
    \A dpi \in {300, MaxRes} :
        LET a == Area(params, dpi)
            left(side, i, j) == (side - Clamp(i) - Clamp(j)) * dpi
        IN  HasDims(params.mediaSize) /\ ~params.borderless =>
              LET w == left(Width(params.mediaSize), params.leftInset, params.rightInset)
                  h == left(Height(params.mediaSize), params.topInset, params.bottomInset)
              IN  /\ a.ok => a.width \in 1 .. a.raw_width + 1
                  /\ a.ok => a.height \in 1 .. a.raw_height + 1
                  /\ a.ok => (a.width - 2) * Inch <= w /\ w <= a.width * Inch
                  /\ a.ok => (a.height - 2) * Inch <= h /\ h <= a.height * Inch
                  /\ ~a.ok => w <= 0 \/ h <= 0

\* Two counts of pixels at two resolutions are of one length, to two pixels of
\* the coarser one.
SameLength(m, dpi, n, res) ==
    m * res - n * dpi \in -2 * Max({dpi, res}) .. 2 * Max({dpi, res})

\* Of two answers for one page at two resolutions, either both are areas of one
\* size, or one is refused with -613 and the other has two pixels at most.
SameAnswer(a, b) ==
    /\ a.ok /\ b.ok => /\ SameLength(a.width, a.dpi, b.width, b.dpi)
                       /\ SameLength(a.height, a.dpi, b.height, b.dpi)
    /\ a.ok /\ ~b.ok => a.width <= 2 \/ a.height <= 2
    /\ b.ok /\ ~a.ok => b.width <= 2 \/ b.height <= 2

\* What getAreaForInsets answers before an edit is what getFinalParamsAndArea
\* answers after it, when the edit brings just these insets and is accepted: the
\* question overlays the parameters as the edit does, and the two resolutions
\* differ by rounding only.
WhatIfComesTrue ==
    [][\A e \in InsetEdits :
          (\A f \in DOMAIN e : granted'[f] = {e[f]}) /\ Edit(e) /\ Accepted(e) =>
              \A res \in {300, MaxRes} :
                  SameAnswer(AreaForInsets(e), Area(params', res))]_vars
=============================================================================
