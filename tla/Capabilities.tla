---------------------------- MODULE Capabilities ----------------------------
(***************************************************************************)
(* What getCapabilities offers a client, against what an edit accepts and   *)
(* what a submission then asks of the printer.                              *)
(*                                                                          *)
(* A printer is what it says of itself over IPP: for each attribute the     *)
(* values it supports.  cups_backend_get_caps boils them down to lists and  *)
(* flags, printers_get_capabilities translates the lists to keywords.  The  *)
(* order of a list is left out.                                             *)
(***************************************************************************)
EXTENDS PrintParams

CONSTANT
    Printers     \* attribute records of the printers a job may go to

\* A resolution is its two counts and their unit.
ASSUME PrintersAssumption ==
    \A p \in Printers :
        /\ DOMAIN p = {"media", "media_type", "media_source", "sides", "print_quality",
                       "color_mode", "bottom_margin", "resolution"}
        /\ \A r \in p.resolution : Len(r) = 3

\* The best count per inch of the first direction, 0 without any.
MaxResolution(p) == Max({0} \cup {r[1] : r \in {s \in p.resolution : s[3] = "dpi"}})

\* cups_backend_get_caps of a printer that answers
Caps(p) ==
    [media_sizes |-> p.media, media_types |-> p.media_type, trays |-> p.media_source,
     can_duplex |-> "two-sided-long-edge" \in p.sides,
     quality_draft |-> "3" \in p.print_quality,
     quality_normal |-> "4" \in p.print_quality,
     quality_high |-> "5" \in p.print_quality,
     has_color |-> "color" \in p.color_mode,
     can_grayscale |-> "monochrome" \in p.color_mode,
     has_photo_tray |-> "photo" \in p.media_source,
     can_borderless |-> 0 \in p.bottom_margin,
     max_resolution |-> MaxResolution(p)]

\* Mutant: a name without a keyword is passed on.
KeywordsAndGaps(t, names) == {lookup_rev(t, n) : n \in names}

\* append_mapped_list: names without a keyword are dropped, and a keyword that
\* several names fold onto is listed once.
Keywords(t, names) == {lookup_rev(t, n) : n \in names} \ {NULL}

OfferedIf(flag, keyword) == IF flag THEN {keyword} ELSE {}

\* Mutant: Book is offered for any printing on two sides at all.
OfferAnySides(p) ==
    LET c == Caps(p)
    IN  [mediaSize |-> Keywords(media_table, c.media_sizes),
         mediaType |-> Keywords(mediatype_table, c.media_types),
         tray |-> Keywords(tray_table, c.trays),
         duplex |-> {"None"} \cup OfferedIf(p.sides # {"one-sided"}, "Book"),
         printQuality |-> OfferedIf(c.quality_draft, "Fast") \cup OfferedIf(c.quality_normal, "Normal")
                          \cup OfferedIf(c.quality_high, "Best"),
         color |-> OfferedIf(c.has_color, "Color") \cup OfferedIf(c.can_grayscale, "Mono"),
         borderless |-> {FALSE} \cup OfferedIf(c.can_borderless, TRUE)]

\* What a client may ask for after printers_get_capabilities: the lists, and the
\* keywords the flags stand for.  canDuplex is probed by the long edge.
Offer(p) ==
    LET c == Caps(p)
    IN  [mediaSize |-> Keywords(media_table, c.media_sizes),
         mediaType |-> Keywords(mediatype_table, c.media_types),
         tray |-> Keywords(tray_table, c.trays),
         duplex |-> {"None"} \cup OfferedIf(c.can_duplex, "Book"),
         printQuality |-> OfferedIf(c.quality_draft, "Fast") \cup OfferedIf(c.quality_normal, "Normal")
                          \cup OfferedIf(c.quality_high, "Best"),
         color |-> OfferedIf(c.has_color, "Color") \cup OfferedIf(c.can_grayscale, "Mono"),
         borderless |-> {FALSE} \cup OfferedIf(c.can_borderless, TRUE)]

-----------------------------------------------------------------------------

Offers == [p \in Printers |-> Offer(p)]

\* What any of the printers offers.
Offered ==
    [f \in DOMAIN Table \ {"dryTime"} |-> UNION {Offers[p][f] : p \in Printers}]

\* An edit takes every keyword.
OfferedIsKnown == \A f \in DOMAIN Offered : \A k \in Offered[f] : in_table(Table[f], k)

\* Everything offered can be used, whatever the job was asked for before: an edit
\* takes the keyword, and as long as nobody asked for insets, getFinalParamsAndArea
\* has an area for every sheet.  Three tables in two files must agree.
OfferIsUsable ==
    /\ OfferedIsKnown
    /\ ~insets_set => \A k \in Offered.mediaSize, dpi \in {300, MaxRes} :
          Area([params EXCEPT !.mediaSize = k], dpi).ok

\* Two trays go by another name on the way back, as param_map.c says: a printer
\* that has only "main" is asked for tray-1.
AliasedTrays == {"main", "by-pass-tray"}

\* What the printer offered and the client may take the job to have is something the
\* printer has: the offer comes from the printer's names by one scan of the tables, the
\* request from the keywords by another, with any edits and refusals between.
OfferIsHonoured ==
    submitted =>
        \A p \in Printers :
            /\ granted.mediaSize \subseteq Offers[p].mediaSize => sent.media \in p.media
            /\ granted.mediaType \subseteq Offers[p].mediaType
                  => sent.media_type \in p.media_type
            /\ granted.tray \subseteq Keywords(tray_table, p.media_source \ AliasedTrays)
                  => sent.media_source \in p.media_source
            /\ granted.duplex \subseteq Offers[p].duplex \ {"None"} => sent.sides \in p.sides
            /\ granted.printQuality \subseteq Offers[p].printQuality
                  => sent.quality \in p.print_quality
            /\ granted.color \subseteq Offers[p].color => sent.color_mode \in p.color_mode
            /\ granted.borderless = {TRUE} /\ TRUE \in Offers[p].borderless
                  => sent.margins[4] \in p.bottom_margin
=============================================================================
