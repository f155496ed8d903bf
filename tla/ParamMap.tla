------------------------------ MODULE ParamMap ------------------------------
(***************************************************************************)
(* The tables of src/param_map.c: webOS keywords and their IPP names, and   *)
(* the scans over them.  A row without an IPP name is a keyword a client     *)
(* may send and that is left out of the request.                            *)
(***************************************************************************)
EXTENDS Naturals, FiniteSetsExt

NULL == "NULL"

media_table ==
    << <<"US_Letter", "na_letter_8.5x11in">>, <<"US_Legal", "na_legal_8.5x14in">>,
       <<"B_Tabloid", "na_ledger_11x17in">>, <<"Super B", "na_super-b_13x19in">>,
       <<"ISO_A3", "iso_a3_297x420mm">>, <<"ISO_A4", "iso_a4_210x297mm">>,
       <<"ISO_A6", "iso_a6_105x148mm">>, <<"HAGAKI", "jpn_hagaki_100x148mm">>,
       <<"Photo_L", "oe_photo-l_3.5x5in">>, <<"Photo_4x6", "na_index-4x6_4x6in">>,
       <<"Photo_5x7", "na_5x7_5x7in">>, <<"Photo_5x7_MainTray", "na_5x7_5x7in">>,
       <<"Photo_8x10", "na_govt-letter_8x10in">>,
       <<"Photo_10x15", "om_photo-10x15_100x150mm">>,
       <<"Photo_11x14", NULL>>, <<"Photo_4x8", NULL>>, <<"Photo_4X12", NULL>>,
       <<"Printable CD 3.5 inch", NULL>>, <<"Printable CD 5 inch", NULL>>,
       <<"None", NULL>> >>

mediatype_table ==
    << <<"Plain", "stationery">>, <<"Special", "stationery-fine">>,
       <<"Photo", "photographic">>, <<"Transparency", "transparency">>,
       <<"Iron-On", "iron-on">>, <<"Iron-On Mirror", "iron-on-mirror">>,
       <<"Advanced Photo", "photographic-high-gloss">>,
       <<"Fast Transparency", "transparency">>,
       <<"Brochure Glossy", "stationery-coated">>,
       <<"Brochure Matte", "stationery-heavyweight">>,
       <<"Photo Glossy", "photographic-glossy">>, <<"Photo Matte", "photographic-matte">>,
       <<"Premium Photo", "photographic-high-gloss">>, <<"Other Photo", "photographic">>,
       <<"PrintableCD", NULL>>, <<"Premium Presentation", "stationery-heavyweight-coated">>,
       <<"None", NULL>> >>

duplex_table ==
    << <<"None", "one-sided">>, <<"Book", "two-sided-long-edge">>,
       <<"Tablet", "two-sided-short-edge">> >>

color_table == << <<"Mono", "monochrome">>, <<"Color", "color">> >>

tray_table ==
    << <<"Unspecified", NULL>>, <<"Auto", "auto">>, <<"Tray1", "tray-1">>,
       <<"Tray1", "main">>, <<"Tray2", "tray-2">>, <<"Photo", "photo">>,
       <<"Manual", "manual">>, <<"Manual", "by-pass-tray">>,
       <<"Manual Env", "envelope-manual">>, <<"Manual CD", NULL>>,
       <<"Optional", "tray-3">>, <<"Continuous", "continuous">>,
       <<"Preload", "pre-printed">> >>

\* The enum values of print-quality in digits, as they are sent.
quality_table ==
    << <<"Fast", "3">>, <<"Normal", "4">>, <<"Best", "5">>, <<"MaxDpi", "5">>,
       <<"Auto", NULL>> >>

\* No IPP counterpart at all.
drytime_table == << <<"Normal", NULL>>, <<"Lower", NULL>>, <<"Minimum", NULL>> >>

\* The first row whose IPP name is name; a row without one has none.
lookup_rev(t, name) ==
    LET hits == {i \in DOMAIN t : t[i][2] # NULL /\ t[i][2] = name}
    IN  IF hits = {} THEN NULL ELSE t[Min(hits)][1]

\* The first row whose keyword is k.
lookup_fwd(t, k) ==
    LET hits == {i \in DOMAIN t : t[i][1] = k}
    IN  IF hits = {} THEN NULL ELSE t[Min(hits)][2]

in_table(t, k) == \E i \in DOMAIN t : t[i][1] = k

Names(t) == {t[i][2] : i \in DOMAIN t} \ {NULL}
=============================================================================
