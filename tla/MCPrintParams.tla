---------------------------- MODULE MCPrintParams ----------------------------
(***************************************************************************)
(* Small instances of PrintParams.  A keyword of each kind that is treated   *)
(* alike stands for its kind: a sheet in inches and one in millimetres, two   *)
(* keywords for one IPP name, keywords without an IPP name or a size, bad     *)
(* ones in every place of the order.                                        *)
(***************************************************************************)
EXTENDS Capabilities

AsksMany ==
    [mediaSize |-> {"ISO_A4", "Photo_5x7_MainTray", "Photo_11x14", "None", "bogus"},
     mediaType |-> {"Advanced Photo", "Premium Photo"},
     printQuality |-> {"MaxDpi"},
     duplex |-> {"Book"},
     dryTime |-> {"bogus"},
     color |-> {"Mono"},
     tray |-> {"Tray1"},
     numCopies |-> {0, 2},
     borderless |-> BOOLEAN,
     autoRotate |-> {},
     autoScale |-> {TRUE},
     topInset |-> {0, 508},
     leftInset |-> {508, 4318},
     rightInset |-> {4318},
     bottomInset |-> {-127}]

AsksFew == [f \in Keys |-> IF f = "borderless" THEN {TRUE}
                           ELSE IF f = "topInset" THEN {508} ELSE {}]

\* One that has everything the tables name and more, an office printer that calls
\* its trays main and by-pass-tray and turns on the short edge only, a photo
\* printer, and a queue that answers nothing.
SomePrinters ==
    { [media |-> Names(media_table) \cup {"custom_min_3x5in"},
       media_type |-> Names(mediatype_table) \cup {"labels"},
       media_source |-> Names(tray_table) \cup {"roll"},
       sides |-> Names(duplex_table), print_quality |-> {"3", "4", "5"},
       color_mode |-> Names(color_table) \cup {"auto"}, bottom_margin |-> {0, 423},
       resolution |-> {<<300, 300, "dpi">>, <<600, 600, "dpi">>}],
      [media |-> {"iso_a4_210x297mm", "na_letter_8.5x11in"},
       media_type |-> {"stationery"}, media_source |-> {"main", "by-pass-tray"},
       sides |-> {"one-sided", "two-sided-short-edge"}, print_quality |-> {"4"},
       color_mode |-> {"monochrome"}, bottom_margin |-> {423},
       resolution |-> {<<600, 600, "dpi">>, <<240, 240, "dpcm">>}],
      [media |-> {"na_5x7_5x7in", "na_index-4x6_4x6in"},
       media_type |-> {"photographic-high-gloss"}, media_source |-> {"photo", "tray-1"},
       sides |-> {"one-sided"}, print_quality |-> {"5"}, color_mode |-> {"color"},
       bottom_margin |-> {0}, resolution |-> {}],
      [f \in {"media", "media_type", "media_source", "sides", "print_quality",
              "color_mode", "bottom_margin", "resolution"} |-> {}] }
=============================================================================
