---------------------------- MODULE PrinterStore ----------------------------
(***************************************************************************)
(* What the printer database promises: a list of printers with distinct     *)
(* addresses and a selected printer, both kept over restarts.  A change      *)
(* that is saved saves everything; a drop or a selection that could not be   *)
(* saved is in force until the next restart.                                *)
(***************************************************************************)
EXTENDS Functions

CONSTANTS Printer, Address, Nobody

VARIABLES
    inForce,   \* what listAddedPrinters and getCurrent answer from
    kept       \* what the next start of the service will find

vars == <<inForce, kept>>

Empty == [printers |-> << >>, selected |-> Nobody]

Init ==
    /\ inForce = Empty
    /\ kept = Empty

\* The store s with printer p at address a.
Added(s, p, a) ==
    [s EXCEPT !.printers = [q \in DOMAIN s.printers \cup {p} |->
                               IF q = p THEN a ELSE s.printers[q]]]

\* The store s without p, which is then not the selected printer either.
Dropped(s, p) ==
    [printers |-> Restrict(s.printers, DOMAIN s.printers \ {p}),
     selected |-> IF s.selected = p THEN Nobody ELSE s.selected]

Saves(s) == inForce' = s /\ kept' = s

Adds(p, a) ==
    /\ p \notin DOMAIN inForce.printers
    /\ \A q \in DOMAIN inForce.printers : inForce.printers[q] # a
    /\ Saves(Added(inForce, p, a))

Forgets(s) == inForce' = s /\ UNCHANGED kept

Drops(p) ==
    /\ p \in DOMAIN inForce.printers
    /\ Saves(Dropped(inForce, p)) \/ Forgets(Dropped(inForce, p))

Selects(p) ==
    LET s == [inForce EXCEPT !.selected = p]
    IN  Saves(s) \/ Forgets(s)

Restarts == Forgets(kept)

Next ==
    \/ \E p \in Printer, a \in Address : Adds(p, a)
    \/ \E p \in Printer : Drops(p)
    \/ \E p \in Printer \cup {Nobody} : Selects(p)
    \/ Restarts

Spec == Init /\ [][Next]_vars
=============================================================================
