-------------------------- MODULE PrinterDirectory --------------------------
(***************************************************************************)
(* Which printers there are, and who is told: the browse timer, the live    *)
(* feed of printers/list, the Settings page's list, and the calls of both   *)
(* services that add, remove and select printers.                           *)
(*                                                                          *)
(* The destinations of cupsd change by themselves; the service sees them    *)
(* only when it browses.  Adding or removing a printer from the Settings    *)
(* page is an admin request followed by a browse in the same handler, and   *)
(* the world moves in between.  The database appears as its list and its    *)
(* selection, with the saves that fail (see PrinterDb).                     *)
(***************************************************************************)
EXTENDS Naturals

CONSTANTS
    Id,          \* printer ids: CUPS queue names
    Address,     \* addresses and URIs
    Client,      \* clients of printers/list
    Nobody       \* no selection; no address

ASSUME DirectoryAssumption == Nobody \notin Id \cup Address

VARIABLES
    cupsUp,      \* cupsd answers
    dests,       \* its destinations: how each id got there, or "absent"
    known,       \* known_printers: the result of the last browse
    added,       \* the database: address of each printer in it, or Nobody
    current,     \* the database: the selected printer
    subs,        \* subscribers of printers/list
    feed,        \* what each subscriber makes of the events it got
    pageOpen,    \* the Settings page is subscribed to listPrinters
    page,        \* the last list it was given
    browseDue    \* a handler has still to browse before it returns

world == <<cupsUp, dests>>
store == <<added, current>>
views == <<subs, feed, pageOpen, page>>
vars == <<world, known, store, views, browseDue>>

Kinds == {"absent", "discovered", "manual"}
Dests == [Id -> Kinds]
Nothing == [i \in Id |-> "absent"]
Pages == [printers : Dests, default : Id \cup {Nobody}]

TypeOK ==
    /\ cupsUp \in BOOLEAN
    /\ dests \in Dests
    /\ known \in Dests
    /\ added \in [Id -> Address \cup {Nobody}]
    /\ current \in Id \cup {Nobody}
    /\ subs \subseteq Client
    /\ feed \in [Client -> Dests]
    /\ pageOpen \in BOOLEAN
    /\ page \in Pages
    /\ browseDue \in BOOLEAN

-----------------------------------------------------------------------------
(* Looking and telling.                                                     *)

\* cups_backend_enumerate: no answer looks like no printers.
Enumerate == IF cupsUp THEN dests ELSE Nothing

Present(d) == {i \in Id : d[i] # "absent"}

\* The events of a browse from known to d: Add for what is new, Rmv for what is
\* gone, nothing for a printer that changed.
AfterEvents(view, d) ==
    [i \in Id |-> IF i \in Present(d) \ Present(known) THEN d[i]
                  ELSE IF i \in Present(known) \ Present(d) THEN "absent"
                  ELSE view[i]]

\* Mutant: removals are not announced.
PostAddsOnly(d) ==
    feed' = [c \in Client |->
               IF c \notin subs THEN feed[c]
               ELSE [i \in Id |-> IF i \in Present(d) \ Present(known) THEN d[i]
                                  ELSE feed[c][i]]]

PostChanges(d) ==
    feed' = [c \in Client |-> IF c \in subs THEN AfterEvents(feed[c], d) ELSE feed[c]]

\* ports_printers_payload
Payload(d, cur) == [printers |-> d, default |-> cur]

\* Mutant: the page is told about changes it made itself only.
PostPageIfDue(d, cur) ==
    page' = IF pageOpen /\ browseDue THEN Payload(d, cur) ELSE page

\* ports_post_printers
PostPage(d, cur) == page' = IF pageOpen THEN Payload(d, cur) ELSE page

Init ==
    /\ cupsUp \in BOOLEAN
    /\ dests \in Dests
    /\ known = Enumerate
    /\ added = [i \in Id |-> Nobody]
    /\ current = Nobody
    /\ subs = {}
    /\ feed = [c \in Client |-> Nothing]
    /\ pageOpen = FALSE
    /\ page = Payload(Nothing, Nobody)
    /\ browseDue = FALSE

\* browse_printers, from the timer or at the end of a handler.
Browse ==
    LET d == Enumerate
    IN  /\ PostChanges(d)
        /\ known' = d
        /\ PostPage(d, current)
        /\ browseDue' = FALSE
        /\ UNCHANGED <<world, store, subs, pageOpen>>

-----------------------------------------------------------------------------
(* com.palm.printmgr/printers                                               *)

\* Mutant: the new subscriber is not told what there is.
SubscribeWithoutReplay(c) ==
    /\ ~browseDue
    /\ subs' = subs \cup {c}
    /\ UNCHANGED <<world, known, store, feed, pageOpen, page, browseDue>>

\* printers/list with subscribe: the known printers are replayed as Add events,
\* which every subscriber gets.
Subscribe(c) ==
    /\ ~browseDue
    /\ subs' = subs \cup {c}
    /\ feed' = [d \in Client |->
                  IF d \in subs'
                  THEN [i \in Id |-> IF i \in Present(known) THEN known[i] ELSE feed[d][i]]
                  ELSE feed[d]]
    /\ UNCHANGED <<world, known, store, pageOpen, page, browseDue>>

\* printers/setCurrent
SetCurrent(i) ==
    /\ ~browseDue
    /\ current' = i
    /\ UNCHANGED <<world, known, added, views, browseDue>>

\* printer_db_add of an id and an address that are both new.
AddNew(i, a) ==
    /\ added[i] = Nobody
    /\ \A j \in Id : added[j] # a
    /\ added' = [added EXCEPT ![i] = a]

\* printers/add
AddPrinter(i, a) ==
    /\ ~browseDue
    /\ AddNew(i, a)
    /\ UNCHANGED <<world, known, current, views, browseDue>>

\* Mutant: the selection of a removed printer is read back as NULL.
DropLeavesNull(i) ==
    /\ added' = [added EXCEPT ![i] = Nobody]
    /\ current' = IF current = i THEN "NULL" ELSE current

\* Mutant: the selection outlives its printer.
DropKeepsSelection(i) ==
    /\ added' = [added EXCEPT ![i] = Nobody]
    /\ UNCHANGED current

\* printer_db_delete of an id it has.
Drop(i) ==
    /\ added' = [added EXCEPT ![i] = Nobody]
    /\ current' = IF current = i THEN Nobody ELSE current

\* printers/delete
DeletePrinter(i) ==
    /\ ~browseDue
    /\ added[i] # Nobody
    /\ Drop(i)
    /\ UNCHANGED <<world, known, views, browseDue>>

-----------------------------------------------------------------------------
(* org.webosports.service.print                                             *)

\* listPrinters with subscribe
OpenPage ==
    /\ ~browseDue
    /\ ~pageOpen
    /\ pageOpen' = TRUE
    /\ page' = Payload(known, current)
    /\ UNCHANGED <<world, known, store, subs, feed, browseDue>>

\* addPrinter: the queue is made or, when cupsd has one of that name, changed;
\* whether the database takes it is not looked at, and it may fail to save it.
PortsAddPrinter(i, a) ==
    /\ ~browseDue
    /\ cupsUp
    /\ dests' = [dests EXCEPT ![i] = "manual"]
    /\ AddNew(i, a) \/ UNCHANGED added
    /\ browseDue' = TRUE
    /\ UNCHANGED <<cupsUp, known, current, views>>

\* removePrinter: cupsd drops a configured queue, and may still discover the
\* printer behind it; the database drops the id if it has it.
PortsRemovePrinter(i) ==
    /\ ~browseDue
    /\ cupsUp
    /\ dests[i] = "manual"
    /\ \E k \in {"absent", "discovered"} : dests' = [dests EXCEPT ![i] = k]
    /\ IF added[i] # Nobody THEN Drop(i) ELSE UNCHANGED store
    /\ browseDue' = TRUE
    /\ UNCHANGED <<cupsUp, known, views>>

\* setDefaultPrinter; an error reply, and no list, when the save failed.
PortsSetDefault(i) ==
    /\ ~browseDue
    /\ current' = i
    /\ PostPage(known, i) \/ UNCHANGED page
    /\ UNCHANGED <<world, known, added, subs, feed, pageOpen, browseDue>>

-----------------------------------------------------------------------------
(* The clients leave; printers come and go; cupsd stops and starts.         *)

Unsubscribe(c) ==
    /\ c \in subs
    /\ subs' = subs \ {c}
    /\ feed' = [feed EXCEPT ![c] = Nothing]
    /\ UNCHANGED <<world, known, store, pageOpen, page, browseDue>>

ClosePage ==
    /\ pageOpen
    /\ pageOpen' = FALSE
    /\ page' = Payload(Nothing, Nobody)
    /\ UNCHANGED <<world, known, store, subs, feed, browseDue>>

DestChanges(i) ==
    /\ \E k \in Kinds \ {dests[i]} : dests' = [dests EXCEPT ![i] = k]
    /\ UNCHANGED <<cupsUp, known, store, views, browseDue>>

CupsFlips ==
    /\ cupsUp' = ~cupsUp
    /\ UNCHANGED <<dests, known, store, views, browseDue>>

Next ==
    \/ Browse
    \/ \E c \in Client : Subscribe(c) \/ Unsubscribe(c)
    \/ \E i \in Id \cup {Nobody} : SetCurrent(i) \/ PortsSetDefault(i)
    \/ \E i \in Id, a \in Address : AddPrinter(i, a) \/ PortsAddPrinter(i, a)
    \/ \E i \in Id : DeletePrinter(i) \/ PortsRemovePrinter(i) \/ DestChanges(i)
    \/ OpenPage
    \/ ClosePage
    \/ CupsFlips

Spec == Init /\ [][Next]_vars

\* The browse timer never removes itself, and a browse that is due is the rest
\* of the running handler.
FairSpec == Spec /\ WF_vars(Browse)

-----------------------------------------------------------------------------

\* Every subscriber of printers/list, whenever it came, has made of its Add and
\* Rmv events exactly the printers the last browse found.
FeedShowsKnown == \A c \in subs : Present(feed[c]) = Present(known)

\* The list on the Settings page is that of the last browse, whoever caused it.
PageShowsKnown == pageOpen => page.printers = known

\* The database as PrinterStore has it.  There is no restart here, so nothing is
\* ever read from what was saved, and a change counts as saved.
Db ==
    [printers |-> [i \in {j \in Id : added[j] # Nobody} |-> added[i]],
     selected |-> current]

Store == INSTANCE PrinterStore WITH Printer <- Id, inForce <- Db, kept <- Db

\* Both services, in whatever order they are called, and handlers that fail half
\* way, do to the database only what PrinterStore allows, which is also what
\* PrinterDb is shown to implement.
UsesStore == Store!Spec

\* A subscriber ends up with the printers that exist: once a destination stays or
\* stays away while cupsd answers, the feed shows it, or not, for good.
FeedCatchesUp ==
    \A c \in Client, i \in Id, there \in BOOLEAN :
        <>[](c \in subs /\ cupsUp /\ (i \in Present(dests) <=> there))
            => <>[](i \in Present(feed[c]) <=> there)

\* printers/setCurrent does not tell the Settings page, but the page learns of the
\* selection in the end, of either service, saved or not.
PageCatchesUp ==
    \A i \in Id \cup {Nobody} :
        <>[](pageOpen /\ current = i) => <>[](page.default = i)

\* printer_db.c: "Don't leave currentPrinter pointing at something we just
\* removed."  Then no printer is selected that removePrinter has just removed.
RemovedIsNotCurrent ==
    [][\A i \in Id : PortsRemovePrinter(i) => current' # i]_vars
=============================================================================
