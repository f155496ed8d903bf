----------------------- MODULE PrinterDirectoryProofs -----------------------
(***************************************************************************)
(* Proofs about PrinterDirectory, for any ids, addresses and clients: what   *)
(* the feed and the Settings page show is always the last browse.           *)
(***************************************************************************)
EXTENDS PrinterDirectory, TLAPS

\* Who is not subscribed has no list: a client that comes back starts from
\* nothing, or the replay could leave printers of its last visit in place.
LeaversForget == \A c \in Client \ subs : feed[c] = Nothing

\* Inductive.
DirInv == TypeOK /\ LeaversForget /\ FeedShowsKnown /\ PageShowsKnown

\* A browse sees destinations.
LEMMA EnumerateType ==
    ASSUME TypeOK
    PROVE  Enumerate \in Dests /\ Nothing \in Dests
BY DEF TypeOK, Enumerate, Nothing, Dests, Kinds

\* The events of a browse turn a view of the old printers into one of the new.
LEMMA EventsBringUpToDate ==
    ASSUME NEW view \in Dests, NEW d \in Dests, known \in Dests
    PROVE  /\ AfterEvents(view, d) \in Dests
           /\ Present(view) = Present(known) => Present(AfterEvents(view, d)) = Present(d)
<1>1. /\ \A i \in Id : AfterEvents(view, d)[i] =
            IF i \in Present(d) \ Present(known) THEN d[i]
            ELSE IF i \in Present(known) \ Present(d) THEN "absent"
            ELSE view[i]
      /\ DOMAIN AfterEvents(view, d) = Id
  BY DEF AfterEvents
<1>2. AfterEvents(view, d) \in Dests
  BY DEF AfterEvents, Dests, Kinds
<1>3. ASSUME Present(view) = Present(known)
      PROVE  \A i \in Id : i \in Present(AfterEvents(view, d)) <=> i \in Present(d)
  BY <1>1, <1>3 DEF Present
<1>4. Present(view) = Present(known) => Present(AfterEvents(view, d)) = Present(d)
  BY <1>3 DEF Present
<1> QED BY <1>2, <1>4

\* Nobody is subscribed, no page is open.
LEMMA InitInv == Init => DirInv
<1> SUFFICES ASSUME Init PROVE DirInv
  OBVIOUS
<1>1. Enumerate \in Dests /\ Nothing \in Dests
  BY DEF Init, Enumerate, Nothing, Dests, Kinds
<1>2. Payload(Nothing, Nobody) \in Pages
  BY <1>1 DEF Payload, Pages
<1>3. [c \in Client |-> Nothing] \in [Client -> Dests]
  BY <1>1
<1>4. TypeOK
  <2>1. cupsUp \in BOOLEAN /\ pageOpen \in BOOLEAN /\ browseDue \in BOOLEAN
    BY Zenon DEF Init
  <2>2. dests \in Dests /\ known \in Dests /\ feed \in [Client -> Dests] /\ page \in Pages
    BY <1>1, <1>2, <1>3 DEF Init
  <2>3. added \in [Id -> Address \cup {Nobody}] /\ current \in Id \cup {Nobody}
        /\ subs \subseteq Client
    BY DEF Init
  <2> QED BY <2>1, <2>2, <2>3 DEF TypeOK
<1> QED BY <1>4 DEF Init, DirInv, LeaversForget, FeedShowsKnown, PageShowsKnown

\* Every browse, from the timer or in a handler.
LEMMA BrowseInv ==
    ASSUME DirInv, Browse
    PROVE  DirInv'
<1> DEFINE d == Enumerate
<1>1. /\ known' = d /\ browseDue' = FALSE
      /\ feed' = [c \in Client |-> IF c \in subs THEN AfterEvents(feed[c], d) ELSE feed[c]]
      /\ page' = IF pageOpen THEN Payload(d, current) ELSE page
      /\ cupsUp' = cupsUp /\ dests' = dests /\ added' = added /\ current' = current
      /\ subs' = subs /\ pageOpen' = pageOpen
  BY DEF Browse, PostChanges, PostPage, world, store
<1>2. d \in Dests
  BY EnumerateType DEF DirInv
<1> HIDE DEF d
<1>3. \A c \in Client : feed[c] \in Dests
  BY DEF DirInv, TypeOK
<1>4. \A c \in Client : AfterEvents(feed[c], d) \in Dests
  BY <1>2, <1>3, EventsBringUpToDate DEF DirInv, TypeOK
<1>5. feed' \in [Client -> Dests]
  BY <1>1, <1>3, <1>4
<1>6. page' \in Pages
  BY <1>1, <1>2 DEF DirInv, TypeOK, Payload, Pages
<1>7. TypeOK'
  BY <1>1, <1>2, <1>5, <1>6 DEF DirInv, TypeOK
<1>8. FeedShowsKnown'
  <2> SUFFICES ASSUME NEW c \in subs PROVE Present(feed'[c]) = Present(d)
    BY <1>1 DEF FeedShowsKnown, Present
  <2>1. c \in Client /\ feed'[c] = AfterEvents(feed[c], d)
    BY <1>1 DEF DirInv, TypeOK
  <2>2. Present(feed[c]) = Present(known)
    BY DEF DirInv, FeedShowsKnown
  <2> QED BY <1>2, <1>3, <2>1, <2>2, EventsBringUpToDate DEF DirInv, TypeOK
<1>9. LeaversForget'
  BY <1>1 DEF DirInv, LeaversForget, Nothing
<1>10. PageShowsKnown'
  BY <1>1 DEF PageShowsKnown, Payload
<1> QED BY <1>7, <1>8, <1>9, <1>10 DEF DirInv

\* The replay reaches every subscriber and says nothing new to the old ones.
LEMMA SubscribeInv ==
    ASSUME DirInv, NEW c \in Client, Subscribe(c)
    PROVE  DirInv'
<1> DEFINE replayed(x) == [i \in Id |-> IF i \in Present(known) THEN known[i] ELSE feed[x][i]]
<1>1. /\ subs' = subs \cup {c}
      /\ feed' = [x \in Client |-> IF x \in subs' THEN replayed(x) ELSE feed[x]]
      /\ cupsUp' = cupsUp /\ dests' = dests /\ known' = known /\ added' = added
      /\ current' = current /\ pageOpen' = pageOpen /\ page' = page
      /\ browseDue' = browseDue
  BY DEF Subscribe, world, store
<1>2. \A x \in Client : feed[x] \in Dests
  BY DEF DirInv, TypeOK
<1>3. \A x \in Client : replayed(x) \in Dests
  BY <1>2 DEF DirInv, TypeOK, Dests, Kinds
<1>4. \A x \in subs' : x \in Client /\ Present(feed[x]) \subseteq Present(known)
  <2>1. \A x \in subs : Present(feed[x]) = Present(known)
    BY DEF DirInv, FeedShowsKnown
  <2>2. c \notin subs => Present(feed[c]) = {}
    BY DEF DirInv, LeaversForget, Nothing, Present
  <2> QED BY <1>1, <2>1, <2>2 DEF DirInv, TypeOK
<1>5. \A x \in subs' : Present(replayed(x)) = Present(known)
  <2> SUFFICES ASSUME NEW x \in subs', NEW i \in Id
               PROVE  replayed(x)[i] # "absent" <=> known[i] # "absent"
    BY DEF Present
  <2>1. feed[x][i] # "absent" => known[i] # "absent"
    BY <1>4 DEF Present
  <2> QED BY <2>1 DEF Present
<1> HIDE DEF replayed
<1>6. feed' \in [Client -> Dests]
  BY <1>1, <1>2, <1>3
<1>7. TypeOK'
  BY <1>1, <1>6 DEF DirInv, TypeOK
<1>8. FeedShowsKnown'
  <2> SUFFICES ASSUME NEW x \in subs' PROVE Present(feed'[x]) = Present(known)
    BY <1>1 DEF FeedShowsKnown, Present
  <2>1. feed'[x] = replayed(x)
    BY <1>1, <1>4
  <2> QED BY <1>5, <2>1
<1>9. LeaversForget'
  BY <1>1 DEF DirInv, LeaversForget, Nothing
<1>10. PageShowsKnown'
  BY <1>1 DEF DirInv, PageShowsKnown
<1> QED BY <1>7, <1>8, <1>9, <1>10 DEF DirInv

\* Steps that touch neither the views nor what they show.
LEMMA OtherInv ==
    ASSUME DirInv, TypeOK', UNCHANGED <<known, subs, feed, pageOpen, page>>
    PROVE  DirInv'
<1>1. FeedShowsKnown'
  BY DEF DirInv, FeedShowsKnown, Present
<1>2. LeaversForget'
  BY DEF DirInv, LeaversForget, Nothing
<1>3. PageShowsKnown'
  BY DEF DirInv, PageShowsKnown
<1> QED BY <1>1, <1>2, <1>3 DEF DirInv

\* The calls of the two services that change the database or the queues.
LEMMA StoreStepInv ==
    ASSUME DirInv,
           \/ \E i \in Id \cup {Nobody} : SetCurrent(i)
           \/ \E i \in Id, a \in Address : AddPrinter(i, a) \/ PortsAddPrinter(i, a)
           \/ \E i \in Id : DeletePrinter(i) \/ PortsRemovePrinter(i) \/ DestChanges(i)
           \/ CupsFlips
    PROVE  DirInv'
<1>1. ASSUME NEW i \in Id \cup {Nobody}, SetCurrent(i) PROVE DirInv'
  <2>1. TypeOK'
    BY <1>1 DEF SetCurrent, DirInv, TypeOK, world, views
  <2> QED BY <1>1, <2>1, OtherInv DEF SetCurrent, views
<1>2. ASSUME NEW i \in Id, NEW a \in Address, AddPrinter(i, a) PROVE DirInv'
  <2>1. added' \in [Id -> Address \cup {Nobody}]
    BY <1>2 DEF AddPrinter, AddNew, DirInv, TypeOK
  <2>2. TypeOK'
    BY <1>2, <2>1 DEF AddPrinter, DirInv, TypeOK, world, views
  <2> QED BY <1>2, <2>2, OtherInv DEF AddPrinter, views
<1>3. ASSUME NEW i \in Id, NEW a \in Address, PortsAddPrinter(i, a) PROVE DirInv'
  <2>1. dests' \in Dests
    BY <1>3 DEF PortsAddPrinter, DirInv, TypeOK, Dests, Kinds
  <2>2. added' \in [Id -> Address \cup {Nobody}]
    BY <1>3 DEF PortsAddPrinter, AddNew, DirInv, TypeOK
  <2>3. browseDue' = TRUE
    BY <1>3 DEF PortsAddPrinter
  <2>4. TypeOK'
    BY <1>3, <2>1, <2>2, <2>3 DEF PortsAddPrinter, DirInv, TypeOK, views
  <2> QED BY <1>3, <2>4, OtherInv DEF PortsAddPrinter, views
<1>4. ASSUME NEW i \in Id, DeletePrinter(i) PROVE DirInv'
  <2>1. added' \in [Id -> Address \cup {Nobody}] /\ current' \in Id \cup {Nobody}
    BY <1>4 DEF DeletePrinter, Drop, DirInv, TypeOK
  <2>2. TypeOK'
    BY <1>4, <2>1 DEF DeletePrinter, DirInv, TypeOK, world, views
  <2> QED BY <1>4, <2>2, OtherInv DEF DeletePrinter, views
<1>5. ASSUME NEW i \in Id, PortsRemovePrinter(i) PROVE DirInv'
  <2>1. dests' \in Dests
    BY <1>5 DEF PortsRemovePrinter, DirInv, TypeOK, Dests, Kinds
  <2>2. added' \in [Id -> Address \cup {Nobody}] /\ current' \in Id \cup {Nobody}
    BY <1>5 DEF PortsRemovePrinter, Drop, DirInv, TypeOK, store
  <2>3. browseDue' = TRUE
    BY <1>5 DEF PortsRemovePrinter
  <2>4. TypeOK'
    BY <1>5, <2>1, <2>2, <2>3 DEF PortsRemovePrinter, DirInv, TypeOK, views
  <2> QED BY <1>5, <2>4, OtherInv DEF PortsRemovePrinter, views
<1>6. ASSUME NEW i \in Id, DestChanges(i) PROVE DirInv'
  <2>1. dests' \in Dests
    BY <1>6 DEF DestChanges, DirInv, TypeOK, Dests
  <2>2. TypeOK'
    BY <1>6, <2>1 DEF DestChanges, DirInv, TypeOK, store, views
  <2> QED BY <1>6, <2>2, OtherInv DEF DestChanges, views
<1>7. CASE CupsFlips
  <2>1. cupsUp' \in BOOLEAN
    BY <1>7, Zenon DEF CupsFlips
  <2>2. TypeOK'
    BY <1>7, <2>1 DEF CupsFlips, DirInv, TypeOK, store, views
  <2> QED BY <1>7, <2>2, OtherInv DEF CupsFlips, views
<1> QED BY <1>1, <1>2, <1>3, <1>4, <1>5, <1>6, <1>7

\* The steps of the clients and of the page.
LEMMA ViewStepInv ==
    ASSUME DirInv,
           \/ \E c \in Client : Unsubscribe(c)
           \/ \E i \in Id \cup {Nobody} : PortsSetDefault(i)
           \/ OpenPage
           \/ ClosePage
    PROVE  DirInv'
<1>1. ASSUME NEW c \in Client, Unsubscribe(c) PROVE DirInv'
  <2>1. /\ subs' = subs \ {c} /\ feed' = [feed EXCEPT ![c] = Nothing]
        /\ known' = known /\ pageOpen' = pageOpen /\ page' = page
    BY <1>1 DEF Unsubscribe
  <2>2. feed' \in [Client -> Dests]
    BY <2>1, EnumerateType DEF DirInv, TypeOK
  <2>3. TypeOK'
    BY <1>1, <2>1, <2>2 DEF Unsubscribe, DirInv, TypeOK, world, store
  <2>4. \A x \in Client : feed'[x] = IF x = c THEN Nothing ELSE feed[x]
    BY <2>1 DEF DirInv, TypeOK
  <2>5. FeedShowsKnown'
    BY <2>1, <2>4 DEF DirInv, TypeOK, FeedShowsKnown, Present
  <2>6. LeaversForget'
    BY <2>1, <2>4 DEF DirInv, LeaversForget, Nothing
  <2>7. PageShowsKnown'
    BY <2>1 DEF DirInv, PageShowsKnown
  <2> QED BY <2>3, <2>5, <2>6, <2>7 DEF DirInv
<1>2. ASSUME NEW i \in Id \cup {Nobody}, PortsSetDefault(i) PROVE DirInv'
  <2>1. /\ current' = i
        /\ page' = page \/ page' = IF pageOpen THEN Payload(known, i) ELSE page
        /\ known' = known /\ subs' = subs /\ feed' = feed /\ pageOpen' = pageOpen
    BY <1>2 DEF PortsSetDefault, PostPage
  <2>2. page' \in Pages
    BY <2>1 DEF DirInv, TypeOK, Payload, Pages
  <2>3. TypeOK'
    BY <1>2, <2>1, <2>2 DEF PortsSetDefault, DirInv, TypeOK, world
  <2>4. FeedShowsKnown' /\ LeaversForget'
    BY <2>1 DEF DirInv, FeedShowsKnown, LeaversForget, Present, Nothing
  <2>5. PageShowsKnown'
    BY <2>1 DEF DirInv, PageShowsKnown, Payload
  <2> QED BY <2>3, <2>4, <2>5 DEF DirInv
<1>3. CASE OpenPage
  <2>1. /\ pageOpen' = TRUE /\ page' = Payload(known, current)
        /\ known' = known /\ subs' = subs /\ feed' = feed
    BY <1>3 DEF OpenPage
  <2>2. page' \in Pages
    BY <2>1 DEF DirInv, TypeOK, Payload, Pages
  <2>3. TypeOK'
    BY <1>3, <2>1, <2>2 DEF OpenPage, DirInv, TypeOK, world, store
  <2>4. FeedShowsKnown' /\ LeaversForget'
    BY <2>1 DEF DirInv, FeedShowsKnown, LeaversForget, Present, Nothing
  <2>5. PageShowsKnown'
    BY <2>1 DEF PageShowsKnown, Payload
  <2> QED BY <2>3, <2>4, <2>5 DEF DirInv
<1>4. CASE ClosePage
  <2>1. /\ pageOpen' = FALSE /\ page' = Payload(Nothing, Nobody)
        /\ known' = known /\ subs' = subs /\ feed' = feed
    BY <1>4 DEF ClosePage
  <2>2. page' \in Pages
    BY <2>1, EnumerateType DEF DirInv, Payload, Pages
  <2>3. TypeOK'
    BY <1>4, <2>1, <2>2 DEF ClosePage, DirInv, TypeOK, world, store
  <2>4. FeedShowsKnown' /\ LeaversForget'
    BY <2>1 DEF DirInv, FeedShowsKnown, LeaversForget, Present, Nothing
  <2>5. PageShowsKnown'
    BY <2>1 DEF PageShowsKnown
  <2> QED BY <2>3, <2>4, <2>5 DEF DirInv
<1> QED BY <1>1, <1>2, <1>3, <1>4

\* What clients see follows the browse, whatever else happens in between.
THEOREM Invariance == Spec => []DirInv
<1>1. DirInv /\ [Next]_vars => DirInv'
  <2> SUFFICES ASSUME DirInv, [Next]_vars PROVE DirInv'
    OBVIOUS
  <2>1. CASE Browse
    BY <2>1, BrowseInv
  <2>2. ASSUME NEW c \in Client, Subscribe(c) PROVE DirInv'
    BY <2>2, SubscribeInv
  <2>3. CASE \/ \E c \in Client : Unsubscribe(c)
             \/ \E i \in Id \cup {Nobody} : PortsSetDefault(i)
             \/ OpenPage
             \/ ClosePage
    BY <2>3, ViewStepInv
  <2>4. CASE \/ \E i \in Id \cup {Nobody} : SetCurrent(i)
             \/ \E i \in Id, a \in Address : AddPrinter(i, a) \/ PortsAddPrinter(i, a)
             \/ \E i \in Id : DeletePrinter(i) \/ PortsRemovePrinter(i) \/ DestChanges(i)
             \/ CupsFlips
    BY <2>4, StoreStepInv
  <2>5. CASE UNCHANGED vars
    <3>1. TypeOK'
      BY <2>5 DEF DirInv, TypeOK, vars, world, store, views
    <3> QED BY <2>5, <3>1, OtherInv DEF vars, views
  <2> QED BY <2>1, <2>2, <2>3, <2>4, <2>5 DEF Next
<1> QED BY <1>1, InitInv, PTL DEF Spec

\* Every variable keeps its type; the selection is an id or nobody, never the
\* name of something the database gave up.
THEOREM TypeCorrect == Spec => []TypeOK
BY Invariance, PTL DEF DirInv

\* Every subscriber, whenever it came, holds what the last browse found.
THEOREM FeedIsTheBrowse == Spec => []FeedShowsKnown
BY Invariance, PTL DEF DirInv

\* So does the open Settings page.
THEOREM PageIsTheBrowse == Spec => []PageShowsKnown
BY Invariance, PTL DEF DirInv

-----------------------------------------------------------------------------
(* The database the services use.                                           *)

Inside == {j \in Id : added[j] # Nobody}

LEMMA DbParts ==
    /\ Db.printers = [i \in Inside |-> added[i]]
    /\ Db.selected = current
    /\ DOMAIN Db.printers = Inside
BY DEF Db, Inside

LEMMA DbInit == Init => Store!Init
<1> SUFFICES ASSUME Init PROVE Store!Init
  OBVIOUS
<1>1. Inside = {} /\ current = Nobody
  BY DEF Init, Inside
<1>2. [i \in {} |-> added[i]] = << >>
  OBVIOUS
<1>3. Db = [printers |-> << >>, selected |-> Nobody]
  BY <1>1, <1>2 DEF Db, Inside
<1> QED BY <1>3 DEF Store!Init, Store!Empty

LEMMA AddIsAdds ==
    ASSUME TypeOK, NEW i \in Id, NEW a \in Address, AddNew(i, a), UNCHANGED current
    PROVE  Store!Adds(i, a)
<1> DEFINE p == [q \in Inside \cup {i} |-> IF q = i THEN a ELSE added[q]]
<1>1. added' = [added EXCEPT ![i] = a] /\ a # Nobody /\ i \notin Inside
  BY DirectoryAssumption DEF AddNew, Inside
<1>2. Inside' = Inside \cup {i}
  BY <1>1 DEF Inside, TypeOK
<1>3. [q \in Inside' |-> added'[q]] = p
  BY <1>1, <1>2 DEF Inside, TypeOK
<1>4. Db' = [printers |-> p, selected |-> current]
  BY <1>3 DEF Db, Inside
<1>5. Store!Added(Db, i, a) = [printers |-> p, selected |-> current]
  <2>1. [q \in DOMAIN Db.printers \cup {i} |->
            IF q = i THEN a ELSE Db.printers[q]] = p
    BY DbParts
  <2>2. Store!Added(Db, i, a) = [Db EXCEPT !.printers = p]
    BY <2>1 DEF Store!Added
  <2>3. Db = [printers |-> Db.printers, selected |-> current]
    BY DEF Db
  <2> HIDE DEF p
  <2> QED BY <2>2, <2>3
<1>6. \A q \in DOMAIN Db.printers : Db.printers[q] # a
  BY DbParts DEF AddNew, Inside
<1> QED BY <1>1, <1>4, <1>5, <1>6, DbParts DEF Store!Adds, Store!Saves

LEMMA DropIsDrops ==
    ASSUME TypeOK, NEW i \in Id, added[i] # Nobody, Drop(i)
    PROVE  Store!Drops(i)
<1> DEFINE p == [q \in Inside \ {i} |-> added[q]]
<1>1. Inside' = Inside \ {i}
  BY DEF Drop, Inside, TypeOK
<1>2. [q \in Inside' |-> added'[q]] = p
  BY <1>1 DEF Drop, Inside, TypeOK
<1>3. Db' = [printers |-> p,
             selected |-> IF current = i THEN Nobody ELSE current]
  BY <1>2 DEF Db, Inside, Drop
<1>4. Store!Restrict(Db.printers, DOMAIN Db.printers \ {i}) = p
  BY DbParts DEF Store!Restrict
<1>5. Store!Dropped(Db, i) =
          [printers |-> p, selected |-> IF current = i THEN Nobody ELSE current]
  BY <1>4, DbParts DEF Store!Dropped
<1>6. i \in DOMAIN Db.printers
  BY DbParts DEF Inside
<1> QED BY <1>3, <1>5, <1>6 DEF Store!Drops, Store!Saves

LEMMA SelectIsSelects ==
    ASSUME NEW i \in Id \cup {Nobody}, current' = i, UNCHANGED added
    PROVE  Store!Selects(i)
<1>1. Db = [printers |-> [j \in Inside |-> added[j]], selected |-> current]
  BY DEF Db, Inside
<1>2. Inside' = Inside /\ added' = added
  BY DEF Inside
<1>3. Db' = [printers |-> [j \in Inside |-> added[j]], selected |-> i]
  BY <1>2 DEF Db, Inside
<1>4. Db' = [Db EXCEPT !.selected = i]
  BY <1>1, <1>3
<1> QED BY <1>4 DEF Store!Selects, Store!Saves

LEMMA StepUsesStore ==
    ASSUME TypeOK, [Next]_vars
    PROVE  [Store!Next]_Store!vars
<1>1. ASSUME UNCHANGED store PROVE UNCHANGED Store!vars
  BY <1>1 DEF store, Db, Store!vars
<1>2. ASSUME NEW i \in Id \cup {Nobody}, SetCurrent(i) \/ PortsSetDefault(i)
      PROVE  Store!Next
  BY <1>2, SelectIsSelects DEF SetCurrent, PortsSetDefault, Store!Next
<1>3. ASSUME NEW i \in Id, NEW a \in Address, AddPrinter(i, a)
      PROVE  Store!Next
  BY <1>3, AddIsAdds DEF AddPrinter, Store!Next
<1>4. ASSUME NEW i \in Id, NEW a \in Address, PortsAddPrinter(i, a)
      PROVE  Store!Next \/ UNCHANGED store
  BY <1>4, AddIsAdds DEF PortsAddPrinter, Store!Next, store
<1>5. ASSUME NEW i \in Id, DeletePrinter(i)
      PROVE  Store!Next
  BY <1>5, DropIsDrops DEF DeletePrinter, Store!Next
<1>6. ASSUME NEW i \in Id, PortsRemovePrinter(i)
      PROVE  Store!Next \/ UNCHANGED store
  BY <1>6, DropIsDrops DEF PortsRemovePrinter, Store!Next
<1>7. ASSUME \/ Browse \/ OpenPage \/ ClosePage \/ CupsFlips \/ UNCHANGED vars
             \/ \E c \in Client : Subscribe(c) \/ Unsubscribe(c)
             \/ \E i \in Id : DestChanges(i)
      PROVE  UNCHANGED store
  BY <1>7 DEF Browse, OpenPage, ClosePage, CupsFlips, vars, Subscribe, Unsubscribe,
       DestChanges
<1> QED BY <1>1, <1>2, <1>3, <1>4, <1>5, <1>6, <1>7 DEF Next

\* The calls of both services use the database as PrinterStore allows.
THEOREM DirectoryUsesStore == Spec => UsesStore
<1>1. TypeOK /\ [Next]_vars => [Store!Next]_Store!vars
  BY StepUsesStore
<1> QED BY <1>1, DbInit, TypeCorrect, PTL DEF Spec, UsesStore, Store!Spec
=============================================================================
