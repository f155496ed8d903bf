--------------------------- MODULE PrinterDbProofs ---------------------------
(***************************************************************************)
(* Proofs about PrinterDb, for any printers and addresses none of which has  *)
(* the name of the settings group: the inductive invariant of the key file,  *)
(* and that it implements the list of printers of PrinterStore.             *)
(***************************************************************************)
EXTENDS PrinterDb, TLAPS

\* The hypothesis every theorem needs; run settings_group shows that it does.
NoIdIsSettings == Settings \notin Id

\* The selection that is stored when there is none yet, or an older one.
LEMMA WithGroupType ==
    ASSUME NEW k \in Keyfiles, NEW g \in Group, NEW v \in Keys
    PROVE  /\ WithGroup(k, g, v) \in Keyfiles
           /\ DOMAIN WithGroup(k, g, v) = DOMAIN k \cup {g}
           /\ WithGroup(k, g, v)[g] = v
           /\ \A h \in DOMAIN k \ {g} : WithGroup(k, g, v)[h] = k[h]
<1>1. DOMAIN k \subseteq Group /\ \A h \in DOMAIN k : k[h] \in Keys
  BY DEF Keyfiles
<1>2. WithGroup(k, g, v) \in [DOMAIN k \cup {g} -> Keys]
  BY <1>1 DEF WithGroup
<1>3. DOMAIN k \cup {g} \in SUBSET Group
  BY <1>1
<1>4. WithGroup(k, g, v) \in Keyfiles
  BY <1>2, <1>3 DEF Keyfiles
<1> QED BY <1>4 DEF WithGroup

\* A printer is stored at its address, and nothing else changes.
LEMMA WithPrinterType ==
    ASSUME NoIdIsSettings, NEW k \in Keyfiles, NEW id \in Id, NEW a \in Address
    PROVE  LET w == WithPrinter(k, id, a)
           IN  /\ w \in Keyfiles
               /\ Listed(w) = Listed(k) \cup {id}
               /\ w[id].address = a
               /\ \A h \in Listed(k) \ {id} : w[h] = k[h]
               /\ CurrentOf(w) = CurrentOf(k)
<1> DEFINE v == [address |-> a, current |-> Nobody]
           w == WithPrinter(k, id, a)
<1>1. v \in Keys /\ id \in Group /\ id # Settings
  BY DEF Keys, Group, NoIdIsSettings
<1>2. w = WithGroup(k, id, v)
  BY DEF WithPrinter
<1> HIDE DEF v, w
<1>3. /\ w \in Keyfiles /\ DOMAIN w = DOMAIN k \cup {id} /\ w[id] = v
      /\ \A h \in DOMAIN k \ {id} : w[h] = k[h]
  BY <1>1, <1>2, WithGroupType
<1>4. v.address = a
  BY DEF v
<1>5. Listed(w) = Listed(k) \cup {id}
  BY <1>1, <1>3 DEF Listed, group_is_printer
<1>6. \A h \in Listed(k) \ {id} : w[h] = k[h]
  BY <1>3 DEF Listed
<1>7. CurrentOf(w) = CurrentOf(k)
  BY <1>1, <1>3 DEF CurrentOf
<1> QED BY <1>3, <1>4, <1>5, <1>6, <1>7 DEF w

\* A selection is stored, and no printer changes.
LEMMA WithCurrentType ==
    ASSUME NEW k \in Keyfiles, NEW id \in Id \cup {Nobody}
    PROVE  LET w == WithCurrent(k, id)
           IN  /\ w \in Keyfiles
               /\ Listed(w) = Listed(k)
               /\ \A h \in Listed(k) : w[h] = k[h]
               /\ CurrentOf(w) = id
<1> DEFINE v == [address |-> IF Settings \in DOMAIN k THEN k[Settings].address ELSE Nobody,
                 current |-> id]
           w == WithCurrent(k, id)
<1>1. \A h \in DOMAIN k : k[h] \in Keys
  BY DEF Keyfiles
<1>2. v \in Keys /\ Settings \in Group
  BY <1>1 DEF Keys, Group
<1>3. w = WithGroup(k, Settings, v)
  BY DEF WithCurrent
<1>4. v.current = id
  OBVIOUS
<1> HIDE DEF v, w
<1>5. /\ w \in Keyfiles /\ DOMAIN w = DOMAIN k \cup {Settings} /\ w[Settings] = v
      /\ \A h \in DOMAIN k \ {Settings} : w[h] = k[h]
  BY <1>2, <1>3, WithGroupType
<1>6. Listed(w) = Listed(k)
  BY <1>5 DEF Listed, group_is_printer
<1>7. \A h \in Listed(k) : w[h] = k[h]
  BY <1>5 DEF Listed, group_is_printer
<1>8. CurrentOf(w) = id
  BY <1>4, <1>5 DEF CurrentOf
<1> QED BY <1>5, <1>6, <1>7, <1>8 DEF w

\* A printer goes, with the selection of it, and no other printer changes.
LEMMA WithoutType ==
    ASSUME NoIdIsSettings, NEW k \in Keyfiles, NEW id \in Id
    PROVE  LET w == Without(k, id)
           IN  /\ w \in Keyfiles
               /\ Listed(w) = Listed(k) \ {id}
               /\ \A h \in Listed(k) \ {id} : w[h] = k[h]
               /\ CurrentOf(w) = IF CurrentOf(k) = id THEN Nobody ELSE CurrentOf(k)
<1> DEFINE rest == Restrict(k, DOMAIN k \ {id})
           w == Without(k, id)
<1>1. DOMAIN k \subseteq Group /\ \A h \in DOMAIN k : k[h] \in Keys
  BY DEF Keyfiles
<1>2. /\ DOMAIN rest = DOMAIN k \ {id}
      /\ \A h \in DOMAIN k \ {id} : rest[h] = k[h]
      /\ rest \in [DOMAIN k \ {id} -> Keys]
  BY <1>1 DEF Restrict
<1>3. rest \in Keyfiles
  <2>1. DOMAIN k \ {id} \in SUBSET Group
    BY <1>1
  <2> QED BY <1>2, <2>1 DEF Keyfiles
<1>4. w = IF CurrentOf(rest) = id THEN WithCurrent(rest, Nobody) ELSE rest
  BY DEF Without
<1> HIDE DEF rest, w
<1>5. Listed(rest) = Listed(k) \ {id} /\ \A h \in Listed(k) \ {id} : rest[h] = k[h]
  BY <1>2 DEF Listed
<1>6. CurrentOf(rest) = CurrentOf(k)
  BY <1>2 DEF CurrentOf, NoIdIsSettings
<1>7. CASE CurrentOf(rest) = id
  BY <1>3, <1>4, <1>5, <1>6, <1>7, WithCurrentType DEF w
<1>8. CASE CurrentOf(rest) # id
  BY <1>3, <1>4, <1>5, <1>6, <1>8 DEF w
<1> QED BY <1>7, <1>8

-----------------------------------------------------------------------------

\* The address of a new printer is new: the list is scanned before the group is
\* added.
LEMMA AddKeepsUnique ==
    ASSUME NoIdIsSettings, NEW k \in Keyfiles, UniqueIn(k),
           NEW id \in Id, NEW a \in Address, id \notin DOMAIN k, ~AddressTaken(k, a)
    PROVE  UniqueIn(WithPrinter(k, id, a))
<1> DEFINE w == WithPrinter(k, id, a)
<1>1. /\ Listed(w) = Listed(k) \cup {id}
      /\ w[id].address = a
      /\ \A h \in Listed(k) \ {id} : w[h] = k[h]
  BY WithPrinterType
<1>2. id \notin Listed(k) /\ \A g \in Listed(k) : k[g].address # a
  BY DEF Listed, AddressTaken
<1> HIDE DEF w
<1>3. \A g \in Listed(k) : w[g].address = k[g].address /\ w[g].address # a
  BY <1>1, <1>2
<1>4. ASSUME NEW g \in Listed(w), NEW h \in Listed(w), w[g].address = w[h].address
      PROVE  g = h
  BY <1>1, <1>2, <1>3, <1>4 DEF UniqueIn
<1> QED BY <1>4 DEF UniqueIn, w

\* A first boot.
LEMMA InitInv == Init => DbInv
<1> SUFFICES ASSUME Init PROVE DbInv
  OBVIOUS
<1>1. keyfile \in Keyfiles /\ disk \in Keyfiles /\ DOMAIN keyfile = {} /\ DOMAIN disk = {}
  <2>1. << >> \in [{} -> Keys] /\ {} \in SUBSET Group /\ DOMAIN << >> = {}
    OBVIOUS
  <2> QED BY <2>1 DEF Init, Keyfiles
<1> QED BY <1>1 DEF Init, DbInv, TypeOK, UniqueAddresses, UniqueIn, AckedIsListed, Listed

\* A failed save leaves memory and file apart, and each keeps the invariant.
LEMMA StepInv ==
    ASSUME NoIdIsSettings, DbInv, [Next]_dbVars
    PROVE  DbInv'
<1> USE DEF DbInv, TypeOK, UniqueAddresses, AckedIsListed
<1>1. ASSUME NEW id \in Id, NEW a \in Address, Add(id, a) PROVE DbInv'
  <2>1. /\ keyfile' = WithPrinter(keyfile, id, a) /\ disk' = keyfile'
        /\ acked' = acked \cup {id}
        /\ id \notin DOMAIN keyfile /\ ~AddressTaken(keyfile, a)
    BY <1>1 DEF Add
  <2>2. keyfile' \in Keyfiles /\ Listed(keyfile') = Listed(keyfile) \cup {id}
    BY <2>1, WithPrinterType
  <2>3. UniqueIn(keyfile')
    BY <2>1, AddKeepsUnique
  <2> QED BY <2>1, <2>2, <2>3 DEF UniqueIn, Listed
<1>2. ASSUME NEW id \in Id, Delete(id) PROVE DbInv'
  <2>1. /\ keyfile' = Without(keyfile, id) /\ disk' \in {disk, keyfile'}
        /\ acked' = acked \ {id}
    BY <1>2 DEF Delete
  <2>2. /\ keyfile' \in Keyfiles /\ Listed(keyfile') = Listed(keyfile) \ {id}
        /\ \A h \in Listed(keyfile) \ {id} : keyfile'[h] = keyfile[h]
    BY <2>1, WithoutType
  <2>3. UniqueIn(keyfile')
    BY <2>2 DEF UniqueIn
  <2>4. UniqueIn(disk') /\ acked' \subseteq Listed(disk')
    BY <2>1, <2>2, <2>3 DEF UniqueIn, Listed
  <2> QED BY <2>1, <2>2, <2>3, <2>4
<1>3. ASSUME NEW id \in Id \cup {Nobody}, SetCurrent(id) PROVE DbInv'
  <2>1. /\ keyfile' = WithCurrent(keyfile, id) /\ disk' \in {disk, keyfile'}
        /\ acked' = acked
    BY <1>3 DEF SetCurrent
  <2>2. /\ keyfile' \in Keyfiles /\ Listed(keyfile') = Listed(keyfile)
        /\ \A h \in Listed(keyfile) : keyfile'[h] = keyfile[h]
    BY <2>1, WithCurrentType
  <2>3. UniqueIn(keyfile')
    BY <2>2 DEF UniqueIn
  <2>4. UniqueIn(disk') /\ acked' \subseteq Listed(disk')
    BY <2>1, <2>2, <2>3 DEF UniqueIn, Listed
  <2> QED BY <2>1, <2>2, <2>3, <2>4
<1>4. CASE Restart
  BY <1>4 DEF Restart, UniqueIn, Listed
<1>5. CASE UNCHANGED dbVars
  BY <1>5 DEF dbVars, UniqueIn, Listed
<1> QED BY <1>1, <1>2, <1>3, <1>4, <1>5 DEF Next

\* The three parts hold together in every reachable state, with saves that fail
\* and restarts anywhere.
THEOREM Invariance ==
    ASSUME NoIdIsSettings
    PROVE  Spec => []DbInv
<1>1. DbInv /\ [Next]_dbVars => DbInv'
  BY StepInv
<1> QED BY <1>1, InitInv, PTL DEF Spec

\* The key file always holds groups of the two keys.
THEOREM TypeCorrect ==
    ASSUME NoIdIsSettings
    PROVE  Spec => []TypeOK
BY Invariance, PTL DEF DbInv

\* No two printers in the list have one address, now and after a restart.
THEOREM AddressesAreUnique ==
    ASSUME NoIdIsSettings
    PROVE  Spec => []UniqueAddresses
BY Invariance, PTL DEF DbInv

\* No acknowledged printer is lost, by a failed save, a restart or another call.
THEOREM NothingAckedIsLost ==
    ASSUME NoIdIsSettings
    PROVE  Spec => []AckedIsListed
BY Invariance, PTL DEF DbInv

-----------------------------------------------------------------------------

\* The parts of a store.
LEMMA StoreParts ==
    ASSUME NEW k
    PROVE  /\ StoreOf(k).printers = [g \in Listed(k) |-> k[g].address]
           /\ DOMAIN StoreOf(k).printers = Listed(k)
           /\ \A g \in Listed(k) : StoreOf(k).printers[g] = k[g].address
           /\ StoreOf(k).selected = CurrentOf(k)
           /\ \A p : [StoreOf(k) EXCEPT !.printers = p] =
                         [printers |-> p, selected |-> CurrentOf(k)]
           /\ \A c : [StoreOf(k) EXCEPT !.selected = c] =
                         [printers |-> StoreOf(k).printers, selected |-> c]
<1> DEFINE f == [g \in Listed(k) |-> k[g].address]
<1>1. StoreOf(k) = [printers |-> f, selected |-> CurrentOf(k)]
  BY DEF StoreOf
<1>2. DOMAIN f = Listed(k) /\ \A g \in Listed(k) : f[g] = k[g].address
  OBVIOUS
<1> HIDE DEF f
<1>3. StoreOf(k).printers = f /\ StoreOf(k).selected = CurrentOf(k)
  BY <1>1
<1>4. \A p : [StoreOf(k) EXCEPT !.printers = p] = [printers |-> p, selected |-> CurrentOf(k)]
  BY <1>1
<1>5. \A c : [StoreOf(k) EXCEPT !.selected = c] = [printers |-> f, selected |-> c]
  BY <1>1
<1> QED BY <1>2, <1>3, <1>4, <1>5 DEF f

\* Adding commutes with reading the key file as a store.
LEMMA AddedIsAdded ==
    ASSUME NoIdIsSettings, NEW k \in Keyfiles, NEW id \in Id, NEW a \in Address
    PROVE  StoreOf(WithPrinter(k, id, a)) = Store!Added(StoreOf(k), id, a)
<1> DEFINE w == WithPrinter(k, id, a)
           p == [q \in Listed(k) \cup {id} |-> IF q = id THEN a ELSE k[q].address]
<1>1. /\ Listed(w) = Listed(k) \cup {id}
      /\ w[id].address = a
      /\ \A h \in Listed(k) \ {id} : w[h] = k[h]
      /\ CurrentOf(w) = CurrentOf(k)
  BY WithPrinterType
<1> HIDE DEF w
<1>2. [g \in Listed(w) |-> w[g].address] = p
  BY <1>1
<1>3. [q \in DOMAIN StoreOf(k).printers \cup {id} |->
          IF q = id THEN a ELSE StoreOf(k).printers[q]] = p
  BY StoreParts
<1>4. Store!Added(StoreOf(k), id, a) = [StoreOf(k) EXCEPT !.printers = p]
  BY <1>3 DEF Store!Added
<1>5. Store!Added(StoreOf(k), id, a) = [printers |-> p, selected |-> CurrentOf(k)]
  BY <1>4, StoreParts
<1> QED BY <1>1, <1>2, <1>5 DEF w, StoreOf

\* Removing commutes with reading the key file as a store.
LEMMA DroppedIsDropped ==
    ASSUME NoIdIsSettings, NEW k \in Keyfiles, NEW id \in Id
    PROVE  StoreOf(Without(k, id)) = Store!Dropped(StoreOf(k), id)
<1> DEFINE w == Without(k, id)
           p == [q \in Listed(k) \ {id} |-> k[q].address]
<1>1. /\ Listed(w) = Listed(k) \ {id}
      /\ \A h \in Listed(k) \ {id} : w[h] = k[h]
      /\ CurrentOf(w) = IF CurrentOf(k) = id THEN Nobody ELSE CurrentOf(k)
  BY WithoutType
<1> HIDE DEF w
<1>2. [g \in Listed(w) |-> w[g].address] = p
  BY <1>1
<1>3. Store!Restrict(StoreOf(k).printers, DOMAIN StoreOf(k).printers \ {id}) = p
  BY StoreParts DEF Store!Restrict
<1>4. Store!Dropped(StoreOf(k), id) =
          [printers |-> p,
           selected |-> IF StoreOf(k).selected = id THEN Nobody ELSE StoreOf(k).selected]
  BY <1>3 DEF Store!Dropped
<1>5. StoreOf(k).selected = CurrentOf(k)
  BY StoreParts
<1> QED BY <1>1, <1>2, <1>4, <1>5 DEF w, StoreOf

\* Selecting commutes with reading the key file as a store.
LEMMA SelectedIsSelected ==
    ASSUME NEW k \in Keyfiles, NEW id \in Id \cup {Nobody}
    PROVE  StoreOf(WithCurrent(k, id)) = [StoreOf(k) EXCEPT !.selected = id]
<1> DEFINE w == WithCurrent(k, id)
<1>1. /\ Listed(w) = Listed(k)
      /\ \A h \in Listed(k) : w[h] = k[h]
      /\ CurrentOf(w) = id
  BY WithCurrentType
<1> HIDE DEF w
<1>2. [g \in Listed(w) |-> w[g].address] = [g \in Listed(k) |-> k[g].address]
  BY <1>1
<1>3. [StoreOf(k) EXCEPT !.selected = id] =
          [printers |-> [g \in Listed(k) |-> k[g].address], selected |-> id]
  BY StoreParts
<1> QED BY <1>1, <1>2, <1>3 DEF w, StoreOf

\* No file reads as the empty store.
LEMMA InitRefines == Init => Store!Init
<1> SUFFICES ASSUME Init PROVE Store!Init
  OBVIOUS
<1>1. Listed(<< >>) = {} /\ CurrentOf(<< >>) = Nobody
  BY DEF Listed, CurrentOf
<1>2. StoreOf(<< >>) = [printers |-> << >>, selected |-> Nobody]
  <2>1. [g \in {} |-> << >>[g].address] = << >>
    OBVIOUS
  <2> QED BY <1>1, <2>1 DEF StoreOf
<1> QED BY <1>2 DEF Init, Store!Init, Store!Empty

\* Each operation on the key file is the operation on the store.
LEMMA StepRefines ==
    ASSUME NoIdIsSettings, DbInv, [Next]_dbVars
    PROVE  [Store!Next]_Store!vars
<1> USE DEF DbInv, TypeOK
<1>1. ASSUME NEW id \in Id, NEW a \in Address, Add(id, a)
      PROVE  Store!Adds(id, a)
  <2>1. /\ keyfile' = WithPrinter(keyfile, id, a) /\ disk' = keyfile'
        /\ id \notin DOMAIN keyfile /\ ~AddressTaken(keyfile, a)
    BY <1>1 DEF Add
  <2>2. /\ DOMAIN StoreOf(keyfile).printers = Listed(keyfile)
        /\ \A q \in Listed(keyfile) : StoreOf(keyfile).printers[q] = keyfile[q].address
    BY DEF StoreOf
  <2>3. /\ id \notin DOMAIN StoreOf(keyfile).printers
        /\ \A q \in DOMAIN StoreOf(keyfile).printers : StoreOf(keyfile).printers[q] # a
    BY <2>1, <2>2 DEF Listed, AddressTaken
  <2>4. StoreOf(keyfile)' = Store!Added(StoreOf(keyfile), id, a)
    BY <2>1, AddedIsAdded
  <2>5. StoreOf(disk)' = StoreOf(keyfile)'
    BY <2>1
  <2> QED BY <2>3, <2>4, <2>5 DEF Store!Adds, Store!Saves
<1>2. ASSUME NEW id \in Id, Delete(id)
      PROVE  Store!Drops(id)
  <2>1. /\ keyfile' = Without(keyfile, id) /\ disk' \in {disk, keyfile'}
        /\ id \in DOMAIN keyfile
    BY <1>2 DEF Delete
  <2>2. id \in DOMAIN StoreOf(keyfile).printers
    BY <2>1 DEF StoreOf, Listed, group_is_printer, NoIdIsSettings
  <2>3. StoreOf(keyfile)' = Store!Dropped(StoreOf(keyfile), id)
    BY <2>1, DroppedIsDropped
  <2>4. StoreOf(disk)' = StoreOf(disk) \/ StoreOf(disk)' = StoreOf(keyfile)'
    BY <2>1
  <2> QED BY <2>2, <2>3, <2>4 DEF Store!Drops, Store!Saves, Store!Forgets
<1>3. ASSUME NEW id \in Id \cup {Nobody}, SetCurrent(id)
      PROVE  Store!Selects(id)
  <2>1. keyfile' = WithCurrent(keyfile, id) /\ disk' \in {disk, keyfile'}
    BY <1>3 DEF SetCurrent
  <2>2. StoreOf(keyfile)' = [StoreOf(keyfile) EXCEPT !.selected = id]
    BY <2>1, SelectedIsSelected
  <2>3. StoreOf(disk)' = StoreOf(disk) \/ StoreOf(disk)' = StoreOf(keyfile)'
    BY <2>1
  <2> QED BY <2>2, <2>3 DEF Store!Selects, Store!Saves, Store!Forgets
<1>4. ASSUME Restart
      PROVE  Store!Restarts
  BY <1>4 DEF Restart, Store!Restarts, Store!Forgets
<1>5. ASSUME UNCHANGED dbVars
      PROVE  UNCHANGED Store!vars
  BY <1>5 DEF dbVars, Store!vars
<1> QED BY <1>1, <1>2, <1>3, <1>4, <1>5 DEF Next, Store!Next

\* The key file implements the list of printers and the selection.
THEOREM DbImplementsStore ==
    ASSUME NoIdIsSettings
    PROVE  Spec => ImplementsStore
<1>1. DbInv /\ [Next]_dbVars => [Store!Next]_Store!vars
  BY StepRefines
<1> QED BY <1>1, InitRefines, Invariance, PTL DEF Spec, ImplementsStore, Store!Spec

=============================================================================
