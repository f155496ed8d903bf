------------------------------ MODULE PrinterDb ------------------------------
(***************************************************************************)
(* The printer database: a GKeyFile in memory and the file it is saved to.  *)
(* A printer is a group named by its id; the selected printer is a key of   *)
(* one more group, Settings, in the same key file.  Every change is applied *)
(* in memory and then saved whole; the save may fail, and what happens to   *)
(* the change in memory then differs from one operation to the next.        *)
(*                                                                          *)
(* g_key_file_save_to_file replaces the file in one rename, so the file     *)
(* never holds half a save.  Names are left out, and the ssid, which no     *)
(* code ever sets: every printer is stored with "" and a delete that names  *)
(* a network finds no match.                                                *)
(***************************************************************************)
EXTENDS Functions

CONSTANTS
    Id,          \* printer ids the clients use
    Address,     \* addresses and URIs they type
    Settings,    \* the group name "settings"
    Nobody       \* no selection: the key is missing, or holds ""

ASSUME NobodyAssumption == Nobody \notin Id \cup Address

VARIABLES
    keyfile,     \* group name -> its keys, in memory
    disk,        \* the file
    acked        \* ids whose add was answered with success, until a delete names them

dbVars == <<keyfile, disk, acked>>

Group == Id \cup {Settings}
Keys == [address : Address \cup {Nobody}, current : Id \cup {Nobody}]
Keyfiles == UNION {[G -> Keys] : G \in SUBSET Group}

TypeOK ==
    /\ keyfile \in Keyfiles
    /\ disk \in Keyfiles
    /\ acked \in SUBSET Id

\* First boot: no file, which is not an error.
Init ==
    /\ keyfile = << >>
    /\ disk = << >>
    /\ acked = {}

-----------------------------------------------------------------------------

group_is_printer(g) == g # Settings

Listed(k) == {g \in DOMAIN k : group_is_printer(g)}

\* Mutant: two printers may share an address.
AddressNeverTaken(k, a) == FALSE

AddressTaken(k, a) == \E g \in Listed(k) : k[g].address = a

CurrentOf(k) == IF Settings \in DOMAIN k THEN k[Settings].current ELSE Nobody

WithGroup(k, g, keys) == [h \in DOMAIN k \cup {g} |-> IF h = g THEN keys ELSE k[h]]

WithPrinter(k, id, a) == WithGroup(k, id, [address |-> a, current |-> Nobody])

WithCurrent(k, id) ==
    WithGroup(k, Settings,
              [address |-> IF Settings \in DOMAIN k THEN k[Settings].address ELSE Nobody,
               current |-> id])

\* Mutant: the selection of a removed printer is read back as NULL.
WithoutLeavesNull(k, id) ==
    LET rest == Restrict(k, DOMAIN k \ {id})
    IN  IF CurrentOf(rest) = id THEN WithCurrent(rest, "NULL") ELSE rest

\* The group goes, and so does currentPrinter if it named it.
Without(k, id) ==
    LET rest == Restrict(k, DOMAIN k \ {id})
    IN  IF CurrentOf(rest) = id THEN WithCurrent(rest, Nobody) ELSE rest

-----------------------------------------------------------------------------

\* Mutant: the new group is not taken out again when the save failed.
AddWithoutRollback(id, a) ==
    /\ id \notin DOMAIN keyfile
    /\ ~AddressTaken(keyfile, a)
    /\ keyfile' = WithPrinter(keyfile, id, a)
    /\ \/ disk' = keyfile' /\ acked' = acked \cup {id}
       \/ UNCHANGED <<disk, acked>>

\* Mutant: success although the file was not written.
AddIgnoresFlush(id, a) ==
    /\ id \notin DOMAIN keyfile
    /\ ~AddressTaken(keyfile, a)
    /\ keyfile' = WithPrinter(keyfile, id, a)
    /\ disk' \in {disk, keyfile'}
    /\ acked' = acked \cup {id}

\* printer_db_add.  When the save fails the new group is taken out again, so
\* that nothing has changed: a stuttering step, like the two refusals.
Add(id, a) ==
    /\ id \notin DOMAIN keyfile
    /\ ~AddressTaken(keyfile, a)
    /\ keyfile' = WithPrinter(keyfile, id, a)
    /\ disk' = keyfile'
    /\ acked' = acked \cup {id}

\* printer_db_delete; a failed save leaves the group out of memory.
Delete(id) ==
    /\ id \in DOMAIN keyfile
    /\ keyfile' = Without(keyfile, id)
    /\ disk' \in {disk, keyfile'}
    /\ acked' = acked \ {id}

\* printer_db_set_current, of any id, known or not; a failed save keeps the
\* selection in memory.
SetCurrent(id) ==
    /\ keyfile' = WithCurrent(keyfile, id)
    /\ disk' \in {disk, keyfile'}
    /\ UNCHANGED acked

\* The daemon stops at any point and is started again by systemd.
Restart ==
    /\ keyfile' = disk
    /\ UNCHANGED <<disk, acked>>

Next ==
    \/ \E id \in Id, a \in Address : Add(id, a)
    \/ \E id \in Id : Delete(id)
    \/ \E id \in Id \cup {Nobody} : SetCurrent(id)
    \/ Restart

Spec == Init /\ [][Next]_dbVars

-----------------------------------------------------------------------------

\* No two printers of the list have one address, in memory or after a restart:
\* unsaved deletes put memory and file apart, and each later save brings the
\* file to what memory has become.
UniqueIn(k) == \A g, h \in Listed(k) : k[g].address = k[h].address => g = h
UniqueAddresses == UniqueIn(keyfile) /\ UniqueIn(disk)

\* A printer whose add was acknowledged is in the list, and will be after a
\* restart at any time, until somebody deletes it: no failed save, change of the
\* selection or delete of another printer loses it.
AckedIsListed == acked \subseteq Listed(keyfile) \cap Listed(disk)

\* Inductive.
DbInv == TypeOK /\ UniqueAddresses /\ AckedIsListed

-----------------------------------------------------------------------------
(* The clients' view of the key file.                                       *)

StoreOf(k) ==
    [printers |-> [g \in Listed(k) |-> k[g].address], selected |-> CurrentOf(k)]

Store == INSTANCE PrinterStore WITH
    Printer <- Id, inForce <- StoreOf(keyfile), kept <- StoreOf(disk)

\* The encoding never shows: keeping the selection as one more group of the
\* file of printers behaves as a list of printers and a selection would, the
\* failed saves included.
ImplementsStore == Store!Spec
=============================================================================
