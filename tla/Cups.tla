-------------------------------- MODULE Cups --------------------------------
(***************************************************************************)
(* The CUPS scheduler, as libcups shows it to the adapter.  CUPS is not     *)
(* part of the repository: everything here is external and is modelled      *)
(* from the calls src/cups_backend.c makes and the results it tests for.    *)
(*                                                                          *)
(* A CUPS job is created empty ("incoming"), receives documents, and is     *)
(* released to the queue by the document flagged as the last one.  From     *)
(* then on the scheduler moves it by itself, any CUPS user may cancel it,   *)
(* and a job that has ended is forgotten when it ages out of the history.   *)
(***************************************************************************)
EXTENDS Naturals, Sequences

CONSTANTS
    Path,        \* file paths a client may hand to the service
    MaxCups,     \* bound: CUPS job ids in use
    MaxFaults    \* bound: outages of cupsd and replies lost on the way back

ASSUME CupsAssumption ==
    /\ MaxCups \in Nat
    /\ MaxFaults \in Nat

CupsId == 1 .. MaxCups

VARIABLES
    cupsUp,      \* cupsd answers
    cupsState,   \* job-state of every job id
    cupsDocs,    \* documents received for every job id, in order
    faults       \* outages and lost replies so far

cupsVars == <<cupsUp, cupsState, cupsDocs, faults>>

Queued == {"pending", "held", "processing", "stopped"}
Live   == Queued \cup {"incoming"}
Ended  == {"canceled", "aborted", "completed"}

\* "none": the id was never used.  "forgotten": purged from the history.
CupsStates == Live \cup Ended \cup {"none", "forgotten"}

CupsInit ==
    /\ cupsUp = TRUE
    /\ cupsState = [c \in CupsId |-> "none"]
    /\ cupsDocs = [c \in CupsId |-> << >>]
    /\ faults = 0

-----------------------------------------------------------------------------
(* What the scheduler, the printers and other CUPS users do on their own.   *)

Moves ==
    { <<"pending", "held">>, <<"held", "pending">>, <<"pending", "processing">>,
      <<"processing", "pending">>, <<"processing", "stopped">>,
      <<"stopped", "processing">>, <<"processing", "completed">>,
      <<"processing", "aborted">>, <<"incoming", "aborted">> }
    \cup (Live \X {"canceled"}) \cup (Ended \X {"forgotten"})
    \cup (Live \X {"forgotten"})   \* its queue is deleted, by removePrinter or an admin

CupsMoves(c) ==
    /\ cupsUp
    /\ \E s \in CupsStates :
          /\ <<cupsState[c], s>> \in Moves
          /\ cupsState' = [cupsState EXCEPT ![c] = s]
    /\ UNCHANGED <<cupsUp, cupsDocs, faults>>

CupsGoesDown ==
    /\ cupsUp
    /\ faults < MaxFaults
    /\ cupsUp' = FALSE
    /\ faults' = faults + 1
    /\ UNCHANGED <<cupsState, cupsDocs>>

CupsComesBack ==
    /\ ~cupsUp
    /\ cupsUp' = TRUE
    /\ UNCHANGED <<cupsState, cupsDocs, faults>>

-----------------------------------------------------------------------------
(* What a libcups call does to the scheduler.  lost says that the request   *)
(* took effect but its reply never arrived, so the caller sees a failure.   *)

CountFault(lost) ==
    /\ lost => faults < MaxFaults
    /\ faults' = IF lost THEN faults + 1 ELSE faults

\* Create-Job: ids are handed out in increasing order.
CupsCreate(c, lost) ==
    /\ cupsUp
    /\ cupsState[c] = "none"
    /\ \A d \in CupsId : d < c => cupsState[d] # "none"
    /\ cupsState' = [cupsState EXCEPT ![c] = "incoming"]
    /\ CountFault(lost)
    /\ UNCHANGED <<cupsUp, cupsDocs>>

\* Send-Document: accepted only while the job still collects documents.
CupsSend(c, p, last, lost) ==
    /\ cupsUp
    /\ cupsState[c] = "incoming"
    /\ cupsState' = [cupsState EXCEPT ![c] = IF last THEN "pending" ELSE @]
    /\ cupsDocs' = [cupsDocs EXCEPT ![c] = Append(@, p)]
    /\ CountFault(lost)
    /\ UNCHANGED cupsUp

\* Cancel-Job succeeds on exactly the jobs that have not ended.
Cancellable(c) == cupsUp /\ c \in CupsId /\ cupsState[c] \in Live

CupsCancel(S) ==
    /\ \A c \in S : Cancellable(c)
    /\ cupsState' = [c \in CupsId |-> IF c \in S THEN "canceled" ELSE cupsState[c]]
    /\ UNCHANGED <<cupsUp, cupsDocs, faults>>

CupsTypeOK ==
    /\ cupsUp \in BOOLEAN
    /\ cupsState \in [CupsId -> CupsStates]
    /\ cupsDocs \in [CupsId -> Seq(Path)]
    /\ faults \in 0 .. MaxFaults
=============================================================================
