------------------------------- MODULE Daemon -------------------------------
(***************************************************************************)
(* The life of the daemon around its job engine, and the queue view of the  *)
(* Settings page that the engine feeds.                                     *)
(*                                                                          *)
(* A run starts with an empty job table and ends in one of two ways.  On    *)
(* SIGTERM or SIGINT the main loop is asked to quit after a grace period;   *)
(* until it does, it serves calls as before.  Or the process is killed, at  *)
(* any point of a handler.  Either way the table is lost while CUPS, which  *)
(* is another process, goes on with what it was handed.                     *)
(*                                                                          *)
(* The variables of a run that is over keep the values they had last: they  *)
(* say what its clients were told, and nobody reads them any more.          *)
(***************************************************************************)
EXTENDS PrintJobs

VARIABLES
    life,        \* of the process; "terminating" is __terminated
    queue        \* our CUPS jobs on the Settings page: the last listJobs payload

dvars == <<vars, life, queue>>

DTypeOK ==
    /\ TypeOK
    /\ life \in {"up", "terminating", "stopped", "crashed"}
    /\ queue \subseteq CupsId

\* The signal handler is set up before the services are registered, and no job
\* survives from an earlier run.
DInit ==
    /\ Init
    /\ life = "up"
    /\ queue = {}

Running == life \in {"up", "terminating"}

-----------------------------------------------------------------------------
(* The queue view.                                                          *)

\* Mutant: the failed listing counts as one job.
ListingWithNone ==
    IF cupsUp THEN {c \in CupsId : cupsState[c] \in Live} ELSE {NoCupsJob}

\* cups_backend_list_jobs: the active jobs of every user, and none at all when
\* cupsd does not answer.  A job that still collects documents is an active one.
Listing == IF cupsUp THEN {c \in CupsId : cupsState[c] \in Live} ELSE {}

\* ports_post_jobs, the last call its callers make
ShowQueue == queue' = Listing'

\* listJobs: the reply is the payload the posts carry.
ListJobs ==
    /\ mode = "idle"
    /\ UNCHANGED vars
    /\ ShowQueue

\* Mutant: the page is told only when a job of the table was in flight.
EndOfPollWhileActive ==
    /\ PollEnd
    /\ IF any_active THEN ShowQueue ELSE UNCHANGED queue

\* The page is told at the end of every poll, the one that stops the timer included.
EndOfPoll == PollEnd /\ ShowQueue

\* A cancel on the Settings page is answered by the new list to everybody.
CancelsOfPage ==
    /\ \/ \E c \in CupsId : PortsCancelJob(c)
       \/ PortsCancelAllJobs
    /\ ShowQueue

-----------------------------------------------------------------------------
(* The life of the process.                                                 *)

\* signal_handler: signals are blocked and read from a descriptor by the main
\* loop, hence between two handlers.  A second signal changes nothing.
SignalHandler ==
    /\ life = "up"
    /\ mode = "idle"
    /\ life' = "terminating"
    /\ UNCHANGED <<vars, queue>>

\* Mutant: the quit waits for the jobs in flight.
StopWhenNothingInFlight ==
    /\ life = "terminating"
    /\ mode = "idle"
    /\ ~poll_source
    /\ life' = "stopped"
    /\ UNCHANGED <<vars, queue>>

\* Mutant: the signal ends the process wherever it is.
StopAnywhere ==
    /\ life = "terminating"
    /\ life' = "stopped"
    /\ UNCHANGED <<vars, queue>>

\* The grace timer fires: quit_eventloop, then print_service_free, which stops
\* the timers and drops the table without a word to CUPS or to a subscriber.
Stop ==
    /\ life = "terminating"
    /\ mode = "idle"
    /\ life' = "stopped"
    /\ UNCHANGED <<vars, queue>>

Crash ==
    /\ Running
    /\ life' = "crashed"
    /\ UNCHANGED <<vars, queue>>

-----------------------------------------------------------------------------

\* The handlers that say nothing to the page.
Handler ==
    \/ Open
    \/ \E j \in JobId : JobStep(j)
    \/ \E paths \in PathLists : AllAtOnce(paths) \/ AllAtOnceRefused(paths)
    \/ PollStart

PollAsks == \E j \in JobId : PollJob(j)

\* A step of the engine while its process runs, and what the page sees of it.
Service ==
    /\ Running
    /\ \/ (Handler \/ SubmitStep \/ PollAsks) /\ UNCHANGED queue
       \/ EndOfPoll
       \/ CancelsOfPage
       \/ ListJobs
    /\ UNCHANGED life

\* CUPS goes on after a stop.  The files matter only to a running daemon, and
\* nothing is said of what a killed one leaves.
World ==
    /\ \/ life # "crashed" /\ CupsStep
       \/ Running /\ \E p \in Path : ClientWrites(p)
    /\ UNCHANGED <<life, queue>>

DNext ==
    \/ Service
    \/ World
    \/ SignalHandler
    \/ Stop
    \/ Crash

DSpec == DInit /\ [][DNext]_dvars

(***************************************************************************)
(* As in PrintJobs, every libcups call returns and the loops of a handler   *)
(* go on, as long as the process runs.  The grace timer, once it is due, is *)
(* one of the sources of equal priority that an iteration of the main loop  *)
(* dispatches: it comes to its turn between handlers however many calls     *)
(* arrive, which is strong fairness, since each of them disables it.        *)
(***************************************************************************)
DFairness ==
    /\ WF_dvars(Service /\ SubmitStep)
    /\ WF_dvars(Service /\ PollAsks)
    /\ WF_dvars(Service /\ EndOfPoll)
    /\ SF_dvars(Stop)

DFairSpec == DSpec /\ DFairness

-----------------------------------------------------------------------------

\* A page that will not be told again of its own accord shows none of our jobs:
\* when the timer has removed itself, the last poll has emptied the page, on
\* whichever way the jobs ended and whatever the page asked for in between.
QuietPageIsEmpty ==
    faults = 0 /\ Running /\ ~poll_source => queue = {}

\* A stop on a signal never cuts a submission in two.  While cupsd answers, what
\* the daemon leaves alive in CUPS are whole jobs that it had acknowledged,
\* although it goes on accepting submissions after the signal.
CleanStop ==
    faults = 0 /\ life = "stopped" =>
        \A c \in CupsId : cupsState[c] \in Live =>
            /\ cupsState[c] # "incoming"
            /\ \E j \in JobId : /\ phase[j] = "submitted"
                                /\ cups_job_id[j] = c
                                /\ cupsDocs[c] = files[j]

\* The daemon obeys the signal: neither the calls it still serves, nor jobs that
\* never end, nor a cupsd that stays away keep it.  Under DFairSpec.
Terminates == life = "terminating" ~> ~Running
=============================================================================
