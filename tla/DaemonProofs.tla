---------------------------- MODULE DaemonProofs ----------------------------
(***************************************************************************)
(* Proofs about Daemon, for all paths and bounds.  The daemon takes no step *)
(* that the job engine does not have, so the invariant of the engine holds  *)
(* in it; the page and the stop rest on that invariant.                     *)
(***************************************************************************)
EXTENDS Daemon, LifecycleProofs

\* The life of the process and the page only look at the engine.
LEMMA EngineStep == ASSUME [DNext]_dvars PROVE [Next]_vars
<1>1. CASE Service
  <2>1. CASE Handler \/ SubmitStep \/ PollAsks
    BY <2>1 DEF Handler, PollAsks, Next
  <2>2. CASE EndOfPoll
    BY <2>2 DEF EndOfPoll, Next
  <2>3. CASE CancelsOfPage
    BY <2>3 DEF CancelsOfPage, Next
  <2>4. CASE ListJobs
    BY <2>4 DEF ListJobs
  <2> QED  BY <1>1, <2>1, <2>2, <2>3, <2>4 DEF Service
<1>2. CASE World
  BY <1>2 DEF World, Next
<1>3. CASE SignalHandler \/ Stop \/ Crash \/ UNCHANGED dvars
  BY <1>3 DEF SignalHandler, Stop, Crash, dvars
<1> QED  BY <1>1, <1>2, <1>3 DEF DNext

\* The invariant of the daemon.
DInv ==
    /\ IInv
    /\ life \in {"up", "terminating", "stopped", "crashed"}
    /\ queue \subseteq CupsId
    /\ QuietPageIsEmpty
    /\ life = "stopped" => mode = "idle"

\* With the timer gone and no submission under way, nothing of ours is alive.
LEMMA QuietMeansIdleCups ==
    IInv /\ faults = 0 /\ mode = "idle" /\ ~poll_source => Listing = {}
<1>. SUFFICES ASSUME IInv, faults = 0, mode = "idle", ~poll_source
              PROVE  Listing = {}
  OBVIOUS
<1>1. \A c \in CupsId : cupsState[c] \in Live => Watched(c)
  BY DEF IInv, NoUnwatchedJob
<1>2. ~\E j \in JobId : phase[j] = "submitted"
  BY DEF IInv, PollCoversSubmitted
<1>3. ~InHand
  BY DEF InHand
<1> QED  BY <1>1, <1>2, <1>3 DEF Listing, Watched

\* Only the end of a poll disarms the timer.
LEMMA TimerStays ==
    ASSUME poll_source \in BOOLEAN, poll_source,
           Handler \/ SubmitStep \/ PollAsks
    PROVE  poll_source'
<1>. USE DEF jobVars, loopVars, vars
<1>1. CASE Handler
  BY <1>1 DEF Handler, Open, JobStep, AddFile, CloseEmpty, Close, CancelSubmitted,
       CancelLocally, AllAtOnce, AllAtOnceRefused, PollStart
<1>2. CASE SubmitStep
  BY <1>2 DEF SubmitStep, CreateJob, CreateJobFails, SubmitFailed, DetectFormat,
       SendPage, SendLastPage, EnsurePolling, SendFails, AbortJob
<1>3. CASE PollAsks
  BY <1>3 DEF PollAsks, PollJob, PollVanished, PollChanged, PollSame
<1> QED  BY <1>1, <1>2, <1>3

\* The page is empty while the timer is gone: a step that may fill it tells it
\* the truth, and any other leaves it and the timer alone.
LEMMA PageStep ==
    ASSUME DInv, IInv', Service
    PROVE  QuietPageIsEmpty' /\ queue' \subseteq CupsId
<1>1. CASE (Handler \/ SubmitStep \/ PollAsks) /\ UNCHANGED queue
  <2>1. queue \subseteq CupsId /\ TypeOK /\ poll_source \in BOOLEAN
    BY DEF DInv, IInv, TypeOK
  <2>2. ASSUME faults' = 0, ~poll_source', NEW c \in queue PROVE FALSE
    <3>1. [DNext]_dvars
      BY DEF DNext
    <3>2. CupsNext \/ UNCHANGED cupsVars
      BY <3>1, EngineStep, OneCall DEF DInv, IInv
    <3>3. faults = 0
      BY <2>1, <2>2, <3>2, CupsMonotone DEF TypeOK
    <3>4. ~poll_source
      BY <1>1, <2>1, <2>2, TimerStays
    <3>5. Running
      BY DEF Service
    <3> QED  BY <2>2, <3>3, <3>4, <3>5 DEF DInv, QuietPageIsEmpty
  <2> QED  BY <1>1, <2>1, <2>2 DEF QuietPageIsEmpty
<1>2. CASE ShowQueue /\ mode' = "idle"
  <2>1. (IInv /\ faults = 0 /\ mode = "idle" /\ ~poll_source => Listing = {})'
    BY QuietMeansIdleCups, PTL
  <2>2. Listing' \subseteq CupsId
    BY DEF Listing
  <2> QED  BY <1>2, <2>1, <2>2 DEF ShowQueue, QuietPageIsEmpty
<1>3. EndOfPoll \/ CancelsOfPage \/ ListJobs => ShowQueue /\ mode' = "idle"
  BY DEF EndOfPoll, PollEnd, CancelsOfPage, PortsCancelJob, PortsCancelAllJobs,
         ListJobs, loopVars, vars
<1> QED  BY <1>1, <1>2, <1>3 DEF Service

LEMMA DInvInit == DInit => DInv
BY InvInit DEF DInit, DInv, QuietPageIsEmpty

LEMMA DInvStep == DInv /\ [DNext]_dvars => DInv'
<1>. SUFFICES ASSUME DInv, [DNext]_dvars PROVE DInv'
  OBVIOUS
<1>1. IInv'
  BY EngineStep, InvStep DEF DInv
<1>2. CASE Service
  <2>1. UNCHANGED life /\ Running
    BY <1>2 DEF Service
  <2> QED  BY <1>1, <1>2, <2>1, PageStep DEF DInv, Running
<1>3. CASE World
  <2>1. UNCHANGED <<life, queue, mode, poll_source>>
    BY <1>3 DEF World, CupsStep, ClientWrites, loopVars
  <2>2. ASSUME faults' = 0, NEW c \in queue PROVE faults = 0
    <3>1. CupsNext \/ UNCHANGED cupsVars
      BY EngineStep, OneCall DEF DInv, IInv
    <3> QED  BY <2>2, <3>1, CupsMonotone DEF DInv, IInv, TypeOK
  <2> QED  BY <1>1, <2>1, <2>2 DEF DInv, QuietPageIsEmpty, Running
<1>4. CASE SignalHandler \/ Stop \/ Crash
  BY <1>1, <1>4 DEF SignalHandler, Stop, Crash, DInv, QuietPageIsEmpty, Running,
       vars, loopVars, cupsVars
<1>5. CASE UNCHANGED dvars
  BY <1>1, <1>5 DEF dvars, vars, loopVars, cupsVars, DInv, QuietPageIsEmpty, Running
<1> QED  BY <1>1, <1>2, <1>3, <1>4, <1>5 DEF DNext

-----------------------------------------------------------------------------

\* Signals, stops and the page leave the engine what it was: every behaviour of
\* the daemon is one of PrintJobs, so what is proved of the engine holds here.
THEOREM DaemonIsEngine == DSpec => Spec
<1>1. DInit => Init
  BY DEF DInit
<1>2. [DNext]_dvars => [Next]_vars
  BY EngineStep
<1> QED  BY <1>1, <1>2, PTL DEF DSpec, Spec

\* What a client of the /jobs methods is promised holds in every run, up to its end
\* and beyond: a stop and a kill are invisible in the life of a job.
THEOREM DaemonImplementsLifecycle == DSpec => ImplementsLifecycle
BY DaemonIsEngine, EngineImplementsLifecycle, PTL

\* The same for the pages CUPS was handed of every job.
THEOREM DaemonHandsOver == DSpec => []HandoffComplete
BY DaemonIsEngine, HandoffIsComplete, PTL

THEOREM DInvariance == DSpec => []DInv
BY DInvInit, DInvStep, PTL DEF DSpec

\* The life of the process and the page keep their types.
THEOREM DTypeCorrect == DSpec => []DTypeOK
<1>1. DInv => DTypeOK
  BY DEF DInv, DTypeOK, IInv
<1> QED  BY <1>1, DInvariance, PTL

\* When the poll timer has removed itself the Settings page shows none of our
\* jobs, unless cupsd failed to answer.
THEOREM PageIsQuiet == DSpec => []QuietPageIsEmpty
<1>1. DInv => QuietPageIsEmpty
  BY DEF DInv
<1> QED  BY <1>1, DInvariance, PTL

\* What a stop leaves alive in CUPS are whole, acknowledged jobs, unless cupsd
\* failed to answer.
THEOREM StopIsClean == DSpec => []CleanStop
<1>1. DInv => CleanStop
  <2>. SUFFICES ASSUME DInv, faults = 0, life = "stopped",
                       NEW c \in CupsId, cupsState[c] \in Live
                PROVE  /\ cupsState[c] # "incoming"
                       /\ \E j \in JobId : /\ phase[j] = "submitted"
                                           /\ cups_job_id[j] = c
                                           /\ cupsDocs[c] = files[j]
    BY DEF CleanStop
  <2>1. ~InHand
    BY DEF DInv, InHand
  <2>2. PICK j \in JobId : phase[j] = "submitted" /\ cups_job_id[j] = c
    BY <2>1 DEF DInv, IInv, NoUnwatchedJob, Watched
  <2>3. cups_job_id[j] # NoCupsJob
    BY <2>2 DEF DInv, IInv, TableInv
  <2> QED  BY <2>2, <2>3 DEF DInv, IInv, HandOverInv
<1> QED  BY <1>1, DInvariance, PTL
=============================================================================
