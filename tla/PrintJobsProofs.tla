-------------------------- MODULE PrintJobsProofs ---------------------------
(***************************************************************************)
(* Proofs about PrintJobs, for any number of jobs, pages, CUPS ids and      *)
(* faults.                                                                  *)
(***************************************************************************)
EXTENDS PrintJobs, SequenceTheorems, FiniteSetTheorems, TLAPS

\* allAtOnce is called with sequences of paths.
LEMMA PathListsAreSequences == PathLists \subseteq Seq(Path)
<1>1. ASSUME NEW s \in PathLists PROVE s \in Seq(Path)
  <2>1. PICK n \in 0 .. MaxFiles : s \in [1 .. n -> Path]
    BY DEF PathLists, BoundedSeq, SeqOf
  <2>2. n \in Nat
    BY PrintJobsAssumption
  <2>3. QED BY <2>1, <2>2, SeqDef
<1>2. QED BY <1>1

\* Whatever CUPS answers translates to an event of the stream.
LEMMA TranslateType ==
    ASSUME NEW s
    PROVE  /\ Translate(s) \in Reports
           /\ Translate(s).state \in {"QUEUED", "RUNNING", "BLOCKED", "DONE"}
BY DEF Translate, Reports

LEMMA TypeInit ==
    ASSUME Init
    PROVE  TypeOK
<1>. USE DEF Init, CupsTypeOK
<1>1. << >> \in Seq(Path)
  BY EmptySeq
<1>2. CupsTypeOK
  BY <1>1, CupsAssumption DEF CupsInit, CupsStates
<1>3. /\ phase \in [JobId -> Phases]
      /\ files \in [JobId -> Seq(Path)]
      /\ cups_job_id \in [JobId -> CupsId \cup {NoCupsJob}]
  BY <1>1 DEF Phases
<1>4. reported \in [JobId -> Reports]
  BY DEF Reports, NoReport
<1>5. poll_source \in BOOLEAN /\ any_active \in BOOLEAN
  BY Zenon
<1>6. next_job_id \in 1 .. MaxJobs + 1 /\ idx \in Nat \ {0}
  BY PrintJobsAssumption
<1>7. QED
  BY <1>2, <1>3, <1>4, <1>5, <1>6, Zenon DEF TypeOK

LEMMA TypeStep ==
    ASSUME TypeOK, SubmissionInv, [Next]_vars
    PROVE  TypeOK'
<1>. USE CupsAssumption, PrintJobsAssumption DEF TypeOK, CupsTypeOK
<1>. USE DEF cupsVars, jobVars, loopVars
<1>1. ASSUME Open PROVE TypeOK'
  BY <1>1 DEF Open, Phases, JobId
<1>2. ASSUME NEW j \in JobId, NEW p \in Path, AddFile(j, p) PROVE TypeOK'
  BY <1>2, AppendProperties DEF AddFile
<1>3. ASSUME NEW j \in JobId, CloseEmpty(j) PROVE TypeOK'
  BY <1>3 DEF CloseEmpty, PostJobState, Done, Reports, Phases
<1>4. ASSUME NEW j \in JobId, Close(j) PROVE TypeOK'
  BY <1>4 DEF Close, BeginSubmit
<1>5. ASSUME NEW paths \in PathLists, AllAtOnce(paths) PROVE TypeOK'
  BY <1>5, PathListsAreSequences DEF AllAtOnce, BeginSubmit, Phases, JobId
<1>6. ASSUME NEW paths \in PathLists, AllAtOnceRefused(paths) PROVE TypeOK'
  BY <1>6 DEF AllAtOnceRefused, Phases, JobId
<1>7. ASSUME NEW j \in JobId, CancelSubmitted(j) PROVE TypeOK'
  BY <1>7 DEF CancelSubmitted, CupsCancel, PostJobState, Done, Reports,
              Phases, CupsStates, Ended
<1>8. ASSUME NEW j \in JobId, CancelLocally(j) PROVE TypeOK'
  BY <1>8 DEF CancelLocally, PostJobState, Done, Reports, Phases
<1>9. ASSUME NEW c \in CupsId, PortsCancelJob(c) PROVE TypeOK'
  BY <1>9 DEF PortsCancelJob, CupsCancel, CupsStates, Ended
<1>10. ASSUME PortsCancelAllJobs PROVE TypeOK'
  BY <1>10 DEF PortsCancelAllJobs, CupsCancel, CupsStates, Ended
<1>11. ASSUME NEW c \in CupsId, CreateJob(c) PROVE TypeOK'
  BY <1>11 DEF CreateJob, CupsCreate, CountFault, CupsStates, Live
<1>12. ASSUME SubmitFailed PROVE
         /\ phase' \in [JobId -> Phases]
         /\ UNCHANGED <<next_job_id, files, cups_job_id, last_printer_state,
                        poll_source, file, todo, any_active>>
         /\ mode' = "idle" /\ cur' = 0 /\ via' = "close"
         /\ cid' = NoCupsJob /\ idx' = 1
         /\ reported' \in [JobId -> Reports]
  BY <1>12 DEF SubmitFailed, EndSubmit, PostJobState, Done, Reports, Phases
<1>13. ASSUME CreateJobFails PROVE TypeOK'
  <2>1. SubmitFailed
    BY <1>13 DEF CreateJobFails
  <2>2. CASE UNCHANGED cupsVars
    BY <2>1, <2>2, <1>12
  <2>3. CASE \E c \in CupsId : CupsCreate(c, TRUE)
    <3>1. CupsTypeOK'
      BY <2>3 DEF CupsCreate, CountFault, CupsStates, Live
    <3>2. QED BY <2>1, <3>1, <1>12
  <2>4. QED BY <1>13, <2>2, <2>3 DEF CreateJobFails
<1>14. ASSUME DetectFormat PROVE TypeOK'
  BY <1>14 DEF DetectFormat
<1>15. ASSUME NEW d \in CupsId, NEW p \in Path, NEW last \in BOOLEAN,
              NEW lost \in BOOLEAN, CupsSend(d, p, last, lost)
       PROVE CupsTypeOK'
  BY <1>15, AppendProperties DEF CupsSend, CountFault, CupsStates, Live, Queued
<1>16. mode = "send" => page \in Path
  BY ElementOfSeq DEF SubmissionInv, Submitting, page
<1>17. ASSUME SendPage PROVE TypeOK'
  <2>1. CupsTypeOK'
    BY <1>15, <1>16, <1>17 DEF SendPage, SubmissionInv, InHand
  <2>2. QED BY <1>17, <2>1 DEF SendPage
<1>18. ASSUME SendLastPage PROVE TypeOK'
  <2>1. CupsTypeOK'
    BY <1>15, <1>16, <1>18 DEF SendLastPage, SubmissionInv, InHand
  <2>2. poll_source' \in BOOLEAN
    BY <1>18, Zenon DEF SendLastPage, EnsurePolling, PostJobState
  <2>3. reported' \in [JobId -> Reports]
    BY <1>18 DEF SendLastPage, PostJobState, Reports
  <2>4. /\ phase' \in [JobId -> Phases]
        /\ cups_job_id' \in [JobId -> CupsId \cup {NoCupsJob}]
        /\ UNCHANGED <<next_job_id, files, file, todo, any_active>>
        /\ mode' = "idle" /\ cur' = 0 /\ via' = "close"
        /\ cid' = NoCupsJob /\ idx' = 1
    BY <1>18 DEF SendLastPage, EndSubmit, SubmissionInv, InHand, Phases
  <2>5. last_printer_state'
           \in [JobId -> {"none", "QUEUED", "RUNNING", "BLOCKED", "DONE"}]
    BY <1>18 DEF SendLastPage
  <2>6. QED
    BY <2>1, <2>2, <2>3, <2>4, <2>5
<1>19. ASSUME SendFails PROVE TypeOK'
  <2>1. CASE UNCHANGED cupsVars
    BY <1>19, <2>1 DEF SendFails
  <2>2. CASE CupsSend(cid, page, lastPage, TRUE)
    <3>1. CupsTypeOK'
      BY <1>15, <1>16, <1>19, <2>2 DEF SendFails, SubmissionInv, InHand, lastPage
    <3>2. QED BY <1>19, <3>1 DEF SendFails
  <2>3. QED BY <1>19, <2>1, <2>2 DEF SendFails
<1>20. ASSUME AbortJob PROVE TypeOK'
  <2>1. SubmitFailed /\ CupsTypeOK'
    BY <1>20 DEF AbortJob, CupsCancel, CupsStates, Ended
  <2>2. QED BY <1>12, <2>1
<1>21. ASSUME PollStart PROVE TypeOK'
  BY <1>21 DEF PollStart
<1>22. ASSUME NEW j \in JobId, PollJob(j) PROVE TypeOK'
  <2>1. ASSUME PollVanished(j) PROVE TypeOK'
    BY <2>1 DEF PollVanished, PostJobState, Done, Reports, Phases
  <2>2. ASSUME PollSame(j) PROVE TypeOK'
    BY <2>2 DEF PollSame
  <2>3. ASSUME PollChanged(j) PROVE TypeOK'
    <3> DEFINE r == Translate(cupsState[cups_job_id[j]])
    <3>. HIDE DEF r
    <3>1. r \in Reports /\ r.state \in {"QUEUED", "RUNNING", "BLOCKED", "DONE"}
      BY TranslateType DEF r
    <3>2. /\ todo' \subseteq JobId
          /\ PostJobState(j, r)
          /\ last_printer_state' = [last_printer_state EXCEPT ![j] = r.state]
          /\ phase' \in [JobId -> Phases]
          /\ UNCHANGED <<cupsVars, next_job_id, files, cups_job_id, mode, cur,
                         via, cid, idx, any_active, poll_source, file>>
      BY <2>3 DEF PollChanged, Phases, r
    <3>3. QED
      BY <3>1, <3>2 DEF PostJobState
  <2>4. QED BY <1>22, <2>1, <2>2, <2>3 DEF PollJob
<1>23. ASSUME PollEnd PROVE TypeOK'
  BY <1>23 DEF PollEnd
<1>24. ASSUME NEW p \in Path, ClientWrites(p) PROVE TypeOK'
  BY <1>24 DEF ClientWrites
<1>25. ASSUME CupsStep PROVE TypeOK'
  <2>1. UNCHANGED <<jobVars, loopVars, reported, poll_source, file>>
    BY <1>25 DEF CupsStep
  <2>2. ASSUME NEW c \in CupsId, CupsMoves(c) PROVE CupsTypeOK'
    BY <2>2 DEF CupsMoves
  <2>3. ASSUME CupsGoesDown PROVE CupsTypeOK'
    <3>1. cupsUp' \in BOOLEAN
      BY <2>3, Zenon DEF CupsGoesDown
    <3>2. QED BY <2>3, <3>1 DEF CupsGoesDown
  <2>4. ASSUME CupsComesBack PROVE CupsTypeOK'
    BY <2>4 DEF CupsComesBack
  <2>5. QED BY <1>25, <2>1, <2>2, <2>3, <2>4 DEF CupsStep
<1>26. ASSUME UNCHANGED vars PROVE TypeOK'
  BY <1>26 DEF vars
<1>27. QED
  BY <1>1, <1>2, <1>3, <1>4, <1>5, <1>6, <1>7, <1>8, <1>9, <1>10, <1>11, <1>13,
     <1>14, <1>17, <1>18, <1>19, <1>20, <1>21, <1>22, <1>23, <1>24, <1>25, <1>26
     DEF Next, JobStep, SubmitStep

-----------------------------------------------------------------------------
(* What a step can do to CUPS, and what it cannot undo there.               *)

CupsNext ==
    \/ \E c \in CupsId, lost \in BOOLEAN : CupsCreate(c, lost)
    \/ \E c \in CupsId, p \in Path, last \in BOOLEAN, lost \in BOOLEAN :
          CupsSend(c, p, last, lost)
    \/ \E S \in SUBSET CupsId : CupsCancel(S)
    \/ \E c \in CupsId : CupsMoves(c)
    \/ CupsGoesDown
    \/ CupsComesBack

\* Every step of the engine is one libcups call at most.
LEMMA OneCall ==
    ASSUME TypeOK, SubmissionInv, TableInv, [Next]_vars
    PROVE  CupsNext \/ UNCHANGED cupsVars
<1>1. ASSUME NEW j \in JobId, CancelSubmitted(j) PROVE CupsNext
  BY <1>1 DEF CancelSubmitted, CupsNext, TypeOK, TableInv
<1>2. ASSUME NEW c \in CupsId, PortsCancelJob(c) PROVE CupsNext
  BY <1>2 DEF PortsCancelJob, CupsNext
<1>3. ASSUME PortsCancelAllJobs PROVE CupsNext
  BY <1>3 DEF PortsCancelAllJobs, CupsNext
<1>4. ASSUME NEW c \in CupsId, CreateJob(c) PROVE CupsNext
  BY <1>4 DEF CreateJob, CupsNext
<1>5. ASSUME CreateJobFails PROVE CupsNext \/ UNCHANGED cupsVars
  BY <1>5 DEF CreateJobFails, CupsNext
<1>6. mode = "send" => page \in Path /\ cid \in CupsId
  BY ElementOfSeq DEF TypeOK, SubmissionInv, Submitting, InHand, page
<1>7. ASSUME SendPage PROVE CupsNext
  BY <1>6, <1>7 DEF SendPage, CupsNext
<1>8. ASSUME SendLastPage PROVE CupsNext
  BY <1>6, <1>8 DEF SendLastPage, CupsNext
<1>9. ASSUME SendFails PROVE CupsNext \/ UNCHANGED cupsVars
  BY <1>6, <1>9 DEF SendFails, CupsNext, lastPage
<1>10. ASSUME AbortJob PROVE CupsNext \/ UNCHANGED cupsVars
  BY <1>10 DEF AbortJob, CupsNext, Cancellable
<1>11. ASSUME CupsStep PROVE CupsNext
  BY <1>11 DEF CupsStep, CupsNext
<1>12. ASSUME NEW j \in JobId,
              \/ \E p \in Path : AddFile(j, p)
              \/ CloseEmpty(j) \/ Close(j) \/ CancelLocally(j) \/ PollJob(j)
       PROVE  UNCHANGED cupsVars
  BY <1>12 DEF AddFile, CloseEmpty, Close, CancelLocally, PollJob, PollVanished,
               PollChanged, PollSame
<1>13. ASSUME \/ Open \/ DetectFormat \/ PollStart \/ PollEnd \/ UNCHANGED vars
              \/ \E p \in Path : ClientWrites(p)
              \/ \E paths \in PathLists : AllAtOnce(paths) \/ AllAtOnceRefused(paths)
       PROVE  UNCHANGED cupsVars
  BY <1>13 DEF Open, DetectFormat, PollStart, PollEnd, ClientWrites, AllAtOnce,
               AllAtOnceRefused, vars
<1>14. QED
  BY <1>1, <1>2, <1>3, <1>4, <1>5, <1>7, <1>8, <1>9, <1>10, <1>11, <1>12, <1>13
     DEF Next, JobStep, SubmitStep

\* A CUPS job never returns to its past: what was created stays created, what
\* was released keeps its documents, what has ended never prints again.
NoReturn(c) ==
    /\ cupsState[c] # "none" => cupsState'[c] # "none"
    /\ cupsState[c] \notin {"none", "incoming"} =>
          /\ cupsState'[c] \notin {"none", "incoming"}
          /\ cupsDocs'[c] = cupsDocs[c]
    /\ cupsState[c] = "forgotten" => cupsState'[c] = "forgotten"
    /\ cupsState[c] \in Ended => cupsState'[c] \in {cupsState[c], "forgotten"}

LEMMA CupsMonotone ==
    ASSUME CupsTypeOK, CupsNext \/ UNCHANGED cupsVars, NEW c \in CupsId
    PROVE  NoReturn(c) /\ (faults' = 0 => faults = 0)
<1>. USE CupsAssumption DEF CupsTypeOK, NoReturn, Ended
<1>1. ASSUME NEW d \in CupsId, NEW lost \in BOOLEAN, CupsCreate(d, lost)
      PROVE  NoReturn(c) /\ (faults' = 0 => faults = 0)
  BY <1>1 DEF CupsCreate, CountFault
<1>2. ASSUME NEW d \in CupsId, NEW p \in Path, NEW last \in BOOLEAN,
             NEW lost \in BOOLEAN, CupsSend(d, p, last, lost)
      PROVE  NoReturn(c) /\ (faults' = 0 => faults = 0)
  BY <1>2 DEF CupsSend, CountFault
<1>3. ASSUME NEW S \in SUBSET CupsId, CupsCancel(S)
      PROVE  NoReturn(c) /\ (faults' = 0 => faults = 0)
  BY <1>3 DEF CupsCancel, Cancellable, Live, Queued
<1>4. ASSUME NEW d \in CupsId, CupsMoves(d)
      PROVE  NoReturn(c) /\ (faults' = 0 => faults = 0)
  BY <1>4 DEF CupsMoves, Moves, Live, Queued
<1>5. ASSUME CupsGoesDown \/ CupsComesBack \/ UNCHANGED cupsVars
      PROVE  NoReturn(c) /\ (faults' = 0 => faults = 0)
  BY <1>5 DEF CupsGoesDown, CupsComesBack, cupsVars
<1>6. QED
  BY <1>1, <1>2, <1>3, <1>4, <1>5 DEF CupsNext

LEMMA CupsInvStep ==
    ASSUME CupsTypeOK, CupsInv, CupsNext \/ UNCHANGED cupsVars
    PROVE  CupsInv'
<1>. USE CupsAssumption DEF CupsTypeOK, CupsInv
<1>1. ASSUME NEW d \in CupsId, NEW lost \in BOOLEAN, CupsCreate(d, lost)
      PROVE  CupsInv'
  BY <1>1 DEF CupsCreate, CountFault
<1>2. ASSUME NEW d \in CupsId, NEW p \in Path, NEW last \in BOOLEAN,
             NEW lost \in BOOLEAN, CupsSend(d, p, last, lost)
      PROVE  CupsInv'
  BY <1>2 DEF CupsSend, CountFault
<1>3. ASSUME NEW S \in SUBSET CupsId, CupsCancel(S) PROVE CupsInv'
  BY <1>3 DEF CupsCancel
<1>4. ASSUME NEW d \in CupsId, CupsMoves(d) PROVE CupsInv'
  BY <1>4 DEF CupsMoves, Moves, Live, Queued, Ended
<1>5. ASSUME CupsGoesDown \/ CupsComesBack \/ UNCHANGED cupsVars PROVE CupsInv'
  BY <1>5 DEF CupsGoesDown, CupsComesBack, cupsVars
<1>6. QED
  BY <1>1, <1>2, <1>3, <1>4, <1>5 DEF CupsNext

-----------------------------------------------------------------------------
(* The half-sent job.                                                       *)

LEMMA SubmissionStep ==
    ASSUME TypeOK, SubmissionInv, TableInv, HandOverInv, CupsInv, [Next]_vars
    PROVE  SubmissionInv'
<1>. USE DEF SubmissionInv, Submitting, InHand, loopVars
<1>1. /\ CupsTypeOK
      /\ CupsNext \/ UNCHANGED cupsVars
      /\ \A c \in CupsId : NoReturn(c)
  BY OneCall, CupsMonotone DEF TypeOK
<1>2. ASSUME UNCHANGED <<mode, cur, idx, cid, phase, files, cups_job_id, cupsDocs>>
      PROVE  SubmissionInv'
  BY <1>1, <1>2 DEF NoReturn
<1>3. ASSUME mode' \in {"idle", "poll"} PROVE SubmissionInv'
  BY <1>3
<1>4. ASSUME \/ Open \/ PortsCancelAllJobs \/ PollStart \/ PollEnd
             \/ SubmitFailed \/ SendLastPage
             \/ \E j \in JobId :
                    \/ \E p \in Path : AddFile(j, p)
                    \/ CloseEmpty(j) \/ CancelSubmitted(j) \/ CancelLocally(j)
                    \/ PollJob(j)
             \/ \E c \in CupsId : PortsCancelJob(c)
             \/ \E paths \in PathLists : AllAtOnceRefused(paths)
      PROVE  mode' \in {"idle", "poll"}
  BY <1>4 DEF Open, PortsCancelAllJobs, PollStart, PollEnd, SubmitFailed,
       SendLastPage, EndSubmit, AddFile, CloseEmpty, CancelSubmitted,
       CancelLocally, PollJob, PollVanished, PollChanged, PollSame,
       PortsCancelJob, AllAtOnceRefused
<1>5. ASSUME NEW j \in JobId, Close(j) PROVE SubmissionInv'
  <2>1. Len(files[j]) \in Nat \ {0}
    BY <1>5, EmptySeq DEF Close, TypeOK
  <2>2. QED BY <1>5, <2>1 DEF Close, BeginSubmit, jobVars
<1>6. ASSUME NEW paths \in PathLists, AllAtOnce(paths) PROVE SubmissionInv'
  <2>1. Len(paths) \in Nat \ {0}
    BY PathListsAreSequences, EmptySeq DEF PathLists
  <2>2. QED BY <1>6, <2>1 DEF AllAtOnce, BeginSubmit, TypeOK
<1>7. ASSUME NEW c \in CupsId, CreateJob(c) PROVE SubmissionInv'
  <2>1. cupsDocs'[c] = << >> /\ cupsState'[c] = "incoming" /\ cupsState[c] = "none"
    BY <1>7 DEF CreateJob, CupsCreate, CupsInv, TypeOK, CupsTypeOK
  <2>2. \A j \in JobId : cups_job_id[j] # c
    BY <2>1 DEF HandOverInv, TypeOK, NoCupsJob, CupsId
  <2>3. QED BY <1>7, <2>1, <2>2 DEF CreateJob, jobVars
<1>8. ASSUME DetectFormat PROVE SubmissionInv'
  BY <1>8 DEF DetectFormat, jobVars, cupsVars
<1>9. ASSUME SendPage PROVE SubmissionInv'
  <2>1. files[cur] \in Seq(Path) /\ cupsDocs[cid] \in Seq(Path) /\ page \in Path
    BY <1>9, ElementOfSeq DEF SendPage, TypeOK, CupsTypeOK, page
  <2>2. cupsDocs'[cid] = Append(cupsDocs[cid], files[cur][idx])
    BY <1>9 DEF SendPage, CupsSend, page, TypeOK, CupsTypeOK
  <2>3. Len(cupsDocs'[cid]) = idx
    BY <1>9, <2>1, <2>2, AppendProperties DEF SendPage, page, TypeOK
  <2>4. \A i \in 1 .. idx : cupsDocs'[cid][i] = files[cur][i]
    BY <1>9, <2>1, <2>2, AppendProperties DEF SendPage, page, TypeOK
  <2>5. idx + 1 <= Len(files[cur])
    BY <1>9, <2>1 DEF SendPage, lastPage, TypeOK
  <2>6. QED
    BY <1>1, <1>9, <2>3, <2>4, <2>5 DEF SendPage, jobVars, TypeOK, NoReturn
<1>10. ASSUME SendFails PROVE SubmissionInv'
  BY <1>1, <1>10 DEF SendFails, jobVars, NoReturn
<1>11. ASSUME CreateJobFails \/ AbortJob PROVE SubmitFailed
  BY <1>11 DEF CreateJobFails, AbortJob
<1>12. ASSUME CupsStep \/ UNCHANGED vars \/ \E p \in Path : ClientWrites(p)
       PROVE  UNCHANGED <<mode, cur, idx, cid, phase, files, cups_job_id, cupsDocs>>
  BY <1>12 DEF CupsStep, CupsMoves, CupsGoesDown, CupsComesBack, ClientWrites,
               vars, jobVars, cupsVars
<1>13. QED
  BY <1>2, <1>3, <1>4, <1>5, <1>6, <1>7, <1>8, <1>9, <1>10, <1>11, <1>12
     DEF Next, JobStep, SubmitStep

-----------------------------------------------------------------------------
(* The job table.                                                           *)

\* Only the hand-over gives a job its CUPS job, and only an opening method
\* leaves "none".
LEMMA TableStep ==
    ASSUME TypeOK, SubmissionInv, PollInv, TableInv, [Next]_vars
    PROVE  TableInv'
<1>. USE PrintJobsAssumption DEF jobVars, TableInv
<1>1. ASSUME UNCHANGED <<next_job_id, cups_job_id>>,
             \A j \in JobId :
                \/ phase'[j] = phase[j]
                \/ phase[j] \in {"open", "submitted", "done", "cancelled"}
                   /\ phase'[j] \in {"done", "cancelled"}
                \/ phase[j] = "open" /\ phase'[j] = "removed"
      PROVE  TableInv'
  BY <1>1
<1>2. ASSUME \/ DetectFormat \/ SendPage \/ SendFails \/ PollStart \/ PollEnd
             \/ PortsCancelAllJobs \/ CupsStep \/ UNCHANGED vars
             \/ \E c \in CupsId : PortsCancelJob(c) \/ CreateJob(c)
             \/ \E p \in Path : ClientWrites(p)
             \/ \E j \in JobId : \/ Close(j) \/ PollSame(j)
                                 \/ \E p \in Path : AddFile(j, p)
      PROVE  UNCHANGED <<next_job_id, phase, cups_job_id>>
  BY <1>2 DEF DetectFormat, SendPage, SendFails, PollStart, PollEnd, CupsStep,
       PortsCancelAllJobs, vars, PortsCancelJob, CreateJob, ClientWrites, Close,
       PollSame, AddFile
<1>3. ASSUME NEW j \in JobId,
             CloseEmpty(j) \/ CancelSubmitted(j) \/ CancelLocally(j)
             \/ PollVanished(j) \/ PollChanged(j)
      PROVE  TableInv'
  <2>1. UNCHANGED <<next_job_id, cups_job_id>>
    BY <1>3 DEF CloseEmpty, CancelSubmitted, CancelLocally, PollVanished, PollChanged
  <2>2. \/ phase' = phase
        \/ /\ phase[j] \in {"open", "submitted", "done", "cancelled"}
           /\ phase' = [phase EXCEPT ![j] = "done"]
              \/ phase' = [phase EXCEPT ![j] = "cancelled"]
    BY <1>3 DEF CloseEmpty, CancelSubmitted, CancelLocally, PollVanished,
                PollChanged, PollInv
  <2>3. QED BY <1>1, <2>1, <2>2 DEF TypeOK
<1>4. ASSUME NEW ph \in {"open", "removed"},
             next_job_id \in JobId,
             phase' = [phase EXCEPT ![next_job_id] = ph],
             next_job_id' = next_job_id + 1,
             UNCHANGED cups_job_id
      PROVE  TableInv'
  BY <1>4 DEF TypeOK, JobId
<1>5. ASSUME Open \/ \E paths \in PathLists : AllAtOnce(paths) \/ AllAtOnceRefused(paths)
      PROVE  TableInv'
  BY <1>4, <1>5 DEF Open, AllAtOnce, AllAtOnceRefused
<1>6. ASSUME CreateJobFails \/ AbortJob PROVE TableInv'
  <2>1. SubmitFailed /\ phase[cur] = "open" /\ cur \in JobId
    BY <1>6 DEF CreateJobFails, AbortJob, SubmissionInv, Submitting
  <2>2. QED BY <1>1, <2>1 DEF SubmitFailed, TypeOK
<1>7. ASSUME SendLastPage PROVE TableInv'
  <2>1. /\ cur \in JobId /\ phase[cur] = "open"
        /\ cid \in CupsId
    BY <1>7 DEF SendLastPage, SubmissionInv, Submitting, InHand
  <2>2. /\ phase' = [phase EXCEPT ![cur] = "submitted"]
        /\ cups_job_id' = [cups_job_id EXCEPT ![cur] = cid]
        /\ UNCHANGED next_job_id
    BY <1>7 DEF SendLastPage
  <2>3. QED BY <2>1, <2>2 DEF TypeOK, NoCupsJob, CupsId
<1>8. QED
  BY <1>1, <1>2, <1>3, <1>5, <1>6, <1>7 DEF Next, JobStep, SubmitStep, PollJob

\* The page that completes the job is the last one of its pages.
LEMMA LastPageCompletes ==
    ASSUME TypeOK, SubmissionInv, SendLastPage
    PROVE  /\ cur \in JobId /\ phase[cur] = "open"
           /\ cid \in CupsId /\ \A j \in JobId : cups_job_id[j] # cid
           /\ cupsState'[cid] = "pending"
           /\ cupsDocs'[cid] = files[cur]
           /\ files[cur] # << >>
<1>1. /\ cur \in JobId /\ phase[cur] = "open"
      /\ cid \in CupsId /\ \A j \in JobId : cups_job_id[j] # cid
  BY DEF SendLastPage, SubmissionInv, Submitting, InHand
<1>2. /\ cupsState'[cid] = "pending"
      /\ cupsDocs'[cid] = Append(cupsDocs[cid], page)
  BY <1>1 DEF SendLastPage, CupsSend, TypeOK, CupsTypeOK
<1>3. cupsDocs[cid] \in Seq(Path) /\ files[cur] \in Seq(Path)
  BY <1>1 DEF TypeOK, CupsTypeOK
<1>4. /\ idx \in Nat \ {0} /\ Len(files[cur]) = idx
      /\ Len(cupsDocs[cid]) = idx - 1
      /\ \A i \in 1 .. idx - 1 : cupsDocs[cid][i] = files[cur][i]
  BY DEF SendLastPage, lastPage, SubmissionInv, TypeOK
<1>5. page \in Path /\ page = files[cur][idx]
  BY <1>3, <1>4, ElementOfSeq DEF page
<1>6. /\ Append(cupsDocs[cid], page) \in Seq(Path)
      /\ Len(Append(cupsDocs[cid], page)) = Len(files[cur])
      /\ \A i \in 1 .. Len(files[cur]) :
            Append(cupsDocs[cid], page)[i] = files[cur][i]
  BY <1>3, <1>4, <1>5, AppendProperties
<1>7. Append(cupsDocs[cid], page) = files[cur]
  BY <1>3, <1>6, SeqEqual
<1>8. files[cur] # << >>
  BY <1>4, EmptySeq
<1>9. QED BY <1>1, <1>2, <1>7, <1>8

LEMMA HandOverStep ==
    ASSUME TypeOK, SubmissionInv, TableInv, HandOverInv, [Next]_vars
    PROVE  HandOverInv'
<1>. USE DEF jobVars, HandOverInv
<1>1. /\ CupsTypeOK
      /\ \A c \in CupsId : NoReturn(c)
  BY OneCall, CupsMonotone DEF TypeOK
<1>2. ASSUME UNCHANGED cups_job_id,
             \A j \in JobId : cups_job_id[j] # NoCupsJob => files'[j] = files[j]
      PROVE  HandOverInv'
  <2>1. SUFFICES ASSUME NEW j \in JobId, cups_job_id[j] # NoCupsJob
                 PROVE  /\ cupsState'[cups_job_id[j]] \notin {"none", "incoming"}
                        /\ cupsDocs'[cups_job_id[j]] = files[j]
    BY <1>2
  <2>2. cups_job_id[j] \in CupsId
    BY <2>1 DEF TypeOK
  <2>3. QED BY <1>1, <2>1, <2>2 DEF NoReturn
<1>3. ASSUME \/ DetectFormat \/ SendPage \/ SendFails \/ PollStart \/ PollEnd
             \/ Open \/ PortsCancelAllJobs \/ CupsStep \/ UNCHANGED vars
             \/ CreateJobFails \/ AbortJob
             \/ \E c \in CupsId : PortsCancelJob(c) \/ CreateJob(c)
             \/ \E p \in Path : ClientWrites(p)
             \/ \E paths \in PathLists : AllAtOnceRefused(paths)
             \/ \E j \in JobId : \/ Close(j) \/ CloseEmpty(j)
                                 \/ CancelSubmitted(j) \/ CancelLocally(j)
                                 \/ PollVanished(j) \/ PollChanged(j) \/ PollSame(j)
      PROVE  UNCHANGED <<files, cups_job_id>>
  BY <1>3 DEF DetectFormat, SendPage, SendFails, PollStart, PollEnd, Open,
       PortsCancelAllJobs, CupsStep, vars, CreateJobFails, AbortJob, SubmitFailed,
       PortsCancelJob, CreateJob, ClientWrites, AllAtOnceRefused, Close, CloseEmpty,
       CancelSubmitted, CancelLocally, PollVanished, PollChanged, PollSame
<1>4. ASSUME NEW j \in JobId, NEW p \in Path, AddFile(j, p) PROVE HandOverInv'
  BY <1>2, <1>4 DEF AddFile, TableInv, TypeOK
<1>5. ASSUME NEW paths \in PathLists, AllAtOnce(paths) PROVE HandOverInv'
  <2>1. phase[next_job_id] = "none"
    BY <1>5 DEF AllAtOnce, TableInv, TypeOK, JobId
  <2>2. QED BY <1>2, <1>5, <2>1 DEF AllAtOnce, TableInv, TypeOK
<1>6. ASSUME SendLastPage PROVE HandOverInv'
  <2>1. cups_job_id' = [cups_job_id EXCEPT ![cur] = cid] /\ UNCHANGED files
    BY <1>6 DEF SendLastPage
  <2>2. SUFFICES ASSUME NEW j \in JobId, cups_job_id'[j] # NoCupsJob
                 PROVE  /\ cupsState'[cups_job_id'[j]] \notin {"none", "incoming"}
                        /\ cupsDocs'[cups_job_id'[j]] = files[j]
                        /\ \A k \in JobId : cups_job_id'[k] = cups_job_id'[j] => k = j
    BY <2>1
  <2>3. CASE j = cur
    BY <1>6, <2>1, <2>3, LastPageCompletes DEF TypeOK
  <2>4. CASE j # cur
    <3>1. cups_job_id'[j] = cups_job_id[j] /\ cups_job_id[j] \in CupsId
      BY <2>1, <2>2, <2>4 DEF TypeOK
    <3>2. QED
      BY <1>1, <1>6, <2>1, <2>2, <2>4, <3>1, LastPageCompletes DEF NoReturn, TypeOK
  <2>5. QED BY <2>3, <2>4
<1>7. QED
  BY <1>2, <1>3, <1>4, <1>5, <1>6 DEF Next, JobStep, SubmitStep, PollJob

-----------------------------------------------------------------------------
(* The timer.                                                               *)

LEMMA PollStep ==
    ASSUME TypeOK, SubmissionInv, PollInv, PollCoversSubmitted, [Next]_vars
    PROVE  PollInv' /\ PollCoversSubmitted'
<1>. USE DEF PollInv, PollCoversSubmitted, loopVars, jobVars
<1>1. ASSUME UNCHANGED <<mode, any_active, poll_source>>,
             mode = "poll" => todo' \subseteq todo,
             \A j \in JobId :
                \/ phase'[j] = phase[j]
                \/ phase'[j] # "submitted" /\ j \notin todo'
                \/ phase'[j] # "submitted" /\ mode # "poll"
      PROVE  PollInv' /\ PollCoversSubmitted'
  BY <1>1 DEF TypeOK
<1>2. ASSUME UNCHANGED <<poll_source, phase>>, mode # "poll", mode' # "poll"
      PROVE  PollInv' /\ PollCoversSubmitted'
  BY <1>2
<1>3. ASSUME \/ PortsCancelAllJobs \/ DetectFormat \/ SendPage \/ SendFails
             \/ \E c \in CupsId : PortsCancelJob(c) \/ CreateJob(c)
             \/ \E j \in JobId : Close(j) \/ \E p \in Path : AddFile(j, p)
      PROVE  UNCHANGED <<poll_source, phase>> /\ mode # "poll" /\ mode' # "poll"
  BY <1>3 DEF PortsCancelAllJobs, DetectFormat, SendPage, SendFails, PortsCancelJob,
       CreateJob, Close, BeginSubmit, AddFile
<1>4. ASSUME CupsStep \/ UNCHANGED vars \/ \E p \in Path : ClientWrites(p)
      PROVE  PollInv' /\ PollCoversSubmitted'
  BY <1>1, <1>4 DEF CupsStep, ClientWrites, vars
<1>5. ASSUME \/ Open
             \/ \E j \in JobId : CloseEmpty(j) \/ CancelSubmitted(j) \/ CancelLocally(j)
             \/ \E paths \in PathLists : AllAtOnceRefused(paths)
      PROVE  PollInv' /\ PollCoversSubmitted'
  BY <1>5 DEF Open, CloseEmpty, CancelSubmitted, CancelLocally, AllAtOnceRefused,
              TypeOK
<1>6. ASSUME NEW paths \in PathLists, AllAtOnce(paths)
      PROVE  PollInv' /\ PollCoversSubmitted'
  BY <1>6 DEF AllAtOnce, BeginSubmit, TypeOK
<1>7. ASSUME CreateJobFails \/ AbortJob PROVE PollInv' /\ PollCoversSubmitted'
  <2>1. SubmitFailed
    BY <1>7 DEF CreateJobFails, AbortJob
  <2>2. QED BY <2>1 DEF SubmitFailed, EndSubmit, TypeOK
<1>8. ASSUME SendLastPage PROVE PollInv' /\ PollCoversSubmitted'
  BY <1>8 DEF SendLastPage, EnsurePolling, EndSubmit
<1>9. ASSUME PollStart PROVE PollInv' /\ PollCoversSubmitted'
  BY <1>9 DEF PollStart
<1>10. ASSUME NEW j \in JobId, PollVanished(j) \/ PollChanged(j) \/ PollSame(j)
       PROVE  PollInv' /\ PollCoversSubmitted'
  <2>1. /\ UNCHANGED <<mode, any_active, poll_source>>
        /\ todo' = todo \ {j}
        /\ phase' = phase \/ phase' = [phase EXCEPT ![j] = "done"]
    BY <1>10 DEF PollVanished, PollChanged, PollSame
  <2>2. QED BY <1>1, <2>1 DEF TypeOK
<1>11. ASSUME PollEnd PROVE PollInv' /\ PollCoversSubmitted'
  BY <1>11 DEF PollEnd
<1>12. QED
  BY <1>2, <1>3, <1>4, <1>5, <1>6, <1>7, <1>8, <1>9, <1>10, <1>11
     DEF Next, JobStep, SubmitStep, PollJob

-----------------------------------------------------------------------------
(* The status stream.                                                       *)

LEMMA FeedStep ==
    ASSUME TypeOK, SubmissionInv, PollInv, TableInv, FeedMatchesTable, [Next]_vars
    PROVE  FeedMatchesTable'
<1>. USE DEF FeedMatchesTable, jobVars
<1>1. ASSUME UNCHANGED <<phase, reported, last_printer_state>>
      PROVE  FeedMatchesTable'
  BY <1>1
<1>2. ASSUME \/ DetectFormat \/ SendPage \/ SendFails \/ PollStart \/ PollEnd
             \/ PortsCancelAllJobs \/ CupsStep \/ UNCHANGED vars
             \/ \E c \in CupsId : PortsCancelJob(c) \/ CreateJob(c)
             \/ \E p \in Path : ClientWrites(p)
             \/ \E j \in JobId : \/ Close(j) \/ PollSame(j)
                                 \/ \E p \in Path : AddFile(j, p)
      PROVE  UNCHANGED <<phase, reported, last_printer_state>>
  BY <1>2 DEF DetectFormat, SendPage, SendFails, PollStart, PollEnd, CupsStep,
       PortsCancelAllJobs, vars, PortsCancelJob, CreateJob, ClientWrites, Close,
       PollSame, AddFile
<1>3. ASSUME Open \/ \E paths \in PathLists : AllAtOnce(paths) \/ AllAtOnceRefused(paths)
      PROVE  FeedMatchesTable'
  <2>1. /\ phase[next_job_id] = "none"
        /\ UNCHANGED <<reported, last_printer_state>>
        /\ \E ph \in {"open", "removed"} : phase' = [phase EXCEPT ![next_job_id] = ph]
    BY <1>3 DEF Open, AllAtOnce, AllAtOnceRefused, TableInv, TypeOK, JobId
  <2>2. QED BY <2>1 DEF TypeOK
<1>4. ASSUME NEW j \in JobId, CloseEmpty(j) \/ PollVanished(j) PROVE FeedMatchesTable'
  <2>1. /\ phase' = [phase EXCEPT ![j] = "done"]
        /\ reported' = [reported EXCEPT ![j] = Done("Success")]
        /\ UNCHANGED last_printer_state
    BY <1>4 DEF CloseEmpty, PollVanished, PostJobState
  <2>2. QED BY <2>1, SMTT(30) DEF Done, TypeOK
<1>5. ASSUME NEW j \in JobId, CancelSubmitted(j) \/ CancelLocally(j)
      PROVE  FeedMatchesTable'
  BY <1>5, SMTT(30) DEF CancelSubmitted, CancelLocally, PostJobState, Done, TypeOK
<1>6. ASSUME CreateJobFails \/ AbortJob PROVE FeedMatchesTable'
  <2>1. SubmitFailed /\ cur \in JobId
    BY <1>6 DEF CreateJobFails, AbortJob, SubmissionInv, Submitting
  <2>2. /\ \E ph \in {"done", "removed"} : phase' = [phase EXCEPT ![cur] = ph]
        /\ reported' = [reported EXCEPT ![cur] = Done("Error")]
        /\ UNCHANGED last_printer_state
    BY <2>1 DEF SubmitFailed, PostJobState
  <2>3. QED BY <2>1, <2>2 DEF Done, TypeOK
<1>7. ASSUME SendLastPage PROVE FeedMatchesTable'
  BY <1>7 DEF SendLastPage, PostJobState, SubmissionInv, Submitting, TypeOK
<1>8. ASSUME NEW j \in JobId, PollChanged(j) PROVE FeedMatchesTable'
  <2> DEFINE r == Translate(cupsState[cups_job_id[j]])
  <2>. HIDE DEF r
  <2>1. r.state \in {"QUEUED", "RUNNING", "BLOCKED", "DONE"}
    BY TranslateType DEF r
  <2>2. /\ phase[j] = "submitted"
        /\ PostJobState(j, r)
        /\ last_printer_state' = [last_printer_state EXCEPT ![j] = r.state]
        /\ phase' = IF r.state = "DONE" THEN [phase EXCEPT ![j] = "done"] ELSE phase
    BY <1>8 DEF PollChanged, PollInv, r
  <2>3. QED BY <2>1, <2>2 DEF PostJobState, TypeOK
<1>9. QED
  BY <1>1, <1>2, <1>3, <1>4, <1>5, <1>6, <1>7, <1>8
     DEF Next, JobStep, SubmitStep, PollJob

\* DONE is said of ended jobs only, and with the outcome they ended with.
LEMMA TranslateDone ==
    ASSUME NEW s, Translate(s).state = "DONE"
    PROVE  /\ s \in Ended
           /\ s \in OverAs(Translate(s).outcome)
           /\ Translate(s).outcome \in {"Success", "Error", "Cancelled"}
<1>1. /\ s = "canceled"  => Translate(s) = Done("Cancelled")
      /\ s = "aborted"   => Translate(s) = Done("Error")
      /\ s = "completed" => Translate(s) = Done("Success")
      /\ s \notin Ended  => Translate(s).state # "DONE"
  BY DEF Translate, Done, Ended
<1>2. QED BY <1>1 DEF Done, OverAs, Ended

\* Once over, always over.
LEMMA OverStaysOver ==
    ASSUME NEW c \in CupsId, NEW o, NoReturn(c), cupsState[c] \in OverAs(o)
    PROVE  cupsState'[c] \in OverAs(o)
BY DEF NoReturn, OverAs, Ended

LEMMA TruthStep ==
    ASSUME TypeOK, SubmissionInv, PollInv, TableInv, CupsInv, FeedMatchesTable,
           TruthfulOutcome, [Next]_vars
    PROVE  TruthfulOutcome'
<1>. USE DEF jobVars
<1>1. /\ \A c \in CupsId : NoReturn(c)
      /\ faults' = 0 => faults = 0
  <2>1. CupsTypeOK /\ (CupsNext \/ UNCHANGED cupsVars)
    BY OneCall DEF TypeOK
  <2>2. faults' = 0 => faults = 0
    BY <2>1, CupsAssumption
       DEF CupsNext, CupsCreate, CupsSend, CountFault, CupsCancel, CupsMoves,
           CupsGoesDown, CupsComesBack, cupsVars, CupsTypeOK
  <2>3. QED BY <2>1, <2>2, CupsMonotone
<1>2. ASSUME NEW j \in JobId, reported'[j] = reported[j], cups_job_id'[j] = cups_job_id[j],
             faults' = 0, cups_job_id'[j] # NoCupsJob, reported'[j].state = "DONE"
      PROVE  cupsState'[cups_job_id'[j]] \in OverAs(reported'[j].outcome)
  <2>1. cups_job_id[j] \in CupsId
    BY <1>2 DEF TypeOK
  <2>2. QED BY <1>1, <1>2, <2>1, OverStaysOver DEF TruthfulOutcome
\* It is enough to look at the job an event is posted for.
<1>3. ASSUME NEW j \in JobId,
             \A k \in JobId \ {j} : reported'[k] = reported[k]
                                     /\ cups_job_id'[k] = cups_job_id[k],
             faults' = 0 /\ cups_job_id'[j] # NoCupsJob /\ reported'[j].state = "DONE"
                => cupsState'[cups_job_id'[j]] \in OverAs(reported'[j].outcome)
      PROVE  TruthfulOutcome'
  BY <1>2, <1>3 DEF TruthfulOutcome
<1>4. ASSUME UNCHANGED <<reported, cups_job_id>> PROVE TruthfulOutcome'
  BY <1>2, <1>4 DEF TruthfulOutcome
<1>5. ASSUME \/ DetectFormat \/ SendPage \/ SendFails \/ PollStart \/ PollEnd
             \/ Open \/ PortsCancelAllJobs \/ CupsStep \/ UNCHANGED vars
             \/ \E c \in CupsId : PortsCancelJob(c) \/ CreateJob(c)
             \/ \E p \in Path : ClientWrites(p)
             \/ \E paths \in PathLists : AllAtOnce(paths) \/ AllAtOnceRefused(paths)
             \/ \E j \in JobId : \/ Close(j) \/ PollSame(j)
                                 \/ \E p \in Path : AddFile(j, p)
      PROVE  UNCHANGED <<reported, cups_job_id>>
  BY <1>5 DEF DetectFormat, SendPage, SendFails, PollStart, PollEnd, CupsStep, Open,
       PortsCancelAllJobs, vars, PortsCancelJob, CreateJob, ClientWrites, Close,
       PollSame, AddFile, AllAtOnce, AllAtOnceRefused
<1>6. ASSUME NEW j \in JobId, CloseEmpty(j) PROVE TruthfulOutcome'
  <2>1. cups_job_id[j] = NoCupsJob
    BY <1>6 DEF CloseEmpty, TableInv
  <2>2. QED BY <1>3, <1>6, <2>1 DEF CloseEmpty, PostJobState, TypeOK
<1>7. ASSUME CreateJobFails \/ AbortJob PROVE TruthfulOutcome'
  <2>1. SubmitFailed /\ cur \in JobId /\ cups_job_id[cur] = NoCupsJob
    BY <1>7 DEF CreateJobFails, AbortJob, SubmissionInv, Submitting, TableInv
  <2>2. QED BY <1>3, <2>1 DEF SubmitFailed, PostJobState, TypeOK
<1>8. ASSUME SendLastPage PROVE TruthfulOutcome'
  <2>1. cur \in JobId
    BY <1>8 DEF SendLastPage, SubmissionInv, Submitting
  <2>2. QED BY <1>3, <1>8, <2>1 DEF SendLastPage, PostJobState, TypeOK
<1>9. ASSUME NEW j \in JobId, CancelSubmitted(j) PROVE TruthfulOutcome'
  <2>1. /\ cupsState'[cups_job_id[j]] = "canceled"
        /\ UNCHANGED cups_job_id
        /\ reported' = [reported EXCEPT ![j] = Done("Cancelled")]
    BY <1>9 DEF CancelSubmitted, Cancellable, CupsCancel, PostJobState
  <2>2. QED BY <1>3, <2>1 DEF Done, OverAs, Ended, TypeOK
<1>10. ASSUME NEW j \in JobId, CancelLocally(j) PROVE TruthfulOutcome'
  <2>1. /\ UNCHANGED <<cups_job_id, cupsState, faults>>
        /\ reported' = [reported EXCEPT ![j] = Done("Cancelled")]
    BY <1>10 DEF CancelLocally, PostJobState, cupsVars
  <2>2. cups_job_id[j] # NoCupsJob => reported[j].state = "DONE"
    BY <1>10 DEF CancelLocally, TableInv, FeedMatchesTable, Done
  <2>3. faults = 0 /\ cups_job_id[j] # NoCupsJob
           => cupsState[cups_job_id[j]] \in Ended \cup {"forgotten"}
    BY <2>2 DEF TruthfulOutcome, OverAs, Ended
  <2>4. QED BY <1>3, <2>1, <2>3 DEF Done, OverAs, TypeOK
<1>11. ASSUME NEW j \in JobId, PollVanished(j) PROVE TruthfulOutcome'
  <2>1. /\ UNCHANGED <<cups_job_id, cupsState, faults>>
        /\ reported' = [reported EXCEPT ![j] = Done("Success")]
        /\ faults = 0 => cupsState[cups_job_id[j]] = "forgotten"
    BY <1>11 DEF PollVanished, JobVanished, PostJobState, cupsVars, CupsInv
  <2>2. QED BY <1>3, <2>1 DEF Done, OverAs, TypeOK
<1>12. ASSUME NEW j \in JobId, PollChanged(j) PROVE TruthfulOutcome'
  <2> DEFINE r == Translate(cupsState[cups_job_id[j]])
  <2>1. r.state = "DONE" => cupsState[cups_job_id[j]] \in OverAs(r.outcome)
    BY TranslateDone
  <2>. HIDE DEF r
  <2>2. /\ UNCHANGED <<cups_job_id, cupsState>>
        /\ reported' = [reported EXCEPT ![j] = r]
    BY <1>12 DEF PollChanged, PostJobState, cupsVars, r
  <2>3. QED BY <1>3, <2>1, <2>2 DEF TypeOK
<1>13. QED
  BY <1>4, <1>5, <1>6, <1>7, <1>8, <1>9, <1>10, <1>11, <1>12
     DEF Next, JobStep, SubmitStep, PollJob

-----------------------------------------------------------------------------
(* Nothing of ours prints unwatched.                                        *)

LEMMA WatchStep ==
    ASSUME TypeOK, SubmissionInv, PollInv, TableInv, HandOverInv, CupsInv,
           NoUnwatchedJob, [Next]_vars
    PROVE  NoUnwatchedJob'
<1>. USE DEF jobVars, loopVars
<1>1. SUFFICES ASSUME NEW c \in CupsId, faults' = 0, cupsState'[c] \in Live
               PROVE  Watched(c)'
  BY DEF NoUnwatchedJob
<1>2. faults = 0 /\ cupsUp /\ CupsTypeOK
  <2>1. CupsTypeOK /\ (CupsNext \/ UNCHANGED cupsVars)
    BY OneCall DEF TypeOK
  <2>2. faults = 0
    BY <1>1, <2>1, CupsMonotone
  <2>3. QED BY <2>1, <2>2 DEF CupsInv
<1>3. cupsState[c] \in Live => Watched(c)
  BY <1>2 DEF NoUnwatchedJob
\* Nobody but CreateJob starts something.
<1>4. ASSUME \/ UNCHANGED cupsVars \/ CupsStep
             \/ \E S \in SUBSET CupsId : CupsCancel(S)
             \/ \E d \in CupsId, p \in Path, last \in BOOLEAN, lost \in BOOLEAN :
                   CupsSend(d, p, last, lost)
      PROVE  Watched(c)
  <2>1. ASSUME UNCHANGED cupsState PROVE Watched(c)
    BY <1>1, <1>3, <2>1
  <2>2. ASSUME NEW S \in SUBSET CupsId, CupsCancel(S) PROVE Watched(c)
    BY <1>1, <1>2, <1>3, <2>2 DEF CupsCancel, CupsTypeOK, Live, Queued
  <2>3. ASSUME NEW d \in CupsId, NEW p \in Path, NEW last \in BOOLEAN,
               NEW lost \in BOOLEAN, CupsSend(d, p, last, lost)
        PROVE  Watched(c)
    BY <1>1, <1>2, <1>3, <2>3 DEF CupsSend, CupsTypeOK, Live
  <2>4. ASSUME NEW d \in CupsId, CupsMoves(d) PROVE Watched(c)
    BY <1>1, <1>2, <1>3, <2>4 DEF CupsMoves, Moves, CupsTypeOK, Live, Queued, Ended
  <2>5. ASSUME CupsGoesDown \/ CupsComesBack \/ UNCHANGED cupsVars
        PROVE  UNCHANGED cupsState
    BY <2>5 DEF CupsGoesDown, CupsComesBack, cupsVars
  <2>6. QED BY <1>4, <2>1, <2>2, <2>3, <2>4, <2>5 DEF CupsStep
\* Nobody but the hand-over and the abort lets go of the half-sent job.
<1>5. ASSUME Watched(c), InHand => InHand' /\ cid' = cid,
             UNCHANGED cups_job_id,
             \A j \in JobId : phase[j] = "submitted" /\ cups_job_id[j] = c
                => phase'[j] = "submitted"
      PROVE  Watched(c)'
  BY <1>5 DEF Watched
<1>6. ASSUME CupsStep \/ UNCHANGED vars \/ \E p \in Path : ClientWrites(p)
      PROVE  Watched(c)'
  <2>1. UNCHANGED <<mode, cid, phase, cups_job_id>> /\ (CupsStep \/ UNCHANGED cupsVars)
    BY <1>6 DEF CupsStep, ClientWrites, vars
  <2>2. QED BY <1>4, <1>5, <2>1 DEF InHand
<1>7. ASSUME \/ Open \/ PollStart \/ PollEnd
             \/ \E j \in JobId : \/ CloseEmpty(j) \/ Close(j) \/ CancelLocally(j)
                                 \/ PollSame(j) \/ \E p \in Path : AddFile(j, p)
             \/ \E paths \in PathLists : AllAtOnce(paths) \/ AllAtOnceRefused(paths)
      PROVE  Watched(c)'
  <2>1. UNCHANGED cupsVars /\ UNCHANGED cups_job_id /\ mode \in {"idle", "poll"}
    BY <1>7 DEF Open, PollStart, PollEnd, CloseEmpty, Close, CancelLocally, PollSame,
         AddFile, AllAtOnce, AllAtOnceRefused
  <2>2. next_job_id \in JobId => phase[next_job_id] = "none"
    BY DEF TableInv, TypeOK, JobId
  <2>3. \A j \in JobId : phase[j] = "submitted" => phase'[j] = "submitted"
    BY <1>7, <2>2 DEF Open, PollStart, PollEnd, CloseEmpty, Close, CancelLocally,
         PollSame, AddFile, AllAtOnce, AllAtOnceRefused, TypeOK
  <2>4. QED BY <1>4, <1>5, <2>1, <2>3 DEF InHand
<1>8. ASSUME PortsCancelAllJobs \/ \E d \in CupsId : PortsCancelJob(d) PROVE Watched(c)'
  <2>1. \E S \in SUBSET CupsId : CupsCancel(S)
    BY <1>8 DEF PortsCancelAllJobs, PortsCancelJob
  <2>2. UNCHANGED <<mode, cid, phase, cups_job_id>>
    BY <1>8 DEF PortsCancelAllJobs, PortsCancelJob
  <2>3. QED BY <1>4, <1>5, <2>1, <2>2 DEF InHand
<1>9. ASSUME NEW j \in JobId, CancelSubmitted(j) PROVE Watched(c)'
  <2>1. /\ cups_job_id[j] \in CupsId /\ CupsCancel({cups_job_id[j]})
        /\ cupsState'[cups_job_id[j]] = "canceled"
    BY <1>9 DEF CancelSubmitted, Cancellable, CupsCancel
  <2>2. Watched(c) /\ c # cups_job_id[j]
    BY <1>1, <1>4, <2>1 DEF Live, Queued
  <2>3. UNCHANGED <<mode, cid, cups_job_id>> /\ phase' = [phase EXCEPT ![j] = "cancelled"]
    BY <1>9 DEF CancelSubmitted
  <2>4. QED BY <1>5, <2>2, <2>3 DEF InHand, TypeOK
<1>10. ASSUME NEW d \in CupsId, CreateJob(d) PROVE Watched(c)'
  <2>1. CASE d = c
    BY <1>10, <2>1 DEF CreateJob, Watched, InHand
  <2>2. CASE d # c
    <3>1. Watched(c)
      BY <1>1, <1>2, <1>3, <1>10, <2>2 DEF CreateJob, CupsCreate, CupsTypeOK
    <3>2. QED BY <1>5, <1>10, <3>1 DEF CreateJob, InHand
  <2>3. QED BY <2>1, <2>2
<1>11. ASSUME DetectFormat PROVE Watched(c)'
  BY <1>4, <1>5, <1>11 DEF DetectFormat, InHand
<1>12. ASSUME SendPage \/ SendFails PROVE Watched(c)'
  <2>1. page \in Path /\ cid \in CupsId
    <3>1. mode = "send"
      BY <1>12 DEF SendPage, SendFails
    <3>2. QED
      BY <3>1, ElementOfSeq DEF TypeOK, SubmissionInv, Submitting, InHand, page
  <2>2. Watched(c)
    <3>1. lastPage \in BOOLEAN
      BY DEF lastPage
    <3>2. QED BY <1>4, <1>12, <2>1, <3>1 DEF SendPage, SendFails
  <2>3. QED BY <1>5, <1>12, <2>2 DEF SendPage, SendFails, InHand
<1>13. ASSUME SendLastPage PROVE Watched(c)'
  <2>1. page \in Path /\ cid \in CupsId /\ cur \in JobId /\ phase[cur] = "open"
    BY <1>13, ElementOfSeq
       DEF SendLastPage, TypeOK, SubmissionInv, Submitting, InHand, page
  <2>2. Watched(c)
    BY <1>4, <1>13, <2>1 DEF SendLastPage
  <2>3. /\ phase' = [phase EXCEPT ![cur] = "submitted"]
        /\ cups_job_id' = [cups_job_id EXCEPT ![cur] = cid]
    BY <1>13 DEF SendLastPage
  <2>4. QED BY <2>1, <2>2, <2>3 DEF Watched, TypeOK
<1>14. ASSUME CreateJobFails \/ AbortJob PROVE Watched(c)'
  <2>1. /\ SubmitFailed /\ cur \in JobId /\ phase[cur] = "open"
    BY <1>14 DEF CreateJobFails, AbortJob, SubmissionInv, Submitting
  <2>2. \A j \in JobId : phase[j] = "submitted" => phase'[j] = "submitted"
    BY <2>1 DEF SubmitFailed, TypeOK
  <2>3. CASE CreateJobFails
    <3>1. UNCHANGED cupsVars
      BY <1>1, <1>2, <2>3 DEF CreateJobFails, CupsCreate, CountFault
    <3>2. QED BY <1>4, <1>5, <2>1, <2>2, <2>3, <3>1 DEF CreateJobFails, InHand, SubmitFailed
  <2>4. CASE AbortJob
    <3>1. cid \in CupsId
      BY <2>4 DEF AbortJob, SubmissionInv, InHand
    <3>2. Watched(c) /\ c # cid
      BY <1>1, <1>2, <1>4, <2>4, <3>1 DEF AbortJob, Cancellable, CupsCancel,
           CupsTypeOK, cupsVars, Live, Queued
    <3>3. \E j \in JobId : phase[j] = "submitted" /\ cups_job_id[j] = c
      BY <3>2 DEF Watched
    <3>4. QED BY <2>1, <2>2, <3>3 DEF Watched, SubmitFailed
  <2>5. QED BY <1>14, <2>3, <2>4
<1>15. ASSUME NEW j \in JobId, PollVanished(j) \/ PollChanged(j) PROVE Watched(c)'
  <2>1. /\ UNCHANGED cupsVars /\ UNCHANGED <<mode, cid, cups_job_id>>
        /\ phase' = phase \/ phase' = [phase EXCEPT ![j] = "done"]
    BY <1>15 DEF PollVanished, PollChanged
  <2>2. phase' # phase => cupsState[cups_job_id[j]] \notin Live
    <3>1. CASE PollVanished(j)
      BY <1>2, <3>1 DEF PollVanished, JobVanished, Live, Queued
    <3>2. CASE PollChanged(j)
      BY <3>2, TranslateDone DEF PollChanged, Live, Queued, Ended
    <3>3. QED BY <1>15, <3>1, <3>2
  <2>3. Watched(c) /\ cupsState[c] \in Live
    BY <1>1, <1>4, <2>1 DEF cupsVars
  <2>4. QED BY <1>5, <2>1, <2>2, <2>3 DEF InHand, TypeOK
<1>16. QED
  BY <1>6, <1>7, <1>8, <1>9, <1>10, <1>11, <1>12, <1>13, <1>14, <1>15
     DEF Next, JobStep, SubmitStep, PollJob

-----------------------------------------------------------------------------
(* The theorems.                                                            *)

LEMMA InvInit ==
    ASSUME Init
    PROVE  IInv
<1>1. TypeOK
  BY TypeInit
<1>2. SubmissionInv /\ PollInv /\ TableInv /\ HandOverInv /\ CupsInv
  BY DEF Init, CupsInit, SubmissionInv, Submitting, InHand, PollInv, TableInv,
         HandOverInv, CupsInv, JobId
<1>3. FeedMatchesTable /\ PollCoversSubmitted /\ NoUnwatchedJob /\ TruthfulOutcome
  BY DEF Init, CupsInit, FeedMatchesTable, NoReport, PollCoversSubmitted,
         NoUnwatchedJob, TruthfulOutcome, Live, Queued
<1>4. QED BY <1>1, <1>2, <1>3 DEF IInv

LEMMA InvStep ==
    ASSUME IInv, [Next]_vars
    PROVE  IInv'
<1>. USE DEF IInv
<1>1. TypeOK' /\ SubmissionInv' /\ TableInv' /\ HandOverInv'
  BY TypeStep, SubmissionStep, TableStep, HandOverStep
<1>2. CupsInv'
  BY OneCall, CupsInvStep DEF TypeOK
<1>3. PollInv' /\ PollCoversSubmitted'
  BY PollStep
<1>4. FeedMatchesTable' /\ TruthfulOutcome' /\ NoUnwatchedJob'
  BY FeedStep, TruthStep, WatchStep
<1>5. QED BY <1>1, <1>2, <1>3, <1>4

\* The inductive invariant of the engine: every handler, libcups call, poll and
\* move of cupsd keeps it.
THEOREM Invariance == Spec => []IInv
<1>1. Init => IInv
  BY InvInit
<1>2. IInv /\ [Next]_vars => IInv'
  BY InvStep
<1>3. QED BY <1>1, <1>2, PTL DEF Spec

\* Every state of the engine, of its feed and of CUPS is one of those declared.
THEOREM TypeCorrect == Spec => []TypeOK
<1>1. IInv => TypeOK
  BY DEF IInv
<1>2. QED BY <1>1, Invariance, PTL

\* No error path of the submission and no exit of the poll leaves a CUPS job of
\* ours live and unwatched, unless cupsd failed to answer.
THEOREM NeverUnwatched == Spec => []NoUnwatchedJob
<1>1. IInv => NoUnwatchedJob
  BY DEF IInv
<1>2. QED BY <1>1, Invariance, PTL

\* The outcome a subscriber is told is the one CUPS reached, unless cupsd failed
\* to answer.
THEOREM OutcomesAreTrue == Spec => []TruthfulOutcome
<1>1. IInv => TruthfulOutcome
  BY DEF IInv
<1>2. QED BY <1>1, Invariance, PTL

\* A job recorded as submitted was handed over whole, in order, and released.
THEOREM HandoffIsComplete == Spec => []HandoffComplete
<1>1. IInv => HandoffComplete
  BY DEF IInv, TableInv, HandOverInv, HandoffComplete
<1>2. QED BY <1>1, Invariance, PTL

\* The timer runs whenever a job is in flight.
THEOREM PollCovers == Spec => []PollCoversSubmitted
<1>1. IInv => PollCoversSubmitted
  BY DEF IInv
<1>2. QED BY <1>1, Invariance, PTL

\* The status stream and the job table tell the same story.
THEOREM FeedAgrees == Spec => []FeedMatchesTable
<1>1. IInv => FeedMatchesTable
  BY DEF IInv
<1>2. QED BY <1>1, Invariance, PTL

LEMMA FinalStep ==
    ASSUME IInv, [Next]_vars, NEW j \in JobId,
           reported[j].state = "DONE", reported'[j] # reported[j]
    PROVE  reported'[j] = Done("Cancelled") /\ phase'[j] = "cancelled"
<1>. USE DEF IInv, FeedMatchesTable, jobVars
<1>1. phase[j] \notin {"none", "open", "submitted"}
  BY DEF NoReport
<1>2. ASSUME \/ Open \/ DetectFormat \/ SendPage \/ SendFails \/ PollStart \/ PollEnd
             \/ PortsCancelAllJobs \/ CupsStep \/ UNCHANGED vars
             \/ \E c \in CupsId : PortsCancelJob(c) \/ CreateJob(c)
             \/ \E p \in Path : ClientWrites(p)
             \/ \E paths \in PathLists : AllAtOnce(paths) \/ AllAtOnceRefused(paths)
             \/ \E k \in JobId : \/ Close(k) \/ PollSame(k)
                                 \/ \E p \in Path : AddFile(k, p)
      PROVE  FALSE
  BY <1>2 DEF DetectFormat, SendPage, SendFails, PollStart, PollEnd, CupsStep, Open,
       PortsCancelAllJobs, vars, PortsCancelJob, CreateJob, ClientWrites, Close,
       PollSame, AddFile, AllAtOnce, AllAtOnceRefused
<1>3. ASSUME NEW k \in JobId, NEW r, PostJobState(k, r) PROVE k = j /\ reported'[j] = r
  BY <1>3 DEF PostJobState, TypeOK
<1>4. ASSUME NEW k \in JobId, CloseEmpty(k) \/ PollVanished(k) \/ PollChanged(k)
      PROVE  FALSE
  BY <1>1, <1>3, <1>4 DEF CloseEmpty, PollVanished, PollChanged, PollInv
<1>5. ASSUME CreateJobFails \/ SendLastPage \/ AbortJob PROVE FALSE
  <2>1. cur \in JobId /\ phase[cur] = "open"
    BY <1>5 DEF CreateJobFails, SendLastPage, AbortJob, SubmissionInv, Submitting
  <2>2. \E r : PostJobState(cur, r)
    BY <1>5 DEF CreateJobFails, SendLastPage, AbortJob, SubmitFailed
  <2>3. QED BY <1>1, <1>3, <2>1, <2>2
<1>6. ASSUME NEW k \in JobId, CancelSubmitted(k) \/ CancelLocally(k)
      PROVE  reported'[j] = Done("Cancelled") /\ phase'[j] = "cancelled"
  BY <1>3, <1>6 DEF CancelSubmitted, CancelLocally, TypeOK
<1>7. QED
  BY <1>2, <1>4, <1>5, <1>6 DEF Next, JobStep, SubmitStep, PollJob

\* Only jobs/cancel changes what was said to be final.
THEOREM FinalStaysFinal == Spec => FinalIsFinal
<1>1. IInv /\ [Next]_vars =>
        [\A j \in JobId :
            reported[j].state = "DONE" /\ reported'[j] # reported[j]
                => reported'[j] = Done("Cancelled") /\ phase'[j] = "cancelled"]_vars
  BY FinalStep
<1>2. QED BY <1>1, Invariance, PTL DEF Spec, FinalIsFinal

\* What is left to call is a number, and never more than the files of a job and
\* the jobs of the table account for.
LEMMA CallsAreBounded ==
    ASSUME IInv
    PROVE  /\ CallsLeft \in Nat
           /\ CallsLeft <= 2 * Len(files[cur]) + 2 \/ CallsLeft <= MaxJobs
<1>1. IsFiniteSet(JobId) /\ Cardinality(JobId) = MaxJobs
  BY FS_Interval, PrintJobsAssumption DEF JobId
<1>2. IsFiniteSet(todo) /\ Cardinality(todo) \in Nat /\ Cardinality(todo) <= MaxJobs
  BY <1>1, FS_Subset, FS_CardinalityType DEF IInv, TypeOK
<1>3. CASE mode = "poll"
  BY <1>2, <1>3 DEF CallsLeft
<1>4. CASE mode \in {"create", "detect", "send"}
  <2>1. Len(files[cur]) \in Nat /\ idx \in 1 .. Len(files[cur])
    BY <1>4, LenProperties DEF IInv, TypeOK, SubmissionInv, Submitting
  <2>2. QED BY <1>4, <2>1, SMTT(30) DEF CallsLeft
<1>5. CASE mode \in {"abort", "idle"}
  <2>1. CallsLeft <= 1 /\ CallsLeft \in Nat
    BY <1>5 DEF CallsLeft
  <2>2. CASE mode = "abort"
    BY <2>1, <2>2, LenProperties DEF IInv, TypeOK, SubmissionInv, Submitting
  <2>3. CASE mode = "idle"
    BY <2>3, PrintJobsAssumption DEF CallsLeft
  <2>4. QED BY <1>5, <2>2, <2>3
<1>6. QED BY <1>3, <1>4, <1>5 DEF IInv, TypeOK

\* The end of a submission is the end of its calls.
LEMMA SubmitFailedEnds ==
    ASSUME IInv, mode \in {"create", "abort"}, SubmitFailed
    PROVE  CallsLeft' < CallsLeft
<1>1. CallsLeft' = 0
  BY DEF SubmitFailed, EndSubmit, CallsLeft
<1>2. cur \in JobId /\ files[cur] \in Seq(Path)
  BY DEF IInv, TypeOK, SubmissionInv, Submitting
<1>3. CallsLeft >= 1
  BY <1>2, LenProperties DEF CallsLeft
<1>4. CallsLeft \in Nat
  BY CallsAreBounded
<1>5. QED BY <1>1, <1>3, <1>4

LEMMA CallsStep ==
    ASSUME IInv, [Next]_vars, mode # "idle"
    PROVE  \/ CallsLeft' < CallsLeft
           \/ CallsLeft = 0 /\ mode' = "idle"
           \/ UNCHANGED <<jobVars, loopVars, reported, poll_source>>
<1>. USE DEF IInv
<1>1. CASE UNCHANGED vars \/ CupsStep \/ \E p \in Path : ClientWrites(p)
  BY <1>1 DEF vars, CupsStep, ClientWrites
<1>2. ASSUME mode \in {"create", "detect", "send"}
      PROVE  Len(files[cur]) \in Nat /\ idx \in 1 .. Len(files[cur])
  BY <1>2, LenProperties DEF TypeOK, SubmissionInv, Submitting
<1>3. CASE \E c \in CupsId : CreateJob(c)
  BY <1>2, <1>3 DEF CreateJob, CallsLeft, SubmissionInv, jobVars
<1>4. CASE CreateJobFails \/ AbortJob
  BY <1>4, SubmitFailedEnds DEF CreateJobFails, AbortJob
<1>5. CASE DetectFormat
  BY <1>2, <1>5 DEF DetectFormat, CallsLeft, jobVars
<1>6. CASE SendPage
  BY <1>2, <1>6 DEF SendPage, CallsLeft, jobVars
<1>7. CASE SendLastPage
  BY <1>2, <1>7 DEF SendLastPage, EndSubmit, CallsLeft
<1>8. CASE SendFails
  BY <1>2, <1>8 DEF SendFails, CallsLeft, jobVars
<1>9. CASE \E j \in JobId : PollJob(j)
  <2>1. PICK j \in todo : /\ mode = "poll" /\ mode' = "poll"
                          /\ todo' = todo \ {j}
    BY <1>9 DEF PollJob, PollVanished, PollChanged, PollSame
  <2>2. IsFiniteSet(todo) /\ Cardinality(todo) \in Nat
    <3>1. IsFiniteSet(JobId)
      BY FS_Interval, PrintJobsAssumption DEF JobId
    <3>2. QED BY <3>1, FS_Subset, FS_CardinalityType DEF TypeOK
  <2>3. Cardinality(todo') = Cardinality(todo) - 1
    BY <2>1, <2>2, FS_RemoveElement
  <2>4. QED BY <2>1, <2>2, <2>3 DEF CallsLeft
<1>10. CASE PollEnd
  BY <1>10, FS_EmptySet DEF PollEnd, CallsLeft
<1>11. ASSUME Open \/ PortsCancelAllJobs \/ PollStart
              \/ (\E j \in JobId : JobStep(j))
              \/ (\E paths \in PathLists : AllAtOnce(paths) \/ AllAtOnceRefused(paths))
              \/ (\E c \in CupsId : PortsCancelJob(c))
       PROVE  FALSE
  BY <1>11 DEF Open, PortsCancelAllJobs, PollStart, JobStep, AddFile, CloseEmpty,
       Close, CancelSubmitted, CancelLocally, AllAtOnce, AllAtOnceRefused,
       PortsCancelJob
<1>12. QED
  BY <1>1, <1>3, <1>4, <1>5, <1>6, <1>7, <1>8, <1>9, <1>10, <1>11
     DEF Next, SubmitStep

\* No submission and no poll can keep the main loop for more calls than it began
\* with.
THEOREM CallsAlwaysRunOut == Spec => CallsRunOut
<1>1. IInv /\ [Next]_vars =>
        [mode # "idle" =>
            \/ CallsLeft' < CallsLeft
            \/ CallsLeft = 0 /\ mode' = "idle"
            \/ UNCHANGED <<jobVars, loopVars, reported, poll_source>>]_vars
  BY CallsStep
<1>2. QED BY <1>1, Invariance, PTL DEF Spec, CallsRunOut

-----------------------------------------------------------------------------
(* Jobs the service took no note of.                                        *)

Released == Queued \cup {"completed"}

\* The pages of j will not change any more.
Settled(j) == phase[j] \notin {"none", "open"} \/ (mode = "abort" /\ j = cur)

\* A job that was released while its submission failed has cost a fault, and the
\* outage that keeps it from being cancelled costs another.
LostInv ==
    /\ \A c \in CupsId : cupsState[c] \in Released =>
          \E j \in JobId : Settled(j) /\ cupsDocs[c] = files[j]
    /\ InHand /\ cupsState[cid] \in Queued => faults >= 1 /\ (~cupsUp => faults >= 2)
    /\ LostReplyIsContained

\* Only a document releases a job.
LEMMA OnlySendsRelease ==
    ASSUME CupsTypeOK, NEW c \in CupsId,
           \/ UNCHANGED cupsVars \/ CupsStep
           \/ \E S \in SUBSET CupsId : CupsCancel(S)
           \/ \E d \in CupsId, lost \in BOOLEAN : CupsCreate(d, lost)
           \/ \E d \in CupsId, p \in Path, lost \in BOOLEAN : CupsSend(d, p, FALSE, lost)
    PROVE  /\ cupsState'[c] \in Released => cupsState[c] \in Released
           /\ cupsState'[c] \in Queued => cupsState[c] \in Queued
           /\ faults <= faults'
<1>. USE DEF CupsTypeOK, Released, Queued
<1>1. ASSUME NEW S \in SUBSET CupsId, CupsCancel(S)
      PROVE  /\ cupsState'[c] \in Released => cupsState[c] \in Released
             /\ cupsState'[c] \in Queued => cupsState[c] \in Queued
             /\ faults <= faults'
  BY <1>1, CupsAssumption DEF CupsCancel
<1>2. ASSUME NEW d \in CupsId, NEW lost \in BOOLEAN, CupsCreate(d, lost)
      PROVE  /\ cupsState'[c] \in Released => cupsState[c] \in Released
             /\ cupsState'[c] \in Queued => cupsState[c] \in Queued
             /\ faults <= faults'
  BY <1>2, CupsAssumption DEF CupsCreate, CountFault
<1>3. ASSUME NEW d \in CupsId, NEW p \in Path, NEW lost \in BOOLEAN,
             CupsSend(d, p, FALSE, lost)
      PROVE  /\ cupsState'[c] \in Released => cupsState[c] \in Released
             /\ cupsState'[c] \in Queued => cupsState[c] \in Queued
             /\ faults <= faults'
  BY <1>3, CupsAssumption DEF CupsSend, CountFault
<1>4. ASSUME NEW d \in CupsId, CupsMoves(d)
      PROVE  /\ cupsState'[c] \in Released => cupsState[c] \in Released
             /\ cupsState'[c] \in Queued => cupsState[c] \in Queued
             /\ faults <= faults'
  BY <1>4, CupsAssumption DEF CupsMoves, Moves, Live, Ended
<1>5. ASSUME CupsGoesDown \/ CupsComesBack \/ UNCHANGED cupsVars
      PROVE  /\ cupsState'[c] \in Released => cupsState[c] \in Released
             /\ cupsState'[c] \in Queued => cupsState[c] \in Queued
             /\ faults <= faults'
  BY <1>5, CupsAssumption DEF CupsGoesDown, CupsComesBack, cupsVars
<1> QED BY <1>1, <1>2, <1>3, <1>4, <1>5 DEF CupsStep

\* The last page, taken and its reply lost: the job has all pages of cur.
LEMMA LostPageCompletes ==
    ASSUME TypeOK, SubmissionInv, mode = "send", lastPage, CupsSend(cid, page, TRUE, TRUE)
    PROVE  /\ cur \in JobId /\ cid \in CupsId
           /\ cupsDocs'[cid] = files[cur]
           /\ faults' = faults + 1 /\ cupsUp'
           /\ \A c \in CupsId : c # cid => cupsState'[c] = cupsState[c]
<1>1. cur \in JobId /\ cid \in CupsId
  BY DEF SubmissionInv, Submitting, InHand
<1>2. /\ faults' = faults + 1 /\ cupsUp'
      /\ \A c \in CupsId : c # cid => cupsState'[c] = cupsState[c]
      /\ cupsDocs'[cid] = Append(cupsDocs[cid], page)
  BY <1>1 DEF CupsSend, CountFault, TypeOK, CupsTypeOK
<1>3. cupsDocs[cid] \in Seq(Path) /\ files[cur] \in Seq(Path)
  BY <1>1 DEF TypeOK, CupsTypeOK
<1>4. /\ idx \in Nat \ {0} /\ Len(files[cur]) = idx
      /\ Len(cupsDocs[cid]) = idx - 1
      /\ \A i \in 1 .. idx - 1 : cupsDocs[cid][i] = files[cur][i]
  BY DEF lastPage, SubmissionInv, TypeOK
<1>5. page \in Path /\ page = files[cur][idx]
  BY <1>3, <1>4, ElementOfSeq DEF page
<1>6. /\ Append(cupsDocs[cid], page) \in Seq(Path)
      /\ Len(Append(cupsDocs[cid], page)) = Len(files[cur])
      /\ \A i \in 1 .. Len(files[cur]) :
            Append(cupsDocs[cid], page)[i] = files[cur][i]
  BY <1>3, <1>4, <1>5, AppendProperties
<1>7. Append(cupsDocs[cid], page) = files[cur]
  BY <1>3, <1>6, SeqEqual
<1> QED BY <1>1, <1>2, <1>7

\* Nothing gives pages to a job that was closed, or whose submission has failed.
LEMMA SettledStays ==
    ASSUME TypeOK, SubmissionInv, PollInv, TableInv, [Next]_vars, NEW j \in JobId, Settled(j)
    PROVE  Settled(j)' /\ files'[j] = files[j]
<1>. USE DEF jobVars, loopVars, Settled
<1>1. ASSUME UNCHANGED <<phase, files, mode, cur>>
      PROVE  Settled(j)' /\ files'[j] = files[j]
  BY <1>1
<1>2. ASSUME UNCHANGED <<phase, files>>, mode # "abort"
      PROVE  Settled(j)' /\ files'[j] = files[j]
  BY <1>2
<1>3. ASSUME UNCHANGED files, mode # "abort", NEW k \in JobId,
             \E ph \in {"submitted", "done", "cancelled"} : phase' = [phase EXCEPT ![k] = ph]
      PROVE  Settled(j)' /\ files'[j] = files[j]
  BY <1>3 DEF TypeOK
<1>4. CASE CupsStep \/ UNCHANGED vars \/ \E p \in Path : ClientWrites(p)
  BY <1>1, <1>4 DEF CupsStep, ClientWrites, vars
<1>5. CASE \/ DetectFormat \/ SendPage \/ SendFails \/ PollStart \/ PollEnd
           \/ PortsCancelAllJobs
           \/ \E c \in CupsId : PortsCancelJob(c) \/ CreateJob(c)
           \/ \E k \in JobId : Close(k) \/ PollSame(k)
  <2>1. UNCHANGED <<phase, files>> /\ mode # "abort"
    BY <1>5 DEF DetectFormat, SendPage, SendFails, PollStart, PollEnd,
         PortsCancelAllJobs, PortsCancelJob, CreateJob, Close, PollSame
  <2> QED BY <1>2, <2>1
<1>6. CASE \E k \in JobId : \/ CloseEmpty(k) \/ CancelSubmitted(k) \/ CancelLocally(k)
                           \/ PollVanished(k) \/ PollChanged(k)
  <2>1. PICK k \in JobId : \/ CloseEmpty(k) \/ CancelSubmitted(k) \/ CancelLocally(k)
                           \/ PollVanished(k) \/ PollChanged(k)
    BY <1>6
  <2>2. /\ UNCHANGED files /\ mode # "abort"
        /\ \/ phase' = phase
           \/ \E ph \in {"submitted", "done", "cancelled"} : phase' = [phase EXCEPT ![k] = ph]
    BY <2>1 DEF CloseEmpty, CancelSubmitted, CancelLocally, PollVanished, PollChanged
  <2> QED BY <1>2, <1>3, <2>2
<1>7. ASSUME NEW k \in JobId, NEW p \in Path, AddFile(k, p)
      PROVE  Settled(j)' /\ files'[j] = files[j]
  BY <1>7 DEF AddFile, TypeOK
<1>8. CASE Open \/ \E paths \in PathLists : AllAtOnce(paths) \/ AllAtOnceRefused(paths)
  <2>1. phase[next_job_id] = "none" /\ mode = "idle"
    BY <1>8 DEF Open, AllAtOnce, AllAtOnceRefused, TableInv, TypeOK, JobId
  <2>2. j # next_job_id
    BY <2>1
  <2> QED BY <1>8, <2>1, <2>2 DEF Open, AllAtOnce, AllAtOnceRefused, TypeOK
<1>9. CASE CreateJobFails \/ AbortJob
  BY <1>9 DEF CreateJobFails, AbortJob, SubmitFailed, SubmissionInv, Submitting, TypeOK
<1>10. CASE SendLastPage
  <2>1. cur \in JobId
    BY <1>10 DEF SendLastPage, SubmissionInv, Submitting
  <2> QED BY <1>3, <1>10, <2>1 DEF SendLastPage
<1> QED
  BY <1>4, <1>5, <1>6, <1>7, <1>8, <1>9, <1>10 DEF Next, JobStep, SubmitStep, PollJob

\* A step either releases nothing, or it sends the last page of the submission.
LEMMA ReleasedBefore ==
    ASSUME TypeOK, SubmissionInv, TableInv, [Next]_vars, NEW c \in CupsId
    PROVE  \/ /\ cupsState'[c] \in Released => cupsState[c] \in Released
              /\ cupsState'[c] \in Queued => cupsState[c] \in Queued
              /\ faults <= faults'
           \/ SendLastPage
           \/ SendFails /\ lastPage /\ CupsSend(cid, page, TRUE, TRUE)
<1>1. CupsTypeOK
  BY DEF TypeOK
<1>2. mode = "send" => page \in Path /\ cid \in CupsId
  BY ElementOfSeq DEF TypeOK, SubmissionInv, Submitting, InHand, page
<1>3. CASE \/ UNCHANGED cupsVars \/ CupsStep
           \/ \E S \in SUBSET CupsId : CupsCancel(S)
           \/ \E d \in CupsId, lost \in BOOLEAN : CupsCreate(d, lost)
           \/ \E d \in CupsId, p \in Path, lost \in BOOLEAN : CupsSend(d, p, FALSE, lost)
  BY <1>1, <1>3, OnlySendsRelease
<1>4. ASSUME NEW j \in JobId, CancelSubmitted(j) PROVE \E S \in SUBSET CupsId : CupsCancel(S)
  BY <1>4 DEF CancelSubmitted, Cancellable
<1>5. ASSUME PortsCancelAllJobs \/ \E d \in CupsId : PortsCancelJob(d)
      PROVE  \E S \in SUBSET CupsId : CupsCancel(S)
  BY <1>5 DEF PortsCancelAllJobs, PortsCancelJob
<1>6. ASSUME CreateJobFails \/ \E d \in CupsId : CreateJob(d)
      PROVE  UNCHANGED cupsVars \/ \E d \in CupsId, lost \in BOOLEAN : CupsCreate(d, lost)
  BY <1>6 DEF CreateJob, CreateJobFails
<1>7. ASSUME AbortJob
      PROVE  UNCHANGED cupsVars \/ \E S \in SUBSET CupsId : CupsCancel(S)
  BY <1>7 DEF AbortJob, Cancellable
<1>8. ASSUME SendPage
      PROVE  \E d \in CupsId, p \in Path, lost \in BOOLEAN : CupsSend(d, p, FALSE, lost)
  BY <1>2, <1>8 DEF SendPage
<1>9. ASSUME SendFails
      PROVE  \/ UNCHANGED cupsVars
             \/ \E d \in CupsId, p \in Path, lost \in BOOLEAN : CupsSend(d, p, FALSE, lost)
             \/ lastPage /\ CupsSend(cid, page, TRUE, TRUE)
  <2>1. lastPage \in BOOLEAN
    BY DEF lastPage
  <2>2. CASE lastPage = TRUE
    BY <1>9, <2>2 DEF SendFails
  <2>3. CASE lastPage = FALSE
    BY <1>2, <1>9, <2>3 DEF SendFails
  <2> QED BY <2>1, <2>2, <2>3
<1>10. ASSUME NEW j \in JobId,
              \/ \E p \in Path : AddFile(j, p)
              \/ CloseEmpty(j) \/ Close(j) \/ CancelLocally(j) \/ PollJob(j)
       PROVE  UNCHANGED cupsVars
  BY <1>10 DEF AddFile, CloseEmpty, Close, CancelLocally, PollJob, PollVanished,
               PollChanged, PollSame
<1>11. ASSUME \/ Open \/ DetectFormat \/ PollStart \/ PollEnd \/ UNCHANGED vars
              \/ \E p \in Path : ClientWrites(p)
              \/ \E paths \in PathLists : AllAtOnce(paths) \/ AllAtOnceRefused(paths)
       PROVE  UNCHANGED cupsVars
  BY <1>11 DEF Open, DetectFormat, PollStart, PollEnd, ClientWrites, AllAtOnce,
               AllAtOnceRefused, vars
<1> QED
  BY <1>3, <1>4, <1>5, <1>6, <1>7, <1>8, <1>9, <1>10, <1>11 DEF Next, JobStep, SubmitStep

\* What was released stays the whole of a settled job.
LEMMA WholeStep ==
    ASSUME IInv, LostInv, [Next]_vars, NEW c \in CupsId, cupsState'[c] \in Released
    PROVE  \E j \in JobId : Settled(j)' /\ cupsDocs'[c] = files'[j]
<1>1. TypeOK /\ SubmissionInv /\ PollInv /\ TableInv
  BY DEF IInv
<1>2. CASE cupsState[c] \in Released
  <2>1. PICK j \in JobId : Settled(j) /\ cupsDocs[c] = files[j]
    BY <1>2 DEF LostInv
  <2>2. cupsDocs'[c] = cupsDocs[c]
    <3>1. NoReturn(c)
      BY <1>1, OneCall, CupsMonotone DEF TypeOK
    <3> QED BY <1>2, <3>1 DEF NoReturn, Released, Queued
  <2> QED BY <1>1, <2>1, <2>2, SettledStays
<1>3. CASE cupsState[c] \notin Released
  <2>1. SendLastPage \/ (SendFails /\ lastPage /\ CupsSend(cid, page, TRUE, TRUE))
    BY <1>1, <1>3, ReleasedBefore
  <2>2. CASE SendLastPage
    <3>1. c = cid
      BY <1>1, <1>3, <2>2 DEF SendLastPage, CupsSend, TypeOK, CupsTypeOK
    <3>2. cur \in JobId /\ cupsDocs'[cid] = files[cur]
      BY <1>1, <2>2, LastPageCompletes
    <3>3. files' = files /\ \A j \in JobId : j = cur => Settled(j)'
      BY <1>1, <2>2, <3>2 DEF SendLastPage, Settled, TypeOK
    <3> QED BY <3>1, <3>2, <3>3
  <2>3. CASE SendFails /\ lastPage /\ CupsSend(cid, page, TRUE, TRUE)
    <3>1. mode = "send" /\ mode' = "abort" /\ cur' = cur /\ files' = files
      BY <2>3 DEF SendFails, jobVars
    <3>2. /\ cur \in JobId /\ cupsDocs'[cid] = files[cur]
          /\ c = cid
      BY <1>1, <1>3, <2>3, <3>1, LostPageCompletes
    <3> QED BY <3>1, <3>2 DEF Settled
  <2> QED BY <2>1, <2>2, <2>3
<1> QED BY <1>2, <1>3

\* A submission that holds a queued job has met a fault, and the job can still be
\* cancelled unless it has met two.
LEMMA FaultStep ==
    ASSUME IInv, LostInv, [Next]_vars, InHand', cupsState'[cid'] \in Queued
    PROVE  faults' >= 1 /\ (~cupsUp' => faults' >= 2)
<1>1. TypeOK /\ SubmissionInv /\ TableInv /\ CupsTypeOK /\ faults \in Nat
  BY CupsAssumption DEF IInv, TypeOK, CupsTypeOK
<1>2. InHand => cid \in CupsId
  BY <1>1 DEF SubmissionInv
<1>3. ASSUME InHand, cid' = cid, cupsState[cid] \in Queued, faults' = faults, cupsUp' = cupsUp
      PROVE  faults' >= 1 /\ (~cupsUp' => faults' >= 2)
  BY <1>3 DEF LostInv
<1>4. CASE CupsStep
  <2>1. InHand /\ cid' = cid
    BY <1>4 DEF CupsStep, loopVars, InHand
  <2>2. cupsState[cid] \in Queued
    BY <1>1, <1>2, <1>4, <2>1, OnlySendsRelease
  <2>3. faults >= 1 /\ (~cupsUp => faults >= 2)
    BY <2>1, <2>2 DEF LostInv
  <2>4. CASE \E c \in CupsId : CupsMoves(c)
    BY <2>3, <2>4 DEF CupsMoves
  <2>5. CASE CupsGoesDown
    BY <1>1, <2>3, <2>5 DEF CupsGoesDown
  <2>6. CASE CupsComesBack
    BY <2>3, <2>6 DEF CupsComesBack
  <2> QED BY <1>4, <2>4, <2>5, <2>6 DEF CupsStep
<1>5. CASE UNCHANGED vars \/ DetectFormat \/ \E p \in Path : ClientWrites(p)
  <2>1. InHand /\ cid' = cid /\ UNCHANGED cupsVars
    BY <1>5 DEF vars, DetectFormat, ClientWrites, loopVars, InHand
  <2> QED BY <1>3, <2>1 DEF cupsVars
<1>6. CASE SendPage
  <2>1. InHand /\ cid' = cid /\ cupsState'[cid] = "incoming"
    BY <1>1, <1>2, <1>6 DEF SendPage, CupsSend, CupsTypeOK, InHand
  <2> QED BY <2>1 DEF Queued
<1>7. CASE SendFails
  <2>1. InHand /\ cid' = cid /\ mode = "send" /\ lastPage \in BOOLEAN
    BY <1>7 DEF SendFails, InHand, lastPage
  <2>2. CASE UNCHANGED cupsVars
    BY <1>3, <2>1, <2>2 DEF cupsVars
  <2>3. CASE CupsSend(cid, page, lastPage, TRUE)
    BY <1>1, <2>3 DEF CupsSend, CountFault
  <2> QED BY <1>7, <2>2, <2>3 DEF SendFails
<1>8. ASSUME NEW c \in CupsId, CreateJob(c) PROVE FALSE
  <2>1. cid' = c /\ cupsState'[c] = "incoming"
    BY <1>1, <1>8 DEF CreateJob, CupsCreate, CupsTypeOK
  <2> QED BY <2>1 DEF Queued
<1>9. ASSUME \/ CreateJobFails \/ SendLastPage \/ AbortJob
             \/ Open \/ PollStart \/ PollEnd \/ PortsCancelAllJobs
             \/ \E c \in CupsId : PortsCancelJob(c)
             \/ \E paths \in PathLists : AllAtOnce(paths) \/ AllAtOnceRefused(paths)
             \/ \E j \in JobId : JobStep(j) \/ PollJob(j)
      PROVE  ~InHand'
  BY <1>9 DEF CreateJobFails, SendLastPage, AbortJob, SubmitFailed, EndSubmit, Open,
       PollStart, PollEnd, PortsCancelAllJobs, PortsCancelJob, AllAtOnce,
       AllAtOnceRefused, BeginSubmit, JobStep, AddFile, CloseEmpty, Close,
       CancelSubmitted, CancelLocally, PollJob, PollVanished, PollChanged, PollSame,
       loopVars, InHand
<1> QED BY <1>4, <1>5, <1>6, <1>7, <1>8, <1>9 DEF Next, SubmitStep

\* Before the second fault a queued job is on record or is going to be cancelled.
LEMMA RecordStep ==
    ASSUME IInv, LostInv, [Next]_vars, NEW c \in CupsId,
           faults' <= 1, cupsState'[c] \in Queued
    PROVE  (InHand' /\ cid' = c) \/ \E j \in JobId : cups_job_id'[j] = c
<1>0. IInv'
  BY InvStep
<1>1. /\ TypeOK /\ SubmissionInv /\ TableInv /\ CupsTypeOK
      /\ faults \in Nat /\ faults' \in Nat
  <2>1. CupsTypeOK /\ CupsTypeOK'
    BY <1>0 DEF IInv, TypeOK
  <2> QED BY <2>1, CupsAssumption DEF IInv, CupsTypeOK
<1>2. CASE SendLastPage
  <2>1. /\ cur \in JobId /\ cups_job_id[cur] = NoCupsJob /\ cid \in CupsId
        /\ cups_job_id' = [cups_job_id EXCEPT ![cur] = cid]
        /\ faults' = faults
    BY <1>1, <1>2 DEF SendLastPage, SubmissionInv, Submitting, InHand, TableInv,
         CupsSend, CountFault
  <2>2. cups_job_id'[cur] = cid
    BY <1>1, <2>1 DEF TypeOK
  <2>3. CASE c = cid
    BY <2>1, <2>2, <2>3
  <2>4. CASE c # cid
    <3>1. cupsState[c] \in Queued
      BY <1>1, <1>2, <2>4 DEF SendLastPage, CupsSend, CupsTypeOK
    <3>2. PICK j \in JobId : cups_job_id[j] = c
      BY <2>1, <2>4, <3>1 DEF LostInv, LostReplyIsContained
    <3>3. j # cur
      BY <2>1, <3>2 DEF CupsId, NoCupsJob
    <3> QED BY <1>1, <2>1, <3>2, <3>3 DEF TypeOK
  <2> QED BY <2>3, <2>4
<1>3. CASE SendFails /\ lastPage /\ CupsSend(cid, page, TRUE, TRUE)
  <2>1. /\ mode = "send" /\ InHand /\ InHand' /\ cid' = cid
        /\ UNCHANGED cups_job_id
    BY <1>3 DEF SendFails, jobVars, InHand
  <2>2. faults' = faults + 1 /\ (c # cid => cupsState'[c] = cupsState[c])
    BY <1>1, <1>3, <2>1, LostPageCompletes
  <2>3. c # cid => \E j \in JobId : cups_job_id[j] = c
    BY <1>1, <2>2 DEF LostInv, LostReplyIsContained
  <2> QED BY <2>1, <2>3
<1>4. CASE /\ ~SendLastPage
           /\ ~(SendFails /\ lastPage /\ CupsSend(cid, page, TRUE, TRUE))
  <2>1. cupsState[c] \in Queued /\ faults <= faults'
    BY <1>1, <1>4, ReleasedBefore
  <2>2. (InHand /\ cid = c) \/ \E j \in JobId : cups_job_id[j] = c
    BY <1>1, <2>1 DEF LostInv, LostReplyIsContained
  <2>3. cups_job_id' = cups_job_id
    BY <1>4 DEF Next, JobStep, SubmitStep, PollJob, vars, jobVars, Open, AddFile,
         CloseEmpty, Close, CancelSubmitted, CancelLocally, AllAtOnce,
         AllAtOnceRefused, PortsCancelJob, PortsCancelAllJobs, CreateJob,
         CreateJobFails, SubmitFailed, DetectFormat, SendPage, SendFails, AbortJob,
         PollStart, PollVanished, PollChanged, PollSame, PollEnd, ClientWrites, CupsStep
  <2>4. CASE AbortJob /\ InHand /\ cid = c
    <3>1. cupsUp
      BY <1>1, <2>1, <2>4 DEF LostInv
    <3>2. Cancellable(c)
      BY <2>1, <3>1 DEF Cancellable, Live
    <3>3. cupsState'[c] = "canceled"
      BY <2>4, <3>2 DEF AbortJob, CupsCancel
    <3> QED BY <3>3 DEF Queued
  <2>5. CASE InHand /\ ~AbortJob
    <3>1. ~(mode \in {"idle", "create", "poll"})
      BY <2>5 DEF InHand
    <3>2. InHand' /\ cid' = cid
      BY <1>4, <2>5, <3>1 DEF Next, JobStep, SubmitStep, PollJob, vars, loopVars, Open,
           AddFile, CloseEmpty, Close, CancelSubmitted, CancelLocally, AllAtOnce,
           AllAtOnceRefused, PortsCancelJob, PortsCancelAllJobs, CreateJob,
           CreateJobFails, DetectFormat, SendPage, SendFails, PollStart, PollVanished,
           PollChanged, PollSame, PollEnd, ClientWrites, CupsStep, InHand
    <3> QED BY <2>2, <2>3, <3>2
  <2> QED BY <2>2, <2>3, <2>4, <2>5
<1> QED BY <1>2, <1>3, <1>4

\* A reply that never arrives lets nothing loose: what CUPS queued or printed is a
\* whole job, and one fault alone leaves none of it unknown to the service.
THEOREM LostRepliesContained == Spec => []LostReplyIsContained
<1>1. Init => LostInv
  BY DEF Init, CupsInit, LostInv, LostReplyIsContained, Released, Queued, InHand
<1>2. IInv /\ LostInv /\ [Next]_vars => LostInv'
  <2>1. SUFFICES ASSUME IInv, LostInv, [Next]_vars PROVE LostInv'
    OBVIOUS
  <2>2. \A c \in CupsId : cupsState'[c] \in Released =>
           \E j \in JobId : Settled(j)' /\ cupsDocs'[c] = files'[j]
    BY <2>1, WholeStep
  <2>3. LostReplyIsContained'
    BY <2>1, <2>2, RecordStep DEF LostReplyIsContained, Released
  <2> QED BY <2>1, <2>2, <2>3, FaultStep DEF LostInv
<1>3. LostInv => LostReplyIsContained
  BY DEF LostInv
<1> QED BY <1>1, <1>2, <1>3, Invariance, PTL DEF Spec
=============================================================================
