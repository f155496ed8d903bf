--------------------------- MODULE LifecycleProofs --------------------------
(***************************************************************************)
(* The job engine implements JobLifecycle: every step of PrintJobs is a     *)
(* step of the abstract life of one job, or invisible there.                *)
(***************************************************************************)
EXTENDS PrintJobsProofs

\* The refinement mapping, value by value.
LEMMA StageValues ==
    /\ StageOf["none"] = "unused"
    /\ StageOf["open"] = "open"
    /\ StageOf["submitted"] = "printing"
    /\ StageOf["done"] = "ended"
    /\ StageOf["cancelled"] = "ended"
    /\ StageOf["removed"] = "freed"
BY DEF StageOf

\* A step that moves one job moves the abstract stage of that job.
LEMMA StageStep ==
    ASSUME TypeOK, NEW j \in JobId, NEW ph \in Phases,
           phase' = [phase EXCEPT ![j] = ph]
    PROVE  Stage' = [Stage EXCEPT ![j] = StageOf[ph]]
BY DEF Stage, TypeOK

\* What was handed over for a job is out of everybody's reach.
LEMMA PaperStep ==
    ASSUME IInv, [Next]_vars, UNCHANGED cups_job_id
    PROVE  Paper' = Paper
<1>1. \A c \in CupsId : NoReturn(c)
  BY OneCall, CupsMonotone DEF IInv, TypeOK
<1>2. ASSUME NEW j \in JobId, cups_job_id[j] # NoCupsJob
      PROVE  cupsDocs'[cups_job_id[j]] = cupsDocs[cups_job_id[j]]
  BY <1>1, <1>2 DEF IInv, TypeOK, HandOverInv, NoReturn
<1>3. QED BY <1>2 DEF Paper

LEMMA VerdictStep ==
    ASSUME TypeOK, NEW j \in JobId, NEW r, PostJobState(j, r)
    PROVE  Verdict' = [Verdict EXCEPT ![j] = r.outcome]
BY DEF Verdict, PostJobState, TypeOK

LEMMA LifecycleInit ==
    ASSUME Init
    PROVE  Lifecycle!Init
BY StageValues DEF Init, Lifecycle!Init, Stage, Paper, Verdict, NoReport

LEMMA LifecycleStep ==
    ASSUME IInv, [Next]_vars
    PROVE  Lifecycle!Next \/ UNCHANGED Lifecycle!vars
<1>. USE StageValues DEF IInv, jobVars
<1>1. TypeOK
  OBVIOUS
<1>2. ASSUME UNCHANGED <<phase, files, cups_job_id, reported>>
      PROVE  UNCHANGED Lifecycle!vars
  BY <1>2, PaperStep DEF Lifecycle!vars, Stage, Verdict
<1>3. ASSUME \/ DetectFormat \/ SendPage \/ SendFails \/ PollStart \/ PollEnd
             \/ PortsCancelAllJobs \/ CupsStep \/ UNCHANGED vars
             \/ \E c \in CupsId : PortsCancelJob(c) \/ CreateJob(c)
             \/ \E p \in Path : ClientWrites(p)
             \/ \E j \in JobId : Close(j) \/ PollSame(j)
      PROVE  UNCHANGED <<phase, files, cups_job_id, reported>>
  BY <1>3 DEF DetectFormat, SendPage, SendFails, PollStart, PollEnd, CupsStep,
       PortsCancelAllJobs, vars, PortsCancelJob, CreateJob, ClientWrites, Close,
       PollSame
<1>4. next_job_id \in JobId => phase[next_job_id] = "none" /\ Stage[next_job_id] = "unused"
  BY DEF TableInv, TypeOK, JobId, Stage
<1>5. ASSUME \/ Open
             \/ \E paths \in PathLists : AllAtOnce(paths)
      PROVE  Lifecycle!Opens(next_job_id) /\ next_job_id \in JobId
  <2>1. /\ next_job_id \in JobId
        /\ phase' = [phase EXCEPT ![next_job_id] = "open"]
        /\ UNCHANGED <<cups_job_id, reported>>
    BY <1>5 DEF Open, AllAtOnce
  <2>2. /\ Stage' = [Stage EXCEPT ![next_job_id] = "open"]
        /\ Paper' = Paper /\ Verdict' = Verdict
    BY <1>1, <2>1, StageStep, PaperStep DEF Phases, Verdict
  <2>3. /\ files'[next_job_id] \in Seq(Path)
        /\ files' = [files EXCEPT ![next_job_id] = files'[next_job_id]]
    BY <1>5, <2>1, PathListsAreSequences DEF Open, AllAtOnce, TypeOK
  <2>4. QED BY <1>4, <2>1, <2>2, <2>3 DEF Lifecycle!Opens, Lifecycle!Moves
<1>6. ASSUME NEW paths \in PathLists, AllAtOnceRefused(paths)
      PROVE  Lifecycle!Frees(next_job_id) /\ next_job_id \in JobId
  <2>1. /\ next_job_id \in JobId
        /\ phase' = [phase EXCEPT ![next_job_id] = "removed"]
        /\ UNCHANGED <<files, cups_job_id, reported>>
    BY <1>6 DEF AllAtOnceRefused
  <2>2. /\ Stage' = [Stage EXCEPT ![next_job_id] = "freed"]
        /\ Paper' = Paper /\ Verdict' = Verdict
    BY <1>1, <2>1, StageStep, PaperStep DEF Phases, Verdict
  <2>3. Verdict' = [Verdict EXCEPT ![next_job_id] = "none"]
    BY <1>4, <2>1, <2>2 DEF FeedMatchesTable, NoReport, Verdict
  <2>4. QED BY <1>4, <2>1, <2>2, <2>3 DEF Lifecycle!Frees, Lifecycle!Moves
<1>7. ASSUME NEW j \in JobId, NEW p \in Path, AddFile(j, p)
      PROVE  Lifecycle!AddsPage(j)
  <2>1. UNCHANGED <<phase, cups_job_id, reported>> /\ Stage[j] = "open"
    BY <1>7 DEF AddFile, Stage
  <2>2. Stage' = Stage /\ Paper' = Paper /\ Verdict' = Verdict
    BY <2>1, PaperStep DEF Stage, Verdict
  <2>3. QED BY <1>7, <2>1, <2>2 DEF AddFile, Lifecycle!AddsPage
<1>8. ASSUME NEW j \in JobId, NEW o \in {"Success", "Error", "Cancelled"},
             NEW ph \in {"done", "cancelled"},
             phase[j] \in {"open", "submitted"},
             phase' = [phase EXCEPT ![j] = ph],
             Verdict' = [Verdict EXCEPT ![j] = o],
             UNCHANGED <<files, cups_job_id>>
      PROVE  Lifecycle!Ends(j)
  <2>1. Stage' = [Stage EXCEPT ![j] = "ended"] /\ Paper' = Paper
    BY <1>1, <1>8, StageStep, PaperStep DEF Phases
  <2>2. Stage[j] \in {"open", "printing"}
    BY <1>8 DEF Stage
  <2>3. QED
    BY <1>8, <2>1, <2>2 DEF Lifecycle!Ends, Lifecycle!Moves, Lifecycle!Verdicts
<1>9. ASSUME NEW j \in JobId, CloseEmpty(j) \/ PollVanished(j)
      PROVE  Lifecycle!Ends(j)
  <2>1. /\ phase[j] \in {"open", "submitted"}
        /\ phase' = [phase EXCEPT ![j] = "done"]
        /\ PostJobState(j, Done("Success"))
        /\ UNCHANGED <<files, cups_job_id>>
    BY <1>9 DEF CloseEmpty, PollVanished, PollInv
  <2>2. Verdict' = [Verdict EXCEPT ![j] = "Success"]
    BY <1>1, <2>1, VerdictStep DEF Done
  <2>3. QED BY <1>8, <2>1, <2>2
<1>10. ASSUME NEW j \in JobId, PollChanged(j)
       PROVE  Lifecycle!Ends(j) \/ UNCHANGED Lifecycle!vars
  <2> DEFINE r == Translate(cupsState[cups_job_id[j]])
  <2>1. /\ phase[j] = "submitted" /\ PostJobState(j, r)
        /\ phase' = IF r.state = "DONE" THEN [phase EXCEPT ![j] = "done"] ELSE phase
        /\ UNCHANGED <<files, cups_job_id>>
    BY <1>10 DEF PollChanged, PollInv
  <2>2. Verdict' = [Verdict EXCEPT ![j] = r.outcome]
    BY <1>1, <2>1, VerdictStep
  <2>3. CASE r.state = "DONE"
    <3>1. r.outcome \in {"Success", "Error", "Cancelled"}
      BY <2>3, TranslateDone
    <3>2. QED BY <1>8, <2>1, <2>2, <2>3, <3>1
  <2>4. CASE r.state # "DONE"
    <3>1. r.outcome = "none"
      BY <2>4 DEF Translate
    <3>2. Verdict[j] = "none"
      BY <1>1, <2>1 DEF FeedMatchesTable, Reports, TypeOK, Verdict
    <3>3. Verdict' = Verdict /\ phase' = phase
      BY <2>1, <2>2, <2>4, <3>1, <3>2 DEF Verdict
    <3>4. QED BY <2>1, <3>3, PaperStep DEF Lifecycle!vars, Stage
  <2>5. QED BY <2>3, <2>4
<1>11. ASSUME NEW j \in JobId, CancelSubmitted(j) \/ CancelLocally(j)
       PROVE  Lifecycle!Ends(j) \/ Lifecycle!CancelsLate(j)
  <2>1. /\ phase[j] \in {"open", "submitted", "done", "cancelled"}
        /\ phase' = [phase EXCEPT ![j] = "cancelled"]
        /\ PostJobState(j, Done("Cancelled"))
        /\ UNCHANGED <<files, cups_job_id>>
    BY <1>11 DEF CancelSubmitted, CancelLocally
  <2>2. Verdict' = [Verdict EXCEPT ![j] = "Cancelled"]
    BY <1>1, <2>1, VerdictStep DEF Done
  <2>3. CASE phase[j] \in {"open", "submitted"}
    BY <1>8, <2>1, <2>2, <2>3
  <2>4. CASE phase[j] \in {"done", "cancelled"}
    <3>1. Stage' = [Stage EXCEPT ![j] = "ended"] /\ Paper' = Paper
      BY <1>1, <2>1, StageStep, PaperStep DEF Phases
    <3>2. Stage[j] = "ended"
      BY <2>4 DEF Stage
    <3>3. Stage' = Stage
      BY <3>1, <3>2 DEF Stage
    <3>4. QED BY <2>1, <2>2, <3>1, <3>2, <3>3 DEF Lifecycle!CancelsLate
  <2>5. QED BY <2>1, <2>3, <2>4
<1>12. ASSUME CreateJobFails \/ AbortJob
       PROVE  cur \in JobId /\ (Lifecycle!Ends(cur) \/ Lifecycle!Frees(cur))
  <2>1. /\ SubmitFailed /\ cur \in JobId /\ phase[cur] = "open"
    BY <1>12 DEF CreateJobFails, AbortJob, SubmissionInv, Submitting
  <2>2. /\ phase' = [phase EXCEPT ![cur] = "done"]
           \/ phase' = [phase EXCEPT ![cur] = "removed"]
        /\ UNCHANGED <<files, cups_job_id>>
    BY <2>1 DEF SubmitFailed
  <2>3. Verdict' = [Verdict EXCEPT ![cur] = "Error"]
    BY <1>1, <2>1, VerdictStep DEF SubmitFailed, Done
  <2>4. CASE phase' = [phase EXCEPT ![cur] = "done"]
    BY <1>8, <2>1, <2>2, <2>3, <2>4
  <2>5. CASE phase' = [phase EXCEPT ![cur] = "removed"]
    <3>1. Stage' = [Stage EXCEPT ![cur] = "freed"] /\ Paper' = Paper
      BY <1>1, <2>1, <2>2, <2>5, StageStep, PaperStep DEF Phases
    <3>2. Stage[cur] = "open"
      BY <2>1 DEF Stage
    <3>3. QED
      BY <2>1, <2>2, <2>3, <3>1, <3>2 DEF Lifecycle!Frees, Lifecycle!Moves
  <2>6. QED BY <2>1, <2>2, <2>4, <2>5
<1>13. ASSUME SendLastPage
       PROVE  cur \in JobId /\ Lifecycle!HandsOver(cur)
  <2>1. /\ cur \in JobId /\ phase[cur] = "open"
        /\ cid \in CupsId /\ \A j \in JobId : cups_job_id[j] # cid
        /\ cupsDocs'[cid] = files[cur] /\ files[cur] # << >>
    BY <1>1, <1>13, LastPageCompletes
  <2>2. /\ phase' = [phase EXCEPT ![cur] = "submitted"]
        /\ cups_job_id' = [cups_job_id EXCEPT ![cur] = cid]
        /\ PostJobState(cur, [state |-> "QUEUED", outcome |-> "none"])
        /\ UNCHANGED files
    BY <1>13 DEF SendLastPage
  <2>3. Stage' = [Stage EXCEPT ![cur] = "printing"] /\ Stage[cur] = "open"
    BY <1>1, <2>1, <2>2, StageStep DEF Phases, Stage
  <2>4. Verdict' = Verdict
    <3>1. Verdict' = [Verdict EXCEPT ![cur] = "none"]
      BY <1>1, <2>1, <2>2, VerdictStep
    <3>2. Verdict[cur] = "none"
      BY <2>1 DEF FeedMatchesTable, NoReport, Verdict
    <3>3. QED BY <3>1, <3>2 DEF Verdict
  <2>5. Paper' = [Paper EXCEPT ![cur] = files[cur]]
    <3>1. cups_job_id'[cur] = cid /\ cid # NoCupsJob
      BY <2>1, <2>2 DEF TypeOK, NoCupsJob, CupsId
    <3>2. ASSUME NEW j \in JobId, j # cur PROVE Paper'[j] = Paper[j]
      <4>1. cups_job_id'[j] = cups_job_id[j]
        BY <2>2, <3>2 DEF TypeOK
      <4>2. ASSUME cups_job_id[j] # NoCupsJob
            PROVE  cupsDocs'[cups_job_id[j]] = cupsDocs[cups_job_id[j]]
        BY <4>2, OneCall, CupsMonotone DEF TypeOK, HandOverInv, NoReturn
      <4>3. QED BY <4>1, <4>2 DEF Paper
    <3>3. QED BY <2>1, <3>1, <3>2 DEF Paper
  <2>6. QED
    BY <2>1, <2>2, <2>3, <2>4, <2>5 DEF Lifecycle!HandsOver, Lifecycle!Moves
<1>14. QED
  BY <1>2, <1>3, <1>5, <1>6, <1>7, <1>9, <1>10, <1>11, <1>12, <1>13
     DEF Next, JobStep, SubmitStep, PollJob, Lifecycle!Next

\* The half-sent jobs, the poll and the outages never show: to a client the
\* engine is the abstract job life.
THEOREM EngineImplementsLifecycle == Spec => ImplementsLifecycle
<1>1. Init => Lifecycle!Init
  BY LifecycleInit
<1>2. IInv /\ [Next]_vars => [Lifecycle!Next]_(Lifecycle!vars)
  BY LifecycleStep
<1>3. QED
  BY <1>1, <1>2, Invariance, PTL DEF Spec, ImplementsLifecycle, Lifecycle!Spec
=============================================================================
