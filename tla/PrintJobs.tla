----------------------------- MODULE PrintJobs ------------------------------
(***************************************************************************)
(* The job engine of the adapter: the /jobs handlers that open, fill,       *)
(* close, cancel and submit a job, the poll timer that turns CUPS states    *)
(* into the webOS status stream, and the Settings page's cancel calls.      *)
(*                                                                          *)
(* The daemon has one thread.  A handler that only touches its own tables   *)
(* is one step.  Submission and the poll make a synchronous libcups call    *)
(* per step, and between two of them the rest of the world moves: cupsd,    *)
(* the other CUPS users, and the clients that own the files.  mode says     *)
(* where the thread is; a handler starts only when it is "idle".            *)
(*                                                                          *)
(* A call the service refuses without touching its state is a stuttering    *)
(* step and has no action.                                                  *)
(***************************************************************************)
EXTENDS Cups, Integers, FiniteSets, SequencesExt

CONSTANTS
    MaxJobs,     \* bound: jobs opened in one run of the daemon
    MaxFiles     \* bound: files of a job

ASSUME PrintJobsAssumption ==
    /\ MaxJobs \in Nat
    /\ MaxFiles \in Nat \ {0}

JobId == 1 .. MaxJobs
NoCupsJob == -1

VARIABLES
    next_job_id,
    phase,               \* "none" before open, "removed" once freed
    files,               \* pages in order
    cups_job_id,
    last_printer_state,  \* "none" stands for NULL
    poll_source,         \* the poll timer is armed
    mode,                \* what the main loop is in the middle of
    cur, via,            \* job being submitted, and the method doing it
    cid, idx,            \* its CUPS job, and the page to send next
    todo, any_active,    \* jobs the running poll has still to ask about
    file,                \* what each path holds, as seen by stat and the sniffer
    reported             \* last JOBSTATE event posted for each job

jobVars  == <<next_job_id, phase, files, cups_job_id, last_printer_state>>
loopVars == <<mode, cur, via, cid, idx, todo, any_active>>
vars == <<cupsVars, jobVars, loopVars, reported, poll_source, file>>

Phases == {"none", "open", "submitted", "done", "cancelled", "removed"}
\* "doc" passes the format sniffer, "junk" (empty or unknown) does not.
FileKinds == {"doc", "junk", "absent"}
Reports ==
    { [state |-> s, outcome |-> "none"] : s \in {"none", "QUEUED", "RUNNING", "BLOCKED"} }
    \cup { [state |-> "DONE", outcome |-> o] : o \in {"Success", "Error", "Cancelled"} }
NoReport == [state |-> "none", outcome |-> "none"]

TypeOK ==
    /\ CupsTypeOK
    /\ next_job_id \in 1 .. MaxJobs + 1
    /\ phase \in [JobId -> Phases]
    /\ files \in [JobId -> Seq(Path)]
    /\ cups_job_id \in [JobId -> CupsId \cup {NoCupsJob}]
    /\ last_printer_state \in [JobId -> {"none", "QUEUED", "RUNNING", "BLOCKED", "DONE"}]
    /\ poll_source \in BOOLEAN
    /\ mode \in {"idle", "create", "detect", "send", "abort", "poll"}
    /\ cur \in JobId \cup {0}
    /\ via \in {"close", "allAtOnce"}
    /\ cid \in CupsId \cup {NoCupsJob}
    /\ idx \in Nat \ {0}
    /\ todo \in SUBSET JobId
    /\ any_active \in BOOLEAN
    /\ file \in [Path -> FileKinds]
    /\ reported \in [JobId -> Reports]

Init ==
    /\ CupsInit
    /\ next_job_id = 1
    /\ phase = [j \in JobId |-> "none"]
    /\ files = [j \in JobId |-> << >>]
    /\ cups_job_id = [j \in JobId |-> NoCupsJob]
    /\ last_printer_state = [j \in JobId |-> "none"]
    /\ poll_source = FALSE
    /\ mode = "idle" /\ cur = 0 /\ via = "close" /\ cid = NoCupsJob /\ idx = 1
    /\ todo = {} /\ any_active = FALSE
    /\ file \in [Path -> FileKinds]
    /\ reported = [j \in JobId |-> NoReport]

-----------------------------------------------------------------------------
(* Status stream.                                                           *)

\* Mutant: an aborted job counts as printed.
TranslateAbortedIsSuccess(s) ==
    CASE s = "processing" -> [state |-> "RUNNING", outcome |-> "none"]
      [] s = "stopped"    -> [state |-> "BLOCKED", outcome |-> "none"]
      [] s = "canceled"   -> [state |-> "DONE", outcome |-> "Cancelled"]
      [] s \in {"aborted", "completed"} -> [state |-> "DONE", outcome |-> "Success"]
      [] OTHER            -> [state |-> "QUEUED", outcome |-> "none"]

\* Mutant: an aborted job gets no jobStatus.
TranslateAbortedWithoutStatus(s) ==
    CASE s = "processing" -> [state |-> "RUNNING", outcome |-> "none"]
      [] s = "stopped"    -> [state |-> "BLOCKED", outcome |-> "none"]
      [] s = "canceled"   -> [state |-> "DONE", outcome |-> "Cancelled"]
      [] s = "aborted"    -> [state |-> "DONE", outcome |-> "none"]
      [] s = "completed"  -> [state |-> "DONE", outcome |-> "Success"]
      [] OTHER            -> [state |-> "QUEUED", outcome |-> "none"]

\* IPP job-state to webOS printerState and jobStatus.
Translate(s) ==
    CASE s = "processing" -> [state |-> "RUNNING", outcome |-> "none"]
      [] s = "stopped"    -> [state |-> "BLOCKED", outcome |-> "none"]
      [] s = "canceled"   -> [state |-> "DONE", outcome |-> "Cancelled"]
      [] s = "aborted"    -> [state |-> "DONE", outcome |-> "Error"]
      [] s = "completed"  -> [state |-> "DONE", outcome |-> "Success"]
      [] OTHER            -> [state |-> "QUEUED", outcome |-> "none"]

Done(outcome) == [state |-> "DONE", outcome |-> outcome]

PostJobState(j, r) == reported' = [reported EXCEPT ![j] = r]

\* Mutant: only jobs/close arms the timer.
EnsurePollingFromCloseOnly == poll_source' = (poll_source \/ via = "close")

\* The timer is armed unless it already is.
EnsurePolling == poll_source' = TRUE

-----------------------------------------------------------------------------
(* Handlers that neither wait for CUPS nor loop.                            *)

\* jobs/open
Open ==
    /\ mode = "idle"
    /\ next_job_id \in JobId
    /\ phase' = [phase EXCEPT ![next_job_id] = "open"]
    /\ next_job_id' = next_job_id + 1
    /\ UNCHANGED <<cupsVars, files, cups_job_id, last_printer_state,
                   loopVars, reported, poll_source, file>>

\* jobs/addFile: the file must exist, hold something and be printable now.
AddFile(j, p) ==
    /\ mode = "idle"
    /\ phase[j] = "open"
    /\ file[p] = "doc"
    /\ Len(files[j]) < MaxFiles
    /\ files' = [files EXCEPT ![j] = Append(@, p)]
    /\ UNCHANGED <<cupsVars, next_job_id, phase, cups_job_id, last_printer_state,
                   loopVars, reported, poll_source, file>>

\* Mutant: nobody is told.
CloseEmptySilently(j) ==
    /\ mode = "idle"
    /\ phase[j] = "open"
    /\ files[j] = << >>
    /\ phase' = [phase EXCEPT ![j] = "done"]
    /\ UNCHANGED <<cupsVars, next_job_id, files, cups_job_id, last_printer_state,
                   loopVars, reported, poll_source, file>>

\* jobs/close of a job without pages: tidied up without CUPS.
CloseEmpty(j) ==
    /\ mode = "idle"
    /\ phase[j] = "open"
    /\ files[j] = << >>
    /\ phase' = [phase EXCEPT ![j] = "done"]
    /\ PostJobState(j, Done("Success"))
    /\ UNCHANGED <<cupsVars, next_job_id, files, cups_job_id, last_printer_state,
                   loopVars, poll_source, file>>

BeginSubmit(j, method) ==
    /\ mode' = "create"
    /\ cur' = j
    /\ via' = method
    /\ cid' = NoCupsJob
    /\ idx' = 1
    /\ UNCHANGED <<todo, any_active>>

\* jobs/close of a job with pages: the submission starts.
Close(j) ==
    /\ mode = "idle"
    /\ phase[j] = "open"
    /\ files[j] # << >>
    /\ BeginSubmit(j, "close")
    /\ UNCHANGED <<cupsVars, jobVars, reported, poll_source, file>>

\* jobs/allAtOnce with every file printable: open, add all, start submitting.
AllAtOnce(paths) ==
    /\ mode = "idle"
    /\ next_job_id \in JobId
    /\ \A i \in DOMAIN paths : file[paths[i]] = "doc"
    /\ phase' = [phase EXCEPT ![next_job_id] = "open"]
    /\ files' = [files EXCEPT ![next_job_id] = paths]
    /\ next_job_id' = next_job_id + 1
    /\ BeginSubmit(next_job_id, "allAtOnce")
    /\ UNCHANGED <<cupsVars, cups_job_id, last_printer_state, reported,
                   poll_source, file>>

\* jobs/allAtOnce with a bad file: the job it opened is freed again.
AllAtOnceRefused(paths) ==
    /\ mode = "idle"
    /\ next_job_id \in JobId
    /\ \E i \in DOMAIN paths : file[paths[i]] # "doc"
    /\ phase' = [phase EXCEPT ![next_job_id] = "removed"]
    /\ next_job_id' = next_job_id + 1
    /\ UNCHANGED <<cupsVars, files, cups_job_id, last_printer_state,
                   loopVars, reported, poll_source, file>>

\* Mutant: the job stays submitted after its cancel was reported.
CancelSubmittedKeepsPhase(j) ==
    /\ mode = "idle"
    /\ phase[j] = "submitted"
    /\ cups_job_id[j] > 0
    /\ Cancellable(cups_job_id[j])
    /\ CupsCancel({cups_job_id[j]})
    /\ PostJobState(j, Done("Cancelled"))
    /\ UNCHANGED <<jobVars, loopVars, poll_source, file>>

\* jobs/cancel of a submitted job: CUPS has to accept the cancel first.
CancelSubmitted(j) ==
    /\ mode = "idle"
    /\ phase[j] = "submitted"
    /\ cups_job_id[j] > 0
    /\ Cancellable(cups_job_id[j])
    /\ CupsCancel({cups_job_id[j]})
    /\ phase' = [phase EXCEPT ![j] = "cancelled"]
    /\ PostJobState(j, Done("Cancelled"))
    /\ UNCHANGED <<next_job_id, files, cups_job_id, last_printer_state,
                   loopVars, poll_source, file>>

\* jobs/cancel of any other job of the table, finished ones included.
CancelLocally(j) ==
    /\ mode = "idle"
    /\ phase[j] \in {"open", "done", "cancelled"}
    /\ phase' = [phase EXCEPT ![j] = "cancelled"]
    /\ PostJobState(j, Done("Cancelled"))
    /\ UNCHANGED <<cupsVars, next_job_id, files, cups_job_id, last_printer_state,
                   loopVars, poll_source, file>>

\* Settings page cancelJob: by CUPS job id, behind the job table's back.
PortsCancelJob(c) ==
    /\ mode = "idle"
    /\ Cancellable(c)
    /\ CupsCancel({c})
    /\ UNCHANGED <<jobVars, loopVars, reported, poll_source, file>>

\* Settings page cancelAllJobs: one call per active job, results ignored, so
\* any of them may have ended or failed by the time its turn comes.
PortsCancelAllJobs ==
    /\ mode = "idle"
    /\ \E S \in SUBSET {c \in CupsId : Cancellable(c)} : CupsCancel(S)
    /\ UNCHANGED <<jobVars, loopVars, reported, poll_source, file>>

-----------------------------------------------------------------------------
(* Submission: cups_backend_submit under submit_job, one libcups call per   *)
(* step.                                                                    *)

\* submit_job returns: its locals and those of cups_backend_submit are gone.
EndSubmit ==
    /\ mode' = "idle"
    /\ cur' = 0
    /\ via' = "close"
    /\ cid' = NoCupsJob
    /\ idx' = 1
    /\ UNCHANGED <<todo, any_active>>

\* Mutant: jobs/close leaves the job open after it reported the error.
SubmitFailedLeavesOpen ==
    /\ phase' = [phase EXCEPT ![cur] = IF via = "close" THEN @ ELSE "removed"]
    /\ PostJobState(cur, Done("Error"))
    /\ EndSubmit
    /\ UNCHANGED <<next_job_id, files, cups_job_id, last_printer_state,
                   poll_source, file>>

\* The error path of the two callers of submit_job.
SubmitFailed ==
    /\ phase' = [phase EXCEPT ![cur] = IF via = "close" THEN "done" ELSE "removed"]
    /\ PostJobState(cur, Done("Error"))
    /\ EndSubmit
    /\ UNCHANGED <<next_job_id, files, cups_job_id, last_printer_state,
                   poll_source, file>>

CreateJob(c) ==
    /\ mode = "create"
    /\ CupsCreate(c, FALSE)
    /\ cid' = c
    /\ mode' = "detect"
    /\ UNCHANGED <<jobVars, cur, via, idx, todo, any_active, reported,
                   poll_source, file>>

\* cupsCreateJob returns no id: refused, or created and the reply lost.
CreateJobFails ==
    /\ mode = "create"
    /\ \/ UNCHANGED cupsVars
       \/ \E c \in CupsId : CupsCreate(c, TRUE)
    /\ SubmitFailed

page == files[cur][idx]

\* Mutant: the page before the last one is already flagged as the last.
lastPageOffByOne == idx + 1 >= Len(files[cur])

lastPage == idx = Len(files[cur])

\* Sniff the page again: it may have changed since it was added.
DetectFormat ==
    /\ mode = "detect"
    /\ mode' = IF file[page] = "doc" THEN "send" ELSE "abort"
    /\ UNCHANGED <<cupsVars, jobVars, cur, via, cid, idx, todo, any_active,
                   reported, poll_source, file>>

\* Mutant: the loop goes round without moving on to the next file.
SendPageAgain ==
    /\ mode = "send"
    /\ ~lastPage
    /\ file[page] # "absent"
    /\ CupsSend(cid, page, FALSE, FALSE)
    /\ mode' = "detect"
    /\ UNCHANGED <<jobVars, cur, via, cid, idx, todo, any_active, reported,
                   poll_source, file>>

SendPage ==
    /\ mode = "send"
    /\ ~lastPage
    /\ file[page] # "absent"
    /\ CupsSend(cid, page, FALSE, FALSE)
    /\ idx' = idx + 1
    /\ mode' = "detect"
    /\ UNCHANGED <<jobVars, cur, via, cid, todo, any_active, reported,
                   poll_source, file>>

\* The last page releases the job; submit_job records it and arms the poll.
SendLastPage ==
    /\ mode = "send"
    /\ lastPage
    /\ file[page] # "absent"
    /\ CupsSend(cid, page, TRUE, FALSE)
    /\ cups_job_id' = [cups_job_id EXCEPT ![cur] = cid]
    /\ phase' = [phase EXCEPT ![cur] = "submitted"]
    /\ PostJobState(cur, [state |-> "QUEUED", outcome |-> "none"])
    /\ last_printer_state' = [last_printer_state EXCEPT ![cur] = "QUEUED"]
    /\ EnsurePolling
    /\ EndSubmit
    /\ UNCHANGED <<next_job_id, files, file>>

\* The file is gone, the document is refused, or it was taken and the reply lost.
SendFails ==
    /\ mode = "send"
    /\ \/ UNCHANGED cupsVars
       \/ /\ file[page] # "absent"
          /\ CupsSend(cid, page, lastPage, TRUE)
    /\ mode' = "abort"
    /\ UNCHANGED <<jobVars, cur, via, cid, idx, todo, any_active, reported,
                   poll_source, file>>

\* Mutant: the failure is reported and the half-sent job left in CUPS.
AbortJobKeepsIt ==
    /\ mode = "abort"
    /\ UNCHANGED cupsVars
    /\ SubmitFailed

\* Take the half-sent job back; the result of the cancel is not looked at.
AbortJob ==
    /\ mode = "abort"
    /\ IF Cancellable(cid) THEN CupsCancel({cid}) ELSE UNCHANGED cupsVars
    /\ SubmitFailed

-----------------------------------------------------------------------------
(* The poll timer.                                                          *)

PollStart ==
    /\ mode = "idle"
    /\ poll_source
    /\ mode' = "poll"
    /\ todo' = {j \in JobId : phase[j] = "submitted"}
    /\ any_active' = (todo' # {})
    /\ UNCHANGED <<cupsVars, jobVars, cur, via, cid, idx, reported,
                   poll_source, file>>

\* cups_backend_get_job_state finds no such job, or nobody to ask.
JobVanished(j) == ~cupsUp \/ cupsState[cups_job_id[j]] = "forgotten"

PollVanished(j) ==
    /\ mode = "poll"
    /\ j \in todo
    /\ JobVanished(j)
    /\ todo' = todo \ {j}
    /\ phase' = [phase EXCEPT ![j] = "done"]
    /\ PostJobState(j, Done("Success"))
    /\ UNCHANGED <<cupsVars, next_job_id, files, cups_job_id, last_printer_state,
                   mode, cur, via, cid, idx, any_active, poll_source, file>>

\* The state changed since it was last reported: post it, and retire the job
\* when it is a terminal one.
PollChanged(j) ==
    LET r == Translate(cupsState[cups_job_id[j]])
    IN  /\ mode = "poll"
        /\ j \in todo
        /\ ~JobVanished(j)
        /\ r.state # last_printer_state[j]
        /\ todo' = todo \ {j}
        /\ PostJobState(j, r)
        /\ last_printer_state' = [last_printer_state EXCEPT ![j] = r.state]
        /\ phase' = IF r.state = "DONE" THEN [phase EXCEPT ![j] = "done"] ELSE phase
        /\ UNCHANGED <<cupsVars, next_job_id, files, cups_job_id,
                       mode, cur, via, cid, idx, any_active, poll_source, file>>

\* Mutant: the loop never leaves a job whose state did not change.
PollSameStays(j) ==
    /\ mode = "poll"
    /\ j \in todo
    /\ ~JobVanished(j)
    /\ Translate(cupsState[cups_job_id[j]]).state = last_printer_state[j]
    /\ UNCHANGED vars

\* Nothing new to report about this job.
PollSame(j) ==
    /\ mode = "poll"
    /\ j \in todo
    /\ ~JobVanished(j)
    /\ Translate(cupsState[cups_job_id[j]]).state = last_printer_state[j]
    /\ todo' = todo \ {j}
    /\ UNCHANGED <<cupsVars, jobVars, mode, cur, via, cid, idx, any_active,
                   reported, poll_source, file>>

\* Mutant: the timer source is always kept.
PollEndAlwaysContinues ==
    /\ mode = "poll"
    /\ todo = {}
    /\ mode' = "idle"
    /\ any_active' = FALSE
    /\ UNCHANGED <<cupsVars, jobVars, cur, via, cid, idx, todo,
                   poll_source, reported, file>>

\* G_SOURCE_REMOVE once nothing was in flight when the poll began.
PollEnd ==
    /\ mode = "poll"
    /\ todo = {}
    /\ mode' = "idle"
    /\ poll_source' = any_active
    /\ any_active' = FALSE
    /\ UNCHANGED <<cupsVars, jobVars, cur, via, cid, idx, todo, reported, file>>

-----------------------------------------------------------------------------
(* The clients own the files and may write or remove them at any time.      *)
ClientWrites(p) ==
    /\ \E k \in FileKinds \ {file[p]} : file' = [file EXCEPT ![p] = k]
    /\ UNCHANGED <<cupsVars, jobVars, loopVars, reported, poll_source>>

CupsStep ==
    /\ \/ \E c \in CupsId : CupsMoves(c)
       \/ CupsGoesDown
       \/ CupsComesBack
    /\ UNCHANGED <<jobVars, loopVars, reported, poll_source, file>>

PathLists == BoundedSeq(Path, MaxFiles) \ {<< >>}

JobStep(j) ==
    \/ \E p \in Path : AddFile(j, p)
    \/ CloseEmpty(j)
    \/ Close(j)
    \/ CancelSubmitted(j)
    \/ CancelLocally(j)

SubmitStep ==
    \/ \E c \in CupsId : CreateJob(c)
    \/ CreateJobFails
    \/ DetectFormat
    \/ SendPage
    \/ SendLastPage
    \/ SendFails
    \/ AbortJob

PollJob(j) == PollVanished(j) \/ PollChanged(j) \/ PollSame(j)

Next ==
    \/ Open
    \/ \E j \in JobId : JobStep(j)
    \/ \E paths \in PathLists : AllAtOnce(paths) \/ AllAtOnceRefused(paths)
    \/ \E c \in CupsId : PortsCancelJob(c)
    \/ PortsCancelAllJobs
    \/ SubmitStep
    \/ PollStart
    \/ \E j \in JobId : PollJob(j)
    \/ PollEnd
    \/ \E p \in Path : ClientWrites(p)
    \/ CupsStep

Spec == Init /\ [][Next]_vars

(***************************************************************************)
(* Every libcups call returns (they carry timeouts), the main loop goes on  *)
(* to the next page or job, and GLib dispatches the armed timer once the    *)
(* loop is free.  Clients, files and the printers owe the service nothing.  *)
(***************************************************************************)
Fairness ==
    /\ WF_vars(SubmitStep)
    /\ WF_vars(PollStart)
    /\ WF_vars(\E j \in JobId : PollJob(j))
    /\ WF_vars(PollEnd)

FairSpec == Spec /\ Fairness

-----------------------------------------------------------------------------
(* Safety.                                                                  *)

InHand == mode \in {"detect", "send", "abort"}

\* c is the CUPS job of a submission under way, or of a job the poll asks about.
Watched(c) ==
    \/ InHand /\ cid = c
    \/ \E j \in JobId : phase[j] = "submitted" /\ cups_job_id[j] = c

\* As long as cupsd answered every call, no CUPS job of ours is live behind the
\* service's back: every error path of the submission took its half-sent job
\* back, and a job leaves the poll only when CUPS is through with it.
NoUnwatchedJob ==
    faults = 0 => \A c \in CupsId : cupsState[c] \in Live => Watched(c)

\* What the CUPS job of a job reported DONE may be: an outcome says what became
\* of it, unless CUPS has forgotten it; a late jobs/cancel overwrites any outcome.
OverAs(outcome) ==
    {"forgotten"} \cup (IF outcome = "Success" THEN {"completed"}
                       ELSE IF outcome = "Error" THEN {"aborted"}
                       ELSE Ended)

\* The terminal event tells the truth about the CUPS job, across the poll, the
\* cancels of both services and the moves of cupsd, while cupsd answers.
TruthfulOutcome ==
    \A j \in JobId :
        faults = 0 /\ cups_job_id[j] # NoCupsJob /\ reported[j].state = "DONE"
            => cupsState[cups_job_id[j]] \in OverAs(reported[j].outcome)

\* What CUPS holds for a job submit_job recorded is every page of it, once and
\* in order, and CUPS was told that the last one is the last; whatever
\* the clients did to the files and whatever calls failed on the way.
HandoffComplete ==
    \A j \in JobId :
        phase[j] = "submitted" =>
            /\ cupsDocs[cups_job_id[j]] = files[j]
            /\ cupsState[cups_job_id[j]] \notin {"none", "incoming"}

\* A lost reply lets nothing loose, whether the service took note of the CUPS job
\* or not.  What CUPS has queued or printed is every page of a job, never a part;
\* and with one fault alone, what it has queued is on record or in the hands of a
\* submission that is going to cancel it.
LostReplyIsContained ==
    \A c \in CupsId :
        /\ cupsState[c] \in Queued \cup {"completed"} => \E j \in JobId : cupsDocs[c] = files[j]
        /\ faults <= 1 /\ cupsState[c] \in Queued =>
              (InHand /\ cid = c) \/ \E j \in JobId : cups_job_id[j] = c

\* A submitted job is never left without a timer that will ask about it, though
\* the timer removes itself when it finds nothing in flight.
PollCoversSubmitted ==
    (\E j \in JobId : phase[j] = "submitted") => poll_source

\* The status stream agrees with the job table: submit_job, the poll, both
\* failure paths and jobs/cancel each write the two in their own order.
FeedMatchesTable ==
    \A j \in JobId :
        /\ phase[j] \in {"none", "open"} => reported[j] = NoReport
        /\ phase[j] = "submitted" =>
              /\ reported[j].state = last_printer_state[j]
              /\ reported[j].state \notin {"none", "DONE"}
        /\ phase[j] = "done"      => reported[j].state = "DONE"
        /\ phase[j] = "cancelled" => reported[j] = Done("Cancelled")
        /\ phase[j] = "removed"   => reported[j] \in {NoReport, Done("Error")}

\* Once a subscriber was told that a job is DONE, no step takes that back: not
\* the poll, not a submission.  Only jobs/cancel may still change the outcome.
FinalIsFinal ==
    [][\A j \in JobId :
          reported[j].state = "DONE" /\ reported'[j] # reported[j]
              => reported'[j] = Done("Cancelled") /\ phase'[j] = "cancelled"]_vars

\* The libcups calls the submission or the poll under way may still make.
CallsLeft ==
    CASE mode = "create" -> 2 * Len(files[cur]) + 2
      [] mode = "detect" -> 2 * (Len(files[cur]) - idx) + 3
      [] mode = "send"   -> 2 * (Len(files[cur]) - idx) + 2
      [] mode = "abort"  -> 1
      [] mode = "poll"   -> Cardinality(todo)
      [] OTHER           -> 0

\* Each call a submission or a poll makes brings it nearer to its end, whatever
\* comes in between: no retry, no job or page added behind the loop's back.
CallsRunOut ==
    [][mode # "idle" =>
          \/ CallsLeft' < CallsLeft
          \/ CallsLeft = 0 /\ mode' = "idle"
          \/ UNCHANGED <<jobVars, loopVars, reported, poll_source>>]_vars

-----------------------------------------------------------------------------
(* Why the safety properties hold: they are inductive together with what the *)
(* following parts say of the states in between.                            *)

Submitting == mode \in {"create", "detect", "send", "abort"}

\* The half-sent job belongs to an open job only, holds exactly the pages sent
\* so far, and there is always a page left to send.
SubmissionInv ==
    /\ Submitting => cur \in JobId /\ phase[cur] = "open"
    /\ mode = "create" => idx = 1
    /\ mode \in {"create", "detect", "send"} => idx <= Len(files[cur])
    /\ InHand =>
          /\ cid \in CupsId
          /\ cupsState[cid] # "none"
          /\ \A j \in JobId : cups_job_id[j] # cid
    /\ mode \in {"detect", "send"} =>
          /\ Len(cupsDocs[cid]) = idx - 1
          /\ \A i \in 1 .. idx - 1 : cupsDocs[cid][i] = files[cur][i]

\* A running poll asks about submitted jobs only and knows whether there is one.
PollInv ==
    mode = "poll" =>
        /\ \A j \in todo : phase[j] = "submitted"
        /\ (\E j \in JobId : phase[j] = "submitted") => any_active

\* Ids are handed out in order, and a job has a CUPS job from its hand-over on.
TableInv ==
    \A j \in JobId :
        /\ phase[j] = "none" <=> j >= next_job_id
        /\ phase[j] \in {"none", "open", "removed"} => cups_job_id[j] = NoCupsJob
        /\ phase[j] = "submitted" => cups_job_id[j] # NoCupsJob

\* What was handed over is complete, released, and the job's own.
HandOverInv ==
    \A j \in JobId :
        cups_job_id[j] # NoCupsJob =>
            /\ cupsState[cups_job_id[j]] \notin {"none", "incoming"}
            /\ cupsDocs[cups_job_id[j]] = files[j]
            /\ \A k \in JobId : cups_job_id[k] = cups_job_id[j] => k = j

\* Nothing is wrong with cupsd before the first fault, and a new job is empty.
CupsInv ==
    /\ faults = 0 => cupsUp
    /\ \A c \in CupsId : cupsState[c] = "none" => cupsDocs[c] = << >>

IInv ==
    /\ TypeOK
    /\ SubmissionInv
    /\ PollInv
    /\ TableInv
    /\ HandOverInv
    /\ CupsInv
    /\ FeedMatchesTable
    /\ PollCoversSubmitted
    /\ NoUnwatchedJob
    /\ TruthfulOutcome

-----------------------------------------------------------------------------
(* The abstract view: the submission, a dozen steps here, is one step there. *)

StageOf ==
    [none |-> "unused", open |-> "open", submitted |-> "printing",
     done |-> "ended", cancelled |-> "ended", removed |-> "freed"]

Stage == [j \in JobId |-> StageOf[phase[j]]]
Paper == [j \in JobId |-> IF cups_job_id[j] = NoCupsJob THEN << >>
                         ELSE cupsDocs[cups_job_id[j]]]
Verdict == [j \in JobId |-> reported[j].outcome]

Lifecycle == INSTANCE JobLifecycle WITH
    Job <- JobId, stage <- Stage, pages <- files, paper <- Paper, verdict <- Verdict

\* Every behaviour of the engine is one of JobLifecycle: the half-sent jobs, the
\* poll and the outages never show.
ImplementsLifecycle == Lifecycle!Spec

-----------------------------------------------------------------------------
(* Liveness, under FairSpec.                                                *)

\* A client waiting for the terminal event gets it: a submitted job CUPS is
\* through with does not stay submitted, whatever other submissions and other
\* jobs of the same poll do.
EndedIsReported ==
    \A j \in JobId :
        (phase[j] = "submitted" /\ cupsState[cups_job_id[j]] \notin Live)
            ~> reported[j].state = "DONE"

\* poll_jobs "only runs while something is in flight": when nothing is, for
\* good, the timer goes away for good.
PollQuiesces ==
    <>[](\A j \in JobId : phase[j] # "submitted") => <>[]~poll_source

\* Neither the page loop of cups_backend_submit nor the job loop of poll_jobs
\* keeps the main loop forever.
LoopReturns == mode # "idle" ~> mode = "idle"

-----------------------------------------------------------------------------
(* What the sources say and the code does not do.                           *)

\* print_service.c: "A submitted job that has vanished finished".  Then DONE is
\* never reported for a job that CUPS still has to print.
DoneMeansOver ==
    \A j \in JobId :
        cups_job_id[j] # NoCupsJob /\ reported[j].state = "DONE"
            => cupsState[cups_job_id[j]] \notin Live

\* job_manager.h: "we only post subscriptions on change".  Then no event of a job
\* that a poll or a cancel posts is the one before it over again.
PostedOnChange ==
    [][\A j \in JobId :
          PollVanished(j) \/ PollChanged(j) \/ CancelSubmitted(j) \/ CancelLocally(j)
              => reported'[j] # reported[j]]_vars
=============================================================================
