----------------------------- MODULE SpoolFiles -----------------------------
(***************************************************************************)
(* The temporary files of jobs: newTempFile, resizeTempFile, the freeing of  *)
(* jobs, and the spool directory over stops, crashes and restarts.          *)
(*                                                                          *)
(* A file is named by its job, its place in the job's list and the extension *)
(* the client asked for.  Job ids start at 1 in every run of the daemon, so a *)
(* run meets the directories and files of the runs before it, and clients    *)
(* that still write to paths they were given then.                          *)
(***************************************************************************)
EXTENDS Naturals, Sequences, Functions

CONSTANTS
    Ext,         \* file extensions
    MaxJobs,     \* bound: jobs opened in one run
    MaxTemps,    \* bound: temporary files of a job
    MaxRuns      \* bound: runs of the daemon

ASSUME SpoolAssumption == MaxJobs \in Nat /\ MaxTemps \in Nat /\ MaxRuns \in Nat \ {0}

JobId == 1 .. MaxJobs
File == JobId \X (1 .. MaxTemps) \X Ext
DirOf(f) == f[1]

VARIABLES
    up,            \* the daemon runs
    run,           \* how often it was started
    next_job_id,
    temp_files,    \* job of the table -> its list
    temp_dir,      \* jobs of the table that have a directory
    disk,          \* file -> what is in it
    dirs,          \* directories on the disk
    held,          \* files clients of earlier runs were given
    strayFiles,    \* on the disk, and not made by this run
    strayDirs

table == <<next_job_id, temp_files, temp_dir>>
spool == <<disk, dirs>>
strays == <<strayFiles, strayDirs>>
vars == <<up, run, table, spool, held, strays>>

Listed == UNION {{temp_files[j][i] : i \in DOMAIN temp_files[j]} : j \in DOMAIN temp_files}

\* Nothing yet; by a client it was given to; of an earlier run; by a client of an
\* earlier run that has not noticed.
Contents == {"empty", "own", "old", "intruded"}

TypeOK ==
    /\ up \in BOOLEAN
    /\ run \in 1 .. MaxRuns
    /\ next_job_id \in 1 .. MaxJobs + 1
    /\ DOMAIN temp_files \subseteq 1 .. next_job_id - 1
    /\ \A j \in DOMAIN temp_files :
          /\ Len(temp_files[j]) <= MaxTemps
          /\ \A i \in DOMAIN temp_files[j] : \E x \in Ext : temp_files[j][i] = <<j, i, x>>
    /\ temp_dir \subseteq DOMAIN temp_files
    /\ DOMAIN disk \subseteq File
    /\ \A f \in DOMAIN disk : disk[f] \in Contents
    /\ dirs \subseteq JobId
    /\ \A f \in DOMAIN disk : DirOf(f) \in dirs
    /\ held \subseteq File
    /\ strayFiles \subseteq DOMAIN disk
    /\ strayDirs \subseteq dirs

Init ==
    /\ up = TRUE
    /\ run = 1
    /\ next_job_id = 1
    /\ temp_files = << >>
    /\ temp_dir = {}
    /\ disk = << >>
    /\ dirs = {}
    /\ held = {}
    /\ strayFiles = {}
    /\ strayDirs = {}

-----------------------------------------------------------------------------

Put(f, content) == [g \in DOMAIN disk \cup {f} |-> IF g = f THEN content ELSE disk[g]]
Gone(F) == Restrict(disk, DOMAIN disk \ F)

\* job_manager_open, of jobs/open or an allAtOnce that goes well; an existing
\* directory is as good as a new one, and the job does without one if need be.
Open ==
    LET j == next_job_id
    IN  /\ up
        /\ j <= MaxJobs
        /\ next_job_id' = j + 1
        /\ temp_files' = [k \in DOMAIN temp_files \cup {j} |->
                             IF k = j THEN << >> ELSE temp_files[k]]
        /\ \/ /\ temp_dir' = temp_dir \cup {j}
              /\ dirs' = dirs \cup {j}
              /\ strayDirs' = strayDirs \ {j}
           \/ UNCHANGED <<temp_dir, dirs, strayDirs>>
        /\ UNCHANGED <<up, run, disk, held, strayFiles>>

\* Mutant: the directory is removed before the files.
FreedDirFirst(J, left) == {d \in J \cap temp_dir : \A f \in DOMAIN disk : DirOf(f) # d}

\* job_free of the jobs J: the directories it can remove when the files left are
\* those in left.
Freed(J, left) == {d \in J \cap temp_dir : \A f \in left : DirOf(f) # d}

\* jobs/allAtOnce that fails: the job is opened and freed again.
AllAtOnceFails ==
    LET j == next_job_id
    IN  /\ up
        /\ j <= MaxJobs
        /\ next_job_id' = j + 1
        /\ IF \E f \in DOMAIN disk : DirOf(f) = j
           THEN UNCHANGED <<dirs, strayDirs>>
           ELSE /\ dirs' = dirs \ {j}
                /\ strayDirs' = strayDirs \ {j}
        /\ UNCHANGED <<up, run, temp_files, temp_dir, disk, held, strayFiles>>

\* Mutant: numbers start at 0.
PlaceFromZero(j) == Len(temp_files[j])

\* Mutant: the number is that of the files there are, not of those handed out.
PlaceByDirectory(j) == 1 + Len(SelectSeq(temp_files[j], LAMBDA f : f \in DOMAIN disk))

\* The number in the name of the next file of job j.
Place(j) == Len(temp_files[j]) + 1

\* Mutant: a file that could not be reserved is left behind.
NoRoomLeavesFile(f) ==
    /\ disk' = Put(f, "empty")
    /\ strayFiles' = strayFiles \ {f}
    /\ UNCHANGED temp_files

\* The file is made, and the reservation fails: it goes again.
NoRoom(f) ==
    /\ disk' = Gone({f})
    /\ strayFiles' = strayFiles \ {f}
    /\ UNCHANGED temp_files

\* Mutant: opened for appending.
HandOutAppends(f) ==
    /\ disk' = Put(f, IF f \in DOMAIN disk THEN disk[f] ELSE "empty")
    /\ strayFiles' = strayFiles \ {f}
    /\ temp_files' = [temp_files EXCEPT ![f[1]] = Append(@, f)]

\* The file is made, or one of that name emptied, and listed.
HandOut(f) ==
    /\ disk' = Put(f, "empty")
    /\ strayFiles' = strayFiles \ {f}
    /\ temp_files' = [temp_files EXCEPT ![f[1]] = Append(@, f)]

\* jobs/newTempFile, of any job, closed ones included.
NewTempFile(j, x) ==
    /\ up
    /\ j \in temp_dir
    /\ Len(temp_files[j]) < MaxTemps
    /\ LET f == <<j, Place(j), x>>
       IN  HandOut(f) \/ NoRoom(f)
    /\ UNCHANGED <<up, run, next_job_id, temp_dir, dirs, held, strayDirs>>

\* jobs/resizeTempFile to no length at all; any other length keeps the content.
Resize(f) ==
    /\ up
    /\ f \in Listed \cap DOMAIN disk
    /\ disk' = Put(f, "empty")
    /\ UNCHANGED <<up, run, table, dirs, held, strays>>

\* job_manager_free, on the way out.
Stop ==
    LET left == DOMAIN disk \ Listed
        gone == Freed(DOMAIN temp_files, left)
    IN  /\ up
        /\ up' = FALSE
        /\ disk' = Gone(Listed)
        /\ dirs' = dirs \ gone
        /\ strayDirs' = strayDirs \ gone
        /\ strayFiles' = strayFiles \ Listed
        /\ held' = held \cup Listed
        /\ temp_files' = << >>
        /\ temp_dir' = {}
        /\ UNCHANGED <<run, next_job_id>>

-----------------------------------------------------------------------------
(* The clients; the process ends without a word; systemd starts it again.   *)

ClientWrites(f) ==
    /\ f \in Listed \cap DOMAIN disk
    /\ disk' = Put(f, "own")
    /\ UNCHANGED <<up, run, table, dirs, held, strays>>

ClientDeletes(f) ==
    /\ f \in Listed \cap DOMAIN disk
    /\ disk' = Gone({f})
    /\ strayFiles' = strayFiles \ {f}
    /\ UNCHANGED <<up, run, table, dirs, held, strayDirs>>

\* A client that was given f by an earlier run opens it for writing.
OldClientWrites(f) ==
    /\ f \in held
    /\ DirOf(f) \in dirs
    /\ disk' = Put(f, "intruded")
    /\ strayFiles' = IF f \in DOMAIN disk THEN strayFiles ELSE strayFiles \cup {f}
    /\ UNCHANGED <<up, run, table, dirs, held, strayDirs>>

Crash ==
    /\ up
    /\ up' = FALSE
    /\ held' = held \cup Listed
    /\ temp_files' = << >>
    /\ temp_dir' = {}
    /\ strayFiles' = DOMAIN disk
    /\ strayDirs' = dirs
    /\ UNCHANGED <<run, next_job_id, spool>>

\* job_manager_new: the spool root is taken as it is.
Start ==
    /\ ~up
    /\ run < MaxRuns
    /\ up' = TRUE
    /\ run' = run + 1
    /\ next_job_id' = 1
    /\ disk' = [f \in DOMAIN disk |-> "old"]
    /\ UNCHANGED <<temp_files, temp_dir, dirs, held, strays>>

Next ==
    \/ Open
    \/ AllAtOnceFails
    \/ \E j \in DOMAIN temp_files, x \in Ext : NewTempFile(j, x)
    \/ \E f \in Listed : Resize(f) \/ ClientWrites(f) \/ ClientDeletes(f)
    \/ \E f \in held : OldClientWrites(f)
    \/ Stop
    \/ Crash
    \/ Start

Spec == Init /\ [][Next]_vars

-----------------------------------------------------------------------------

\* Every file and directory of the spool belongs to a job that will free it,
\* unless a crash or a client of an earlier run left it there: through calls that
\* fail half way, files that clients delete themselves, names met again after a
\* restart, and the stop.
NothingLeaks ==
    /\ DOMAIN disk \subseteq Listed \cup strayFiles
    /\ dirs \subseteq temp_dir \cup strayDirs \cup {DirOf(f) : f \in strayFiles}

\* A client finds in its file what it wrote: nothing that an earlier run left under
\* that name.
NoOldContent == \A f \in Listed \cap DOMAIN disk : disk[f] # "old"

\* While the daemon runs, only clients change the files they were given: no call
\* for another file, job or end of a job touches them.
HandedIsKept ==
    [][\A f \in Listed \cap DOMAIN disk :
          \/ f \in DOMAIN disk' /\ disk'[f] = disk[f]
          \/ Resize(f) \/ ClientWrites(f) \/ ClientDeletes(f) \/ OldClientWrites(f)
          \/ Stop]_vars
=============================================================================
