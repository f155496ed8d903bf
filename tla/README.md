# Verification of the LuneOS print adapter

The adapter is one daemon between the luna bus and CUPS. It serves the webOS
printing API (`com.palm.printmgr`, categories `/printers` and `/jobs`) and the
Settings page's service (`org.webosports.service.print`), keeps a table of jobs and
a small database of printers, and translates everything else to libcups. This
directory holds TLA+ modules translated from `src/src/*.c`, the TLC instances that
check them, and TLAPS proofs for all values of their constants. `PROJECT.json` maps
each definition to the lines it stands for.

## 1. Inventory

| Part | Source | State | Operations |
|---|---|---|---|
| Job engine | `print_service.c` 603-769, 775-822, 1265-1532, 1690-1796; `job_manager.c` | job table (id, phase, files, CUPS id, last reported state), poll timer | open, addFile, close, cancel, allAtOnce; poll every second; the Settings page's cancelJob, cancelAllJobs |
| CUPS client, jobs | `cups_backend.c` 451-695 | none | create a job, send documents, cancel, ask for a state, sniff a file |
| Printer database | `printer_db.c` | a `GKeyFile` in memory and its file | add, delete, select, list; save after each change |
| Discovery and feeds | `print_service.c` 139-221, 227-261, 1810-1856, 1900-2096; `cups_backend.c` 156-220, 712-774 | `known_printers`, subscribers | browse every 5 s; printers/list; setCurrent, add, delete; listPrinters, addPrinter, removePrinter, setDefaultPrinter |
| Print parameters | `print_service.c` 824-1107, 1351-1390; `cups_backend.c` 389-449 | parameters of each job | editPrintParams, getCurrentPrintParams, getFinalParamsAndArea, getAreaForInsets, options of a submission |
| Printable area | `job_manager.c` 25-130, 157-248 | none | `job_compute_area` |
| Attribute maps | `param_map.c` | none | keyword tables both ways; job states; state reasons |
| Spool files | `job_manager.c` 250-281, 359-440; `print_service.c` 1171-1263 | files and directories under the spool root | newTempFile, resizeTempFile, freeing of a job |
| Job feeds, queue view | `print_service.c` 1534-1678, 1858-1957 | subscribers, render status | getStatus, getRenderStatus, setRenderStatus, listAll, listJobs |
| Daemon | `main.c`; `print_service.c` 2210-2342 | main loop | start, SIGTERM with a grace period, teardown, kill |
| Capabilities | `cups_backend.c` 222-387; `print_service.c` 500-596 | none | getCapabilities |
| Errors, luna plumbing | `print_errors.c`, `luna_service_utils.c` | none | wording, JSON, subscriptions of the bus |

**How they interact.** There is one thread, a GLib main loop. Handlers of both
services, the browse timer and the poll timer run in it one at a time, each to its
end. They share the job table and the database directly. Towards CUPS every call is
synchronous: while `cups_backend_submit` or `poll_jobs` is between two libcups calls
no other handler runs, but cupsd, other CUPS users, and the clients that own the
files go on. Towards clients the service posts to subscriptions; a post has no reply.

**What is hard here.** A submission is a dozen CUPS calls, each of which may fail or
lose its reply, over files that can change under it. The poll learns what happened
only by comparing, stops its own timer, and is started again by submissions. A cancel
can arrive from two services and race with CUPS ending the job. The browse is the
only source of truth about printers, while two services change queues and database
between browses, and saves may fail. Edits of the parameters are applied key by key
and refused half way. Page geometry is computed twice, in two units, from the same
insets. `PROJECT.json` lists these as hazards at their lines.

**What makes each part correct.** *Jobs*: a job is handed to CUPS completely or not
at all; no CUPS job of ours is left behind unwatched; the reported outcome is what
happened; subscribers always hear the end. *Database*: what was acknowledged
survives failed saves and restarts, one printer per address, no selection of a
deleted printer. *Discovery*: every subscriber's set of printers is that of the last
browse and eventually that of the world. *Parameters*: what was acknowledged is what
CUPS is asked for, and the page a client renders fits the request. *Spool files*: a
path belongs to one job of one run, and nothing is left after a stop. *Daemon*: the
signal is obeyed, and what it leaves in CUPS are whole jobs. *Capabilities*: what is
offered is accepted, has an area, and asks the printer for something it has.

## 2. Modules

| Module | Models | Extended or used by |
|---|---|---|
| `Cups` | cupsd as libcups shows it: job states, documents, outages, lost replies (external) | `PrintJobs` |
| `PrintJobs` | the job engine and the CUPS client's job calls | `Daemon`, proofs |
| `JobLifecycle` | abstract: what a client of `/jobs` is promised | `PrintJobs` (`ImplementsLifecycle`) |
| `Daemon` | signals, stop, kill around the job engine, and the queue view it feeds | proofs |
| `PrinterDb` | the key file, its saves, restarts | `MCPrinterDb`, proofs |
| `PrinterStore` | abstract: a durable list of printers and a selection | `PrinterDb` (`ImplementsStore`), `PrinterDirectory` (`UsesStore`) |
| `PrinterDirectory` | browse, feeds, both services' printer calls | `MCPrinterDirectory`, proofs |
| `ParamMap` | tables of `param_map.c` and scans over them | `PrintParams` |
| `PrintableArea` | `job_compute_area` and `media_dims` in exact integers | `PrintParams` |
| `PrintParams` | a job's parameters from open to the request | `Capabilities`, proofs |
| `Capabilities` | what getCapabilities makes of a printer, beside the parameters of a job | `MCPrintParams`, proofs |
| `SpoolFiles` | temporary files and directories of jobs, over runs of the daemon | proofs |
| `MC*` | instances for TLC | runs |
| `*Proofs` | TLAPS proofs | - |

### PrintJobs and Cups

Variables follow the code's fields: `phase`, `files`, `cups_job_id` and
`last_printer_state` are those of `struct print_job`, `poll_source` the timer id,
`reported` the last JOBSTATE event a subscriber of getStatus got for each job.
`mode` says where the thread is: `idle`, inside a submission (`create`, `detect`,
`send`, `abort`; `cur`, `cid`, `idx` are its locals), or inside a poll (`todo`,
`any_active`). A handler that touches only tables is one action. A submission and a
poll are one action per libcups call, and the actions of `Cups` (`CupsMoves`,
`CupsGoesDown`, ...) and `ClientWrites` may come between any two of them.

`Cups` lets each job move through the IPP states as cupsd does, be forgotten once
ended (aged out, or with its queue), and be cancelled by others. Each outage
and each lost reply counts as one of `MaxFaults`. A call the service refuses without
a change is a stuttering step. Page counters, time stamps, render status and the text
of `blockedReasons` are left out; they appear only in the wording of events.

### Daemon

`Daemon` extends `PrintJobs` with the life of the process (`life`; `terminating` is
`__terminated`) and the last listJobs payload (`queue`). `SignalHandler` and `Stop` come
between two handlers, since the signal and the grace timer are sources of the same main
loop; calls are served in between. `Crash` may come anywhere, also between two libcups
calls. `ports_post_jobs` is the last thing its callers do, so `ShowQueue` is part of the
end of a poll and of the Settings page's cancels. Jobs of other users are on that page
too and are left out. A run that ended keeps the last values of its variables, for the
properties to look at. A restarted run is `Init` with foreign CUPS jobs, hence not
modelled again here; what it finds in the database and the spool directory is in
`PrinterDb` and `SpoolFiles`.

### PrinterDb and PrinterStore

The key file is a function from group names to keys, the selection one more group
named `Settings`. Every operation saves the whole file. `Add` rolls back when the save
fails, which makes the failure a stuttering step; `Delete` and `SetCurrent` stay in
memory, so `disk' \in {disk, keyfile'}`. `g_key_file_save_to_file` renames a complete
file into place, so a crash shows the old or the new file: `Restart` may come at any
time and reads `disk`. `acked` records what clients were told. `ssid` is always
empty in the code (nothing assigns `s->ssid`) and is left out.

### PrinterDirectory

`dests` and `cupsUp` are the world, `known` the service's list, `feed[c]` what a
client makes of Add and Rmv events, `page` the last list of the Settings page. addPrinter
and removePrinter are an admin request and then a browse in the same handler
(`browseDue` keeps other handlers out, while the world goes on). The database is its list
and selection, with failing saves; `UsesStore` says that each step on it is one that
`PrinterStore` allows, so what `PrinterDb` implements is what the directory
relies on. (There is no restart in this module, so a change counts as saved there.) Ids stand for queue names after the folding of addPrinter.

### ParamMap, PrintableArea, PrintParams, Capabilities

`Edit` takes keys in the order of the handler and stops at the first bad value
(`Reached`), keeping what it assigned. `granted` holds for each key the values the client may
take it to have: what was last acknowledged, and what refused calls asked for since. Lengths
are integers in units of 1/1016 inch, which holds all sheets in inches and millimetres and
the hardware margin exactly; `Pixels` is `lround`. `Submit` is `build_cups_params` and `add_options`. The job engine's guards
(open jobs only) appear as `~submitted`. `AreaForInsets` is the what-if question
(getAreaForInsets), which changes nothing.

A printer of `Capabilities` is the set of values it reports for each IPP attribute.
`Caps` and `Offer` are functions of it, in the two steps of the code (backend, then
handler). `OfferIsHonoured` closes the circle: printer to offer by the reverse tables,
edits, submission by the forward ones, printer.

### SpoolFiles

`disk` and `dirs` are the spool root, `temp_files` and `temp_dir` the fields of each job.
A file is its job's id, its number and its extension, as in the path. `NewTempFile`
covers closed jobs too (the handler asks for no phase); `NoRoom` is the reservation that
fails after the file was made, and `Open` without a directory the `mkdir` that fails.
`Stop` is the destruction of the table, `Crash` its loss. `Start` counts jobs from 1 and
takes the spool root as it is, which `held` (paths given out by earlier runs) makes visible.
`strayFiles` and `strayDirs` record what a crash or a client of an earlier run left;
nothing reads them but `NothingLeaks`. A client of an earlier run can write into another
client's file: that is in the model (content `intruded`), the code promises nothing about it.
That a listed file has at most one owner follows from the job id in its path.

## 3. Runs

All runs are on small instances; sizes are distinct states.

| Run | Instance | Shows |
|---|---|---|
| `jobs` | 2 jobs, 2 pages, 1 CUPS job, 1 fault; 0.14 M | types, `NoUnwatchedJob`, `TruthfulOutcome`, `LostReplyIsContained`, `PollCoversSubmitted`, `FeedMatchesTable`, `FinalIsFinal`, `CallsRunOut` |
| `live` | 2 jobs, 1 page, 2 CUPS jobs, `FairSpec`; 73 k | the inductive invariant `IInv`, `EndedIsReported`, `PollQuiesces`, `LoopReturns` |
| `daemon` | 1 job, 2 pages of 2 files, 1 CUPS job, 1 fault, `DFairSpec`; 0.26 M | types, `HandoffComplete`, `IInv`, `ImplementsLifecycle`, `QuietPageIsEmpty`, `CleanStop`, `Terminates` |
| `vanished` | 1 job, 1 fault | violation of `DoneMeansOver`: an unreachable cupsd is taken for a finished job |
| `onchange` | 1 job | violation of `PostedOnChange`: a cancel after the poll posted DONE/Cancelled posts it again |
| `store` | 3 ids, 2 addresses | types, `UniqueAddresses`, `AckedIsListed`, `ImplementsStore` |
| `settings_group` | an id equal to `settings` | violation of `AckedIsListed` |
| `directory` | 2 ids, 2 addresses, 2 clients, `FairSpec`; 0.25 M | types, `FeedShowsKnown`, `PageShowsKnown`, `FeedCatchesUp`, `PageCatchesUp`, `UsesStore` |
| `removed` | same | violation of `RemovedIsNotCurrent` |
| `params` | up to four keys named by edits, four printers; 0.19 M | types, `AcceptedIsSent`, `PageFits`, `AreaIsRight`, `WhatIfComesTrue`, `OfferIsUsable`, `OfferIsHonoured` |
| `borderless` | up to two keys | violation of `NeverBothSent`: an acknowledged inset is sent as 0 after a refused edit |
| `spool` | 1 job, 3 files, 2 extensions, 2 starts; 78 k | types, `NothingLeaks`, `NoOldContent`, `HandedIsKept` |

**Why the bounds are enough.** *Jobs*: the poll treats jobs alike and a submission
concerns one job, so two jobs give every interleaving of a job with another one. The two
jobs are checked in two instances. In `jobs` they compete for one CUPS job, with a first
and a last page and a fault at any call; in `live` both are at CUPS at once, in one poll,
and nothing fails. `daemon` adds the second path (so pages may repeat) and the end of the process, for one
job that meets a fault. A retry with a second CUPS job beside an abandoned one needs two
CUPS jobs and a fault, which is in none of these; for the safety properties the proofs of
section 5 cover it, as they cover any number of everything. One fault already
separates what holds always from what holds while cupsd answers. `live` has none because its
properties ask fairness of the service only, which a fault does not touch. `daemon` has no
deadlock check: a daemon that stopped takes no more steps.
*Store*: three ids give a deleted, an unsaved and a new printer at once; two addresses
make every clash possible. *Directory*: two ids and two clients suffice for an id or
client that changes while another stays. *Params*: a refused edit, an edit over it,
and both partners of an exclusion fit in four keys; `AsksMany` has one keyword of each
kind the tables distinguish and bad values at each place in the order of checks. The four
printers are one that has everything, an office printer whose trays go by other names,
a photo printer, and a queue that answers nothing.
*Spool*: two starts let a run's leavings meet the next one; three files of a job let a kept one
follow a deleted one before the next is named, and two extensions tell a name from its number.
Jobs do not share a directory, so one is enough. The run has no deadlock check: after the
last start it may stop for good.
The bounds are constants (`MaxJobs`, `MaxFiles`, `MaxCups`, `MaxFaults`, `MaxKeys`,
`MaxTemps`, `MaxRuns`), and the proofs below hold for all values of those they concern.

**Fairness.** `PrintJobs!FairSpec` asks weak fairness of each step of a submission and of
a poll, because libcups calls return (they time out), and of the start of a poll, because
GLib dispatches an armed timer. Nothing is asked of cupsd, the clients, or any handler.
`Daemon!DFairSpec` asks the same of submissions and polls while the process runs, and strong
fairness of `Stop`: each handler disables it, but the due grace timer is dispatched in the
next iteration of the main loop along with the sources of equal priority.
`PrinterDirectory!FairSpec` asks weak fairness of the browse: its timer always returns
`G_SOURCE_CONTINUE`. What cupsd must do is a hypothesis of the property (`FeedCatchesUp`
speaks of destinations that stay while cupsd answers).

**Conditional properties.** `NoUnwatchedJob` and `TruthfulOutcome` hold up to the first
fault, as do `QuietPageIsEmpty` and `CleanStop`. After one they do not, and `vanished` shows the reason. `HandoffComplete`,
`ImplementsLifecycle` and `CallsRunOut` hold with faults as well (`daemon`, `jobs`).
`LostReplyIsContained` is about faults: that no part of a job gets printed holds with any
number of them; that no queued CUPS job is forgotten holds with one, because a second one
can keep the cancel of a half-sent job from cupsd. `AcceptedIsSent` speaks of insets in every state but
`InsetOverruled`, a refused edit's borderless over an acknowledged inset, and this
state is the one that `NeverBothSent` forbids and `borderless` reaches.
`OfferIsHonoured` leaves out the two aliased trays and, for borderless, the three margins the
code does not look at: there the code does send what the printer has not got.

## 4. Findings

1. *An unreachable cupsd ends jobs* (`print_service.c:699`). `cups_backend_get_job_state`
   answers `NULL` for "no such job" and for "no answer"; `poll_jobs` reports
   DONE/Success for both. The header promises `NULL` only for a job CUPS forgot.
2. *Repeated terminal events* (`print_service.c:1525`). jobs/cancel posts without
   comparing with the last reported state, which `job_manager.h:79` says is kept for that:
   a cancel of a job that the poll has just posted as DONE/Cancelled posts the same event again.
3. *A printer named "settings"* (`printer_db.c:147`) is saved, acknowledged, never listed.
4. *A removed queue stays selected* (`print_service.c:2052`) when the database does
   not have it, since the delete returns before it looks at the selection.
5. *Borderless beside insets* (`print_service.c:1019`). The combination is refused after
   it has been assigned. An inset that was acknowledged before is then beside a borderless
   page the client was refused, the job can be submitted so, and CUPS is asked for margins of 0.

## 5. Proofs

| Theorem (module) | Property | Assumes |
|---|---|---|
| `Invariance` (`PrintJobsProofs`) | `IInv` | `CupsAssumption`, `PrintJobsAssumption` |
| `TypeCorrect`, `NeverUnwatched`, `OutcomesAreTrue`, `HandoffIsComplete`, `LostRepliesContained`, `PollCovers`, `FeedAgrees` | the invariants of `jobs`, and `HandoffComplete` | same |
| `FinalStaysFinal`, `CallsAlwaysRunOut` | `FinalIsFinal`, `CallsRunOut` | same |
| `EngineImplementsLifecycle` (`LifecycleProofs`) | `ImplementsLifecycle` | same |
| `TypeCorrect`, `AddressesAreUnique`, `NothingAckedIsLost` (`PrinterDbProofs`) | the invariants of `store` | `NobodyAssumption`, no id is `Settings` |
| `DbImplementsStore` | `ImplementsStore` | same |
| `DaemonIsEngine` (`DaemonProofs`) | `DSpec => Spec` | `CupsAssumption`, `PrintJobsAssumption` |
| `DTypeCorrect`, `PageIsQuiet`, `StopIsClean`, `DaemonHandsOver` | the invariants of `daemon` | same |
| `DaemonImplementsLifecycle` | `ImplementsLifecycle` of the daemon | same |
| `TypeCorrect`, `FeedIsTheBrowse`, `PageIsTheBrowse` (`PrinterDirectoryProofs`) | the invariants of `directory` | `DirectoryAssumption` |
| `DirectoryUsesStore` | `UsesStore` | same |
| `ExtentIsRight`, `TypeCorrect`, `AreaAlwaysRight`, `PageAlwaysFits` (`PrintParamsProofs`) | `TypeOK`, `AreaIsRight`, `PageFits` | `ParamsAssumption`, `AsksAssumption` |
| `AcceptedAlwaysSent`, `WhatIfAlwaysComesTrue` | `AcceptedIsSent`, `WhatIfComesTrue` | same |
| `OfferAlwaysUsable`, `OfferAlwaysHonoured` (`CapabilitiesProofs`) | `OfferIsUsable`, `OfferIsHonoured` | same, and `PrintersAssumption` |
| `TypeCorrect`, `SpoolIsFreed`, `HandedOutFresh`, `OnlyTheNamedFile` (`SpoolFilesProofs`) | the properties of `spool` | `SpoolAssumption` |

**Job engine.** No invariant of interest is inductive alone. While a page is sent,
nothing in the job table says what CUPS holds, so `IInv` adds what the locals mean
(`SubmissionInv`: the CUPS job in hand belongs to nobody yet and holds exactly the pages
before `idx`), that a running poll asks about submitted jobs only and knows of all of
them (`PollInv`), that ids are handed out in order (`TableInv`), that what was handed over is
complete, released and owned once (`HandOverInv`), and that nothing is wrong with cupsd
before a fault (`CupsInv`). There is one lemma per conjunct, one step per action.
`LostReplyIsContained` needs beside it (`LostInv`) that only a last page releases a CUPS job, that
the files of the job it was sent for do not change afterwards (`Settled`), and that a released job
still in hand has cost a fault and an unanswered cancel another.
`LifecycleProofs` maps each action to a step of `JobLifecycle` or a stutter; only the last
page of a submission moves a job to `printing`.

**Daemon.** Every step of the daemon is one of the engine or leaves it alone, so `IInv` is an
invariant of `DSpec` too (`DaemonIsEngine`). `DInv` adds that the page is empty while the timer is
gone, and that a stopped process stands between two handlers. The page needs
`QuietMeansIdleCups`: with no timer and no submission under way nothing of ours is alive.

**Database.** `DbInv` is inductive as it stands, given the effect of each operation on the list
and the selection (`WithPrinterType`, `WithCurrentType`, `WithoutType`). These hold only
when no id is the name of the settings group: the hypothesis is the one that `settings_group`
refutes. The refinement proof shows that the three operations commute with `StoreOf`.

**Directory.** `FeedShowsKnown` needs `LeaversForget`: a client that left starts from nothing.
For `DirectoryUsesStore` each call is matched with the operation of `PrinterStore` it
stands for; browses, subscriptions and cupsd leave the store alone.

**Spool.** `NothingLeaks` is inductive with two more facts: a job that lists a file has its
directory, and nothing is listed while the process is down. A directory that the stop cannot
remove then holds a file no list names, which `NothingLeaks` knows as a stray one.
`OnlyTheNamedFile` rests on `NextIsNew`: the next number of a job is in no list, whatever
clients have deleted from the disk.

**Calls.** `CallsRunOut` is the part of `LoopReturns` that needs no fairness: `CallsLeft` counts
the libcups calls the thread may still make, each call lowers it, and no handler, client or
printer raises it meanwhile, because the handlers wait for `idle`. `CallsAreBounded` gives the
count in files and jobs.

**Parameters.** `ExtentIsRight` is arithmetic about two rounded divisions. The invariant is
`PInv`: the area a client was told and the request that was sent both come from the
parameters as they are, and these are among what the client may take them to be, which
never is borderless for sure beside an inset for sure (`GrantsKept`); it holds
because a submitted job takes no edit, and a refused edit adds all it named to what may be.
`PageFits` needs beside it that an
inset in hundredths of a millimetre never exceeds the clamped inset (`MarginBelowClamp`),
and that a keyword sent and read back names a sheet of the same size (`MediaRoundTrip`).
`AcceptedIsSent` follows from `GrantsKept` key by key; its margins need `MarginsOfGrants`, which
splits on whether an inset was ever set and whether the page is borderless, and the cut to
hundredths of a millimetre (`HundredthsCut`).
`WhatIfComesTrue` compares two calls of `job_compute_area`: parameters that
differ in nothing it looks at give the same page (`ExtentsAgree`), a side refused at one
resolution has two pixels at most at the other (`ExtentGone`), and `AcceptedIsOverlaid` says that
the answer to the question was computed from what the edit then assigns.

**Capabilities.** Both theorems rest on the tables too. Each name a printer reports is offered
under the keyword of its row, and by `NameRoundTrip` (no keyword stands in two rows) the keyword is sent as that name
(`OfferedIsSent`). Two tray keywords stand in two rows each, and a name of the second row is sent
as the one of the first: `OfferIsHonoured` sets these aliases apart, and `TrayIsSent` shows it for
the others. `OfferIsUsable` needs that each sheet offered has dimensions (`SheetsHaveDims`), no
smaller than the two hardware margins (`SheetsExceedMargins`), and that at least a pixel is left
between the margins at any resolution (`MarginsLeaveRoom`).

**Model-checked only.** The liveness properties (`EndedIsReported`, `PollQuiesces`,
`LoopReturns`, `FeedCatchesUp`, `PageCatchesUp`, `Terminates`): fairness and `ENABLED` are
beyond the prover. Every invariant, action property and refinement a passing run checks is
proved.

## 6. Not modelled, and the plan

Done so far: the modules above, in the order jobs, database, directory, parameters,
spool files, daemon, capabilities; the composition of the directory with the store.
What is left:

1. The error a refused resizeTempFile is answered with: every job is asked, and a later
   job's "not in any job" overwrites what the owner said.
2. Proofs of the safety half of the other liveness properties, as `CallsRunOut` is for
   `LoopReturns`: that a fresh browse brings each feed to the world at once, and that a
   poll after the last job has ended takes the timer away.

A module of the per-client feeds was planned and dropped. getStatus, getRenderStatus and
setRenderStatus relay an event to whoever is subscribed at that moment and keep nothing
for a late one, which `print_service.c:1551` states as the intention; the stream
itself is `reported` of `PrintJobs`, and listAll reads the table. What remains is the bus.

Hazards that no property covers, and why: the reasons of a blocked job are posted only
when its state changes, and nothing promises later ones; a printer whose resolution differs
by direction is asked for the first number in both, and what becomes of that is decided in
the printer; isSupported means any one of three formats, and nothing compares a page with it;
insets that are no numbers or too large for an `int` are outside the exact arithmetic; a
subscriber that comes after the last event is told nothing, by design; a subscriber of
printers/list keeps the first record of an id, since events compare ids only; finished jobs
stay in the table, and nothing bounds them before the daemon stops.

Left out for good: the wording of errors and replies, JSON access and the bus
(`print_errors.c`, `luna_service_utils.c`), logging, the map of state reasons to
`blockedReasons`, floating-point effects where a length meets half a pixel (the
exact model takes the upper pixel), insets beyond the range of `int`, names and
descriptions, build and permission files.
