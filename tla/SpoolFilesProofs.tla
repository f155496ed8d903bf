--------------------------- MODULE SpoolFilesProofs ---------------------------
(***************************************************************************)
(* Proofs about SpoolFiles, for any number of jobs, files, extensions and    *)
(* runs: nothing is left behind, nobody reads what an earlier run wrote, and *)
(* no call touches the file of another.                                     *)
(***************************************************************************)
EXTENDS SpoolFiles, TLAPS

\* The invariant of the spool.  A job with files has its directory, and nothing of
\* the table survives the process.
SpoolInv ==
    /\ TypeOK
    /\ NothingLeaks
    /\ NoOldContent
    /\ \A j \in DOMAIN temp_files : temp_files[j] \in Seq(File)
    /\ \A f \in Listed : DirOf(f) \in temp_dir
    /\ temp_dir \subseteq dirs
    /\ ~up => temp_files = << >>

LEMMA ListedIff ==
    ASSUME NEW f
    PROVE  f \in Listed <=> \E j \in DOMAIN temp_files :
                               \E i \in DOMAIN temp_files[j] : f = temp_files[j][i]
BY DEF Listed

LEMMA EmptyTable == temp_files = << >> => DOMAIN temp_files = {} /\ Listed = {}
BY DEF Listed

\* A listed file is where its path says.
LEMMA ListedWhere ==
    ASSUME SpoolInv, NEW f \in Listed
    PROVE  /\ f \in File
           /\ DirOf(f) \in DOMAIN temp_files
           /\ f[2] \in DOMAIN temp_files[DirOf(f)]
<1>1. PICK j \in DOMAIN temp_files : \E i \in DOMAIN temp_files[j] : f = temp_files[j][i]
  BY ListedIff
<1>2. PICK i \in DOMAIN temp_files[j] : f = temp_files[j][i]
  BY <1>1
<1>3. PICK x \in Ext : f = <<j, i, x>>
  BY <1>2 DEF SpoolInv, TypeOK
<1>4. temp_files[j] \in Seq(File)
  BY DEF SpoolInv
<1>5. f \in File
  BY <1>2, <1>4
<1> QED  BY <1>2, <1>3, <1>5 DEF DirOf

\* A file with the next number of its job is new to every list.
LEMMA NextIsNew ==
    ASSUME SpoolInv, NEW j \in DOMAIN temp_files, NEW x \in Ext
    PROVE  <<j, Place(j), x>> \notin Listed
<1>1. temp_files[j] \in Seq(File)
  BY DEF SpoolInv
<1>2. Place(j) \notin DOMAIN temp_files[j]
  BY <1>1 DEF Place
<1> QED  BY <1>2, ListedWhere DEF DirOf

LEMMA GoneType ==
    ASSUME NEW F
    PROVE  /\ DOMAIN Gone(F) = DOMAIN disk \ F
           /\ \A g \in DOMAIN disk \ F : Gone(F)[g] = disk[g]
BY DEF Gone, Restrict

\* What handing out a file does to the lists.
LEMMA HandOutLists ==
    ASSUME SpoolInv, NEW j \in temp_dir, NEW x \in Ext, Len(temp_files[j]) < MaxTemps,
           temp_files' = [temp_files EXCEPT ![j] = Append(@, <<j, Place(j), x>>)]
    PROVE  /\ <<j, Place(j), x>> \in File
           /\ DOMAIN temp_files' = DOMAIN temp_files
           /\ \A k \in DOMAIN temp_files : temp_files'[k] \in Seq(File)
           /\ \A k \in DOMAIN temp_files :
                 /\ Len(temp_files'[k]) <= MaxTemps
                 /\ \A i \in DOMAIN temp_files'[k] : \E y \in Ext : temp_files'[k][i] = <<k, i, y>>
           /\ Listed' = Listed \cup {<<j, Place(j), x>>}
<1> DEFINE f == <<j, Place(j), x>>
           s == temp_files[j]
<1>1. j \in DOMAIN temp_files /\ j \in JobId
  BY DEF SpoolInv, TypeOK, JobId
<1>2. s \in Seq(File) /\ Len(s) \in Nat
  BY <1>1 DEF SpoolInv
<1>3. f \in File
  BY <1>1, <1>2, SpoolAssumption DEF Place, File
<1>4. /\ Append(s, f) \in Seq(File)
      /\ Len(Append(s, f)) = Len(s) + 1
      /\ DOMAIN Append(s, f) = DOMAIN s \cup {Len(s) + 1}
      /\ Append(s, f)[Len(s) + 1] = f
      /\ \A i \in DOMAIN s : Append(s, f)[i] = s[i]
  BY <1>2, <1>3
<1>5. /\ DOMAIN temp_files' = DOMAIN temp_files
      /\ temp_files'[j] = Append(s, f)
      /\ \A k \in DOMAIN temp_files \ {j} : temp_files'[k] = temp_files[k]
  BY <1>1
<1>6. ASSUME NEW k \in DOMAIN temp_files
      PROVE  /\ temp_files'[k] \in Seq(File)
             /\ Len(temp_files'[k]) <= MaxTemps
             /\ \A i \in DOMAIN temp_files'[k] : \E y \in Ext : temp_files'[k][i] = <<k, i, y>>
  <2>1. CASE k # j
    BY <1>5, <2>1 DEF SpoolInv, TypeOK
  <2>2. CASE k = j
    <3>1. \A i \in DOMAIN s : \E y \in Ext : s[i] = <<j, i, y>>
      BY <1>1 DEF SpoolInv, TypeOK
    <3>2. f = <<j, Len(s) + 1, x>>
      BY DEF Place
    <3>3. Len(s) + 1 <= MaxTemps
      BY <1>2, SpoolAssumption
    <3> QED  BY <1>4, <1>5, <2>2, <3>1, <3>2, <3>3
  <2> QED  BY <2>1, <2>2
<1>7. Listed' = Listed \cup {f}
  <2>1. ASSUME NEW g PROVE g \in Listed' <=> g \in Listed \cup {f}
    <3>1. g \in Listed' <=> \E k \in DOMAIN temp_files :
                               \E i \in DOMAIN temp_files'[k] : g = temp_files'[k][i]
      BY <1>5 DEF Listed
    <3>2. ASSUME NEW k \in DOMAIN temp_files, NEW i \in DOMAIN temp_files'[k],
                 g = temp_files'[k][i]
          PROVE  g \in Listed \cup {f}
      BY <1>4, <1>5, <3>2, ListedIff
    <3>3. ASSUME NEW k \in DOMAIN temp_files, NEW i \in DOMAIN temp_files[k],
                 g = temp_files[k][i]
          PROVE  g \in Listed'
      BY <1>4, <1>5, <3>1, <3>3
    <3>4. f \in Listed'
      <4>1. Len(s) + 1 \in DOMAIN temp_files'[j] /\ temp_files'[j][Len(s) + 1] = f
        BY <1>4, <1>5
      <4> QED  BY <1>1, <1>5, <4>1 DEF Listed
    <3> QED  BY <3>1, <3>2, <3>3, <3>4, ListedIff
  <2> QED  BY <2>1
<1> QED  BY <1>3, <1>5, <1>6, <1>7

-----------------------------------------------------------------------------

LEMMA SpoolInvInit == Init => SpoolInv
<1>. SUFFICES ASSUME Init PROVE SpoolInv
  OBVIOUS
<1>1. DOMAIN temp_files = {} /\ Listed = {} /\ DOMAIN disk = {}
  BY EmptyTable DEF Init
<1> QED  BY <1>1, SpoolAssumption DEF Init, SpoolInv, TypeOK, NothingLeaks, NoOldContent

\* jobs/open: a list more, that is empty.
LEMMA OpenLists ==
    ASSUME SpoolInv, Open
    PROVE  /\ DOMAIN temp_files' = DOMAIN temp_files \cup {next_job_id}
           /\ temp_files'[next_job_id] = << >>
           /\ \A k \in DOMAIN temp_files : temp_files'[k] = temp_files[k]
           /\ next_job_id \notin DOMAIN temp_files
           /\ Listed' = Listed
<1>1. next_job_id \notin DOMAIN temp_files
  BY DEF SpoolInv, TypeOK
<1>2. /\ DOMAIN temp_files' = DOMAIN temp_files \cup {next_job_id}
      /\ temp_files'[next_job_id] = << >>
      /\ \A k \in DOMAIN temp_files : temp_files'[k] = temp_files[k]
  BY <1>1 DEF Open
<1>3. ASSUME NEW g PROVE g \in Listed' <=> g \in Listed
  <2>1. g \in Listed' <=> \E k \in DOMAIN temp_files' :
                             \E i \in DOMAIN temp_files'[k] : g = temp_files'[k][i]
    BY DEF Listed
  <2>2. DOMAIN temp_files'[next_job_id] = {}
    BY <1>2
  <2> QED  BY <1>2, <2>1, <2>2, ListedIff
<1> QED  BY <1>1, <1>2, <1>3

LEMMA OpenStep == ASSUME SpoolInv, Open PROVE SpoolInv'
<1> DEFINE j == next_job_id
<1>1. j \in JobId /\ j \in Nat
  BY SpoolAssumption DEF Open, SpoolInv, TypeOK, JobId
<1>2. /\ up /\ j + 1 \in 1 .. MaxJobs + 1
      /\ next_job_id' = j + 1
      /\ temp_dir' \subseteq temp_dir \cup {j} /\ temp_dir \subseteq temp_dir'
      /\ dirs' \subseteq dirs \cup {j} /\ dirs \subseteq dirs'
      /\ temp_dir' \subseteq dirs'
      /\ strayDirs' \subseteq strayDirs
      /\ UNCHANGED <<up, run, disk, held, strayFiles>>
  BY <1>1, SpoolAssumption DEF Open, SpoolInv
<1>3. TypeOK'
  <2>1. DOMAIN temp_files' \subseteq 1 .. next_job_id' - 1
    BY <1>1, <1>2, OpenLists DEF SpoolInv, TypeOK
  <2>2. ASSUME NEW k \in DOMAIN temp_files'
        PROVE  /\ Len(temp_files'[k]) <= MaxTemps
               /\ \A i \in DOMAIN temp_files'[k] :
                     \E x \in Ext : temp_files'[k][i] = <<k, i, x>>
    BY OpenLists, SpoolAssumption DEF SpoolInv, TypeOK
  <2> QED  BY <1>1, <1>2, <2>1, <2>2, OpenLists DEF SpoolInv, TypeOK
<1>4. NothingLeaks'
  <2>1. dirs' \subseteq temp_dir' \cup strayDirs' \cup {DirOf(f) : f \in strayFiles}
    BY DEF Open, SpoolInv, NothingLeaks
  <2> QED  BY <1>2, <2>1, OpenLists DEF SpoolInv, NothingLeaks
<1>5. \A k \in DOMAIN temp_files' : temp_files'[k] \in Seq(File)
  <2>1. << >> \in Seq(File)
    OBVIOUS
  <2> QED  BY <2>1, OpenLists DEF SpoolInv
<1> QED  BY <1>2, <1>3, <1>4, <1>5, OpenLists DEF SpoolInv, NoOldContent

LEMMA AllAtOnceFailsStep == ASSUME SpoolInv, AllAtOnceFails PROVE SpoolInv'
<1> DEFINE j == next_job_id
<1>1. j \in Nat /\ j + 1 \in 1 .. MaxJobs + 1 /\ j \notin DOMAIN temp_files
  BY SpoolAssumption DEF AllAtOnceFails, SpoolInv, TypeOK
<1>2. Listed' = Listed
  BY DEF AllAtOnceFails, Listed
<1>3. TypeOK'
  BY <1>1 DEF AllAtOnceFails, SpoolInv, TypeOK
<1>4. temp_dir' \subseteq dirs'
  BY <1>1 DEF AllAtOnceFails, SpoolInv, TypeOK
<1>5. NothingLeaks'
  BY <1>2 DEF AllAtOnceFails, SpoolInv, NothingLeaks
<1> QED  BY <1>2, <1>3, <1>4, <1>5 DEF AllAtOnceFails, SpoolInv, NoOldContent

LEMMA NewTempFileStep ==
    ASSUME SpoolInv, NEW j \in DOMAIN temp_files, NEW x \in Ext, NewTempFile(j, x)
    PROVE  SpoolInv'
<1> DEFINE f == <<j, Place(j), x>>
<1>1. /\ up /\ j \in temp_dir /\ j \in dirs /\ Len(temp_files[j]) < MaxTemps
      /\ HandOut(f) \/ NoRoom(f)
      /\ UNCHANGED <<up, run, next_job_id, temp_dir, dirs, held, strayDirs>>
  BY DEF NewTempFile, SpoolInv
<1>2. DirOf(f) = j /\ f[1] = j
  BY DEF DirOf
<1>3. f \notin Listed
  BY NextIsNew
<1> HIDE DEF f
<1>4. CASE HandOut(f)
  <2>1. /\ f \in File
        /\ DOMAIN temp_files' = DOMAIN temp_files
        /\ \A k \in DOMAIN temp_files : temp_files'[k] \in Seq(File)
        /\ \A k \in DOMAIN temp_files :
              /\ Len(temp_files'[k]) <= MaxTemps
              /\ \A i \in DOMAIN temp_files'[k] : \E y \in Ext : temp_files'[k][i] = <<k, i, y>>
        /\ Listed' = Listed \cup {f}
    BY <1>1, <1>2, <1>4, HandOutLists DEF HandOut, f
  <2>2. /\ DOMAIN disk' = DOMAIN disk \cup {f} /\ disk'[f] = "empty"
        /\ \A g \in DOMAIN disk \ {f} : disk'[g] = disk[g]
        /\ strayFiles' = strayFiles \ {f}
    BY <1>4 DEF HandOut, Put
  <2>3. TypeOK'
    BY <1>1, <1>2, <2>1, <2>2 DEF SpoolInv, TypeOK, Contents
  <2>4. NothingLeaks'
    BY <1>1, <1>2, <2>1, <2>2 DEF SpoolInv, NothingLeaks
  <2>5. NoOldContent'
    BY <2>1, <2>2 DEF SpoolInv, NoOldContent
  <2> QED  BY <1>1, <1>2, <2>1, <2>3, <2>4, <2>5 DEF SpoolInv
<1>5. CASE NoRoom(f)
  <2>1. /\ DOMAIN disk' = DOMAIN disk \ {f}
        /\ \A g \in DOMAIN disk \ {f} : disk'[g] = disk[g]
        /\ strayFiles' = strayFiles \ {f} /\ temp_files' = temp_files
    BY <1>5, GoneType DEF NoRoom
  <2>2. Listed' = Listed
    BY <2>1 DEF Listed
  <2>3. TypeOK'
    BY <1>1, <2>1 DEF SpoolInv, TypeOK
  <2>4. NothingLeaks'
    BY <1>1, <1>2, <2>1, <2>2 DEF SpoolInv, NothingLeaks
  <2> QED  BY <1>1, <2>1, <2>2, <2>3, <2>4 DEF SpoolInv, NoOldContent
<1> QED  BY <1>1, <1>4, <1>5

\* Clients touch the files they were given, and a resize empties one of them.
LEMMA GivenFileStep ==
    ASSUME SpoolInv, NEW f \in Listed, Resize(f) \/ ClientWrites(f) \/ ClientDeletes(f)
    PROVE  SpoolInv'
<1>1. /\ f \in DOMAIN disk /\ DirOf(f) \in temp_dir
      /\ UNCHANGED <<up, run, table, dirs, held, strayDirs>>
  BY DEF Resize, ClientWrites, ClientDeletes, SpoolInv, strays
<1>2. Listed' = Listed
  BY <1>1 DEF table, Listed
<1>3. /\ DOMAIN disk' \subseteq DOMAIN disk
      /\ \A g \in DOMAIN disk' : disk'[g] \in {disk[g], "empty", "own"}
      /\ strayFiles' \subseteq DOMAIN disk'
      /\ strayFiles \ {f} \subseteq strayFiles'
      /\ f \in DOMAIN disk' => strayFiles' = strayFiles
  <2>1. CASE Resize(f) \/ ClientWrites(f)
    <3>1. strayFiles' = strayFiles /\ strayFiles \subseteq DOMAIN disk
      BY <2>1 DEF Resize, ClientWrites, strays, SpoolInv, TypeOK
    <3>2. /\ DOMAIN disk' = DOMAIN disk
          /\ \A g \in DOMAIN disk' : disk'[g] \in {disk[g], "empty", "own"}
      BY <1>1, <2>1 DEF Resize, ClientWrites, Put
    <3> QED  BY <3>1, <3>2
  <2>2. CASE ClientDeletes(f)
    BY <2>2, GoneType DEF ClientDeletes, SpoolInv, TypeOK
  <2> QED  BY <2>1, <2>2
<1>4. strayFiles' \subseteq strayFiles
  BY DEF Resize, ClientWrites, ClientDeletes, strays
<1>5. TypeOK'
  BY <1>1, <1>3 DEF SpoolInv, TypeOK, table, Contents
<1>6. NothingLeaks'
  <2>1. DOMAIN disk' \subseteq Listed' \cup strayFiles'
    BY <1>2, <1>3 DEF SpoolInv, NothingLeaks
  <2>2. dirs' \subseteq temp_dir' \cup strayDirs' \cup {DirOf(g) : g \in strayFiles'}
    BY <1>1, <1>3 DEF SpoolInv, NothingLeaks, table
  <2> QED  BY <2>1, <2>2 DEF NothingLeaks
<1> QED  BY <1>1, <1>2, <1>3, <1>5, <1>6 DEF SpoolInv, NoOldContent, table

LEMMA OldClientStep ==
    ASSUME SpoolInv, NEW f \in held, OldClientWrites(f) PROVE SpoolInv'
<1>1. /\ f \in File /\ DirOf(f) \in dirs
      /\ UNCHANGED <<up, run, table, dirs, held, strayDirs>>
  BY DEF OldClientWrites, SpoolInv, TypeOK
<1>2. Listed' = Listed
  BY <1>1 DEF table, Listed
<1>3. /\ DOMAIN disk' = DOMAIN disk \cup {f}
      /\ \A g \in DOMAIN disk' : disk'[g] \in Contents
      /\ \A g \in DOMAIN disk \ {f} : disk'[g] = disk[g]
      /\ disk'[f] = "intruded"
      /\ strayFiles \subseteq strayFiles' /\ strayFiles' \subseteq strayFiles \cup {f}
      /\ f \in DOMAIN disk \/ f \in strayFiles'
  <2>1. /\ DOMAIN disk' = DOMAIN disk \cup {f}
        /\ \A g \in DOMAIN disk \ {f} : disk'[g] = disk[g]
        /\ disk'[f] = "intruded"
    BY DEF OldClientWrites, Put
  <2>2. \A g \in DOMAIN disk' : disk'[g] \in Contents
    BY <2>1 DEF SpoolInv, TypeOK, Contents
  <2> QED  BY <2>1, <2>2 DEF OldClientWrites
<1>4. TypeOK'
  BY <1>1, <1>3 DEF SpoolInv, TypeOK, table
<1>5. NothingLeaks'
  BY <1>1, <1>2, <1>3 DEF SpoolInv, NothingLeaks, table
<1>6. NoOldContent'
  BY <1>2, <1>3 DEF SpoolInv, NoOldContent
<1> QED  BY <1>1, <1>2, <1>4, <1>5, <1>6 DEF SpoolInv, table

\* A directory the stop cannot remove holds a file that no list names.
LEMMA StopStep == ASSUME SpoolInv, Stop PROVE SpoolInv'
<1> DEFINE left == DOMAIN disk \ Listed
           gone == Freed(DOMAIN temp_files, left)
<1>1. /\ DOMAIN disk' = left
      /\ \A g \in left : disk'[g] = disk[g]
      /\ up' = FALSE /\ temp_files' = << >> /\ temp_dir' = {}
      /\ dirs' = dirs \ gone /\ strayDirs' = strayDirs \ gone
      /\ strayFiles' = strayFiles \ Listed
      /\ held' = held \cup Listed
      /\ UNCHANGED <<run, next_job_id>>
  BY GoneType DEF Stop
<1>2. DOMAIN temp_files' = {} /\ Listed' = {}
  BY <1>1 DEF Listed
<1>3. \A d \in gone : \A f \in left : DirOf(f) # d
  BY DEF Freed
<1>4. \A d \in temp_dir \ gone : \E f \in left : DirOf(f) = d
  BY DEF Freed, SpoolInv, TypeOK
<1> HIDE DEF gone
<1>5. left \subseteq strayFiles'
  BY <1>1 DEF SpoolInv, NothingLeaks
<1>6. TypeOK'
  <2>1. Listed \subseteq File
    BY ListedWhere
  <2>2. \A f \in DOMAIN disk' : disk'[f] \in Contents /\ DirOf(f) \in dirs'
    BY <1>1, <1>3 DEF SpoolInv, TypeOK
  <2>3. strayFiles' \subseteq DOMAIN disk' /\ strayDirs' \subseteq dirs'
    BY <1>1 DEF SpoolInv, TypeOK
  <2>4. next_job_id' \in 1 .. MaxJobs + 1 /\ DOMAIN temp_files' \subseteq 1 .. next_job_id' - 1
    BY <1>1, <1>2 DEF SpoolInv, TypeOK
  <2>5. DOMAIN disk' \subseteq File /\ dirs' \subseteq JobId /\ held' \subseteq File
    BY <1>1, <2>1 DEF SpoolInv, TypeOK
  <2> QED  BY <1>1, <1>2, <2>2, <2>3, <2>4, <2>5 DEF SpoolInv, TypeOK
<1>7. NothingLeaks'
  <2>1. ASSUME NEW d \in dirs' PROVE d \in strayDirs' \cup {DirOf(f) : f \in strayFiles'}
    <3>1. d \in dirs /\ d \notin gone
      BY <1>1
    <3>2. CASE d \in temp_dir
      BY <1>4, <1>5, <3>1, <3>2
    <3>3. CASE d \in strayDirs
      BY <1>1, <3>1, <3>3
    <3>4. ASSUME NEW f \in strayFiles, d = DirOf(f), d \notin temp_dir
          PROVE  f \in strayFiles'
      BY <1>1, <3>4 DEF SpoolInv
    <3> QED  BY <3>1, <3>2, <3>3, <3>4 DEF SpoolInv, NothingLeaks
  <2> QED  BY <1>1, <1>5, <2>1 DEF NothingLeaks
<1> QED  BY <1>1, <1>2, <1>6, <1>7 DEF SpoolInv, NoOldContent

LEMMA CrashStep == ASSUME SpoolInv, Crash PROVE SpoolInv'
<1>1. DOMAIN temp_files' = {} /\ Listed' = {}
  BY DEF Crash, Listed
<1>2. Listed \subseteq File
  BY ListedWhere
<1>3. TypeOK'
  BY <1>1, <1>2 DEF Crash, SpoolInv, TypeOK, spool
<1> QED  BY <1>1, <1>3 DEF Crash, SpoolInv, NothingLeaks, NoOldContent, spool

\* What an earlier run left turns old while nobody has a file.
LEMMA StartStep == ASSUME SpoolInv, Start PROVE SpoolInv'
<1>1. Listed = {} /\ DOMAIN temp_files = {}
  BY EmptyTable DEF Start, SpoolInv
<1>2. Listed' = {} /\ temp_dir = {}
  BY <1>1 DEF Start, Listed, SpoolInv, TypeOK
<1>3. run' \in 1 .. MaxRuns /\ next_job_id' \in 1 .. MaxJobs + 1
  BY SpoolAssumption DEF Start, SpoolInv, TypeOK
<1>4. TypeOK'
  BY <1>1, <1>3 DEF Start, SpoolInv, TypeOK, strays, Contents
<1> QED  BY <1>1, <1>2, <1>4 DEF Start, SpoolInv, NothingLeaks, NoOldContent, strays

LEMMA SpoolInvStep == SpoolInv /\ [Next]_vars => SpoolInv'
<1>. SUFFICES ASSUME SpoolInv, [Next]_vars PROVE SpoolInv'
  OBVIOUS
<1>1. CASE Open
  BY <1>1, OpenStep
<1>2. CASE AllAtOnceFails
  BY <1>2, AllAtOnceFailsStep
<1>3. CASE \E j \in DOMAIN temp_files, x \in Ext : NewTempFile(j, x)
  BY <1>3, NewTempFileStep
<1>4. CASE \E f \in Listed : Resize(f) \/ ClientWrites(f) \/ ClientDeletes(f)
  BY <1>4, GivenFileStep
<1>5. CASE \E f \in held : OldClientWrites(f)
  BY <1>5, OldClientStep
<1>6. CASE Stop
  BY <1>6, StopStep
<1>7. CASE Crash
  BY <1>7, CrashStep
<1>8. CASE Start
  BY <1>8, StartStep
<1>9. CASE UNCHANGED vars
  BY <1>9 DEF vars, table, spool, strays, SpoolInv, TypeOK, NothingLeaks, NoOldContent, Listed
<1> QED  BY <1>1, <1>2, <1>3, <1>4, <1>5, <1>6, <1>7, <1>8, <1>9 DEF Next

-----------------------------------------------------------------------------

THEOREM Invariance == Spec => []SpoolInv
BY SpoolInvInit, SpoolInvStep, PTL DEF Spec

\* Lists, files and directories keep their types and their places.
THEOREM TypeCorrect == Spec => []TypeOK
<1>1. SpoolInv => TypeOK
  BY DEF SpoolInv
<1> QED  BY <1>1, Invariance, PTL

\* Every file and directory of the spool will be freed by a job, or was left by a
\* crash or an earlier client: job_free forgets none, whatever calls came before.
THEOREM SpoolIsFreed == Spec => []NothingLeaks
<1>1. SpoolInv => NothingLeaks
  BY DEF SpoolInv
<1> QED  BY <1>1, Invariance, PTL

\* Nobody is handed what an earlier run left under the name of its file.
THEOREM HandedOutFresh == Spec => []NoOldContent
<1>1. SpoolInv => NoOldContent
  BY DEF SpoolInv
<1> QED  BY <1>1, Invariance, PTL

\* No call touches a file but the one it names: newTempFile never names one that
\* is in use, although files may be gone from the disk while they are listed.
THEOREM OnlyTheNamedFile == Spec => HandedIsKept
<1> DEFINE Kept(f) ==
      \/ f \in DOMAIN disk' /\ disk'[f] = disk[f]
      \/ Resize(f) \/ ClientWrites(f) \/ ClientDeletes(f) \/ OldClientWrites(f)
      \/ Stop
<1>1. SpoolInv /\ [Next]_vars => [\A f \in Listed \cap DOMAIN disk : Kept(f)]_vars
  <2>. SUFFICES ASSUME SpoolInv, Next, NEW f \in Listed \cap DOMAIN disk PROVE Kept(f)
    OBVIOUS
  <2>1. CASE Open \/ AllAtOnceFails \/ Crash
    BY <2>1 DEF Open, AllAtOnceFails, Crash, spool
  <2>2. ASSUME NEW j \in DOMAIN temp_files, NEW x \in Ext, NewTempFile(j, x) PROVE Kept(f)
    <3> DEFINE g == <<j, Place(j), x>>
    <3>1. g # f
      BY NextIsNew
    <3>2. HandOut(g) \/ NoRoom(g)
      BY <2>2 DEF NewTempFile
    <3> HIDE DEF g
    <3> QED  BY <3>1, <3>2 DEF HandOut, NoRoom, Put, Gone, Restrict
  <2>3. ASSUME NEW g \in Listed, Resize(g) \/ ClientWrites(g) \/ ClientDeletes(g)
        PROVE  Kept(f)
    <3>1. CASE g = f
      BY <2>3, <3>1
    <3>2. CASE g # f
      BY <2>3, <3>2 DEF Resize, ClientWrites, ClientDeletes, Put, Gone, Restrict
    <3> QED  BY <3>1, <3>2
  <2>4. ASSUME NEW g \in held, OldClientWrites(g) PROVE Kept(f)
    <3>1. CASE g = f
      BY <2>4, <3>1
    <3>2. CASE g # f
      BY <2>4, <3>2 DEF OldClientWrites, Put
    <3> QED  BY <3>1, <3>2
  <2>5. CASE Start
    BY <2>5, EmptyTable DEF Start, SpoolInv
  <2> QED  BY <2>1, <2>2, <2>3, <2>4, <2>5 DEF Next
<1> QED  BY <1>1, Invariance, PTL DEF Spec, HandedIsKept
=============================================================================
