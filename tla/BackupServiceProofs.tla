------------------------ MODULE BackupServiceProofs ------------------------
(***************************************************************************)
(* Backups do not get in each other's way, for any number of threads,      *)
(* directories, files and contents: no directory is shared, none that a    *)
(* run did not make is touched, and VERIFIED stays true of its folder.     *)
(***************************************************************************)
EXTENDS BackupService, TLAPS

\* A run at any stage but "idle" is a full record, and setting its fields
\* gives one again.
LEMMA RunFacts ==
    ASSUME BackupTypeOK, NEW r \in Run, run[r] # Idle
    PROVE  /\ run[r] \in Runs
           /\ run[r].dir \in Dir /\ run[r].mode \in Mode
           /\ run[r].manifest \in Entries /\ run[r].job \in Nat
           /\ run[r].todo \in SUBSET File
           /\ \A st \in Stages : [run[r] EXCEPT !.stage = st] \in Runs
  BY DEF BackupTypeOK, Runs, Idle

LEMMA BusyFacts ==
    ASSUME BackupTypeOK, NEW r \in Run, NEW st \in Stages
    PROVE  /\ run[r].stage = st => run[r] # Idle
           /\ run[r] = Idle => run[r].stage = "idle"
  BY DEF Stages, Idle

\* A run that moves leaves the others where they are.
LEMMA MoveKeepsTypes ==
    ASSUME BackupTypeOK, NEW r \in Run, NEW c \in Runs \union {Idle},
           run' = [run EXCEPT ![r] = c]
    PROVE  run' \in [Run -> Runs \union {Idle}]
  BY DEF BackupTypeOK

LEMMA NothingIsEntries == Nothing \in Entries /\ NewFolder \in Folder
  BY DEF Nothing, NewFolder, Entries, Folder

LEMMA BackupTypeInit == BackupInit => BackupTypeOK
  <1> SUFFICES ASSUME BackupInit PROVE BackupTypeOK
    OBVIOUS
  <1>1. disk \in [Dir -> Folder \union {Absent}]
    BY NothingIsEntries DEF BackupInit
  <1>2. QED
    BY <1>1 DEF BackupInit, BackupTypeOK

-----------------------------------------------------------------------------
(* Type correctness *)

LEMMA BeginKeepsTypes ==
    ASSUME BackupTypeOK, NEW r \in Run, NEW m \in Mode, NEW s \in Stamp,
           NEW n \in 0 .. MaxCounter, Begin(r, m, s, n)
    PROVE  BackupTypeOK'
  <1> DEFINE c == [stage |-> "place", mode |-> m, dir |-> <<s, n>>, job |-> 0,
                   todo |-> {}, manifest |-> Nothing, outcome |-> "none"]
  <1>1. <<s, n>> \in Dir
    BY DEF Dir
  <1>2. c \in Runs
    BY <1>1, NothingIsEntries DEF Runs, Stages
  <1>3. run' \in [Run -> Runs \union {Idle}]
    BY <1>2, MoveKeepsTypes DEF Begin
  <1>4. QED
    BY <1>3 DEF Begin, BackupTypeOK

\* The folder a run works on, with one file or its manifest replaced.
LEMMA FolderFacts ==
    ASSUME NEW folder \in Folder
    PROVE  /\ folder.files \in Entries
           /\ \A f \in File, c \in Content \union {Absent} :
                [folder EXCEPT !.files[f] = c] \in Folder
           /\ \A files \in Entries : [folder EXCEPT !.files = files] \in Folder
           /\ \A files \in Entries, l \in Listing :
                [folder EXCEPT !.listing = l, !.files = files] \in Folder
  BY DEF Folder, Entries

LEMMA CopyFileKeepsTypes ==
    ASSUME BackupTypeOK, OneWriter, NEW r \in Run, NEW f \in File, CopyFile(r, f)
    PROVE  BackupTypeOK'
  <1> DEFINE d == run[r].dir
  <1>1. /\ run[r] # Idle /\ run[r] \in Runs /\ d \in Dir
        /\ run[r].manifest \in Entries /\ disk[d] \in Folder
    BY BusyFacts, RunFacts DEF CopyFile, Busy, OneWriter, Holds, BackupTypeOK, Stages, Idle
  <1>2. source[f] \in Content \union {Absent}
    BY DEF BackupTypeOK, Entries
  <1>3. CASE source[f] # Absent
    <2>1. [disk[d] EXCEPT !.files[f] = source[f]] \in Folder
      BY <1>1, <1>2, FolderFacts
    <2>2. disk' \in [Dir -> Folder \union {Absent}]
      BY <1>3, <2>1 DEF CopyFile, BackupTypeOK
    <2>3. [run[r].manifest EXCEPT ![f] = source[f]] \in Entries
      BY <1>1, <1>2 DEF Entries
    <2>4. [run[r] EXCEPT !.todo = @ \ {f}, !.manifest[f] = source[f]] \in Runs
      BY <1>1, <2>3 DEF Runs
    <2>5. QED
      BY <1>3, <2>2, <2>4 DEF CopyFile, BackupTypeOK
  <1>4. CASE source[f] = Absent
    <2>1. [run[r] EXCEPT !.stage = "save", !.outcome = "failed"] \in Runs
      BY <1>1 DEF Runs, Stages
    <2>2. QED
      BY <1>4, <2>1 DEF CopyFile, Fails, BackupTypeOK
  <1>5. QED
    BY <1>3, <1>4

LEMMA RemovePartialKeepsTypes ==
    ASSUME BackupTypeOK, OneWriter, NEW r \in Run, NEW keep \in SUBSET File,
           RemovePartial(r, keep)
    PROVE  BackupTypeOK'
  <1> DEFINE d == run[r].dir
             left == [f \in File |-> IF f \in keep THEN disk[d].files[f] ELSE Absent]
  <1>1. run[r] # Idle /\ run[r] \in Runs /\ d \in Dir /\ disk[d] \in Folder
    BY BusyFacts, RunFacts DEF RemovePartial, Busy, OneWriter, Holds, BackupTypeOK, Stages
  <1>2. left \in Entries
    BY <1>1, FolderFacts DEF Entries
  <1>3. [disk[d] EXCEPT !.files = left] \in Folder
    BY <1>1, <1>2, FolderFacts
  <1>4. disk' \in [Dir -> Folder \union {Absent}]
    BY <1>3 DEF RemovePartial, BackupTypeOK
  <1>5. [run[r] EXCEPT !.stage = "save", !.outcome = "cancelled"] \in Runs
    BY <1>1 DEF Runs, Stages
  <1>6. QED
    BY <1>4, <1>5 DEF RemovePartial, BackupTypeOK

LEMMA WriteManifestKeepsTypes ==
    ASSUME BackupTypeOK, OneWriter, NEW r \in Run, WriteManifest(r)
    PROVE  BackupTypeOK'
  <1> DEFINE d == run[r].dir
             l == [entries |-> run[r].manifest, hashes |-> run[r].mode = "sha256"]
             files == [f \in File |-> IF f = ManifestFile THEN ManifestText
                                      ELSE disk[d].files[f]]
  <1>1. /\ run[r] # Idle /\ run[r] \in Runs /\ d \in Dir /\ disk[d] \in Folder
        /\ run[r].manifest \in Entries
        /\ [run[r] EXCEPT !.stage = "verify"] \in Runs
    BY BusyFacts, RunFacts DEF WriteManifest, Busy, OneWriter, Holds, BackupTypeOK, Stages
  <1>2. l \in Listing
    BY <1>1 DEF Listing
  <1>3. files \in Entries
    BY <1>1, FolderFacts, BackupAssumption DEF Entries
  <1>4. disk' = [disk EXCEPT ![d] = [disk[d] EXCEPT !.listing = l, !.files = files]]
    BY <1>1 DEF WriteManifest, BackupTypeOK
  <1>5. disk' \in [Dir -> Folder \union {Absent}]
    BY <1>1, <1>2, <1>3, <1>4, FolderFacts DEF BackupTypeOK
  <1>6. QED
    BY <1>1, <1>5 DEF WriteManifest, Step, BackupTypeOK

LEMMA SaveJobKeepsTypes ==
    ASSUME BackupTypeOK, OwnJob, NEW r \in Run, Conclude(r) \/ SaveFailure(r)
    PROVE  BackupTypeOK'
  <1> DEFINE i == run[r].job
  <1>0. run[r].stage \in {"conclude", "save"}
    BY DEF Conclude, SaveFailure, Busy
  <1>1. run[r] # Idle /\ run[r] \in Runs /\ i \in DOMAIN jobs /\ jobs[i] \in Job
    <2>1. run[r] # Idle /\ run[r] \in Runs
      BY <1>0, BusyFacts, RunFacts DEF Stages
    <2>2. i \in DOMAIN jobs
      BY <1>0 DEF OwnJob, Concluding
    <2>3. QED
      BY <2>1, <2>2 DEF BackupTypeOK
  <1>2. PICK st \in {"success", "verified", "failed", "cancelled"} : SaveJob(r, st)
    BY <1>1 DEF Conclude, SaveFailure, Busy, OwnJob, Runs
  <1>3. [jobs[i] EXCEPT !.status = st] \in Job
    BY <1>1 DEF Job
  <1>4. jobs' \in Seq(Job)
    BY <1>1, <1>2, <1>3 DEF SaveJob, BackupTypeOK
  <1>5. QED
    BY <1>2, <1>4 DEF SaveJob, BackupTypeOK

LEMMA RunStepKeepsTypes ==
    ASSUME BackupTypeOK, OneWriter, OwnJob, NEW r \in Run, RunStep(r)
    PROVE  BackupTypeOK'
  <1>1. ASSUME NEW m \in Mode, NEW s \in Stamp, NEW n \in 0 .. MaxCounter, Begin(r, m, s, n)
        PROVE  BackupTypeOK'
    BY <1>1, BeginKeepsTypes
  <1>2. CASE MakeDir(r)
    <2>1. /\ run[r].dir \in Dir
          /\ [run[r] EXCEPT !.stage = "record"] \in Runs
      BY <1>2, BusyFacts, RunFacts DEF MakeDir, Busy, Stages
    <2>2. QED
      BY <1>2, <2>1, NothingIsEntries DEF MakeDir, Step, BackupTypeOK
  <1>3. CASE AddJob(r)
    <2>1. run[r] # Idle /\ run[r] \in Runs
      BY <1>3, BusyFacts, RunFacts DEF AddJob, Busy, Stages
    <2>2. [run[r] EXCEPT !.stage = "list", !.job = Len(jobs) + 1] \in Runs
      <3>1. Len(jobs) + 1 \in Nat
        BY DEF BackupTypeOK
      <3>2. QED
        BY <2>1, <3>1 DEF Runs, Stages
    <2>3. [dest |-> run[r].dir, status |-> "running"] \in Job
      BY <2>1 DEF Runs, Job
    <2>4. QED
      BY <1>3, <2>2, <2>3 DEF AddJob, BackupTypeOK
  <1>4. CASE ListSource(r)
    <2>1. run[r] # Idle /\ run[r] \in Runs
      BY <1>4, BusyFacts, RunFacts DEF ListSource, Busy, Stages
    <2>2. [run[r] EXCEPT !.stage = "copy",
                         !.todo = {f \in File : source[f] # Absent}] \in Runs
      BY <2>1 DEF Runs, Stages
    <2>3. QED
      BY <1>4, <2>2 DEF ListSource, BackupTypeOK
  <1>5. ASSUME NEW f \in File, CopyFile(r, f) PROVE BackupTypeOK'
    BY <1>5, CopyFileKeepsTypes
  <1>6. CASE FileSystemFails(r)
    <2>1. run[r] # Idle /\ run[r] \in Runs
      BY <1>6, BusyFacts, RunFacts DEF FileSystemFails, Busy, Stages
    <2>2. [run[r] EXCEPT !.stage = "save", !.outcome = "failed"] \in Runs
      BY <2>1 DEF Runs, Stages
    <2>3. QED
      BY <1>6, <2>2 DEF FileSystemFails, Fails, BackupTypeOK
  <1>7. CASE StopCopying(r)
    <2>1. [run[r] EXCEPT !.stage = "remove"] \in Runs
      BY <1>7, BusyFacts, RunFacts DEF StopCopying, Busy, Stages
    <2>2. QED
      BY <1>7, <2>1 DEF StopCopying, Step, BackupTypeOK
  <1>8. ASSUME NEW keep \in SUBSET File, RemovePartial(r, keep) PROVE BackupTypeOK'
    BY <1>8, RemovePartialKeepsTypes
  <1>9. CASE WriteManifest(r)
    BY <1>9, WriteManifestKeepsTypes
  <1>10. CASE Verify(r)
    <2>1. run[r] # Idle /\ run[r] \in Runs
      BY <1>10, BusyFacts, RunFacts DEF Verify, Busy, Stages
    <2>2. PICK v \in {"none", "verified", "failed"} : Conclusion(r, v)
      BY <1>10 DEF Verify
    <2>3. [run[r] EXCEPT !.stage = "conclude", !.outcome = v] \in Runs
      BY <2>1 DEF Runs, Stages
    <2>4. QED
      BY <1>10, <2>2, <2>3 DEF Verify, Conclusion, BackupTypeOK
  <1>11. CASE Conclude(r) \/ SaveFailure(r)
    BY <1>11, SaveJobKeepsTypes
  <1>12. CASE Escape(r)
    BY <1>12 DEF Escape, BackupTypeOK
  <1>13. QED
    BY <1>1, <1>2, <1>3, <1>4, <1>5, <1>6, <1>7, <1>8, <1>9, <1>10, <1>11, <1>12 DEF RunStep

LEMMA OthersKeepTypes ==
    ASSUME BackupTypeOK, OneWriter
    PROVE  /\ \A r \in Run : Cancel(r) => BackupTypeOK'
           /\ \A f \in File, c \in Content \union {Absent} :
                SourceChanges(f, c) => BackupTypeOK'
           /\ \A r \in Run, f \in File, c \in Content \union {Absent} :
                CopyAltered(r, f, c) => BackupTypeOK'
           /\ Crash => BackupTypeOK'
           /\ UNCHANGED backupVars => BackupTypeOK'
  <1>1. ASSUME NEW r \in Run, Cancel(r) PROVE BackupTypeOK'
    BY <1>1 DEF Cancel, BackupTypeOK
  <1>2. ASSUME NEW f \in File, NEW c \in Content \union {Absent}, SourceChanges(f, c)
        PROVE  BackupTypeOK'
    BY <1>2 DEF SourceChanges, Event, BackupTypeOK, Entries
  <1>3. ASSUME NEW r \in Run, NEW f \in File, NEW c \in Content \union {Absent},
               CopyAltered(r, f, c)
        PROVE  BackupTypeOK'
    <2>1. run[r].dir \in Dir /\ disk[run[r].dir] \in Folder
      BY <1>3, BusyFacts, RunFacts DEF CopyAltered, Busy, OneWriter, Holds, BackupTypeOK, Stages
    <2>2. [disk[run[r].dir] EXCEPT !.files[f] = c] \in Folder
      BY <2>1, FolderFacts
    <2>3. QED
      BY <1>3, <2>1, <2>2 DEF CopyAltered, Event, BackupTypeOK
  <1>4. CASE Crash
    BY <1>4 DEF Crash, BackupTypeOK
  <1>5. CASE UNCHANGED backupVars
    BY <1>5 DEF backupVars, BackupTypeOK
  <1>6. QED
    BY <1>1, <1>2, <1>3, <1>4, <1>5

-----------------------------------------------------------------------------
(* What a step of a run that has its directory does, and leaves alone *)

\* A folder is not the absence of one.
LEMMA FolderIsThere == Absent \notin Folder
  BY BackupAssumption

\* The steps of a run from its directory to its verification.
Working(r) ==
    \/ AddJob(r) \/ ListSource(r) \/ (\E f \in File : CopyFile(r, f))
    \/ FileSystemFails(r) \/ StopCopying(r)
    \/ (\E keep \in SUBSET File : RemovePartial(r, keep))
    \/ WriteManifest(r) \/ Verify(r)

LEMMA WorkingRun ==
    ASSUME BackupTypeOK, NEW r \in Run, Working(r)
    PROVE  /\ Holds(r)
           /\ run[r] \in Runs
           /\ \A q \in Run : q # r => run'[q] = run[q]
           /\ run'[r].dir = run[r].dir
           /\ run'[r].mode = run[r].mode
           /\ run'[r].stage \in Concluding
  <1> USE DEF Working, Holds, Concluding, Busy, Stages
  <1>1. /\ run[r].stage \in {"record", "list", "copy", "remove", "verify"}
        /\ run[r] \in Runs
    BY BusyFacts, RunFacts
    DEF AddJob, ListSource, CopyFile, FileSystemFails, StopCopying, RemovePartial,
        WriteManifest, Verify
  <1>2. \A q \in Run : q # r => run'[q] = run[q]
    BY DEF AddJob, ListSource, CopyFile, FileSystemFails, StopCopying, RemovePartial,
           WriteManifest, Verify, Step, Fails, Conclusion, BackupTypeOK
  <1>3. CASE AddJob(r) \/ ListSource(r)
    BY <1>1, <1>2, <1>3 DEF AddJob, ListSource, BackupTypeOK, Runs
  <1>4. CASE \E f \in File : CopyFile(r, f)
    BY <1>1, <1>2, <1>4 DEF CopyFile, Fails, BackupTypeOK, Runs
  <1>5. CASE FileSystemFails(r) \/ StopCopying(r)
    BY <1>1, <1>2, <1>5 DEF FileSystemFails, StopCopying, Fails, Step, BackupTypeOK, Runs
  <1>6. CASE \E keep \in SUBSET File : RemovePartial(r, keep)
    BY <1>1, <1>2, <1>6 DEF RemovePartial, BackupTypeOK, Runs
  <1>7. CASE WriteManifest(r)
    BY <1>1, <1>2, <1>7 DEF WriteManifest, Step, BackupTypeOK, Runs
  <1>8. CASE Verify(r)
    BY <1>1, <1>2, <1>8 DEF Verify, Conclusion, BackupTypeOK, Runs
  <1>9. QED
    BY <1>3, <1>4, <1>5, <1>6, <1>7, <1>8

LEMMA StageAfter ==
    ASSUME BackupTypeOK, NEW r \in Run, Working(r)
    PROVE  /\ run'[r].stage = "save" => run'[r].outcome \in {"failed", "cancelled"}
           /\ run'[r].stage = "verify" => WriteManifest(r)
           /\ run'[r].stage = "conclude" => Verify(r)
  <1> USE DEF BackupTypeOK, Busy
  <1>0. run[r] \in Runs
    BY WorkingRun
  <1>1. CASE AddJob(r)
    BY <1>0, <1>1 DEF AddJob, Runs
  <1>2. CASE ListSource(r)
    BY <1>0, <1>2 DEF ListSource, Runs
  <1>3. ASSUME NEW f \in File, CopyFile(r, f)
        PROVE  \/ run'[r].stage = "copy"
               \/ run'[r].stage = "save" /\ run'[r].outcome = "failed"
    <2>1. CASE source[f] # Absent
      <3>1. run'[r] = [run[r] EXCEPT !.todo = run[r].todo \ {f},
                                     !.manifest[f] = source[f]]
        BY <1>0, <1>3, <2>1 DEF CopyFile
      <3>2. run'[r].stage = run[r].stage
        BY <1>0, <3>1 DEF Runs
      <3>3. run[r].stage = "copy"
        BY <1>3, Zenon DEF CopyFile
      <3>4. QED
        BY <3>2, <3>3
    <2>2. CASE source[f] = Absent
      BY <1>0, <1>3, <2>2 DEF CopyFile, Fails, Runs
    <2>3. QED
      BY <2>1, <2>2
  <1>4. CASE FileSystemFails(r)
    BY <1>0, <1>4 DEF FileSystemFails, Fails, Runs
  <1>5. CASE StopCopying(r)
    BY <1>0, <1>5 DEF StopCopying, Step, Runs
  <1>6. CASE \E keep \in SUBSET File : RemovePartial(r, keep)
    BY <1>0, <1>6 DEF RemovePartial, Runs
  <1>7. CASE WriteManifest(r)
    BY <1>0, <1>7 DEF WriteManifest, Step, Runs
  <1>8. CASE Verify(r)
    BY <1>0, <1>8 DEF Verify, Conclusion, Runs
  <1>9. QED
    BY <1>1, <1>2, <1>3, <1>4, <1>5, <1>6, <1>7, <1>8 DEF Working

\* Only the run's own folder changes, and it is only removed by a run that
\* does not hold it any more.
LEMMA WorkingDisk ==
    ASSUME BackupTypeOK, OneWriter, NEW r \in Run, Working(r)
    PROVE  /\ \A d \in Dir : d # run[r].dir => disk'[d] = disk[d]
           /\ Holds(r)' => disk'[run[r].dir] # Absent
  <1> DEFINE d == run[r].dir
  <1>1. Holds(r) /\ d \in Dir /\ disk[d] \in Folder /\ run[r].manifest \in Entries
    BY WorkingRun DEF Runs, OneWriter, BackupTypeOK
  <1>2. CASE UNCHANGED disk
    BY <1>1, <1>2, FolderIsThere
  <1>3. ASSUME NEW f \in File, CopyFile(r, f), source[f] # Absent
        PROVE  /\ \A e \in Dir : e # d => disk'[e] = disk[e]
               /\ disk'[d] \in Folder
    <2>1. source[f] \in Content \union {Absent}
      BY DEF BackupTypeOK, Entries
    <2>2. [disk[d] EXCEPT !.files[f] = source[f]] \in Folder
      BY <1>1, <2>1, FolderFacts
    <2>3. disk' = [disk EXCEPT ![d] = [disk[d] EXCEPT !.files[f] = source[f]]]
      BY <1>3 DEF CopyFile, BackupTypeOK
    <2>4. QED
      BY <1>1, <2>2, <2>3 DEF BackupTypeOK
  <1>4. ASSUME NEW keep \in SUBSET File, RemovePartial(r, keep)
        PROVE  /\ \A e \in Dir : e # d => disk'[e] = disk[e]
               /\ ~ Holds(r)'
    <2>1. run'[r].stage = "save"
      BY <1>4, WorkingRun DEF RemovePartial, BackupTypeOK, Runs
    <2>2. QED
      BY <1>1, <1>4, <2>1 DEF RemovePartial, Holds, BackupTypeOK
  <1>5. CASE WriteManifest(r)
    <2> DEFINE files == [f \in File |-> IF f = ManifestFile THEN ManifestText
                                        ELSE disk[d].files[f]]
               l == [entries |-> run[r].manifest, hashes |-> run[r].mode = "sha256"]
    <2>1. files \in Entries /\ l \in Listing
      BY <1>1, FolderFacts, BackupAssumption DEF Entries, Listing
    <2>2. [disk[d] EXCEPT !.listing = l, !.files = files] \in Folder
      BY <1>1, <2>1, FolderFacts
    <2>3. disk' = [disk EXCEPT ![d] = [disk[d] EXCEPT !.listing = l, !.files = files]]
      BY <1>5 DEF WriteManifest, BackupTypeOK
    <2>4. /\ \A e \in Dir : e # d => disk'[e] = disk[e]
          /\ disk'[d] \in Folder
      BY <1>1, <2>2, <2>3 DEF BackupTypeOK
    <2>5. QED
      BY <2>4, FolderIsThere
  <1>6. CASE AddJob(r) \/ ListSource(r) \/ FileSystemFails(r) \/ StopCopying(r) \/ Verify(r)
    BY <1>2, <1>6 DEF AddJob, ListSource, FileSystemFails, StopCopying, Verify
  <1>7. CASE \E f \in File : CopyFile(r, f)
    BY <1>2, <1>3, <1>7, FolderIsThere DEF CopyFile
  <1>8. CASE \E keep \in SUBSET File : RemovePartial(r, keep)
    BY <1>4, <1>8
  <1>9. QED
    BY <1>5, <1>6, <1>7, <1>8 DEF Working

\* Of the jobs, a working run only adds its own.
LEMMA WorkingJobs ==
    ASSUME BackupTypeOK, NEW r \in Run, Working(r)
    PROVE  \/ UNCHANGED jobs /\ run'[r].job = run[r].job /\ run[r].stage # "record"
           \/ /\ run[r].stage = "record"
              /\ jobs' = Append(jobs, [dest |-> run[r].dir, status |-> "running"])
              /\ run'[r].job = Len(jobs) + 1
              /\ run'[r].stage = "list"
  <1>1. run[r] \in Runs
    BY WorkingRun
  <1>2. CASE AddJob(r)
    BY <1>1, <1>2 DEF AddJob, Busy, BackupTypeOK, Runs
  <1>3. CASE ListSource(r) \/ FileSystemFails(r) \/ StopCopying(r)
    BY <1>1, <1>3 DEF ListSource, FileSystemFails, StopCopying, Step, Fails, Busy,
                      BackupTypeOK, Runs
  <1>4. CASE \E f \in File : CopyFile(r, f)
    BY <1>1, <1>4 DEF CopyFile, Fails, Busy, BackupTypeOK, Runs
  <1>5. CASE \E keep \in SUBSET File : RemovePartial(r, keep)
    BY <1>1, <1>5 DEF RemovePartial, Busy, BackupTypeOK, Runs
  <1>6. CASE WriteManifest(r) \/ Verify(r)
    BY <1>1, <1>6 DEF WriteManifest, Verify, Step, Conclusion, Busy, BackupTypeOK, Runs
  <1>7. QED
    BY <1>2, <1>3, <1>4, <1>5, <1>6 DEF Working

-----------------------------------------------------------------------------
(* One step keeps the invariant *)

LEMMA WorkingKeepsOneWriter ==
    ASSUME BackupTypeOK, OneWriter, NEW r \in Run, Working(r)
    PROVE  OneWriter'
  <1>1. \A q \in Run : Holds(q) => run[q].dir \in Dir
    BY RunFacts DEF Holds, Idle
  <1>2. QED
    BY <1>1, WorkingRun, WorkingDisk DEF OneWriter, Holds

LEMMA WorkingKeepsOwnJob ==
    ASSUME BackupTypeOK, OwnJob, NEW r \in Run, Working(r)
    PROVE  OwnJob'
  <1>1. /\ run'[r].stage \in Concluding /\ run'[r].dir = run[r].dir
        /\ \A q \in Run : q # r => run'[q] = run[q]
        /\ run[r] \in Runs /\ Holds(r)
    BY WorkingRun
  <1>2. run'[r].stage = "save" => run'[r].outcome \in {"failed", "cancelled"}
    BY StageAfter
  <1>3. CASE UNCHANGED jobs /\ run'[r].job = run[r].job /\ run[r].stage # "record"
    <2>1. run[r].stage \in Concluding
      BY <1>1, <1>3 DEF Holds, Concluding
    <2>2. run[r] # Idle
      BY <2>1 DEF Idle, Concluding
    <2>3. QED
      BY <1>1, <1>2, <1>3, <2>1, <2>2 DEF OwnJob, Concluding
  <1>4. CASE /\ run[r].stage = "record"
             /\ jobs' = Append(jobs, [dest |-> run[r].dir, status |-> "running"])
             /\ run'[r].job = Len(jobs) + 1
             /\ run'[r].stage = "list"
    <2>1. /\ DOMAIN jobs' = 1 .. Len(jobs) + 1 /\ DOMAIN jobs = 1 .. Len(jobs)
          /\ Len(jobs) \in Nat
          /\ jobs'[Len(jobs) + 1] = [dest |-> run[r].dir, status |-> "running"]
          /\ \A i \in DOMAIN jobs : jobs'[i] = jobs[i]
      BY <1>4 DEF BackupTypeOK
    <2>2. \A q \in Run : q # r /\ run[q] # Idle => run[q].job \in 0 .. Len(jobs)
      <3> SUFFICES ASSUME NEW q \in Run, run[q] # Idle PROVE run[q].job \in 0 .. Len(jobs)
        OBVIOUS
      <3>1. run[q].stage \in {"place", "record"} \/ run[q].stage \in Concluding
        <4>1. run[q].stage \in Stages
          BY RunFacts DEF Runs
        <4>2. QED
          BY <4>1 DEF Stages, Concluding
      <3>2. CASE run[q].stage \in {"place", "record"}
        <4>1. run[q].job = 0
          BY <3>2 DEF OwnJob
        <4>2. QED
          BY <2>1, <4>1
      <3>3. CASE run[q].stage \in Concluding
        <4>1. run[q].job \in DOMAIN jobs
          BY <3>3 DEF OwnJob
        <4>2. QED
          BY <2>1, <4>1
      <3>4. QED
        BY <3>1, <3>2, <3>3
    <2>3. \A q \in Run : q # r /\ run[q].stage \in Concluding => run[q].job \in DOMAIN jobs
      BY DEF OwnJob
    <2>4. QED
      BY <1>1, <1>4, <2>1, <2>2, <2>3 DEF OwnJob, Concluding
  <1>5. QED
    BY <1>3, <1>4, WorkingJobs

LEMMA WorkingKeepsVerifiedHolds ==
    ASSUME BackupTypeOK, OneWriter, VerifiedHolds, NEW r \in Run, Working(r)
    PROVE  VerifiedHolds'
  <1>1. /\ Holds(r)
        /\ \A q \in Run : q # r => run'[q] = run[q]
        /\ run'[r].dir = run[r].dir
    BY WorkingRun
  <1>2. ASSUME NEW i \in DOMAIN jobs', jobs'[i].status = "verified"
        PROVE  i \in DOMAIN jobs /\ jobs'[i] = jobs[i]
    <2>1. CASE UNCHANGED jobs
      BY <1>2, <2>1
    <2>2. CASE jobs' = Append(jobs, [dest |-> run[r].dir, status |-> "running"])
      BY <1>2, <2>2 DEF BackupTypeOK
    <2>3. QED
      BY <2>1, <2>2, WorkingJobs
  <1>3. ASSUME NEW i \in DOMAIN jobs, jobs[i].status = "verified"
        PROVE  /\ disk'[jobs[i].dest] = disk[jobs[i].dest]
               /\ \A q \in Run : Holds(q)' => run'[q].dir # jobs[i].dest
    <2>1. jobs[i].dest \in Dir /\ jobs[i].dest # run[r].dir
      <3>1. jobs[i] \in Job
        BY DEF BackupTypeOK
      <3>2. QED
        BY <1>1, <1>3, <3>1 DEF VerifiedHolds, Job
    <2>2. QED
      BY <1>1, <1>3, <2>1, WorkingDisk DEF VerifiedHolds, Holds
  <1>4. QED
    BY <1>2, <1>3 DEF VerifiedHolds, Matches

LEMMA WorkingKeepsWrittenManifest ==
    ASSUME BackupTypeOK, OneWriter, WrittenManifest, NEW r \in Run, Working(r)
    PROVE  WrittenManifest'
  <1> DEFINE d == run[r].dir
  <1>1. /\ Holds(r) /\ run[r] \in Runs /\ d \in Dir /\ disk[d] \in Folder
        /\ \A q \in Run : q # r => run'[q] = run[q]
    BY WorkingRun DEF OneWriter, Runs, BackupTypeOK
  <1>2. ASSUME NEW q \in Run, q # r, run[q].stage \in {"verify", "conclude"}
        PROVE  run'[q] = run[q] /\ disk'[run[q].dir] = disk[run[q].dir]
    <2>1. Holds(q) /\ run[q].dir \in Dir /\ run[q].dir # d
      BY <1>1, <1>2, RunFacts DEF OneWriter, Holds, Idle
    <2>2. QED
      BY <1>1, <1>2, <2>1, WorkingDisk
  <1>3. ASSUME run'[r].stage \in {"verify", "conclude"}
        PROVE  LET folder == disk'[run'[r].dir] IN
                 /\ folder # Absent
                 /\ folder.listing = [entries |-> run'[r].manifest,
                                      hashes |-> run'[r].mode = "sha256"]
                 /\ run'[r].stage = "conclude" /\ run'[r].outcome = "verified" =>
                      Matches(folder, folder.listing.entries, folder.listing.hashes)
    <2>1. CASE WriteManifest(r)
      <3> DEFINE files == [f \in File |-> IF f = ManifestFile THEN ManifestText
                                          ELSE disk[d].files[f]]
                 l == [entries |-> run[r].manifest, hashes |-> run[r].mode = "sha256"]
      <3>1. disk'[d] = [disk[d] EXCEPT !.listing = l, !.files = files]
        BY <1>1, <2>1 DEF WriteManifest, BackupTypeOK
      <3>2. disk'[d].listing = l
        BY <1>1, <3>1 DEF Folder
      <3>3. run'[r] = [run[r] EXCEPT !.stage = "verify"]
        BY <2>1 DEF WriteManifest, Step, BackupTypeOK
      <3>4. /\ run'[r].stage = "verify" /\ run'[r].dir = d
            /\ run'[r].manifest = run[r].manifest /\ run'[r].mode = run[r].mode
        BY <1>1, <3>3 DEF Runs
      <3>5. disk'[d] # Absent
        BY <3>4, WorkingDisk DEF Holds
      <3>6. QED
        BY <3>2, <3>4, <3>5
    <2>2. CASE Verify(r)
      <3>1. PICK v : Conclusion(r, v)
        BY <2>2 DEF Verify
      <3>2. run'[r] = [run[r] EXCEPT !.stage = "conclude", !.outcome = v]
        BY <3>1 DEF Conclusion, BackupTypeOK
      <3>3. /\ run'[r].stage = "conclude" /\ run'[r].dir = d /\ run'[r].outcome = v
            /\ run'[r].manifest = run[r].manifest /\ run'[r].mode = run[r].mode
        BY <1>1, <3>2 DEF Runs
      <3>4. v = "verified" => Matches(disk[d], run[r].manifest, run[r].mode = "sha256")
        BY <2>2, <3>3 DEF Verify, Conclusion, BackupTypeOK
      <3>5. /\ disk' = disk /\ disk[d] # Absent
            /\ disk[d].listing = [entries |-> run[r].manifest,
                                  hashes |-> run[r].mode = "sha256"]
        BY <2>2 DEF Verify, Busy, WrittenManifest
      <3>6. QED
        BY <3>3, <3>4, <3>5
    <2>3. QED
      BY <1>3, <2>1, <2>2, StageAfter
  <1>4. SUFFICES ASSUME NEW q \in Run, run'[q].stage \in {"verify", "conclude"}
                 PROVE  LET folder == disk'[run'[q].dir] IN
                          /\ folder # Absent
                          /\ folder.listing = [entries |-> run'[q].manifest,
                                               hashes |-> run'[q].mode = "sha256"]
                          /\ run'[q].stage = "conclude" /\ run'[q].outcome = "verified" =>
                               Matches(folder, folder.listing.entries, folder.listing.hashes)
    BY DEF WrittenManifest, Matches
  <1>5. CASE q = r
    BY <1>3, <1>4, <1>5
  <1>6. CASE q # r
    <2>1. run'[q] = run[q] /\ disk'[run[q].dir] = disk[run[q].dir]
      BY <1>1, <1>2, <1>4, <1>6
    <2>2. QED
      BY <1>4, <2>1 DEF WrittenManifest
  <1>7. QED
    BY <1>5, <1>6

LEMMA WorkingKeepsInv ==
    ASSUME BackupInv, NEW r \in Run, Working(r)
    PROVE  BackupInv'
  <1>1. RunStep(r)
    BY DEF Working, RunStep
  <1>2. QED
    BY <1>1, RunStepKeepsTypes, WorkingKeepsOneWriter, WorkingKeepsOwnJob,
       WorkingKeepsVerifiedHolds, WorkingKeepsWrittenManifest
    DEF BackupInv

\* Job rows are counted from 1.
LEMMA ConcludingHasJob ==
    ASSUME BackupTypeOK, OwnJob, NEW r \in Run, run[r].stage \in Concluding
    PROVE  run[r].job # 0
  <1>1. DOMAIN jobs = 1 .. Len(jobs) /\ Len(jobs) \in Nat
    BY DEF BackupTypeOK
  <1>2. run[r].job \in DOMAIN jobs
    BY DEF OwnJob
  <1>3. QED
    BY <1>1, <1>2

\* A run that has no directory yet, or does not hold it any more, and whose
\* step touches neither folders nor jobs.
LEMMA BareMoveKeepsInv ==
    ASSUME BackupInv, BackupTypeOK', NEW r \in Run,
           \A q \in Run : q # r => run'[q] = run[q],
           run'[r] = Idle \/ (run'[r].stage = "place" /\ run'[r].job = 0),
           UNCHANGED <<disk, jobs>>
    PROVE  BackupInv'
  <1> USE DEF BackupInv
  <1>1. ~ Holds(r)' /\ run'[r].stage \notin Concluding \union {"record"}
    BY DEF Holds, Idle, Concluding
  <1>2. OneWriter' /\ VerifiedHolds'
    BY <1>1 DEF OneWriter, VerifiedHolds, Holds, Matches
  <1>3. OwnJob'
    <2>1. run'[r] # Idle => run'[r].job = 0
      OBVIOUS
    <2>2. \A q \in Run : run[q].stage \in Concluding => run[q].job # 0
      BY ConcludingHasJob
    <2>3. QED
      BY <1>1, <2>1, <2>2 DEF OwnJob, Idle, Concluding
  <1>4. WrittenManifest'
    BY <1>1 DEF WrittenManifest, Matches, Concluding
  <1>5. QED
    BY <1>2, <1>3, <1>4

LEMMA MakeDirKeepsInv ==
    ASSUME BackupInv, NEW r \in Run, MakeDir(r)
    PROVE  BackupInv'
  <1> USE DEF BackupInv
  <1> DEFINE d == run[r].dir
  <1>1. BackupTypeOK'
    BY RunStepKeepsTypes DEF RunStep
  <1>2. /\ run[r] \in Runs /\ d \in Dir /\ run[r].job = 0 /\ ~ Holds(r)
        /\ \A q \in Run : q # r => run'[q] = run[q]
    BY BusyFacts, RunFacts DEF MakeDir, Busy, Stages, Step, BackupTypeOK, OwnJob, Holds
  <1>3. CASE disk[d] # Absent
    <2>1. run'[r] = Idle /\ UNCHANGED <<disk, jobs>>
      BY <1>3 DEF MakeDir, BackupTypeOK
    <2>2. QED
      BY <1>1, <1>2, <2>1, BareMoveKeepsInv
  <1>4. CASE disk[d] = Absent
    <2>1. /\ disk'[d] = NewFolder /\ disk'[d] # Absent
          /\ \A e \in Dir : e # d => disk'[e] = disk[e]
          /\ jobs' = jobs
      BY <1>2, <1>4, NothingIsEntries, FolderIsThere DEF MakeDir, BackupTypeOK
    <2>2. run'[r] = [run[r] EXCEPT !.stage = "record"]
      BY <1>4 DEF MakeDir, Step, BackupTypeOK
    <2>3. run'[r].stage = "record" /\ run'[r].dir = d /\ run'[r].job = 0
      BY <1>2, <2>2 DEF Runs
    <2>4. \A q \in Run : Holds(q) => run[q].dir \in Dir /\ run[q].dir # d
      BY <1>4, RunFacts DEF OneWriter, Holds, Idle
    <2>5. OneWriter'
      BY <1>2, <2>1, <2>3, <2>4 DEF OneWriter, Holds
    <2>6. OwnJob'
      <3>1. \A q \in Run : run[q].stage \in Concluding => run[q].job # 0
        BY ConcludingHasJob
      <3>2. QED
        BY <1>2, <2>1, <2>3, <3>1 DEF OwnJob, Concluding
    <2>7. WrittenManifest'
      <3>1. \A q \in Run : q # r /\ run[q].stage \in {"verify", "conclude"} =>
                disk'[run[q].dir] = disk[run[q].dir]
        BY <2>1, <2>4 DEF Holds
      <3>2. QED
        BY <1>2, <2>3, <3>1 DEF WrittenManifest, Matches
    <2>8. VerifiedHolds'
      <3>1. ASSUME NEW i \in DOMAIN jobs, jobs[i].status = "verified"
            PROVE  jobs[i].dest \in Dir /\ jobs[i].dest # d
        <4>1. jobs[i] \in Job
          BY DEF BackupTypeOK
        <4>2. QED
          BY <1>4, <3>1, <4>1 DEF VerifiedHolds, Job
      <3>2. QED
        BY <1>2, <2>1, <2>3, <3>1 DEF VerifiedHolds, Holds, Matches
    <2>9. QED
      BY <1>1, <2>5, <2>6, <2>7, <2>8
  <1>5. QED
    BY <1>3, <1>4

\* Concluding a job gives the directory up, so a row that now says VERIFIED
\* speaks of a folder nobody holds.
LEMMA SaveJobKeepsInv ==
    ASSUME BackupInv, NEW r \in Run, Conclude(r) \/ SaveFailure(r)
    PROVE  BackupInv'
  <1> USE DEF BackupInv
  <1> DEFINE i == run[r].job
  <1>1. BackupTypeOK'
    BY SaveJobKeepsTypes
  <1>2. /\ run[r].stage \in {"conclude", "save"} /\ run[r] \in Runs
        /\ i \in DOMAIN jobs /\ jobs[i] = [dest |-> run[r].dir, status |-> "running"]
    <2>1. run[r].stage \in {"conclude", "save"}
      BY DEF Conclude, SaveFailure, Busy
    <2>2. QED
      BY <2>1, BusyFacts, RunFacts DEF Stages, OwnJob, Concluding
  <1>3. PICK st : /\ SaveJob(r, st)
                  /\ st = "verified" =>
                       run[r].stage = "conclude" /\ run[r].outcome = "verified"
    <2>1. CASE SaveFailure(r)
      BY <2>1 DEF SaveFailure, Busy, OwnJob
    <2>2. CASE Conclude(r)
      BY <2>2 DEF Conclude, Busy
    <2>3. QED
      BY <2>1, <2>2
  <1>4. /\ run'[r] = Idle /\ disk' = disk
        /\ \A q \in Run : q # r => run'[q] = run[q]
        /\ DOMAIN jobs' = DOMAIN jobs
        /\ \A k \in DOMAIN jobs : k # i => jobs'[k] = jobs[k]
        /\ jobs'[i] = [dest |-> run[r].dir, status |-> st]
    BY <1>2, <1>3 DEF SaveJob, BackupTypeOK
  <1>5. ~ Holds(r)' /\ run'[r].stage = "idle"
    BY <1>4 DEF Holds, Idle
  <1>6. OneWriter'
    BY <1>4, <1>5 DEF OneWriter, Holds
  <1>7. OwnJob'
    <2>1. \A q \in Run : q # r /\ run[q].stage \in Concluding => run[q].job # i
      <3>1. run[r].stage \in Concluding /\ run[r] # Idle
        BY <1>2 DEF Concluding, Idle
      <3>2. QED
        BY <1>2, <3>1 DEF OwnJob
    <2>2. QED
      BY <1>4, <1>5, <2>1 DEF OwnJob, Concluding
  <1>8. WrittenManifest'
    BY <1>4, <1>5 DEF WrittenManifest, Matches
  <1>9. VerifiedHolds'
    <2>1. ASSUME st = "verified"
          PROVE  LET folder == disk[run[r].dir] IN
                   /\ folder # Absent /\ folder.listing # Absent
                   /\ Matches(folder, folder.listing.entries, folder.listing.hashes)
                   /\ \A q \in Run : Holds(q)' => run'[q].dir # run[r].dir
      <3>1. run[r].stage = "conclude" /\ run[r].outcome = "verified" /\ Holds(r)
        BY <1>3, <2>1 DEF Holds
      <3>2. \A q \in Run : Holds(q)' => run'[q].dir # run[r].dir
        BY <1>4, <1>5, <3>1 DEF OneWriter, Holds
      <3>3. [entries |-> run[r].manifest, hashes |-> run[r].mode = "sha256"] \in Listing
        BY <1>2 DEF Runs, Listing
      <3>4. QED
        BY <3>1, <3>2, <3>3, BackupAssumption DEF WrittenManifest
    <2>2. QED
      BY <1>2, <1>4, <1>5, <2>1 DEF VerifiedHolds, Holds, Matches
  <1>10. QED
    BY <1>1, <1>6, <1>7, <1>8, <1>9

LEMMA CopyAlteredKeepsInv ==
    ASSUME BackupInv, NEW r \in Run, NEW f \in File, NEW c \in Content \union {Absent},
           CopyAltered(r, f, c)
    PROVE  BackupInv'
  <1> USE DEF BackupInv
  <1> DEFINE d == run[r].dir
  <1>1. BackupTypeOK'
    BY OthersKeepTypes
  <1>2. /\ Holds(r) /\ d \in Dir /\ disk[d] \in Folder
        /\ run[r].stage # "conclude" /\ jobs' = jobs /\ run' = run
    BY BusyFacts, RunFacts
    DEF CopyAltered, Busy, OneWriter, Holds, BackupTypeOK, Stages
  <1>3. /\ disk'[d] = [disk[d] EXCEPT !.files[f] = c]
        /\ \A e \in Dir : e # d => disk'[e] = disk[e]
    BY <1>2 DEF CopyAltered, BackupTypeOK
  <1>4. disk'[d] # Absent /\ disk'[d].listing = disk[d].listing
    <2>1. [disk[d] EXCEPT !.files[f] = c] \in Folder
      BY <1>2, FolderFacts
    <2>2. QED
      BY <1>2, <1>3, <2>1, FolderIsThere DEF Folder
  <1>5. \A q \in Run : Holds(q) /\ q # r => run[q].dir \in Dir /\ run[q].dir # d
    BY <1>2, RunFacts DEF OneWriter, Holds, Idle
  <1>6. OneWriter' /\ OwnJob'
    BY <1>2, <1>3, <1>4, <1>5 DEF OneWriter, OwnJob, Holds
  <1>7. WrittenManifest'
    <2>1. \A q \in Run : q # r /\ run[q].stage \in {"verify", "conclude"} =>
              disk'[run[q].dir] = disk[run[q].dir]
      BY <1>3, <1>5 DEF Holds
    <2>2. QED
      BY <1>2, <1>4, <2>1 DEF WrittenManifest, Matches
  <1>8. VerifiedHolds'
    <2>1. ASSUME NEW i \in DOMAIN jobs, jobs[i].status = "verified"
          PROVE  disk'[jobs[i].dest] = disk[jobs[i].dest]
      <3>1. jobs[i] \in Job
        BY DEF BackupTypeOK
      <3>2. QED
        BY <1>2, <1>3, <2>1, <3>1 DEF VerifiedHolds, Job
    <2>2. QED
      BY <1>2, <2>1 DEF VerifiedHolds, Holds, Matches
  <1>9. QED
    BY <1>1, <1>6, <1>7, <1>8

LEMMA BackupInvInit == BackupInit => BackupInv
  <1> SUFFICES ASSUME BackupInit PROVE BackupInv
    OBVIOUS
  <1>1. DOMAIN jobs = {} /\ \A r \in Run : run[r].stage = "idle"
    BY DEF BackupInit, Idle
  <1>2. QED
    BY <1>1, BackupTypeInit
    DEF BackupInv, OneWriter, OwnJob, WrittenManifest, VerifiedHolds, Holds, Concluding

LEMMA BackupInvStep == BackupInv /\ [BackupNext]_backupVars => BackupInv'
  <1> SUFFICES ASSUME BackupInv, [BackupNext]_backupVars PROVE BackupInv'
    OBVIOUS
  <1> USE DEF BackupInv
  <1>1. ASSUME NEW r \in Run, RunStep(r) PROVE BackupInv'
    <2>1. ASSUME NEW m \in Mode, NEW s \in Stamp, NEW n \in 0 .. MaxCounter, Begin(r, m, s, n)
          PROVE  BackupInv'
      <3>1. /\ run'[r].stage = "place" /\ run'[r].job = 0
            /\ \A q \in Run : q # r => run'[q] = run[q]
            /\ UNCHANGED <<disk, jobs>>
        BY <2>1 DEF Begin, BackupTypeOK
      <3>2. QED
        BY <2>1, <3>1, BeginKeepsTypes, BareMoveKeepsInv
    <2>2. CASE Escape(r)
      <3>1. /\ run'[r] = Idle
            /\ \A q \in Run : q # r => run'[q] = run[q]
            /\ UNCHANGED <<disk, jobs>>
        BY <2>2 DEF Escape, BackupTypeOK
      <3>2. BackupTypeOK'
        BY <1>1, RunStepKeepsTypes
      <3>3. QED
        BY <3>1, <3>2, BareMoveKeepsInv
    <2>3. QED
      BY <1>1, <2>1, <2>2, MakeDirKeepsInv, SaveJobKeepsInv, WorkingKeepsInv
      DEF RunStep, Working
  <1>2. ASSUME UNCHANGED <<disk, jobs, run>>, BackupTypeOK' PROVE BackupInv'
    BY <1>2 DEF OneWriter, OwnJob, WrittenManifest, VerifiedHolds, Holds, Matches
  <1>3. ASSUME NEW r \in Run, Cancel(r) PROVE BackupInv'
    BY <1>2, <1>3, OthersKeepTypes DEF Cancel
  <1>4. ASSUME NEW f \in File, NEW c \in Content \union {Absent}, SourceChanges(f, c)
        PROVE  BackupInv'
    BY <1>2, <1>4, OthersKeepTypes DEF SourceChanges
  <1>5. ASSUME NEW r \in Run, NEW f \in File, NEW c \in Content \union {Absent},
               CopyAltered(r, f, c)
        PROVE  BackupInv'
    BY <1>5, CopyAlteredKeepsInv
  <1>6. CASE Crash
    <2>1. \A r \in Run : run'[r].stage = "idle"
      BY <1>6 DEF Crash, Idle
    <2>2. QED
      BY <1>6, <2>1, OthersKeepTypes
      DEF Crash, OneWriter, OwnJob, WrittenManifest, VerifiedHolds, Holds, Concluding, Matches
  <1>7. CASE UNCHANGED backupVars
    BY <1>2, <1>7, OthersKeepTypes DEF backupVars
  <1>8. QED
    BY <1>1, <1>3, <1>4, <1>5, <1>6, <1>7 DEF BackupNext

\* Whatever the runs, the source, the operator, failures and crashes do: no
\* directory has two writers, a job that says VERIFIED does so of a folder
\* that still matches its manifest.
THEOREM BackupInvariant == BackupSpec => []BackupInv
  BY BackupInvInit, BackupInvStep, PTL DEF BackupSpec

\* Earlier backups and folders that were there before stay as they are.
THEOREM OthersUntouchedAlways == BackupSpec => OthersUntouched
  <1> DEFINE Untouched(d) ==
        disk[d] # Absent /\ (\A r \in Run : Holds(r) => run[r].dir # d) => disk'[d] = disk[d]
      Takes(r) == ~ Holds(r) /\ Holds(r)' => disk[run'[r].dir] = Absent
  <1>1. ASSUME BackupInv, [BackupNext]_backupVars
        PROVE  \A d \in Dir : Untouched(d)
    <2> SUFFICES ASSUME NEW d \in Dir, disk[d] # Absent,
                        \A r \in Run : Holds(r) => run[r].dir # d
                 PROVE  disk'[d] = disk[d]
      OBVIOUS
    <2>1. ASSUME NEW r \in Run, RunStep(r) PROVE disk'[d] = disk[d]
      <3>1. CASE MakeDir(r)
        <4>1. CASE disk[run[r].dir] = Absent
          BY <1>1, <3>1, <4>1 DEF MakeDir, BackupInv, BackupTypeOK
        <4>2. CASE disk[run[r].dir] # Absent
          BY <3>1, <4>2 DEF MakeDir
        <4>3. QED
          BY <4>1, <4>2
      <3>2. CASE Working(r)
        <4>1. BackupTypeOK /\ OneWriter
          BY <1>1 DEF BackupInv
        <4>2. Holds(r)
          BY <3>2, <4>1, WorkingRun
        <4>3. d # run[r].dir
          BY <4>2
        <4>4. QED
          BY <3>2, <4>1, <4>3, WorkingDisk
      <3>3. CASE Conclude(r) \/ SaveFailure(r) \/ Escape(r)
        BY <3>3 DEF Conclude, SaveFailure, SaveJob, Escape
      <3>4. CASE \E m \in Mode, s \in Stamp, n \in 0 .. MaxCounter : Begin(r, m, s, n)
        BY <3>4 DEF Begin
      <3>5. QED
        BY <2>1, <3>1, <3>2, <3>3, <3>4 DEF RunStep, Working
    <2>2. ASSUME NEW r \in Run, NEW f \in File, NEW c \in Content \union {Absent},
                 CopyAltered(r, f, c)
          PROVE  disk'[d] = disk[d]
      BY <2>2 DEF CopyAltered, Busy, Holds, BackupInv, BackupTypeOK
    <2>3. CASE UNCHANGED disk
      BY <2>3
    <2>4. QED
      BY <1>1, <2>1, <2>2, <2>3 DEF BackupNext, Cancel, SourceChanges, Crash, backupVars
  <1>2. ASSUME BackupInv, [BackupNext]_backupVars
        PROVE  \A r \in Run : Takes(r)
    <2> SUFFICES ASSUME NEW r \in Run, ~ Holds(r), Holds(r)'
                 PROVE  disk[run'[r].dir] = Absent
      OBVIOUS
    <2>1. run' # run /\ run'[r] # run[r] /\ run'[r] # Idle
      BY DEF Holds, Idle
    <2>2. PICK q \in Run : RunStep(q)
      BY <1>2, <2>1 DEF BackupNext, Cancel, SourceChanges, CopyAltered, Crash, backupVars
    <2>3. BackupTypeOK
      BY <1>2 DEF BackupInv
    <2>4. CASE MakeDir(q)
      <3>1. q = r
        BY <2>1, <2>3, <2>4 DEF MakeDir, Step, BackupTypeOK
      <3>2. disk[run[r].dir] = Absent
        BY <2>1, <2>3, <2>4, <3>1 DEF MakeDir, BackupTypeOK
      <3>3. run'[r].dir = run[r].dir
        <4>1. run[r] \in Runs
          BY <2>3, <2>4, <3>1, BusyFacts, RunFacts DEF MakeDir, Busy, Stages
        <4>2. run'[r] = [run[r] EXCEPT !.stage = "record"]
          BY <2>3, <2>4, <3>1, <3>2 DEF MakeDir, Step, BackupTypeOK
        <4>3. QED
          BY <4>1, <4>2 DEF Runs
      <3>4. QED
        BY <3>2, <3>3
    <2>5. CASE Working(q)
      BY <2>1, <2>3, <2>5, WorkingRun
    <2>6. CASE Conclude(q) \/ SaveFailure(q) \/ Escape(q)
      BY <2>1, <2>3, <2>6 DEF Conclude, SaveFailure, SaveJob, Escape, BackupTypeOK
    <2>7. CASE \E m \in Mode, s \in Stamp, n \in 0 .. MaxCounter : Begin(q, m, s, n)
      <3>1. run'[r] = run[r] \/ run'[r].stage = "place"
        BY <2>3, <2>7 DEF Begin, BackupTypeOK
      <3>2. QED
        BY <2>1, <3>1 DEF Holds
    <2>8. QED
      BY <2>2, <2>4, <2>5, <2>6, <2>7 DEF RunStep, Working
  <1>3. QED
    BY <1>1, <1>2, BackupInvariant, PTL DEF BackupSpec, OthersUntouched

=============================================================================
