---------------------------- MODULE BackupService ----------------------------
(***************************************************************************)
(* run_backup, as the scheduler's pool, the backup page and the API run it *)
(* at the same time: it picks and makes a fresh directory, records a job,  *)
(* copies the source file by file, writes manifest.json, verifies the copy *)
(* and concludes the job.  Meanwhile the source changes, the operator      *)
(* cancels, the file system fails or alters a copy, the process dies.      *)
(***************************************************************************)
EXTENDS Naturals, Sequences

CONSTANTS
    Run,           \* threads that run backups
    Stamp,         \* the time stamps of directory names (local time, in seconds)
    MaxCounter,    \* bound: largest -1, -2, ... after a stamp
    File,          \* the files a source may have
    ManifestFile,  \* manifest.json at the top of the source or of a backup
    Content,       \* what a file may contain
    ManifestText,  \* the content of a manifest
    SizeOf,        \* SizeOf[c]: the size of content c
    Absent,        \* no such file, no such directory, no manifest
    MaxJob,        \* bound: no backup starts once there are this many jobs
    MaxEvent       \* bound: source changes and altered copies, in all

Dir == Stamp \X (0 .. MaxCounter)
Mode == {"none", "size", "sha256"}
Entries == [File -> Content \union {Absent}]
Listing == [entries : Entries, hashes : BOOLEAN]
Folder == [files : Entries, listing : Listing \union {Absent}]

ASSUME BackupAssumption ==
    /\ Absent \notin Content \union Listing \union Folder
    /\ ManifestText \in Content
    /\ DOMAIN SizeOf = Content
    /\ MaxCounter \in Nat /\ MaxJob \in Nat /\ MaxEvent \in Nat

VARIABLES
    source,  \* source[f]: the content of source file f, or Absent
    disk,    \* disk[d]: the folder at d under the destination root, or Absent
    jobs,    \* the backup_jobs table
    run,     \* run[r]: the backup thread r is in the middle of
    token,   \* token[r]: has the run's CancelToken been cancelled?
    events   \* source changes and altered copies so far

backupVars == <<source, disk, jobs, run, token, events>>

Idle == [stage |-> "idle"]
Stages == {"place", "record", "list", "copy", "remove", "verify", "conclude", "save"}
Runs == [stage : Stages, mode : Mode, dir : Dir, job : Nat, todo : SUBSET File,
         manifest : Entries, outcome : {"none", "verified", "failed", "cancelled"}]
Job == [dest : Dir, status : {"running", "success", "verified", "failed", "cancelled"}]

BackupTypeOK ==
    /\ source \in Entries
    /\ disk \in [Dir -> Folder \union {Absent}]
    /\ jobs \in Seq(Job)
    /\ run \in [Run -> Runs \union {Idle}]
    /\ token \in [Run -> BOOLEAN]
    /\ events \in Nat

Nothing == [f \in File |-> Absent]
NewFolder == [files |-> Nothing, listing |-> Absent]

\* Folders of earlier backups, or of anything else, may be there already.
BackupInit ==
    /\ source \in Entries
    /\ disk \in [Dir -> {Absent, NewFolder}]
    /\ jobs = <<>>
    /\ run = [r \in Run |-> Idle]
    /\ token = [r \in Run |-> FALSE]
    /\ events = 0

-----------------------------------------------------------------------------
(* run_backup, step by step *)

Busy(r, stage) == run[r].stage = stage
Step(r, stage) == run' = [run EXCEPT ![r].stage = stage]
Fails(r) == run' = [run EXCEPT ![r].stage = "save", ![r].outcome = "failed"]

\* _unique_destination looks for the first name that is not taken ...
Begin(r, m, s, n) ==
    /\ run[r] = Idle
    /\ Len(jobs) < MaxJob
    /\ disk[<<s, n>>] = Absent
    /\ \A k \in 0 .. n - 1 : disk[<<s, k>>] # Absent
    /\ run' = [run EXCEPT ![r] =
                 [stage |-> "place", mode |-> m, dir |-> <<s, n>>, job |-> 0,
                  todo |-> {}, manifest |-> Nothing, outcome |-> "none"]]
    /\ token' = [token EXCEPT ![r] = FALSE]
    /\ UNCHANGED <<source, disk, jobs, events>>

\* Bug: mkdir(exist_ok=True).
MakeDirAnyway(r) ==
    /\ Busy(r, "place")
    /\ disk' = [disk EXCEPT ![run[r].dir] = IF @ = Absent THEN NewFolder ELSE @]
    /\ Step(r, "record")
    /\ UNCHANGED <<source, jobs, token, events>>

\* ... and makes it; if another run was faster, mkdir raises FileExistsError
\* and the backup ends before there is a job.
MakeDir(r) ==
    /\ Busy(r, "place")
    /\ IF disk[run[r].dir] = Absent
       THEN disk' = [disk EXCEPT ![run[r].dir] = NewFolder] /\ Step(r, "record")
       ELSE run' = [run EXCEPT ![r] = Idle] /\ UNCHANGED disk
    /\ UNCHANGED <<source, jobs, token, events>>

AddJob(r) ==
    /\ Busy(r, "record")
    /\ jobs' = Append(jobs, [dest |-> run[r].dir, status |-> "running"])
    /\ run' = [run EXCEPT ![r].stage = "list", ![r].job = Len(jobs) + 1]
    /\ UNCHANGED <<source, disk, token, events>>

ListSource(r) ==
    /\ Busy(r, "list")
    /\ run' = [run EXCEPT ![r].stage = "copy",
                          ![r].todo = {f \in File : source[f] # Absent}]
    /\ UNCHANGED <<source, disk, jobs, token, events>>

\* The token is looked at before each file; what the manifest records is
\* read from the copy.  A file that has gone by now makes copy2 raise.
CopyFile(r, f) ==
    /\ Busy(r, "copy")
    /\ f \in run[r].todo
    /\ ~ token[r]
    /\ IF source[f] # Absent
       THEN /\ disk' = [disk EXCEPT ![run[r].dir].files[f] = source[f]]
            /\ run' = [run EXCEPT ![r].todo = @ \ {f}, ![r].manifest[f] = source[f]]
       ELSE Fails(r) /\ UNCHANGED disk
    /\ UNCHANGED <<source, jobs, token, events>>

\* Any other OSError while listing, copying, writing or verifying.
FileSystemFails(r) ==
    /\ \/ Busy(r, "list") \/ Busy(r, "verify")
       \/ Busy(r, "copy") /\ (run[r].todo = {} \/ ~ token[r])
    /\ Fails(r)
    /\ UNCHANGED <<source, disk, jobs, token, events>>

StopCopying(r) ==
    /\ Busy(r, "copy")
    /\ run[r].todo # {}
    /\ token[r]
    /\ Step(r, "remove")
    /\ UNCHANGED <<source, disk, jobs, token, events>>

\* rmtree ignores what it cannot remove: some files, or all of the folder.
RemovePartial(r, keep) ==
    /\ Busy(r, "remove")
    /\ LET left == [f \in File |-> IF f \in keep THEN disk[run[r].dir].files[f] ELSE Absent]
       IN \/ disk' = [disk EXCEPT ![run[r].dir] = Absent]
          \/ disk' = [disk EXCEPT ![run[r].dir].files = left]
    /\ run' = [run EXCEPT ![r].stage = "save", ![r].outcome = "cancelled"]
    /\ UNCHANGED <<source, jobs, token, events>>

\* Written over a copied file of that name.
WriteManifest(r) ==
    /\ Busy(r, "copy")
    /\ run[r].todo = {}
    /\ LET d == run[r].dir IN
         disk' = [disk EXCEPT
            ![d].listing = [entries |-> run[r].manifest, hashes |-> run[r].mode = "sha256"],
            ![d].files = [f \in File |-> IF f = ManifestFile THEN ManifestText ELSE @[f]]]
    /\ Step(r, "verify")
    /\ UNCHANGED <<source, jobs, token, events>>

\* Does the folder hold every listed file, in the size (and with the hash)
\* that is listed?
Matches(folder, entries, hashes) ==
    \A f \in File : entries[f] # Absent =>
        /\ folder.files[f] # Absent
        /\ SizeOf[folder.files[f]] = SizeOf[entries[f]]
        /\ hashes => folder.files[f] = entries[f]

Conclusion(r, verdict) ==
    run' = [run EXCEPT ![r].stage = "conclude", ![r].outcome = verdict]

\* Bug: verification only looks whether the files are there.
VerifyPresence(r) ==
    /\ Busy(r, "verify")
    /\ Conclusion(r, IF run[r].mode = "none" \/ token[r] THEN "none"
                     ELSE IF \A f \in File : run[r].manifest[f] # Absent =>
                                                disk[run[r].dir].files[f] # Absent
                     THEN "verified" ELSE "failed")
    /\ UNCHANGED <<source, disk, jobs, token, events>>

Verify(r) ==
    /\ Busy(r, "verify")
    /\ Conclusion(r, IF run[r].mode = "none" \/ token[r] THEN "none"
                     ELSE IF Matches(disk[run[r].dir], run[r].manifest,
                                     run[r].mode = "sha256")
                     THEN "verified" ELSE "failed")
    /\ UNCHANGED <<source, disk, jobs, token, events>>

SaveJob(r, status) ==
    /\ jobs' = [jobs EXCEPT ![run[r].job].status = status]
    /\ run' = [run EXCEPT ![r] = Idle]
    /\ UNCHANGED <<source, disk, token, events>>

\* A token cancelled after the last file was copied cancels the job all the
\* same, and nothing is removed.
Conclude(r) ==
    /\ Busy(r, "conclude")
    /\ SaveJob(r, IF token[r] THEN "cancelled"
                  ELSE IF run[r].outcome = "none" THEN "success"
                  ELSE run[r].outcome)

\* The job of a run that ended in an exception.
SaveFailure(r) == Busy(r, "save") /\ SaveJob(r, run[r].outcome)

\* An exception that run_backup does not catch (the database fails, a progress
\* callback raises) ends the run where it is; the job goes on saying "running".
Escape(r) ==
    /\ run[r] # Idle
    /\ run' = [run EXCEPT ![r] = Idle]
    /\ UNCHANGED <<source, disk, jobs, token, events>>

-----------------------------------------------------------------------------
(* The operator and the environment *)

Cancel(r) ==
    /\ run[r] # Idle
    /\ token' = [token EXCEPT ![r] = TRUE]
    /\ UNCHANGED <<source, disk, jobs, run, events>>

Event == events < MaxEvent /\ events' = events + 1

SourceChanges(f, c) ==
    /\ Event
    /\ source' = [source EXCEPT ![f] = c]
    /\ UNCHANGED <<disk, jobs, run, token>>

\* A copy that is not verified yet is altered or lost.
CopyAltered(r, f, c) ==
    /\ Event
    /\ Busy(r, "copy") \/ Busy(r, "verify")
    /\ disk' = [disk EXCEPT ![run[r].dir].files[f] = c]
    /\ UNCHANGED <<source, jobs, run, token>>

Crash ==
    /\ run' = [r \in Run |-> Idle]
    /\ UNCHANGED <<source, disk, jobs, token, events>>

RunStep(r) ==
    \/ \E m \in Mode, s \in Stamp, n \in 0 .. MaxCounter : Begin(r, m, s, n)
    \/ MakeDir(r) \/ AddJob(r) \/ ListSource(r)
    \/ \E f \in File : CopyFile(r, f)
    \/ FileSystemFails(r) \/ StopCopying(r)
    \/ \E keep \in SUBSET File : RemovePartial(r, keep)
    \/ WriteManifest(r) \/ Verify(r) \/ Conclude(r) \/ SaveFailure(r)
    \/ Escape(r)

BackupNext ==
    \/ \E r \in Run : RunStep(r) \/ Cancel(r)
    \/ \E f \in File, c \in Content \union {Absent} :
         SourceChanges(f, c) \/ \E r \in Run : CopyAltered(r, f, c)
    \/ Crash

BackupSpec == BackupInit /\ [][BackupNext]_backupVars

-----------------------------------------------------------------------------
(* Properties *)

\* The run may still write to its directory or remove it.
Holds(r) == run[r].stage \in {"record", "list", "copy", "remove", "verify", "conclude"}

Concluding == {"list", "copy", "remove", "verify", "conclude", "save"}

\* No two runs write to the same directory, whenever they started.
OneWriter ==
    \A r \in Run : Holds(r) =>
        /\ disk[run[r].dir] # Absent
        /\ \A q \in Run : Holds(q) /\ run[q].dir = run[r].dir => q = r

\* The row a run will conclude is its own and still says "running"; a run that
\* ends in an exception never claims to be verified.
OwnJob ==
    \A r \in Run :
      /\ run[r].stage \in {"place", "record"} => run[r].job = 0
      /\ run[r].stage = "save" => run[r].outcome \in {"failed", "cancelled"}
      /\ run[r].stage \in Concluding =>
           /\ run[r].job \in DOMAIN jobs
           /\ jobs[run[r].job] = [dest |-> run[r].dir, status |-> "running"]
           /\ \A q \in Run : run[q] # Idle /\ run[q].job = run[r].job => q = r

\* A manifest that has been written lists what the run copied, and a copy that
\* passed its verification still matches it.
WrittenManifest ==
    \A r \in Run : run[r].stage \in {"verify", "conclude"} =>
        LET folder == disk[run[r].dir] IN
          /\ folder # Absent
          /\ folder.listing = [entries |-> run[r].manifest, hashes |-> run[r].mode = "sha256"]
          /\ run[r].stage = "conclude" /\ run[r].outcome = "verified" =>
               Matches(folder, folder.listing.entries, folder.listing.hashes)

\* A job says VERIFIED only of a folder that is there, that nobody writes to
\* any more and that matches the manifest.json in it.
VerifiedHolds ==
    \A i \in DOMAIN jobs : jobs[i].status = "verified" =>
        LET folder == disk[jobs[i].dest] IN
          /\ folder # Absent /\ folder.listing # Absent
          /\ Matches(folder, folder.listing.entries, folder.listing.hashes)
          /\ \A r \in Run : Holds(r) => run[r].dir # jobs[i].dest

BackupInv ==
    /\ BackupTypeOK
    /\ OneWriter
    /\ OwnJob
    /\ WrittenManifest
    /\ VerifiedHolds

\* Folders of earlier backups, concluded ones and those a crash left, and
\* folders that were there before are never written to or removed: a run only
\* ever takes a directory that does not exist, and nobody else touches it.
OthersUntouched ==
    [][/\ \A d \in Dir :
            disk[d] # Absent /\ (\A r \in Run : Holds(r) => run[r].dir # d)
              => disk'[d] = disk[d]
       /\ \A r \in Run :
            ~ Holds(r) /\ Holds(r)' => disk[run'[r].dir] = Absent]_backupVars

\* "Copy source into a timestamped folder" (run_backup): a job that succeeded
\* has every file it listed, as it was copied (when nothing altered a copy).
CopiesKept ==
    \A i \in DOMAIN jobs : jobs[i].status \in {"success", "verified"} =>
        LET folder == disk[jobs[i].dest] IN
          \A f \in File : folder.listing.entries[f] # Absent =>
                            folder.files[f] = folder.listing.entries[f]

=============================================================================
