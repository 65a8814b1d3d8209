----------------------------- MODULE ExportFiles -----------------------------
(* The report and export services write a file per export, from the threads of
   the pages and of the REST API, into one directory. A file's name is its stem,
   the second, and a counter that is raised while a file of that name exists;
   the file is created later, when the writer opens it. *)

EXTENDS Integers

CONSTANTS
    Export,     \* the exports, one for each call
    Stem,       \* kinds of files: two reports may share a stem
    Unnamed,    \* an export that has not taken a name
    MaxSecond   \* bound: the seconds

VARIABLES
    second,     \* the clock, at the resolution of the names
    files,      \* files[name]: whose rows are in the file, and whether it is whole
    exports,    \* exports[e]: the stage, the candidate or the file, and, as history,
                \* the files that were whole when the name was looked for
    recorded    \* the names in the activity log

exportFileVars == <<second, files, exports, recorded>>

FileName == [stem : Stem, second : 0 .. MaxSecond, counter : Nat]

ASSUME ExportFilesAssumption == MaxSecond \in Nat /\ Unnamed \notin FileName

ExportFilesInit ==
    /\ second = 0 /\ files = << >> /\ recorded = {}
    /\ exports = [e \in Export |-> [stage |-> "called", name |-> Unnamed, before |-> {}]]

-----------------------------------------------------------------------------
Whole == {f \in DOMAIN files : files[f].whole}

\* The dataset is read: an unknown report or no device is a ValueError.
BuildFails(e) ==
    /\ exports[e].stage = "called"
    /\ exports' = [exports EXCEPT ![e].stage = "failed"]
    /\ UNCHANGED <<second, files, recorded>>

\* _target_path: the stamp is taken once, before the loop.
Stamp(e, stem) ==
    /\ exports[e].stage = "called"
    /\ exports' = [exports EXCEPT ![e] =
         [stage |-> "looking", before |-> Whole,
          name |-> [stem |-> stem, second |-> second, counter |-> 0]]]
    /\ UNCHANGED <<second, files, recorded>>

\* Bug: the first candidate is taken unseen.
ExistsCounted(name) == name \in DOMAIN files /\ name.counter > 0

Exists(name) == name \in DOMAIN files

NextCandidate(e) ==
    /\ exports[e].stage = "looking" /\ Exists(exports[e].name)
    /\ exports' = [exports EXCEPT ![e].name.counter = @ + 1]
    /\ UNCHANGED <<second, files, recorded>>

\* The loop ends: the directory is made, and the name is returned.
TakeName(e) ==
    /\ exports[e].stage = "looking" /\ ~ Exists(exports[e].name)
    /\ exports' = [exports EXCEPT ![e].stage = "named"]
    /\ UNCHANGED <<second, files, recorded>>

\* mkdir, open or a write raises OSError: ExportError. What was written stays.
WriteFails(e) ==
    /\ exports[e].stage \in {"looking", "named", "writing"}
    /\ exports' = [exports EXCEPT ![e].stage = "failed"]
    /\ UNCHANGED <<second, files, recorded>>

\* The file is opened for writing: a file of that name is emptied.
OpenFile(e) ==
    /\ exports[e].stage = "named"
    /\ exports' = [exports EXCEPT ![e].stage = "writing"]
    /\ files' = [f \in {exports[e].name} \union DOMAIN files |->
                    IF f = exports[e].name THEN [rows |-> {}, whole |-> FALSE] ELSE files[f]]
    /\ UNCHANGED <<second, recorded>>

\* The rows are flushed and the file is closed; another export may have it open.
CloseFile(e) ==
    /\ exports[e].stage = "writing"
    /\ exports' = [exports EXCEPT ![e].stage = "written"]
    /\ files' = [files EXCEPT ![exports[e].name] =
                   [rows |-> @.rows \union {e}, whole |-> TRUE]]
    /\ UNCHANGED <<second, recorded>>

Record(e) ==
    /\ exports[e].stage = "written"
    /\ exports' = [exports EXCEPT ![e].stage = "answered"]
    /\ recorded' = recorded \union {exports[e].name}
    /\ UNCHANGED <<second, files>>

\* The file is written, and the export raises all the same.
RecordFails(e) ==
    /\ exports[e].stage = "written"
    /\ exports' = [exports EXCEPT ![e].stage = "failed"]
    /\ UNCHANGED <<second, files, recorded>>

SecondPasses ==
    /\ second < MaxSecond
    /\ second' = second + 1
    /\ UNCHANGED <<files, exports, recorded>>

ExportFilesNext ==
    \/ \E e \in Export :
         \/ BuildFails(e) \/ NextCandidate(e) \/ TakeName(e) \/ WriteFails(e)
         \/ OpenFile(e) \/ CloseFile(e) \/ Record(e) \/ RecordFails(e)
         \/ \E stem \in Stem : Stamp(e, stem)
    \/ SecondPasses

ExportFilesSpec == ExportFilesInit /\ [][ExportFilesNext]_exportFileVars

-----------------------------------------------------------------------------
(* Properties *)

ExportFilesTypeOK ==
    /\ second \in 0 .. MaxSecond /\ DOMAIN files \subseteq FileName /\ recorded \subseteq FileName
    /\ files \in [DOMAIN files -> [rows : SUBSET Export, whole : BOOLEAN]]
    /\ exports \in [Export ->
         [stage : {"called", "looking", "named", "writing", "written", "answered", "failed"},
          name : FileName \union {Unnamed}, before : SUBSET DOMAIN files]]

Opened(e) == exports[e].stage \in {"writing", "written", "answered"}

\* No export empties or adds to a file that was whole when it looked for a name.
\* A file that was answered holds the rows of its own export alone unless another
\* export took a name of the same stem in the same second. What the activity log
\* names exists.
ExportsKeepApart ==
    /\ \A e \in Export : Opened(e) => exports[e].name \notin exports[e].before
    /\ \A e \in Export : exports[e].stage = "answered" =>
         \/ files[exports[e].name] = [rows |-> {e}, whole |-> TRUE]
         \/ \E other \in Export \ {e} : exports[other].name = exports[e].name
    /\ recorded \subseteq DOMAIN files

\* Why: a name that was taken was not that of a whole file, and from its opening on
\* the file is as its export left it unless another one has taken the name, too.
Taken(e) == exports[e].stage \in {"named", "writing", "written", "answered", "failed"}

ExportFilesInv ==
    /\ ExportFilesTypeOK /\ ExportsKeepApart
    /\ \A e \in Export : exports[e].stage \notin {"called", "failed"} => exports[e].name # Unnamed
    /\ \A e \in Export : exports[e].stage = "named" => exports[e].name \notin exports[e].before
    /\ \A e \in Export : Opened(e) =>
         /\ exports[e].name \in DOMAIN files
         /\ \/ files[exports[e].name] =
                 IF exports[e].stage = "writing" THEN [rows |-> {}, whole |-> FALSE]
                 ELSE [rows |-> {e}, whole |-> TRUE]
            \/ \E other \in Export \ {e} : Taken(other) /\ exports[other].name = exports[e].name

=============================================================================
