\* Two runs that begin in the same second, one source file, and one alteration of it
\* or of the copy.
CONSTANTS
    c1 = c1
    c2 = c2
    c3 = c3
    text = text
    Run = {r1, r2}
    Stamp = {s1}
    MaxCounter = 1
    File = {f1}
    ManifestFile = manifest
    Content = {c1, c2, text}
    ManifestText = text
    SizeOf <- Sizes
    Absent = Absent
    MaxJob = 1
    MaxEvent = 1
SYMMETRY Symmetry
SPECIFICATION BackupSpec
INVARIANT BackupInv
PROPERTY OthersUntouched
