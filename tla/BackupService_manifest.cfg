\* One run of a source with a manifest.json of its own, nothing altered.
CONSTANTS
    c1 = c1
    c2 = c2
    c3 = c3
    text = text
    Run = {r1}
    Stamp = {s1}
    MaxCounter = 0
    File = {manifest}
    ManifestFile = manifest
    Content = {c1, text}
    ManifestText = text
    SizeOf <- Sizes
    Absent = Absent
    MaxJob = 1
    MaxEvent = 0
SPECIFICATION BackupSpec
INVARIANT CopiesKept
