\* A page that may start two backups.
CONSTANTS
    Call <- TwoRuns
    None = None
SPECIFICATION BackupPageSpec
PROPERTY EveryBackupAnswered
CHECK_DEADLOCK FALSE
