---------------------------- MODULE MCBackupPage ----------------------------
EXTENDS BackupPage, TLC

\* Two runs of one page.
TwoRuns == 1 .. 2

=============================================================================
