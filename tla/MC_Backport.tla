---------------------------- MODULE MC_Backport ----------------------------
EXTENDS Backport, TLC

\* the release versions 20.1 and 20.2
CONSTANTS v20_1, v20_2

\* two release branches, cut from master at commits 1 and 2; commit 0 is
\* older than both and commit 3 newer
MCRelease == <<[name |-> v20_1, base |-> 1], [name |-> v20_2, base |-> 2]>>
MCCommits == 0..3

=============================================================================
