---------------------------- MODULE MCDirWatcher ----------------------------
(* Small instances of DirWatcher for TLC. *)
EXTENDS DirIngestion

CONSTANT MaxCopies  \* bound on the copies of a line, for the files that are read
                    \* again by every scan

None == {}

\* The third line of the first generation is over 1 MiB: a batch of two is
\* committed before it.
ThirdOfFirst == {<<1, 3>>}

CopiesBounded == \A l \in Lines : requests[l] <= MaxCopies
=============================================================================
