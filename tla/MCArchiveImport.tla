-------------------------- MODULE MCArchiveImport --------------------------
(* Small instances of ArchiveImport for TLC. *)
EXTENDS ArchiveImport

\* Every archive is written on the inode of the one before it.
OneInode == [a \in Archives |-> 1]

SecondOfSecond == {<<2, 2>>}

\* With the second archive a directory source alone is explored, started once
\* and with no failed call, and the first is complete before the second begins.
Scope == made > 1 =>
    /\ \A w \in FileSources \cup Commands : pc[w] = "off"
    /\ starts = 1 /\ errors = 0 /\ \E w \in DirSources : pc[w] # "off"
    /\ \A a \in 1..(made - 1) : ended[a]
    /\ \A l \in Lines : requests[l] <= 2
=============================================================================
