----------------------------- MODULE MCFileTail -----------------------------
(* Small instances of FileTail for TLC. *)
EXTENDS FileTail

\* The second line of the first generation is over 1 MiB.
SecondOfFirst == {<<1, 2>>}
=============================================================================
