--------------------------- MODULE MCArchiveFile ----------------------------
(* Model values for the runs of ArchiveFile.                               *)
EXTENDS ArchiveFileProps, TLC

Symmetry == Permutations(Keys) \cup Permutations(Readers)
=============================================================================
