---------------------------- MODULE MCFAT32Volume ----------------------------
(* TLC instances of FAT32Volume: two names, two entries to a cluster.      *)
EXTENDS FAT32Volume, TLC

\* Names are interchangeable.
NameSymmetry == Permutations(Names)

=============================================================================
