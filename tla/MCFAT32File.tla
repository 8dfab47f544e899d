----------------------------- MODULE MCFAT32File -----------------------------
(* TLC instances of FAT32File: two files, clusters of one or two bytes.    *)
EXTENDS FAT32File, TLC

\* Files are interchangeable, and so are the byte values.
FileSymmetry == Permutations(Files)
FileAndByteSymmetry == Permutations(Files) \cup Permutations(Bytes)

=============================================================================
