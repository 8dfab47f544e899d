--------------------------- MODULE MCDirectorySlots ---------------------------
(* TLC instances of DirectorySlots: names of the form 8.3, and long names   *)
(* of one and two slots, some with the same basis.                          *)
EXTENDS DirectorySlots

CONSTANTS n1, n2, n3, f, g

\* Two long names that share a basis, which loses characters, and an 8.3 name.
MCLfnSlots == n1 :> 2 @@ n2 :> 1 @@ n3 :> 0
MCBasisName == n1 :> <<f, 1>> @@ n2 :> <<f, 1>> @@ n3 :> <<g, 0>>

\* The second long name loses no character, so that its basis has no tail.
LosslessBasisName == n1 :> <<f, 1>> @@ n2 :> <<f, 0>> @@ n3 :> <<g, 0>>

=============================================================================
