---------------------------- MODULE FilesystemPath ----------------------------
(***************************************************************************)
(* FilesystemPath: a path whose delimiters are overwritten with null       *)
(* characters, and the iterator that moves over it by offsets, in both     *)
(* directions.  A path is typed one character after the other; all that    *)
(* matters about a character is whether it is the delimiter.               *)
(***************************************************************************)
EXTENDS Integers, Sequences, SequencesExt, FiniteSetsExt

CONSTANTS
  PathLetters, \* printable characters other than the delimiter
  Delimiter,
  NullCharacter,        \* the null character
  MaxPath      \* bound

ASSUME PathAssumption == {Delimiter, NullCharacter} \cap PathLetters = {} /\ Delimiter # NullCharacter

VARIABLE path_string

IsRoot(p) == p = <<Delimiter>>
IsRelative(p) == p[1] # Delimiter

\* The path is accepted.
Parses(p) == p # << >> /\ \A i \in 2 .. Len(p) : p[i - 1] # Delimiter \/ p[i] # Delimiter

\* The characters, from offset 0, with the null character after the last one.
ParsedPath(p) ==
  [i \in 0 .. Len(p) |-> IF i = Len(p) \/ p[i + 1] = Delimiter THEN NullCharacter ELSE p[i + 1]]

Begin(p) == IF IsRelative(p) THEN 0 ELSE 1
End(p) == Len(p)

\* The element at an offset: what is before the next null character.
ElementAt(p, offset) ==
  LET parsed == ParsedPath(p)
      null == Min({i \in offset .. Len(p) : parsed[i] = NullCharacter})
  IN SubSeq(p, offset + 1, null)

Increment(p, offset) ==
  LET null == Min({i \in offset .. Len(p) : i = Len(p) \/ ParsedPath(p)[i] = NullCharacter})
  IN IF null = Len(p) THEN null ELSE null + 1

\* Mutant: the delimiter before the end is not skipped.
DecrementByOne(p, offset) ==
  LET from == IF offset > 1 THEN offset - 1 ELSE offset
      stop == Max({0} \cup {i \in 0 .. from : ParsedPath(p)[i] = NullCharacter})
  IN IF ParsedPath(p)[stop] = NullCharacter THEN stop + 1 ELSE stop

Decrement(p, offset) ==
  LET from == IF offset > 1 THEN offset - 2 ELSE offset
      stop == Max({0} \cup {i \in 0 .. from : ParsedPath(p)[i] = NullCharacter})
  IN IF ParsedPath(p)[stop] = NullCharacter THEN stop + 1 ELSE stop

\* The path up to and with the element.
FullPath(p, offset) == IF IsRoot(p) THEN p ELSE SubSeq(p, 1, offset) \o ElementAt(p, offset)

PathInit == path_string = << >>

TypePath(c) == Len(path_string) < MaxPath /\ path_string' = Append(path_string, c)

PathNext == \E c \in PathLetters \cup {Delimiter} : TypePath(c)

PathSpec == PathInit /\ [][PathNext]_path_string

-----------------------------------------------------------------------------
(* Properties.                                                             *)

\* The offsets of the elements: where a character follows a delimiter, or nothing.
PathElements(p) ==
  SetToSortSeq({i \in 0 .. (Len(p) - 1) : p[i + 1] # Delimiter /\ (i = 0 \/ p[i] = Delimiter)}, <)

ForwardOffsets(p) ==
  LET from[offset \in 0 .. Len(p)] ==
        IF offset = End(p) THEN << >> ELSE <<offset>> \o from[Increment(p, offset)]
  IN from[Begin(p)]

\* As many steps back as there are elements.
BackwardOffsets(p) ==
  LET back[k \in 1 .. Len(PathElements(p))] == Decrement(p, IF k = 1 THEN End(p) ELSE back[k - 1])
  IN [k \in 1 .. Len(PathElements(p)) |-> back[k]]

\* FindDirectoryEntry goes back from the end of a path to the longest part that the cache
\* knows and forward again from there: of a path of more than one character, relative or
\* not, with or without a delimiter at its end, both ways come to the same elements, and
\* the full path at each is what leads to it.
IteratorsAgree ==
  Parses(path_string) /\ Len(path_string) > 1 =>
    /\ ForwardOffsets(path_string) = PathElements(path_string)
    /\ BackwardOffsets(path_string) = Reverse(PathElements(path_string))
    /\ \A i \in ToSet(PathElements(path_string)) :
         LET full == FullPath(path_string, i)
         IN /\ IsPrefix(full, path_string)
            /\ PathElements(full) = SelectSeq(PathElements(path_string), LAMBDA j : j <= i)

=============================================================================
