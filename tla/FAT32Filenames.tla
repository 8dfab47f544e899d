---------------------------- MODULE FAT32Filenames ----------------------------
(***************************************************************************)
(* The names of FAT32: the short name FAT32LongFilename makes from a long  *)
(* one, the numeric tail that tells apart short names made from different  *)
(* long ones, and what is read back from an entry on the device.           *)
(*                                                                         *)
(* A name is a sequence of characters, typed one after the other; each of  *)
(* the characters stands for those the code treats alike.  Sizes are those *)
(* of a shorter 8.3.                                                       *)
(***************************************************************************)
EXTENDS Integers, Sequences, SequencesExt, FiniteSetsExt

CONSTANTS
  Alphabet,    \* of long names, a subset of Characters
  NameLength,  \* 8
  ExtLength,   \* 3
  NumericTails, \* those asked for
  MaxLongName  \* bound

\* An upper case letter, the same in lower case, a digit, the two characters with a
\* meaning of their own, one to be left out and one to be replaced.
Characters == {"A", "a", "1", "~", ".", " ", "+"}

ASSUME FilenamesAssumption ==
  /\ Alphabet \subseteq Characters
  /\ NameLength \in Nat \ {0} /\ ExtLength \in Nat \ {0}
  /\ NumericTails \subseteq 1 .. 999999

VARIABLE long_name

NoTail == -1
DigitOf == <<"0", "1", "2", "3", "4", "5", "6", "7", "8", "9">>
IsDigit(c) == c \in ToSet(DigitOf)

-----------------------------------------------------------------------------
(* From long names to short ones.                                          *)

\* What is written for a character, if anything.
GetPermissibleCharacter(c) ==
  CASE c \in {" ", "."} -> << >>
    [] c = "a" -> <<"A">>
    [] c = "+" -> <<"_">>
    [] OTHER -> <<c>>

IsLossy(c) == c \in {" ", ".", "+"}

Permissible(s) == FlattenSeq([i \in DOMAIN s |-> GetPermissibleCharacter(s[i])])

\* The characters read until the part of the short name is full.
Consumed(s, room) ==
  LET enough == {n \in 0 .. Len(s) : Len(Permissible(SubSeq(s, 1, n))) >= room}
  IN IF enough = {} THEN s ELSE SubSeq(s, 1, Min(enough))

Dots(s) == {i \in DOMAIN s : s[i] = "."}
BeforeLastDot(s) == IF Dots(s) = {} THEN s ELSE SubSeq(s, 1, Max(Dots(s)) - 1)
AfterLastDot(s) == IF Dots(s) = {} THEN << >> ELSE SubSeq(s, Max(Dots(s)) + 1, Len(s))

\* itoa and strtol of minimalclib, with the base 10 and no sign.
ItoA(n) ==
  LET digits[k \in Nat] ==
        IF k < 10 THEN <<DigitOf[k + 1]>> ELSE Append(digits[k \div 10], DigitOf[(k % 10) + 1])
  IN digits[n]

StrToL(s) == FoldLeft(LAMBDA n, c : 10 * n + (CHOOSE d \in 0 .. 9 : DigitOf[d + 1] = c), 0, s)

\* Mutant: the room for the `~' is forgotten.
GenerateWithoutTilde(name, tail) ==
  LET digits == ItoA(tail)
  IN SubSeq(name, 1, Min({Len(name), NameLength - Len(digits)})) \o <<"~">> \o digits

GenerateFilenameWithTail(name, tail) ==
  LET digits == ItoA(tail)
  IN SubSeq(name, 1, Min({Len(name), NameLength - Len(digits) - 1})) \o <<"~">> \o digits

ShortFilename(name, extension, tail) ==
  [name |-> name, extension |-> extension, tail |-> tail,
   name_with_tail |-> IF tail = NoTail THEN << >> ELSE GenerateFilenameWithTail(name, tail)]

NameOf(short) == IF short.tail = NoTail THEN short.name ELSE short.name_with_tail

AddNumericTail(short, tail) == ShortFilename(short.name, short.extension, tail)

GetBasisName(long) ==
  LET base == BeforeLastDot(long)
      extension == AfterLastDot(long)
      read == Consumed(base, NameLength) \o Consumed(extension, ExtLength)
      lossy == \E i \in DOMAIN read : IsLossy(read[i])
      tail == IF lossy \/ Len(base) > NameLength \/ Len(extension) > ExtLength THEN 1 ELSE NoTail
  IN ShortFilename(Permissible(Consumed(base, NameLength)),
                   Permissible(Consumed(extension, ExtLength)), tail)

Is8Dot3Filename(long) ==
  /\ \A i \in DOMAIN long : long[i] \notin {"a", "+"}
  /\ Cardinality(Dots(long)) <= 1
  /\ Len(BeforeLastDot(long)) <= NameLength
  /\ Len(AfterLastDot(long)) <= ExtLength

\* The constructor of a long name strips it.
StripSpacesAndTrailingPeriods(s) ==
  LET from == {i \in DOMAIN s : s[i] # " "}
      to == {i \in DOMAIN s : s[i] \notin {" ", "."}}
  IN IF to = {} THEN << >> ELSE SubSeq(s, Min(from), Max(to))

IsValid(long) == long # << >>

-----------------------------------------------------------------------------
(* On the device and back.                                                 *)

Padded(s, size) == [i \in 1 .. size |-> IF i <= Len(s) THEN s[i] ELSE " "]

Compact8Dot3(short) ==
  [name |-> Padded(NameOf(short), NameLength), extension |-> Padded(short.extension, ExtLength)]

UpToSpace(s) == SelectInSeq(s, LAMBDA c : c = " ")
Unpadded(s) == IF UpToSpace(s) = 0 THEN s ELSE SubSeq(s, 1, UpToSpace(s) - 1)

\* Where the search for a tail, from the last character to the first, stops.
FrontOfNumber(name) == Max({1} \cup {i \in 2 .. Len(name) : ~IsDigit(name[i])})

\* Of a name that is not empty.
DetectNumericTail(name, extension) ==
  LET front == FrontOfNumber(name)
  IN IF front = Len(name) \/ name[front] # "~" THEN ShortFilename(name, extension, NoTail)
     ELSE ShortFilename(SubSeq(name, 1, front - 1), extension,
                        StrToL(SubSeq(name, front + 1, Len(name))))

AsShortFilename(compact) == DetectNumericTail(Unpadded(compact.name), Unpadded(compact.extension))

IsDerivativeOfBasisFilename(short, basis) ==
  LET tildes == {i \in DOMAIN short.name_with_tail : short.name_with_tail[i] = "~"}
      before == Min(tildes) - 1
  IN /\ short.extension = basis.extension
     /\ (short.tail = NoTail) = (basis.tail = NoTail)
     /\ IF short.tail = NoTail THEN short.name = basis.name
        ELSE /\ before < Len(basis.name_with_tail)
             /\ SubSeq(short.name_with_tail, 1, before) = SubSeq(basis.name_with_tail, 1, before)

-----------------------------------------------------------------------------
FilenamesInit == long_name = << >>

Type(c) == Len(long_name) < MaxLongName /\ long_name' = Append(long_name, c)

FilenamesNext == \E c \in Alphabet : Type(c)

FilenamesSpec == FilenamesInit /\ [][FilenamesNext]_long_name

-----------------------------------------------------------------------------
(* Properties.                                                             *)

\* CreateEntry makes a short name of this one, and with a tail.
NeedsTail(long) == IsValid(long) /\ ~Is8Dot3Filename(long)

\* A short name made for a long one that needed a tail from the start is read back from
\* the device as it was written, with the same tail, and InsureShortFilenameDoesNotConflict
\* sees it when it looks for the tails in use.
GeneratedIsSeen ==
  LET long == StripSpacesAndTrailingPeriods(long_name)
      basis == GetBasisName(long)
  IN NeedsTail(long) =>
       \A tail \in NumericTails :
         LET made == AddNumericTail(basis, tail)
             read == AsShortFilename(Compact8Dot3(made))
         IN /\ NameOf(read) = NameOf(made) /\ read.tail = tail
            /\ basis.tail # NoTail => IsDerivativeOfBasisFilename(read, basis)

=============================================================================
