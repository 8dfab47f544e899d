----------------------------- MODULE CommandLine ------------------------------
(***************************************************************************)
(* The command line: the keys that are typed until the end of a line, the  *)
(* tokens that strtoklit cuts the line into, in place and one at a time,   *)
(* and the tree of commands that each token leads down one branch of.      *)
(*                                                                         *)
(* input_ is an array of characters, a pointer into it the number of a     *)
(* cell; a C string goes from a pointer to the next null character.  A     *)
(* token is matched as a whole, so the words of the commands are any; what *)
(* a command does with its arguments is in DirectoryLookup.                *)
(***************************************************************************)
EXTENDS Integers, Sequences, SequencesExt, FiniteSetsExt

CONSTANTS
  Letters, Delimiters, Quotes, \* characters; TOKEN_DELIMITERS, TOKEN_LITERAL_DELIMITERS
  EndOfString,                 \* the null character
  DeleteKey,
  Commands,                    \* the tokens of each command, and how many arguments it takes
  MaxLine,                     \* MAX_CLI_COMMAND_LENGTH
  MaxKeys                      \* bound: keys typed, in all lines

ASSUME CommandLineAssumption ==
  /\ MaxLine \in Nat
  /\ \A command \in Commands : command.arguments \in Nat
  /\ \A one, other \in Commands : IsPrefix(one.path, other.path) => one = other

VARIABLES
  keys,           \* how many were typed
  input_buffer,   \* the line that is typed
  input,          \* input_
  saved_pointer,  \* strtoklit_buffer_
  current_token,
  cli_step,       \* "typing", "dispatch", "arguments" or "executed"
  command_path,   \* the tokens matched so far
  arguments,      \* those the command has asked for
  line            \* history: what was typed, when the command is executed

commandVars ==
  <<keys, input_buffer, input, saved_pointer, current_token, cli_step, command_path, arguments, line>>

NoPointer == 0

NoToken == <<EndOfString>>

CommandLineInit ==
  /\ keys = 0 /\ input_buffer = << >> /\ line = << >>
  /\ \E c \in Letters \cup {EndOfString} : input = [i \in 1 .. MaxLine + 1 |-> c]
  /\ saved_pointer = NoPointer /\ current_token = NoPointer
  /\ cli_step = "typing" /\ command_path = << >> /\ arguments = << >>

\* The first of some characters at a pointer or after it, or the end of the string: strcspn,
\* and strnlen if there are none.
FirstOf(memory, pointer, characters) ==
  CHOOSE p \in pointer .. MaxLine + 1 :
    /\ memory[p] \in characters \cup {EndOfString}
    /\ \A q \in pointer .. p - 1 : memory[q] \notin characters \cup {EndOfString}

\* strspn of the delimiters.
FirstNoDelimiter(memory, pointer) ==
  CHOOSE p \in pointer .. MaxLine + 1 :
    memory[p] \notin Delimiters /\ \A q \in pointer .. p - 1 : memory[q] \in Delimiters

\* The string behind a pointer, moved onto it.
MovedDown(memory, pointer) ==
  LET end == FirstOf(memory, pointer, {})
  IN [p \in DOMAIN memory |-> IF pointer <= p /\ p < end THEN memory[p + 1] ELSE memory[p]]

\* A line without the quotes of the literal that begins at one of them, and where it ends.
Unquoted(memory, quote) ==
  LET opened == MovedDown(memory, quote)
      closing == FirstOf(opened, quote, {memory[quote]})
  IN [memory |-> MovedDown(opened, closing), end |-> closing]

\* Mutant: a literal ends the token, whatever follows it.
TokenEndsAtQuote(memory, token) ==
  LET delimiter == FirstOf(memory, token, Delimiters)
      quote == FirstOf(memory, token, Quotes)
  IN IF delimiter <= quote THEN [memory |-> memory, end |-> delimiter] ELSE Unquoted(memory, quote)

\* Where a token ends: a literal may begin within it, and what follows the literal belongs to
\* the token.
TokenEnd(memory, token) ==
  LET delimiter == FirstOf(memory, token, Delimiters)
      quote == FirstOf(memory, token, Quotes)
      unquoted == Unquoted(memory, quote)
  IN IF delimiter <= quote THEN [memory |-> memory, end |-> delimiter]
     ELSE [memory |-> unquoted.memory, end |-> FirstOf(unquoted.memory, unquoted.end, Delimiters)]

\* The next token from a pointer on: cut off, and what follows it saved.
StrTokLit(memory, pointer) ==
  LET token == FirstNoDelimiter(memory, pointer)
      cut == TokenEnd(memory, token)
  IN IF memory[token] = EndOfString
     THEN [memory |-> memory, token |-> NoPointer, save |-> NoPointer]
     ELSE IF cut.memory[cut.end] = EndOfString
     THEN [memory |-> cut.memory, token |-> token, save |-> NoPointer]
     ELSE [memory |-> [cut.memory EXCEPT ![cut.end] = EndOfString], token |-> token,
           save |-> cut.end + 1]

NextToken ==
  IF saved_pointer = NoPointer
  THEN [memory |-> input, token |-> NoPointer, save |-> NoPointer]
  ELSE StrTokLit(input, saved_pointer)

Takes(result) ==
  input' = result.memory /\ current_token' = result.token /\ saved_pointer' = result.save

TextOf(memory, token) ==
  IF token = NoPointer THEN NoToken ELSE SubSeq(memory, token, FirstOf(memory, token, {}) - 1)

\* getline of the terminal: the delete key takes the last character back.
TypeKey(key) ==
  /\ cli_step = "typing" /\ keys < MaxKeys
  /\ keys' = keys + 1
  /\ input_buffer' =
       IF key = DeleteKey THEN (IF input_buffer = << >> THEN << >> ELSE Front(input_buffer))
       ELSE IF Len(input_buffer) < MaxLine THEN Append(input_buffer, key) ELSE input_buffer
  /\ UNCHANGED <<input, saved_pointer, current_token, cli_step, command_path, arguments, line>>

\* GetNextLine: a null character ends the line if there is room, and another what was read.
Copied(characters) ==
  [p \in DOMAIN input |->
     IF p <= Len(characters) THEN characters[p]
     ELSE IF p <= Len(characters) + 2 THEN EndOfString ELSE input[p]]

\* A line without a token is forgotten.
EnterLine ==
  /\ cli_step = "typing" /\ keys < MaxKeys
  /\ keys' = keys + 1
  /\ Takes(StrTokLit(Copied(input_buffer), 1))
  /\ cli_step' = IF current_token' = NoPointer THEN "typing" ELSE "dispatch"
  /\ input_buffer' = << >> /\ line' = input_buffer
  /\ command_path' = << >> /\ arguments' = << >>

Paths == {command.path : command \in Commands}

IsParent(path) == \E p \in Paths : IsStrictPrefix(path, p)

\* ProcessToken of the root and of the commands with others below them.  No command matches
\* the token that is missing.
ProcessToken ==
  /\ cli_step = "dispatch"
  /\ LET path == Append(command_path, TextOf(input, current_token))
     IN \/ /\ path \in Paths
           /\ command_path' = path /\ cli_step' = "arguments"
           /\ UNCHANGED <<input, saved_pointer, current_token>>
        \/ /\ IsParent(path)
           /\ command_path' = path /\ Takes(NextToken)
           /\ UNCHANGED cli_step
        \/ /\ path \notin Paths /\ ~IsParent(path)
           /\ command_path' = << >> /\ cli_step' = "executed"
           /\ UNCHANGED <<input, saved_pointer, current_token>>
  /\ UNCHANGED <<keys, input_buffer, arguments, line>>

Arity(path) == (CHOOSE command \in Commands : command.path = path).arguments

\* A command asks for each of its arguments.
TakeArgument ==
  /\ cli_step = "arguments" /\ Len(arguments) < Arity(command_path)
  /\ Takes(NextToken)
  /\ arguments' = Append(arguments, TextOf(input', current_token'))
  /\ UNCHANGED <<keys, input_buffer, cli_step, command_path, line>>

Execute ==
  /\ cli_step = "arguments" /\ Len(arguments) = Arity(command_path)
  /\ cli_step' = "executed"
  /\ UNCHANGED <<keys, input_buffer, input, saved_pointer, current_token, command_path, arguments, line>>

PromptAgain ==
  /\ cli_step = "executed" /\ cli_step' = "typing"
  /\ UNCHANGED <<keys, input_buffer, input, saved_pointer, current_token, command_path, arguments, line>>

CommandLineNext ==
  \/ \E key \in Letters \cup Delimiters \cup Quotes \cup {DeleteKey} : TypeKey(key)
  \/ EnterLine \/ ProcessToken \/ TakeArgument \/ Execute \/ PromptAgain

CommandLineSpec == CommandLineInit /\ [][CommandLineNext]_commandVars

-----------------------------------------------------------------------------
(* Properties.                                                             *)

\* The quote that is open after each character of a line.
OpenQuotes(l) ==
  LET open[i \in 0 .. Len(l)] ==
        IF i = 0 THEN EndOfString
        ELSE IF open[i - 1] = EndOfString THEN (IF l[i] \in Quotes THEN l[i] ELSE EndOfString)
        ELSE IF l[i] = open[i - 1] THEN EndOfString ELSE open[i - 1]
  IN open

Separates(l, i) == l[i] \in Delimiters /\ OpenQuotes(l)[i] = EndOfString

Quoting(l, i) == OpenQuotes(l)[i] # OpenQuotes(l)[i - 1]

WordStarts(l) == {i \in DOMAIN l : ~Separates(l, i) /\ (i > 1 => Separates(l, i - 1))}

WordFrom(l, i) == {j \in i .. Len(l) : \A k \in i .. j : ~Separates(l, k)}

\* The words of a line as a shell has them: quotes hold a word together and are no part of it.
Words(l) ==
  LET starts == SetToSortSeq(WordStarts(l), <)
      text(i) == SetToSortSeq({j \in WordFrom(l, i) : ~Quoting(l, j)}, <)
  IN [w \in DOMAIN starts |-> [c \in DOMAIN text(starts[w]) |-> l[text(starts[w])[c]]]]

OneLiteralEach(l) ==
  \A i \in WordStarts(l) :
    Cardinality({j \in WordFrom(l, i) : Quoting(l, j) /\ OpenQuotes(l)[j] # EndOfString}) <= 1

ArgumentsAfter(words, path) ==
  [i \in 1 .. Arity(path) |->
     IF Len(path) + i <= Len(words) THEN words[Len(path) + i] ELSE NoToken]

\* Of a line whose words have at most one quoted part each, the command is executed that its
\* first words are, with those after them as its arguments, and none if they are no command:
\* whatever was deleted while it was typed, and whatever is left in the buffers by the line
\* before it.
TheLineIsExecuted ==
  cli_step = "executed" /\ OneLiteralEach(line) =>
    LET words == Words(line)
        meant == {path \in Paths : IsPrefix(path, words)}
    IN IF meant = {} THEN command_path = << >>
       ELSE meant = {command_path} /\ arguments = ArgumentsAfter(words, command_path)

=============================================================================
