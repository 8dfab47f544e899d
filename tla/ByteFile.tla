------------------------------ MODULE ByteFile -------------------------------
(***************************************************************************)
(* What a file promises to a program that reads and extends it: a sequence *)
(* of bytes and a position in it.  A call takes effect in one step, when   *)
(* it returns; clusters and the steps in between do not exist here.        *)
(***************************************************************************)
EXTENDS Integers, Sequences

CONSTANTS
  Files,
  Values \* the bytes that are written

VARIABLES
  content,  \* the bytes of each file
  open,     \* the files that are open
  position, \* where the next read or write of an open file begins
  request,  \* the call that has not returned yet
  returned  \* the code and the bytes of the last call that returned

byteFileVars == <<content, open, position, request, returned>>

Kinds == {"seek", "append", "write", "read"}
Within(f, p) == IF p <= Len(content[f]) THEN p ELSE Len(content[f])

Respond(bytes) ==
  /\ returned' = [code |-> "SUCCESS", bytes |-> bytes]
  /\ request' = [kind |-> "none"]
  /\ UNCHANGED open

Init ==
  /\ content = [f \in Files |-> <<>>]
  /\ open = {}
  /\ position = [f \in Files |-> 0]
  /\ request = [kind |-> "none"]
  /\ returned = [code |-> "SUCCESS", bytes |-> <<>>]

Open(f) ==
  /\ f \notin open
  /\ request.kind = "none"
  /\ open' = open \cup {f}
  /\ UNCHANGED <<content, position, request, returned>>

Close(f) ==
  /\ f \in open
  /\ request.kind = "none"
  /\ open' = open \ {f}
  /\ position' = [position EXCEPT ![f] = 0]
  /\ UNCHANGED <<content, request, returned>>

Request(f) ==
  /\ f \in open
  /\ request.kind = "none"
  /\ request'.kind \in Kinds
  /\ request'.file = f
  /\ request'.buffer \in Seq(Values)
  /\ request'.target \in Nat
  /\ UNCHANGED <<content, open, position, returned>>

\* A position past the end stands for the end.
Seek(f) ==
  /\ request.kind = "seek"
  /\ position' = [position EXCEPT ![f] = Within(f, request.target)]
  /\ Respond(<<>>)
  /\ UNCHANGED content

\* As many bytes as the caller has space for, or all that are left.
Read(f) ==
  LET end == Within(f, position[f] + request.target) IN
  /\ request.kind = "read"
  /\ position' = [position EXCEPT ![f] = end]
  /\ Respond(SubSeq(content[f], position[f] + 1, end))
  /\ UNCHANGED content

\* All of the buffer, after all that was there, and nothing else.
Extend(f) ==
  /\ request.kind \in {"append", "write"}
  /\ content' = [content EXCEPT ![f] = @ \o request.buffer]
  /\ position' = [position EXCEPT ![f] = Len(content'[f])]
  /\ Respond(<<>>)

Next ==
  \/ \E f \in Files : Open(f) \/ Close(f) \/ Request(f)
  \/ request.kind # "none" /\ (Seek(request.file) \/ Read(request.file) \/ Extend(request.file))

Spec == Init /\ [][Next]_byteFileVars

=============================================================================
