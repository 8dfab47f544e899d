-------------------------------- MODULE Mailbox --------------------------------
(***************************************************************************)
(* Property messages to the GPU: MailboxPropertyMessage collects tags in   *)
(* one buffer, Mailbox::sendMessage gives the GPU the address of it, polls *)
(* for a reply a bounded number of times and copies the answers back into  *)
(* the tags.  The GPU is external: it writes its answers where it read the *)
(* request, whatever has become of that memory, and may take its time.     *)
(*                                                                         *)
(* A message lives on the stack of the function that sends it, so that the *)
(* next one may have the same address.  A tag is its number and how many   *)
(* words it takes; a word of a buffer is the tag and the place in it.      *)
(***************************************************************************)
EXTENDS Integers, Sequences, SequencesExt, FiniteSetsExt

CONSTANTS
  MailboxTags,      \* the tags a message may have
  TagWords,         \* the words each of them takes
  MaxTags,          \* MAX_TAGS_PER_MESSAGE, 24 in the code
  MaxWords,         \* MAX_MAILBOX_MESSAGE_SIZE_IN_BYTES, in words
  MaxPolls,         \* MAX_RETRIES, 10000 in the code
  MailboxAddresses, \* where messages lie
  MayBeLate,        \* TRUE: the GPU may answer after the driver has given up
  MaxMessages,      \* bound: messages sent
  MaxForeign        \* bound: messages of other channels

ASSUME MailboxAssumption ==
  /\ TagWords \in [MailboxTags -> Nat \ {0}] /\ MailboxTags \subseteq Nat \ {0}
  /\ MaxTags \in Nat \ {0} /\ MaxWords \in Nat /\ MaxPolls \in Nat \ {0}
  /\ MayBeLate \in BOOLEAN /\ MaxMessages \in Nat /\ MaxForeign \in Nat

VARIABLES
  mb_memory,  \* the buffers: the words from the header on, and who answered them last
  mb_message, \* the message in use: its address, the tags it knows, what they hold
  mb_pc,      \* "idle", "writing", "reading"
  mb_polls,   \* the retries of the loop
  mb_to_gpu,  \* external: the address the GPU works on, or has left there, if any
  mb_replies, \* external: the mailbox that the driver reads
  mb_sent, mb_foreign \* counters

mbVars == <<mb_memory, mb_message, mb_pc, mb_polls, mb_to_gpu, mb_replies, mb_sent, mb_foreign>>

\* What a tag, or a word, holds: the message it was asked or answered in.
Asked(n) == <<"asked", n>>
Answered(n) == <<"answered", n>>

NoMessage == [address |-> 0, tags |-> << >>, held |-> << >>, size |-> 0, result |-> "none"]
LeftThere == 0 \* a message that nobody will take
EmptyBuffer == [words |-> << >>, code |-> "request"]

MBInit ==
  /\ mb_memory = [a \in MailboxAddresses |-> EmptyBuffer]
  /\ mb_message = NoMessage
  /\ mb_pc = "idle" /\ mb_polls = 0
  /\ mb_to_gpu = << >> /\ mb_replies = << >>
  /\ mb_sent = 0 /\ mb_foreign = 0

-----------------------------------------------------------------------------
(* Building a message.                                                     *)

HeaderWords == 2
LastTag == 0
Word(tag, i, holds) == [tag |-> tag, i |-> i, holds |-> holds]
TagPayload(tag, holds) == [i \in 1 .. TagWords[tag] |-> Word(tag, i, holds)]

\* A tag that does not fit is left out, and nobody asks.
AddTag(message, tag) ==
  IF Len(message.tags) >= MaxTags \/ HeaderWords + message.size + TagWords[tag] >= MaxWords
  THEN message
  ELSE [message EXCEPT !.tags = Append(@, tag), !.size = @ + TagWords[tag]]

MessageOf(address, tags) ==
  LET added[n \in 0 .. Len(tags)] ==
        IF n = 0 THEN [NoMessage EXCEPT !.address = address] ELSE AddTag(added[n - 1], tags[n])
      m == added[Len(tags)]
  IN [m EXCEPT !.held = [i \in DOMAIN m.tags |-> TagPayload(m.tags[i], Asked(mb_sent))]]

Distinct(tags) == \A i, j \in DOMAIN tags : tags[i] = tags[j] => i = j

\* AddLastTag, when there is room.
Write(message) ==
  [words |-> FlattenSeq(message.held)
               \o (IF HeaderWords + message.size + 1 >= MaxWords THEN << >>
                   ELSE <<Word(LastTag, 1, Asked(mb_sent))>>),
   code |-> "request"]

SendMessage(address, tags) ==
  LET message == MessageOf(address, tags)
  IN /\ mb_pc = "idle"
     /\ mb_sent < MaxMessages
     /\ mb_sent' = mb_sent + 1
     /\ mb_message' = message
     /\ mb_memory' = [mb_memory EXCEPT ![address] = Write(message)]
     /\ mb_pc' = "writing" /\ mb_polls' = 0
     /\ UNCHANGED <<mb_to_gpu, mb_replies, mb_foreign>>

-----------------------------------------------------------------------------
(* The two loops of sendMessage.                                           *)

Failed == mb_pc' = "idle" /\ mb_message' = [mb_message EXCEPT !.result = "failure"]

\* In time, an answer comes before the driver's last look.
MayPoll(gpu_has_it) == mb_polls + 1 = MaxPolls /\ ~MayBeLate => ~gpu_has_it

GPUWorks == mb_to_gpu \notin {<< >>, <<LeftThere>>}

IsFull == mb_to_gpu # << >>

\* Looks whether the GPU has taken the message before.
WaitToWrite ==
  /\ mb_pc = "writing"
  /\ MayPoll(GPUWorks)
  /\ IF mb_polls + 1 >= MaxPolls THEN Failed /\ mb_polls' = 0 /\ UNCHANGED mb_to_gpu
     ELSE IF IsFull THEN mb_polls' = mb_polls + 1 /\ UNCHANGED <<mb_pc, mb_message, mb_to_gpu>>
     ELSE /\ mb_to_gpu' = <<mb_message.address>>
          /\ mb_pc' = "reading" /\ mb_polls' = 0
          /\ UNCHANGED mb_message
  /\ UNCHANGED <<mb_memory, mb_replies, mb_sent, mb_foreign>>

FirstWord(tags, i) ==
  LET first[n \in 1 .. (Len(tags) + 1)] ==
        IF n = 1 THEN 1 ELSE first[n - 1] + TagWords[tags[n - 1]]
  IN first[i]

\* Each tag takes as many words as it gave.
ReturnTags(message, words) ==
  [i \in DOMAIN message.tags |->
     LET from == FirstWord(message.tags, i)
     IN SubSeq(words, from, from + TagWords[message.tags[i]] - 1)]

\* Mutant: whatever is read is taken for a reply.
IsAnyChannel(reply) == TRUE

IsPropertyChannel(reply) == reply.channel = "PROP"

WaitForReply ==
  /\ mb_pc = "reading"
  /\ MayPoll(GPUWorks \/ mb_replies # << >>)
  /\ LET polls == mb_polls + 1
         reply == Head(mb_replies)
         answer == mb_memory[reply.address]
     IN IF polls >= MaxPolls
        THEN Failed /\ mb_polls' = 0 /\ UNCHANGED mb_replies
        ELSE /\ mb_polls' = polls
             /\ IF mb_replies = << >> THEN UNCHANGED <<mb_pc, mb_message, mb_replies>>
                ELSE /\ mb_replies' = Tail(mb_replies)
                     /\ IF ~IsPropertyChannel(reply) THEN UNCHANGED <<mb_pc, mb_message>>
                        ELSE IF answer.code # "response" THEN Failed
                        ELSE /\ mb_pc' = "idle"
                             /\ mb_message' = [mb_message EXCEPT !.result = "success",
                                                 !.held = ReturnTags(mb_message, answer.words)]
  /\ UNCHANGED <<mb_memory, mb_to_gpu, mb_sent, mb_foreign>>

-----------------------------------------------------------------------------
(* The GPU.                                                                *)

Reply(channel, address) == [channel |-> channel, address |-> address]

AnswersTo(words) == [i \in DOMAIN words |-> [words[i] EXCEPT !.holds = Answered(@[2])]]

\* It answers in place, or finds that it cannot read the request.
GPUAnswers ==
  /\ GPUWorks
  /\ LET a == Head(mb_to_gpu)
     IN /\ \/ mb_memory' = [mb_memory EXCEPT ![a] =
                                [words |-> AnswersTo(@.words), code |-> "response"]]
           \/ mb_memory' = [mb_memory EXCEPT ![a].code = "parsing_error"]
        /\ mb_replies' = Append(mb_replies, Reply("PROP", a))
  /\ mb_to_gpu' = << >>
  /\ UNCHANGED <<mb_message, mb_pc, mb_polls, mb_sent, mb_foreign>>

\* It never answers, and may not even take the message.
GPULoses ==
  /\ GPUWorks
  /\ mb_to_gpu' \in {<< >>, <<LeftThere>>}
  /\ UNCHANGED <<mb_memory, mb_message, mb_pc, mb_polls, mb_replies, mb_sent, mb_foreign>>

OtherChannel ==
  /\ mb_foreign < MaxForeign
  /\ mb_foreign' = mb_foreign + 1
  /\ mb_replies' = Append(mb_replies, Reply("OTHER", CHOOSE a \in MailboxAddresses : TRUE))
  /\ UNCHANGED <<mb_memory, mb_message, mb_pc, mb_polls, mb_to_gpu, mb_sent>>

MBNext ==
  \/ \E a \in MailboxAddresses, tags \in SeqOf(MailboxTags, Cardinality(MailboxTags)) :
       Distinct(tags) /\ SendMessage(a, tags)
  \/ WaitToWrite \/ WaitForReply
  \/ GPUAnswers \/ GPULoses \/ OtherChannel

MBSpec == MBInit /\ [][MBNext]_mbVars

-----------------------------------------------------------------------------
(* Properties.                                                             *)

\* When sendMessage succeeds every tag of the message holds the GPU's answer to it, to
\* this message and no other, whatever else came through the mailbox.
SuccessMeansAnswered ==
  mb_message.result = "success" =>
    \A i \in DOMAIN mb_message.tags :
      mb_message.held[i] = TagPayload(mb_message.tags[i], Answered(mb_sent - 1))

\* A reply read on the property channel is to the message sent.
ReplyIsOurs ==
  mb_pc = "reading" /\ mb_replies # << >> /\ IsPropertyChannel(Head(mb_replies)) =>
    mb_to_gpu = << >> /\ Head(mb_replies).address = mb_message.address

=============================================================================
