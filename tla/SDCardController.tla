--------------------------- MODULE SDCardController ---------------------------
(***************************************************************************)
(* The driver of the SD card (emmc.cpp): bringing the card up, one command *)
(* after the other, again from the start when one fails, and the transfers *)
(* of blocks with their retries.                                           *)
(*                                                                         *)
(* The card and the host controller are external: the card is the state    *)
(* machine of the SD specification as far as the driver's commands lead.   *)
(* A command may get lost on its way to the card, its answer may get lost  *)
(* after the card performed it, and the controller may report nothing.  An *)
(* answer comes within the driver's time or not at all.  Issuing a command,*)
(* with the waits and transfers in IssueCommand, is one step.              *)
(***************************************************************************)
EXTENDS Integers, Sequences

CONSTANTS
  SDBlocks,      \* 0 .. n, the blocks of the card
  SDData,        \* what a block may hold
  SDBlockSize,   \* bytes, 512 in the code
  SDCounts,      \* the numbers of blocks transferred by one call
  TransferLimit, \* the largest number the controller takes, 65535 in the code
  ResetTries,    \* how often the card is reset, 10 in the code
  OcrRetries,    \* how often the card is asked whether it is powered up, 1000 in the code
  MaxSDFaults    \* bound

ASSUME SDAssumption ==
  /\ SDBlocks \subseteq Nat /\ \E last \in SDBlocks : SDBlocks = 0 .. last
  /\ SDBlockSize \in Nat \ {0, 1} /\ SDCounts \subseteq Nat \ {0}
  /\ TransferLimit \in Nat /\ ResetTries \in Nat \ {0} /\ OcrRetries \in Nat \ {0}
  /\ MaxSDFaults \in Nat

VARIABLES
  card,       \* external: the SD card
  controller, \* what the driver has learnt of it
  sd_pc,      \* the next command of ResetCard, "transfer", or where the driver rests
  sd_call,    \* the call in progress, and its result when it has returned
  sd_faults

sdVars == <<card, controller, sd_pc, sd_call, sd_faults>>

MaxRetries == 3

NoRCA == 0
NewRCA == 1

\* block_size: whether it is that of a block, once the card is configured.
InitialController == [is_sdhc |-> FALSE, rca |-> NoRCA, v2 |-> FALSE, block_size |-> 0]

NoSDCall == [write |-> FALSE, block |-> 0, buffer |-> << >>, tries |-> 0, faults |-> 0, ocr |-> 0,
             before |-> [b \in SDBlocks |-> CHOOSE d \in SDData : TRUE], result |-> "none"]

SDInit ==
  /\ card \in [state : {"idle"}, rca : {NoRCA}, v2 : BOOLEAN, sdhc : BOOLEAN,
               blocks : [SDBlocks -> SDData]]
  /\ card.sdhc => card.v2
  /\ controller = InitialController
  /\ sd_pc = "off"
  /\ sd_call = NoSDCall
  /\ sd_faults = 0

-----------------------------------------------------------------------------
(* The card.  What it may do with a command; it answers none it does not   *)
(* expect in its state.                                                    *)

NoResponse == [ready |-> FALSE, sdhc |-> FALSE, rca |-> NoRCA, state |-> "none"]
Silent(c) == [answers |-> FALSE, card |-> c, response |-> NoResponse]
Answer(c, response) == [answers |-> TRUE, card |-> c, response |-> response]
AnswerIf(expected, c, next) ==
  {IF expected THEN Answer(next, [NoResponse EXCEPT !.rca = next.rca, !.state = c.state])
   ELSE Silent(c)}

\* With its argument: the address of the card for the commands that select it, whether
\* the host can use high capacity cards for "OcrCheck".
Performances(c, command, arg) ==
  CASE command = "GoIdle" -> AnswerIf(TRUE, c, [c EXCEPT !.state = "idle", !.rca = NoRCA])
    [] command = "SendIfCond" -> AnswerIf(c.v2 /\ c.state = "idle", c, c)
    [] command = "IOSetOpCond" -> {Silent(c)}
    [] command = "App" -> AnswerIf(arg = c.rca /\ c.state \in {"idle", "standby", "transfer"}, c, c)
    [] command = "OcrInquiry" -> AnswerIf(c.state = "idle", c, c)
    [] command = "OcrCheck" ->
         AnswerIf(c.state = "idle", c, c)
           \cup (IF c.state = "idle" /\ (c.sdhc => arg)
                 THEN {Answer([c EXCEPT !.state = "ready"],
                              [NoResponse EXCEPT !.ready = TRUE, !.sdhc = c.sdhc])}
                 ELSE {})
    [] command = "SendCide" -> AnswerIf(c.state = "ready", c, [c EXCEPT !.state = "identification"])
    [] command = "SendRelativeAddr" ->
         AnswerIf(c.state = "identification", c, [c EXCEPT !.state = "standby", !.rca = NewRCA])
    [] command = "SelectCard" ->
         AnswerIf(c.state = "standby" /\ arg = c.rca, c, [c EXCEPT !.state = "transfer"])
    [] OTHER -> AnswerIf(c.state = "transfer", c, c)

-----------------------------------------------------------------------------
(* Issuing commands.                                                       *)

\* What comes of a command, after f faults: done, or not with what the controller has
\* flagged: "no_answer" its command timeout, "error" another error, "timeout" nothing.
Outcome(result, c, response, f) == [result |-> result, card |-> c, response |-> response, faults |-> f]

Faulty(f) == sd_faults + f < MaxSDFaults

IssueCommand(c, command, arg, f) ==
  UNION {{Outcome(IF p.answers THEN "done" ELSE "no_answer", p.card, p.response, f)}
         \cup (IF Faulty(f)
               THEN {Outcome(r, next, NoResponse, f + 1) :
                       r \in {"no_answer", "error", "timeout"}, next \in {c, p.card}}
               ELSE {}) : p \in Performances(c, command, arg)}

\* An application command is announced first, with the address the driver knows.
AppCommand(c, command, arg) ==
  UNION {IF app.result # "done" THEN {app} ELSE IssueCommand(app.card, command, arg, app.faults) :
           app \in IssueCommand(c, "App", controller.rca, 0)}

-----------------------------------------------------------------------------
(* ResetCard.                                                              *)

FailReset ==
  IF sd_call.tries + 1 < ResetTries
  THEN sd_pc' = "reset" /\ sd_call' = [sd_call EXCEPT !.tries = @ + 1]
  ELSE sd_pc' = "failed" /\ sd_call' = [sd_call EXCEPT !.result = "failure"]

Initialize ==
  /\ sd_pc = "off"
  /\ sd_pc' = "reset"
  /\ controller' = InitialController
  /\ sd_call' = NoSDCall
  /\ UNCHANGED <<card, sd_faults>>

\* The host controller is reset and clocked.  The address the card had stays known.
ResetHost ==
  /\ sd_pc = "reset"
  /\ \/ /\ sd_pc' = "go_idle"
        /\ controller' = [controller EXCEPT !.block_size = 0]
        /\ UNCHANGED <<sd_call, sd_faults>>
     \/ /\ Faulty(0)
        /\ sd_faults' = sd_faults + 1
        /\ FailReset
        /\ UNCHANGED controller
  /\ UNCHANGED card

\* A step of ResetCard that issues one command, and goes on or fails.
Step(at, outcomes, accepts(_), next, learnt(_)) ==
  /\ sd_pc = at
  /\ \E o \in outcomes :
       /\ card' = o.card
       /\ sd_faults' = sd_faults + o.faults
       /\ IF accepts(o)
          THEN sd_pc' = next /\ controller' = learnt(o) /\ UNCHANGED sd_call
          ELSE FailReset /\ UNCHANGED controller

IsDone(o) == o.result = "done"
Nothing(o) == controller

GoIdle == Step("go_idle", IssueCommand(card, "GoIdle", 0, 0), IsDone, "if_cond", Nothing)

\* A card that does not answer is taken for one of version 1, whatever the error; so is one
\* whose answer is not the pattern sent, an "error" here.
IsV2Card ==
  LET Always(o) == TRUE
      Learn(o) == [controller EXCEPT !.v2 = IsDone(o)]
  IN Step("if_cond", IssueCommand(card, "SendIfCond", 0, 0), Always, "op_cond", Learn)

\* Memory cards do not answer.  The command line is then reset, which may fail.
IsUsableCard ==
  LET NotAnError(o) == o.result # "error"
  IN \/ Step("op_cond", IssueCommand(card, "IOSetOpCond", 0, 0), NotAnError, "ocr", Nothing)
     \/ /\ sd_pc = "op_cond" /\ Faulty(0)
        /\ sd_faults' = sd_faults + 1
        /\ FailReset
        /\ UNCHANGED <<card, controller>>

\* The same inquiry several times, up to the first that fails.
CheckOperatingConditionsRegister ==
  Step("ocr", AppCommand(card, "OcrInquiry", 0), IsDone, "sdhc", Nothing)

\* Mutant: a card of version 2 is taken for one of high capacity.
LearnVersion(o) == [controller EXCEPT !.is_sdhc = controller.v2]

LearnCapacity(o) == [controller EXCEPT !.is_sdhc = o.response.sdhc]

SetIsSDHCCard ==
  /\ sd_pc = "sdhc"
  /\ \E o \in AppCommand(card, "OcrCheck", controller.v2) :
       /\ card' = o.card
       /\ sd_faults' = sd_faults + o.faults
       /\ IF ~IsDone(o) THEN FailReset /\ UNCHANGED controller
          ELSE IF o.response.ready
          THEN /\ sd_pc' = "clock" /\ controller' = LearnCapacity(o)
               /\ sd_call' = [sd_call EXCEPT !.ocr = 0]
          ELSE /\ UNCHANGED controller
               /\ IF sd_call.ocr + 1 < OcrRetries
                  THEN sd_call' = [sd_call EXCEPT !.ocr = @ + 1] /\ UNCHANGED sd_pc
                  ELSE IF sd_call.tries + 1 < ResetTries
                  THEN sd_pc' = "reset" /\ sd_call' = [sd_call EXCEPT !.tries = @ + 1, !.ocr = 0]
                  ELSE sd_pc' = "failed" /\ sd_call' = [sd_call EXCEPT !.result = "failure"]

SwitchClockRate ==
  /\ sd_pc = "clock"
  /\ \/ sd_pc' = "cid" /\ UNCHANGED <<sd_call, sd_faults>>
     \/ /\ Faulty(0)
        /\ sd_faults' = sd_faults + 1
        /\ FailReset
  /\ UNCHANGED <<card, controller>>

SendCide == Step("cid", IssueCommand(card, "SendCide", 0, 0), IsDone, "rca", Nothing)

\* The address is stored before a bit of the same answer is looked at, without which the
\* reset fails.
SendRelativeAddr ==
  LET Learn(o) == [controller EXCEPT !.rca = o.response.rca]
  IN \/ Step("rca", IssueCommand(card, "SendRelativeAddr", 0, 0), IsDone, "select", Learn)
     \/ /\ sd_pc = "rca" /\ Faulty(0)
        /\ \E o \in IssueCommand(card, "SendRelativeAddr", 0, 1) :
             IsDone(o) /\ card' = o.card /\ sd_faults' = sd_faults + o.faults /\ controller' = Learn(o)
        /\ FailReset

SelectCard ==
  LET GoodStatus(o) == IsDone(o) /\ o.response.state \in {"standby", "transfer"}
  IN Step("select", IssueCommand(card, "SelectCard", controller.rca, 0), GoodStatus,
          IF controller.is_sdhc THEN "scr" ELSE "block_len", Nothing)

SetBlockLen == Step("block_len", IssueCommand(card, "SetBlockLen", 0, 0), IsDone, "scr", Nothing)

SetSDCardConfigurationRegister ==
  LET Learn(o) == [controller EXCEPT !.block_size = SDBlockSize]
  IN Step("scr", AppCommand(card, "SendSCR", 0), IsDone, "ready", Learn)

-----------------------------------------------------------------------------
(* Transfers.                                                              *)

Buffers == UNION {[1 .. n -> SDData] : n \in SDCounts}
Zero(n) == [i \in 1 .. n |-> CHOOSE d \in SDData : TRUE]
LastBlock(block, n) == block + n - 1

BeginTransfer(write, block, buffer) ==
  /\ sd_pc = "ready"
  /\ LastBlock(block, Len(buffer)) \in SDBlocks
  /\ sd_pc' = "transfer"
  /\ sd_call' = [write |-> write, block |-> block, buffer |-> buffer, tries |-> 0,
                 faults |-> sd_faults, ocr |-> 0, before |-> card.blocks, result |-> "none"]
  /\ UNCHANGED <<card, controller, sd_faults>>

WriteBlock(block, buffer) == BeginTransfer(TRUE, block, buffer)
ReadFromBlock(block, n) == BeginTransfer(FALSE, block, Zero(n))

\* Cards of high capacity count in blocks, the others in bytes.
BlockArgument == IF controller.is_sdhc THEN sd_call.block ELSE sd_call.block * SDBlockSize
BlockMeant == IF card.sdhc THEN BlockArgument ELSE BlockArgument \div SDBlockSize

\* The buffer and the card when the first n blocks have been moved.
BufferAfter(n) ==
  IF sd_call.write THEN sd_call.buffer
  ELSE [i \in 1 .. Len(sd_call.buffer) |->
          IF i <= n THEN card.blocks[BlockMeant + i - 1] ELSE sd_call.buffer[i]]

BlocksAfter(n) ==
  IF sd_call.write
  THEN [b \in SDBlocks |-> IF b \in BlockMeant .. LastBlock(BlockMeant, n)
                           THEN sd_call.buffer[b - BlockMeant + 1] ELSE card.blocks[b]]
  ELSE card.blocks

\* Mutant: the flags of all errors.
ClearedWithTheErrors == {"Ready", "Error", "DataError", "CommandTimeout"}

\* What TransferData resets before each block, and when it gives up: the summary flag
\* of an error, not the flag that says which.
ClearedByTransferData == {"Ready", "Error"}

\* The flags when the transfer is over.  It stopped in the middle when the card was not
\* ready for a block or reported an error; the controller may still say it is done.
FlagsAfter(complete) ==
  IF complete THEN {{"DataDone"}} \cup (IF Faulty(0) THEN {{"DataDone", "CommandTimeout"},
                                           {"Error", "DataError"}, {"DataDone", "Error", "DataError"}, {}}
                                        ELSE {})
  ELSE IF Faulty(0) THEN {flags \ ClearedByTransferData :
                            flags \in {{}, {"Error", "DataError"}, {"DataDone", "Error", "DataError"}}}
  ELSE {}

IsSuccess(flags) == (flags \ {"Error"}) \in {{"DataDone"}, {"DataDone", "CommandTimeout"}}

\* Mutant: the last attempt is not made.
RetryOnce == sd_call.tries + 2 < MaxRetries

MayRetry == sd_call.tries + 1 < MaxRetries

Return(result, buffer) ==
  sd_pc' = "ready" /\ sd_call' = [sd_call EXCEPT !.result = result, !.buffer = buffer]

FailAttempt(buffer) ==
  IF MayRetry
  THEN sd_call' = [sd_call EXCEPT !.tries = @ + 1, !.buffer = buffer] /\ UNCHANGED sd_pc
  ELSE Return("failure", buffer)

\* An attempt in which the controller takes the command and moves n blocks.
MoveBlocks ==
  /\ sd_pc = "transfer"
  /\ Len(sd_call.buffer) <= TransferLimit
  /\ card.state = "transfer"
  /\ \E n \in 0 .. Len(sd_call.buffer) :
       \E flags \in FlagsAfter(n = Len(sd_call.buffer)) :
         /\ sd_faults' = IF flags = {"DataDone"} /\ n = Len(sd_call.buffer)
                         THEN sd_faults ELSE sd_faults + 1
         /\ card' = [card EXCEPT !.blocks = BlocksAfter(n)]
         /\ IF IsSuccess(flags) THEN Return("success", BufferAfter(n)) ELSE FailAttempt(BufferAfter(n))
  /\ UNCHANGED controller

\* An attempt whose command the controller refuses, or the card does not get or answer.
CommandFails ==
  /\ sd_pc = "transfer"
  /\ \/ Len(sd_call.buffer) > TransferLimit /\ UNCHANGED sd_faults
     \/ Faulty(0) /\ sd_faults' = sd_faults + 1
  /\ FailAttempt(sd_call.buffer)
  /\ UNCHANGED <<card, controller>>

-----------------------------------------------------------------------------

ResetCard ==
  \/ ResetHost \/ GoIdle \/ IsV2Card \/ IsUsableCard \/ CheckOperatingConditionsRegister
  \/ SetIsSDHCCard \/ SwitchClockRate \/ SendCide \/ SendRelativeAddr \/ SelectCard
  \/ SetBlockLen \/ SetSDCardConfigurationRegister

DataCommand == MoveBlocks \/ CommandFails

SDNext ==
  \/ Initialize
  \/ ResetCard
  \/ \E b \in SDBlocks : \/ \E buffer \in Buffers : WriteBlock(b, buffer)
                         \/ \E n \in SDCounts : ReadFromBlock(b, n)
  \/ DataCommand

SDSpec == SDInit /\ [][SDNext]_sdVars

-----------------------------------------------------------------------------
(* Properties.                                                             *)

HasReturned(result) == sd_pc = "ready" /\ sd_call.result = result

\* A transfer that reports success has moved every block asked for, from and to the
\* right place, though the result of TransferData is not looked at; and no transfer,
\* whatever it reports, changes another block.
SuccessMeansTransferred ==
  LET here == sd_call.block .. LastBlock(sd_call.block, Len(sd_call.buffer))
  IN /\ HasReturned("success") =>
          \A b \in here : card.blocks[b] = sd_call.buffer[b - sd_call.block + 1]
     /\ sd_pc \in {"transfer", "ready"} /\ Len(sd_call.buffer) > 0 =>
          \A b \in SDBlocks \ (IF sd_call.write THEN here ELSE {}) : card.blocks[b] = sd_call.before[b]

\* When the driver takes the card for ready, after whatever faults and resets, the card
\* is ready to transfer, under the address and of the capacity the driver believes.
ReadyMeansReady ==
  sd_pc = "ready" =>
    /\ card.state = "transfer" /\ card.rca = controller.rca
    /\ card.sdhc = controller.is_sdhc
    /\ controller.block_size = SDBlockSize

\* A transfer that the controller can take fails only after a fault in each of its attempts.
RetriesMaskFaults ==
  HasReturned("failure") /\ Len(sd_call.buffer) <= TransferLimit =>
    sd_faults - sd_call.faults >= MaxRetries

=============================================================================
