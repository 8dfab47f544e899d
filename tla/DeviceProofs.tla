----------------------------- MODULE DeviceProofs -----------------------------
(***************************************************************************)
(* Theorems about the devices, each for every value of its constants.      *)
(*                                                                         *)
(* SDCardController: a card taken for ready is ready, a transfer that      *)
(* reports success has moved its blocks and touched no other, and one that *)
(* fails has met a fault in each of its attempts.                          *)
(*                                                                         *)
(* SystemTimer: a running timer always waits for a match that is at most   *)
(* two periods away, and GetMsec returns a time the timer showed while it  *)
(* was called, for every width of the words, every period that is less     *)
(* than half of what a word holds and every latency below a period.        *)
(*                                                                         *)
(* Mailbox: a message that was sent with success holds the answers to its  *)
(* own tags, each in its place, as long as the GPU answers in time.        *)
(*                                                                         *)
(* Mounting: the command line works on the volume of the first partition,  *)
(* the registry holds volumes of the card under their labels, and every    *)
(* volume with a label of its own is mounted unless the card fails.        *)
(***************************************************************************)
EXTENDS SDCardController, SystemTimer, Mailbox, Mounting, DataLemmas

-----------------------------------------------------------------------------
(* SDCardController.                                                       *)

\* The card as its states, and what the driver may be answered.
CardStates == {"idle", "ready", "identification", "standby", "transfer"}
Cards == [state : CardStates, rca : {NoRCA, NewRCA}, v2 : BOOLEAN, sdhc : BOOLEAN,
          blocks : [SDBlocks -> SDData]]
Responses == [ready : BOOLEAN, sdhc : BOOLEAN, rca : {NoRCA, NewRCA},
              state : CardStates \cup {"none"}]
Performed == [answers : BOOLEAN, card : Cards, response : Responses]
Results == {"done", "no_answer", "error", "timeout"}

\* A card that is the same but for its state and address: nothing is written on it.
SameCard(c, d) == d \in Cards /\ d.v2 = c.v2 /\ d.sdhc = c.sdhc /\ d.blocks = c.blocks

\* No answer is an answer that says nothing.
LEMMA NoResponseType == NoResponse \in Responses /\ ~NoResponse.ready
BY DEF NoResponse, Responses

\* A card that answers what it expects moves to the state meant, another stays as it is;
\* neither says that it has powered up.
LEMMA AnswerIfType ==
  ASSUME NEW expected \in BOOLEAN, NEW c \in Cards, NEW next, SameCard(c, next),
         NEW p \in AnswerIf(expected, c, next)
  PROVE  /\ p \in Performed /\ SameCard(c, p.card)
         /\ p.answers => expected /\ p.card = next
         /\ ~p.response.ready
<1> DEFINE response == [NoResponse EXCEPT !.rca = next.rca, !.state = c.state]
<1>1. response \in Responses /\ ~response.ready
  BY DEF NoResponse, Responses, Cards, SameCard
<1>2. p = IF expected THEN Answer(next, response) ELSE Silent(c)
  BY DEF AnswerIf
<1> HIDE DEF response
<1> QED
  BY <1>1, <1>2, NoResponseType DEF Answer, Silent, Performed, SameCard

\* The commands that the driver issues.
Commands == {"GoIdle", "SendIfCond", "IOSetOpCond", "App", "OcrInquiry", "OcrCheck", "SendCide",
             "SendRelativeAddr", "SelectCard", "SetBlockLen", "SendSCR"}

\* Whatever the command, the card stays the same but for its state and its address.  An
\* application command it answers was announced under its own address, the configuration
\* register is sent in the state of a transfer, and a card says its capacity as it is.
LEMMA PerformancesType ==
  ASSUME NEW c \in Cards, NEW command \in Commands, NEW arg, NEW p \in Performances(c, command, arg)
  PROVE  /\ p \in Performed /\ SameCard(c, p.card)
         /\ p.answers /\ command = "App" => arg = c.rca /\ p.card = c
         /\ p.answers /\ command = "SendSCR" => c.state = "transfer" /\ p.card = c
         /\ p.answers /\ p.response.ready => p.response.sdhc = c.sdhc
<1>1. SameCard(c, c)
  BY DEF SameCard
<1>2. ASSUME NEW s \in CardStates PROVE SameCard(c, [c EXCEPT !.state = s])
  BY DEF SameCard, Cards
<1>3. ASSUME NEW s \in CardStates, NEW r \in {NoRCA, NewRCA}
      PROVE SameCard(c, [c EXCEPT !.state = s, !.rca = r])
  BY DEF SameCard, Cards
<1>4. CASE command = "GoIdle"
  <2>1. p \in AnswerIf(TRUE, c, [c EXCEPT !.state = "idle", !.rca = NoRCA])
    BY <1>4 DEF Performances
  <2> QED
    BY <2>1, <1>3, <1>4, AnswerIfType DEF CardStates
<1>5. CASE command = "App"
  <2>1. p \in AnswerIf(arg = c.rca /\ c.state \in {"idle", "standby", "transfer"}, c, c)
    BY <1>5 DEF Performances
  <2> DEFINE expected == arg = c.rca /\ c.state \in {"idle", "standby", "transfer"}
  <2>2. expected \in BOOLEAN /\ p \in AnswerIf(expected, c, c)
    BY <2>1
  <2>3. /\ p \in Performed /\ SameCard(c, p.card) /\ ~p.response.ready
        /\ (p.answers => expected /\ p.card = c)
    <3> HIDE DEF expected
    <3> QED
      BY <2>2, <1>1, AnswerIfType
  <2> QED
    BY <1>5, <2>3
<1>6. CASE command = "OcrCheck"
  <2> DEFINE response == [NoResponse EXCEPT !.ready = TRUE, !.sdhc = c.sdhc]
             ready == [c EXCEPT !.state = "ready"]
  <2>1. \/ p \in AnswerIf(c.state = "idle", c, c)
        \/ p = Answer(ready, response)
    BY <1>6 DEF Performances
  <2>2. response \in Responses /\ response.sdhc = c.sdhc
    BY DEF NoResponse, Responses, Cards
  <2>3. SameCard(c, ready)
    BY <1>2 DEF CardStates
  <2>4. CASE p = Answer(ready, response)
    <3> HIDE DEF response, ready
    <3> QED
      BY <1>6, <2>2, <2>3, <2>4 DEF Answer, Performed, SameCard
  <2>5. CASE p \in AnswerIf(c.state = "idle", c, c)
    BY <1>1, <1>6, <2>5, AnswerIfType
  <2> QED
    BY <2>1, <2>4, <2>5
<1>7. CASE command = "SendRelativeAddr"
  <2>1. p \in AnswerIf(c.state = "identification", c,
                       [c EXCEPT !.state = "standby", !.rca = NewRCA])
    BY <1>7 DEF Performances
  <2> QED
    BY <2>1, <1>3, <1>7, AnswerIfType DEF CardStates
<1>8. CASE command = "SendCide"
  <2>1. p \in AnswerIf(c.state = "ready", c, [c EXCEPT !.state = "identification"])
    BY <1>8 DEF Performances
  <2> QED
    BY <2>1, <1>2, <1>8, AnswerIfType DEF CardStates
<1>9. CASE command = "SelectCard"
  <2>1. p \in AnswerIf(c.state = "standby" /\ arg = c.rca, c, [c EXCEPT !.state = "transfer"])
    BY <1>9 DEF Performances
  <2> QED
    BY <2>1, <1>2, <1>9, AnswerIfType DEF CardStates
<1>10. CASE command = "SendIfCond"
  <2>1. p \in AnswerIf(c.v2 /\ c.state = "idle", c, c)
    BY <1>10 DEF Performances
  <2> QED
    BY <2>1, <1>1, <1>10, AnswerIfType
<1>11. CASE command = "IOSetOpCond"
  <2>1. p = Silent(c)
    BY <1>11 DEF Performances
  <2> QED
    BY <2>1, <1>1, <1>11, NoResponseType DEF Silent, Performed, SameCard
<1>12. CASE command = "OcrInquiry"
  <2>1. p \in AnswerIf(c.state = "idle", c, c)
    BY <1>12 DEF Performances
  <2> QED
    BY <2>1, <1>1, <1>12, AnswerIfType
<1>13. CASE command \in {"SetBlockLen", "SendSCR"}
  <2>1. p \in AnswerIf(c.state = "transfer", c, c)
    BY <1>13 DEF Performances
  <2> DEFINE expected == c.state = "transfer"
  <2>2. expected \in BOOLEAN /\ p \in AnswerIf(expected, c, c)
    BY <2>1
  <2>3. /\ p \in Performed /\ SameCard(c, p.card) /\ ~p.response.ready
        /\ (p.answers => expected /\ p.card = c)
    <3> HIDE DEF expected
    <3> QED
      BY <2>2, <1>1, AnswerIfType
  <2> QED
    BY <1>13, <2>3
<1> QED
  BY <1>4, <1>5, <1>6, <1>7, <1>8, <1>9, <1>10, <1>11, <1>12, <1>13 DEF Commands

\* What may come of a command.
Outcomes == [result : Results, card : Cards, response : Responses, faults : Nat]

\* The same of a command that may get lost, with its answer or without: what is done was
\* answered by the card.
LEMMA IssueCommandType ==
  ASSUME NEW c \in Cards, NEW command \in Commands, NEW arg, NEW f \in Nat,
         NEW o \in IssueCommand(c, command, arg, f)
  PROVE  /\ o \in Outcomes /\ SameCard(c, o.card)
         /\ o.result = "done" /\ command = "App" => arg = c.rca /\ o.card = c
         /\ o.result = "done" /\ command = "SendSCR" => c.state = "transfer" /\ o.card = c
         /\ o.result = "done" /\ o.response.ready => o.response.sdhc = c.sdhc
<1>1. PICK p \in Performances(c, command, arg) :
        \/ o = Outcome(IF p.answers THEN "done" ELSE "no_answer", p.card, p.response, f)
        \/ \E r \in {"no_answer", "error", "timeout"}, next \in {c, p.card} :
             o = Outcome(r, next, NoResponse, f + 1)
  BY DEF IssueCommand
<1>2. /\ p \in Performed /\ SameCard(c, p.card)
      /\ p.answers /\ command = "App" => arg = c.rca /\ p.card = c
      /\ p.answers /\ command = "SendSCR" => c.state = "transfer" /\ p.card = c
      /\ p.answers /\ p.response.ready => p.response.sdhc = c.sdhc
  BY PerformancesType
<1>3. CASE o = Outcome(IF p.answers THEN "done" ELSE "no_answer", p.card, p.response, f)
  BY <1>2, <1>3 DEF Outcome, Outcomes, Results, Performed
<1>4. ASSUME NEW r \in {"no_answer", "error", "timeout"}, NEW next \in {c, p.card},
             o = Outcome(r, next, NoResponse, f + 1)
      PROVE  o \in Outcomes /\ SameCard(c, o.card) /\ o.result # "done"
  BY <1>2, <1>4, NoResponseType DEF Outcome, Outcomes, Results, SameCard
<1> QED
  BY <1>1, <1>3, <1>4

\* An application command that is done shows that the driver knows the card's address.
LEMMA AppCommandType ==
  ASSUME NEW command \in Commands, NEW arg, card \in Cards, NEW o \in AppCommand(card, command, arg)
  PROVE  /\ o \in Outcomes /\ SameCard(card, o.card)
         /\ o.result = "done" => controller.rca = card.rca
         /\ o.result = "done" /\ command = "SendSCR" => card.state = "transfer" /\ o.card = card
         /\ o.result = "done" /\ o.response.ready => o.response.sdhc = card.sdhc
<1>1. PICK app \in IssueCommand(card, "App", controller.rca, 0) :
        o \in IF app.result # "done" THEN {app} ELSE IssueCommand(app.card, command, arg, app.faults)
  BY DEF AppCommand
<1>2. /\ app \in Outcomes /\ SameCard(card, app.card)
      /\ app.result = "done" => controller.rca = card.rca /\ app.card = card
  BY IssueCommandType DEF Commands
<1>3. CASE app.result # "done"
  BY <1>1, <1>2, <1>3
<1>4. CASE app.result = "done"
  <2>1. o \in IssueCommand(card, command, arg, app.faults) /\ app.faults \in Nat
    BY <1>1, <1>2, <1>4 DEF Outcomes
  <2> QED
    BY <1>2, <1>4, <2>1, IssueCommandType
<1> QED
  BY <1>3, <1>4

-----------------------------------------------------------------------------
\* Where the driver may be, and what it keeps.
ResetSteps == {"reset", "go_idle", "if_cond", "op_cond", "ocr", "sdhc", "clock", "cid", "rca",
               "select", "block_len", "scr"}
CapacityKnown == {"clock", "cid", "rca", "select", "block_len", "scr"}
InUse == {"ready", "transfer"}

Controllers == [is_sdhc : BOOLEAN, rca : {NoRCA, NewRCA}, v2 : BOOLEAN, block_size : {0, SDBlockSize}]
SDCalls == [write : BOOLEAN, block : SDBlocks, buffer : Seq(SDData), tries : Nat, faults : Nat,
            ocr : Nat, before : [SDBlocks -> SDData], result : {"none", "success", "failure"}]

SDTypeOK ==
  /\ card \in Cards
  /\ controller \in Controllers
  /\ sd_pc \in {"off", "failed"} \cup ResetSteps \cup InUse
  /\ sd_call \in SDCalls
  /\ sd_faults \in Nat

\* Once the capacity has been asked for it is known, and the address and the block size once
\* the card is configured.
CardKnown ==
  /\ sd_pc \in CapacityKnown \cup InUse => controller.is_sdhc = card.sdhc
  /\ sd_pc \in InUse => card.state = "transfer" /\ card.rca = controller.rca
                        /\ controller.block_size = SDBlockSize

\* A card that is not in use has no transfer.
NothingTransferred ==
  /\ sd_pc \notin InUse => sd_call.buffer = << >>
  /\ sd_pc \in {"off"} \cup ResetSteps => sd_call.result = "none"

\* Every attempt of the call in progress has met a fault.
AttemptsFailed ==
  sd_pc = "transfer" =>
    /\ Len(sd_call.buffer) > 0
    /\ sd_call.tries < MaxRetries
    /\ Len(sd_call.buffer) <= TransferLimit => sd_faults >= sd_call.faults + sd_call.tries

\* The blocks of a transfer are on the card.
InPlace ==
  sd_pc \in InUse /\ Len(sd_call.buffer) > 0 =>
    LastBlock(sd_call.block, Len(sd_call.buffer)) \in SDBlocks

\* The inductive invariant.
SDInv ==
  /\ SDTypeOK /\ CardKnown /\ NothingTransferred /\ AttemptsFailed /\ InPlace
  /\ SuccessMeansTransferred /\ RetriesMaskFaults

\* The record of no call is one of a call: there is a block, and something it holds.
LEMMA NoCallType ==
  ASSUME card \in Cards
  PROVE  NoSDCall \in SDCalls
<1>1. (CHOOSE d \in SDData : TRUE) \in SDData
  BY SDAssumption DEF Cards
<1>2. [b \in SDBlocks |-> CHOOSE d \in SDData : TRUE] \in [SDBlocks -> SDData]
  BY <1>1
<1>3. 0 \in SDBlocks
  BY SDAssumption
<1> QED
  BY <1>2, <1>3 DEF NoSDCall, SDCalls

\* The invariant holds when the driver is loaded.
LEMMA SDInitially == SDInit => SDInv
<1> SUFFICES ASSUME SDInit PROVE SDInv
  OBVIOUS
<1>1. card \in Cards /\ sd_pc = "off" /\ sd_call = NoSDCall /\ controller = InitialController
      /\ sd_faults = 0
  BY DEF SDInit, Cards, CardStates
<1>2. NoSDCall \in SDCalls
  BY <1>1, NoCallType
<1>3. InitialController \in Controllers
  BY DEF InitialController, Controllers
<1>4. NoSDCall.buffer = << >> /\ NoSDCall.result = "none"
  BY DEF NoSDCall
<1> QED
  BY <1>1, <1>2, <1>3, <1>4 DEF SDInv, SDTypeOK, CardKnown, NothingTransferred, AttemptsFailed, InPlace,
     SuccessMeansTransferred, RetriesMaskFaults, HasReturned, ResetSteps, CapacityKnown, InUse

-----------------------------------------------------------------------------
\* What every step of the reset leaves behind.
ResetStepDone ==
  /\ SameCard(card, card')
  /\ controller' \in Controllers
  /\ sd_pc' \in {"ready", "failed"} \cup ResetSteps
  /\ sd_call' \in SDCalls /\ sd_call'.buffer = << >>
  /\ sd_pc' # "failed" => sd_call'.result = "none"
  /\ sd_faults' \in Nat
  /\ sd_pc' \in CapacityKnown \cup InUse => controller'.is_sdhc = card.sdhc
  /\ sd_pc' = "ready" => card'.state = "transfer" /\ card'.rca = controller'.rca
                         /\ controller'.block_size = SDBlockSize

\* A step that leaves this behind keeps the invariant, that of the transfers too: a card
\* being reset has no transfer.
LEMMA ResetKeepsInv ==
  ASSUME SDInv, ResetStepDone
  PROVE  SDInv'
<1>1. SDTypeOK'
  BY DEF SDInv, ResetStepDone, SDTypeOK, SameCard, InUse
<1>2. CardKnown'
  BY DEF SDInv, ResetStepDone, CardKnown, SameCard, InUse, ResetSteps
<1>3. sd_pc' # "transfer" /\ Len(sd_call'.buffer) = 0
  BY DEF ResetStepDone, ResetSteps
<1>4. sd_pc' = "ready" => sd_call'.result = "none"
  BY DEF ResetStepDone
<1>5. NothingTransferred'
  BY DEF SDInv, ResetStepDone, NothingTransferred, InUse, ResetSteps
<1> QED
  BY <1>1, <1>2, <1>3, <1>4, <1>5 DEF SDInv, AttemptsFailed, InPlace, SuccessMeansTransferred,
     RetriesMaskFaults, HasReturned

\* A reset that fails starts again or is given up.
LEMMA FailResetType ==
  ASSUME sd_call \in SDCalls, sd_call.buffer = << >>, sd_call.result = "none", FailReset
  PROVE  /\ sd_pc' \in {"reset", "failed"}
         /\ sd_call' \in SDCalls /\ sd_call'.buffer = << >>
         /\ sd_pc' # "failed" => sd_call'.result = "none"
BY DEF FailReset, SDCalls

\* The counters of a call that starts again.
LEMMA StartAgainType ==
  ASSUME NEW c \in SDCalls
  PROVE  LET again == [c EXCEPT !.tries = c.tries + 1, !.ocr = 0]
         IN again \in SDCalls /\ again.buffer = c.buffer /\ again.result = c.result
<1> DEFINE once == [c EXCEPT !.tries = c.tries + 1]
           again == [once EXCEPT !.ocr = 0]
<1>1. once \in SDCalls /\ once.buffer = c.buffer /\ once.result = c.result
  BY DEF SDCalls
<1>2. again \in SDCalls /\ again.buffer = once.buffer /\ again.result = once.result
  <2> HIDE DEF once
  <2> QED
    BY <1>1 DEF SDCalls
<1> QED
  BY <1>1, <1>2

\* Each step of ResetCard keeps the invariant.
LEMMA ResetCardInv ==
  ASSUME SDInv, ResetCard
  PROVE  SDInv'
<1> SUFFICES ResetStepDone
  BY ResetKeepsInv
<1> USE DEF SDInv, SDTypeOK, ResetSteps, CapacityKnown, InUse
<1>0. /\ sd_pc \in ResetSteps =>
           sd_call \in SDCalls /\ sd_call.buffer = << >> /\ sd_call.result = "none"
      /\ SameCard(card, card)
  BY DEF NothingTransferred, SameCard
<1>1. CASE ResetHost
  <2>1. CASE FailReset
    BY <1>0, <1>1, <2>1, FailResetType DEF ResetHost, ResetStepDone
  <2>2. CASE ~FailReset
    BY <1>0, <1>1, <2>2 DEF ResetHost, ResetStepDone, Controllers
  <2> QED
    BY <2>1, <2>2
<1>2. CASE GoIdle
  <2>1. PICK o \in IssueCommand(card, "GoIdle", 0, 0) :
          /\ card' = o.card
          /\ sd_faults' = sd_faults + o.faults
          /\ IF o.result = "done"
             THEN sd_pc' = "if_cond" /\ controller' = controller /\ UNCHANGED sd_call
             ELSE FailReset /\ UNCHANGED controller
    BY <1>2 DEF GoIdle, Step, IsDone, Nothing
  <2>2. o \in Outcomes /\ SameCard(card, o.card) /\ sd_pc = "go_idle"
    BY <1>2, IssueCommandType DEF Commands, GoIdle, Step
  <2> QED
    BY <1>0, <2>1, <2>2, FailResetType DEF ResetStepDone, Outcomes
<1>3. CASE IsV2Card
  <2>1. PICK o \in IssueCommand(card, "SendIfCond", 0, 0) :
          /\ card' = o.card
          /\ sd_faults' = sd_faults + o.faults
          /\ sd_pc' = "op_cond"
          /\ controller' = [controller EXCEPT !.v2 = (o.result = "done")]
          /\ UNCHANGED sd_call
    BY <1>3 DEF IsV2Card, Step, IsDone, Nothing
  <2>2. o \in Outcomes /\ SameCard(card, o.card) /\ sd_pc = "if_cond"
    BY <1>3, IssueCommandType DEF Commands, IsV2Card, Step
  <2>3. controller' \in Controllers
    BY <2>1 DEF Controllers
  <2> QED
    BY <1>0, <2>1, <2>2, <2>3 DEF ResetStepDone, Outcomes
<1>4. CASE IsUsableCard
  <2>1. CASE /\ sd_pc = "op_cond" /\ FailReset
             /\ UNCHANGED <<card, controller>> /\ sd_faults' = sd_faults + 1
    BY <1>0, <2>1, FailResetType DEF ResetStepDone
  <2>2. CASE \E o \in IssueCommand(card, "IOSetOpCond", 0, 0) :
          /\ sd_pc = "op_cond"
          /\ card' = o.card
          /\ sd_faults' = sd_faults + o.faults
          /\ IF o.result # "error"
             THEN sd_pc' = "ocr" /\ controller' = controller /\ UNCHANGED sd_call
             ELSE FailReset /\ UNCHANGED controller
    <3>1. PICK o \in IssueCommand(card, "IOSetOpCond", 0, 0) :
          /\ sd_pc = "op_cond"
          /\ card' = o.card
          /\ sd_faults' = sd_faults + o.faults
          /\ IF o.result # "error"
             THEN sd_pc' = "ocr" /\ controller' = controller /\ UNCHANGED sd_call
             ELSE FailReset /\ UNCHANGED controller
      BY <2>2
    <3>2. o \in Outcomes /\ SameCard(card, o.card)
      BY IssueCommandType DEF Commands
    <3> QED
      BY <1>0, <3>1, <3>2, FailResetType DEF ResetStepDone, Outcomes
  <2> QED
    BY <1>4, <2>1, <2>2 DEF IsUsableCard, Step, Nothing
<1>5. CASE CheckOperatingConditionsRegister
  <2>1. PICK o \in AppCommand(card, "OcrInquiry", 0) :
          /\ card' = o.card
          /\ sd_faults' = sd_faults + o.faults
          /\ IF o.result = "done"
             THEN sd_pc' = "sdhc" /\ controller' = controller /\ UNCHANGED sd_call
             ELSE FailReset /\ UNCHANGED controller
    BY <1>5 DEF CheckOperatingConditionsRegister, Step, IsDone, Nothing
  <2>2. o \in Outcomes /\ SameCard(card, o.card) /\ sd_pc = "ocr"
    BY <1>5, AppCommandType DEF Commands, CheckOperatingConditionsRegister, Step
  <2> QED
    BY <1>0, <2>1, <2>2, FailResetType DEF ResetStepDone, Outcomes
<1>6. CASE SetIsSDHCCard
  <2>1. PICK o \in AppCommand(card, "OcrCheck", controller.v2) :
       /\ card' = o.card
       /\ sd_faults' = sd_faults + o.faults
       /\ IF ~IsDone(o) THEN FailReset /\ UNCHANGED controller
          ELSE IF o.response.ready
          THEN /\ sd_pc' = "clock" /\ controller' = LearnCapacity(o)
               /\ sd_call' = [sd_call EXCEPT !.ocr = 0]
          ELSE /\ UNCHANGED controller
               /\ IF sd_call.ocr + 1 < OcrRetries
                  THEN sd_call' = [sd_call EXCEPT !.ocr = @ + 1] /\ UNCHANGED sd_pc
                  ELSE IF sd_call.tries + 1 < ResetTries
                  THEN sd_pc' = "reset" /\ sd_call' = [sd_call EXCEPT !.tries = @ + 1, !.ocr = 0]
                  ELSE sd_pc' = "failed" /\ sd_call' = [sd_call EXCEPT !.result = "failure"]
    BY <1>6 DEF SetIsSDHCCard
  <2>2. /\ o \in Outcomes /\ SameCard(card, o.card) /\ sd_pc = "sdhc"
        /\ IsDone(o) /\ o.response.ready => o.response.sdhc = card.sdhc
    BY <1>6, AppCommandType DEF Commands, SetIsSDHCCard, IsDone
  <2>3. ASSUME ~IsDone(o)
        PROVE  ResetStepDone
    BY <1>0, <2>1, <2>2, <2>3, FailResetType DEF ResetStepDone, Outcomes
  <2>4. ASSUME IsDone(o), o.response.ready
        PROVE  ResetStepDone
    <3>1. controller' \in Controllers /\ controller'.is_sdhc = card.sdhc
      BY <2>1, <2>2, <2>4 DEF LearnCapacity, Controllers, Outcomes, Responses
    <3>2. sd_call' \in SDCalls /\ sd_call'.buffer = << >> /\ sd_call'.result = "none" /\ sd_pc' = "clock"
      BY <1>0, <2>1, <2>2, <2>4 DEF SDCalls
    <3> QED
      BY <1>0, <2>1, <2>2, <3>1, <3>2 DEF ResetStepDone, Outcomes
  <2>5. ASSUME IsDone(o), ~o.response.ready
        PROVE  ResetStepDone
    <3>1. /\ sd_call' \in SDCalls /\ sd_call'.buffer = << >>
          /\ sd_pc' \in {"sdhc", "reset", "failed"}
          /\ sd_pc' # "failed" => sd_call'.result = "none"
      <4>1. \/ sd_call' = [sd_call EXCEPT !.ocr = sd_call.ocr + 1] /\ UNCHANGED sd_pc
            \/ sd_call' = [sd_call EXCEPT !.tries = sd_call.tries + 1, !.ocr = 0] /\ sd_pc' = "reset"
            \/ sd_call' = [sd_call EXCEPT !.result = "failure"] /\ sd_pc' = "failed"
        BY <2>1, <2>5
      <4>2. sd_call \in SDCalls /\ sd_call.buffer = << >> /\ sd_call.result = "none" /\ sd_pc = "sdhc"
        BY <1>0, <2>2
      <4>3. CASE sd_call' = [sd_call EXCEPT !.ocr = sd_call.ocr + 1] /\ UNCHANGED sd_pc
        BY <4>2, <4>3 DEF SDCalls
      <4>4. CASE /\ sd_call' = [sd_call EXCEPT !.tries = sd_call.tries + 1, !.ocr = 0]
                 /\ sd_pc' = "reset"
        BY <4>2, <4>4, StartAgainType
      <4>5. CASE sd_call' = [sd_call EXCEPT !.result = "failure"] /\ sd_pc' = "failed"
        BY <4>2, <4>5 DEF SDCalls
      <4> QED
        BY <4>1, <4>3, <4>4, <4>5
    <3>2. UNCHANGED controller
      BY <2>1, <2>5
    <3>3. card' = o.card /\ sd_faults' = sd_faults + o.faults
      BY <2>1
    <3>4. SameCard(card, card') /\ sd_faults' \in Nat
      BY <2>2, <3>3 DEF Outcomes
    <3> QED
      BY <3>1, <3>2, <3>4 DEF ResetStepDone
  <2> QED
    BY <2>3, <2>4, <2>5
<1>7. CASE SwitchClockRate
  <2>1. CASE FailReset
    BY <1>0, <1>7, <2>1, FailResetType DEF SwitchClockRate, ResetStepDone
  <2>2. CASE ~FailReset
    BY <1>0, <1>7, <2>2 DEF SwitchClockRate, ResetStepDone, CardKnown
  <2> QED
    BY <2>1, <2>2
<1>8. CASE SendCide
  <2>1. PICK o \in IssueCommand(card, "SendCide", 0, 0) :
          /\ card' = o.card
          /\ sd_faults' = sd_faults + o.faults
          /\ IF o.result = "done"
             THEN sd_pc' = "rca" /\ controller' = controller /\ UNCHANGED sd_call
             ELSE FailReset /\ UNCHANGED controller
    BY <1>8 DEF SendCide, Step, IsDone, Nothing
  <2>2. o \in Outcomes /\ SameCard(card, o.card) /\ sd_pc = "cid"
    BY <1>8, IssueCommandType DEF Commands, SendCide, Step
  <2> QED
    BY <1>0, <2>1, <2>2, FailResetType DEF ResetStepDone, Outcomes, CardKnown
<1>9. CASE SendRelativeAddr
  <2>1. PICK o \in IssueCommand(card, "SendRelativeAddr", 0, 0)
               \cup IssueCommand(card, "SendRelativeAddr", 0, 1) :
          /\ card' = o.card
          /\ sd_faults' = sd_faults + o.faults
          /\ \/ sd_pc' = "select" /\ UNCHANGED sd_call
             \/ FailReset
          /\ controller' \in {controller, [controller EXCEPT !.rca = o.response.rca]}
    BY <1>9 DEF SendRelativeAddr, Step, IsDone, Nothing
  <2>2. o \in Outcomes /\ SameCard(card, o.card) /\ sd_pc = "rca"
    BY <1>0, <1>9, IssueCommandType DEF Commands, SendRelativeAddr, Step
  <2> QED
    BY <1>0, <2>1, <2>2, FailResetType DEF ResetStepDone, Outcomes, CardKnown, Controllers, Responses
<1>10. CASE SelectCard
  <2>1. PICK o \in IssueCommand(card, "SelectCard", controller.rca, 0) :
          /\ card' = o.card
          /\ sd_faults' = sd_faults + o.faults
          /\ \/ sd_pc' \in {"scr", "block_len"} /\ controller' = controller /\ UNCHANGED sd_call
             \/ FailReset /\ UNCHANGED controller
    BY <1>10 DEF SelectCard, Step, IsDone, Nothing
  <2>2. o \in Outcomes /\ SameCard(card, o.card) /\ sd_pc = "select"
    BY <1>10, IssueCommandType DEF Commands, SelectCard, Step
  <2> QED
    BY <1>0, <2>1, <2>2, FailResetType DEF ResetStepDone, Outcomes, CardKnown
<1>11. CASE SetBlockLen
  <2>1. PICK o \in IssueCommand(card, "SetBlockLen", 0, 0) :
          /\ card' = o.card
          /\ sd_faults' = sd_faults + o.faults
          /\ IF o.result = "done"
             THEN sd_pc' = "scr" /\ controller' = controller /\ UNCHANGED sd_call
             ELSE FailReset /\ UNCHANGED controller
    BY <1>11 DEF SetBlockLen, Step, IsDone, Nothing
  <2>2. o \in Outcomes /\ SameCard(card, o.card) /\ sd_pc = "block_len"
    BY <1>11, IssueCommandType DEF Commands, SetBlockLen, Step
  <2> QED
    BY <1>0, <2>1, <2>2, FailResetType DEF ResetStepDone, Outcomes, CardKnown
<1>12. CASE SetSDCardConfigurationRegister
  <2>1. PICK o \in AppCommand(card, "SendSCR", 0) :
          /\ card' = o.card
          /\ sd_faults' = sd_faults + o.faults
          /\ IF o.result = "done"
             THEN /\ sd_pc' = "ready" /\ controller' = [controller EXCEPT !.block_size = SDBlockSize]
                  /\ UNCHANGED sd_call
             ELSE FailReset /\ UNCHANGED controller
    BY <1>12 DEF SetSDCardConfigurationRegister, Step, IsDone, Nothing
  <2>2. o \in Outcomes /\ SameCard(card, o.card) /\ sd_pc = "scr"
    BY <1>12, AppCommandType DEF Commands, SetSDCardConfigurationRegister, Step
  <2>3. o.result = "done" => controller.rca = card.rca /\ card.state = "transfer" /\ o.card = card
    BY AppCommandType DEF Commands
  <2> QED
    BY <1>0, <2>1, <2>2, <2>3, FailResetType DEF ResetStepDone, Outcomes, CardKnown, Controllers
<1> QED
  BY <1>1, <1>2, <1>3, <1>4, <1>5, <1>6, <1>7, <1>8, <1>9, <1>10, <1>11, <1>12 DEF ResetCard

-----------------------------------------------------------------------------
\* Initialize begins with the driver's fields as they are declared.
LEMMA InitializeInv ==
  ASSUME SDInv, Initialize
  PROVE  SDInv'
<1>1. sd_call' = NoSDCall /\ NoSDCall \in SDCalls
  BY NoCallType DEF Initialize, SDInv, SDTypeOK
<1>2. InitialController \in Controllers
  BY DEF InitialController, Controllers
<1>3. NoSDCall.buffer = << >> /\ NoSDCall.result = "none"
  BY DEF NoSDCall
<1> QED
  BY <1>1, <1>2, <1>3 DEF SDInv, SDTypeOK, Initialize, CardKnown, NothingTransferred,
     AttemptsFailed, InPlace, SuccessMeansTransferred, RetriesMaskFaults, HasReturned, ResetSteps,
     CapacityKnown, InUse

\* A buffer holds at least one block.
LEMMA BuffersType ==
  ASSUME NEW buffer \in Buffers
  PROVE  buffer \in Seq(SDData) /\ Len(buffer) > 0
BY SDAssumption DEF Buffers

\* Between two blocks of the card there are only blocks of the card.
LEMMA BlocksBetween ==
  ASSUME NEW b \in SDBlocks, NEW n \in Nat, LastBlock(b, n) \in SDBlocks
  PROVE  b .. LastBlock(b, n) \subseteq SDBlocks
BY SDAssumption DEF LastBlock

\* A transfer begins with what the card holds and the faults there have been.
LEMMA BeginTransferInv ==
  ASSUME SDInv, NEW write \in BOOLEAN, NEW block \in SDBlocks,
         NEW buffer \in Seq(SDData), Len(buffer) > 0,
         BeginTransfer(write, block, buffer)
  PROVE  SDInv'
<1> USE DEF SDInv, SDTypeOK, BeginTransfer
<1>1. sd_call' \in SDCalls
  BY DEF SDCalls, Cards
<1>2. SDTypeOK'
  BY <1>1 DEF InUse
<1>3. CardKnown'
  BY DEF CardKnown, InUse, CapacityKnown
<1>4. sd_call'.write = write /\ sd_call'.block = block /\ sd_call'.buffer = buffer
      /\ sd_call'.tries = 0 /\ sd_call'.faults = sd_faults /\ sd_call'.before = card.blocks
      /\ sd_pc' = "transfer"
  OBVIOUS
<1>5. NothingTransferred' /\ AttemptsFailed' /\ InPlace'
  BY <1>4 DEF NothingTransferred, AttemptsFailed, InPlace, InUse, ResetSteps, MaxRetries
<1>6. SuccessMeansTransferred' /\ RetriesMaskFaults'
  BY <1>4 DEF SuccessMeansTransferred, RetriesMaskFaults, HasReturned
<1> QED
  BY <1>2, <1>3, <1>5, <1>6

\* The card takes the argument of a transfer, in blocks or in bytes, for the block that
\* was asked for: the driver knows the card's capacity.
LEMMA RightBlock ==
  ASSUME SDInv, sd_pc = "transfer"
  PROVE  BlockMeant = sd_call.block
<1>1. sd_call.block \in Nat /\ SDBlockSize \in Nat \ {0}
  BY SDAssumption DEF SDInv, SDTypeOK, SDCalls
<1>2. controller.is_sdhc = card.sdhc
  BY DEF SDInv, CardKnown, InUse
<1>3. (sd_call.block * SDBlockSize) \div SDBlockSize = sd_call.block
  BY <1>1
<1> QED
  BY <1>2, <1>3 DEF BlockMeant, BlockArgument

\* The buffer keeps its length while blocks are read into it.
LEMMA BufferAfterType ==
  ASSUME SDInv, sd_pc = "transfer", NEW n \in 0 .. Len(sd_call.buffer)
  PROVE  /\ BufferAfter(n) \in Seq(SDData)
         /\ Len(BufferAfter(n)) = Len(sd_call.buffer)
<1>1. sd_call.buffer \in Seq(SDData) /\ card.blocks \in [SDBlocks -> SDData]
  BY DEF SDInv, SDTypeOK, SDCalls, Cards
<1>2. sd_call.block \in SDBlocks /\ sd_call.block \in Nat
  BY SDAssumption DEF SDInv, SDTypeOK, SDCalls
<1>3. sd_call.block .. LastBlock(sd_call.block, Len(sd_call.buffer)) \subseteq SDBlocks
  BY <1>1, <1>2, BlocksBetween DEF SDInv, AttemptsFailed, InPlace, InUse
<1>4. CASE sd_call.write
  BY <1>1, <1>4 DEF BufferAfter
<1>5. CASE ~sd_call.write
  <2> DEFINE after == [i \in 1 .. Len(sd_call.buffer) |->
          IF i <= n THEN card.blocks[sd_call.block + i - 1] ELSE sd_call.buffer[i]]
  <2>1. BufferAfter(n) = after
    BY <1>5, RightBlock DEF BufferAfter
  <2>2. ASSUME NEW i \in 1 .. Len(sd_call.buffer)
        PROVE  after[i] \in SDData
    <3>1. sd_call.block + i - 1 \in SDBlocks
      BY <1>1, <1>2, <1>3 DEF LastBlock
    <3> QED
      BY <1>1, <3>1
  <2>3. after \in [1 .. Len(sd_call.buffer) -> SDData]
    BY <2>2
  <2>4. after \in Seq(SDData) /\ Len(after) = Len(sd_call.buffer)
    <3>1. PICK f, m : f = after /\ m = Len(sd_call.buffer)
      OBVIOUS
    <3>2. f \in [1 .. m -> SDData] /\ m \in Nat
      BY <1>1, <2>3, <3>1
    <3>3. f \in Seq(SDData) /\ Len(f) = m
      BY <3>2
    <3> QED
      BY <3>1, <3>3
  <2> QED
    BY <2>1, <2>4
<1> QED
  BY <1>4, <1>5

\* A write changes the blocks asked for, as far as it got, and no other; a read none.
LEMMA BlocksAfterType ==
  ASSUME SDInv, sd_pc = "transfer", NEW n \in 0 .. Len(sd_call.buffer)
  PROVE  /\ BlocksAfter(n) \in [SDBlocks -> SDData]
         /\ ~sd_call.write => BlocksAfter(n) = card.blocks
         /\ sd_call.write =>
              /\ \A b \in SDBlocks \ (sd_call.block .. LastBlock(sd_call.block, Len(sd_call.buffer))) :
                   BlocksAfter(n)[b] = card.blocks[b]
              /\ \A b \in SDBlocks \cap (sd_call.block .. LastBlock(sd_call.block, n)) :
                   BlocksAfter(n)[b] = sd_call.buffer[b - sd_call.block + 1]
<1>1. sd_call.buffer \in Seq(SDData) /\ card.blocks \in [SDBlocks -> SDData]
  BY DEF SDInv, SDTypeOK, SDCalls, Cards
<1>2. sd_call.block \in Nat /\ SDBlocks \subseteq Nat
  BY SDAssumption DEF SDInv, SDTypeOK, SDCalls
<1>3. CASE ~sd_call.write
  BY <1>1, <1>3 DEF BlocksAfter
<1>4. CASE sd_call.write
  <2> DEFINE after == [b \in SDBlocks |->
                         IF b \in sd_call.block .. LastBlock(sd_call.block, n)
                         THEN sd_call.buffer[b - sd_call.block + 1] ELSE card.blocks[b]]
  <2>1. BlocksAfter(n) = after
    BY <1>4, RightBlock DEF BlocksAfter
  <2>2. ASSUME NEW b \in SDBlocks
        PROVE  after[b] \in SDData
    <3>1. CASE b \in sd_call.block .. LastBlock(sd_call.block, n)
      <4>1. b - sd_call.block + 1 \in 1 .. Len(sd_call.buffer)
        BY <1>1, <1>2, <3>1 DEF LastBlock
      <4> QED
        BY <1>1, <3>1, <4>1
    <3> QED
      BY <1>1, <3>1
  <2>3. ASSUME NEW b \in SDBlocks \ (sd_call.block .. LastBlock(sd_call.block, Len(sd_call.buffer)))
        PROVE  b \notin sd_call.block .. LastBlock(sd_call.block, n)
    BY <1>1, <1>2 DEF LastBlock
  <2> QED
    BY <1>4, <2>1, <2>2, <2>3
<1> QED
  BY <1>3, <1>4

\* Flags that pass for success are those of a transfer that is complete: an error that
\* TransferData met left the flag that says which.
LEMMA FlagsTell ==
  ASSUME NEW complete \in BOOLEAN, NEW flags \in FlagsAfter(complete)
  PROVE  /\ IsSuccess(flags) => complete
         /\ ~IsSuccess(flags) => flags # {"DataDone"}
<1>1. CASE complete
  BY <1>1 DEF IsSuccess
<1>2. CASE ~complete
  <2>1. flags \in {f \ {"Ready", "Error"} :
                     f \in {{}, {"Error", "DataError"}, {"DataDone", "Error", "DataError"}}}
    BY <1>2 DEF FlagsAfter, ClearedByTransferData
  <2>2. flags = {} \/ "DataError" \in flags
    BY <2>1
  <2> QED
    BY <2>2 DEF IsSuccess
<1> QED
  BY <1>1, <1>2

\* The same call with another buffer, further on or over.
SameCall(c, d, buffer) ==
  /\ d \in SDCalls /\ d.write = c.write /\ d.block = c.block /\ d.faults = c.faults
  /\ d.before = c.before /\ d.buffer = buffer

Counted(c, t, buffer) == [c EXCEPT !.tries = t, !.buffer = buffer]
Ended(c, r, buffer) == [c EXCEPT !.result = r, !.buffer = buffer]

\* Counting an attempt, or ending the call, leaves what was asked for as it is.
LEMMA CallChanges ==
  ASSUME NEW c \in SDCalls, NEW buffer \in Seq(SDData)
  PROVE  /\ \A t \in Nat :
              SameCall(c, Counted(c, t, buffer), buffer) /\ Counted(c, t, buffer).tries = t
         /\ \A r \in {"success", "failure"} :
              SameCall(c, Ended(c, r, buffer), buffer) /\ Ended(c, r, buffer).result = r
<1>1. ASSUME NEW once \in SDCalls, NEW d, d = [once EXCEPT !.buffer = buffer]
      PROVE  /\ d \in SDCalls /\ d.write = once.write /\ d.block = once.block
             /\ d.faults = once.faults /\ d.before = once.before /\ d.buffer = buffer
             /\ d.tries = once.tries /\ d.result = once.result
  BY <1>1 DEF SDCalls
<1>2. ASSUME NEW t \in Nat
      PROVE  SameCall(c, Counted(c, t, buffer), buffer) /\ Counted(c, t, buffer).tries = t
  <2> DEFINE once == [c EXCEPT !.tries = t]
  <2>1. /\ once \in SDCalls /\ once.write = c.write /\ once.block = c.block
        /\ once.faults = c.faults /\ once.before = c.before /\ once.tries = t
    BY DEF SDCalls
  <2>2. Counted(c, t, buffer) = [once EXCEPT !.buffer = buffer]
    BY DEF Counted
  <2> HIDE DEF once
  <2> QED
    BY <1>1, <2>1, <2>2 DEF SameCall
<1>3. ASSUME NEW r \in {"success", "failure"}
      PROVE  SameCall(c, Ended(c, r, buffer), buffer) /\ Ended(c, r, buffer).result = r
  <2> DEFINE once == [c EXCEPT !.result = r]
  <2>1. /\ once \in SDCalls /\ once.write = c.write /\ once.block = c.block
        /\ once.faults = c.faults /\ once.before = c.before /\ once.result = r
    BY DEF SDCalls
  <2>2. Ended(c, r, buffer) = [once EXCEPT !.buffer = buffer]
    BY DEF Ended
  <2> HIDE DEF once
  <2> QED
    BY <1>1, <2>1, <2>2 DEF SameCall
<1> QED
  BY <1>2, <1>3

\* What an attempt that failed leaves of the call.
LEMMA FailAttemptInv ==
  ASSUME SDInv, sd_pc = "transfer",
         NEW buffer \in Seq(SDData), Len(buffer) = Len(sd_call.buffer),
         card' \in Cards, card' = [card EXCEPT !.blocks = card'.blocks],
         UNCHANGED controller,
         \A b \in SDBlocks \ (IF sd_call.write
                              THEN sd_call.block .. LastBlock(sd_call.block, Len(sd_call.buffer))
                              ELSE {}) : card'.blocks[b] = card.blocks[b],
         sd_faults' \in Nat,
         Len(buffer) <= TransferLimit => sd_faults' > sd_faults,
         sd_faults' >= sd_faults,
         FailAttempt(buffer)
  PROVE  SDInv'
<1>1. /\ sd_call'.write = sd_call.write /\ sd_call'.block = sd_call.block
      /\ sd_call'.faults = sd_call.faults /\ sd_call'.before = sd_call.before
      /\ sd_call'.buffer = buffer /\ sd_call' \in SDCalls
      /\ \/ sd_pc' = "transfer" /\ sd_call'.tries = sd_call.tries + 1 /\ sd_call.tries + 1 < MaxRetries
         \/ /\ sd_pc' = "ready" /\ sd_call'.result = "failure" /\ sd_call.tries + 1 >= MaxRetries
  <2>1. sd_call \in SDCalls
    BY DEF SDInv, SDTypeOK
  <2>2. CASE MayRetry
    <3>1. sd_call' = Counted(sd_call, sd_call.tries + 1, buffer) /\ sd_pc' = "transfer"
      BY <2>2 DEF FailAttempt, Counted
    <3>2. sd_call.tries + 1 \in Nat /\ sd_call.tries + 1 < MaxRetries
      BY <2>1, <2>2 DEF MayRetry, SDCalls
    <3> QED
      BY <2>1, <3>1, <3>2, CallChanges, SMTT(60) DEF SameCall
  <2>3. CASE ~MayRetry
    <3>1. sd_call' = Ended(sd_call, "failure", buffer) /\ sd_pc' = "ready"
      BY <2>3 DEF FailAttempt, Return, Ended
    <3>2. sd_call.tries + 1 >= MaxRetries
      BY <2>1, <2>3 DEF MayRetry, SDCalls, MaxRetries
    <3> QED
      BY <2>1, <3>1, <3>2, CallChanges DEF SameCall
  <2> QED
    BY <2>2, <2>3
<1>2. SDTypeOK'
  BY <1>1 DEF SDInv, SDTypeOK, InUse
<1>3. /\ card'.state = card.state /\ card'.rca = card.rca /\ card'.sdhc = card.sdhc
  BY DEF SDInv, SDTypeOK, Cards
<1>4. CardKnown'
  BY <1>1, <1>3 DEF SDInv, CardKnown, InUse
<1>5. NothingTransferred' /\ InPlace'
  BY <1>1 DEF SDInv, NothingTransferred, InPlace, InUse, ResetSteps
<1>6. AttemptsFailed' /\ RetriesMaskFaults'
  <2>1. /\ sd_call.tries \in Nat /\ sd_call.faults \in Nat /\ sd_faults \in Nat
        /\ Len(sd_call.buffer) > 0
        /\ (Len(sd_call.buffer) <= TransferLimit => sd_faults >= sd_call.faults + sd_call.tries)
    BY DEF SDInv, SDTypeOK, SDCalls, AttemptsFailed
  <2> QED
    BY <1>1, <2>1 DEF AttemptsFailed, RetriesMaskFaults, HasReturned, MaxRetries
<1>7. SuccessMeansTransferred'
  <2>1. \A b \in SDBlocks \ (IF sd_call.write
                             THEN sd_call.block .. LastBlock(sd_call.block, Len(sd_call.buffer))
                             ELSE {}) : card.blocks[b] = sd_call.before[b]
    BY DEF SDInv, SuccessMeansTransferred, AttemptsFailed
  <2> QED
    BY <1>1, <2>1 DEF SuccessMeansTransferred, HasReturned
<1> QED
  BY <1>2, <1>4, <1>5, <1>6, <1>7 DEF SDInv

\* An attempt whose command is refused or lost keeps the invariant.
LEMMA CommandFailsInv ==
  ASSUME SDInv, CommandFails
  PROVE  SDInv'
<1>1. sd_pc = "transfer" /\ card \in Cards /\ sd_faults \in Nat /\ sd_call.buffer \in Seq(SDData)
  BY DEF SDInv, SDTypeOK, SDCalls, CommandFails
<1>2. card = [card EXCEPT !.blocks = card.blocks]
  BY <1>1 DEF Cards
<1>3. /\ sd_faults' \in Nat /\ sd_faults' >= sd_faults
      /\ Len(sd_call.buffer) <= TransferLimit => sd_faults' > sd_faults
  <2>1. Len(sd_call.buffer) \in Nat /\ TransferLimit \in Nat
    BY <1>1, SDAssumption
  <2> QED
    BY <1>1, <2>1 DEF CommandFails
<1>4. FailAttempt(sd_call.buffer) /\ card' = card /\ UNCHANGED controller
  BY DEF CommandFails
<1> QED
  BY <1>1, <1>2, <1>3, <1>4, FailAttemptInv

\* An attempt that moved blocks keeps the invariant, in success and in failure.
LEMMA MoveBlocksInv ==
  ASSUME SDInv, MoveBlocks
  PROVE  SDInv'
<1>0. PICK n \in 0 .. Len(sd_call.buffer) :
        \E flags \in FlagsAfter(n = Len(sd_call.buffer)) :
          /\ sd_faults' = IF flags = {"DataDone"} /\ n = Len(sd_call.buffer)
                          THEN sd_faults ELSE sd_faults + 1
          /\ card' = [card EXCEPT !.blocks = BlocksAfter(n)]
          /\ IF IsSuccess(flags) THEN Return("success", BufferAfter(n)) ELSE FailAttempt(BufferAfter(n))
  BY DEF MoveBlocks
<1>1. PICK flags \in FlagsAfter(n = Len(sd_call.buffer)) :
        /\ sd_faults' = IF flags = {"DataDone"} /\ n = Len(sd_call.buffer)
                        THEN sd_faults ELSE sd_faults + 1
        /\ card' = [card EXCEPT !.blocks = BlocksAfter(n)]
        /\ IF IsSuccess(flags) THEN Return("success", BufferAfter(n)) ELSE FailAttempt(BufferAfter(n))
  BY <1>0
<1>2. sd_pc = "transfer" /\ UNCHANGED controller
      /\ card \in Cards /\ sd_faults \in Nat /\ sd_call.buffer \in Seq(SDData) /\ sd_call \in SDCalls
  BY DEF SDInv, SDTypeOK, SDCalls, MoveBlocks
<1>3. BufferAfter(n) \in Seq(SDData) /\ Len(BufferAfter(n)) = Len(sd_call.buffer)
  BY <1>2, BufferAfterType
<1>4. /\ BlocksAfter(n) \in [SDBlocks -> SDData]
      /\ ~sd_call.write => BlocksAfter(n) = card.blocks
      /\ sd_call.write =>
           /\ \A b \in SDBlocks \ (sd_call.block .. LastBlock(sd_call.block, Len(sd_call.buffer))) :
                BlocksAfter(n)[b] = card.blocks[b]
           /\ \A b \in SDBlocks \cap (sd_call.block .. LastBlock(sd_call.block, n)) :
                BlocksAfter(n)[b] = sd_call.buffer[b - sd_call.block + 1]
  BY <1>2, BlocksAfterType
<1>5. card' \in Cards /\ card' = [card EXCEPT !.blocks = card'.blocks] /\ card'.blocks = BlocksAfter(n)
      /\ card'.state = card.state /\ card'.rca = card.rca /\ card'.sdhc = card.sdhc
  BY <1>1, <1>2, <1>4 DEF Cards
<1>6. sd_faults' \in Nat /\ sd_faults' >= sd_faults
  BY <1>1, <1>2
<1>7. \A b \in SDBlocks \ (IF sd_call.write
                           THEN sd_call.block .. LastBlock(sd_call.block, Len(sd_call.buffer))
                           ELSE {}) : card'.blocks[b] = card.blocks[b]
  BY <1>4, <1>5
<1>8. CASE ~IsSuccess(flags)
  <2>1. sd_faults' > sd_faults
    <3> DEFINE complete == n = Len(sd_call.buffer)
    <3>1. complete \in BOOLEAN /\ flags \in FlagsAfter(complete)
      OBVIOUS
    <3>2. flags # {"DataDone"}
      <4> HIDE DEF complete
      <4> QED
        BY <1>8, <3>1, FlagsTell
    <3> QED
      BY <1>1, <1>2, <3>2
  <2> QED
    BY <1>1, <1>2, <1>3, <1>5, <1>6, <1>7, <1>8, <2>1, FailAttemptInv
<1>9. CASE IsSuccess(flags)
  <2>1. n = Len(sd_call.buffer)
    BY <1>9, FlagsTell
  <2>2. /\ sd_pc' = "ready" /\ sd_call' \in SDCalls /\ sd_call'.result = "success"
        /\ sd_call'.buffer = BufferAfter(n) /\ sd_call'.write = sd_call.write
        /\ sd_call'.block = sd_call.block /\ sd_call'.before = sd_call.before
    BY <1>1, <1>2, <1>3, <1>9 DEF Return, SDCalls
  <2>3. SDTypeOK'
    BY <1>2, <1>5, <1>6, <2>2 DEF SDInv, SDTypeOK, InUse
  <2>4. CardKnown'
    BY <1>2, <1>5, <2>2 DEF SDInv, CardKnown, InUse
  <2>5. NothingTransferred' /\ AttemptsFailed' /\ RetriesMaskFaults'
    BY <2>2 DEF NothingTransferred, AttemptsFailed, RetriesMaskFaults, HasReturned, InUse, ResetSteps
  <2>6. InPlace'
    BY <1>2, <1>3, <2>2 DEF SDInv, AttemptsFailed, InPlace, InUse
  <2>7. SuccessMeansTransferred'
    <3> DEFINE here == sd_call.block .. LastBlock(sd_call.block, Len(sd_call.buffer))
    <3>1. /\ sd_call.block \in SDBlocks /\ sd_call.block \in Nat /\ Len(sd_call.buffer) \in Nat
          /\ here \subseteq SDBlocks
      BY <1>2, SDAssumption, BlocksBetween DEF SDInv, AttemptsFailed, InPlace, InUse, SDCalls
    <3>2. ASSUME NEW b \in here
          PROVE  card'.blocks[b] = BufferAfter(n)[b - sd_call.block + 1]
      <4>1. b \in Nat /\ b - sd_call.block + 1 \in 1 .. Len(sd_call.buffer)
        BY <3>1 DEF LastBlock
      <4>2. CASE sd_call.write
        BY <1>4, <1>5, <2>1, <3>1, <4>1, <4>2 DEF BufferAfter
      <4>3. CASE ~sd_call.write
        <5>1. BufferAfter(n)[b - sd_call.block + 1]
                = card.blocks[sd_call.block + (b - sd_call.block + 1) - 1]
          BY <1>2, <2>1, <4>1, <4>3, RightBlock DEF BufferAfter
        <5>2. sd_call.block + (b - sd_call.block + 1) - 1 = b
          BY <3>1, <4>1
        <5> QED
          BY <1>4, <1>5, <4>3, <5>1, <5>2
      <4> QED
        BY <4>2, <4>3
    <3>3. \A b \in SDBlocks \ (IF sd_call.write THEN here ELSE {}) : card.blocks[b] = sd_call.before[b]
      BY <1>2 DEF SDInv, SuccessMeansTransferred, AttemptsFailed
    <3> QED
      BY <1>3, <1>7, <2>2, <3>2, <3>3 DEF SuccessMeansTransferred, HasReturned
  <2> QED
    BY <2>3, <2>4, <2>5, <2>6, <2>7 DEF SDInv
<1> QED
  BY <1>8, <1>9

-----------------------------------------------------------------------------
\* Every step of the driver keeps the invariant.
LEMMA SDStep == SDInv /\ [SDNext]_sdVars => SDInv'
<1> SUFFICES ASSUME SDInv, [SDNext]_sdVars PROVE SDInv'
  OBVIOUS
<1>1. CASE Initialize
  BY <1>1, InitializeInv
<1>2. CASE ResetCard
  BY <1>2, ResetCardInv
<1>3. ASSUME NEW b \in SDBlocks, NEW buffer \in Buffers, WriteBlock(b, buffer)
      PROVE  SDInv'
  BY <1>3, BuffersType, BeginTransferInv DEF WriteBlock
<1>4. ASSUME NEW b \in SDBlocks, NEW n \in SDCounts, ReadFromBlock(b, n)
      PROVE  SDInv'
  <2>1. Zero(n) \in Seq(SDData) /\ Len(Zero(n)) > 0
    <3>1. (CHOOSE d \in SDData : TRUE) \in SDData
      BY SDAssumption DEF SDInv, SDTypeOK, Cards
    <3> QED
      BY <3>1, SDAssumption DEF Zero
  <2> QED
    BY <1>4, <2>1, BeginTransferInv DEF ReadFromBlock
<1>5. CASE MoveBlocks
  BY <1>5, MoveBlocksInv
<1>6. CASE CommandFails
  BY <1>6, CommandFailsInv
<1>7. CASE UNCHANGED sdVars
  BY <1>7 DEF sdVars, SDInv, SDTypeOK, CardKnown, NothingTransferred, AttemptsFailed, InPlace,
     SuccessMeansTransferred, RetriesMaskFaults, HasReturned
<1> QED
  BY <1>1, <1>2, <1>3, <1>4, <1>5, <1>6, <1>7 DEF SDNext, DataCommand

\* In every behaviour of the driver, for every card, number of blocks, number of retries
\* and number of faults, the invariant holds: the types of all it keeps, what it believes of
\* the card, and where a transfer stands.
THEOREM DriverKeepsItsWord == SDSpec => []SDInv
<1> QED
  BY SDInitially, SDStep, PTL DEF SDSpec

\* A card that the driver takes for ready is ready: after whatever commands and answers got
\* lost and however often ResetCard started again, it is in the state of a transfer, under
\* the address and of the capacity the driver believes.
THEOREM ReadyIsReady == SDSpec => []ReadyMeansReady
<1>1. SDInv => ReadyMeansReady
  BY DEF SDInv, CardKnown, InUse, ReadyMeansReady
<1> QED
  BY <1>1, DriverKeepsItsWord, PTL

\* A transfer that reports success has moved every block asked for, though the result of
\* TransferData is not looked at; no transfer changes another block.
THEOREM SuccessIsTransferred == SDSpec => []SuccessMeansTransferred
<1>1. SDInv => SuccessMeansTransferred
  BY DEF SDInv
<1> QED
  BY <1>1, DriverKeepsItsWord, PTL

\* A transfer that the controller can take fails only after a fault in each of its attempts.
THEOREM RetriesMask == SDSpec => []RetriesMaskFaults
<1>1. SDInv => RetriesMaskFaults
  BY DEF SDInv
<1> QED
  BY <1>1, DriverKeepsItsWord, PTL

-----------------------------------------------------------------------------
(* SystemTimer.                                                            *)

Words == 0 .. (WordLimit - 1)
Highs == 0 .. (HighLimit - 1)
Times == 0 .. (CounterLimit - 1)

\* A word plus less than what it holds, and the high word after the next overflow of the low.
Wrapped(n) == IF n < WordLimit THEN n ELSE n - WordLimit
NextHigh(h) == IF h + 1 = HighLimit THEN 0 ELSE h + 1

-----------------------------------------------------------------------------
(* Arithmetic.                                                             *)

\* Quotient and remainder are the only numbers that are what they are.
LEMMA DivisionIsUnique ==
  ASSUME NEW n \in Nat \ {0}, NEW a \in Int, NEW q \in Int, NEW r \in 0 .. (n - 1), a = q * n + r
  PROVE  a % n = r /\ a \div n = q
<1>1. n \in Int /\ n > 0 /\ r \in Int /\ 0 <= r /\ r < n
  OBVIOUS
<1>2. a \div n = q
  BY <1>1, SMTT(30)
<1>3. a % n = r
  BY <1>1, SMTT(30)
<1> QED
  BY <1>2, <1>3

\* What the assumption about the constants says of their sizes.
LEMMA Sizes ==
  /\ WordLimit \in Nat /\ WordLimit >= 3 /\ HighLimit \in Nat /\ HighLimit >= 2
  /\ Period \in Nat /\ MaxLatency \in Nat /\ MaxLatency < Period /\ 2 * Period < WordLimit
  /\ CounterLimit \in Nat /\ CounterLimit >= 2 * WordLimit
<1>1. /\ WordLimit \in Nat /\ HighLimit \in Nat /\ HighLimit >= 2
      /\ Period \in Nat /\ MaxLatency \in Nat /\ MaxLatency < Period /\ 2 * Period < WordLimit
  BY TimerAssumption
<1>2. WordLimit * HighLimit = 2 * WordLimit + WordLimit * (HighLimit - 2)
      /\ WordLimit * (HighLimit - 2) \in Nat
  BY <1>1
<1> QED
  BY <1>1, <1>2 DEF CounterLimit

\* The remainders in the code subtract or add the divisor at most once.
LEMMA Remainders ==
  ASSUME NEW n \in Nat \ {0}
  PROVE  /\ \A a \in 0 .. (n - 1) : a % n = a
         /\ \A a \in n .. (2 * n - 1) : a % n = a - n
         /\ \A a \in (1 - n) .. (-1) : a % n = a + n
<1>1. ASSUME NEW a \in 0 .. (n - 1) PROVE a % n = a
  <2>1. a = 0 * n + a
    OBVIOUS
  <2> QED
    BY <2>1, DivisionIsUnique
<1>2. ASSUME NEW a \in n .. (2 * n - 1) PROVE a % n = a - n
  <2>1. a = 1 * n + (a - n) /\ a - n \in 0 .. (n - 1)
    OBVIOUS
  <2> QED
    BY <2>1, DivisionIsUnique
<1>3. ASSUME NEW a \in (1 - n) .. (-1) PROVE a % n = a + n
  <2>1. a = (-1) * n + (a + n) /\ a + n \in 0 .. (n - 1) /\ a \in Int
    OBVIOUS
  <2> QED
    BY <2>1, DivisionIsUnique
<1> QED
  BY <1>1, <1>2, <1>3

\* The distance of two words, and the sum of a word and at most what one holds.
LEMMA WordArithmetic ==
  /\ \A a, b \in Words : Distance(a, b) = IF a <= b THEN b - a ELSE b - a + WordLimit
  /\ \A a \in Words, n \in 0 .. WordLimit : (a + n) % WordLimit = Wrapped(a + n)
                                            /\ (n < WordLimit => Wrapped(a + n) \in Words)
<1>1. WordLimit \in Nat \ {0}
  BY Sizes
<1>2. ASSUME NEW a \in Words, NEW b \in Words
      PROVE  Distance(a, b) = IF a <= b THEN b - a ELSE b - a + WordLimit
  <2>1. CASE a <= b
    <3>1. b - a \in 0 .. (WordLimit - 1)
      BY <1>1, <2>1 DEF Words
    <3> QED
      BY <1>1, <2>1, <3>1, Remainders DEF Distance
  <2>2. CASE ~(a <= b)
    <3>1. b - a \in (1 - WordLimit) .. (-1)
      BY <1>1, <2>2 DEF Words
    <3> QED
      BY <1>1, <2>2, <3>1, Remainders DEF Distance
  <2> QED
    BY <2>1, <2>2
<1>3. ASSUME NEW a \in Words, NEW n \in 0 .. WordLimit
      PROVE  (a + n) % WordLimit = Wrapped(a + n)
  <2>1. CASE a + n < WordLimit
    <3>1. a + n \in 0 .. (WordLimit - 1)
      BY <1>1, <2>1 DEF Words
    <3> QED
      BY <1>1, <2>1, <3>1, Remainders DEF Wrapped
  <2>2. CASE ~(a + n < WordLimit)
    <3>1. a + n \in WordLimit .. (2 * WordLimit - 1)
      BY <1>1, <2>2 DEF Words
    <3> QED
      BY <1>1, <2>2, <3>1, Remainders DEF Wrapped
  <2> QED
    BY <2>1, <2>2
<1>4. \A a \in Words, n \in 0 .. WordLimit : n < WordLimit => Wrapped(a + n) \in Words
  BY <1>1 DEF Words, Wrapped
<1> QED
  BY <1>2, <1>3, <1>4

\* A time is its two words.
LEMMA TimeOfWords ==
  ASSUME NEW h \in Highs, NEW l \in Words
  PROVE  /\ h * WordLimit \in Nat
         /\ h * WordLimit + l \in Times
         /\ High(h * WordLimit + l) = h /\ Low(h * WordLimit + l) = l
         /\ h + 1 = HighLimit => h * WordLimit = CounterLimit - WordLimit
<1> DEFINE base == h * WordLimit
           rest == (HighLimit - 1 - h) * WordLimit
<1>1. WordLimit \in Nat \ {0} /\ HighLimit \in Nat /\ h \in Nat /\ h <= HighLimit - 1
  BY Sizes DEF Highs
<1>2. base \in Nat /\ rest \in Nat /\ CounterLimit = base + rest + WordLimit
  BY <1>1 DEF CounterLimit
<1>3. h + 1 = HighLimit => rest = 0
  BY <1>1
<1>4. l \in Nat /\ l < WordLimit
  BY <1>1 DEF Words
<1> HIDE DEF base, rest
<1>5. base + l \in Times /\ (h + 1 = HighLimit => base = CounterLimit - WordLimit)
  BY <1>1, <1>2, <1>3, <1>4 DEF Times
<1>6. High(base + l) = h /\ Low(base + l) = l
  BY <1>1, <1>2, <1>4, DivisionIsUnique DEF base, High, Low
<1> QED
  BY <1>2, <1>5, <1>6 DEF base

\* The words of a time are words.
LEMMA WordsOfTime ==
  ASSUME NEW t \in Times
  PROVE  High(t) \in Highs /\ Low(t) \in Words /\ t = High(t) * WordLimit + Low(t)
<1>1. WordLimit \in Nat \ {0} /\ HighLimit \in Nat \ {0} /\ CounterLimit \in Nat
      /\ t \in Nat /\ t < CounterLimit
  BY Sizes DEF Times
<1>2. High(t) \in Int /\ Low(t) \in Words /\ t = High(t) * WordLimit + Low(t)
  BY <1>1 DEF High, Low, Words
<1> DEFINE h == High(t)
<1>3. h * WordLimit <= t /\ t < (h + 1) * WordLimit
  BY <1>1, <1>2 DEF Words
<1> HIDE DEF h
<1>4. h >= 0
  <2>1. h < 0 => (h + 1) * WordLimit <= 0
    BY <1>1, <1>2 DEF h
  <2> QED
    BY <1>1, <1>2, <1>3, <2>1 DEF h
<1>5. h < HighLimit
  <2>1. h >= HighLimit => h * WordLimit >= HighLimit * WordLimit
    BY <1>1, <1>2 DEF h
  <2> QED
    BY <1>1, <1>2, <1>3, <2>1 DEF h, CounterLimit
<1> QED
  BY <1>1, <1>2, <1>4, <1>5 DEF h, Highs

\* The counter goes on by one: in its low word, or in both.
LEMMA WordsAfterTick ==
  ASSUME NEW t \in Times
  PROVE  LET u == (t + 1) % CounterLimit
         IN /\ u \in Times
            /\ Low(u) = Wrapped(Low(t) + 1)
            /\ High(u) = IF Low(t) + 1 = WordLimit THEN NextHigh(High(t)) ELSE High(t)
<1> DEFINE u == (t + 1) % CounterLimit
           h == High(t)
           l == Low(t)
           base == h * WordLimit
<1>1. h \in Highs /\ l \in Words /\ t = base + l /\ base \in Nat
  BY WordsOfTime, TimeOfWords
<1>2. WordLimit \in Nat /\ WordLimit >= 3 /\ CounterLimit \in Nat \ {0} /\ HighLimit \in Nat
      /\ CounterLimit >= 2 * WordLimit
  BY Sizes
<1>3. t \in 0 .. (CounterLimit - 1)
  BY DEF Times
<1>4. CASE l + 1 < WordLimit
  <2>1. l + 1 \in Words
    BY <1>1, <1>2, <1>4 DEF Words
  <2>2. base + (l + 1) \in Times /\ High(base + (l + 1)) = h /\ Low(base + (l + 1)) = l + 1
    BY <1>1, <2>1, TimeOfWords
  <2>3. t + 1 = base + (l + 1) /\ t + 1 \in 0 .. (CounterLimit - 1)
    BY <1>1, <1>2, <2>2 DEF Times, Words
  <2>4. u = t + 1
    BY <1>2, <2>3, Remainders
  <2> QED
    BY <1>1, <1>2, <1>4, <2>2, <2>3, <2>4 DEF Wrapped, Words
<1>5. CASE l + 1 = WordLimit /\ h + 1 < HighLimit
  <2>1. h + 1 \in Highs /\ 0 \in Words /\ NextHigh(h) = h + 1
    BY <1>1, <1>2, <1>5 DEF Highs, Words, NextHigh
  <2>2. (h + 1) * WordLimit = base + WordLimit
    BY <1>1, <1>2 DEF Highs
  <2>3. base + WordLimit + 0 \in Times /\ High(base + WordLimit + 0) = h + 1
        /\ Low(base + WordLimit + 0) = 0
    BY <2>1, <2>2, TimeOfWords
  <2>4. t + 1 = base + WordLimit + 0 /\ t + 1 \in 0 .. (CounterLimit - 1)
    BY <1>1, <1>2, <1>5, <2>3 DEF Times, Words
  <2>5. u = t + 1
    BY <1>2, <2>4, Remainders
  <2> QED
    BY <1>1, <1>2, <1>5, <2>1, <2>3, <2>4, <2>5 DEF Wrapped, Words
<1>6. CASE l + 1 = WordLimit /\ h + 1 = HighLimit
  <2>1. base = CounterLimit - WordLimit
    BY <1>1, <1>6, TimeOfWords
  <2>2. t + 1 = CounterLimit
    BY <1>1, <1>2, <1>6, <2>1 DEF Words
  <2>3. CounterLimit \in CounterLimit .. (2 * CounterLimit - 1)
    BY <1>2
  <2>4. u = 0
    BY <1>2, <2>2, <2>3, Remainders
  <2>5. 0 \in Highs /\ 0 \in Words /\ 0 * WordLimit + 0 = 0
    BY Sizes DEF Highs, Words
  <2>6. 0 \in Times /\ High(0) = 0 /\ Low(0) = 0
    BY <2>5, TimeOfWords
  <2> QED
    BY <1>1, <1>2, <1>6, <2>4, <2>6 DEF Wrapped, Words, NextHigh
<1>7. l + 1 < WordLimit \/ (l + 1 = WordLimit /\ (h + 1 < HighLimit \/ h + 1 = HighLimit))
  BY <1>1, <1>2 DEF Words, Highs
<1> QED
  BY <1>4, <1>5, <1>6, <1>7

-----------------------------------------------------------------------------
(***************************************************************************)
(* The invariant.  A running timer has its next match ahead of it, or just *)
(* behind while it is served.  The time config.next may be one period past *)
(* the match that is set: an interrupt that comes between the last two     *)
(* writes of StartRecurringInterrupt moves it on, and the compare register *)
(* is then set to the time meant before.                                   *)
(***************************************************************************)
Starting == {"set_period", "read_counter", "compute", "set_compare"}
Booting == {"boot", "add_task_switch", "add_reschedule"}

TMTypeOK ==
  /\ now \in Times /\ compare \in Words /\ matched \in BOOLEAN /\ enabled \in BOOLEAN
  /\ config \in [running : BOOLEAN, next : Words, period : {0, Period}]
  /\ tm_main \in Booting \cup Starting \cup Reading \cup {"idle", "cancel"}
  /\ tm_isr \in {"none", "advance", "set", "acknowledge"}
  /\ tm_local \in [high : Highs, low : Words, start : Times, result : {0}]
  /\ latency \in [match : 0 .. MaxLatency, main : 0 .. (WordLimit - 1)]

\* The start is over before the first match, and the interrupt enabled ever after.
BootInTime ==
  /\ tm_main \in InTime => latency.main <= MaxLatency
  /\ tm_main \in Booting =>
       now = latency.main /\ compare = WordLimit - 1 /\ ~matched /\ ~config.running
  /\ tm_main # "boot" => enabled
  /\ tm_main \notin InTime \cup Reading => latency.main = 0

HandlerInTime ==
  /\ tm_isr # "none" => matched /\ enabled
  /\ tm_isr = "set" => config.running
  /\ config.running /\ tm_main # "set_period" => config.period = Period
  /\ tm_main \in Starting => config.running
  /\ tm_main = "cancel" => ~config.running

\* How far the match that is set is ahead of the counter.
Ahead == Distance(Low(now), compare)

\* A timer that waits, or serves an interrupt: its match, set or to be set.
MatchAhead ==
  config.running /\ tm_main \notin Starting =>
    /\ tm_isr = "none" /\ ~matched =>
         \/ config.next = compare /\ Ahead \in 1 .. (2 * Period)
         \/ config.next = Wrapped(compare + Period) /\ Ahead \in 1 .. Period
    /\ tm_isr \in {"none", "advance"} /\ matched =>
         /\ Low(now) = Wrapped(compare + latency.match)
         /\ config.next \in {compare, Wrapped(compare + Period)}
    /\ tm_isr = "set" =>
         /\ Low(now) = Wrapped(compare + latency.match)
         /\ config.next \in {Wrapped(compare + Period), Wrapped(compare + 2 * Period)}
    /\ tm_isr = "acknowledge" =>
         config.next = compare /\ Ahead \in {Period - latency.match, 2 * Period - latency.match}

\* A timer that starts: the time of its first match is computed from that of its start,
\* and no match that comes before can move it on twice.
StartAhead ==
  /\ tm_main = "compute" => Low(now) = Wrapped(tm_local.low + latency.main)
  /\ tm_main = "set_compare" =>
       /\ tm_local.low = Wrapped(Low(now) + (Period - latency.main))
       /\ \/ config.next = tm_local.low /\ tm_isr \in {"none", "advance"}
          \/ /\ config.next = Wrapped(tm_local.low + Period)
             /\ tm_isr # "advance"
             /\ tm_isr \in {"none", "acknowledge"} => compare = config.next
             /\ tm_isr = "none" => ~matched

ArmedInv == TMTypeOK /\ BootInTime /\ HandlerInTime /\ MatchAhead /\ StartAhead

\* What GetMsec has read, and when: at its start, or after the overflow of the low word,
\* of which there is at most one.
Overflowed == Low(tm_local.start) + latency.main >= WordLimit

ReadInTime ==
  tm_main \in Reading =>
    LET low == Low(tm_local.start)
        high == High(tm_local.start)
        before == low .. (low + latency.main) \* of the low word
        after == 0 .. Low(now)
    IN /\ Low(now) = Wrapped(low + latency.main)
       /\ High(now) = IF Overflowed THEN NextHigh(high) ELSE high
       /\ tm_main \in {"read_low", "read_high_again"} => tm_local.high = high
       /\ tm_main = "read_high_again" =>
            tm_local.low \in before \/ (Overflowed /\ tm_local.low \in after)
       /\ tm_main \in {"reread_high", "reread_low"} => Overflowed
       /\ tm_main = "reread_low" => tm_local.high = NextHigh(high)
       /\ tm_main = "return_time" =>
            \/ tm_local.high = high /\ tm_local.low \in before
            \/ Overflowed /\ tm_local.high = NextHigh(high) /\ tm_local.low \in after

-----------------------------------------------------------------------------
(* The clock.                                                              *)

\* What a tick makes of the two words of the counter.
LEMMA TickWords ==
  ASSUME TMTypeOK, Tick
  PROVE  /\ now' \in Times /\ Low(now') \in Words
         /\ Low(now') = Wrapped(Low(now) + 1)
         /\ High(now') = IF Low(now) + 1 = WordLimit THEN NextHigh(High(now)) ELSE High(now)
<1>1. now \in Times /\ now' = (now + 1) % CounterLimit
  BY DEF TMTypeOK, Tick
<1>2. now' \in Times
  BY <1>1, WordsAfterTick
<1> QED
  BY <1>1, <1>2, WordsAfterTick, WordsOfTime

\* A tick, and the match it may raise, keep the types.
LEMMA TickKeepsTypes ==
  ASSUME TMTypeOK, BootInTime, HandlerInTime, Tick
  PROVE  TMTypeOK' /\ BootInTime' /\ HandlerInTime'
<1>1. /\ UNCHANGED <<compare, isrs, enabled, config, tm_main, tm_isr, tm_local>>
      /\ Pending => latency.match < MaxLatency
      /\ tm_main \in InTime => latency.main < MaxLatency
      /\ tm_main \in Reading => latency.main < WordLimit - 1
      /\ latency' = [match |-> IF Pending THEN latency.match + 1 ELSE 0,
                     main |-> IF tm_main \in InTime \cup Reading THEN latency.main + 1 ELSE 0]
      /\ matched' = (matched \/ Low(now') = compare)
  BY DEF Tick
<1>2. /\ latency.match \in 0 .. MaxLatency /\ latency.main \in 0 .. (WordLimit - 1)
      /\ latency \in [match : 0 .. MaxLatency, main : 0 .. (WordLimit - 1)]
      /\ matched \in BOOLEAN
  BY DEF TMTypeOK
<1>3. /\ latency'.match \in 0 .. MaxLatency /\ latency'.main \in 0 .. (WordLimit - 1)
      /\ latency' \in [match : 0 .. MaxLatency, main : 0 .. (WordLimit - 1)]
  <2>1. latency'.match = (IF Pending THEN latency.match + 1 ELSE 0)
        /\ latency'.main = (IF tm_main \in InTime \cup Reading THEN latency.main + 1 ELSE 0)
    BY <1>1
  <2>2. latency'.match \in 0 .. MaxLatency
    BY <1>1, <1>2, <2>1, Sizes
  <2>3. latency'.main \in 0 .. (WordLimit - 1)
    BY <1>1, <1>2, <2>1, Sizes
  <2> QED
    BY <1>1, <2>2, <2>3
<1>4. TMTypeOK'
  <2>1. now' \in Times
    BY TickWords
  <2> QED
    BY <1>1, <1>2, <1>3, <2>1 DEF TMTypeOK
<1>5. CASE tm_main \in Booting
  <2>1. latency.main \in Nat /\ latency.main < MaxLatency /\ now = latency.main
        /\ latency'.main = latency.main + 1
    BY <1>1, <1>2, <1>5, Sizes DEF BootInTime, Booting, InTime
  <2>2. now + 1 \in 0 .. (CounterLimit - 1) /\ now + 1 \in 0 .. (WordLimit - 1) /\ now + 1 < WordLimit - 1
    BY <2>1, Sizes
  <2>3. now' = now + 1 /\ Low(now') = now + 1
    BY <2>2, Sizes, Remainders DEF Tick, Low
  <2>4. ~matched' /\ latency'.main <= MaxLatency
    <3>1. compare = WordLimit - 1 /\ ~matched
      BY <1>5 DEF BootInTime
    <3>2. Low(now') # compare
      BY <2>2, <2>3, <3>1, Sizes
    <3>3. latency'.main <= MaxLatency
      BY <2>1, Sizes
    <3> QED
      BY <1>1, <3>1, <3>2, <3>3
  <2>5. BootInTime'
    BY <1>1, <1>5, <2>1, <2>3, <2>4 DEF BootInTime, Booting, InTime
  <2> QED
    BY <1>1, <1>4, <1>5, <2>5 DEF HandlerInTime, BootInTime
<1>6. CASE tm_main \notin Booting
  <2>1. BootInTime'
    BY <1>1, <1>2, <1>6, Sizes DEF BootInTime
  <2> QED
    BY <1>1, <1>4, <2>1 DEF HandlerInTime
<1> QED
  BY <1>5, <1>6

\* A tick brings the match one step nearer, or is the match.
LEMMA TickKeepsAhead ==
  ASSUME ArmedInv, Tick
  PROVE  ArmedInv'
<1>1. /\ UNCHANGED <<compare, config, tm_main, tm_isr, tm_local>>
      /\ Pending => latency.match < MaxLatency
      /\ tm_main \in InTime => latency.main < MaxLatency
      /\ latency'.match = IF Pending THEN latency.match + 1 ELSE 0
      /\ latency'.main = IF tm_main \in InTime \cup Reading THEN latency.main + 1 ELSE 0
      /\ matched' = (matched \/ Low(now') = compare)
  BY DEF Tick
<1> DEFINE l == Low(now)
           u == Low(now')
<1>2. l \in Words /\ u \in Words /\ u = Wrapped(l + 1)
  BY TickWords, WordsOfTime DEF ArmedInv, TMTypeOK
<1>3. TMTypeOK' /\ BootInTime' /\ HandlerInTime'
  BY TickKeepsTypes DEF ArmedInv
<1>4. /\ compare \in Words /\ config.next \in Words /\ tm_local.low \in Words
      /\ latency.match \in 0 .. MaxLatency /\ latency.main \in 0 .. (WordLimit - 1)
      /\ matched \in BOOLEAN
  BY DEF ArmedInv, TMTypeOK
<1> HIDE DEF l, u
<1>w. /\ Distance(l, compare) = (IF l <= compare THEN compare - l ELSE compare - l + WordLimit)
      /\ Distance(u, compare) = (IF u <= compare THEN compare - u ELSE compare - u + WordLimit)
  BY <1>2, <1>4, WordArithmetic
<1>5. MatchAhead'
  <2> SUFFICES ASSUME config.running, tm_main \notin Starting PROVE MatchAhead'
    BY <1>1 DEF MatchAhead
  <2>1. enabled
    BY DEF ArmedInv, BootInTime, Booting
  <2>2. CASE ~matched
    <3>1. tm_isr = "none" /\ ~Pending
      BY <2>2 DEF ArmedInv, HandlerInTime, Pending
    <3>2. \/ config.next = compare /\ Distance(l, compare) \in 1 .. (2 * Period)
          \/ config.next = Wrapped(compare + Period) /\ Distance(l, compare) \in 1 .. Period
      BY <2>2, <3>1 DEF ArmedInv, MatchAhead, Ahead, l
    <3>3. CASE u = compare
      <4>1. matched' /\ latency'.match = 0
        BY <1>1, <3>1, <3>3 DEF u
      <4>2. u = Wrapped(compare + 0)
        BY <1>4, <3>3, Sizes DEF Wrapped, Words
      <4> QED
        BY <1>1, <3>1, <3>2, <4>1, <4>2 DEF MatchAhead, u
    <3>4. CASE u # compare
      <4>1. ~matched'
        BY <1>1, <2>2, <3>4 DEF u
      <4>2. Distance(u, compare) = Distance(l, compare) - 1 /\ Distance(u, compare) >= 1
            /\ Distance(u, compare) \in Int
        BY <1>2, <1>4, <1>w, <3>2, <3>4, Sizes DEF Wrapped, Words
      <4>3. \/ config.next = compare /\ Distance(u, compare) \in 1 .. (2 * Period)
            \/ config.next = Wrapped(compare + Period) /\ Distance(u, compare) \in 1 .. Period
        BY <3>2, <4>2, Sizes
      <4> QED
        BY <1>1, <3>1, <4>1, <4>3 DEF MatchAhead, Ahead, u
    <3> QED
      BY <3>3, <3>4
  <2>3. CASE matched
    <3>1. Pending /\ matched' /\ latency.match < MaxLatency /\ latency'.match = latency.match + 1
      BY <1>1, <2>1, <2>3 DEF Pending
    <3>2. CASE tm_isr \in {"none", "advance", "set"}
      <4>1. l = Wrapped(compare + latency.match)
        BY <2>3, <3>2 DEF ArmedInv, MatchAhead, l
      <4>2. u = Wrapped(compare + (latency.match + 1))
        BY <1>2, <1>4, <3>1, <4>1, Sizes DEF Wrapped, Words
      <4> QED
        BY <1>1, <2>3, <3>1, <3>2, <4>2 DEF ArmedInv, MatchAhead, u
    <3>3. CASE tm_isr = "acknowledge"
      <4>1. config.next = compare
            /\ Distance(l, compare) \in {Period - latency.match, 2 * Period - latency.match}
        BY <3>3 DEF ArmedInv, MatchAhead, Ahead, l
      <4>2. Distance(u, compare) \in {Period - (latency.match + 1), 2 * Period - (latency.match + 1)}
        BY <1>2, <1>4, <1>w, <3>1, <4>1, Sizes DEF Wrapped, Words
      <4> QED
        BY <1>1, <3>1, <3>3, <4>1, <4>2 DEF MatchAhead, Ahead, u
    <3> QED
      BY <3>2, <3>3 DEF ArmedInv, TMTypeOK
  <2> QED
    BY <1>4, <2>2, <2>3
<1>6. StartAhead'
  <2>1. CASE tm_main = "compute"
    <3>1. l = Wrapped(tm_local.low + latency.main) /\ latency.main < MaxLatency
          /\ latency'.main = latency.main + 1
      BY <1>1, <2>1 DEF ArmedInv, StartAhead, InTime, l
    <3>2. u = Wrapped(tm_local.low + (latency.main + 1))
      BY <1>2, <1>4, <3>1, Sizes DEF Wrapped, Words
    <3> QED
      BY <1>1, <2>1, <3>1, <3>2 DEF StartAhead, u
  <2>2. CASE tm_main = "set_compare"
    <3>1. tm_local.low = Wrapped(l + (Period - latency.main)) /\ latency.main < MaxLatency
          /\ latency'.main = latency.main + 1
      BY <1>1, <2>2 DEF ArmedInv, StartAhead, InTime, l
    <3>2. tm_local.low = Wrapped(u + (Period - (latency.main + 1)))
      BY <1>2, <1>4, <3>1, Sizes DEF Wrapped, Words
    <3>3. CASE config.next = tm_local.low /\ tm_isr \in {"none", "advance"}
      BY <1>1, <2>2, <3>1, <3>2, <3>3 DEF StartAhead, u
    <3>4. CASE ~(config.next = tm_local.low /\ tm_isr \in {"none", "advance"})
      <4>1. /\ config.next = Wrapped(tm_local.low + Period) /\ tm_isr # "advance"
            /\ tm_isr \in {"none", "acknowledge"} => compare = config.next
            /\ tm_isr = "none" => ~matched
        BY <2>2, <3>4 DEF ArmedInv, StartAhead
      <4>2. u # Wrapped(tm_local.low + Period)
        BY <1>2, <1>4, <3>1, <3>2, Sizes DEF Wrapped, Words
      <4>3. tm_isr = "none" => ~matched'
        BY <1>1, <4>1, <4>2 DEF u
      <4> QED
        BY <1>1, <2>2, <3>1, <3>2, <4>1, <4>3 DEF StartAhead, u
    <3> QED
      BY <3>3, <3>4
  <2> QED
    BY <1>1, <2>1, <2>2 DEF StartAhead
<1> QED
  BY <1>3, <1>5, <1>6 DEF ArmedInv

-----------------------------------------------------------------------------
(* The main program, between interrupts.                                   *)

\* The main program is at one step at a time.
LEMMA MainSteps ==
  ASSUME TMTypeOK, BootInTime, NEW at, NEW next, MainStep(at, next)
  PROVE  /\ tm_main = at /\ tm_main' = next /\ tm_isr = "none" /\ tm_isr' = "none"
         /\ now' = now /\ matched' = matched
         /\ latency' \in [match : 0 .. MaxLatency, main : 0 .. (WordLimit - 1)]
         /\ latency'.main = IF next \in InTime \cup Reading THEN latency.main ELSE 0
<1>1. latency \in [match : 0 .. MaxLatency, main : 0 .. (WordLimit - 1)] /\ 0 \in 0 .. (WordLimit - 1)
  BY Sizes DEF TMTypeOK
<1> QED
  BY <1>1 DEF MainStep

\* A step of the main program finds no interrupt: what has matched has been served.
LEMMA NothingPending ==
  ASSUME TMTypeOK, BootInTime, NEW at, NEW next, MainStep(at, next)
  PROVE  ~matched
BY DEF BootInTime, MainStep, Pending, Booting, TMTypeOK

\* The start of the kernel: two timers and the interrupt.
LEMMA BootKeeps ==
  ASSUME ArmedInv, EnableInterrupt \/ AddISRs
  PROVE  ArmedInv'
<1>1. PICK at \in Booting, next \in {"add_task_switch", "add_reschedule", "idle"} :
        /\ MainStep(at, next) /\ UNCHANGED <<compare, config, tm_local>>
        /\ enabled' \in BOOLEAN
        /\ at = "boot" => enabled'
        /\ at # "boot" => enabled' = enabled
  BY DEF EnableInterrupt, AddISRs, PushISR, Booting, ArmedInv, TMTypeOK
<1>2. ~matched /\ tm_main = at /\ tm_main \in Booting
  BY <1>1, NothingPending DEF ArmedInv, MainStep
<1>3. /\ tm_main' = next /\ tm_isr = "none" /\ tm_isr' = "none"
      /\ now' = now /\ matched' = matched
      /\ latency' \in [match : 0 .. MaxLatency, main : 0 .. (WordLimit - 1)]
      /\ latency'.main = IF next \in InTime \cup Reading THEN latency.main ELSE 0
  BY <1>1, MainSteps DEF ArmedInv
<1>4. ~config.running /\ latency.main <= MaxLatency /\ now = latency.main /\ compare = WordLimit - 1
      /\ enabled' /\ 0 <= MaxLatency
  BY <1>1, <1>2, Sizes DEF ArmedInv, BootInTime, Booting, InTime
<1>5. TMTypeOK'
  BY <1>1, <1>3, <1>4 DEF ArmedInv, TMTypeOK, Booting
<1>6. BootInTime'
  BY <1>1, <1>2, <1>3, <1>4 DEF BootInTime, Booting, InTime, Reading
<1>7. HandlerInTime' /\ MatchAhead' /\ StartAhead'
  BY <1>1, <1>3, <1>4 DEF ArmedInv, HandlerInTime, MatchAhead, StartAhead, Starting
<1> QED
  BY <1>5, <1>6, <1>7 DEF ArmedInv

\* A start of the timer, up to the match it sets.
LEMMA StartKeeps ==
  ASSUME ArmedInv, Start \/ StartNext
  PROVE  ArmedInv'
<1>0. /\ TMTypeOK /\ BootInTime /\ HandlerInTime /\ ~matched
      /\ latency.main \in 0 .. (WordLimit - 1) /\ tm_local.low \in Words
      /\ Low(now) \in Words /\ config.next \in Words
      /\ config \in [running : BOOLEAN, next : Words, period : {0, Period}]
      /\ tm_local \in [high : Highs, low : Words, start : Times, result : {0}]
  <2>1. ~matched
    BY NothingPending DEF ArmedInv, Start, StartNext, SetPeriod, ReadCounter, ComputeNext, SetCompareRegister
  <2> QED
    BY <2>1, WordsOfTime DEF ArmedInv, TMTypeOK
<1>1. CASE Start
  <2>1. /\ tm_main = "idle" /\ tm_main' = "set_period" /\ tm_isr = "none" /\ tm_isr' = "none"
        /\ UNCHANGED <<now, matched, compare, enabled, tm_local>>
        /\ latency' \in [match : 0 .. MaxLatency, main : 0 .. (WordLimit - 1)]
        /\ latency'.main = 0
    BY <1>0, <1>1, MainSteps DEF Start, InTime, Reading
  <2>2. config' = [config EXCEPT !.running = TRUE]
    BY <1>1 DEF Start
  <2>3. config' \in [running : BOOLEAN, next : Words, period : {0, Period}] /\ config'.running = TRUE
    BY <1>0, <2>2
  <2>4. TMTypeOK'
    BY <1>0, <2>1, <2>3 DEF TMTypeOK, Starting
  <2>5. BootInTime' /\ HandlerInTime'
    BY <1>0, <2>1, <2>3, Sizes DEF BootInTime, HandlerInTime, Booting, InTime, Reading
  <2> QED
    BY <2>1, <2>4, <2>5 DEF ArmedInv, MatchAhead, StartAhead, Starting
<1>5. CASE SetPeriod
  <2>1. /\ tm_main = "set_period" /\ tm_main' = "read_counter" /\ tm_isr = "none" /\ tm_isr' = "none"
        /\ UNCHANGED <<now, matched, compare, enabled, tm_local>>
        /\ latency' \in [match : 0 .. MaxLatency, main : 0 .. (WordLimit - 1)]
        /\ latency'.main = 0
    BY <1>0, <1>5, MainSteps DEF SetPeriod, InTime, Reading
  <2>2. config' = [config EXCEPT !.period = Period]
    BY <1>5 DEF SetPeriod
  <2>3. config' \in [running : BOOLEAN, next : Words, period : {0, Period}] /\ config'.period = Period
        /\ config'.running = config.running
    BY <1>0, <2>2
  <2>4. TMTypeOK'
    BY <1>0, <2>1, <2>3 DEF TMTypeOK, Starting
  <2>5. BootInTime' /\ HandlerInTime'
    BY <1>0, <2>1, <2>3, Sizes DEF BootInTime, HandlerInTime, Booting, InTime, Reading, Starting
  <2> QED
    BY <2>1, <2>4, <2>5 DEF ArmedInv, MatchAhead, StartAhead, Starting
<1>2. CASE ReadCounter
  <2>1. /\ tm_main = "read_counter" /\ tm_main' = "compute" /\ tm_isr = "none" /\ tm_isr' = "none"
        /\ UNCHANGED <<now, matched, compare, enabled, config>>
        /\ latency' \in [match : 0 .. MaxLatency, main : 0 .. (WordLimit - 1)]
        /\ latency'.main = latency.main /\ latency.main = 0
    <3>1. latency.main = 0 /\ MainStep("read_counter", "compute")
      BY <1>0, <1>2 DEF ReadCounter, MainStep, BootInTime, InTime, Reading
    <3> QED
      BY <1>0, <1>2, <3>1, MainSteps DEF ReadCounter, InTime, Reading
  <2>2. tm_local' = [tm_local EXCEPT !.low = Low(now)]
    BY <1>2 DEF ReadCounter
  <2>3. tm_local' \in [high : Highs, low : Words, start : Times, result : {0}]
        /\ tm_local'.low = Low(now)
    BY <1>0, <2>2
  <2>4. TMTypeOK'
    BY <1>0, <2>1, <2>3 DEF TMTypeOK, Starting
  <2>5. BootInTime' /\ HandlerInTime'
    BY <1>0, <2>1, Sizes DEF BootInTime, HandlerInTime, Booting, InTime, Reading, Starting
  <2>6. Low(now') = Wrapped(tm_local'.low + latency'.main)
    BY <1>0, <2>1, <2>3, Sizes DEF Wrapped, Words
  <2> QED
    BY <2>1, <2>4, <2>5, <2>6 DEF ArmedInv, MatchAhead, StartAhead, Starting
<1>3. CASE ComputeNext
  <2>1. /\ tm_main = "compute" /\ tm_main' = "set_compare" /\ tm_isr = "none" /\ tm_isr' = "none"
        /\ UNCHANGED <<now, matched, compare, enabled>>
        /\ latency' \in [match : 0 .. MaxLatency, main : 0 .. (WordLimit - 1)]
        /\ latency'.main = latency.main
    BY <1>0, <1>3, MainSteps DEF ComputeNext, InTime, Reading
  <2>2. latency.main \in 0 .. MaxLatency /\ Low(now) = Wrapped(tm_local.low + latency.main)
    BY <1>0, <2>1, Sizes DEF ArmedInv, BootInTime, StartAhead, InTime
  <2>3. /\ config' = [config EXCEPT !.next = (tm_local.low + Period) % WordLimit]
        /\ tm_local' = [tm_local EXCEPT !.low = config'.next]
    BY <1>3 DEF ComputeNext
  <2>4. (tm_local.low + Period) % WordLimit = Wrapped(tm_local.low + Period)
        /\ Wrapped(tm_local.low + Period) \in Words
    BY <1>0, Sizes, WordArithmetic
  <2>5. /\ config'.next = Wrapped(tm_local.low + Period) /\ tm_local'.low = config'.next
        /\ config'.running = config.running /\ config'.period = config.period
        /\ config' \in [running : BOOLEAN, next : Words, period : {0, Period}]
        /\ tm_local' \in [high : Highs, low : Words, start : Times, result : {0}]
    BY <1>0, <2>3, <2>4
  <2>6. TMTypeOK'
    BY <1>0, <2>1, <2>5 DEF TMTypeOK, Starting
  <2>7. BootInTime' /\ HandlerInTime'
    BY <1>0, <2>1, <2>2, <2>5, Sizes DEF BootInTime, HandlerInTime, Booting, InTime, Reading, Starting
  <2>8. tm_local'.low = Wrapped(Low(now) + (Period - latency.main))
    BY <1>0, <2>2, <2>5, Sizes DEF Wrapped, Words
  <2> QED
    BY <2>1, <2>5, <2>6, <2>7, <2>8 DEF ArmedInv, MatchAhead, StartAhead, Starting
<1>4. CASE SetCompareRegister
  <2>1. /\ tm_main = "set_compare" /\ tm_main' = "idle" /\ tm_isr = "none" /\ tm_isr' = "none"
        /\ UNCHANGED <<now, matched, enabled, config>> /\ compare' = tm_local.low
        /\ latency' \in [match : 0 .. MaxLatency, main : 0 .. (WordLimit - 1)]
        /\ latency'.main = 0 /\ tm_local' = NothingRead
    BY <1>0, <1>4, MainSteps DEF SetCompareRegister, InTime, Reading
  <2>2. /\ latency.main \in 0 .. MaxLatency
        /\ tm_local.low = Wrapped(Low(now) + (Period - latency.main))
        /\ config.next = tm_local.low \/ config.next = Wrapped(tm_local.low + Period)
    BY <1>0, <2>1, Sizes DEF ArmedInv, BootInTime, StartAhead, InTime
  <2>3. tm_local' \in [high : Highs, low : Words, start : Times, result : {0}]
    <3>1. 0 \in Highs /\ 0 \in Words /\ 0 \in Times
      BY Sizes DEF Highs, Words, Times
    <3> QED
      BY <2>1, <3>1 DEF NothingRead
  <2>4. TMTypeOK'
    BY <1>0, <2>1, <2>3 DEF TMTypeOK
  <2>5. BootInTime' /\ HandlerInTime'
    BY <1>0, <2>1, Sizes DEF BootInTime, HandlerInTime, Booting, InTime, Reading, Starting
  <2>6. Distance(Low(now), tm_local.low) \in 1 .. Period
    <3>1. Distance(Low(now), tm_local.low)
            = IF Low(now) <= tm_local.low THEN tm_local.low - Low(now) ELSE tm_local.low - Low(now) + WordLimit
      BY <1>0, WordArithmetic
    <3> QED
      BY <1>0, <2>2, <3>1, Sizes DEF Wrapped, Words
  <2>7. Distance(Low(now), tm_local.low) \in 1 .. (2 * Period)
    BY <2>6, Sizes
  <2>8. MatchAhead'
    BY <1>0, <2>1, <2>2, <2>6, <2>7 DEF MatchAhead, Ahead
  <2> QED
    BY <2>1, <2>4, <2>5, <2>8 DEF ArmedInv, StartAhead
<1> QED
  BY <1>1, <1>2, <1>3, <1>4, <1>5 DEF StartNext

\* The steps of the main program that set no match.
LEMMA OtherMainKeeps ==
  ASSUME ArmedInv, Cancel \/ ClearPeriod \/ GetMsec
  PROVE  ArmedInv'
<1>0. /\ TMTypeOK /\ BootInTime /\ HandlerInTime /\ ~matched
      /\ latency.main \in 0 .. (WordLimit - 1)
      /\ Low(now) \in Words /\ High(now) \in Highs /\ now \in Times
      /\ config \in [running : BOOLEAN, next : Words, period : {0, Period}]
      /\ tm_local \in [high : Highs, low : Words, start : Times, result : {0}]
  <2>1. ~matched
    BY NothingPending DEF ArmedInv, Cancel, ClearPeriod, GetMsec, Read
  <2> QED
    BY <2>1, WordsOfTime DEF ArmedInv, TMTypeOK
<1>1. CASE Cancel \/ ClearPeriod
  <2>1. /\ tm_main \in {"idle", "cancel"} /\ tm_main' \in {"idle", "cancel"}
        /\ tm_isr = "none" /\ tm_isr' = "none"
        /\ UNCHANGED <<now, matched, compare, enabled, tm_local>>
        /\ latency' \in [match : 0 .. MaxLatency, main : 0 .. (WordLimit - 1)]
        /\ latency'.main = 0
    BY <1>0, <1>1, MainSteps DEF Cancel, ClearPeriod, InTime, Reading
  <2>2. \/ config' = [config EXCEPT !.running = FALSE]
        \/ config' = [config EXCEPT !.period = 0] /\ tm_main = "cancel"
    BY <1>1 DEF Cancel, ClearPeriod, MainStep
  <2>3. config' \in [running : BOOLEAN, next : Words, period : {0, Period}] /\ ~config'.running
    BY <1>0, <2>1, <2>2 DEF ArmedInv, HandlerInTime
  <2>4. TMTypeOK'
    BY <1>0, <2>1, <2>3 DEF TMTypeOK
  <2>5. BootInTime' /\ HandlerInTime'
    BY <1>0, <2>1, <2>3 DEF BootInTime, HandlerInTime, Booting, InTime, Reading, Starting
  <2> QED
    BY <2>1, <2>3, <2>4, <2>5 DEF ArmedInv, MatchAhead, StartAhead, Starting
<1>2. CASE GetMsec
  <2>1. PICK at \in Reading \cup {"idle"}, next \in Reading \cup {"idle"} : MainStep(at, next)
    BY <1>2 DEF GetMsec, Read, AfterLow, AfterReadAgain, Reading
  <2>2. /\ tm_main = at /\ tm_main' = next /\ tm_isr = "none" /\ tm_isr' = "none"
        /\ UNCHANGED <<now, matched, compare, enabled, config>>
        /\ latency' \in [match : 0 .. MaxLatency, main : 0 .. (WordLimit - 1)]
        /\ latency'.main = IF next \in InTime \cup Reading THEN latency.main ELSE 0
    BY <1>0, <1>2, <2>1, MainSteps DEF GetMsec, Read
  <2>3. tm_local' \in [high : Highs, low : Words, start : Times, result : {0}]
    <3>1. 0 \in Highs /\ 0 \in Words /\ 0 \in Times
      BY Sizes DEF Highs, Words, Times
    <3>2. NothingRead \in [high : Highs, low : Words, start : Times, result : {0}]
      BY <3>1 DEF NothingRead
    <3>3. \/ tm_local' = [NothingRead EXCEPT !.high = High(now), !.start = now]
          \/ tm_local' = [tm_local EXCEPT !.low = Low(now)]
          \/ tm_local' = [tm_local EXCEPT !.high = High(now)]
          \/ tm_local' \in {tm_local, NothingRead}
      BY <1>2 DEF GetMsec, Read
    <3>4. CASE tm_local' = [NothingRead EXCEPT !.high = High(now), !.start = now]
      BY <1>0, <3>2, <3>4
    <3>5. CASE tm_local' = [tm_local EXCEPT !.low = Low(now)]
      BY <1>0, <3>5
    <3>6. CASE tm_local' = [tm_local EXCEPT !.high = High(now)]
      BY <1>0, <3>6
    <3> QED
      BY <1>0, <3>2, <3>3, <3>4, <3>5, <3>6
  <2>4. TMTypeOK'
    BY <1>0, <2>1, <2>2, <2>3 DEF TMTypeOK
  <2>5. BootInTime' /\ HandlerInTime'
    <3>1. next \notin InTime \cup Booting \cup Starting \cup {"boot", "cancel"}
          /\ at \notin Booting \cup {"boot"}
      BY <2>1 DEF Reading, InTime, Booting, Starting
    <3>2. BootInTime'
      BY <1>0, <2>2, <3>1 DEF BootInTime
    <3>3. HandlerInTime'
      <4>1. tm_main \notin {"set_period"} \cup Starting \cup {"cancel"}
        BY <2>1, <2>2 DEF Reading, Starting
      <4>2. tm_main' \notin Starting \cup {"cancel"}
        BY <2>2, <3>1
      <4> QED
        BY <1>0, <2>2, <4>1, <4>2 DEF HandlerInTime
    <3> QED
      BY <3>2, <3>3
  <2>6. MatchAhead'
    <3>1. tm_main \notin Starting
      BY <2>1, <2>2 DEF Starting, Reading
    <3> QED
      BY <1>0, <2>2, <3>1 DEF ArmedInv, MatchAhead, Ahead
  <2> QED
    BY <2>1, <2>2, <2>4, <2>5, <2>6 DEF ArmedInv, StartAhead, Reading
<1> QED
  BY <1>1, <1>2

-----------------------------------------------------------------------------
(* The handler.                                                            *)

\* Whatever the main program is at, the handler moves a match on by one period.
LEMMA HandlerKeeps ==
  ASSUME ArmedInv, ISRNext
  PROVE  ArmedInv'
<1>0. /\ TMTypeOK /\ BootInTime /\ HandlerInTime
      /\ latency \in [match : 0 .. MaxLatency, main : 0 .. (WordLimit - 1)]
      /\ latency.match \in 0 .. MaxLatency /\ latency.main \in 0 .. (WordLimit - 1)
      /\ Low(now) \in Words /\ config.next \in Words /\ compare \in Words
      /\ config \in [running : BOOLEAN, next : Words, period : {0, Period}]
  BY WordsOfTime DEF ArmedInv, TMTypeOK
<1>1. UNCHANGED <<now, isrs, enabled, tm_main, tm_local>>
  BY DEF ISRNext, HandleInterrupt, Advance, SetNext, Acknowledge, ISRStep
<1>2. CASE HandleInterrupt
  <2>1. /\ tm_isr = "none" /\ tm_isr' = "advance" /\ UNCHANGED <<compare, matched, config, latency>>
        /\ matched /\ enabled
    BY <1>2 DEF HandleInterrupt, ISRStep, Pending
  <2>2. TMTypeOK' /\ BootInTime' /\ HandlerInTime'
    BY <1>0, <1>1, <2>1 DEF TMTypeOK, BootInTime, HandlerInTime
  <2> QED
    BY <1>1, <2>1, <2>2 DEF ArmedInv, MatchAhead, StartAhead
<1>3. CASE Advance
  <2>1. /\ tm_isr = "advance" /\ UNCHANGED <<compare, matched, latency>>
        /\ matched /\ enabled
    BY <1>0, <1>3 DEF Advance, ISRStep, HandlerInTime
  <2>2. CASE config.running /\ config.period > 0
    <3>1. config.period = Period /\ config.period > 0
      BY <1>0, <2>2
    <3>2. /\ tm_isr' = "set" /\ config' = [config EXCEPT !.next = (@ + Period) % WordLimit]
      BY <1>3, <2>2, <3>1 DEF Advance, ISRStep, AdvanceNext
    <3>3. (config.next + Period) % WordLimit = Wrapped(config.next + Period)
          /\ Wrapped(config.next + Period) \in Words
      BY <1>0, Sizes, WordArithmetic
    <3>4. /\ config'.next = Wrapped(config.next + Period)
          /\ config'.running = config.running /\ config'.period = config.period
          /\ config' \in [running : BOOLEAN, next : Words, period : {0, Period}]
      BY <1>0, <3>2, <3>3
    <3>5. TMTypeOK' /\ BootInTime' /\ HandlerInTime'
      BY <1>0, <1>1, <2>1, <2>2, <3>2, <3>4 DEF TMTypeOK, BootInTime, HandlerInTime
    <3>6. MatchAhead'
      <4>1. ASSUME config.next = Wrapped(compare + Period)
            PROVE  Wrapped(config.next + Period) = Wrapped(compare + 2 * Period)
        BY <1>0, <4>1, Sizes DEF Wrapped, Words
      <4> QED
        BY <1>1, <2>1, <2>2, <3>2, <3>4, <4>1 DEF ArmedInv, MatchAhead
    <3>7. StartAhead'
      BY <1>1, <2>1, <3>2, <3>4 DEF ArmedInv, StartAhead
    <3> QED
      BY <3>5, <3>6, <3>7 DEF ArmedInv
  <2>3. CASE ~(config.running /\ config.period > 0)
    <3>0. config.running \/ tm_main \in Starting => tm_main = "set_period"
      BY <1>0, <2>3, Sizes DEF HandlerInTime
    <3>1. /\ tm_isr' = "acknowledge" /\ UNCHANGED config
      BY <1>3, <2>3 DEF Advance, ISRStep
    <3>2. TMTypeOK' /\ BootInTime' /\ HandlerInTime'
      BY <1>0, <1>1, <2>1, <3>1 DEF TMTypeOK, BootInTime, HandlerInTime
    <3> QED
      BY <1>1, <3>0, <3>1, <3>2 DEF ArmedInv, MatchAhead, StartAhead, Starting
  <2> QED
    BY <2>2, <2>3
<1>4. CASE SetNext
  <2>1. /\ tm_isr = "set" /\ tm_isr' = "acknowledge" /\ UNCHANGED <<matched, config, latency>>
        /\ matched /\ enabled /\ config.running /\ compare' = config.next
    BY <1>0, <1>4 DEF SetNext, ISRStep, HandlerInTime
  <2>2. TMTypeOK' /\ BootInTime' /\ HandlerInTime'
    <3>1. tm_main \notin Booting
      BY <1>0, <2>1 DEF BootInTime
    <3> QED
      BY <1>0, <1>1, <2>1, <3>1 DEF TMTypeOK, BootInTime, HandlerInTime
  <2>3. MatchAhead'
    <3> SUFFICES ASSUME tm_main \notin Starting
                 PROVE  Distance(Low(now), config.next) \in {Period - latency.match, 2 * Period - latency.match}
      BY <1>1, <2>1 DEF MatchAhead, Ahead
    <3>1. /\ Low(now) = Wrapped(compare + latency.match)
          /\ config.next \in {Wrapped(compare + Period), Wrapped(compare + 2 * Period)}
      BY <2>1 DEF ArmedInv, MatchAhead
    <3>2. Distance(Low(now), config.next)
            = IF Low(now) <= config.next THEN config.next - Low(now) ELSE config.next - Low(now) + WordLimit
      BY <1>0, WordArithmetic
    <3> QED
      BY <1>0, <3>1, <3>2, Sizes DEF Wrapped, Words
  <2>4. StartAhead'
    BY <1>1, <2>1 DEF ArmedInv, StartAhead
  <2> QED
    BY <2>2, <2>3, <2>4 DEF ArmedInv
<1>5. CASE Acknowledge
  <2>1. /\ tm_isr = "acknowledge" /\ tm_isr' = "none" /\ UNCHANGED <<compare, config>>
        /\ ~matched' /\ matched' \in BOOLEAN /\ latency' = [latency EXCEPT !.match = 0]
    BY <1>5 DEF Acknowledge, ISRStep, MatchAfterAcknowledge
  <2>2. /\ latency' \in [match : 0 .. MaxLatency, main : 0 .. (WordLimit - 1)]
        /\ latency'.main = latency.main
    BY <1>0, <2>1, Sizes
  <2>3. TMTypeOK' /\ BootInTime' /\ HandlerInTime'
    BY <1>0, <1>1, <2>1, <2>2 DEF TMTypeOK, BootInTime, HandlerInTime
  <2>4. MatchAhead'
    <3> SUFFICES ASSUME config.running, tm_main \notin Starting
                 PROVE  config.next = compare /\ Ahead \in 1 .. (2 * Period)
      BY <1>1, <2>1 DEF MatchAhead, Ahead
    <3>1. config.next = compare /\ Ahead \in {Period - latency.match, 2 * Period - latency.match}
      BY <2>1 DEF ArmedInv, MatchAhead
    <3> QED
      BY <1>0, <3>1, Sizes
  <2>5. StartAhead'
    BY <1>1, <2>1, <2>2 DEF ArmedInv, StartAhead
  <2> QED
    BY <2>3, <2>4, <2>5 DEF ArmedInv
<1> QED
  BY <1>2, <1>3, <1>4, <1>5 DEF ISRNext

-----------------------------------------------------------------------------
(* The timer stays armed.                                                  *)

\* At boot nothing runs.
LEMMA ArmedInitially == TMInit => ArmedInv
<1> SUFFICES ASSUME TMInit PROVE ArmedInv
  OBVIOUS
<1>1. /\ now = 0 /\ compare = WordLimit - 1 /\ matched = FALSE /\ enabled = FALSE
      /\ config = [running |-> FALSE, next |-> 0, period |-> 0]
      /\ tm_main = "boot" /\ tm_isr = "none" /\ tm_local = NothingRead
      /\ latency = [match |-> 0, main |-> 0]
  BY DEF TMInit
<1>2. /\ 0 \in Highs /\ 0 \in Words /\ 0 \in Times /\ WordLimit - 1 \in Words
      /\ 0 \in 0 .. MaxLatency /\ 0 \in 0 .. (WordLimit - 1)
  BY Sizes DEF Highs, Words, Times
<1>3. TMTypeOK
  BY <1>1, <1>2 DEF TMTypeOK, NothingRead, Booting
<1>4. BootInTime /\ HandlerInTime
  BY <1>1, Sizes DEF BootInTime, HandlerInTime, Booting, InTime, Reading, Starting
<1> QED
  BY <1>1, <1>3, <1>4 DEF ArmedInv, MatchAhead, StartAhead

\* Every step keeps the timer armed: the clock, the main program and the handler.
LEMMA ArmedStep == ArmedInv /\ [TMNext]_tmVars => ArmedInv'
<1> SUFFICES ASSUME ArmedInv, [TMNext]_tmVars PROVE ArmedInv'
  OBVIOUS
<1>1. CASE UNCHANGED tmVars
  BY <1>1 DEF tmVars, ArmedInv, TMTypeOK, BootInTime, HandlerInTime, MatchAhead, Ahead, StartAhead
<1> QED
  BY <1>1, TickKeepsAhead, BootKeeps, StartKeeps, OtherMainKeeps, HandlerKeeps DEF TMNext

\* Whatever the interrupt comes between, a running timer that waits for its next match
\* waits for one at most two periods away: it never has to wait for the counter to come
\* around, which takes more than an hour.
THEOREM TimerIsArmed == TMSpec => []TimerStaysArmed
<1>1. ASSUME ArmedInv PROVE TimerStaysArmed
  <2> SUFFICES ASSUME Armed, ~matched PROVE Ahead \in 1 .. (2 * Period)
    BY DEF TimerStaysArmed, Ahead
  <2>1. Ahead \in 1 .. (2 * Period) \/ Ahead \in 1 .. Period
    BY <1>1 DEF ArmedInv, MatchAhead, Armed, Starting
  <2> QED
    BY <2>1, Sizes
<1> QED
  BY <1>1, ArmedInitially, ArmedStep, PTL DEF TMSpec

-----------------------------------------------------------------------------
(* The time that is read.                                                  *)

\* Of two times less than a word apart the later one has the next high word exactly if
\* the low word overflows.
LEMMA ElapsedInWords ==
  ASSUME NEW h \in Highs, NEW l \in Words, NEW k \in 0 .. (WordLimit - 1)
  PROVE  /\ l + k < WordLimit => Elapsed(h * WordLimit + l, h * WordLimit + (l + k)) = k
         /\ l + k >= WordLimit =>
              Elapsed(h * WordLimit + l, NextHigh(h) * WordLimit + (l + k - WordLimit)) = k
<1> DEFINE base == h * WordLimit
<1>1. base \in Nat /\ base + l \in Times
  BY TimeOfWords
<1>2. WordLimit \in Nat /\ CounterLimit \in Nat \ {0} /\ CounterLimit >= 2 * WordLimit
      /\ HighLimit \in Nat /\ h \in Nat /\ l \in Nat /\ k \in Nat /\ k < WordLimit
  BY Sizes DEF Highs, Words
<1>3. k \in 0 .. (CounterLimit - 1) /\ k - CounterLimit \in (1 - CounterLimit) .. (-1) \cup {-CounterLimit}
  BY <1>2
<1>4. CASE l + k < WordLimit
  <2>1. (base + (l + k)) - (base + l) = k
    BY <1>1, <1>2
  <2> QED
    BY <1>2, <1>3, <1>4, <2>1, Remainders DEF Elapsed
<1>5. CASE l + k >= WordLimit /\ h + 1 # HighLimit
  <2>1. NextHigh(h) * WordLimit = base + WordLimit
    BY <1>2, <1>5 DEF NextHigh
  <2>2. (base + WordLimit + (l + k - WordLimit)) - (base + l) = k
    BY <1>1, <1>2
  <2> QED
    BY <1>2, <1>3, <1>5, <2>1, <2>2, Remainders DEF Elapsed
<1>6. CASE l + k >= WordLimit /\ h + 1 = HighLimit
  <2>1. NextHigh(h) * WordLimit = 0 /\ base = CounterLimit - WordLimit
    <3>1. NextHigh(h) = 0
      BY <1>6 DEF NextHigh
    <3> QED
      BY <1>2, <1>6, <3>1, TimeOfWords
  <2>2. (0 + (l + k - WordLimit)) - (base + l) = k - CounterLimit
    BY <1>1, <1>2, <2>1
  <2>3. k - CounterLimit \in (1 - CounterLimit) .. (-1) /\ k - CounterLimit + CounterLimit = k
    BY <1>2, <1>6 DEF Words
  <2>4. (k - CounterLimit) % CounterLimit = k
    BY <1>2, <2>3, Remainders
  <2> QED
    BY <1>2, <1>6, <2>1, <2>2, <2>4 DEF Elapsed
<1> QED
  BY <1>2, <1>4, <1>5, <1>6

\* While the program reads, the clock may take the low word past its limit once.
LEMMA TickKeepsReading ==
  ASSUME ArmedInv, ReadInTime, Tick
  PROVE  ReadInTime'
<1> SUFFICES ASSUME tm_main \in Reading PROVE ReadInTime'
  BY DEF ReadInTime, Tick
<1> DEFINE low == Low(tm_local.start)
           high == High(tm_local.start)
           l == Low(now)
           u == Low(now')
           m == latency.main
<1>1. /\ UNCHANGED <<tm_main, tm_local>> /\ latency'.main = m + 1 /\ m < WordLimit - 1
      /\ m \in Nat /\ low \in Words /\ high \in Highs /\ tm_local.low \in Words
  BY WordsOfTime DEF Tick, ArmedInv, TMTypeOK
<1>2. /\ l \in Words /\ u = Wrapped(l + 1)
      /\ High(now') = IF l + 1 = WordLimit THEN NextHigh(High(now)) ELSE High(now)
  BY TickWords, WordsOfTime DEF ArmedInv, TMTypeOK
<1>3. /\ l = Wrapped(low + m)
      /\ High(now) = IF low + m >= WordLimit THEN NextHigh(high) ELSE high
  BY DEF ReadInTime, Overflowed
<1> HIDE DEF low, high, l, u, m
<1>4. u = Wrapped(low + (m + 1))
  BY <1>1, <1>2, <1>3, Sizes DEF Wrapped, Words
<1>5. High(now') = IF low + (m + 1) >= WordLimit THEN NextHigh(high) ELSE high
  <2>1. CASE low + m >= WordLimit
    <3>1. l + 1 # WordLimit /\ low + (m + 1) >= WordLimit
      BY <1>1, <1>3, <2>1, Sizes DEF Wrapped, Words
    <3> QED
      BY <1>2, <1>3, <2>1, <3>1
  <2>2. CASE ~(low + m >= WordLimit)
    <3>1. l + 1 = WordLimit <=> low + (m + 1) >= WordLimit
      BY <1>1, <1>3, <2>2, Sizes DEF Wrapped, Words
    <3> QED
      BY <1>2, <1>3, <2>2, <3>1
  <2> QED
    BY <2>1, <2>2
<1>6. /\ low + m >= WordLimit => low + (m + 1) >= WordLimit /\ \A x \in 0 .. l : x \in 0 .. u
      /\ \A x \in low .. (low + m) : x \in low .. (low + (m + 1))
  BY <1>1, <1>2, <1>3, Sizes DEF Wrapped, Words
<1>7. /\ tm_main \in {"read_low", "read_high_again"} => tm_local.high = high
      /\ tm_main = "read_high_again" =>
           tm_local.low \in low .. (low + m) \/ (low + m >= WordLimit /\ tm_local.low \in 0 .. l)
      /\ tm_main \in {"reread_high", "reread_low"} => low + m >= WordLimit
      /\ tm_main = "reread_low" => tm_local.high = NextHigh(high)
      /\ tm_main = "return_time" =>
           \/ tm_local.high = high /\ tm_local.low \in low .. (low + m)
           \/ low + m >= WordLimit /\ tm_local.high = NextHigh(high) /\ tm_local.low \in 0 .. l
  BY DEF ReadInTime, Overflowed, low, high, l, m
<1>8. /\ tm_main \in {"read_low", "read_high_again"} => tm_local.high = high
      /\ tm_main = "read_high_again" =>
           \/ tm_local.low \in low .. (low + (m + 1))
           \/ low + (m + 1) >= WordLimit /\ tm_local.low \in 0 .. u
      /\ tm_main \in {"reread_high", "reread_low"} => low + (m + 1) >= WordLimit
      /\ tm_main = "reread_low" => tm_local.high = NextHigh(high)
      /\ tm_main = "return_time" =>
           \/ tm_local.high = high /\ tm_local.low \in low .. (low + (m + 1))
           \/ low + (m + 1) >= WordLimit /\ tm_local.high = NextHigh(high) /\ tm_local.low \in 0 .. u
  BY <1>6, <1>7
<1> QED
  BY <1>1, <1>4, <1>5, <1>8 DEF ReadInTime, Overflowed, low, high, u, m

\* A reading of the high word differs from the first exactly after an overflow.
LEMMA GetMsecKeepsReading ==
  ASSUME ArmedInv, ReadInTime, GetMsec
  PROVE  ReadInTime'
<1> DEFINE low == Low(tm_local.start)
           high == High(tm_local.start)
           l == Low(now)
           m == latency.main
<1>0. /\ l \in Words /\ High(now) \in Highs /\ now \in Times
      /\ m \in 0 .. (WordLimit - 1) /\ low \in Words /\ high \in Highs /\ tm_local.low \in Words
      /\ tm_local \in [high : Highs, low : Words, start : Times, result : {0}]
  BY WordsOfTime DEF ArmedInv, TMTypeOK
<1>1. /\ now' = now
      /\ tm_main' \in Reading => latency' = latency
  BY DEF GetMsec, Read, MainStep
<1>2. NextHigh(high) # high
  BY <1>0, Sizes DEF NextHigh, Highs
<1>3. tm_main \in Reading =>
        /\ l = Wrapped(low + m)
        /\ High(now) = IF low + m >= WordLimit THEN NextHigh(high) ELSE high
  BY DEF ReadInTime, Overflowed
<1>4. CASE Read("idle", "read_low", [NothingRead EXCEPT !.high = High(now), !.start = now])
  <2>1. tm_main' = "read_low" /\ m = 0 /\ latency' = latency
    BY <1>1, <1>4 DEF Read, MainStep, Reading, InTime, ArmedInv, BootInTime
  <2>2. tm_local'.start = now /\ tm_local'.high = High(now)
    BY <1>4 DEF Read, NothingRead
  <2>3. l = Wrapped(l + 0) /\ ~(l + 0 >= WordLimit)
    BY <1>0, Sizes DEF Wrapped, Words
  <2> QED
    BY <1>1, <2>1, <2>2, <2>3 DEF ReadInTime, Overflowed
<1>5. CASE Read("read_low", AfterLow, [tm_local EXCEPT !.low = Low(now)])
  <2>1. tm_main = "read_low" /\ tm_main' = "read_high_again" /\ latency' = latency
    BY <1>1, <1>5 DEF Read, MainStep, Reading, AfterLow
  <2>2. tm_local'.start = tm_local.start /\ tm_local'.high = tm_local.high /\ tm_local'.low = l
    BY <1>0, <1>5 DEF Read
  <2>3. l \in low .. (low + m) \/ (low + m >= WordLimit /\ l \in 0 .. l)
    <3>1. l = Wrapped(low + m)
      BY <1>3, <2>1 DEF Reading
    <3> HIDE DEF l, low, m
    <3> QED
      BY <1>0, <3>1, Sizes DEF Wrapped, Words
  <2> QED
    BY <1>1, <1>3, <2>1, <2>2, <2>3 DEF ReadInTime, Overflowed, Reading
<1>6. CASE Read("read_high_again", AfterReadAgain, tm_local)
  <2>1. /\ tm_main = "read_high_again" /\ latency' = latency /\ tm_local' = tm_local
        /\ tm_main' = IF High(now) # tm_local.high THEN "reread_high" ELSE "return_time"
    BY <1>1, <1>6 DEF Read, MainStep, Reading, AfterReadAgain
  <2>2. High(now) # tm_local.high <=> low + m >= WordLimit
    BY <1>2, <1>3, <2>1 DEF ReadInTime, Reading
  <2> QED
    BY <1>1, <1>3, <2>1, <2>2 DEF ReadInTime, Overflowed, Reading
<1>7. CASE Read("reread_high", "reread_low", [tm_local EXCEPT !.high = High(now)])
  <2>1. tm_main = "reread_high" /\ tm_main' = "reread_low" /\ latency' = latency
    BY <1>1, <1>7 DEF Read, MainStep, Reading
  <2>2. tm_local'.start = tm_local.start /\ tm_local'.high = High(now)
    BY <1>0, <1>7 DEF Read
  <2> QED
    BY <1>1, <1>3, <2>1, <2>2 DEF ReadInTime, Overflowed, Reading
<1>8. CASE Read("reread_low", "return_time", [tm_local EXCEPT !.low = Low(now)])
  <2>1. tm_main = "reread_low" /\ tm_main' = "return_time" /\ latency' = latency
    BY <1>1, <1>8 DEF Read, MainStep, Reading
  <2>2. tm_local'.start = tm_local.start /\ tm_local'.high = tm_local.high /\ tm_local'.low = l
    BY <1>0, <1>8 DEF Read
  <2>3. l \in 0 .. l
    BY <1>0 DEF Words
  <2> QED
    BY <1>1, <1>3, <2>1, <2>2, <2>3 DEF ReadInTime, Overflowed, Reading
<1>9. CASE Read("return_time", "idle", NothingRead)
  BY <1>9 DEF Read, MainStep, ReadInTime, Reading
<1> QED
  BY <1>4, <1>5, <1>6, <1>7, <1>8, <1>9 DEF GetMsec

\* Every step keeps what GetMsec has read in time.
LEMMA ReadingStep == ArmedInv /\ ReadInTime /\ [TMNext]_tmVars => ReadInTime'
<1> SUFFICES ASSUME ArmedInv, ReadInTime, [TMNext]_tmVars, ~Tick, ~GetMsec PROVE ReadInTime'
  BY TickKeepsReading, GetMsecKeepsReading
<1>1. CASE UNCHANGED tmVars \/ ISRNext
  <2>1. UNCHANGED <<now, tm_main, tm_local>> /\ latency'.main = latency.main
    BY <1>1 DEF tmVars, ISRNext, HandleInterrupt, Advance, SetNext, Acknowledge, ISRStep,
       ArmedInv, TMTypeOK
  <2> QED
    BY <2>1 DEF ReadInTime, Overflowed
<1>2. CASE EnableInterrupt \/ AddISRs \/ Start \/ StartNext \/ Cancel \/ ClearPeriod
  <2>1. tm_main' \notin Reading
    BY <1>2 DEF EnableInterrupt, AddISRs, PushISR, Start, StartNext, SetPeriod, ReadCounter,
       ComputeNext, SetCompareRegister, Cancel, ClearPeriod, MainStep, Reading
  <2> QED
    BY <2>1 DEF ReadInTime
<1> QED
  BY <1>1, <1>2 DEF TMNext

\* The time that GetMsec puts together from registers read at different times is one the
\* timer showed during the call, for any width of the words, though the low word may
\* overflow between any two of the readings.
THEOREM TimeIsOne == TMSpec => []TimeIsRead
<1>1. TMInit => ReadInTime
  BY DEF TMInit, ReadInTime, Reading
<1>2. ASSUME ArmedInv, ReadInTime PROVE TimeIsRead
  <2> DEFINE low == Low(tm_local.start)
             high == High(tm_local.start)
             l == Low(now)
             m == latency.main
             result == tm_local.high * WordLimit + tm_local.low
  <2> SUFFICES ASSUME tm_main = "return_time"
               PROVE  Elapsed(tm_local.start, result) <= Elapsed(tm_local.start, now)
    BY DEF TimeIsRead
  <2>1. /\ l \in Words /\ low \in Words /\ high \in Highs /\ tm_local.low \in Words
        /\ m \in 0 .. (WordLimit - 1)
        /\ tm_local.start = high * WordLimit + low /\ now = High(now) * WordLimit + l
    BY <1>2, WordsOfTime DEF ArmedInv, TMTypeOK
  <2>2. /\ l = Wrapped(low + m)
        /\ High(now) = IF low + m >= WordLimit THEN NextHigh(high) ELSE high
        /\ \/ tm_local.high = high /\ tm_local.low \in low .. (low + m)
           \/ low + m >= WordLimit /\ tm_local.high = NextHigh(high) /\ tm_local.low \in 0 .. l
    BY <1>2 DEF ReadInTime, Overflowed, Reading
  <2>3. Elapsed(tm_local.start, now) = m
    <3>1. CASE low + m < WordLimit
      <4>1. now = high * WordLimit + (low + m)
        BY <2>1, <2>2, <3>1, Sizes DEF Wrapped, Words
      <4> QED
        BY <2>1, <3>1, <4>1, ElapsedInWords
    <3>2. CASE low + m >= WordLimit
      <4>1. now = NextHigh(high) * WordLimit + (low + m - WordLimit)
        BY <2>1, <2>2, <3>2, Sizes DEF Wrapped, Words
      <4> QED
        BY <2>1, <3>2, <4>1, ElapsedInWords
    <3> QED
      BY <2>1, <3>1, <3>2, Sizes DEF Words
  <2>4. CASE tm_local.high = high /\ tm_local.low \in low .. (low + m)
    <3> DEFINE k == tm_local.low - low
    <3>1. k \in 0 .. (WordLimit - 1) /\ k <= m /\ low + k < WordLimit /\ low + k = tm_local.low
      BY <2>1, <2>4, Sizes DEF Words
    <3>2. Elapsed(tm_local.start, result) = k
      BY <2>1, <2>4, <3>1, ElapsedInWords
    <3> QED
      BY <2>3, <3>1, <3>2
  <2>5. CASE low + m >= WordLimit /\ tm_local.high = NextHigh(high) /\ tm_local.low \in 0 .. l
    <3> DEFINE k == tm_local.low + WordLimit - low
    <3>1. k \in 0 .. (WordLimit - 1) /\ k <= m /\ low + k >= WordLimit
          /\ low + k - WordLimit = tm_local.low
      BY <2>1, <2>2, <2>5, Sizes DEF Words, Wrapped
    <3>2. Elapsed(tm_local.start, result) = k
      BY <2>1, <2>5, <3>1, ElapsedInWords
    <3> QED
      BY <2>3, <3>1, <3>2
  <2> QED
    BY <2>2, <2>4, <2>5
<1> QED
  BY <1>1, <1>2, ArmedInitially, ArmedStep, ReadingStep, PTL DEF TMSpec

-----------------------------------------------------------------------------
(* Mailbox.                                                                *)

\* A word holds the message it was asked or answered in.
Holders == {"asked", "answered"} \X Nat
MBWords == [tag : MailboxTags \cup {LastTag}, i : Nat, holds : Holders]

(* The words of a tag are words.                                           *)
LEMMA PayloadFacts ==
  ASSUME NEW tag \in MailboxTags, NEW h \in Holders
  PROVE  /\ TagWords[tag] \in Nat \ {0}
         /\ TagPayload(tag, h) \in Seq(MBWords) /\ Len(TagPayload(tag, h)) = TagWords[tag]
         /\ \A k \in 1 .. TagWords[tag] : TagPayload(tag, h)[k] = Word(tag, k, h)
<1>1. TagWords[tag] \in Nat \ {0}
  BY MailboxAssumption
<1>2. \A k \in 1 .. TagWords[tag] : Word(tag, k, h) \in MBWords
  BY <1>1 DEF Word, MBWords
<1> QED
  BY <1>1, <1>2 DEF TagPayload

-----------------------------------------------------------------------------
(* Building a message: the tags that find room.                            *)

IsAdding(added, address, tags, length) ==
  added = [n \in 0 .. length |-> IF n = 0 THEN [NoMessage EXCEPT !.address = address]
                                 ELSE AddTag(added[n - 1], tags[n])]

(* The tags can be added one after the other.                              *)
LEMMA AddingExists ==
  ASSUME NEW address, NEW tags
  PROVE  \A n \in Nat : \E added : IsAdding(added, address, tags, n)
<1> DEFINE first == [NoMessage EXCEPT !.address = address]
           S == {n \in Nat : \E added : IsAdding(added, address, tags, n)}
<1>1. 0 \in S
  <2>1. IsAdding([n \in 0 .. 0 |-> first], address, tags, 0)
    BY DEF IsAdding
  <2> QED
    BY <2>1
<1>2. ASSUME NEW n \in Nat, n \in S
      PROVE  n + 1 \in S
  <2>1. PICK added : IsAdding(added, address, tags, n)
    BY <1>2
  <2> DEFINE longer == [m \in 0 .. (n + 1) |->
                          IF m = n + 1 THEN AddTag(added[n], tags[m]) ELSE added[m]]
  <2>2. \A m \in 0 .. n : added[m] = IF m = 0 THEN first ELSE AddTag(added[m - 1], tags[m])
    BY <2>1 DEF IsAdding
  <2>3. \A m \in 0 .. (n + 1) :
          longer[m] = IF m = 0 THEN first ELSE AddTag(longer[m - 1], tags[m])
    BY <2>2
  <2>4. IsAdding(longer, address, tags, n + 1)
    BY <2>3 DEF IsAdding
  <2> QED
    BY <2>4
<1>3. Nat \subseteq S
  <2> HIDE DEF S
  <2> QED
    BY <1>1, <1>2, EveryNatural
<1> QED
  BY <1>3

\* A message that is being built.
Messages == [address : MailboxAddresses \cup {0}, tags : Seq(MailboxTags), held : Seq(Seq(MBWords)),
             size : Nat, result : {"none", "success", "failure"}]

(* A tag more, or left out, makes a message of a message.                  *)
LEMMA AddTagFacts ==
  ASSUME NEW m \in Messages, NEW tag \in MailboxTags
  PROVE  /\ AddTag(m, tag) \in Messages
         /\ AddTag(m, tag).address = m.address /\ AddTag(m, tag).result = m.result
<1>1. TagWords[tag] \in Nat
  BY MailboxAssumption
<1>2. Append(m.tags, tag) \in Seq(MailboxTags) /\ m.size + TagWords[tag] \in Nat
  BY <1>1 DEF Messages
<1>3. CASE Len(m.tags) >= MaxTags \/ HeaderWords + m.size + TagWords[tag] >= MaxWords
  BY <1>3 DEF AddTag
<1>4. CASE ~(Len(m.tags) >= MaxTags \/ HeaderWords + m.size + TagWords[tag] >= MaxWords)
  <2>1. AddTag(m, tag) = [m EXCEPT !.tags = Append(@, tag), !.size = @ + TagWords[tag]]
    BY <1>4 DEF AddTag
  <2> QED
    BY <1>2, <2>1 DEF Messages
<1> QED
  BY <1>3, <1>4

(* What MessageOf builds, whatever is left out: a message whose tags each  *)
(* hold the question.                                                      *)
LEMMA MessageFacts ==
  ASSUME NEW address \in MailboxAddresses, NEW tags \in Seq(MailboxTags), mb_sent \in Nat
  PROVE  LET m == MessageOf(address, tags)
         IN /\ m \in Messages /\ m.address = address /\ m.result = "none"
            /\ m.held = [i \in DOMAIN m.tags |-> TagPayload(m.tags[i], Asked(mb_sent))]
<1>1. PICK n : n = Len(tags) /\ n \in Nat
  OBVIOUS
<1>2. PICK added : added = CHOOSE f : IsAdding(f, address, tags, n)
  OBVIOUS
<1>3. IsAdding(added, address, tags, n)
  BY <1>1, <1>2, AddingExists
<1>4. \A k \in 0 .. n : added[k] = IF k = 0 THEN [NoMessage EXCEPT !.address = address]
                                   ELSE AddTag(added[k - 1], tags[k])
  BY <1>3 DEF IsAdding
<1>5. PICK S : S = {k \in 0 .. n : /\ added[k] \in Messages /\ added[k].address = address
                                   /\ added[k].result = "none"}
  OBVIOUS
<1>6. 0 \in S
  <2>1. added[0] = [NoMessage EXCEPT !.address = address]
    BY <1>1, <1>4
  <2>2. << >> \in Seq(MailboxTags) /\ << >> \in Seq(Seq(MBWords))
    OBVIOUS
  <2>3. added[0] = [address |-> address, tags |-> << >>, held |-> << >>, size |-> 0, result |-> "none"]
    BY <2>1 DEF NoMessage
  <2>4. added[0] \in Messages
    BY <2>2, <2>3 DEF Messages
  <2> QED
    BY <1>1, <1>5, <2>3, <2>4
<1>7. ASSUME NEW k \in 0 .. (n - 1), k \in S
      PROVE  k + 1 \in S
  <2>1. k + 1 \in 0 .. n /\ k + 1 # 0 /\ (k + 1) - 1 = k /\ k + 1 \in 1 .. Len(tags)
    BY <1>1
  <2>2. added[k + 1] = AddTag(added[k], tags[k + 1])
    BY <1>4, <2>1
  <2>3. tags[k + 1] \in MailboxTags /\ added[k] \in Messages /\ added[k].address = address
        /\ added[k].result = "none"
    BY <1>5, <1>7, <2>1
  <2> QED
    BY <1>5, <2>1, <2>2, <2>3, AddTagFacts, SMTT(60)
<1>8. 0 .. n \subseteq S
  BY <1>1, <1>6, <1>7, EveryNumberTo
<1>9. PICK m : m = added[n] /\ m \in Messages /\ m.address = address /\ m.result = "none"
  BY <1>1, <1>5, <1>8
<1>10. MessageOf(address, tags)
       = [m EXCEPT !.held = [i \in DOMAIN m.tags |-> TagPayload(m.tags[i], Asked(mb_sent))]]
  BY <1>1, <1>2, <1>9 DEF MessageOf, IsAdding
<1>11. Asked(mb_sent) \in Holders
  BY DEF Asked, Holders
<1>12. [i \in DOMAIN m.tags |-> TagPayload(m.tags[i], Asked(mb_sent))] \in Seq(Seq(MBWords))
  <2>1. m.tags \in Seq(MailboxTags)
    BY <1>9 DEF Messages
  <2>2. \A i \in DOMAIN m.tags : TagPayload(m.tags[i], Asked(mb_sent)) \in Seq(MBWords)
    BY <1>11, <2>1, PayloadFacts
  <2>3. PICK k : k = Len(m.tags) /\ k \in Nat /\ DOMAIN m.tags = 1 .. k
    BY <2>1
  <2>4. PICK payload : payload = [i \in 1 .. k |-> TagPayload(m.tags[i], Asked(mb_sent))]
    OBVIOUS
  <2>5. payload \in [1 .. k -> Seq(MBWords)]
    BY <2>2, <2>3, <2>4
  <2> QED
    BY <2>3, <2>4, <2>5
<1> QED
  BY <1>9, <1>10, <1>12 DEF Messages


-----------------------------------------------------------------------------
(* The words of a message: where each tag begins, and that it is there.    *)

IsFirst(first, tags, length) ==
  first = [n \in 1 .. (length + 1) |-> IF n = 1 THEN 1 ELSE first[n - 1] + TagWords[tags[n - 1]]]

(* The sums of the lengths of the tags exist.                              *)
LEMMA FirstExists ==
  ASSUME NEW tags
  PROVE  \A n \in Nat : \E first : IsFirst(first, tags, n)
<1> DEFINE S == {n \in Nat : \E first : IsFirst(first, tags, n)}
<1>1. 0 \in S
  <2>1. IsFirst([n \in 1 .. 1 |-> 1], tags, 0)
    BY DEF IsFirst
  <2> QED
    BY <2>1
<1>2. ASSUME NEW n \in Nat, n \in S
      PROVE  n + 1 \in S
  <2>1. PICK first : IsFirst(first, tags, n)
    BY <1>2
  <2> DEFINE longer == [m \in 1 .. ((n + 1) + 1) |->
               IF m = n + 2 THEN first[n + 1] + TagWords[tags[n + 1]] ELSE first[m]]
  <2>2. \A m \in 1 .. (n + 1) :
          first[m] = IF m = 1 THEN 1 ELSE first[m - 1] + TagWords[tags[m - 1]]
    BY <2>1 DEF IsFirst
  <2>3. \A m \in 1 .. ((n + 1) + 1) :
          longer[m] = IF m = 1 THEN 1 ELSE longer[m - 1] + TagWords[tags[m - 1]]
    BY <2>2
  <2>4. IsFirst(longer, tags, n + 1)
    BY <2>3 DEF IsFirst
  <2> QED
    BY <2>4
<1>3. Nat \subseteq S
  <2> HIDE DEF S
  <2> QED
    BY <1>1, <1>2, EveryNatural
<1> QED
  BY <1>3

(* The first tag begins at the first word, and each where the one before   *)
(* it ends.                                                                *)
LEMMA FirstWordFacts ==
  ASSUME NEW tags \in Seq(MailboxTags)
  PROVE  /\ FirstWord(tags, 1) = 1
         /\ \A i \in 1 .. Len(tags) : FirstWord(tags, i + 1) = FirstWord(tags, i) + TagWords[tags[i]]
         /\ \A i \in 1 .. (Len(tags) + 1) : FirstWord(tags, i) \in Nat \ {0}
<1>1. PICK n : n = Len(tags) /\ n \in Nat
  OBVIOUS
<1>2. PICK first : first = CHOOSE f : IsFirst(f, tags, n)
  OBVIOUS
<1>3. IsFirst(first, tags, n)
  BY <1>1, <1>2, FirstExists
<1>4. \A k \in 1 .. (n + 1) :
        first[k] = IF k = 1 THEN 1 ELSE first[k - 1] + TagWords[tags[k - 1]]
  BY <1>3 DEF IsFirst
<1>5. \A i : FirstWord(tags, i) = first[i]
  BY <1>1, <1>2 DEF FirstWord, IsFirst
<1>6. first[1] = 1 /\ \A i \in 1 .. n : first[i + 1] = first[i] + TagWords[tags[i]]
  <2>1. \A i \in 1 .. n : i + 1 \in 1 .. (n + 1) /\ i + 1 # 1 /\ (i + 1) - 1 = i
    BY <1>1
  <2> QED
    BY <1>1, <1>4, <2>1
<1>7. PICK S : S = {k \in 0 .. n : first[k + 1] \in Nat \ {0}}
  OBVIOUS
<1>8. 0 \in S
  BY <1>1, <1>6, <1>7
<1>9. ASSUME NEW k \in 0 .. (n - 1), k \in S
      PROVE  k + 1 \in S
  <2>1. k + 1 \in 1 .. n /\ k + 1 \in 0 .. n
    BY <1>1
  <2>2. TagWords[tags[k + 1]] \in Nat
    BY <1>1, <2>1, MailboxAssumption
  <2> QED
    BY <1>6, <1>7, <1>9, <2>1, <2>2
<1>10. 0 .. n \subseteq S
  BY <1>1, <1>8, <1>9, EveryNumberTo
<1>11. ASSUME NEW i \in 1 .. (n + 1)
       PROVE  first[i] \in Nat \ {0}
  <2>1. PICK k \in 0 .. n : k + 1 = i
    BY <1>1
  <2> QED
    BY <1>7, <1>10, <2>1
<1> QED
  BY <1>1, <1>5, <1>6, <1>11

\* Each tag has its words, at its place, and they hold h.
Spelled(tags, words, h) ==
  /\ words \in Seq(MBWords)
  /\ \A i \in 1 .. Len(tags) : \A k \in 1 .. TagWords[tags[i]] :
       /\ FirstWord(tags, i) + k - 1 \in 1 .. Len(words)
       /\ words[FirstWord(tags, i) + k - 1] = Word(tags[i], k, h)

IsFlat(flat, seqs, length) ==
  flat = [i \in 1 .. length |-> IF i = 1 THEN seqs[i] ELSE flat[i - 1] \o seqs[i]]

(* Sequences can be joined one after the other.                            *)
LEMMA FlatExists ==
  ASSUME NEW seqs
  PROVE  \A n \in Nat : \E flat : IsFlat(flat, seqs, n)
<1> DEFINE S == {n \in Nat : \E flat : IsFlat(flat, seqs, n)}
<1>1. 0 \in S
  <2>1. IsFlat([n \in 1 .. 0 |-> 0], seqs, 0)
    BY DEF IsFlat
  <2> QED
    BY <2>1
<1>2. ASSUME NEW n \in Nat, n \in S
      PROVE  n + 1 \in S
  <2>1. PICK flat : IsFlat(flat, seqs, n)
    BY <1>2
  <2> DEFINE last == IF n = 0 THEN seqs[1] ELSE flat[n] \o seqs[n + 1]
             longer == [m \in 1 .. (n + 1) |-> IF m = n + 1 THEN last ELSE flat[m]]
  <2>2. \A m \in 1 .. n : flat[m] = IF m = 1 THEN seqs[m] ELSE flat[m - 1] \o seqs[m]
    BY <2>1 DEF IsFlat
  <2>3. \A m \in 1 .. (n + 1) : longer[m] = IF m = 1 THEN seqs[m] ELSE longer[m - 1] \o seqs[m]
    BY <2>2
  <2>4. IsFlat(longer, seqs, n + 1)
    BY <2>3 DEF IsFlat
  <2> QED
    BY <2>4
<1>3. Nat \subseteq S
  <2> HIDE DEF S
  <2> QED
    BY <1>1, <1>2, EveryNatural
<1> QED
  BY <1>3

\* The words of a tag more, after those there are.
GoesOn(words, more, tags, i, h) ==
  /\ more \in Seq(MBWords) /\ Len(more) = FirstWord(tags, i + 1) - 1
  /\ \A j \in 1 .. Len(words) : more[j] = words[j]
  /\ \A k \in 1 .. TagWords[tags[i]] :
       /\ FirstWord(tags, i) + k - 1 \in 1 .. Len(more)
       /\ more[FirstWord(tags, i) + k - 1] = Word(tags[i], k, h)

(* A tag more at the end leaves those before it where they are.            *)
LEMMA SpelledFurther ==
  ASSUME NEW tags \in Seq(MailboxTags), NEW h \in Holders, NEW i \in 1 .. Len(tags),
         NEW words \in Seq(MBWords), Len(words) = FirstWord(tags, i) - 1,
         NEW more, more = words \o TagPayload(tags[i], h)
  PROVE  GoesOn(words, more, tags, i, h)
<1>0. tags[i] \in MailboxTags
  OBVIOUS
<1>1. PICK payload : /\ payload = TagPayload(tags[i], h) /\ payload \in Seq(MBWords)
                     /\ Len(payload) = TagWords[tags[i]] /\ TagWords[tags[i]] \in Nat \ {0}
                     /\ \A k \in 1 .. TagWords[tags[i]] : payload[k] = Word(tags[i], k, h)
  BY <1>0, PayloadFacts
<1>2. more = words \o payload
  BY <1>1
<1>3. /\ more \in Seq(MBWords) /\ Len(more) = Len(words) + Len(payload)
      /\ \A j \in 1 .. (Len(words) + Len(payload)) :
           more[j] = IF j <= Len(words) THEN words[j] ELSE payload[j - Len(words)]
  BY <1>1, <1>2, Joined, SMTT(60)
<1>4. FirstWord(tags, i + 1) = FirstWord(tags, i) + TagWords[tags[i]] /\ FirstWord(tags, i) \in Nat \ {0}
  BY FirstWordFacts
<1>5. Len(more) = FirstWord(tags, i + 1) - 1
  BY <1>1, <1>3, <1>4
<1>6. \A j \in 1 .. Len(words) : more[j] = words[j]
  BY <1>1, <1>3
<1>7. ASSUME NEW k \in 1 .. TagWords[tags[i]]
      PROVE  /\ FirstWord(tags, i) + k - 1 \in 1 .. Len(more)
             /\ more[FirstWord(tags, i) + k - 1] = Word(tags[i], k, h)
  <2>0. PICK at : at = FirstWord(tags, i) + k - 1
    OBVIOUS
  <2>1. at \in 1 .. (Len(words) + Len(payload)) /\ ~(at <= Len(words)) /\ at - Len(words) = k
    <3>1. PICK a, l, t : a = FirstWord(tags, i) /\ l = Len(words) /\ t = Len(payload)
      OBVIOUS
    <3>2. a \in Nat \ {0} /\ l = a - 1 /\ t \in Nat \ {0} /\ k \in 1 .. t /\ at = a + k - 1
      BY <1>1, <1>4, <2>0, <3>1
    <3>3. at \in 1 .. (l + t) /\ ~(at <= l) /\ at - l = k
      BY <3>2
    <3> QED
      BY <3>1, <3>3
  <2>2. more[at] = payload[k]
    BY <1>3, <2>1
  <2> QED
    BY <1>1, <1>3, <2>0, <2>1, <2>2
<1> QED
  BY <1>3, <1>5, <1>6, <1>7 DEF GoesOn

(* A message that is written spells the question in each of its tags.      *)
LEMMA WriteSpells ==
  ASSUME NEW m \in Messages, mb_sent \in Nat,
         m.held = [i \in DOMAIN m.tags |-> TagPayload(m.tags[i], Asked(mb_sent))]
  PROVE  Write(m).code = "request" /\ Spelled(m.tags, Write(m).words, Asked(mb_sent))
<1>1. PICK tags, n, h : tags = m.tags /\ n = Len(tags) /\ h = Asked(mb_sent)
  OBVIOUS
<1>2. /\ tags \in Seq(MailboxTags) /\ n \in Nat /\ DOMAIN tags = 1 .. n
      /\ h \in Holders /\ m.held = [i \in 1 .. n |-> TagPayload(tags[i], h)]
  <2>1. tags \in Seq(MailboxTags)
    BY <1>1 DEF Messages
  <2>2. n \in Nat /\ DOMAIN tags = 1 .. n
    BY <1>1, <2>1
  <2>3. h \in Holders
    BY <1>1 DEF Asked, Holders
  <2> QED
    BY <1>1, <2>1, <2>2, <2>3
<1>3. PICK last : /\ last \in Seq(MBWords)
                  /\ Write(m) = [words |-> FlattenSeq(m.held) \o last, code |-> "request"]
  <2>1. Word(LastTag, 1, h) \in MBWords
    BY <1>2 DEF Word, MBWords
  <2>2. << >> \in Seq(MBWords) /\ <<Word(LastTag, 1, h)>> \in Seq(MBWords)
    BY <2>1
  <2> QED
    BY <1>1, <2>2 DEF Write
<1>4. PICK held : held = m.held /\ Len(held) = n /\ \A i \in 1 .. n : held[i] = TagPayload(tags[i], h)
  <2>1. PICK held : held = [i \in 1 .. n |-> TagPayload(tags[i], h)]
    OBVIOUS
  <2>2. \A i \in 1 .. n : TagPayload(tags[i], h) \in Seq(MBWords)
    BY <1>1, <1>2, PayloadFacts
  <2>3. held \in [1 .. n -> Seq(MBWords)]
    BY <2>1, <2>2
  <2>4. Len(held) = n /\ \A i \in 1 .. n : held[i] = TagPayload(tags[i], h)
    BY <1>2, <2>1, <2>3
  <2> QED
    BY <1>2, <2>1, <2>4
<1>5. FirstWord(tags, 1) = 1 /\ \A i \in 1 .. (n + 1) : FirstWord(tags, i) \in Nat \ {0}
  BY <1>1, <1>2, FirstWordFacts
<1>6. CASE n = 0
  <2>1. FlattenSeq(held) = << >>
    <3>1. held = << >>
      BY <1>2, <1>4, <1>6
    <3> QED
      BY <1>4, <1>6, <3>1 DEF FlattenSeq
  <2>2. << >> \o last \in Seq(MBWords)
    BY <1>3
  <2> QED
    BY <1>1, <1>3, <1>4, <1>6, <2>1, <2>2 DEF Spelled
<1>7. CASE n # 0
  <2>1. PICK flat : flat = CHOOSE f : IsFlat(f, held, n)
    OBVIOUS
  <2>2. IsFlat(flat, held, n)
    BY <1>2, <2>1, FlatExists
  <2>3. \A i \in 1 .. n : flat[i] = IF i = 1 THEN held[i] ELSE flat[i - 1] \o held[i]
    BY <2>2 DEF IsFlat
  <2>4. FlattenSeq(held) = flat[n]
    BY <1>4, <1>7, <2>1 DEF FlattenSeq, IsFlat
  <2> DEFINE Good(j) ==
               /\ flat[j] \in Seq(MBWords) /\ Len(flat[j]) = FirstWord(tags, j + 1) - 1
               /\ \A i \in 1 .. j : \A k \in 1 .. TagWords[tags[i]] :
                    /\ FirstWord(tags, i) + k - 1 \in 1 .. Len(flat[j])
                    /\ flat[j][FirstWord(tags, i) + k - 1] = Word(tags[i], k, h)
  <2>5. Good(1)
    <3>1. 1 \in 1 .. Len(tags) /\ << >> \in Seq(MBWords) /\ Len(<< >>) = FirstWord(tags, 1) - 1
      BY <1>1, <1>2, <1>5, <1>7
    <3>2. flat[1] = TagPayload(tags[1], h)
      BY <1>1, <1>4, <2>3, <3>1
    <3>3. << >> \o TagPayload(tags[1], h) = TagPayload(tags[1], h)
      <4>1. TagPayload(tags[1], h) \in Seq(MBWords)
        BY <1>2, <3>1, PayloadFacts
      <4> QED
        BY <4>1
    <3>4. PICK none, first : none = << >> /\ first = 1
      OBVIOUS
    <3>5. none \in Seq(MBWords) /\ first \in 1 .. Len(tags) /\ Len(none) = FirstWord(tags, first) - 1
      BY <3>1, <3>4
    <3>6. none \o TagPayload(tags[first], h) = flat[first]
      BY <3>2, <3>3, <3>4
    <3>7. /\ flat[first] \in Seq(MBWords) /\ Len(flat[first]) = FirstWord(tags, first + 1) - 1
          /\ \A k \in 1 .. TagWords[tags[first]] :
               /\ FirstWord(tags, first) + k - 1 \in 1 .. Len(flat[first])
               /\ flat[first][FirstWord(tags, first) + k - 1] = Word(tags[first], k, h)
      <4>1. tags \in Seq(MailboxTags) /\ h \in Holders
        BY <1>2
      <4>2. PICK more : more = flat[first]
        OBVIOUS
      <4>3. more = none \o TagPayload(tags[first], h)
        BY <3>6, <4>2
      <4>4. GoesOn(none, more, tags, first, h)
        BY <3>5, <4>1, <4>3, SpelledFurther
      <4> QED
        BY <4>2, <4>4 DEF GoesOn
    <3>8. \A i \in 1 .. 1 : i = first
      BY <3>4
    <3> QED
      BY <3>4, <3>7, <3>8
  <2>6. ASSUME NEW j \in 1 .. (n - 1), Good(j)
        PROVE  Good(j + 1)
    <3>1. j + 1 \in 1 .. n /\ j + 1 # 1 /\ (j + 1) - 1 = j /\ j + 1 \in 1 .. Len(tags)
      BY <1>1, <1>2
    <3>2. flat[j + 1] = flat[j] \o TagPayload(tags[j + 1], h)
      BY <1>4, <2>3, <3>1, ZenonT(60)
    <3>3. /\ flat[j + 1] \in Seq(MBWords) /\ Len(flat[j + 1]) = FirstWord(tags, (j + 1) + 1) - 1
          /\ \A at \in 1 .. Len(flat[j]) : flat[j + 1][at] = flat[j][at]
          /\ \A k \in 1 .. TagWords[tags[j + 1]] :
               /\ FirstWord(tags, j + 1) + k - 1 \in 1 .. Len(flat[j + 1])
               /\ flat[j + 1][FirstWord(tags, j + 1) + k - 1] = Word(tags[j + 1], k, h)
      <4>1. PICK w, i : w = flat[j] /\ i = j + 1
        OBVIOUS
      <4>2. w \in Seq(MBWords) /\ i \in 1 .. Len(tags) /\ Len(w) = FirstWord(tags, i) - 1
        BY <2>6, <3>1, <4>1
      <4>3. w \o TagPayload(tags[i], h) = flat[i]
        BY <3>2, <4>1
      <4>4. /\ flat[i] \in Seq(MBWords) /\ Len(flat[i]) = FirstWord(tags, i + 1) - 1
            /\ \A at \in 1 .. Len(w) : flat[i][at] = w[at]
            /\ \A k \in 1 .. TagWords[tags[i]] :
                 /\ FirstWord(tags, i) + k - 1 \in 1 .. Len(flat[i])
                 /\ flat[i][FirstWord(tags, i) + k - 1] = Word(tags[i], k, h)
        <5>1. tags \in Seq(MailboxTags) /\ h \in Holders
          BY <1>2
        <5>2. PICK more : more = flat[i]
          OBVIOUS
        <5>3. more = w \o TagPayload(tags[i], h)
          BY <4>3, <5>2
        <5>4. GoesOn(w, more, tags, i, h)
          BY <4>2, <5>1, <5>3, SpelledFurther
        <5> QED
          BY <5>2, <5>4 DEF GoesOn
      <4> QED
        BY <4>1, <4>4
    <3>4. Len(flat[j]) <= Len(flat[j + 1])
      <4>1. /\ FirstWord(tags, (j + 1) + 1) = FirstWord(tags, j + 1) + TagWords[tags[j + 1]]
            /\ FirstWord(tags, j + 1) \in Nat
        BY <1>1, <1>2, <3>1, FirstWordFacts
      <4>0. TagWords[tags[j + 1]] \in Nat
        <5>1. tags[j + 1] \in MailboxTags
          BY <1>2, <3>1
        <5> QED
          BY <5>1, MailboxAssumption
      <4>2. Len(flat[j]) = FirstWord(tags, j + 1) - 1
        BY <2>6
      <4>3. Len(flat[j + 1]) = FirstWord(tags, (j + 1) + 1) - 1
        BY <3>3
      <4> QED
        BY <4>0, <4>1, <4>2, <4>3
    <3>5. ASSUME NEW i \in 1 .. (j + 1), NEW k \in 1 .. TagWords[tags[i]]
          PROVE  /\ FirstWord(tags, i) + k - 1 \in 1 .. Len(flat[j + 1])
                 /\ flat[j + 1][FirstWord(tags, i) + k - 1] = Word(tags[i], k, h)
      <4>1. CASE i = j + 1
        BY <3>3, <4>1
      <4>2. CASE i # j + 1
        <5>1. i \in 1 .. j
          BY <4>2
        <5>2. PICK at : /\ at = FirstWord(tags, i) + k - 1 /\ at \in 1 .. Len(flat[j])
                        /\ flat[j][at] = Word(tags[i], k, h)
          BY <2>6, <5>1
        <5>3. at \in 1 .. Len(flat[j + 1])
          BY <2>6, <3>3, <3>4, <5>2
        <5> QED
          BY <3>3, <5>2, <5>3
      <4> QED
        BY <4>1, <4>2
    <3> QED
      BY <3>3, <3>5
  <2>7. Good(n)
    <3>1. PICK S : S = {j \in 0 .. (n - 1) : Good(j + 1)}
      OBVIOUS
    <3>2. 0 \in S
      BY <1>2, <1>7, <2>5, <3>1
    <3>3. ASSUME NEW j \in 0 .. ((n - 1) - 1), j \in S
          PROVE  j + 1 \in S
      <4>1. j + 1 \in 1 .. (n - 1) /\ Good(j + 1)
        BY <1>2, <3>1, <3>3
      <4>2. Good((j + 1) + 1)
        <5> HIDE DEF Good
        <5> QED
          BY <2>6, <4>1
      <4> QED
        BY <1>2, <3>1, <4>1, <4>2
    <3>4. 0 .. (n - 1) \subseteq S
      <4>1. n - 1 \in Nat
        BY <1>2, <1>7
      <4> QED
        BY <3>2, <3>3, <4>1, EveryNumberTo
    <3>5. n - 1 \in S /\ (n - 1) + 1 = n
      BY <1>2, <1>7, <3>4
    <3> HIDE DEF Good
    <3> QED
      BY <3>1, <3>5
  <2>8. PICK words : words = flat[n] \o last
    OBVIOUS
  <2>9. /\ words \in Seq(MBWords) /\ Len(words) = Len(flat[n]) + Len(last)
        /\ \A j \in 1 .. (Len(flat[n]) + Len(last)) :
             words[j] = IF j <= Len(flat[n]) THEN flat[n][j] ELSE last[j - Len(flat[n])]
    BY <1>3, <2>7, <2>8, Joined
  <2>10. ASSUME NEW i \in 1 .. n, NEW k \in 1 .. TagWords[tags[i]]
         PROVE  /\ FirstWord(tags, i) + k - 1 \in 1 .. Len(words)
                /\ words[FirstWord(tags, i) + k - 1] = Word(tags[i], k, h)
    <3>1. PICK at : /\ at = FirstWord(tags, i) + k - 1 /\ at \in 1 .. Len(flat[n])
                    /\ flat[n][at] = Word(tags[i], k, h)
      BY <2>7
    <3>2. at \in 1 .. (Len(flat[n]) + Len(last)) /\ at <= Len(flat[n])
      <4>1. Len(flat[n]) \in Nat /\ Len(last) \in Nat
        BY <1>3, <2>7
      <4> QED
        BY <3>1, <4>1
    <3> QED
      BY <2>9, <3>1, <3>2
  <2>11. Spelled(tags, words, h)
    BY <1>1, <2>9, <2>10 DEF Spelled
  <2> QED
    BY <1>1, <1>3, <1>4, <2>4, <2>8, <2>11
<1> QED
  BY <1>6, <1>7

-----------------------------------------------------------------------------
(* The invariant.  A GPU that answers in time leaves nothing underway when *)
(* a message is done with: the one reply on the property channel that is   *)
(* waiting, or that the GPU owes, is to the message in use.                *)

MBBuffers == [words : Seq(MBWords), code : {"request", "response", "parsing_error"}]
MBReplies == [channel : {"PROP", "OTHER"},
              address : MailboxAddresses \cup {CHOOSE a \in MailboxAddresses : TRUE}]

MBTypeOK ==
  /\ mb_memory \in [MailboxAddresses -> MBBuffers] /\ mb_message \in Messages
  /\ mb_pc \in {"idle", "writing", "reading"} /\ mb_polls \in 0 .. (MaxPolls - 1)
  /\ mb_replies \in Seq(MBReplies) /\ mb_sent \in Nat

NoReply == \A i \in 1 .. Len(mb_replies) : mb_replies[i].channel # "PROP"

Buffer == mb_memory[mb_message.address]

IsAsked ==
  /\ mb_message.address \in MailboxAddresses /\ mb_sent > 0
  /\ Spelled(mb_message.tags, Buffer.words, Asked(mb_sent - 1))

IsAnswered ==
  /\ mb_message.address \in MailboxAddresses /\ mb_sent > 0
  /\ Buffer.code = "response" => Spelled(mb_message.tags, Buffer.words, Answered(mb_sent - 1))

\* The only reply, if there is one, is to the message.
ReplyIsAnswer ==
  /\ \A i, j \in 1 .. Len(mb_replies) :
       mb_replies[i].channel = "PROP" /\ mb_replies[j].channel = "PROP" => i = j
  /\ \A i \in 1 .. Len(mb_replies) : mb_replies[i].channel = "PROP" =>
       ~GPUWorks /\ mb_replies[i].address = mb_message.address /\ IsAnswered

MBInv ==
  /\ MBTypeOK
  /\ mb_pc # "reading" => ~GPUWorks /\ NoReply
  /\ mb_pc = "writing" => IsAsked
  /\ mb_pc = "reading" => ReplyIsAnswer /\ mb_message.address \in MailboxAddresses /\ mb_sent > 0
  /\ mb_pc = "reading" /\ GPUWorks => NoReply /\ mb_to_gpu = <<mb_message.address>> /\ IsAsked
  /\ mb_pc # "idle" => mb_message.result = "none"
  /\ SuccessMeansAnswered

(* Nothing has been sent yet.                                              *)
LEMMA MBInitially == MBInit => MBInv
<1> SUFFICES ASSUME MBInit PROVE MBInv
  OBVIOUS
<1>1. << >> \in Seq(MBWords) /\ << >> \in Seq(MailboxTags) /\ << >> \in Seq(Seq(MBWords))
      /\ << >> \in Seq(MBReplies)
  OBVIOUS
<1>2. EmptyBuffer \in MBBuffers /\ NoMessage \in Messages /\ NoMessage.result = "none"
  BY <1>1 DEF EmptyBuffer, MBBuffers, NoMessage, Messages
<1>3. 0 \in 0 .. (MaxPolls - 1)
  BY MailboxAssumption
<1>4. MBTypeOK
  BY <1>1, <1>2, <1>3 DEF MBInit, MBTypeOK
<1>5. NoReply /\ ~GPUWorks
  BY DEF MBInit, NoReply, GPUWorks
<1> QED
  BY <1>2, <1>4, <1>5 DEF MBInit, MBInv, SuccessMeansAnswered

(* A message is written over what its buffer held.                         *)
LEMMA SendKeeps ==
  ASSUME MBInv, NEW address \in MailboxAddresses, NEW tags \in Seq(MailboxTags),
         SendMessage(address, tags)
  PROVE  MBInv'
<1>1. PICK m : m = MessageOf(address, tags)
  OBVIOUS
<1>2. /\ mb_pc = "idle" /\ mb_sent \in Nat /\ MBTypeOK /\ ~GPUWorks /\ NoReply
      /\ mb_sent' = mb_sent + 1 /\ mb_message' = m
      /\ mb_memory' = [mb_memory EXCEPT ![address] = Write(m)]
      /\ mb_pc' = "writing" /\ mb_polls' = 0 /\ UNCHANGED <<mb_to_gpu, mb_replies, mb_foreign>>
  BY <1>1 DEF MBInv, MBTypeOK, SendMessage
<1>3. /\ m \in Messages /\ m.address = address /\ m.result = "none"
      /\ m.held = [i \in DOMAIN m.tags |-> TagPayload(m.tags[i], Asked(mb_sent))]
  BY <1>1, <1>2, MessageFacts
<1>4. PICK buffer : /\ buffer = Write(m) /\ buffer.code = "request"
                    /\ Spelled(m.tags, buffer.words, Asked(mb_sent))
  BY <1>2, <1>3, WriteSpells
<1>5. buffer \in MBBuffers
  BY <1>4 DEF Write, Spelled, MBBuffers
<1>6. mb_memory' \in [MailboxAddresses -> MBBuffers] /\ mb_memory'[address] = buffer
  BY <1>2, <1>4, <1>5 DEF MBTypeOK
<1>7. MBTypeOK'
  <2>1. 0 \in 0 .. (MaxPolls - 1)
    BY MailboxAssumption
  <2> QED
    BY <1>2, <1>3, <1>6, <2>1 DEF MBTypeOK
<1>8. mb_sent' - 1 = mb_sent /\ mb_sent' > 0
  BY <1>2
<1>9. IsAsked'
  BY <1>2, <1>3, <1>4, <1>6, <1>8 DEF IsAsked, Buffer
<1>10. (~GPUWorks /\ NoReply)'
  BY <1>2 DEF GPUWorks, NoReply
<1> QED
  BY <1>2, <1>3, <1>7, <1>9, <1>10 DEF MBInv, SuccessMeansAnswered

(* The driver gives the message to the GPU, or gives up.                   *)
LEMMA WaitToWriteKeeps ==
  ASSUME MBInv, WaitToWrite
  PROVE  MBInv'
<1>1. /\ mb_pc = "writing" /\ MBTypeOK /\ ~GPUWorks /\ NoReply /\ IsAsked
      /\ mb_message.result = "none"
      /\ UNCHANGED <<mb_memory, mb_replies, mb_sent, mb_foreign>>
  BY DEF MBInv, WaitToWrite
<1>2. NoReply' /\ mb_polls \in 0 .. (MaxPolls - 1) /\ MaxPolls \in Nat /\ 0 \in 0 .. (MaxPolls - 1)
  BY <1>1, MailboxAssumption DEF NoReply, MBTypeOK
<1>3. CASE Failed /\ mb_polls' = 0 /\ UNCHANGED mb_to_gpu
  <2>1. /\ mb_message' = [mb_message EXCEPT !.result = "failure"] /\ mb_message' \in Messages
        /\ mb_message'.result = "failure" /\ mb_pc' = "idle"
    BY <1>1, <1>3 DEF Failed, MBTypeOK, Messages
  <2>2. MBTypeOK'
    BY <1>1, <1>2, <1>3, <2>1 DEF MBTypeOK
  <2>3. ~GPUWorks'
    BY <1>1, <1>3 DEF GPUWorks
  <2> QED
    BY <1>2, <2>1, <2>2, <2>3 DEF MBInv, SuccessMeansAnswered
<1>4. CASE /\ mb_polls + 1 < MaxPolls /\ mb_polls' = mb_polls + 1
           /\ UNCHANGED <<mb_pc, mb_message, mb_to_gpu>>
  <2>1. MBTypeOK'
    BY <1>1, <1>2, <1>4 DEF MBTypeOK
  <2>2. ~GPUWorks' /\ IsAsked'
    BY <1>1, <1>4 DEF GPUWorks, IsAsked, Buffer
  <2> QED
    BY <1>1, <1>2, <1>4, <2>1, <2>2 DEF MBInv, SuccessMeansAnswered
<1>5. CASE /\ mb_to_gpu' = <<mb_message.address>> /\ mb_pc' = "reading" /\ mb_polls' = 0
           /\ UNCHANGED mb_message
  <2>1. MBTypeOK'
    BY <1>1, <1>2, <1>5 DEF MBTypeOK
  <2>2. IsAsked' /\ mb_sent' > 0 /\ mb_message'.address \in MailboxAddresses
    BY <1>1, <1>5 DEF IsAsked, Buffer
  <2>3. ReplyIsAnswer'
    BY <1>2 DEF NoReply, ReplyIsAnswer
  <2> QED
    BY <1>1, <1>2, <1>5, <2>1, <2>2, <2>3 DEF MBInv, SuccessMeansAnswered
<1>6. mb_polls + 1 >= MaxPolls \/ mb_polls + 1 < MaxPolls
  BY <1>2
<1> QED
  BY <1>2, <1>3, <1>4, <1>5, <1>6 DEF WaitToWrite

(* The answers are read from where the questions were.                     *)
LEMMA ReturnedTags ==
  ASSUME NEW m \in Messages, NEW words, NEW h \in Holders, Spelled(m.tags, words, h)
  PROVE  /\ ReturnTags(m, words) \in Seq(Seq(MBWords))
         /\ \A i \in DOMAIN m.tags : ReturnTags(m, words)[i] = TagPayload(m.tags[i], h)
<1>1. PICK tags, n : tags = m.tags /\ n = Len(tags)
  OBVIOUS
<1>2. tags \in Seq(MailboxTags)
  BY <1>1 DEF Messages
<1>3. n \in Nat /\ DOMAIN tags = 1 .. n
  BY <1>1, <1>2
<1>4. words \in Seq(MBWords)
  BY DEF Spelled
<1>5. ASSUME NEW i \in 1 .. n
      PROVE  SubSeq(words, FirstWord(tags, i), FirstWord(tags, i) + TagWords[tags[i]] - 1)
               = TagPayload(tags[i], h)
  <2>1. PICK a, t : a = FirstWord(tags, i) /\ t = TagWords[tags[i]]
    OBVIOUS
  <2>2. PICK payload : payload = TagPayload(tags[i], h)
    OBVIOUS
  <2>3. /\ t \in Nat \ {0} /\ payload \in Seq(MBWords) /\ Len(payload) = t
        /\ \A k \in 1 .. t : payload[k] = Word(tags[i], k, h)
    <3>1. tags[i] \in MailboxTags
      BY <1>2, <1>3
    <3> QED
      BY <2>1, <2>2, <3>1, PayloadFacts
  <2>4. a \in Nat \ {0}
    <3>1. i \in 1 .. (Len(tags) + 1)
      BY <1>1, <1>3
    <3> QED
      BY <1>2, <2>1, <3>1, FirstWordFacts
  <2>5. \A k \in 1 .. t : a + k - 1 \in 1 .. Len(words) /\ words[a + k - 1] = Word(tags[i], k, h)
    BY <1>1, <2>1 DEF Spelled
  <2>6. t \in 1 .. t /\ a + t - 1 \in 1 .. Len(words)
    BY <2>3, <2>5
  <2>7. a \in 1 .. (Len(words) + 1) /\ a + t - 1 \in (a - 1) .. Len(words) /\ (a + t - 1) - a + 1 = t
    BY <1>4, <2>3, <2>4, <2>6
  <2>8. PICK n2 : n2 = a + t - 1
    OBVIOUS
  <2>9. PICK part : part = SubSeq(words, a, n2)
    OBVIOUS
  <2>10. part \in Seq(MBWords) /\ Len(part) = t /\ \A k \in 1 .. t : part[k] = words[a + k - 1]
    BY <1>4, <2>7, <2>8, <2>9, PartOf
  <2>11. part = payload
    BY <2>3, <2>5, <2>10, SameSequence
  <2> QED
    BY <2>1, <2>2, <2>8, <2>9, <2>11
<1>6. PICK answers : answers = [i \in 1 .. n |-> TagPayload(tags[i], h)]
  OBVIOUS
<1>7. ReturnTags(m, words) = answers
  BY <1>1, <1>3, <1>5, <1>6 DEF ReturnTags
<1>8. answers \in [1 .. n -> Seq(MBWords)]
  <2>1. \A i \in 1 .. n : tags[i] \in MailboxTags
    BY <1>2, <1>3
  <2>2. \A i \in 1 .. n : TagPayload(tags[i], h) \in Seq(MBWords)
    BY <2>1, PayloadFacts
  <2> QED
    BY <1>6, <2>2
<1>9. answers \in Seq(Seq(MBWords)) /\ \A i \in DOMAIN tags : answers[i] = TagPayload(tags[i], h)
  BY <1>3, <1>6, <1>8
<1> QED
  BY <1>1, <1>7, <1>9

(* The driver takes the next reply, or gives up.                           *)
LEMMA WaitForReplyKeeps ==
  ASSUME MBInv, WaitForReply, ~MayBeLate
  PROVE  MBInv'
<1>1. /\ mb_pc = "reading" /\ MBTypeOK /\ ReplyIsAnswer /\ mb_message.result = "none"
      /\ mb_message.address \in MailboxAddresses /\ mb_sent > 0
      /\ GPUWorks => NoReply /\ mb_to_gpu = <<mb_message.address>> /\ IsAsked
      /\ UNCHANGED <<mb_memory, mb_to_gpu, mb_sent, mb_foreign>>
  BY DEF MBInv, WaitForReply
<1>2. /\ mb_polls \in 0 .. (MaxPolls - 1) /\ MaxPolls \in Nat /\ 0 \in 0 .. (MaxPolls - 1)
      /\ mb_replies \in Seq(MBReplies) /\ mb_message \in Messages /\ mb_sent \in Nat
  BY <1>1, MailboxAssumption DEF MBTypeOK
<1>3. GPUWorks' = GPUWorks
  BY <1>1 DEF GPUWorks
<1>4. CASE mb_polls + 1 >= MaxPolls
  <2>1. Failed /\ mb_polls' = 0 /\ UNCHANGED mb_replies
    BY <1>4 DEF WaitForReply
  <2>2. ~GPUWorks /\ mb_replies = << >>
    BY <1>2, <1>4 DEF WaitForReply, MayPoll
  <2>3. /\ mb_message' = [mb_message EXCEPT !.result = "failure"] /\ mb_message' \in Messages
        /\ mb_message'.result = "failure" /\ mb_pc' = "idle"
    BY <1>2, <2>1 DEF Failed, Messages
  <2>4. MBTypeOK'
    BY <1>1, <1>2, <2>1, <2>3 DEF MBTypeOK
  <2>5. ~GPUWorks' /\ NoReply'
    BY <1>3, <2>1, <2>2 DEF NoReply
  <2> QED
    BY <2>3, <2>4, <2>5 DEF MBInv, SuccessMeansAnswered
<1>5. CASE ~(mb_polls + 1 >= MaxPolls) /\ mb_replies = << >>
  <2>1. mb_polls' = mb_polls + 1 /\ UNCHANGED <<mb_pc, mb_message, mb_replies>>
    BY <1>5 DEF WaitForReply
  <2>2. MBTypeOK'
    BY <1>1, <1>2, <1>5, <2>1 DEF MBTypeOK
  <2>3. ReplyIsAnswer' /\ NoReply'
    BY <1>5, <2>1 DEF ReplyIsAnswer, NoReply
  <2>4. GPUWorks' => IsAsked'
    BY <1>1, <1>3, <2>1 DEF IsAsked, Buffer
  <2> QED
    BY <1>1, <1>3, <2>1, <2>2, <2>3, <2>4 DEF MBInv, SuccessMeansAnswered
<1>6. CASE ~(mb_polls + 1 >= MaxPolls) /\ mb_replies # << >>
  <2>1. PICK reply : reply = Head(mb_replies)
    OBVIOUS
  <2>2. PICK answer : answer = mb_memory[reply.address]
    OBVIOUS
  <2>3. /\ mb_polls' = mb_polls + 1 /\ mb_replies' = Tail(mb_replies)
        /\ \/ reply.channel # "PROP" /\ UNCHANGED <<mb_pc, mb_message>>
           \/ reply.channel = "PROP" /\ Failed
           \/ /\ reply.channel = "PROP" /\ answer.code = "response" /\ mb_pc' = "idle"
              /\ mb_message' = [mb_message EXCEPT !.result = "success",
                                  !.held = ReturnTags(mb_message, answer.words)]
    BY <1>6, <2>1, <2>2 DEF WaitForReply, IsPropertyChannel
  <2>4. /\ mb_replies' \in Seq(MBReplies) /\ Len(mb_replies') = Len(mb_replies) - 1
        /\ \A j \in 1 .. (Len(mb_replies) - 1) : mb_replies'[j] = mb_replies[j + 1]
        /\ mb_replies[1] = reply /\ Len(mb_replies) \in Nat /\ 1 \in 1 .. Len(mb_replies)
    BY <1>2, <1>6, <2>1, <2>3, EndsRemoved
  <2>5. mb_polls' \in 0 .. (MaxPolls - 1)
    BY <1>2, <1>6, <2>3
  <2>6. CASE reply.channel # "PROP"
    <3>1. UNCHANGED <<mb_pc, mb_message>>
      BY <2>3, <2>6
    <3>2. MBTypeOK'
      BY <1>1, <2>4, <2>5, <3>1 DEF MBTypeOK
    <3>3. \A j \in 1 .. Len(mb_replies') : j + 1 \in 1 .. Len(mb_replies)
                                             /\ mb_replies'[j] = mb_replies[j + 1]
      BY <2>4
    <3>4. IsAnswered' = IsAnswered /\ IsAsked' = IsAsked
      BY <1>1, <3>1 DEF IsAnswered, IsAsked, Buffer
    <3>5. ReplyIsAnswer'
      <4>1. \A i, j \in 1 .. Len(mb_replies') : i + 1 = j + 1 => i = j
        OBVIOUS
      <4>2. \A i, j \in 1 .. Len(mb_replies') :
              mb_replies'[i].channel = "PROP" /\ mb_replies'[j].channel = "PROP" => i = j
        BY <1>1, <3>3, <4>1 DEF ReplyIsAnswer
      <4>3. \A i \in 1 .. Len(mb_replies') : mb_replies'[i].channel = "PROP" =>
              ~GPUWorks' /\ mb_replies'[i].address = mb_message'.address /\ IsAnswered'
        BY <1>1, <1>3, <3>1, <3>3, <3>4 DEF ReplyIsAnswer
      <4> QED
        BY <4>2, <4>3 DEF ReplyIsAnswer
    <3>6. GPUWorks => NoReply'
      BY <1>1, <3>3 DEF NoReply
    <3> QED
      BY <1>1, <1>3, <3>1, <3>2, <3>4, <3>5, <3>6 DEF MBInv, SuccessMeansAnswered
  <2>7. CASE reply.channel = "PROP"
    <3>1. ~GPUWorks /\ reply.address = mb_message.address /\ IsAnswered
      BY <1>1, <2>4, <2>7 DEF ReplyIsAnswer
    <3>2. NoReply'
      <4>1. ASSUME NEW j \in 1 .. Len(mb_replies') PROVE mb_replies'[j].channel # "PROP"
        <5>1. j + 1 \in 1 .. Len(mb_replies) /\ j + 1 # 1 /\ mb_replies'[j] = mb_replies[j + 1]
          BY <2>4
        <5> QED
          BY <1>1, <2>4, <2>7, <5>1 DEF ReplyIsAnswer
      <4> QED
        BY <4>1 DEF NoReply
    <3>3. CASE Failed
      <4>1. /\ mb_message' \in Messages /\ mb_message'.result = "failure" /\ mb_pc' = "idle"
        BY <1>2, <3>3 DEF Failed, Messages
      <4>2. MBTypeOK'
        BY <1>1, <2>4, <2>5, <4>1 DEF MBTypeOK
      <4> QED
        BY <1>3, <3>1, <3>2, <4>1, <4>2 DEF MBInv, SuccessMeansAnswered
    <3>4. CASE /\ answer.code = "response" /\ mb_pc' = "idle"
               /\ mb_message' = [mb_message EXCEPT !.result = "success",
                                   !.held = ReturnTags(mb_message, answer.words)]
      <4>1. PICK h : h = Answered(mb_sent - 1)
        OBVIOUS
      <4>2. h \in Holders /\ Spelled(mb_message.tags, answer.words, h)
        BY <1>1, <1>2, <2>2, <3>1, <3>4, <4>1 DEF IsAnswered, Buffer, Answered, Holders
      <4>3. PICK answers : answers = ReturnTags(mb_message, answer.words)
        OBVIOUS
      <4>4. /\ answers \in Seq(Seq(MBWords))
            /\ \A i \in DOMAIN mb_message.tags : answers[i] = TagPayload(mb_message.tags[i], h)
        BY <1>2, <4>2, <4>3, ReturnedTags
      <4>5. /\ mb_message' \in Messages /\ mb_message'.tags = mb_message.tags
            /\ mb_message'.held = answers /\ mb_pc' = "idle"
        BY <1>2, <3>4, <4>3, <4>4 DEF Messages
      <4>6. MBTypeOK'
        BY <1>1, <2>4, <2>5, <4>5 DEF MBTypeOK
      <4>7. SuccessMeansAnswered'
        BY <1>1, <4>1, <4>4, <4>5 DEF SuccessMeansAnswered
      <4> QED
        BY <1>3, <3>1, <3>2, <4>5, <4>6, <4>7 DEF MBInv
    <3> QED
      BY <2>3, <2>7, <3>3, <3>4
  <2> QED
    BY <2>6, <2>7
<1> QED
  BY <1>4, <1>5, <1>6

(* Words that are asked become words that are answered, in their places.   *)
LEMMA AnswersSpell ==
  ASSUME NEW tags, NEW words, NEW n \in Nat, Spelled(tags, words, Asked(n)),
         NEW answers, answers = AnswersTo(words)
  PROVE  Spelled(tags, answers, Answered(n))
<1>1. words \in Seq(MBWords) /\ Len(words) \in Nat /\ DOMAIN words = 1 .. Len(words)
  BY DEF Spelled
<1>2. \A i \in 1 .. Len(words) : answers[i] \in MBWords
  <2>1. \A i \in 1 .. Len(words) : words[i] \in MBWords
    BY <1>1
  <2>2. \A i \in 1 .. Len(words) : Answered(words[i].holds[2]) \in Holders
    BY <2>1 DEF MBWords, Holders, Answered
  <2> QED
    BY <1>1, <2>1, <2>2 DEF MBWords, AnswersTo
<1>3. answers \in Seq(MBWords) /\ Len(answers) = Len(words)
  <2>1. answers \in [1 .. Len(words) -> MBWords]
    BY <1>1, <1>2 DEF AnswersTo
  <2> QED
    BY <1>1, <2>1
<1>4. ASSUME NEW i \in 1 .. Len(tags), NEW k \in 1 .. TagWords[tags[i]]
      PROVE  /\ FirstWord(tags, i) + k - 1 \in 1 .. Len(answers)
             /\ answers[FirstWord(tags, i) + k - 1] = Word(tags[i], k, Answered(n))
  <2>1. PICK at : /\ at = FirstWord(tags, i) + k - 1 /\ at \in 1 .. Len(words)
                  /\ words[at] = Word(tags[i], k, Asked(n))
    BY DEF Spelled
  <2>2. answers[at] = Word(tags[i], k, Answered(n))
    BY <1>1, <2>1 DEF Word, Asked, AnswersTo
  <2> QED
    BY <1>3, <2>1, <2>2
<1> QED
  BY <1>3, <1>4 DEF Spelled

(* The GPU answers in place what it was asked, and replies once.           *)
LEMMA GPUAnswersKeeps ==
  ASSUME MBInv, GPUAnswers
  PROVE  MBInv'
<1>1. /\ GPUWorks /\ mb_pc = "reading" /\ MBTypeOK /\ NoReply /\ IsAsked
      /\ mb_to_gpu = <<mb_message.address>> /\ mb_to_gpu' = << >> /\ mb_message.result = "none"
      /\ UNCHANGED <<mb_message, mb_pc, mb_polls, mb_sent, mb_foreign>>
  BY DEF MBInv, GPUAnswers, MBTypeOK
<1>2. PICK a, buffer : a = mb_message.address /\ buffer = mb_memory[a]
  OBVIOUS
<1>3. a \in MailboxAddresses /\ buffer \in MBBuffers /\ mb_sent \in Nat /\ mb_sent > 0
      /\ mb_replies \in Seq(MBReplies) /\ Spelled(mb_message.tags, buffer.words, Asked(mb_sent - 1))
  BY <1>1, <1>2 DEF MBTypeOK, IsAsked, Buffer
<1>4. mb_replies' = Append(mb_replies, Reply("PROP", a))
  BY <1>1, <1>2 DEF GPUAnswers
<1>5. PICK answer : answer = mb_memory'[a]
  OBVIOUS
<1>6. /\ mb_memory' \in [MailboxAddresses -> MBBuffers]
      /\ answer.code = "response" => Spelled(mb_message.tags, answer.words, Answered(mb_sent - 1))
  <2>1. CASE mb_memory' = [mb_memory EXCEPT ![a] =
                              [words |-> AnswersTo(@.words), code |-> "response"]]
    <3>1. PICK answers : answers = AnswersTo(buffer.words)
      OBVIOUS
    <3>2. mb_memory' = [mb_memory EXCEPT ![a] = [words |-> answers, code |-> "response"]]
      BY <1>2, <2>1, <3>1
    <3>3. PICK n \in Nat : n = mb_sent - 1
      BY <1>3
    <3>4. Spelled(mb_message.tags, answers, Answered(n))
      BY <1>3, <3>1, <3>3, AnswersSpell
    <3>5. [words |-> answers, code |-> "response"] \in MBBuffers
      BY <3>4 DEF Spelled, MBBuffers
    <3> QED
      BY <1>1, <1>3, <1>5, <3>2, <3>3, <3>4, <3>5 DEF MBTypeOK
  <2>2. CASE mb_memory' = [mb_memory EXCEPT ![a].code = "parsing_error"]
    <3>1. [buffer EXCEPT !.code = "parsing_error"] \in MBBuffers
      BY <1>3 DEF MBBuffers
    <3>2. mb_memory' = [mb_memory EXCEPT ![a] = [buffer EXCEPT !.code = "parsing_error"]]
      BY <1>2, <2>2
    <3>3. answer.code = "parsing_error"
      BY <1>1, <1>3, <1>5, <3>2 DEF MBTypeOK, MBBuffers
    <3> QED
      BY <1>1, <1>3, <3>1, <3>2, <3>3 DEF MBTypeOK
  <2> QED
    BY <1>1, <1>2, <2>1, <2>2 DEF GPUAnswers
<1>7. Reply("PROP", a) \in MBReplies /\ Reply("PROP", a).address = a
  BY <1>3 DEF Reply, MBReplies
<1>8. /\ mb_replies' \in Seq(MBReplies) /\ Len(mb_replies') = Len(mb_replies) + 1
      /\ Len(mb_replies) \in Nat /\ mb_replies'[Len(mb_replies) + 1] = Reply("PROP", a)
      /\ \A i \in 1 .. Len(mb_replies) : mb_replies'[i] = mb_replies[i]
  BY <1>3, <1>4, <1>7
<1>9. \A i \in 1 .. Len(mb_replies') : mb_replies'[i].channel = "PROP" =>
        i = Len(mb_replies) + 1 /\ mb_replies'[i].address = a
  BY <1>1, <1>7, <1>8 DEF NoReply
<1>10. ~GPUWorks'
  BY <1>1 DEF GPUWorks
<1>11. IsAnswered'
  BY <1>1, <1>2, <1>3, <1>5, <1>6 DEF IsAnswered, Buffer
<1>12. ReplyIsAnswer'
  BY <1>1, <1>2, <1>9, <1>10, <1>11 DEF ReplyIsAnswer
<1>13. MBTypeOK'
  BY <1>1, <1>6, <1>8 DEF MBTypeOK
<1> QED
  BY <1>1, <1>2, <1>3, <1>10, <1>12, <1>13 DEF MBInv, SuccessMeansAnswered

(* The GPU loses a message.                                                *)
LEMMA GPULosesKeeps ==
  ASSUME MBInv, GPULoses
  PROVE  MBInv'
<1>1. /\ GPUWorks /\ mb_pc = "reading" /\ MBTypeOK /\ NoReply /\ IsAsked
      /\ mb_message.result = "none" /\ mb_to_gpu' \in {<< >>, <<LeftThere>>}
      /\ UNCHANGED <<mb_memory, mb_message, mb_pc, mb_polls, mb_replies, mb_sent, mb_foreign>>
  BY DEF MBInv, GPULoses, MBTypeOK
<1>2. ~GPUWorks' /\ NoReply' /\ ReplyIsAnswer' /\ MBTypeOK'
  BY <1>1 DEF GPUWorks, NoReply, ReplyIsAnswer, MBTypeOK
<1> QED
  BY <1>1, <1>2 DEF MBInv, SuccessMeansAnswered, IsAsked

(* A message of another channel is no reply.                               *)
LEMMA OtherChannelKeeps ==
  ASSUME MBInv, OtherChannel
  PROVE  MBInv'
<1>1. PICK reply : reply = Reply("OTHER", CHOOSE a \in MailboxAddresses : TRUE)
  OBVIOUS
<1>2. /\ MBTypeOK /\ mb_replies \in Seq(MBReplies) /\ mb_replies' = Append(mb_replies, reply)
      /\ UNCHANGED <<mb_memory, mb_message, mb_pc, mb_polls, mb_to_gpu, mb_sent>>
  BY <1>1 DEF MBInv, MBTypeOK, OtherChannel
<1>3. reply \in MBReplies /\ reply.channel = "OTHER"
  BY <1>1 DEF Reply, MBReplies
<1>4. /\ mb_replies' \in Seq(MBReplies) /\ Len(mb_replies') = Len(mb_replies) + 1
      /\ Len(mb_replies) \in Nat /\ mb_replies'[Len(mb_replies) + 1] = reply
      /\ \A i \in 1 .. Len(mb_replies) : mb_replies'[i] = mb_replies[i]
  BY <1>2, <1>3
<1>5. \A i \in 1 .. Len(mb_replies') : mb_replies'[i].channel = "PROP" =>
        i \in 1 .. Len(mb_replies) /\ mb_replies[i] = mb_replies'[i]
  BY <1>3, <1>4
<1>6. MBTypeOK' /\ GPUWorks' = GPUWorks /\ IsAsked' = IsAsked /\ IsAnswered' = IsAnswered
  BY <1>2, <1>4 DEF MBTypeOK, GPUWorks, IsAsked, IsAnswered, Buffer
<1>7. NoReply => NoReply'
  BY <1>5 DEF NoReply
<1>8. ReplyIsAnswer => ReplyIsAnswer'
  <2> SUFFICES ASSUME ReplyIsAnswer PROVE ReplyIsAnswer'
    OBVIOUS
  <2>1. \A i, j \in 1 .. Len(mb_replies') :
          mb_replies'[i].channel = "PROP" /\ mb_replies'[j].channel = "PROP" => i = j
    BY <1>5 DEF ReplyIsAnswer
  <2>2. \A i \in 1 .. Len(mb_replies') : mb_replies'[i].channel = "PROP" =>
          ~GPUWorks' /\ mb_replies'[i].address = mb_message'.address /\ IsAnswered'
    BY <1>2, <1>5, <1>6 DEF ReplyIsAnswer
  <2> QED
    BY <2>1, <2>2 DEF ReplyIsAnswer
<1> QED
  BY <1>2, <1>6, <1>7, <1>8 DEF MBInv, SuccessMeansAnswered

(* Every step of the driver and of a GPU that answers in time.             *)
LEMMA MBStep ==
  ASSUME MBInv, [MBNext]_mbVars, ~MayBeLate
  PROVE  MBInv'
<1>1. CASE UNCHANGED mbVars
  BY <1>1 DEF mbVars, MBInv, MBTypeOK, GPUWorks, NoReply, IsAsked, IsAnswered, ReplyIsAnswer, Buffer,
              SuccessMeansAnswered
<1>2. ASSUME NEW a \in MailboxAddresses, NEW tags \in SeqOf(MailboxTags, Cardinality(MailboxTags)),
             SendMessage(a, tags)
      PROVE  MBInv'
  <2>1. tags \in Seq(MailboxTags)
    BY DEF SeqOf
  <2> QED
    BY <1>2, <2>1, SendKeeps
<1> QED
  BY <1>1, <1>2, WaitToWriteKeeps, WaitForReplyKeeps, GPUAnswersKeeps, GPULosesKeeps,
     OtherChannelKeeps DEF MBNext

(* With a GPU that answers in time or not at all, sendMessage succeeds only*)
(* with the GPU's answer to this message in each of its tags, for tags of  *)
(* any number and length, whatever is left out of the buffer for want of   *)
(* room, and whatever else has come through the mailbox.                   *)
THEOREM AnswersAreOurs == ~MayBeLate => (MBSpec => []SuccessMeansAnswered)
<1> SUFFICES ASSUME ~MayBeLate PROVE MBSpec => []SuccessMeansAnswered
  OBVIOUS
<1>1. MBInv /\ [MBNext]_mbVars => MBInv'
  BY MBStep
<1>2. MBInv => SuccessMeansAnswered
  BY DEF MBInv
<1> QED
  BY <1>1, <1>2, MBInitially, PTL DEF MBSpec

-----------------------------------------------------------------------------
(* Mounting.                                                               *)

BootSteps == {"initialize", "master boot record", "partitions", "filesystems",
              "find boot filesystem", "command line", "halted"}
Partitions == [entry : TableEntries, name : VolumeLabels, boot : BOOLEAN]

Filesystem(i) == OSEntity(partition_table[i].label, partition_table[i].label, i, i = 0)
CommandLineEntity == OSEntity(CLIName, CLIAlias, NoFilesystem, FALSE)

MountTypeOK ==
  /\ partition_table \in
       [TableEntries -> [fat32 : BOOLEAN, label : VolumeLabels \cup {NoVolumeLabel}]]
  /\ boot_step \in BootSteps
  /\ partition_entry \in 0 .. PartitionEntries

\* Partitions that were found among the first n entries: volumes, in the order of the table.
FoundAmong(s, n) ==
  /\ s \in Seq(Partitions)
  /\ \A k \in 1 .. Len(s) :
       HasVolume(s[k].entry) /\ s[k] = Partition(s[k].entry) /\ s[k].entry < n
  /\ \A j, k \in 1 .. Len(s) : j < k => s[j].entry < s[k].entry

IsIn(s, i) == \E k \in 1 .. Len(s) : s[k].entry = i

FoundAreVolumes ==
  /\ FoundAmong(found_partitions, partition_entry)
  /\ boot_step \in {"initialize", "master boot record"} => partition_entry = 0
  /\ boot_step \notin {"partitions", "filesystems"} => found_partitions = << >>
  /\ boot_step = "filesystems" => partition_entry = PartitionEntries

IsFound(i) == IsIn(found_partitions, i)

\* What is registered is the console, a filesystem, or the command line at last; and the
\* filesystems are those of entries before the ones that are still to be mounted.
EntitiesAreKnown ==
  /\ Console \in entities
  /\ \A entity \in entities :
       \/ entity = Console
       \/ boot_step = "command line" /\ entity = CommandLineEntity
       \/ \E i \in TableEntries : HasVolume(i) /\ entity = Filesystem(i)
  /\ \A i, j \in TableEntries : IsRegistered(i) /\ IsFound(j) => i < j
  /\ boot_step \in {"initialize", "master boot record", "partitions"} => entities = {Console}

NamesLeadToOne ==
  \A one, other \in entities :
    one.name = other.name \/ one.alias = other.alias => one = other

\* No volume is forgotten on its way from the table to the registry.
NoneIsForgotten ==
  ~device_failed /\ boot_signature =>
    \A i \in TableEntries :
      HasVolume(i) =>
        /\ boot_step = "partitions" /\ i < partition_entry => IsFound(i)
        /\ boot_step = "filesystems" => IsFound(i) \/ IsRegistered(i) \/ LabelIsTaken(i)
        /\ MountingIsOver => IsRegistered(i) \/ LabelIsTaken(i)

\* Before the registry is searched for it, there is no filesystem to boot from, or the
\* command line has been refused.
HaltedForAReason ==
  boot_step = "halted" =>
    \/ 0 \notin TableEntries \/ ~IsRegistered(0)
    \/ \E i \in TableEntries : HasVolume(i) /\ partition_table[i].label \in {CLIName, CLIAlias}

BootedFromTheFirst ==
  boot_step = "command line" =>
    /\ cli_filesystem = 0 /\ 0 \in TableEntries /\ HasVolume(0)
    /\ \E entity \in entities : entity.filesystem = 0 /\ entity.boot

MountInv ==
  /\ MountTypeOK /\ FoundAreVolumes /\ EntitiesAreKnown /\ NamesLeadToOne
  /\ NoneIsForgotten /\ HaltedForAReason /\ BootedFromTheFirst

\* The entities, field by field.
LEMMA EntityFields ==
  ASSUME NEW i \in TableEntries
  PROVE  /\ Filesystem(i).filesystem = i /\ i # NoFilesystem
         /\ Filesystem(i).name = partition_table[i].label
         /\ Filesystem(i).alias = partition_table[i].label
         /\ Filesystem(i).boot = (i = 0)
         /\ Console.filesystem = NoFilesystem /\ Console.boot = FALSE
         /\ Console.name = ConsoleName /\ Console.alias = ConsoleAlias
         /\ CommandLineEntity.filesystem = NoFilesystem /\ CommandLineEntity.boot = FALSE
         /\ CommandLineEntity.name = CLIName /\ CommandLineEntity.alias = CLIAlias
<1>1. i # NoFilesystem
  BY MountingAssumption DEF TableEntries
<1> QED
  BY <1>1 DEF Filesystem, OSEntity, Console, CommandLineEntity

\* An entity that is a filesystem is that of its entry.
LEMMA RegisteredIsFilesystem ==
  ASSUME MountInv, NEW entity \in entities, entity.filesystem # NoFilesystem
  PROVE  \E i \in TableEntries :
           HasVolume(i) /\ entity = Filesystem(i) /\ entity.filesystem = i
<1>1. Console.filesystem = NoFilesystem /\ CommandLineEntity.filesystem = NoFilesystem
  BY DEF Console, CommandLineEntity, OSEntity
<1>2. PICK i \in TableEntries : HasVolume(i) /\ entity = Filesystem(i)
  BY <1>1 DEF MountInv, EntitiesAreKnown
<1>3. Filesystem(i).filesystem = i
  BY DEF Filesystem, OSEntity
<1> QED
  BY <1>2, <1>3

\* What reads the table and the registry only.
LEMMA SameTable ==
  ASSUME UNCHANGED partition_table
  PROVE  /\ \A i : HasVolume(i)' = HasVolume(i) /\ LabelIsTaken(i)' = LabelIsTaken(i)
         /\ \A i : Partition(i)' = Partition(i) /\ Filesystem(i)' = Filesystem(i)
BY DEF HasVolume, LabelIsTaken, Partition, Filesystem

\* The entries of the table are numbers, and partitions lead to them.
LEMMA EntriesAreNumbers ==
  /\ PartitionEntries \in Nat /\ TableEntries \subseteq Nat
  /\ \A i \in TableEntries : i < PartitionEntries /\ ~(i < 0)
  /\ \A i \in Nat : i < PartitionEntries => i \in TableEntries
  /\ \A p \in Partitions : p.entry \in TableEntries
BY MountingAssumption DEF TableEntries, Partitions

\* Where nothing is found.
LEMMA NothingFound ==
  /\ << >> \in Seq(Partitions) /\ \A n : FoundAmong(<< >>, n)
  /\ \A i : ~IsIn(<< >>, i)
<1>1. << >> \in Seq(Partitions) /\ 1 .. Len(<< >>) = {}
  OBVIOUS
<1> QED
  BY <1>1, Zenon DEF FoundAmong, IsIn

\* What was found goes on being on the card.
LEMMA StillFound ==
  ASSUME UNCHANGED partition_table, NEW s, NEW n, FoundAmong(s, n)
  PROVE  FoundAmong(s, n)'
<1>1. /\ \A i : HasVolume(i)' = HasVolume(i)
      /\ \A i : Partition(i)' = Partition(i)
  BY SameTable
<1>2. Partitions' = Partitions
  BY DEF Partitions, TableEntries
<1> QED
  BY <1>1, <1>2, Zenon DEF FoundAmong

\* Before the card is asked for anything.
LEMMA MountingBegins ==
  ASSUME MountingInit
  PROVE  MountInv
<1>1. << >> \in Seq(Partitions) /\ Len(<< >>) = 0 /\ PartitionEntries \in Nat
  BY MountingAssumption
<1>2. MountTypeOK
  <2>1. 0 \in 0 .. PartitionEntries
    BY <1>1
  <2> QED
    BY <2>1 DEF MountingInit, MountTypeOK, BootSteps
<1>3. FoundAreVolumes
  BY NothingFound DEF MountingInit, FoundAreVolumes
<1>4. EntitiesAreKnown /\ NamesLeadToOne
  <2>1. \A i : ~IsFound(i)
    BY NothingFound DEF MountingInit, IsFound
  <2> QED
    BY <2>1 DEF MountingInit, EntitiesAreKnown, NamesLeadToOne
<1>5. NoneIsForgotten /\ HaltedForAReason /\ BootedFromTheFirst
  BY DEF MountingInit, NoneIsForgotten, MountingIsOver, HaltedForAReason, BootedFromTheFirst
<1> QED
  BY <1>2, <1>3, <1>4, <1>5 DEF MountInv

\* A step that finds and registers nothing, and gives up only what it may.
LEMMA OnlyGoesOn ==
  ASSUME MountInv, NEW step \in BootSteps, GoTo(step), boot_step # "command line",
         UNCHANGED <<partition_table, boot_signature, partition_entry, found_partitions, entities,
                     cli_filesystem>>,
         step \notin {"partitions", "filesystems"} => found_partitions = << >>,
         step = "filesystems" => partition_entry = PartitionEntries,
         step \in {"initialize", "master boot record"} => partition_entry = 0,
         step \in {"initialize", "master boot record", "partitions"} => entities = {Console},
         NoneIsForgotten', HaltedForAReason', step # "command line"
  PROVE  MountInv'
<1>1. /\ \A i : HasVolume(i)' = HasVolume(i)
      /\ \A i : Partition(i)' = Partition(i) /\ Filesystem(i)' = Filesystem(i)
  BY SameTable
<1>2. MountTypeOK'
  BY DEF MountInv, MountTypeOK, GoTo
<1>3. FoundAreVolumes'
  <2>1. FoundAmong(found_partitions, partition_entry)'
    <3>1. PICK s, n : s = found_partitions /\ n = partition_entry
      OBVIOUS
    <3>2. FoundAmong(s, n)'
      BY <3>1, StillFound DEF MountInv, FoundAreVolumes
    <3>3. s = found_partitions' /\ n = partition_entry'
      BY <3>1
    <3> QED
      BY <3>2, <3>3
  <2> QED
    BY <2>1 DEF FoundAreVolumes, GoTo
<1>4. EntitiesAreKnown'
  <2>1. /\ \A i : IsFound(i)' = IsFound(i) /\ IsRegistered(i)' = IsRegistered(i)
        /\ entities' = entities /\ TableEntries' = TableEntries /\ boot_step' = step
    BY DEF IsFound, IsIn, IsRegistered, GoTo
  <2>2. step \in {"initialize", "master boot record", "partitions"} => entities = {Console}
    OBVIOUS
  <2> QED
    BY <1>1, <2>1, <2>2 DEF MountInv, EntitiesAreKnown
<1>5. NamesLeadToOne' /\ BootedFromTheFirst'
  BY DEF MountInv, NamesLeadToOne, BootedFromTheFirst, GoTo
<1> QED
  BY <1>2, <1>3, <1>4, <1>5 DEF MountInv

\* SDCardController::Initialize and the master boot record.
LEMMA CardIsRead ==
  ASSUME MountInv, InitializeCard \/ ReadMasterBootRecord
  PROVE  MountInv'
<1>1. PICK step \in {"find boot filesystem", "master boot record", "partitions"} :
        /\ GoTo(step)
        /\ step = "find boot filesystem" => device_failed' = TRUE \/ ~boot_signature
        /\ step = "partitions" => device_failed' = device_failed
  BY DEF InitializeCard, ReadMasterBootRecord, DeviceFails, DeviceAnswers
<1>2. /\ boot_step \notin {"command line", "partitions", "filesystems"}
      /\ UNCHANGED <<partition_table, boot_signature, partition_entry, found_partitions, entities,
                     cli_filesystem>>
  BY DEF InitializeCard, ReadMasterBootRecord
<1>3. found_partitions = << >>
  BY <1>2 DEF MountInv, FoundAreVolumes
<1>4. boot_step = "master boot record" \/ step # "partitions"
  BY <1>1 DEF InitializeCard, ReadMasterBootRecord, GoTo
<1>5. partition_entry = 0 /\ entities = {Console}
  <2>1. boot_step \in {"initialize", "master boot record"}
    BY DEF InitializeCard, ReadMasterBootRecord
  <2> QED
    BY <2>1 DEF MountInv, FoundAreVolumes, EntitiesAreKnown
<1>6. NoneIsForgotten'
  <2>1. boot_step' = step /\ boot_signature' = boot_signature
    BY <1>1, <1>2 DEF GoTo
  <2>2. CASE step = "find boot filesystem"
    BY <1>1, <2>1, <2>2 DEF NoneIsForgotten
  <2>3. CASE step = "master boot record"
    BY <2>1, <2>3 DEF NoneIsForgotten, MountingIsOver
  <2>4. CASE step = "partitions"
    <3>1. \A i \in TableEntries : ~(i < 0)
      BY EntriesAreNumbers, Zenon
    <3> QED
      BY <1>2, <1>5, <2>1, <2>4, <3>1 DEF NoneIsForgotten, MountingIsOver
  <2> QED
    BY <2>2, <2>3, <2>4
<1>7. HaltedForAReason'
  BY <1>1 DEF HaltedForAReason, GoTo
<1> QED
  BY <1>1, <1>2, <1>3, <1>5, <1>6, <1>7, OnlyGoesOn DEF BootSteps

\* The list of partitions with one more, with one entry looked at in vain, with one less.
LEMMA OneMoreFound ==
  ASSUME MountInv, NEW s, NEW n \in TableEntries, FoundAmong(s, n), HasVolume(n)
  PROVE  \E t : /\ t = Append(s, Partition(n)) /\ FoundAmong(t, n + 1) /\ IsIn(t, n)
                /\ \A i : IsIn(s, i) => IsIn(t, i)
<1>1. s \in Seq(Partitions) /\ Len(s) \in Nat /\ n \in Nat
  <2>1. s \in Seq(Partitions)
    BY Zenon DEF FoundAmong
  <2>2. n \in Nat
    BY EntriesAreNumbers, Zenon
  <2> QED
    BY <2>1, <2>2
<1>2. \A k \in 1 .. Len(s) : s[k].entry \in TableEntries /\ s[k].entry \in Nat
  <2>1. \A k \in 1 .. Len(s) : s[k] \in Partitions
    BY <1>1
  <2> QED
    BY <2>1, EntriesAreNumbers, Zenon
<1>3. PICK p : p = Partition(n)
  OBVIOUS
<1>4. p.entry = n /\ p \in Partitions
  <2>1. partition_table[n].label \in VolumeLabels
    BY DEF MountInv, MountTypeOK, HasVolume
  <2> QED
    BY <1>3, <2>1 DEF Partition, Partitions
<1>5. PICK t : t = Append(s, p)
  OBVIOUS
<1>6. /\ t \in Seq(Partitions) /\ Len(t) = Len(s) + 1
      /\ \A k \in 1 .. Len(s) : t[k] = s[k]
      /\ t[Len(s) + 1] = p
  BY <1>1, <1>4, <1>5, Appended
<1>7. \A k \in 1 .. Len(t) : k \in 1 .. Len(s) \/ k = Len(s) + 1
  BY <1>1, <1>6
<1>8. ASSUME NEW k \in 1 .. Len(t)
      PROVE  HasVolume(t[k].entry) /\ t[k] = Partition(t[k].entry) /\ t[k].entry < n + 1
  <2>1. CASE k \in 1 .. Len(s)
    <3>1. HasVolume(s[k].entry) /\ s[k] = Partition(s[k].entry) /\ s[k].entry < n
      BY <2>1 DEF FoundAmong
    <3> QED
      BY <1>1, <1>2, <1>6, <2>1, <3>1
  <2>2. CASE k = Len(s) + 1
    BY <1>1, <1>3, <1>4, <1>6, <2>2
  <2> QED
    BY <1>7, <2>1, <2>2
<1>9. ASSUME NEW j \in 1 .. Len(t), NEW k \in 1 .. Len(t), j < k
      PROVE  t[j].entry < t[k].entry
  <2>1. j \in 1 .. Len(s) /\ t[j] = s[j]
    BY <1>1, <1>6, <1>9
  <2>2. CASE k \in 1 .. Len(s)
    BY <1>6, <1>9, <2>1, <2>2 DEF FoundAmong
  <2>3. CASE k = Len(s) + 1
    BY <1>4, <1>6, <2>1, <2>3 DEF FoundAmong
  <2> QED
    BY <1>7, <2>2, <2>3
<1>10. IsIn(t, n)
  <2>1. Len(s) + 1 \in 1 .. Len(t)
    BY <1>1, <1>6
  <2> QED
    BY <1>4, <1>6, <2>1 DEF IsIn
<1>11. ASSUME NEW i, IsIn(s, i) PROVE IsIn(t, i)
  <2>1. PICK k \in 1 .. Len(s) : s[k].entry = i
    BY <1>11 DEF IsIn
  <2>2. k \in 1 .. Len(t) /\ t[k] = s[k]
    BY <1>1, <1>6
  <2> QED
    BY <2>1, <2>2 DEF IsIn
<1>12. FoundAmong(t, n + 1)
  BY <1>6, <1>8, <1>9 DEF FoundAmong
<1> QED
  BY <1>3, <1>5, <1>10, <1>11, <1>12

\* What is found among the entries below n is found among those below n + 1.
LEMMA NoMoreFound ==
  ASSUME NEW s, NEW n \in Nat, FoundAmong(s, n)
  PROVE  FoundAmong(s, n + 1)
<1>1. s \in Seq(Partitions)
  BY Zenon DEF FoundAmong
<1>2. \A k \in 1 .. Len(s) : s[k].entry \in Nat
  <2>1. \A k \in 1 .. Len(s) : s[k] \in Partitions
    BY <1>1
  <2> QED
    BY <2>1, EntriesAreNumbers, Zenon
<1>3. \A k \in 1 .. Len(s) : s[k].entry < n => s[k].entry < n + 1
  BY <1>2
<1> QED
  BY <1>3 DEF FoundAmong

\* Without the first of what is found the rest is found in order, all of it behind that one.
LEMMA OneLessFound ==
  ASSUME NEW s, NEW n, FoundAmong(s, n), s # << >>
  PROVE  \E t : /\ t = Tail(s) /\ FoundAmong(t, n)
                /\ \A i : IsIn(s, i) <=> i = Head(s).entry \/ IsIn(t, i)
                /\ \A i : IsIn(t, i) => Head(s).entry < i
                /\ Head(s).entry \in TableEntries /\ HasVolume(Head(s).entry)
                /\ Head(s) = Partition(Head(s).entry)
<1>1. s \in Seq(Partitions) /\ Len(s) \in Nat /\ Len(s) > 0
  BY DEF FoundAmong
<1>2. PICK h : h = Head(s)
  OBVIOUS
<1>3. 1 \in 1 .. Len(s) /\ h = s[1] /\ h \in Partitions
  BY <1>1, <1>2
<1>4. h.entry \in TableEntries /\ HasVolume(h.entry) /\ h = Partition(h.entry)
  BY <1>3 DEF FoundAmong, Partitions
<1>5. PICK t : t = Tail(s)
  OBVIOUS
<1>6. /\ t \in Seq(Partitions) /\ Len(t) = Len(s) - 1
      /\ \A k \in 1 .. (Len(s) - 1) : t[k] = s[k + 1]
  BY <1>1, <1>5, EndsRemoved
<1>7. \A k \in 1 .. Len(t) : t[k] = s[k + 1] /\ k + 1 \in 1 .. Len(s)
  BY <1>1, <1>6
<1>8. \A k \in 1 .. Len(t) :
        HasVolume(t[k].entry) /\ t[k] = Partition(t[k].entry) /\ t[k].entry < n
  BY <1>7 DEF FoundAmong
<1>9. ASSUME NEW j \in 1 .. Len(t), NEW k \in 1 .. Len(t), j < k
      PROVE  t[j].entry < t[k].entry
  <2>1. j + 1 < k + 1
    BY <1>6, <1>9
  <2> QED
    BY <1>7, <2>1 DEF FoundAmong
<1>10. FoundAmong(t, n)
  BY <1>6, <1>8, <1>9 DEF FoundAmong
<1>11. ASSUME NEW i, IsIn(t, i) PROVE IsIn(s, i) /\ h.entry < i
  <2>1. PICK k \in 1 .. Len(t) : t[k].entry = i
    BY <1>11 DEF IsIn
  <2>2. s[k + 1].entry = i /\ k + 1 \in 1 .. Len(s) /\ 1 < k + 1
    BY <1>6, <1>7, <2>1
  <2> QED
    BY <1>3, <2>2 DEF IsIn, FoundAmong
<1>12. ASSUME NEW i, IsIn(s, i) PROVE i = h.entry \/ IsIn(t, i)
  <2>1. PICK k \in 1 .. Len(s) : s[k].entry = i
    BY <1>12 DEF IsIn
  <2>2. CASE k = 1
    BY <1>3, <2>1, <2>2
  <2>3. CASE k # 1
    <3>1. k - 1 \in 1 .. Len(t) /\ t[k - 1] = s[k]
      BY <1>1, <1>6, <2>3
    <3> QED
      BY <2>1, <3>1 DEF IsIn
  <2> QED
    BY <2>2, <2>3
<1>13. IsIn(s, h.entry)
  BY <1>3 DEF IsIn
<1> QED
  BY <1>2, <1>4, <1>5, <1>10, <1>11, <1>12, <1>13

\* One entry of the table: its volume is found, or has no label, or nothing is kept.
LEMMA EntryIsRead ==
  ASSUME MountInv, GetPartition
  PROVE  MountInv'
<1>1. /\ UNCHANGED <<partition_table, boot_signature, entities, cli_filesystem>>
      /\ boot_step = "partitions" /\ partition_entry \in TableEntries
      /\ partition_entry \in Nat /\ PartitionEntries \in Nat /\ entities = {Console}
  <2>1. /\ UNCHANGED <<partition_table, boot_signature, entities, cli_filesystem>>
        /\ boot_step = "partitions" /\ ~TableIsRead
    BY DEF GetPartition
  <2>2. entities = {Console} /\ partition_entry \in 0 .. PartitionEntries
    BY <2>1 DEF MountInv, MountTypeOK, EntitiesAreKnown
  <2>3. PartitionEntries \in Nat
    BY MountingAssumption
  <2>4. partition_entry \in Nat /\ partition_entry \in TableEntries
    BY <2>1, <2>2, <2>3 DEF TableIsRead, TableEntries
  <2> QED
    BY <2>1, <2>2, <2>3, <2>4
<1>2. /\ \A i : HasVolume(i)' = HasVolume(i)
      /\ \A i : Partition(i)' = Partition(i) /\ Filesystem(i)' = Filesystem(i)
  <2>1. UNCHANGED partition_table
    BY <1>1
  <2> QED
    BY <2>1, SameTable
<1>3. \A i \in TableEntries : ~IsRegistered(i)'
  <2>1. \A i \in TableEntries : Console.filesystem # i
    BY MountingAssumption DEF Console, OSEntity, TableEntries
  <2> QED
    BY <1>1, <2>1 DEF IsRegistered
<1>4. EntitiesAreKnown' /\ NamesLeadToOne'
  <2>1. entities' = {Console} /\ Console' = Console
    BY <1>1 DEF Console, OSEntity
  <2> QED
    BY <1>3, <2>1 DEF EntitiesAreKnown, NamesLeadToOne
<1>5. CASE /\ DeviceFails /\ GoTo("find boot filesystem")
           /\ found_partitions' = << >>
           /\ UNCHANGED partition_entry
  <2>1. << >> \in Seq(Partitions) /\ Len(<< >>) = 0
    OBVIOUS
  <2>2. MountTypeOK'
    BY <1>1, <1>5 DEF MountInv, MountTypeOK, GoTo, BootSteps
  <2>3. FoundAreVolumes'
    <3>1. PICK n : n = partition_entry
      OBVIOUS
    <3>2. FoundAmong(<< >>, n)'
      <4>1. FoundAmong(<< >>, n)
        BY NothingFound, Zenon
      <4>2. UNCHANGED partition_table
        BY <1>1
      <4> QED
        BY <4>1, <4>2, StillFound, Zenon
    <3>3. n = partition_entry'
      BY <1>5, <3>1
    <3> QED
      BY <1>5, <3>2, <3>3 DEF FoundAreVolumes, GoTo
  <2>4. NoneIsForgotten' /\ HaltedForAReason' /\ BootedFromTheFirst'
    BY <1>5 DEF DeviceFails, GoTo, NoneIsForgotten, HaltedForAReason, BootedFromTheFirst
  <2> QED
    BY <1>4, <2>2, <2>3, <2>4 DEF MountInv
<1>6. CASE /\ DeviceAnswers
           /\ partition_entry' = partition_entry + 1
           /\ found_partitions' =
                IF partition_table[partition_entry].fat32
                   /\ partition_table[partition_entry].label # NoVolumeLabel
                THEN Append(found_partitions, Partition(partition_entry)) ELSE found_partitions
           /\ UNCHANGED boot_step
  <2>1. PICK s, t, n : s = found_partitions /\ t = found_partitions' /\ n = partition_entry
    OBVIOUS
  <2>2. FoundAmong(s, n) /\ n \in TableEntries /\ n \in Nat
    BY <1>1, <2>1 DEF MountInv, FoundAreVolumes
  <2>3. /\ FoundAmong(t, n + 1)
        /\ HasVolume(n) => IsIn(t, n)
        /\ \A i : IsIn(s, i) => IsIn(t, i)
    <3>1. CASE HasVolume(n)
      <4>1. t = Append(s, Partition(n))
        BY <1>6, <2>1, <3>1 DEF HasVolume
      <4>2. \E u : /\ u = Append(s, Partition(n)) /\ FoundAmong(u, n + 1) /\ IsIn(u, n)
                   /\ \A i : IsIn(s, i) => IsIn(u, i)
        BY <2>2, <3>1, OneMoreFound, Zenon
      <4> QED
        BY <4>1, <4>2, Zenon
    <3>2. CASE ~HasVolume(n)
      <4>1. t = s
        BY <1>6, <2>1, <3>2 DEF HasVolume
      <4> QED
        BY <2>2, <3>2, <4>1, NoMoreFound
    <3> QED
      BY <3>1, <3>2
  <2>4. MountTypeOK'
    BY <1>1, <1>6 DEF MountInv, MountTypeOK, TableEntries
  <2>5. FoundAreVolumes'
    <3>1. FoundAmong(t, n + 1)'
      <4>1. PICK m : m = n + 1
        OBVIOUS
      <4>2. FoundAmong(t, m) /\ UNCHANGED partition_table
        BY <1>1, <2>3, <4>1
      <4>3. FoundAmong(t, m)'
        BY <4>2, StillFound, Zenon
      <4> QED
        BY <4>1, <4>3
    <3>2. t = found_partitions' /\ n + 1 = partition_entry'
      BY <1>6, <2>1
    <3> QED
      BY <1>1, <1>6, <3>1, <3>2 DEF FoundAreVolumes
  <2>6. NoneIsForgotten'
    <3>1. SUFFICES ASSUME ~device_failed, boot_signature, NEW i \in TableEntries, HasVolume(i),
                          i < n + 1
                   PROVE  IsFound(i)'
      BY <1>1, <1>2, <1>6, <2>1 DEF NoneIsForgotten, MountingIsOver, DeviceAnswers
    <3>2. i = n \/ i < n
      BY <2>2, <3>1, EntriesAreNumbers
    <3>3. i < n => IsIn(s, i)
      <4>1. i < n => IsFound(i)
        BY <1>1, <2>1, <3>1 DEF MountInv, NoneIsForgotten
      <4> QED
        BY <2>1, <4>1 DEF IsFound
    <3>4. IsIn(t, i)
      BY <2>3, <3>1, <3>2, <3>3
    <3> QED
      BY <2>1, <3>4 DEF IsFound, IsIn
  <2>7. HaltedForAReason' /\ BootedFromTheFirst'
    BY <1>1, <1>6 DEF HaltedForAReason, BootedFromTheFirst
  <2> QED
    BY <1>4, <2>4, <2>5, <2>6, <2>7 DEF MountInv
<1> QED
  BY <1>5, <1>6 DEF GetPartition

\* Every entry has been looked at.
LEMMA TableIsWhole ==
  ASSUME MountInv, HavePartitions
  PROVE  MountInv'
<1>1. /\ GoTo("filesystems") /\ boot_step = "partitions" /\ UNCHANGED device_failed
      /\ UNCHANGED <<partition_table, boot_signature, partition_entry, found_partitions, entities,
                     cli_filesystem>>
  BY DEF HavePartitions
<1>2. partition_entry = PartitionEntries /\ PartitionEntries \in Nat
  BY MountingAssumption DEF HavePartitions, TableIsRead, MountInv, MountTypeOK
<1>3. \A i \in TableEntries : i < partition_entry
  BY <1>2 DEF TableEntries
<1>4. \A i : HasVolume(i)' = HasVolume(i) /\ IsFound(i)' = IsFound(i)
  BY <1>1 DEF HasVolume, IsFound, IsIn
<1>5. NoneIsForgotten'
  BY <1>1, <1>3, <1>4 DEF MountInv, NoneIsForgotten, MountingIsOver, GoTo
<1>6. HaltedForAReason'
  BY <1>1 DEF HaltedForAReason, GoTo
<1> QED
  BY <1>1, <1>2, <1>5, <1>6, OnlyGoesOn DEF BootSteps

\* Every partition found has had its turn.
LEMMA MountingEnds ==
  ASSUME MountInv, Mounted
  PROVE  MountInv'
<1>1. /\ GoTo("find boot filesystem") /\ boot_step = "filesystems" /\ UNCHANGED device_failed
      /\ found_partitions = << >>
      /\ UNCHANGED <<partition_table, boot_signature, partition_entry, found_partitions, entities,
                     cli_filesystem>>
  BY DEF Mounted
<1>2. \A i : ~IsFound(i)
  BY <1>1, NothingFound DEF IsFound
<1>3. \A i : /\ HasVolume(i)' = HasVolume(i) /\ IsRegistered(i)' = IsRegistered(i)
             /\ LabelIsTaken(i)' = LabelIsTaken(i)
  BY <1>1 DEF HasVolume, IsRegistered, LabelIsTaken
<1>4. NoneIsForgotten'
  BY <1>1, <1>2, <1>3 DEF MountInv, NoneIsForgotten, GoTo
<1>5. HaltedForAReason'
  BY <1>1 DEF HaltedForAReason, GoTo
<1> QED
  BY <1>1, <1>4, <1>5, OnlyGoesOn DEF BootSteps

\* A filesystem that is refused has the name of the console or of one before it.
LEMMA RefusedIsTaken ==
  ASSUME MountInv, boot_step = "filesystems", NEW i \in TableEntries, IsFound(i),
         ~MayRegister(Filesystem(i))
  PROVE  LabelIsTaken(i)
<1>1. PICK other \in entities :
        other.name = partition_table[i].label \/ other.alias = partition_table[i].label
  BY EntityFields DEF MayRegister
<1>2. CASE other = Console
  BY <1>1, <1>2, EntityFields DEF LabelIsTaken
<1>3. ASSUME NEW j \in TableEntries, HasVolume(j), other = Filesystem(j) PROVE LabelIsTaken(i)
  <2>1. partition_table[j].label = partition_table[i].label /\ IsRegistered(j)
    BY <1>1, <1>3, EntityFields DEF IsRegistered
  <2>2. j < i
    BY <2>1 DEF MountInv, EntitiesAreKnown
  <2>3. j \in 0 .. (i - 1)
    BY <2>2, MountingAssumption DEF TableEntries
  <2> QED
    BY <1>3, <2>1, <2>3 DEF LabelIsTaken
<1> QED
  BY <1>2, <1>3 DEF MountInv, EntitiesAreKnown

\* The filesystem of one partition is registered, or refused, or cannot be made.
LEMMA FilesystemIsMounted ==
  ASSUME MountInv, MountFilesystem
  PROVE  MountInv'
<1>1. PICK s, i : s = found_partitions /\ i = Head(s).entry
  OBVIOUS
<1>2. /\ boot_step = "filesystems" /\ s # << >> /\ found_partitions' = Tail(s)
      /\ UNCHANGED <<partition_table, boot_signature, boot_step, partition_entry, cli_filesystem>>
  BY <1>1 DEF MountFilesystem
<1>3. PICK t : /\ t = Tail(s) /\ FoundAmong(t, partition_entry)
               /\ \A j : IsIn(s, j) <=> j = i \/ IsIn(t, j)
               /\ \A j : IsIn(t, j) => i < j
               /\ i \in TableEntries /\ HasVolume(i) /\ Head(s) = Partition(i)
  <2>1. FoundAmong(s, partition_entry)
    BY <1>1 DEF MountInv, FoundAreVolumes
  <2> QED
    BY <1>1, <1>2, <2>1, OneLessFound
<1>4. PICK filesystem : filesystem = Filesystem(i)
  OBVIOUS
<1>5. \/ DeviceFails /\ UNCHANGED entities
      \/ /\ DeviceAnswers
         /\ entities' = IF MayRegister(filesystem) THEN entities \cup {filesystem} ELSE entities
  <2>1. /\ Head(s).name = partition_table[i].label /\ Head(s).entry = i
        /\ Head(s).boot = (i = 0)
    BY <1>3 DEF Partition
  <2>2. OSEntity(Head(s).name, Head(s).name, Head(s).entry, Head(s).boot) = filesystem
    BY <1>4, <2>1 DEF Filesystem
  <2> QED
    BY <1>1, <2>2 DEF MountFilesystem
<1>6. /\ \A j : HasVolume(j)' = HasVolume(j) /\ LabelIsTaken(j)' = LabelIsTaken(j)
      /\ \A j : Partition(j)' = Partition(j) /\ Filesystem(j)' = Filesystem(j)
  <2>1. UNCHANGED partition_table
    BY <1>2
  <2> QED
    BY <2>1, SameTable
<1>7. MountTypeOK'
  BY <1>2 DEF MountInv, MountTypeOK
<1>8. FoundAreVolumes'
  <2>1. PICK n : n = partition_entry
    OBVIOUS
  <2>2. FoundAmong(t, n)'
    BY <1>2, <1>3, <2>1, StillFound
  <2>3. t = found_partitions' /\ n = partition_entry'
    BY <1>1, <1>2, <1>3, <2>1
  <2>4. partition_entry = PartitionEntries
    BY <1>2 DEF MountInv, FoundAreVolumes
  <2> QED
    BY <1>2, <2>1, <2>2, <2>3, <2>4 DEF FoundAreVolumes
<1>9. entities \subseteq entities' /\ entities' \subseteq entities \cup {filesystem}
  BY <1>5
<1>10. \A j : /\ IsRegistered(j) => IsRegistered(j)'
              /\ IsRegistered(j)' => IsRegistered(j) \/ j = i
  <2>1. filesystem.filesystem = i
    BY <1>3, <1>4, EntityFields
  <2> QED
    BY <1>9, <2>1 DEF IsRegistered
<1>11. EntitiesAreKnown'
  <2>1. Console \in entities'
    BY <1>9 DEF MountInv, EntitiesAreKnown
  <2>2. \A entity \in entities' :
          entity = Console \/ \E j \in TableEntries : HasVolume(j) /\ entity = Filesystem(j)
    BY <1>2, <1>3, <1>4, <1>9 DEF MountInv, EntitiesAreKnown
  <2>3. ASSUME NEW j \in TableEntries, NEW k \in TableEntries, IsRegistered(j)', IsFound(k)'
        PROVE  j < k
    <3>1. IsIn(t, k)
      BY <1>2, <1>3, <2>3 DEF IsFound, IsIn
    <3>2. i < k /\ IsFound(k)
      BY <1>1, <1>3, <3>1 DEF IsFound
    <3> QED
      BY <1>10, <2>3, <3>2 DEF MountInv, EntitiesAreKnown
  <2> QED
    BY <1>2, <1>6, <2>1, <2>2, <2>3 DEF EntitiesAreKnown
<1>12. NamesLeadToOne'
  <2>1. CASE entities' = entities
    BY <2>1 DEF MountInv, NamesLeadToOne
  <2>2. CASE entities' = entities \cup {filesystem} /\ MayRegister(filesystem)
    BY <2>2 DEF MountInv, NamesLeadToOne, MayRegister
  <2> QED
    BY <1>5, <2>1, <2>2
<1>13. NoneIsForgotten'
  <2>1. SUFFICES ASSUME ~device_failed', boot_signature, NEW j \in TableEntries, HasVolume(j)
                 PROVE  IsFound(j)' \/ IsRegistered(j)' \/ LabelIsTaken(j)
    BY <1>2, <1>6 DEF NoneIsForgotten, MountingIsOver
  <2>2. ~device_failed /\ entities' = IF MayRegister(filesystem) THEN entities \cup {filesystem}
                                       ELSE entities
    BY <1>5, <2>1 DEF DeviceFails, DeviceAnswers
  <2>3. IsFound(j) \/ IsRegistered(j) \/ LabelIsTaken(j)
    BY <1>2, <2>1, <2>2 DEF MountInv, NoneIsForgotten
  <2>4. IsFound(j) => j = i \/ IsFound(j)'
    BY <1>1, <1>2, <1>3 DEF IsFound, IsIn
  <2>5. CASE j = i
    <3>1. IsFound(i)
      BY <1>1, <1>3 DEF IsFound
    <3>2. MayRegister(filesystem) => IsRegistered(i)'
      <4>1. filesystem.filesystem = i
        BY <1>3, <1>4, EntityFields
      <4> QED
        BY <2>2, <4>1 DEF IsRegistered
    <3> QED
      BY <1>2, <1>3, <1>4, <2>5, <3>1, <3>2, RefusedIsTaken
  <2> QED
    BY <1>10, <2>3, <2>4, <2>5
<1>14. HaltedForAReason' /\ BootedFromTheFirst'
  BY <1>2 DEF HaltedForAReason, BootedFromTheFirst
<1> QED
  BY <1>7, <1>8, <1>11, <1>12, <1>13, <1>14 DEF MountInv

\* The filesystems to boot from are that of the first entry.
LEMMA BootIsTheFirst ==
  ASSUME MountInv, boot_step # "command line"
  PROVE  /\ \A entity \in BootFilesystems :
              0 \in TableEntries /\ HasVolume(0) /\ entity = Filesystem(0) /\ entity.filesystem = 0
         /\ 0 \in TableEntries /\ IsRegistered(0) => BootFilesystems # {}
<1>1. ASSUME NEW entity \in BootFilesystems
      PROVE  0 \in TableEntries /\ HasVolume(0) /\ entity = Filesystem(0) /\ entity.filesystem = 0
  <2>1. entity \in entities /\ entity.filesystem # NoFilesystem /\ entity.boot
    BY DEF BootFilesystems
  <2>2. PICK i \in TableEntries : HasVolume(i) /\ entity = Filesystem(i) /\ entity.filesystem = i
    BY <2>1, RegisteredIsFilesystem
  <2>3. i = 0
    BY <2>1, <2>2, EntityFields
  <2> QED
    BY <2>2, <2>3
<1>2. ASSUME 0 \in TableEntries, IsRegistered(0) PROVE BootFilesystems # {}
  <2>1. PICK entity \in entities : entity.filesystem = 0
    BY <1>2 DEF IsRegistered
  <2>2. entity.filesystem # NoFilesystem
    BY <1>2, <2>1, EntityFields
  <2>3. PICK i \in TableEntries : HasVolume(i) /\ entity = Filesystem(i) /\ entity.filesystem = i
    BY <2>2, RegisteredIsFilesystem
  <2>4. entity.boot
    BY <2>1, <2>3, EntityFields
  <2> QED
    BY <2>2, <2>4 DEF BootFilesystems
<1> QED
  BY <1>1, <1>2

\* The system halts for want of a filesystem to boot from.
LEMMA HaltsWithoutBoot ==
  ASSUME MountInv, HaltWithoutBootFilesystem
  PROVE  MountInv'
<1>1. /\ GoTo("halted") /\ boot_step = "find boot filesystem" /\ UNCHANGED device_failed
      /\ BootFilesystems = {}
      /\ UNCHANGED <<partition_table, boot_signature, partition_entry, found_partitions, entities,
                     cli_filesystem>>
  BY DEF HaltWithoutBootFilesystem
<1>2. found_partitions = << >>
  BY <1>1 DEF MountInv, FoundAreVolumes
<1>3. \A i : /\ HasVolume(i)' = HasVolume(i) /\ IsRegistered(i)' = IsRegistered(i)
             /\ LabelIsTaken(i)' = LabelIsTaken(i)
  BY <1>1 DEF HasVolume, IsRegistered, LabelIsTaken
<1>4. NoneIsForgotten'
  BY <1>1, <1>3 DEF MountInv, NoneIsForgotten, MountingIsOver, GoTo
<1>5. HaltedForAReason'
  BY <1>1, <1>3, BootIsTheFirst DEF HaltedForAReason
<1> QED
  BY <1>1, <1>2, <1>4, <1>5, OnlyGoesOn DEF BootSteps

\* The command line is started, or its name is in use.
LEMMA CommandLineIsStarted ==
  ASSUME MountInv, StartCommandLineInterface
  PROVE  MountInv'
<1>1. PICK entity \in BootFilesystems :
        IF MayRegister(CommandLineEntity)
        THEN /\ entities' = entities \cup {CommandLineEntity}
             /\ cli_filesystem' = entity.filesystem
             /\ GoTo("command line")
        ELSE GoTo("halted") /\ UNCHANGED <<entities, cli_filesystem>>
  BY DEF StartCommandLineInterface, CommandLineEntity
<1>2. /\ boot_step = "find boot filesystem"
      /\ UNCHANGED <<partition_table, boot_signature, partition_entry, found_partitions,
                     device_failed>>
  BY DEF StartCommandLineInterface
<1>3. found_partitions = << >>
  BY <1>2 DEF MountInv, FoundAreVolumes
<1>4. /\ \A j : HasVolume(j)' = HasVolume(j) /\ LabelIsTaken(j)' = LabelIsTaken(j)
      /\ \A j : Partition(j)' = Partition(j) /\ Filesystem(j)' = Filesystem(j)
  <2>1. UNCHANGED partition_table
    BY <1>2
  <2> QED
    BY <2>1, SameTable
<1>5. 0 \in TableEntries /\ HasVolume(0) /\ entity = Filesystem(0) /\ entity.filesystem = 0
      /\ entity \in entities /\ entity.boot
  BY <1>2, BootIsTheFirst DEF BootFilesystems
<1>6. CASE ~MayRegister(CommandLineEntity)
  <2>1. GoTo("halted") /\ UNCHANGED <<entities, cli_filesystem>>
    BY <1>1, <1>6
  <2>2. PICK other \in entities : other.name = CLIName \/ other.alias = CLIAlias
    BY <1>5, <1>6, EntityFields DEF MayRegister
  <2>3. other # Console
    BY <1>5, <2>2, EntityFields, MountingAssumption
  <2>4. PICK i \in TableEntries : HasVolume(i) /\ other = Filesystem(i)
    BY <1>2, <2>3 DEF MountInv, EntitiesAreKnown
  <2>5. partition_table[i].label \in {CLIName, CLIAlias}
    BY <2>2, <2>4, EntityFields
  <2>6. HaltedForAReason'
    BY <1>2, <1>4, <2>4, <2>5 DEF HaltedForAReason
  <2>7. \A j : IsRegistered(j)' = IsRegistered(j)
    BY <2>1 DEF IsRegistered
  <2>8. NoneIsForgotten'
    BY <1>2, <1>4, <2>1, <2>7 DEF MountInv, NoneIsForgotten, MountingIsOver, GoTo
  <2> QED
    BY <1>2, <1>3, <2>1, <2>6, <2>8, OnlyGoesOn DEF BootSteps
<1>7. CASE MayRegister(CommandLineEntity)
  <2>1. /\ entities' = entities \cup {CommandLineEntity} /\ cli_filesystem' = 0
        /\ boot_step' = "command line"
    BY <1>1, <1>5, <1>7 DEF GoTo
  <2>2. MountTypeOK'
    BY <1>2, <2>1, Zenon DEF MountInv, MountTypeOK, BootSteps
  <2>3. FoundAreVolumes'
    <3>1. PICK s, n : s = found_partitions /\ n = partition_entry
      OBVIOUS
    <3>2. FoundAmong(s, n)'
      BY <1>2, <3>1, StillFound DEF MountInv, FoundAreVolumes
    <3>3. s = found_partitions' /\ n = partition_entry'
      BY <1>2, <3>1
    <3> QED
      BY <1>2, <1>3, <2>1, <3>2, <3>3 DEF FoundAreVolumes
  <2>4. EntitiesAreKnown'
    <3>1. \A j : ~IsFound(j)'
      BY <1>2, <1>3, NothingFound DEF IsFound
    <3> QED
      BY <1>2, <1>4, <2>1, <3>1 DEF MountInv, EntitiesAreKnown
  <2>5. NamesLeadToOne'
    BY <1>7, <2>1 DEF MountInv, NamesLeadToOne, MayRegister
  <2>6. \A j : IsRegistered(j) => IsRegistered(j)'
    BY <2>1 DEF IsRegistered
  <2>7. NoneIsForgotten'
    BY <1>2, <1>4, <2>1, <2>6 DEF MountInv, NoneIsForgotten, MountingIsOver
  <2>8. HaltedForAReason' /\ BootedFromTheFirst'
    BY <1>4, <1>5, <2>1 DEF HaltedForAReason, BootedFromTheFirst
  <2> QED
    BY <2>2, <2>3, <2>4, <2>5, <2>7, <2>8 DEF MountInv
<1> QED
  BY <1>6, <1>7

\* The inductive invariant of the mounting, for any number of partitions and any labels,
\* wherever the card fails.
LEMMA MountingIsSound == MountingSpec => []MountInv
<1>1. MountInv /\ [MountingNext]_mountingVars => MountInv'
  <2> SUFFICES ASSUME MountInv, [MountingNext]_mountingVars PROVE MountInv'
    OBVIOUS
  <2>1. CASE UNCHANGED mountingVars
    <3>1. /\ UNCHANGED <<partition_table, boot_signature, boot_step, partition_entry,
                         found_partitions, entities, cli_filesystem, device_failed>>
      BY <2>1 DEF mountingVars
    <3>2. MountTypeOK'
      BY <3>1 DEF MountInv, MountTypeOK
    <3>3. FoundAreVolumes'
      BY <3>1, Zenon DEF MountInv, FoundAreVolumes, FoundAmong, HasVolume, Partition
    <3>4. EntitiesAreKnown' /\ NamesLeadToOne'
      BY <3>1, Zenon
      DEF MountInv, EntitiesAreKnown, NamesLeadToOne, HasVolume, Filesystem, IsRegistered,
          IsFound, IsIn
    <3>5. NoneIsForgotten'
      BY <3>1, Zenon
      DEF MountInv, NoneIsForgotten, HasVolume, IsFound, IsIn, IsRegistered, LabelIsTaken,
          MountingIsOver
    <3>6. HaltedForAReason' /\ BootedFromTheFirst'
      BY <3>1 DEF MountInv, HaltedForAReason, BootedFromTheFirst, HasVolume, IsRegistered
    <3> QED
      BY <3>2, <3>3, <3>4, <3>5, <3>6 DEF MountInv
  <2> QED
    BY <2>1, CardIsRead, EntryIsRead, TableIsWhole, FilesystemIsMounted, MountingEnds,
       HaltsWithoutBoot, CommandLineIsStarted DEF MountingNext
<1> QED
  BY <1>1, MountingBegins, PTL DEF MountingSpec

\* The command line works on the filesystem of the first partition, whichever others were
\* found, could not be read or were refused.
THEOREM BootIsTheFirstPartition == MountingSpec => []CommandLineIsOnBoot
<1>1. MountInv => CommandLineIsOnBoot
  BY DEF MountInv, BootedFromTheFirst, CommandLineIsOnBoot
<1> QED
  BY <1>1, MountingIsSound, PTL

\* A filesystem in the registry is a volume of the card under its label, and a name or an
\* alias leads to one entity.
THEOREM RegistryHoldsVolumes == MountingSpec => []FilesystemsAreVolumes
<1>1. MountInv => FilesystemsAreVolumes
  <2> SUFFICES ASSUME MountInv PROVE FilesystemsAreVolumes
    OBVIOUS
  <2>1. ASSUME NEW entity \in entities, entity.filesystem # NoFilesystem
        PROVE  /\ entity.filesystem \in TableEntries /\ HasVolume(entity.filesystem)
               /\ entity.name = partition_table[entity.filesystem].label
               /\ entity.alias = entity.name
    <3>1. PICK i \in TableEntries :
            HasVolume(i) /\ entity = Filesystem(i) /\ entity.filesystem = i
      BY <2>1, RegisteredIsFilesystem
    <3> QED
      BY <3>1, EntityFields
  <2> QED
    BY <2>1 DEF MountInv, NamesLeadToOne, FilesystemsAreVolumes
<1> QED
  BY <1>1, MountingIsSound, PTL

\* What the registry holds is on the card, and the command line works on the filesystem of
\* the first entry.
THEOREM TheStartIsSound == MountingSpec => []StartIsSound
<1> QED
  BY BootIsTheFirstPartition, RegistryHoldsVolumes, PTL DEF StartIsSound

\* Every volume with a label of its own is mounted unless the card fails, and the system
\* halts for no other reason than those.
THEOREM VolumesAreMounted == MountingSpec => []EveryVolumeIsMounted
<1>1. MountInv => EveryVolumeIsMounted
  BY DEF MountInv, NoneIsForgotten, HaltedForAReason, EveryVolumeIsMounted, MountingIsOver
<1> QED
  BY <1>1, MountingIsSound, PTL

=============================================================================
