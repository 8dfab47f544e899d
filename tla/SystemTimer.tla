------------------------------ MODULE SystemTimer ------------------------------
(***************************************************************************)
(* The system timer, its recurring interrupt and the exception manager that*)
(* dispatches it.  The main program sets the service routines up, starts   *)
(* and cancels the recurring interrupt and reads the time; the interrupt   *)
(* handler runs between any two of its steps, whenever an interrupt is     *)
(* pending and enabled, and the clock goes on during both.                 *)
(*                                                                         *)
(* The timer is external: a counter in two words of which the registers    *)
(* show the low and the high one, a compare register and a match that      *)
(* stays until it is acknowledged.  Of the four compare registers the      *)
(* program uses one, on both boards, so that the tables from interrupts to *)
(* their numbers hold one line.  Time is cyclic, words are short.          *)
(***************************************************************************)
EXTENDS Integers, Sequences

CONSTANTS
  WordLimit,    \* 2^32 in the code: how many values a word has
  HighLimit,    \* how many values of the high word tell times apart
  Period,       \* the period of the recurring interrupt
  MaxLatency    \* bound: how long the program or the handler takes for what has to be done in time

ASSUME TimerAssumption ==
  /\ WordLimit \in Nat /\ HighLimit \in Nat \ {0, 1}
  /\ MaxLatency \in Nat /\ Period \in Nat /\ MaxLatency < Period /\ 2 * Period < WordLimit

VARIABLES
  now,      \* external: the counter
  compare,  \* external: TIMER_COMPARE_1
  matched,  \* external: the match in TIMER_CS, an interrupt if enabled
  isrs,     \* the service routines of the interrupt, first to last
  enabled,
  config,   \* RecurringTimerConfig
  tm_main,  \* where the main program is
  tm_isr,   \* where the handler is
  tm_local, \* what the main program has read
  latency   \* for how long [match] an interrupt is pending, [main] a call of the program takes

tmVars == <<now, compare, matched, isrs, enabled, config, tm_main, tm_isr, tm_local, latency>>

CounterLimit == WordLimit * HighLimit
Low(t) == t % WordLimit
High(t) == t \div WordLimit
Elapsed(from, to) == (to - from) % CounterLimit
Distance(from, to) == (to - from) % WordLimit

NothingRead == [high |-> 0, low |-> 0, start |-> 0, result |-> 0]

TMInit ==
  /\ now = 0 /\ compare = WordLimit - 1 /\ matched = FALSE
  /\ isrs = << >> /\ enabled = FALSE
  /\ config = [running |-> FALSE, next |-> 0, period |-> 0]
  /\ tm_main = "boot" /\ tm_isr = "none" /\ tm_local = NothingRead
  /\ latency = [match |-> 0, main |-> 0]

-----------------------------------------------------------------------------
(* The clock.  What must be done in time is: boot, a start of the timer    *)
(* from where it reads the counter, one reading of the time; serving an    *)
(* interrupt.                                                              *)

InTime == {"boot", "add_task_switch", "add_reschedule", "compute", "set_compare"}
Reading == {"read_low", "read_high_again", "reread_high", "reread_low", "return_time"}

Pending == matched /\ enabled

Tick ==
  /\ Pending => latency.match < MaxLatency
  /\ tm_main \in InTime => latency.main < MaxLatency
  /\ tm_main \in Reading => latency.main < WordLimit - 1
  /\ now' = (now + 1) % CounterLimit
  /\ matched' = (matched \/ Low(now') = compare)
  /\ latency' = [match |-> IF Pending THEN latency.match + 1 ELSE 0,
                 main |-> IF tm_main \in InTime \cup Reading THEN latency.main + 1 ELSE 0]
  /\ UNCHANGED <<compare, isrs, enabled, config, tm_main, tm_isr, tm_local>>

-----------------------------------------------------------------------------
(* The main program.  It does not run while the handler does.              *)

MainStep(at, next) ==
  /\ tm_main = at /\ tm_main' = next
  /\ tm_isr = "none" /\ ~Pending
  /\ latency' = IF next \in InTime \cup Reading THEN latency ELSE [latency EXCEPT !.main = 0]
  /\ UNCHANGED <<now, matched, tm_isr>>

\* AddISR of the first routine of an interrupt: its empty list, then the interrupt
\* enabled, then the routine.
EnableInterrupt ==
  /\ MainStep("boot", "add_task_switch")
  /\ enabled' = TRUE
  /\ UNCHANGED <<compare, isrs, config, tm_local>>

PushISR(at, isr, next) ==
  /\ MainStep(at, next)
  /\ isrs' = <<isr>> \o isrs
  /\ UNCHANGED <<compare, enabled, config, tm_local>>

AddISRs == \/ PushISR("add_task_switch", "TaskSwitch", "add_reschedule")
           \/ PushISR("add_reschedule", "SystemTimerReschedule", "idle")

\* StartRecurringInterrupt, of a timer that runs or not.  An interrupt between its first
\* two stores finds a timer that runs with the period it had before, or with none.
Start ==
  /\ MainStep("idle", "set_period")
  /\ config' = [config EXCEPT !.running = TRUE]
  /\ UNCHANGED <<compare, isrs, enabled, tm_local>>

SetPeriod ==
  /\ MainStep("set_period", "read_counter")
  /\ config' = [config EXCEPT !.period = Period]
  /\ UNCHANGED <<compare, isrs, enabled, tm_local>>

ReadCounter ==
  /\ MainStep("read_counter", "compute")
  /\ tm_local' = [tm_local EXCEPT !.low = Low(now)]
  /\ UNCHANGED <<compare, isrs, enabled, config>>

ComputeNext ==
  /\ MainStep("compute", "set_compare")
  /\ config' = [config EXCEPT !.next = (tm_local.low + Period) % WordLimit]
  /\ tm_local' = [tm_local EXCEPT !.low = config'.next]
  /\ UNCHANGED <<compare, isrs, enabled>>

SetCompareRegister ==
  /\ MainStep("set_compare", "idle")
  /\ compare' = tm_local.low
  /\ tm_local' = NothingRead
  /\ UNCHANGED <<isrs, enabled, config>>

\* CancelRecurringInterrupt: the compare register stays as it is.
Cancel ==
  /\ config.running
  /\ MainStep("idle", "cancel")
  /\ config' = [config EXCEPT !.running = FALSE]
  /\ UNCHANGED <<compare, isrs, enabled, tm_local>>

ClearPeriod ==
  /\ MainStep("cancel", "idle")
  /\ config' = [config EXCEPT !.period = 0]
  /\ UNCHANGED <<compare, isrs, enabled, tm_local>>

\* GetMsec.  One register is read at a time.
Read(at, next, values) ==
  /\ MainStep(at, next)
  /\ tm_local' = values
  /\ UNCHANGED <<compare, isrs, enabled, config>>

\* Mutant: the high word is not read again.
TrustHigh == "return_time"

AfterLow == "read_high_again"

AfterReadAgain == IF High(now) # tm_local.high THEN "reread_high" ELSE "return_time"

GetMsec ==
  \/ Read("idle", "read_low", [NothingRead EXCEPT !.high = High(now), !.start = now])
  \/ Read("read_low", AfterLow, [tm_local EXCEPT !.low = Low(now)])
  \/ Read("read_high_again", AfterReadAgain, tm_local)
  \/ Read("reread_high", "reread_low", [tm_local EXCEPT !.high = High(now)])
  \/ Read("reread_low", "return_time", [tm_local EXCEPT !.low = Low(now)])
  \/ Read("return_time", "idle", NothingRead)

-----------------------------------------------------------------------------
(* The handler.  The routines run first to last; that of the task switch   *)
(* does nothing.  RescheduleRecurringInterrupt sets the next match and     *)
(* acknowledges this one.                                                  *)

ISRStep(at, next) ==
  /\ tm_isr = at /\ tm_isr' = next
  /\ UNCHANGED <<now, isrs, enabled, tm_main, tm_local>>

\* With no routine that reschedules, the handler returns and is entered again.
HandleInterrupt ==
  /\ Pending
  /\ \E i \in DOMAIN isrs : isrs[i] = "SystemTimerReschedule"
  /\ ISRStep("none", "advance")
  /\ UNCHANGED <<compare, matched, config, latency>>

\* Mutant: the time of the next interrupt is not moved on.
KeepNext(c) == c

AdvanceNext(c) == [c EXCEPT !.next = (@ + c.period) % WordLimit]

Advance ==
  /\ IF config.running /\ config.period > 0
     THEN ISRStep("advance", "set") /\ config' = AdvanceNext(config)
     ELSE ISRStep("advance", "acknowledge") /\ UNCHANGED config
  /\ UNCHANGED <<compare, matched, latency>>

SetNext ==
  /\ ISRStep("set", "acknowledge")
  /\ compare' = config.next
  /\ UNCHANGED <<matched, config, latency>>


MatchAfterAcknowledge == FALSE

Acknowledge ==
  /\ ISRStep("acknowledge", "none")
  /\ matched' = MatchAfterAcknowledge
  /\ latency' = [latency EXCEPT !.match = 0]
  /\ UNCHANGED <<compare, config>>

ISRNext == HandleInterrupt \/ Advance \/ SetNext \/ Acknowledge

StartNext == SetPeriod \/ ReadCounter \/ ComputeNext \/ SetCompareRegister

TMNext ==
  \/ Tick
  \/ EnableInterrupt \/ AddISRs
  \/ Start \/ StartNext
  \/ Cancel \/ ClearPeriod
  \/ GetMsec
  \/ ISRNext

\* The clock never stops and the processor goes on with what it has begun.
TMFairness ==
  /\ WF_tmVars(Tick)
  /\ WF_tmVars(ISRNext)
  /\ WF_tmVars(EnableInterrupt \/ AddISRs \/ StartNext \/ ClearPeriod \/ GetMsec)

TMSpec == TMInit /\ [][TMNext]_tmVars /\ TMFairness

-----------------------------------------------------------------------------
(* Properties.                                                             *)

\* A running timer that no start is at work on, nor the handler.
Armed ==
  /\ config.running /\ tm_isr = "none"
  /\ tm_main \notin {"set_period", "read_counter", "compute", "set_compare"}

\* Whatever the interrupt comes between, a running timer that waits for its next match
\* waits for one at most two periods away, never for the counter to come around.
TimerStaysArmed == Armed /\ ~matched => Distance(Low(now), compare) \in 1 .. (2 * Period)

\* The time that GetMsec puts together from registers read at different times is one
\* the timer showed during the call, though the low word may overflow in between.
TimeIsRead ==
  tm_main = "return_time" =>
    LET result == tm_local.high * WordLimit + tm_local.low
    IN Elapsed(tm_local.start, result) <= Elapsed(tm_local.start, now)


=============================================================================
