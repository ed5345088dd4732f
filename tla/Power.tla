-------------------------------- MODULE Power --------------------------------
(***************************************************************************)
(* The main loop, the timers and the ways into system-off: main.c,         *)
(* my_timers.c, my_ble_util.c, the pin handler of my_keypad.c, the         *)
(* scheduling of a battery measurement (my_battery.c) and the idle event   *)
(* of advertising (my_ble_advertising.c).                                  *)
(*                                                                         *)
(* Interrupts have the same priority, so a handler is one step, and the    *)
(* main loop runs only when none is pending.  The handlers of app_timer    *)
(* and of the SoftDevice put their work on the scheduler's queue; the main *)
(* loop executes it.                                                       *)
(*                                                                         *)
(* Time passes in ticks of 30 s.  The main loop needs milliseconds to      *)
(* become idle, so each tick finds it so; but a timer that has run out in  *)
(* a tick is served by app_timer's first interrupt some steps later, and   *)
(* edges, app_timer's second interrupt, events and the main loop's work    *)
(* may all come in between.  An edge whose stop is pending when the timer  *)
(* runs out is one of those edges: in units of 30 s it does not matter     *)
(* which of the two came first, and late is set either way.                *)
(***************************************************************************)
EXTENDS Integers, Sequences

CONSTANTS
  SCHED_QUEUE_SIZE,
  APP_TIMER_OP_QUEUE_SIZE,
  BATTERY_LEVEL_MEAS_INTERVAL,  \* in ticks, as the next three
  INACTIVITY_SLEEP_DELAY,
  APP_ADV_FAST_TIMEOUT,
  APP_ADV_SLOW_TIMEOUT,
  MaxSdEvents                   \* bound: SoftDevice events not polled

ASSUME PowerAssumption ==
  /\ SCHED_QUEUE_SIZE \in Nat \ {0}
  /\ APP_TIMER_OP_QUEUE_SIZE \in Nat \ {0}
  /\ BATTERY_LEVEL_MEAS_INTERVAL \in Nat \ {0}
  /\ INACTIVITY_SLEEP_DELAY \in Nat \ {0}
  /\ APP_ADV_FAST_TIMEOUT \in Nat \ {0}
  /\ APP_ADV_SLOW_TIMEOUT \in Nat \ {0}
  /\ MaxSdEvents \in Nat \ {0}

VARIABLES
  on,             \* not in system-off
  fault,          \* APP_ERROR_HANDLER was called: the system resets
  sched,          \* the scheduler's queue; its head stays while it is handled
  main_pc,
  woken,          \* an interrupt has come since sd_app_evt_wait returned
  ops,            \* operations requested of app_timer by the pin interrupt
  shutdown_left,  \* ticks to the expiry of m_shutdown_timer_id, 0 if stopped
  battery_left,   \* the same of m_battery_timer_id
  expired,        \* timers that have run out, not yet served
  adv, adv_left,  \* "fast" or "slow" advertising and the ticks to its
                  \* timeout, a "link", or "none" of them
  sdq,            \* SoftDevice events not polled
  adc,            \* "idle", "armed" with a buffer, or "sampling"
  hfclk,          \* the external crystal is requested
  quiet, lonely,  \* history: ticks since the last edge, and without a link
  late            \* history: the shutdown timer ran out before the stop of
                  \* the last edge was carried out

queueVars == <<sched, sdq>>
timerVars == <<shutdown_left, battery_left, expired>>
advVars == <<adv, adv_left>>
adcVars == <<adc, hfclk>>
historyVars == <<quiet, lonely, late>>

vars == <<on, fault, queueVars, main_pc, woken, ops, timerVars, advVars,
          adcVars, historyVars>>

Work == {"shutdown", "battery", "adc_sample", "softdevice"}
SdEvents == {"CONNECTED", "DISCONNECTED", "ADV_TIMEOUT", "OTHER"}

Lonely == APP_ADV_FAST_TIMEOUT + APP_ADV_SLOW_TIMEOUT

AtMost(n, bound) == IF n > bound THEN bound ELSE n

Running == on /\ ~fault

(* main from its start to its loop: timers_start, advertising_start.       *)
Booted ==
  /\ on' = TRUE /\ fault' = FALSE
  /\ sched' = <<>> /\ sdq' = <<>> /\ ops' = <<>>
  /\ main_pc' = "execute" /\ woken' = FALSE
  /\ shutdown_left' = INACTIVITY_SLEEP_DELAY
  /\ battery_left' = BATTERY_LEVEL_MEAS_INTERVAL /\ expired' = {}
  /\ adv' = "fast" /\ adv_left' = APP_ADV_FAST_TIMEOUT
  /\ adc' = "idle" /\ hfclk' = FALSE
  /\ quiet' = 0 /\ lonely' = 0 /\ late' = FALSE

Init ==
  /\ on = TRUE /\ fault = FALSE
  /\ sched = <<>> /\ sdq = <<>> /\ ops = <<>>
  /\ main_pc = "execute" /\ woken = FALSE
  /\ shutdown_left = INACTIVITY_SLEEP_DELAY
  /\ battery_left = BATTERY_LEVEL_MEAS_INTERVAL /\ expired = {}
  /\ adv = "fast" /\ adv_left = APP_ADV_FAST_TIMEOUT
  /\ adc = "idle" /\ hfclk = FALSE
  /\ quiet = 0 /\ lonely = 0 /\ late = FALSE

(* app_sched_event_put of some work, by a caller that checks the result.   *)
PutAll_Unbounded(work) ==
  /\ sched' = sched \o work
  /\ UNCHANGED fault

PutAll(work) ==
  IF Len(sched) + Len(work) <= SCHED_QUEUE_SIZE
    THEN sched' = sched \o work /\ UNCHANGED fault
    ELSE fault' = TRUE /\ UNCHANGED sched

Queued(work) == \E i \in 1 .. Len(sched) : sched[i] = work

(* The shutdown timer has run out and its handler has yet to be called.    *)
ShutdownDue == Queued("shutdown") \/ "shutdown" \in expired

-----------------------------------------------------------------------------
(***************************************************************************)
(* Interrupts.                                                             *)
(***************************************************************************)

(* reset_shutdown_timer: a stop and a start, each with its error check.    *)
reset_shutdown_timer_NoStop ==
  IF Len(ops) < APP_TIMER_OP_QUEUE_SIZE
    THEN ops' = Append(ops, "start") /\ UNCHANGED fault
    ELSE fault' = TRUE /\ UNCHANGED ops

reset_shutdown_timer_NoStart ==
  IF Len(ops) < APP_TIMER_OP_QUEUE_SIZE
    THEN ops' = Append(ops, "stop") /\ UNCHANGED fault
    ELSE fault' = TRUE /\ UNCHANGED ops

reset_shutdown_timer ==
  IF Len(ops) + 2 <= APP_TIMER_OP_QUEUE_SIZE
    THEN ops' = ops \o <<"stop", "start">> /\ UNCHANGED fault
    ELSE fault' = TRUE /\ UNCHANGED ops

in_pin_handler ==
  /\ Running
  /\ reset_shutdown_timer
  /\ woken' = TRUE
  /\ quiet' = 0
  /\ late' = ShutdownDue
  /\ UNCHANGED <<on, queueVars, main_pc, timerVars, advVars, adcVars, lonely>>

(* app_timer's second interrupt (SWI0): all the stops requested, then the  *)
(* starts of timers that are not running.  A timer that has run out and is *)
(* stopped before its handler is queued does not call it.                  *)
ProcessTimerOps ==
  /\ Running
  /\ ops # <<>>
  /\ LET asked(op) == \E i \in 1 .. Len(ops) : ops[i] = op
         stopped == asked("stop") \/ shutdown_left = 0
     IN /\ shutdown_left' = IF ~stopped THEN shutdown_left
                            ELSE IF asked("start") THEN INACTIVITY_SLEEP_DELAY
                            ELSE 0
        /\ expired' = IF asked("stop") THEN expired \ {"shutdown"} ELSE expired
  /\ ops' = <<>>
  /\ woken' = TRUE
  /\ late' = (late /\ Queued("shutdown"))
  /\ UNCHANGED <<on, fault, queueVars, main_pc, battery_left, advVars, adcVars,
                 quiet, lonely>>

(* Counting down: what is left after a tick, and after a repetition.       *)
Passed(left) == IF left = 0 THEN 0 ELSE left - 1
Expires(left) == left = 1
Repeated(left, interval) == IF Expires(left) THEN interval ELSE Passed(left)

(* Time passes.  Both timers are APP_TIMER_MODE_REPEATED.  An advertising  *)
(* timeout comes from the SoftDevice.                                      *)
Tick ==
  /\ Running
  /\ main_pc = "wait" /\ ~woken /\ sched = <<>> /\ sdq = <<>>
  /\ ops = <<>> /\ expired = {}
  /\ adc = "idle"
  /\ shutdown_left' = Repeated(shutdown_left, INACTIVITY_SLEEP_DELAY)
  /\ battery_left' = Repeated(battery_left, BATTERY_LEVEL_MEAS_INTERVAL)
  /\ expired' = (IF Expires(battery_left) THEN {"battery"} ELSE {})
                \cup (IF Expires(shutdown_left) THEN {"shutdown"} ELSE {})
  /\ adv_left' = Passed(adv_left)
  /\ IF Expires(adv_left)
       THEN /\ sdq' = <<"ADV_TIMEOUT">>
            /\ sched' = <<"softdevice">>
            /\ woken' = TRUE
       ELSE UNCHANGED <<queueVars, woken>>
  /\ quiet' = AtMost(quiet + 1, INACTIVITY_SLEEP_DELAY)
  /\ lonely' = IF adv = "link" THEN 0 ELSE AtMost(lonely + 1, Lonely)
  /\ UNCHANGED <<on, fault, main_pc, ops, adv, adcVars, late>>

(* app_timer's first interrupt (RTC1) puts the calls of the handlers on    *)
(* the queue.  It may come before or after the second when an edge has     *)
(* made both pending.                                                      *)
ServeTimeouts ==
  /\ Running
  /\ expired # {}
  /\ PutAll((IF "battery" \in expired THEN <<"battery">> ELSE <<>>)
            \o (IF "shutdown" \in expired THEN <<"shutdown">> ELSE <<>>))
  /\ expired' = {}
  /\ woken' = TRUE
  /\ UNCHANGED <<on, sdq, main_pc, ops, shutdown_left, battery_left, advVars,
                 adcVars, historyVars>>

(* The SoftDevice stops advertising when a host connects; nothing starts   *)
(* it again but the application.                                           *)
LinkChanges(evt) ==
  \/ /\ evt = "CONNECTED" /\ adv \in {"fast", "slow"} /\ adv_left > 0
     /\ adv' = "link" /\ adv_left' = 0 /\ lonely' = 0
  \/ /\ evt = "DISCONNECTED" /\ adv = "link"
     /\ adv' = "none"
     /\ UNCHANGED <<adv_left, lonely>>
  \/ /\ evt = "OTHER"
     /\ UNCHANGED <<advVars, lonely>>

(* An event of the SoftDevice: its interrupt queues the poll.              *)
SdEvent ==
  /\ Running
  /\ Len(sdq) < MaxSdEvents
  /\ \E evt \in {"CONNECTED", "DISCONNECTED", "OTHER"} :
       /\ LinkChanges(evt)
       /\ sdq' = Append(sdq, evt)
  /\ PutAll(<<"softdevice">>)
  /\ woken' = TRUE
  /\ UNCHANGED <<on, main_pc, ops, timerVars, adcVars, quiet, late>>

(* adc_event_handler: the last sample is in.                               *)
adc_event_handler_KeepClock ==
  /\ adc' = "idle"
  /\ UNCHANGED hfclk

adc_event_handler ==
  /\ adc' = "idle"
  /\ hfclk' = FALSE

AdcDone ==
  /\ Running
  /\ adc = "sampling"
  /\ adc_event_handler
  /\ woken' = TRUE
  /\ UNCHANGED <<on, fault, queueVars, main_pc, ops, timerVars, advVars,
                 historyVars>>

-----------------------------------------------------------------------------
(***************************************************************************)
(* The main loop.                                                          *)
(***************************************************************************)

MainAt(pc) == Running /\ main_pc = pc /\ ops = <<>>

Unchanged_Irq == UNCHANGED <<woken, ops, timerVars, historyVars>>

(* app_sched_execute ends when the queue is empty.                         *)
app_sched_execute ==
  /\ MainAt("execute")
  /\ main_pc' = IF sched = <<>> THEN "wait" ELSE "handle"
  /\ UNCHANGED <<on, fault, queueVars, advVars, adcVars>>
  /\ Unchanged_Irq

(* sd_app_evt_wait returns at once when an interrupt has come since the    *)
(* last time.                                                              *)
EvtWait_Forgets ==
  /\ woken' = FALSE
  /\ UNCHANGED main_pc

EvtWait ==
  /\ woken
  /\ woken' = FALSE
  /\ main_pc' = "execute"

power_manage ==
  /\ MainAt("wait")
  /\ EvtWait
  /\ UNCHANGED <<on, fault, queueVars, ops, timerVars, advVars, adcVars,
                 historyVars>>

(* The handler of the head returns.                                        *)
HandlerReturns ==
  /\ sched' = Tail(sched)
  /\ main_pc' = "execute"

sleep_mode_enter ==
  /\ on' = FALSE
  /\ UNCHANGED <<fault, queueVars, main_pc, advVars, adcVars>>

shutdown_timeout_handler ==
  /\ MainAt("handle") /\ Head(sched) = "shutdown"
  /\ sleep_mode_enter
  /\ Unchanged_Irq

(* battery_level_update does not look at the result of its put.            *)
battery_level_meas_timeout_handler ==
  /\ MainAt("handle") /\ Head(sched) = "battery"
  /\ sched' = Tail(IF Len(sched) < SCHED_QUEUE_SIZE
                     THEN Append(sched, "adc_sample") ELSE sched)
  /\ main_pc' = "execute"
  /\ UNCHANGED <<on, fault, sdq, advVars, adcVars>>
  /\ Unchanged_Irq

(* adc_sample: the buffer is handed over first, then the crystal is        *)
(* requested and the samples are triggered.                                *)
adc_sample ==
  /\ MainAt("handle") /\ Head(sched) = "adc_sample"
  /\ IF adc = "idle"
       THEN /\ adc' = "armed" /\ main_pc' = "sample"
            /\ UNCHANGED fault
       ELSE fault' = TRUE /\ UNCHANGED <<adc, main_pc>>
  /\ UNCHANGED <<on, queueVars, advVars, hfclk>>
  /\ Unchanged_Irq

adc_sample_trigger ==
  /\ MainAt("sample")
  /\ \/ /\ ~hfclk
        /\ hfclk' = TRUE
        /\ UNCHANGED <<sched, main_pc, adc>>
     \/ /\ hfclk
        /\ adc' = "sampling"
        /\ HandlerReturns
        /\ UNCHANGED hfclk
  /\ UNCHANGED <<on, fault, sdq, advVars>>
  /\ Unchanged_Irq

(* The BLE events are polled until there are none; the advertising module  *)
(* reacts to three of them, and on_adv_evt switches off on the last.       *)
AdvertisingReacts(evt) ==
  \/ /\ evt = "DISCONNECTED" \/ (evt = "ADV_TIMEOUT" /\ adv = "fast")
     /\ adv' = IF evt = "DISCONNECTED" THEN "fast" ELSE "slow"
     /\ adv_left' = IF evt = "DISCONNECTED" THEN APP_ADV_FAST_TIMEOUT
                                            ELSE APP_ADV_SLOW_TIMEOUT
     /\ sdq' = Tail(sdq)
     /\ UNCHANGED <<on, fault, sched, main_pc, adcVars>>
  \/ /\ evt = "ADV_TIMEOUT" /\ adv = "slow"
     /\ sleep_mode_enter
  \/ /\ evt \in {"CONNECTED", "OTHER"}
     /\ sdq' = Tail(sdq)
     /\ UNCHANGED <<on, fault, sched, main_pc, advVars, adcVars>>

ble_evt_dispatch ==
  /\ MainAt("handle") /\ Head(sched) = "softdevice"
  /\ \/ /\ sdq # <<>>
        /\ AdvertisingReacts(Head(sdq))
     \/ /\ sdq = <<>>
        /\ HandlerReturns
        /\ UNCHANGED <<on, fault, sdq, advVars, adcVars>>
  /\ Unchanged_Irq

-----------------------------------------------------------------------------
(* An edge of the sense pin wakes the system from system-off: a reset.     *)
WakeUp == ~on /\ Booted

Reset == on /\ fault /\ Booted

MainStep ==
  \/ app_sched_execute \/ power_manage
  \/ shutdown_timeout_handler \/ battery_level_meas_timeout_handler
  \/ adc_sample \/ adc_sample_trigger \/ ble_evt_dispatch

Next ==
  \/ in_pin_handler \/ ProcessTimerOps \/ ServeTimeouts
  \/ Tick \/ SdEvent \/ AdcDone
  \/ MainStep
  \/ WakeUp \/ Reset

Spec == Init /\ [][Next]_vars

(***************************************************************************)
(* Fairness.  Time passes, the processor runs, pending interrupts are      *)
(* served and a conversion ends.  The main loop gets through the gaps      *)
(* between interrupts, hence SF; no edge and no event is assumed.          *)
(***************************************************************************)
LiveSpec ==
  /\ Spec
  /\ SF_vars(Tick) /\ WF_vars(AdcDone)
  /\ WF_vars(ProcessTimerOps) /\ WF_vars(ServeTimeouts)
  /\ SF_vars(MainStep)

-----------------------------------------------------------------------------
(* Every variable has its type, and the queues their limits.               *)
TypeOK ==
  /\ on \in BOOLEAN /\ fault \in BOOLEAN /\ woken \in BOOLEAN
  /\ sched \in Seq(Work) /\ Len(sched) <= SCHED_QUEUE_SIZE
  /\ sdq \in Seq(SdEvents) /\ Len(sdq) <= MaxSdEvents
  /\ ops \in Seq({"stop", "start"}) /\ Len(ops) <= APP_TIMER_OP_QUEUE_SIZE
  /\ main_pc \in {"execute", "handle", "sample", "wait"}
  /\ shutdown_left \in 0 .. INACTIVITY_SLEEP_DELAY
  /\ battery_left \in 0 .. BATTERY_LEVEL_MEAS_INTERVAL
  /\ expired \in SUBSET {"battery", "shutdown"}
  /\ adv \in {"fast", "slow", "link", "none"}
  /\ adv_left \in 0 .. Lonely
  /\ adc \in {"idle", "armed", "sampling"} /\ hfclk \in BOOLEAN
  /\ quiet \in 0 .. INACTIVITY_SLEEP_DELAY /\ lonely \in 0 .. Lonely
  /\ late \in BOOLEAN

(***************************************************************************)
(* The main loop never waits over work: whatever an interrupt queues       *)
(* between the last look at the queue and sd_app_evt_wait makes the wait   *)
(* return (main.c:72-75, my_ble_util.c:3-6).                               *)
(***************************************************************************)
WakeUpNotLost == main_pc = "wait" /\ sched # <<>> => woken

(***************************************************************************)
(* The shutdown timer measures inactivity: however edges, its expiries and *)
(* app_timer's deferred operations interleave, it has as long to run as    *)
(* inactivity still has to last, unless it has run out and its handler has *)
(* yet to be called (my_timers.c:32-48, my_keypad.c:69-73).                *)
(***************************************************************************)
TimerTracksQuiet ==
  Running /\ ops = <<>> /\ ~ShutdownDue =>
    shutdown_left = INACTIVITY_SLEEP_DELAY - quiet

(***************************************************************************)
(* The crystal is off whenever no measurement is under way                 *)
(* (my_battery.c:13, 62).                                                  *)
(***************************************************************************)
CrystalReleased == main_pc # "sample" /\ adc = "idle" => ~hfclk

(***************************************************************************)
(* The controller switches itself off as Inactivity allows: after the      *)
(* inactivity delay, or after advertising in vain, or when an edge came    *)
(* too late to stop it: its shutdown was queued, or app_timer queued it    *)
(* between the edge's stop and the interrupt that carries the stop out.    *)
(* An edge whose stop was carried out before the timer ran out, or after   *)
(* it but before the shutdown was queued, gives the whole delay again      *)
(* (my_timers.c:9-15, 42-48, my_ble_advertising.c:34-37).                  *)
(***************************************************************************)
Off == INSTANCE Inactivity WITH
  SleepDelay <- INACTIVITY_SLEEP_DELAY, LonelyDelay <- Lonely

SwitchesOffAsAllowed == Off!Spec

(***************************************************************************)
(* Left alone for the delay, the controller does switch off, unless it is  *)
(* touched or resets meanwhile (my_timers.c:9-15, 32-40).                  *)
(***************************************************************************)
InactivityEndsInSleep ==
  quiet = INACTIVITY_SLEEP_DELAY
    ~> ~on \/ fault \/ quiet < INACTIVITY_SLEEP_DELAY

(***************************************************************************)
(* Work queued by an interrupt is done: the main loop gets to the end of   *)
(* the queue or to the poll that serves it (main.c:72-75).                 *)
(***************************************************************************)
EventsArePolled == sdq # <<>> ~> sdq = <<>> \/ ~on \/ fault

=============================================================================
