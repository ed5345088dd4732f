----------------------------- MODULE PowerProofs -----------------------------
(***************************************************************************)
(* Invariants of Power for any sizes of the queues and any delays.         *)
(*                                                                         *)
(* No wake-up is lost and no measurement leaves the crystal on: both hold  *)
(* from step to step.                                                      *)
(*                                                                         *)
(* The shutdown timer measures inactivity: an edge leaves a stop and a     *)
(* start in the operation queue, so that its timer starts anew, and time   *)
(* does not pass before it does; until the timer runs out, one tick less   *)
(* is left for each tick of quiet.                                         *)
(*                                                                         *)
(* The system goes off only as Inactivity allows: the timer runs out when  *)
(* the delay ends, so that an edge after that finds it run out or its      *)
(* handler queued, and once app_timer has carried out the edge's stop only *)
(* the latter counts; and the time left of the two advertising timeouts is what is missing to *)
(* the time without a host, since a timeout is polled before time goes on  *)
(* and advertising starts only when the one loss that waits is polled.     *)
(***************************************************************************)
EXTENDS Power, TLAPS

(* The types the arguments need.                                           *)
Types ==
  /\ on \in BOOLEAN /\ fault \in BOOLEAN /\ woken \in BOOLEAN
  /\ sched \in Seq(Work)
  /\ ops \in Seq({"stop", "start"})
  /\ main_pc \in {"execute", "handle", "sample", "wait"}
  /\ shutdown_left \in Nat /\ quiet \in 0 .. INACTIVITY_SLEEP_DELAY
  /\ expired \in SUBSET {"battery", "shutdown"}

(* Both operations of each edge are there, and no time has passed since.   *)
Asked(op) == \E n \in 1 .. Len(ops) : ops[n] = op
PendingRestart == ops # <<>> => quiet = 0 /\ Asked("stop") /\ Asked("start")

(* A handler runs for the head of the scheduler's queue.                   *)
HeadHandled ==
  /\ main_pc \in {"handle", "sample"} => sched # <<>>
  /\ main_pc = "sample" => Head(sched) = "adc_sample"

TimerInv == Types /\ HeadHandled /\ PendingRestart /\ TimerTracksQuiet

(* The crystal is requested between arming and the end of a measurement.   *)
CrystalInv ==
  /\ adc = "idle" => ~hfclk
  /\ main_pc = "sample" => adc = "armed"

-----------------------------------------------------------------------------
(* Queues: what is in them after putting and taking.                       *)
LEMMA Concatenation ==
  ASSUME NEW S, NEW s \in Seq(S), NEW t \in Seq(S)
  PROVE  /\ s \o t \in Seq(S)
         /\ \A n \in 1 .. Len(s) : n \in 1 .. Len(s \o t) /\ (s \o t)[n] = s[n]
         /\ \A n \in 1 .. Len(t) :
              /\ n + Len(s) \in 1 .. Len(s \o t)
              /\ (s \o t)[n + Len(s)] = t[n]
OBVIOUS

In(v, s) == \E n \in 1 .. Len(s) : s[n] = v

LEMMA InConcatenation ==
  ASSUME NEW S, NEW s \in Seq(S), NEW t \in Seq(S), NEW v
  PROVE  In(v, s \o t) <=> In(v, s) \/ In(v, t)
<1>1. \A n \in 1 .. Len(s \o t) :
        \/ n \in 1 .. Len(s) /\ (s \o t)[n] = s[n]
        \/ n - Len(s) \in 1 .. Len(t) /\ (s \o t)[n] = t[n - Len(s)]
  OBVIOUS
<1>2. In(v, s \o t) => In(v, s) \/ In(v, t)
  BY <1>1 DEF In
<1>3. ASSUME NEW n \in 1 .. Len(s), s[n] = v PROVE In(v, s \o t)
  <2>1. n \in 1 .. Len(s \o t) /\ (s \o t)[n] = s[n]
    BY Concatenation
  <2> QED BY <1>3, <2>1 DEF In
<1>4. ASSUME NEW n \in 1 .. Len(t), t[n] = v PROVE In(v, s \o t)
  <2>1. n + Len(s) \in 1 .. Len(s \o t) /\ (s \o t)[n + Len(s)] = t[n]
    BY Concatenation
  <2> QED BY <1>4, <2>1 DEF In
<1> QED BY <1>2, <1>3, <1>4 DEF In

LEMMA Head_Tail ==
  ASSUME NEW S, NEW s \in Seq(S), s # <<>>
  PROVE  /\ Head(s) \in S /\ Tail(s) \in Seq(S)
         /\ \A n \in 1 .. Len(s) :
              \/ n = 1 /\ s[n] = Head(s)
              \/ n - 1 \in 1 .. Len(Tail(s)) /\ Tail(s)[n - 1] = s[n]
OBVIOUS

(* Work queued stays queued when more is put.                              *)
LEMMA PutKeeps ==
  ASSUME Types, NEW work \in Seq(Work), PutAll(work)
  PROVE  /\ sched' \in Seq(Work) /\ fault' \in BOOLEAN
         /\ sched # <<>> => sched' # <<>> /\ Head(sched') = Head(sched)
         /\ \A w : Queued(w) => Queued(w)'
         /\ ~fault' => \A n \in 1 .. Len(work) : Queued(work[n])'
<1>1. CASE sched' = sched \o work /\ fault' = fault
  <2>1. sched \in Seq(Work)
    BY DEF Types
  <2>2. /\ sched' \in Seq(Work)
        /\ \A n \in 1 .. Len(sched) :
             n \in 1 .. Len(sched') /\ sched'[n] = sched[n]
        /\ \A n \in 1 .. Len(work) :
             n + Len(sched) \in 1 .. Len(sched')
               /\ sched'[n + Len(sched)] = work[n]
    BY <1>1, <2>1, Concatenation
  <2>3. \A w : Queued(w) => Queued(w)'
    BY <2>2 DEF Queued
  <2>4. sched # <<>> => sched' # <<>> /\ Head(sched') = Head(sched)
    <3> SUFFICES ASSUME sched # <<>>
                 PROVE  sched' # <<>> /\ Head(sched') = Head(sched)
      OBVIOUS
    <3>1. 1 \in 1 .. Len(sched)
      BY <2>1
    <3>2. 1 \in 1 .. Len(sched') /\ sched'[1] = sched[1]
      BY <2>2, <3>1
    <3> QED BY <2>2, <3>2
  <2>5. \A n \in 1 .. Len(work) : Queued(work[n])'
    BY <2>2 DEF Queued
  <2> QED BY <1>1, <2>2, <2>3, <2>4, <2>5 DEF Types
<1>2. CASE sched' = sched /\ fault' = TRUE
  BY <1>2 DEF Types, Queued
<1> QED BY <1>1, <1>2 DEF PutAll

(* Handling the head leaves the other work queued.                         *)
LEMMA HandlerKeeps ==
  ASSUME Types, sched # <<>>, sched' = Tail(sched)
  PROVE  /\ sched' \in Seq(Work)
         /\ \A w : w # Head(sched) /\ Queued(w) => Queued(w)'
BY Head_Tail DEF Types, Queued

-----------------------------------------------------------------------------
(* An edge asks for both operations, or the queue is full and the system   *)
(* resets.                                                                 *)
LEMMA EdgeRestarts ==
  ASSUME TimerInv, in_pin_handler
  PROVE  TimerInv'
<1> DEFINE pair == <<"stop", "start">>
           Op == {"stop", "start"}
<1>1. quiet' = 0 /\ quiet' \in 0 .. INACTIVITY_SLEEP_DELAY
  BY PowerAssumption DEF in_pin_handler
<1>2. /\ UNCHANGED <<on, sched, main_pc, shutdown_left, expired>>
      /\ woken' = TRUE
  BY DEF in_pin_handler, queueVars, timerVars
<1>3. CASE ops' = ops \o pair /\ fault' = fault
  <2>1. ops \in Seq(Op) /\ pair \in Seq(Op)
    BY DEF TimerInv, Types
  <2>2. ops' \in Seq(Op)
    BY <1>3, <2>1, Concatenation
  <2>3. /\ 1 \in 1 .. Len(pair) /\ pair[1] = "stop"
        /\ 2 \in 1 .. Len(pair) /\ pair[2] = "start"
    OBVIOUS
  <2> HIDE DEF pair
  <2>4. \A n \in 1 .. Len(pair) :
          n + Len(ops) \in 1 .. Len(ops') /\ ops'[n + Len(ops)] = pair[n]
    BY <1>3, <2>1, Concatenation
  <2>5. Asked("stop")' /\ Asked("start")'
    BY <2>3, <2>4 DEF Asked
  <2>6. ops' # <<>>
    BY <2>5 DEF Asked
  <2> QED BY <1>1, <1>2, <1>3, <2>2, <2>5, <2>6
          DEF TimerInv, Types, HeadHandled, PendingRestart, TimerTracksQuiet
<1>4. CASE ops' = ops /\ fault' = TRUE
  BY <1>1, <1>2, <1>4
  DEF TimerInv, Types, HeadHandled, PendingRestart, Asked, TimerTracksQuiet,
      Running
<1> QED BY <1>3, <1>4 DEF in_pin_handler, reset_shutdown_timer

(* app_timer starts the timer anew.                                        *)
LEMMA OpsRestart ==
  ASSUME TimerInv, ProcessTimerOps
  PROVE  TimerInv'
<1>1. quiet = 0 /\ shutdown_left' = INACTIVITY_SLEEP_DELAY
  BY DEF ProcessTimerOps, TimerInv, PendingRestart, Asked
<1>2. /\ UNCHANGED <<on, fault, sched, main_pc, quiet>>
      /\ woken' = TRUE /\ ops' = <<>>
      /\ expired' \in SUBSET {"battery", "shutdown"}
  BY DEF ProcessTimerOps, queueVars, TimerInv, Types
<1>3. Types' /\ HeadHandled' /\ PendingRestart'
  BY <1>1, <1>2, PowerAssumption DEF TimerInv, Types, HeadHandled, PendingRestart
<1>4. shutdown_left' = INACTIVITY_SLEEP_DELAY - quiet'
  BY <1>1, <1>2, PowerAssumption
<1> QED BY <1>3, <1>4 DEF TimerInv, TimerTracksQuiet

(* What app_timer puts on the queue.                                       *)
TimeoutWork ==
  (IF "battery" \in expired THEN <<"battery">> ELSE <<>>)
    \o (IF "shutdown" \in expired THEN <<"shutdown">> ELSE <<>>)

LEMMA TimeoutWorkIsWork ==
  /\ TimeoutWork \in Seq(Work)
  /\ In("shutdown", TimeoutWork) <=> "shutdown" \in expired
<1> DEFINE part(expires, w) == IF expires THEN <<w>> ELSE <<>>
<1>1. \A w \in Work : \A b \in BOOLEAN :
        /\ part(b, w) \in Seq(Work)
        /\ \A v : In(v, part(b, w)) <=> b /\ v = w
  <2> SUFFICES ASSUME NEW w \in Work, NEW b \in BOOLEAN
               PROVE  /\ part(b, w) \in Seq(Work)
                      /\ \A v : In(v, part(b, w)) <=> b /\ v = w
    OBVIOUS
  <2>1. CASE b
    <3>1. Len(<<w>>) = 1 /\ <<w>>[1] = w /\ 1 .. 1 = {1}
      OBVIOUS
    <3> QED BY <2>1, <3>1 DEF In
  <2>2. CASE ~b
    BY <2>2 DEF In
  <2> QED BY <2>1, <2>2
<1>2. {"battery", "shutdown"} \subseteq Work
  BY DEF Work
<1> DEFINE b1 == part("battery" \in expired, "battery")
           b2 == part("shutdown" \in expired, "shutdown")
<1>3. /\ b1 \in Seq(Work) /\ b2 \in Seq(Work)
      /\ ~In("shutdown", b1)
      /\ In("shutdown", b2) <=> "shutdown" \in expired
  BY <1>1, <1>2
<1>4. TimeoutWork = b1 \o b2
  BY DEF TimeoutWork
<1> HIDE DEF b1, b2
<1> QED BY <1>3, <1>4, Concatenation, InConcatenation

(* What a tick may put on the queue.                                       *)
LEMMA TickQueues ==
  ASSUME Tick
  PROVE  /\ sched = <<>> /\ sched' \in Seq(Work) /\ ~Queued("shutdown")'
         /\ sched' = <<>> \/ (sched' = <<"softdevice">> /\ woken' = TRUE)
<1>1. /\ sched = <<>>
      /\ sched' = <<>> \/ (sched' = <<"softdevice">> /\ woken' = TRUE)
  BY DEF Tick, queueVars
<1>2. "softdevice" \in Work /\ "softdevice" # "shutdown"
  BY DEF Work
<1>3. CASE sched' = <<>>
  BY <1>1, <1>3 DEF Queued
<1>4. CASE sched' = <<"softdevice">>
  <2>1. Len(sched') = 1 /\ sched'[1] = "softdevice" /\ 1 .. 1 = {1}
        /\ sched' \in Seq(Work)
    BY <1>2, <1>4
  <2> QED BY <1>1, <1>2, <1>4, <2>1 DEF Queued
<1> QED BY <1>1, <1>3, <1>4

(* A tick takes one off the timer, or it runs out.                         *)
LEMMA TickCounts ==
  ASSUME TimerInv, Tick
  PROVE  TimerInv'
<1> DEFINE D == INACTIVITY_SLEEP_DELAY
<1>1. /\ sched = <<>> /\ ops = <<>> /\ expired = {} /\ Running
      /\ shutdown_left' = Repeated(shutdown_left, D)
      /\ quiet' = AtMost(quiet + 1, D)
      /\ UNCHANGED <<on, fault, main_pc, ops>> /\ main_pc = "wait"
      /\ woken' \in BOOLEAN
      /\ expired' \in SUBSET {"battery", "shutdown"}
      /\ Expires(shutdown_left) => "shutdown" \in expired'
  BY DEF Tick, TimerInv, Types
<1>2. sched' \in Seq(Work)
  BY TickQueues
<1>3. ~ShutdownDue
  BY <1>1 DEF ShutdownDue, Queued
<1>4. /\ quiet \in 0 .. D /\ D \in Nat \ {0} /\ shutdown_left \in Nat
      /\ shutdown_left = D - quiet
  BY <1>1, <1>3, PowerAssumption DEF TimerInv, Types, TimerTracksQuiet
<1>5. quiet' \in 0 .. D /\ shutdown_left' \in Nat
  BY <1>1, <1>4 DEF AtMost, Repeated, Passed, Expires
<1>6. Types' /\ HeadHandled' /\ PendingRestart'
  BY <1>1, <1>2, <1>5 DEF TimerInv, Types, HeadHandled, PendingRestart
<1>7. ~Expires(shutdown_left) => shutdown_left' = D - quiet'
  BY <1>1, <1>4 DEF AtMost, Repeated, Passed, Expires
<1>8. Expires(shutdown_left) => ShutdownDue'
  BY <1>1 DEF ShutdownDue
<1> QED BY <1>6, <1>7, <1>8 DEF TimerInv, TimerTracksQuiet

(* app_timer queues the handlers of the timers that have run out.          *)
LEMMA ServeKeeps ==
  ASSUME TimerInv, ServeTimeouts
  PROVE  TimerInv'
<1>1. /\ PutAll(TimeoutWork) /\ expired' = {} /\ woken' = TRUE
      /\ UNCHANGED <<on, main_pc, ops, shutdown_left, quiet>>
  BY DEF ServeTimeouts, TimeoutWork, historyVars
<1>2. "shutdown" \in expired
        => \E n \in 1 .. Len(TimeoutWork) : TimeoutWork[n] = "shutdown"
  BY TimeoutWorkIsWork DEF In
<1>3. /\ sched' \in Seq(Work) /\ fault' \in BOOLEAN
      /\ sched # <<>> => sched' # <<>> /\ Head(sched') = Head(sched)
      /\ Queued("shutdown") => Queued("shutdown")'
      /\ "shutdown" \in expired /\ ~fault' => Queued("shutdown")'
  BY <1>1, <1>2, PutKeeps, TimeoutWorkIsWork DEF TimerInv
<1>4. Types' /\ HeadHandled' /\ PendingRestart'
  BY <1>1, <1>3 DEF TimerInv, Types, HeadHandled, PendingRestart, Asked
<1>5. Running' /\ ~ShutdownDue' => Running /\ ~ShutdownDue
  BY <1>1, <1>3 DEF Running, ShutdownDue, ServeTimeouts
<1> QED BY <1>1, <1>4, <1>5 DEF TimerInv, TimerTracksQuiet

(* Steps that change neither the timer nor quiet, and take no shutdown off *)
(* the queue unless the system goes off.                                   *)
LEMMA OthersKeep ==
  ASSUME TimerInv, Types', HeadHandled',
         UNCHANGED <<ops, shutdown_left, expired, quiet>>,
         Running' => Running,
         Running' /\ Queued("shutdown") => Queued("shutdown")'
  PROVE  TimerInv'
BY DEF TimerInv, PendingRestart, Asked, TimerTracksQuiet, ShutdownDue

LEMMA SdEventKeeps ==
  ASSUME TimerInv, SdEvent
  PROVE  TimerInv'
<1>1. /\ PutAll(<<"softdevice">>) /\ woken' = TRUE
      /\ UNCHANGED <<on, main_pc, ops, shutdown_left, expired, quiet>> /\ Running
  BY DEF SdEvent, timerVars
<1>2. <<"softdevice">> \in Seq(Work)
  BY DEF Work
<1>3. /\ sched' \in Seq(Work) /\ fault' \in BOOLEAN
      /\ sched # <<>> => sched' # <<>> /\ Head(sched') = Head(sched)
      /\ Queued("shutdown") => Queued("shutdown")'
  BY <1>1, <1>2, PutKeeps DEF TimerInv
<1>4. Types' /\ HeadHandled'
  BY <1>1, <1>3 DEF TimerInv, Types, HeadHandled
<1> QED BY <1>1, <1>3, <1>4, OthersKeep

LEMMA AdcDoneKeeps ==
  ASSUME TimerInv, AdcDone
  PROVE  TimerInv'
<1>1. /\ UNCHANGED <<on, fault, sched, main_pc, ops, shutdown_left, expired,
                    quiet>>
      /\ woken' = TRUE
  BY DEF AdcDone, queueVars, timerVars, historyVars
<1>2. Types' /\ HeadHandled'
  BY <1>1 DEF TimerInv, Types, HeadHandled
<1> QED BY <1>1, <1>2, OthersKeep DEF Queued, Running

(* The main loop: it looks at the queue, goes off, or takes the head off.  *)
LEMMA LookKeeps ==
  ASSUME TimerInv, app_sched_execute \/ power_manage
  PROVE  TimerInv'
<1>1. /\ UNCHANGED <<on, fault, sched, ops, shutdown_left, expired, quiet>>
      /\ woken' \in BOOLEAN
      /\ main_pc' \in {"execute", "handle", "wait"}
      /\ main_pc' = "handle" => sched # <<>>
  BY DEF app_sched_execute, power_manage, EvtWait, MainAt, queueVars, timerVars,
     historyVars, Unchanged_Irq, TimerInv, Types
<1>2. Types' /\ HeadHandled'
  BY <1>1 DEF TimerInv, Types, HeadHandled
<1> QED BY <1>1, <1>2, OthersKeep DEF Queued, Running

(* The steps of handlers that do not return.                               *)
LEMMA HandlerStepKeeps ==
  ASSUME TimerInv, sched' = sched, fault' \in BOOLEAN, on' \in BOOLEAN,
         Running' => Running,
         UNCHANGED <<woken, ops, shutdown_left, expired, quiet>>,
         \/ main_pc' = main_pc
         \/ main_pc' = "sample" /\ sched # <<>> /\ Head(sched) = "adc_sample"
  PROVE  TimerInv'
<1>1. Types' /\ HeadHandled'
  BY DEF TimerInv, Types, HeadHandled
<1> QED BY <1>1, OthersKeep DEF Queued

(* The steps in which one returns.                                         *)
LEMMA HandlerReturnKeeps ==
  ASSUME TimerInv, sched # <<>>, Head(sched) # "shutdown", HandlerReturns,
         UNCHANGED <<on, fault, woken, ops, shutdown_left, expired, quiet>>
  PROVE  TimerInv'
<1>1. /\ sched' = Tail(sched) /\ main_pc' = "execute"
  BY DEF HandlerReturns
<1>2. sched' \in Seq(Work) /\ (Queued("shutdown") => Queued("shutdown")')
  BY <1>1, HandlerKeeps DEF TimerInv
<1>3. Types' /\ HeadHandled'
  BY <1>1, <1>2 DEF TimerInv, Types, HeadHandled
<1> QED BY <1>2, <1>3, OthersKeep DEF Running

LEMMA BatteryHandlerKeeps ==
  ASSUME TimerInv, battery_level_meas_timeout_handler
  PROVE  TimerInv'
<1> DEFINE longer == Append(sched, "adc_sample")
<1>1. /\ sched # <<>> /\ Head(sched) = "battery" /\ main_pc' = "execute"
      /\ UNCHANGED <<on, fault, woken, ops, shutdown_left, expired, quiet>>
      /\ sched' = Tail(sched) \/ sched' = Tail(longer)
  BY DEF battery_level_meas_timeout_handler, MainAt, Unchanged_Irq, timerVars,
     historyVars, TimerInv, HeadHandled
<1>2. CASE sched' = Tail(sched)
  BY <1>1, <1>2, HandlerReturnKeeps DEF HandlerReturns
<1>3. CASE sched' = Tail(longer)
  <2>1. sched \in Seq(Work) /\ "adc_sample" \in Work
    BY DEF TimerInv, Types, Work
  <2>2. /\ longer \in Seq(Work) /\ longer # <<>>
        /\ Head(longer) = Head(sched)
        /\ \A n \in 1 .. Len(sched) :
             n \in 1 .. Len(longer) /\ longer[n] = sched[n]
    BY <1>1, <2>1
  <2> HIDE DEF longer
  <2>3. /\ Tail(longer) \in Seq(Work)
        /\ \A n \in 1 .. Len(longer) :
             \/ n = 1 /\ longer[n] = Head(longer)
             \/ n - 1 \in 1 .. Len(Tail(longer)) /\ Tail(longer)[n - 1] = longer[n]
    BY <2>2, Head_Tail
  <2>4. Queued("shutdown") => Queued("shutdown")'
    BY <1>1, <1>3, <2>2, <2>3 DEF Queued
  <2>5. Types' /\ HeadHandled'
    BY <1>1, <1>3, <2>3 DEF TimerInv, Types, HeadHandled
  <2> QED BY <1>1, <2>4, <2>5, OthersKeep DEF Running
<1> QED BY <1>1, <1>2, <1>3

LEMMA MainKeeps ==
  ASSUME TimerInv, MainStep
  PROVE  TimerInv'
<1>1. ASSUME MainAt("handle") \/ MainAt("sample")
      PROVE  sched # <<>> /\ Running /\ on \in BOOLEAN /\ fault \in BOOLEAN
  BY <1>1 DEF MainAt, TimerInv, Types, HeadHandled
<1>2. CASE app_sched_execute \/ power_manage
  BY <1>2, LookKeeps
<1>3. CASE shutdown_timeout_handler
  BY <1>1, <1>3, HandlerStepKeeps
  DEF shutdown_timeout_handler, sleep_mode_enter, Unchanged_Irq, queueVars,
      timerVars, historyVars
<1>4. CASE battery_level_meas_timeout_handler
  BY <1>4, BatteryHandlerKeeps
<1>5. CASE adc_sample
  BY <1>1, <1>5, HandlerStepKeeps
  DEF adc_sample, Unchanged_Irq, queueVars, timerVars, historyVars
<1>6. CASE adc_sample_trigger
  <2>1. sched # <<>> /\ Head(sched) # "shutdown" /\ Running
    BY <1>1, <1>6 DEF adc_sample_trigger, MainAt, TimerInv, HeadHandled
  <2>2. UNCHANGED <<on, fault, woken, ops, shutdown_left, expired, quiet>>
    BY <1>6 DEF adc_sample_trigger, Unchanged_Irq, timerVars, historyVars
  <2>3. (sched' = sched /\ main_pc' = main_pc) \/ HandlerReturns
    BY <1>6 DEF adc_sample_trigger
  <2> QED BY <2>1, <2>2, <2>3, HandlerStepKeeps, HandlerReturnKeeps
          DEF TimerInv, Types, Running
<1>7. CASE ble_evt_dispatch
  <2>1. sched # <<>> /\ Head(sched) # "shutdown" /\ Running
        /\ on \in BOOLEAN /\ fault \in BOOLEAN
    BY <1>1, <1>7 DEF ble_evt_dispatch
  <2>2. UNCHANGED <<fault, woken, ops, shutdown_left, expired, quiet>>
    BY <1>7 DEF ble_evt_dispatch, AdvertisingReacts, sleep_mode_enter,
       Unchanged_Irq, timerVars, historyVars
  <2>3. \/ sched' = sched /\ main_pc' = main_pc /\ on' \in {on, FALSE}
        \/ HandlerReturns /\ on' = on
    BY <1>7 DEF ble_evt_dispatch, AdvertisingReacts, sleep_mode_enter, queueVars
  <2> QED BY <2>1, <2>2, <2>3, HandlerStepKeeps, HandlerReturnKeeps DEF Running
<1> QED BY <1>2, <1>3, <1>4, <1>5, <1>6, <1>7 DEF MainStep

LEMMA BootStartsTimer == Booted => TimerInv'
<1> SUFFICES ASSUME Booted PROVE TimerInv'
  OBVIOUS
<1>1. Types'
  <2>1. on' \in BOOLEAN /\ fault' \in BOOLEAN /\ woken' \in BOOLEAN
    BY DEF Booted
  <2>2. sched' \in Seq(Work) /\ ops' \in Seq({"stop", "start"})
    BY DEF Booted
  <2>3. /\ main_pc' \in {"execute", "handle", "sample", "wait"}
        /\ shutdown_left' \in Nat /\ quiet' \in 0 .. INACTIVITY_SLEEP_DELAY
        /\ expired' \in SUBSET {"battery", "shutdown"}
    BY PowerAssumption DEF Booted
  <2> QED BY <2>1, <2>2, <2>3 DEF Types
<1>2. HeadHandled' /\ PendingRestart'
  BY DEF Booted, HeadHandled, PendingRestart
<1>3. shutdown_left' = INACTIVITY_SLEEP_DELAY - quiet'
  BY PowerAssumption DEF Booted
<1> QED BY <1>1, <1>2, <1>3 DEF TimerInv, TimerTracksQuiet

LEMMA InitStartsTimer == Init => TimerInv
<1> SUFFICES ASSUME Init PROVE TimerInv
  OBVIOUS
<1>1. Types
  <2>1. on \in BOOLEAN /\ fault \in BOOLEAN /\ woken \in BOOLEAN
    BY DEF Init
  <2>2. sched \in Seq(Work) /\ ops \in Seq({"stop", "start"})
    BY DEF Init
  <2>3. /\ main_pc \in {"execute", "handle", "sample", "wait"}
        /\ shutdown_left \in Nat /\ quiet \in 0 .. INACTIVITY_SLEEP_DELAY
        /\ expired \in SUBSET {"battery", "shutdown"}
    BY PowerAssumption DEF Init
  <2> QED BY <2>1, <2>2, <2>3 DEF Types
<1>2. HeadHandled /\ PendingRestart
  BY DEF Init, HeadHandled, PendingRestart
<1>3. shutdown_left = INACTIVITY_SLEEP_DELAY - quiet
  BY PowerAssumption DEF Init
<1> QED BY <1>1, <1>2, <1>3 DEF TimerInv, TimerTracksQuiet

LEMMA TimerStep == TimerInv /\ [Next]_vars => TimerInv'
<1> SUFFICES ASSUME TimerInv, [Next]_vars PROVE TimerInv'
  OBVIOUS
<1>1. CASE in_pin_handler
  BY <1>1, EdgeRestarts
<1>2. CASE ProcessTimerOps
  BY <1>2, OpsRestart
<1>3. CASE Tick
  BY <1>3, TickCounts
<1>4. CASE SdEvent
  BY <1>4, SdEventKeeps
<1>5. CASE AdcDone
  BY <1>5, AdcDoneKeeps
<1>6. CASE MainStep
  BY <1>6, MainKeeps
<1>7. CASE WakeUp \/ Reset
  BY <1>7, BootStartsTimer DEF WakeUp, Reset
<1>8. CASE UNCHANGED vars
  BY <1>8 DEF vars, queueVars, timerVars, historyVars, TimerInv, Types,
     HeadHandled, PendingRestart, Asked, TimerTracksQuiet, Running, Queued,
     ShutdownDue
<1>9. CASE ServeTimeouts
  BY <1>9, ServeKeeps
<1> QED BY <1>1, <1>2, <1>3, <1>4, <1>5, <1>6, <1>7, <1>8, <1>9 DEF Next

(* The shutdown timer measures inactivity: as long as it has not run out   *)
(* and app_timer has nothing to do, it has as long to run as inactivity    *)
(* still has to last (my_timers.c:32-48, my_keypad.c:69-73), for any       *)
(* delays and sizes of the queues.                                         *)
THEOREM TimerMeasuresInactivity == Spec => []TimerTracksQuiet
<1>1. TimerInv => TimerTracksQuiet
  BY DEF TimerInv
<1> QED BY <1>1, InitStartsTimer, TimerStep, PTL DEF Spec

-----------------------------------------------------------------------------
(* The main loop never waits over work (main.c:72-75, my_ble_util.c:3-6):  *)
(* it begins to wait with an empty queue, and who puts work in wakes it.   *)
THEOREM NoWakeUpIsLost == Spec => []WakeUpNotLost
<1>1. Init => WakeUpNotLost
  BY DEF Init, WakeUpNotLost
<1>2. WakeUpNotLost /\ [Next]_vars => WakeUpNotLost'
  <2> SUFFICES ASSUME WakeUpNotLost, [Next]_vars PROVE WakeUpNotLost'
    OBVIOUS
  <2>1. CASE \/ in_pin_handler \/ ProcessTimerOps \/ ServeTimeouts \/ SdEvent
             \/ AdcDone
    BY <2>1 DEF in_pin_handler, ProcessTimerOps, ServeTimeouts, SdEvent, AdcDone,
       WakeUpNotLost
  <2>2. CASE app_sched_execute \/ power_manage
    BY <2>2 DEF app_sched_execute, power_manage, EvtWait, queueVars, WakeUpNotLost
  <2>3. CASE \/ shutdown_timeout_handler \/ battery_level_meas_timeout_handler
             \/ adc_sample \/ adc_sample_trigger \/ ble_evt_dispatch
    BY <2>3 DEF shutdown_timeout_handler, battery_level_meas_timeout_handler,
       adc_sample, adc_sample_trigger, ble_evt_dispatch, AdvertisingReacts,
       sleep_mode_enter, HandlerReturns, MainAt, WakeUpNotLost
  <2>4. CASE WakeUp \/ Reset
    BY <2>4 DEF WakeUp, Reset, Booted, WakeUpNotLost
  <2>5. CASE UNCHANGED vars
    BY <2>5 DEF vars, queueVars, WakeUpNotLost
  <2>6. CASE Tick
    BY <2>6, TickQueues DEF WakeUpNotLost
  <2> QED BY <2>1, <2>2, <2>3, <2>4, <2>5, <2>6 DEF Next, MainStep
<1> QED BY <1>1, <1>2, PTL DEF Spec

(* The crystal is off whenever no measurement is under way                 *)
(* (my_battery.c:13, 62).                                                  *)
THEOREM CrystalIsReleased == Spec => []CrystalReleased
<1>1. Init => CrystalInv
  BY DEF Init, CrystalInv
<1>2. CrystalInv /\ [Next]_vars => CrystalInv'
  <2> SUFFICES ASSUME CrystalInv, [Next]_vars PROVE CrystalInv'
    OBVIOUS
  <2>1. CASE UNCHANGED <<adc, hfclk, main_pc>>
    BY <2>1 DEF CrystalInv
  <2>2. CASE AdcDone
    BY <2>2 DEF AdcDone, adc_event_handler, CrystalInv
  <2>3. CASE adc_sample
    BY <2>3 DEF adc_sample, MainAt, CrystalInv
  <2>4. CASE adc_sample_trigger
    BY <2>4 DEF adc_sample_trigger, HandlerReturns, MainAt, CrystalInv
  <2>5. CASE UNCHANGED adcVars /\ main_pc' # "sample"
    BY <2>5 DEF adcVars, CrystalInv
  <2>6. CASE \/ in_pin_handler \/ ProcessTimerOps \/ ServeTimeouts \/ Tick
             \/ SdEvent
    BY <2>1, <2>6 DEF in_pin_handler, ProcessTimerOps, ServeTimeouts, Tick,
       SdEvent, adcVars
  <2>7. CASE app_sched_execute \/ power_manage \/ battery_level_meas_timeout_handler
    BY <2>5, <2>7 DEF app_sched_execute, power_manage, EvtWait,
       battery_level_meas_timeout_handler
  <2>8. CASE shutdown_timeout_handler
    BY <2>1, <2>8 DEF shutdown_timeout_handler, sleep_mode_enter, adcVars
  <2>9. CASE ble_evt_dispatch
    BY <2>1, <2>5, <2>9 DEF ble_evt_dispatch, AdvertisingReacts,
       sleep_mode_enter, HandlerReturns, adcVars
  <2>10. CASE WakeUp \/ Reset
    BY <2>10 DEF WakeUp, Reset, Booted, CrystalInv
  <2>11. CASE UNCHANGED vars
    BY <2>1, <2>11 DEF vars, adcVars
  <2> QED BY <2>2, <2>3, <2>4, <2>6, <2>7, <2>8, <2>9, <2>10, <2>11
          DEF Next, MainStep
<1>3. CrystalInv => CrystalReleased
  BY DEF CrystalInv, CrystalReleased
<1> QED BY <1>1, <1>2, <1>3, PTL DEF Spec

-----------------------------------------------------------------------------
(* The limits of the queues and of the times that are left.                *)

QueuesBounded ==
  Len(sched) <= SCHED_QUEUE_SIZE /\ Len(ops) <= APP_TIMER_OP_QUEUE_SIZE

(* Both repeated timers run at all times: a stop of the shutdown timer     *)
(* comes with a start.                                                     *)
TimersRun ==
  /\ shutdown_left \in 1 .. INACTIVITY_SLEEP_DELAY
  /\ battery_left \in 1 .. BATTERY_LEVEL_MEAS_INTERVAL

AdcTypes ==
  /\ adc \in {"idle", "armed", "sampling"} /\ hfclk \in BOOLEAN
  /\ late \in BOOLEAN

LEMMA PutBounded ==
  ASSUME Types, QueuesBounded, NEW work \in Seq(Work), PutAll(work)
  PROVE  Len(sched') <= SCHED_QUEUE_SIZE
<1>1. CASE /\ Len(sched) + Len(work) <= SCHED_QUEUE_SIZE
           /\ sched' = sched \o work
  BY <1>1 DEF Types
<1>2. CASE UNCHANGED sched
  BY <1>2 DEF QueuesBounded
<1> QED BY <1>1, <1>2 DEF PutAll

LEMMA QueuesBoundedStep ==
  ASSUME TimerInv, QueuesBounded, [Next]_vars
  PROVE  QueuesBounded'
<1> USE DEF QueuesBounded
<1>1. Types
  BY DEF TimerInv
<1>2. CASE in_pin_handler
  <2>1. UNCHANGED sched
    BY <1>2 DEF in_pin_handler, queueVars
  <2>2. CASE UNCHANGED ops
    BY <2>1, <2>2
  <2>3. CASE /\ Len(ops) + 2 <= APP_TIMER_OP_QUEUE_SIZE
             /\ ops' = ops \o <<"stop", "start">>
    BY <1>1, <2>1, <2>3 DEF Types
  <2> QED BY <1>2, <2>2, <2>3 DEF in_pin_handler, reset_shutdown_timer
<1>3. CASE ProcessTimerOps
  BY <1>3, PowerAssumption DEF ProcessTimerOps, queueVars
<1>4. CASE Tick
  <2>1. UNCHANGED ops
    BY <1>4 DEF Tick
  <2>2. CASE sched' = <<>>
    BY <2>1, <2>2, PowerAssumption
  <2>3. CASE sched' = <<"softdevice">>
    <3>1. Len(sched') = 1
      BY <2>3
    <3> QED BY <2>1, <3>1, PowerAssumption
  <2> QED BY <1>4, <2>2, <2>3, TickQueues
<1>14. CASE ServeTimeouts
  BY <1>1, <1>14, PutBounded, TimeoutWorkIsWork DEF ServeTimeouts, TimeoutWork
<1>5. CASE SdEvent
  <2>1. <<"softdevice">> \in Seq(Work)
    BY DEF Work
  <2> QED BY <1>1, <1>5, <2>1, PutBounded DEF SdEvent
<1>6. CASE UNCHANGED <<sched, ops>>
  BY <1>6
<1>7. CASE sched' = Tail(sched) /\ sched # <<>> /\ UNCHANGED ops
  BY <1>1, <1>7, PowerAssumption DEF Types
<1>8. CASE battery_level_meas_timeout_handler
  <2>1. sched # <<>> /\ UNCHANGED ops
    BY <1>8 DEF battery_level_meas_timeout_handler, MainAt, TimerInv,
                HeadHandled, Unchanged_Irq
  <2>2. CASE sched' = Tail(sched)
    BY <1>7, <2>1, <2>2
  <2>3. CASE Len(sched) < SCHED_QUEUE_SIZE /\ sched' = Tail(Append(sched, "adc_sample"))
    <3>1. Len(sched') = Len(sched)
      BY <1>1, <2>3 DEF Types
    <3> QED BY <2>1, <2>3, <3>1
  <2> QED BY <1>8, <2>2, <2>3 DEF battery_level_meas_timeout_handler
<1>9. CASE AdcDone \/ app_sched_execute \/ power_manage
             \/ shutdown_timeout_handler \/ adc_sample
  BY <1>6, <1>9
  DEF AdcDone, app_sched_execute, power_manage, shutdown_timeout_handler,
      sleep_mode_enter, adc_sample, queueVars, Unchanged_Irq
<1>10. CASE adc_sample_trigger
  BY <1>6, <1>7, <1>10
  DEF adc_sample_trigger, HandlerReturns, MainAt, TimerInv, HeadHandled,
      Unchanged_Irq
<1>11. CASE ble_evt_dispatch
  BY <1>6, <1>7, <1>11
  DEF ble_evt_dispatch, AdvertisingReacts, sleep_mode_enter, HandlerReturns,
      MainAt, TimerInv, HeadHandled, Unchanged_Irq, queueVars
<1>12. CASE WakeUp \/ Reset
  BY <1>12, PowerAssumption DEF WakeUp, Reset, Booted
<1>13. CASE UNCHANGED vars
  BY <1>6, <1>13 DEF vars, queueVars
<1> QED
  BY <1>2, <1>3, <1>4, <1>5, <1>8, <1>9, <1>10, <1>11, <1>12, <1>13, <1>14
  DEF Next, MainStep

LEMMA TimersRunStep ==
  ASSUME TimerInv, TimersRun, [Next]_vars
  PROVE  TimersRun'
<1> USE DEF TimersRun
<1>1. CASE ProcessTimerOps
  BY <1>1, OpsRestart, PowerAssumption
  DEF ProcessTimerOps, TimerInv, PendingRestart, Asked
<1>2. CASE Tick
  BY <1>2, PowerAssumption DEF Tick, Repeated, Passed, Expires
<1>3. CASE UNCHANGED timerVars
  BY <1>3 DEF timerVars
<1>4. CASE in_pin_handler \/ ServeTimeouts \/ SdEvent \/ AdcDone
  BY <1>3, <1>4 DEF in_pin_handler, ServeTimeouts, SdEvent, AdcDone, timerVars
<1>5. CASE MainStep
  BY <1>3, <1>5
  DEF MainStep, app_sched_execute, power_manage, shutdown_timeout_handler,
      battery_level_meas_timeout_handler, adc_sample, adc_sample_trigger,
      ble_evt_dispatch, Unchanged_Irq
<1>6. CASE WakeUp \/ Reset
  BY <1>6, PowerAssumption DEF WakeUp, Reset, Booted
<1>7. CASE UNCHANGED vars
  BY <1>3, <1>7 DEF vars
<1> QED BY <1>1, <1>2, <1>4, <1>5, <1>6, <1>7 DEF Next

LEMMA AdcTypesStep ==
  ASSUME AdcTypes, [Next]_vars
  PROVE  AdcTypes'
<1> USE DEF AdcTypes
<1>1. CASE in_pin_handler
  <2>1. late' \in BOOLEAN
    BY <1>1 DEF in_pin_handler, ShutdownDue, Queued
  <2> QED BY <1>1, <2>1 DEF in_pin_handler, adcVars
<1>2. CASE ProcessTimerOps \/ ServeTimeouts \/ Tick \/ SdEvent \/ AdcDone
  BY <1>2 DEF ProcessTimerOps, ServeTimeouts, Tick, SdEvent, AdcDone,
     adc_event_handler, adcVars, historyVars
<1>3. CASE app_sched_execute \/ power_manage \/ shutdown_timeout_handler
  BY <1>3 DEF app_sched_execute, power_manage, shutdown_timeout_handler,
     sleep_mode_enter, adcVars, historyVars, Unchanged_Irq
<1>4. CASE \/ battery_level_meas_timeout_handler \/ adc_sample
           \/ adc_sample_trigger
  BY <1>4 DEF battery_level_meas_timeout_handler, adc_sample,
     adc_sample_trigger, adcVars, historyVars, Unchanged_Irq
<1>5. CASE ble_evt_dispatch
  BY <1>5 DEF ble_evt_dispatch, AdvertisingReacts, sleep_mode_enter, adcVars,
     historyVars, Unchanged_Irq
<1>6. CASE WakeUp \/ Reset
  BY <1>6 DEF WakeUp, Reset, Booted
<1>7. CASE UNCHANGED vars
  BY <1>7 DEF vars, adcVars, historyVars
<1> QED BY <1>1, <1>2, <1>3, <1>4, <1>5, <1>6, <1>7 DEF Next, MainStep

-----------------------------------------------------------------------------
(* Why the system goes off: a shutdown was queued in time.                 *)

(* The timer runs out when the delay ends, and an edge that comes later    *)
(* finds it run out.                                                       *)
ShutdownInTime ==
  ShutdownDue => quiet = INACTIVITY_SLEEP_DELAY \/ late

(* Until then the delay is not over.                                       *)
QuietTillDue ==
  Running /\ ~ShutdownDue => quiet < INACTIVITY_SLEEP_DELAY

LEMMA QuietUntilDue == TimerInv /\ TimersRun => QuietTillDue
<1> SUFFICES ASSUME TimerInv, TimersRun, Running, ~ShutdownDue
             PROVE  quiet < INACTIVITY_SLEEP_DELAY
  BY DEF QuietTillDue
<1>1. CASE ops = <<>>
  BY <1>1, PowerAssumption DEF TimerInv, TimerTracksQuiet, TimersRun, Types
<1>2. CASE ops # <<>>
  BY <1>2, PowerAssumption DEF TimerInv, PendingRestart
<1> QED BY <1>1, <1>2

LEMMA PutAddsOnly ==
  ASSUME Types, NEW work \in Seq(Work), PutAll(work), NEW w
  PROVE  Queued(w)' => Queued(w) \/ In(w, work)
<1>1. sched \in Seq(Work)
  BY DEF Types
<1>2. CASE sched' = sched \o work
  <2>1. In(w, sched \o work) => In(w, sched) \/ In(w, work)
    BY <1>1, InConcatenation
  <2> QED BY <1>2, <2>1 DEF In, Queued
<1>3. CASE sched' = sched
  BY <1>3 DEF Queued
<1> QED BY <1>2, <1>3 DEF PutAll

LEMMA ShutdownInTimeStep ==
  ASSUME TimerInv, TimersRun, ShutdownInTime, [Next]_vars
  PROVE  ShutdownInTime'
<1> USE DEF ShutdownInTime
<1>1. Types
  BY DEF TimerInv
<1>2. CASE in_pin_handler
  BY <1>2 DEF in_pin_handler, queueVars, timerVars, ShutdownDue, Queued
<1>3. CASE Tick
  <2>1. /\ sched = <<>> /\ ops = <<>> /\ expired = {} /\ Running
        /\ quiet' = AtMost(quiet + 1, INACTIVITY_SLEEP_DELAY)
        /\ "shutdown" \in expired' => Expires(shutdown_left)
    BY <1>3 DEF Tick
  <2>2. ~ShutdownDue
    BY <2>1 DEF ShutdownDue, Queued
  <2>3. ShutdownDue' => Expires(shutdown_left)
    BY <1>3, <2>1, TickQueues DEF ShutdownDue
  <2>4. shutdown_left = INACTIVITY_SLEEP_DELAY - quiet
    BY <2>1, <2>2 DEF TimerInv, TimerTracksQuiet
  <2>5. quiet \in Nat /\ INACTIVITY_SLEEP_DELAY \in Nat
    BY <1>1, PowerAssumption DEF Types
  <2>6. Expires(shutdown_left) => quiet' = INACTIVITY_SLEEP_DELAY
    BY <2>1, <2>4, <2>5 DEF Expires, AtMost
  <2> QED BY <2>3, <2>6
<1>13. CASE ProcessTimerOps
  <2>1. /\ quiet = 0 /\ "shutdown" \notin expired'
        /\ sched' = sched /\ late' = (late /\ Queued("shutdown"))
    BY <1>13 DEF ProcessTimerOps, queueVars, TimerInv, PendingRestart, Asked
  <2>2. ShutdownDue' => Queued("shutdown")
    BY <2>1 DEF ShutdownDue, Queued
  <2>3. Queued("shutdown") => late
    BY <2>1, PowerAssumption DEF ShutdownDue
  <2> QED BY <2>1, <2>2, <2>3
<1>14. CASE ServeTimeouts
  <2>1. PutAll(TimeoutWork) /\ expired' = {} /\ UNCHANGED <<quiet, late>>
    BY <1>14 DEF ServeTimeouts, TimeoutWork, historyVars
  <2>2. Queued("shutdown")' => Queued("shutdown") \/ "shutdown" \in expired
    BY <1>1, <2>1, PutAddsOnly, TimeoutWorkIsWork
  <2> QED BY <2>1, <2>2 DEF ShutdownDue
<1>4. CASE SdEvent
  <2>1. <<"softdevice">> \in Seq(Work) /\ ~In("shutdown", <<"softdevice">>)
    BY DEF Work, In
  <2>2. PutAll(<<"softdevice">>) /\ UNCHANGED <<expired, quiet, late>>
    BY <1>4 DEF SdEvent, timerVars
  <2>3. Queued("shutdown")' => Queued("shutdown")
    BY <1>1, <2>1, <2>2, PutAddsOnly
  <2> QED BY <2>2, <2>3 DEF ShutdownDue
<1>5. CASE UNCHANGED <<sched, expired, quiet, late>>
  BY <1>5 DEF Queued, ShutdownDue
<1>6. CASE /\ sched # <<>> /\ sched' = Tail(sched)
           /\ UNCHANGED <<expired, quiet, late>>
  <2>1. \A n \in 1 .. Len(sched') :
          n + 1 \in 1 .. Len(sched) /\ sched'[n] = sched[n + 1]
    BY <1>1, <1>6 DEF Types
  <2>2. Queued("shutdown")' => Queued("shutdown")
    BY <2>1 DEF Queued
  <2> QED BY <1>6, <2>2 DEF ShutdownDue
<1>7. CASE battery_level_meas_timeout_handler
  <2> DEFINE longer == Append(sched, "adc_sample")
  <2>1. sched # <<>> /\ UNCHANGED <<expired, quiet, late>>
    BY <1>7 DEF battery_level_meas_timeout_handler, MainAt, TimerInv,
                HeadHandled, Unchanged_Irq, timerVars, historyVars
  <2>2. CASE sched' = Tail(sched)
    BY <1>6, <2>1, <2>2
  <2>3. CASE sched' = Tail(longer)
    <3>1. /\ longer \in Seq(Work) /\ longer # <<>>
          /\ Len(longer) = Len(sched) + 1
          /\ \A n \in 1 .. Len(sched) : longer[n] = sched[n]
          /\ longer[Len(sched) + 1] = "adc_sample"
          /\ Len(sched) \in Nat
      BY <1>1 DEF Types, Work
    <3> HIDE DEF longer
    <3>2. \A n \in 1 .. Len(sched') :
            n + 1 \in 1 .. Len(longer) /\ sched'[n] = longer[n + 1]
      BY <2>3, <3>1
    <3>3. \A n \in 1 .. Len(longer) :
            longer[n] = "shutdown" => n \in 1 .. Len(sched) /\ sched[n] = "shutdown"
      BY <3>1
    <3>4. Queued("shutdown")' => Queued("shutdown")
      BY <3>2, <3>3 DEF Queued
    <3> QED BY <2>1, <3>4 DEF ShutdownDue
  <2> QED BY <1>7, <2>2, <2>3 DEF battery_level_meas_timeout_handler
<1>8. CASE \/ AdcDone \/ app_sched_execute \/ power_manage
           \/ shutdown_timeout_handler \/ adc_sample
  BY <1>5, <1>8
  DEF AdcDone, app_sched_execute, power_manage,
      shutdown_timeout_handler, sleep_mode_enter, adc_sample, queueVars,
      timerVars, historyVars, Unchanged_Irq
<1>9. CASE adc_sample_trigger
  BY <1>5, <1>6, <1>9
  DEF adc_sample_trigger, HandlerReturns, MainAt, TimerInv, HeadHandled,
      timerVars, historyVars, Unchanged_Irq
<1>10. CASE ble_evt_dispatch
  BY <1>5, <1>6, <1>10
  DEF ble_evt_dispatch, AdvertisingReacts, sleep_mode_enter, HandlerReturns,
      MainAt, TimerInv, HeadHandled, queueVars, timerVars, historyVars,
      Unchanged_Irq
<1>11. CASE WakeUp \/ Reset
  BY <1>11 DEF WakeUp, Reset, Booted, Queued, ShutdownDue
<1>12. CASE UNCHANGED vars
  BY <1>5, <1>12 DEF vars, queueVars, timerVars, historyVars
<1> QED
  BY <1>2, <1>3, <1>4, <1>7, <1>8, <1>9, <1>10, <1>11, <1>12, <1>13, <1>14
  DEF Next, MainStep

-----------------------------------------------------------------------------
(* Why the system goes off: advertising was in vain.                       *)

Discoverable == adv \in {"fast", "slow"}

SdTypes ==
  /\ sdq \in Seq(SdEvents) /\ Len(sdq) <= MaxSdEvents
  /\ adv \in {"fast", "slow", "link", "none"} /\ adv_left \in Nat

(* While the controller advertises, what has passed of the two timeouts is *)
(* the time without a host; else a host has just been there.               *)
AdvertisingTime ==
  /\ adv = "fast" => /\ adv_left <= APP_ADV_FAST_TIMEOUT
                     /\ lonely = APP_ADV_FAST_TIMEOUT - adv_left
  /\ adv = "slow" => /\ adv_left <= APP_ADV_SLOW_TIMEOUT
                     /\ lonely = Lonely - adv_left
  /\ ~Discoverable => adv_left = 0 /\ lonely = 0

(* A timeout waits exactly while no time is left, and it is polled before  *)
(* all that came later.                                                    *)
TimeoutPosted ==
  /\ In("ADV_TIMEOUT", sdq) <=> Discoverable /\ adv_left = 0
  /\ \A n \in 1 .. Len(sdq) : sdq[n] = "ADV_TIMEOUT" => n = 1

(* One loss waits exactly while a lost link has not led to advertising.    *)
LossPosted ==
  /\ In("DISCONNECTED", sdq) <=> adv = "none"
  /\ \A m, n \in 1 .. Len(sdq) :
       sdq[m] = "DISCONNECTED" /\ sdq[n] = "DISCONNECTED" => m = n

AdvertisingInv == SdTypes /\ AdvertisingTime /\ TimeoutPosted /\ LossPosted

LEMMA InAppend ==
  ASSUME NEW S, NEW s \in Seq(S), NEW e \in S, NEW v
  PROVE  In(v, Append(s, e)) <=> In(v, s) \/ v = e
<1> DEFINE t == Append(s, e)
<1>1. /\ Len(s) \in Nat /\ Len(t) = Len(s) + 1 /\ t[Len(s) + 1] = e
      /\ \A n \in 1 .. Len(s) : t[n] = s[n]
  OBVIOUS
<1> HIDE DEF t
<1>2. /\ \A n \in 1 .. Len(t) : n \in 1 .. Len(s) \/ n = Len(s) + 1
      /\ \A n \in 1 .. Len(s) : n \in 1 .. Len(t)
      /\ Len(s) + 1 \in 1 .. Len(t)
  BY <1>1
<1>3. In(v, t) <=> In(v, s) \/ v = e
  BY <1>1, <1>2 DEF In
<1> QED BY <1>3 DEF t

LEMMA InTail ==
  ASSUME NEW S, NEW s \in Seq(S), s # <<>>, NEW v
  PROVE  In(v, s) <=> v = Head(s) \/ In(v, Tail(s))
<1> DEFINE t == Tail(s)
<1>1. /\ Len(t) \in Nat /\ Len(s) = Len(t) + 1 /\ s[1] = Head(s)
      /\ \A n \in 1 .. Len(t) : t[n] = s[n + 1]
  OBVIOUS
<1> HIDE DEF t
<1>2. /\ \A n \in 1 .. Len(s) : n = 1 \/ (n - 1 \in 1 .. Len(t) /\ t[n - 1] = s[n])
      /\ \A n \in 1 .. Len(t) : n + 1 \in 1 .. Len(s)
      /\ 1 \in 1 .. Len(s)
  BY <1>1
<1>3. In(v, s) => v = Head(s) \/ In(v, t)
  BY <1>1, <1>2 DEF In
<1>4. v = Head(s) \/ In(v, t) => In(v, s)
  BY <1>1, <1>2 DEF In
<1> QED BY <1>3, <1>4 DEF t

(* An event is appended to those that wait.                                *)
LEMMA EventPosted ==
  ASSUME AdvertisingInv, NEW evt \in SdEvents, Len(sdq) < MaxSdEvents,
         sdq' = Append(sdq, evt), evt # "ADV_TIMEOUT",
         evt = "DISCONNECTED" => ~In("DISCONNECTED", sdq)
  PROVE  /\ sdq' \in Seq(SdEvents) /\ Len(sdq') <= MaxSdEvents
         /\ \A v : In(v, sdq') <=> In(v, sdq) \/ v = evt
         /\ \A n \in 1 .. Len(sdq') : sdq'[n] = "ADV_TIMEOUT" => n = 1
         /\ \A m, n \in 1 .. Len(sdq') :
              sdq'[m] = "DISCONNECTED" /\ sdq'[n] = "DISCONNECTED" => m = n
<1>1. sdq \in Seq(SdEvents)
  BY DEF AdvertisingInv, SdTypes
<1>2. /\ Len(sdq) \in Nat /\ Len(sdq') = Len(sdq) + 1
      /\ sdq' \in Seq(SdEvents) /\ sdq'[Len(sdq) + 1] = evt
      /\ \A n \in 1 .. Len(sdq) : sdq'[n] = sdq[n]
  BY <1>1
<1>3. \A n \in 1 .. Len(sdq') : n \in 1 .. Len(sdq) \/ n = Len(sdq) + 1
  BY <1>2
<1>4. Len(sdq') <= MaxSdEvents
  BY <1>2, PowerAssumption
<1>5. \A v : In(v, sdq') <=> In(v, sdq) \/ v = evt
  BY <1>1, InAppend
<1>6. \A n \in 1 .. Len(sdq') : sdq'[n] = "ADV_TIMEOUT" => n = 1
  BY <1>2, <1>3 DEF AdvertisingInv, TimeoutPosted
<1>7. \A m, n \in 1 .. Len(sdq') :
        sdq'[m] = "DISCONNECTED" /\ sdq'[n] = "DISCONNECTED" => m = n
  <2>1. CASE evt = "DISCONNECTED"
    <3>1. \A n \in 1 .. Len(sdq) : sdq'[n] # "DISCONNECTED"
      BY <1>2, <2>1 DEF In
    <3> QED BY <1>3, <3>1
  <2>2. CASE evt # "DISCONNECTED"
    BY <1>2, <1>3, <2>2 DEF AdvertisingInv, LossPosted
  <2> QED BY <2>1, <2>2
<1> QED BY <1>2, <1>4, <1>5, <1>6, <1>7

(* The first of them is taken.                                             *)
LEMMA EventPolled ==
  ASSUME AdvertisingInv, sdq # <<>>, sdq' = Tail(sdq)
  PROVE  /\ Head(sdq) \in SdEvents
         /\ sdq' \in Seq(SdEvents) /\ Len(sdq') <= MaxSdEvents
         /\ \A v : In(v, sdq) <=> v = Head(sdq) \/ In(v, sdq')
         /\ ~In("ADV_TIMEOUT", sdq')
         /\ Head(sdq) = "DISCONNECTED" => ~In("DISCONNECTED", sdq')
         /\ \A m, n \in 1 .. Len(sdq') :
              sdq'[m] = "DISCONNECTED" /\ sdq'[n] = "DISCONNECTED" => m = n
<1>1. sdq \in Seq(SdEvents)
  BY DEF AdvertisingInv, SdTypes
<1>2. /\ Head(sdq) \in SdEvents /\ sdq' \in Seq(SdEvents)
      /\ Len(sdq') \in Nat /\ Len(sdq) = Len(sdq') + 1 /\ sdq[1] = Head(sdq)
      /\ \A n \in 1 .. Len(sdq') : sdq'[n] = sdq[n + 1]
  BY <1>1
<1>3. /\ \A n \in 1 .. Len(sdq') : n + 1 \in 1 .. Len(sdq) /\ n + 1 # 1
      /\ 1 \in 1 .. Len(sdq)
  BY <1>2
<1>4. Len(sdq') <= MaxSdEvents
  BY <1>2, PowerAssumption DEF AdvertisingInv, SdTypes
<1>5. \A v : In(v, sdq) <=> v = Head(sdq) \/ In(v, sdq')
  BY <1>1, InTail
<1>6. ~In("ADV_TIMEOUT", sdq')
  BY <1>2, <1>3 DEF AdvertisingInv, TimeoutPosted, In
<1>7. Head(sdq) = "DISCONNECTED" => ~In("DISCONNECTED", sdq')
  BY <1>2, <1>3 DEF AdvertisingInv, LossPosted, In
<1>8. ASSUME NEW m \in 1 .. Len(sdq'), NEW n \in 1 .. Len(sdq'),
             sdq'[m] = "DISCONNECTED", sdq'[n] = "DISCONNECTED"
      PROVE  m = n
  <2>1. m + 1 = n + 1
    BY <1>2, <1>3, <1>8 DEF AdvertisingInv, LossPosted
  <2> QED BY <2>1
<1> QED BY <1>2, <1>4, <1>5, <1>6, <1>7, <1>8

(* A host connects or leaves.                                              *)
LEMMA SdEventAdvertises ==
  ASSUME AdvertisingInv, SdEvent
  PROVE  AdvertisingInv'
<1> USE DEF AdvertisingInv, Discoverable
<1>1. PICK evt \in {"CONNECTED", "DISCONNECTED", "OTHER"} :
        LinkChanges(evt) /\ sdq' = Append(sdq, evt)
  BY DEF SdEvent
<1>2. evt \in SdEvents /\ evt # "ADV_TIMEOUT" /\ Len(sdq) < MaxSdEvents
  BY DEF SdEvent, SdEvents
<1>3. evt = "DISCONNECTED" => ~In("DISCONNECTED", sdq)
  BY <1>1 DEF LinkChanges, LossPosted
<1>4. /\ sdq' \in Seq(SdEvents) /\ Len(sdq') <= MaxSdEvents
      /\ \A v : In(v, sdq') <=> In(v, sdq) \/ v = evt
      /\ \A n \in 1 .. Len(sdq') : sdq'[n] = "ADV_TIMEOUT" => n = 1
      /\ \A m, n \in 1 .. Len(sdq') :
           sdq'[m] = "DISCONNECTED" /\ sdq'[n] = "DISCONNECTED" => m = n
  BY <1>1, <1>2, <1>3, EventPosted
<1>5. CASE /\ evt = "CONNECTED" /\ Discoverable /\ adv_left > 0
           /\ adv' = "link" /\ adv_left' = 0 /\ lonely' = 0
  <2>1. SdTypes' /\ AdvertisingTime'
    BY <1>4, <1>5 DEF SdTypes, AdvertisingTime
  <2>2. ~In("ADV_TIMEOUT", sdq) /\ ~In("DISCONNECTED", sdq)
    BY <1>5 DEF TimeoutPosted, LossPosted
  <2>3. ~In("ADV_TIMEOUT", sdq') /\ ~In("DISCONNECTED", sdq')
    BY <1>4, <1>5, <2>2
  <2> QED BY <1>4, <1>5, <2>1, <2>3 DEF TimeoutPosted, LossPosted
<1>6. CASE /\ evt = "DISCONNECTED" /\ adv = "link" /\ adv' = "none"
           /\ UNCHANGED <<adv_left, lonely>>
  <2>1. SdTypes' /\ AdvertisingTime'
    BY <1>4, <1>6 DEF SdTypes, AdvertisingTime
  <2>2. ~In("ADV_TIMEOUT", sdq)
    BY <1>6 DEF TimeoutPosted
  <2>3. ~In("ADV_TIMEOUT", sdq') /\ In("DISCONNECTED", sdq')
    BY <1>4, <1>6, <2>2
  <2> QED BY <1>4, <1>6, <2>1, <2>3 DEF TimeoutPosted, LossPosted
<1>7. CASE evt = "OTHER" /\ UNCHANGED <<adv, adv_left, lonely>>
  <2>1. SdTypes' /\ AdvertisingTime'
    BY <1>4, <1>7 DEF SdTypes, AdvertisingTime
  <2>2. /\ In("ADV_TIMEOUT", sdq') <=> In("ADV_TIMEOUT", sdq)
        /\ In("DISCONNECTED", sdq') <=> In("DISCONNECTED", sdq)
    BY <1>4, <1>7
  <2> QED BY <1>4, <1>7, <2>1, <2>2 DEF TimeoutPosted, LossPosted
<1> QED BY <1>1, <1>5, <1>6, <1>7 DEF LinkChanges, advVars

(* Time passes only once every event is polled.                            *)
LEMMA TickAdvertises ==
  ASSUME AdvertisingInv, Tick
  PROVE  AdvertisingInv'
<1> USE DEF AdvertisingInv, Discoverable
<1>1. /\ sdq = <<>> /\ adv' = adv /\ adv_left' = Passed(adv_left)
      /\ sdq' = IF Expires(adv_left) THEN <<"ADV_TIMEOUT">> ELSE <<>>
      /\ lonely' = IF adv = "link" THEN 0 ELSE AtMost(lonely + 1, Lonely)
  BY DEF Tick, queueVars
<1>2. ~In("ADV_TIMEOUT", sdq) /\ ~In("DISCONNECTED", sdq)
  BY <1>1 DEF In
<1>3. adv # "none" /\ (Discoverable => adv_left > 0)
  BY <1>2 DEF TimeoutPosted, LossPosted, SdTypes
<1>4. Expires(adv_left) <=> Discoverable' /\ adv_left' = 0
  BY <1>1, <1>3 DEF Expires, Passed, SdTypes, AdvertisingTime
<1>5. AdvertisingTime'
  BY <1>1, <1>3, PowerAssumption
  DEF AdvertisingTime, SdTypes, Passed, AtMost, Lonely
<1>6. /\ SdTypes' /\ ~In("DISCONNECTED", sdq')
      /\ In("ADV_TIMEOUT", sdq') <=> Expires(adv_left)
      /\ \A n \in 1 .. Len(sdq') : n = 1
  <2>1. adv' \in {"fast", "slow", "link", "none"} /\ adv_left' \in Nat
    BY <1>1 DEF SdTypes, Passed
  <2>2. CASE Expires(adv_left)
    <3>1. sdq' = <<"ADV_TIMEOUT">> /\ "ADV_TIMEOUT" \in SdEvents
      BY <1>1, <2>2 DEF SdEvents
    <3>2. /\ sdq' \in Seq(SdEvents) /\ Len(sdq') = 1
          /\ sdq'[1] = "ADV_TIMEOUT" /\ 1 .. 1 = {1}
      BY <3>1
    <3> QED BY <2>1, <2>2, <3>2, PowerAssumption DEF SdTypes, In
  <2>3. CASE ~Expires(adv_left)
    BY <1>1, <2>1, <2>3, PowerAssumption DEF SdTypes, In
  <2> QED BY <2>2, <2>3
<1>7. TimeoutPosted'
  BY <1>4, <1>6 DEF TimeoutPosted
<1>8. LossPosted'
  BY <1>1, <1>3, <1>6 DEF LossPosted
<1> QED BY <1>5, <1>6, <1>7, <1>8

(* The advertising module starts to advertise, or advertises more slowly.  *)
LEMMA PollAdvertises ==
  ASSUME AdvertisingInv, ble_evt_dispatch
  PROVE  AdvertisingInv'
<1> USE DEF AdvertisingInv, Discoverable
<1>1. UNCHANGED lonely
  BY DEF ble_evt_dispatch, Unchanged_Irq, historyVars
<1>2. CASE UNCHANGED <<sdq, adv, adv_left>>
  BY <1>1, <1>2 DEF SdTypes, AdvertisingTime, TimeoutPosted, LossPosted
<1>3. CASE sdq # <<>> /\ sdq' = Tail(sdq)
  <2>1. /\ Head(sdq) \in SdEvents
        /\ sdq' \in Seq(SdEvents) /\ Len(sdq') <= MaxSdEvents
        /\ \A v : In(v, sdq) <=> v = Head(sdq) \/ In(v, sdq')
        /\ ~In("ADV_TIMEOUT", sdq')
        /\ Head(sdq) = "DISCONNECTED" => ~In("DISCONNECTED", sdq')
        /\ \A m, n \in 1 .. Len(sdq') :
             sdq'[m] = "DISCONNECTED" /\ sdq'[n] = "DISCONNECTED" => m = n
    BY <1>3, EventPolled
  <2>2. \A n \in 1 .. Len(sdq') : sdq'[n] = "ADV_TIMEOUT" => n = 1
    BY <2>1 DEF In
  <2>3. CASE /\ Head(sdq) = "DISCONNECTED"
             /\ adv' = "fast" /\ adv_left' = APP_ADV_FAST_TIMEOUT
    <3>1. adv = "none" /\ lonely = 0
      BY <2>1, <2>3 DEF LossPosted, AdvertisingTime
    <3>2. SdTypes' /\ AdvertisingTime'
      BY <1>1, <2>1, <2>3, <3>1, PowerAssumption DEF SdTypes, AdvertisingTime
    <3> QED BY <2>1, <2>2, <2>3, <3>2, PowerAssumption
            DEF TimeoutPosted, LossPosted
  <2>4. CASE /\ Head(sdq) = "ADV_TIMEOUT" /\ adv = "fast"
             /\ adv' = "slow" /\ adv_left' = APP_ADV_SLOW_TIMEOUT
    <3>1. adv_left = 0 /\ ~In("DISCONNECTED", sdq)
      BY <2>1, <2>4 DEF TimeoutPosted, LossPosted
    <3>2. SdTypes' /\ AdvertisingTime'
      BY <1>1, <2>1, <2>4, <3>1, PowerAssumption
      DEF SdTypes, AdvertisingTime, Lonely
    <3> QED BY <2>1, <2>2, <2>4, <3>1, <3>2, PowerAssumption
            DEF TimeoutPosted, LossPosted
  <2>5. CASE /\ Head(sdq) \in {"CONNECTED", "OTHER"}
             /\ UNCHANGED <<adv, adv_left>>
    <3>1. SdTypes' /\ AdvertisingTime'
      BY <1>1, <2>1, <2>5 DEF SdTypes, AdvertisingTime
    <3>2. TimeoutPosted'
      BY <2>1, <2>2, <2>5 DEF TimeoutPosted
    <3>3. LossPosted'
      BY <2>1, <2>5 DEF LossPosted
    <3> QED BY <3>1, <3>2, <3>3
  <2> QED BY <1>2, <1>3, <2>3, <2>4, <2>5
          DEF ble_evt_dispatch, AdvertisingReacts, advVars, sleep_mode_enter,
              queueVars
<1> QED BY <1>2, <1>3 DEF ble_evt_dispatch, AdvertisingReacts, sleep_mode_enter,
           queueVars, advVars

LEMMA BootAdvertises == Booted => AdvertisingInv'
<1> SUFFICES ASSUME Booted PROVE AdvertisingInv'
  OBVIOUS
<1>1. /\ adv' = "fast" /\ adv_left' = APP_ADV_FAST_TIMEOUT /\ lonely' = 0
      /\ sdq' = <<>> /\ Len(sdq') = 0 /\ sdq' \in Seq(SdEvents)
  BY DEF Booted
<1>2. SdTypes' /\ AdvertisingTime'
  BY <1>1, PowerAssumption DEF SdTypes, AdvertisingTime, Discoverable
<1>3. \A n \in 1 .. Len(sdq') : FALSE
  BY <1>1
<1>4. TimeoutPosted' /\ LossPosted'
  BY <1>1, <1>3, PowerAssumption DEF TimeoutPosted, LossPosted, Discoverable, In
<1> QED BY <1>2, <1>4 DEF AdvertisingInv

LEMMA InitAdvertises == Init => AdvertisingInv
<1> SUFFICES ASSUME Init PROVE AdvertisingInv
  OBVIOUS
<1>1. /\ adv = "fast" /\ adv_left = APP_ADV_FAST_TIMEOUT /\ lonely = 0
      /\ sdq = <<>> /\ Len(sdq) = 0 /\ sdq \in Seq(SdEvents)
  BY DEF Init
<1>2. SdTypes /\ AdvertisingTime
  BY <1>1, PowerAssumption DEF SdTypes, AdvertisingTime, Discoverable
<1>3. \A n \in 1 .. Len(sdq) : FALSE
  BY <1>1
<1>4. TimeoutPosted /\ LossPosted
  BY <1>1, <1>3, PowerAssumption DEF TimeoutPosted, LossPosted, Discoverable, In
<1> QED BY <1>2, <1>4 DEF AdvertisingInv

LEMMA AdvertisingStep ==
  ASSUME AdvertisingInv, [Next]_vars
  PROVE  AdvertisingInv'
<1>1. CASE UNCHANGED <<sdq, adv, adv_left, lonely>>
  BY <1>1 DEF AdvertisingInv, SdTypes, AdvertisingTime, TimeoutPosted,
     LossPosted, Discoverable
<1>2. CASE SdEvent
  BY <1>2, SdEventAdvertises
<1>3. CASE Tick
  BY <1>3, TickAdvertises
<1>4. CASE ble_evt_dispatch
  BY <1>4, PollAdvertises
<1>5. CASE in_pin_handler \/ ProcessTimerOps \/ ServeTimeouts \/ AdcDone
  BY <1>1, <1>5 DEF in_pin_handler, ProcessTimerOps, ServeTimeouts, AdcDone,
     queueVars, advVars, historyVars
<1>6. CASE \/ app_sched_execute \/ power_manage \/ shutdown_timeout_handler
           \/ battery_level_meas_timeout_handler \/ adc_sample
           \/ adc_sample_trigger
  BY <1>1, <1>6 DEF app_sched_execute, power_manage, shutdown_timeout_handler,
     sleep_mode_enter, battery_level_meas_timeout_handler, adc_sample,
     adc_sample_trigger, queueVars, advVars, historyVars, Unchanged_Irq
<1>7. CASE WakeUp \/ Reset
  BY <1>7, BootAdvertises DEF WakeUp, Reset
<1>8. CASE UNCHANGED vars
  BY <1>1, <1>8 DEF vars, queueVars, advVars, historyVars
<1> QED BY <1>2, <1>3, <1>4, <1>5, <1>6, <1>7, <1>8 DEF Next, MainStep

-----------------------------------------------------------------------------
(* All of it together, and what follows.                                   *)

PowerInv ==
  /\ TimerInv /\ QueuesBounded /\ TimersRun /\ AdcTypes
  /\ ShutdownInTime /\ AdvertisingInv

LEMMA PowerInvariant == Spec => []PowerInv
<1>1. Init => PowerInv
  <2> SUFFICES ASSUME Init PROVE PowerInv
    OBVIOUS
  <2>1. sched = <<>> /\ Len(sched) = 0 /\ Len(ops) = 0
    BY DEF Init
  <2>2. QueuesBounded
    BY <2>1, PowerAssumption DEF QueuesBounded
  <2>3. TimersRun
    BY PowerAssumption DEF Init, TimersRun
  <2>4. AdcTypes
    BY DEF Init, AdcTypes
  <2>5. ShutdownInTime
    BY <2>1 DEF Init, ShutdownInTime, ShutdownDue, Queued
  <2> QED BY <2>2, <2>3, <2>4, <2>5, InitStartsTimer, InitAdvertises DEF PowerInv
<1>2. PowerInv /\ [Next]_vars => PowerInv'
  BY TimerStep, QueuesBoundedStep, TimersRunStep, AdcTypesStep,
     ShutdownInTimeStep, AdvertisingStep
  DEF PowerInv
<1> QED BY <1>1, <1>2, PTL DEF Spec

(* Every variable keeps its type, and neither queue of the SDK nor that of *)
(* app_timer ever holds more than its size (main.c:24, 43,                 *)
(* my_timers.c:21, 42-48).                                                 *)
THEOREM TypesAndLimitsAreKept == Spec => []TypeOK
<1>1. PowerInv => TypeOK
  <2> SUFFICES ASSUME PowerInv PROVE TypeOK
    OBVIOUS
  <2>1. /\ on \in BOOLEAN /\ fault \in BOOLEAN /\ woken \in BOOLEAN
        /\ sched \in Seq(Work) /\ Len(sched) <= SCHED_QUEUE_SIZE
        /\ ops \in Seq({"stop", "start"}) /\ Len(ops) <= APP_TIMER_OP_QUEUE_SIZE
        /\ main_pc \in {"execute", "handle", "sample", "wait"}
        /\ quiet \in 0 .. INACTIVITY_SLEEP_DELAY
        /\ expired \in SUBSET {"battery", "shutdown"}
    BY DEF PowerInv, TimerInv, Types, QueuesBounded
  <2>2. /\ shutdown_left \in 0 .. INACTIVITY_SLEEP_DELAY
        /\ battery_left \in 0 .. BATTERY_LEVEL_MEAS_INTERVAL
    BY PowerAssumption DEF PowerInv, TimersRun
  <2>3. /\ adc \in {"idle", "armed", "sampling"} /\ hfclk \in BOOLEAN
        /\ late \in BOOLEAN
    BY DEF PowerInv, AdcTypes
  <2>4. /\ sdq \in Seq(SdEvents) /\ Len(sdq) <= MaxSdEvents
        /\ adv \in {"fast", "slow", "link", "none"} /\ adv_left \in Nat
    BY DEF PowerInv, AdvertisingInv, SdTypes
  <2>5. adv_left \in 0 .. Lonely /\ lonely \in 0 .. Lonely
    BY <2>4, PowerAssumption
    DEF PowerInv, AdvertisingInv, AdvertisingTime, Discoverable, Lonely
  <2> QED BY <2>1, <2>2, <2>3, <2>4, <2>5 DEF TypeOK
<1> QED BY <1>1, PowerInvariant, PTL

(* A step into system-off is one that Inactivity allows.                   *)
LEMMA GoesOffAsAllowed ==
  ASSUME PowerInv, Running, on' = FALSE, UNCHANGED historyVars,
         \/ shutdown_timeout_handler
         \/ ble_evt_dispatch
  PROVE  Off!SwitchOff
<1>1. CASE shutdown_timeout_handler
  <2>1. sched # <<>> /\ Head(sched) = "shutdown" /\ sched \in Seq(Work)
    BY <1>1 DEF shutdown_timeout_handler, MainAt, PowerInv, TimerInv, HeadHandled,
                Types
  <2>2. Queued("shutdown")
    BY <2>1, InTail DEF Queued, In
  <2> QED BY <2>2 DEF PowerInv, ShutdownInTime, ShutdownDue, Off!SwitchOff,
                      Running, historyVars
<1>2. CASE ble_evt_dispatch
  <2>1. sdq # <<>> /\ Head(sdq) = "ADV_TIMEOUT" /\ adv = "slow"
    BY <1>2 DEF ble_evt_dispatch, AdvertisingReacts, HandlerReturns, Running
  <2>2. sdq \in Seq(SdEvents)
    BY DEF PowerInv, AdvertisingInv, SdTypes
  <2>3. In("ADV_TIMEOUT", sdq)
    BY <2>1, <2>2, InTail
  <2>4. lonely = Lonely
    BY <2>1, <2>3, PowerAssumption
    DEF PowerInv, AdvertisingInv, AdvertisingTime, TimeoutPosted, Lonely
  <2> QED BY <2>4 DEF Off!SwitchOff, Running, historyVars
<1> QED BY <1>1, <1>2

LEMMA StepsAreAllowed == PowerInv /\ [Next]_vars => [Off!Next]_(Off!vars)
<1> SUFFICES ASSUME PowerInv, [Next]_vars
             PROVE  Off!Next \/ UNCHANGED <<on, quiet, lonely, late>>
  BY DEF Off!vars
<1>1. CASE in_pin_handler
  <2>1. /\ on /\ quiet' = 0 /\ UNCHANGED <<on, lonely>>
        /\ late' = ShutdownDue /\ Running
    BY <1>1 DEF in_pin_handler, Running
  <2>2. late \in BOOLEAN /\ late' \in BOOLEAN
    BY <2>1 DEF PowerInv, AdcTypes, ShutdownDue, Queued
  <2>3. ShutdownDue => quiet = INACTIVITY_SLEEP_DELAY \/ late
    BY DEF PowerInv, ShutdownInTime
  <2>4. ~ShutdownDue => quiet # INACTIVITY_SLEEP_DELAY
    BY <2>1, QuietUntilDue, PowerAssumption
    DEF PowerInv, QuietTillDue, TimerInv, Types
  <2>5. late' \in {late, quiet = INACTIVITY_SLEEP_DELAY}
    BY <2>1, <2>2, <2>3, <2>4
  <2> QED BY <2>1, <2>5 DEF Off!Next, Off!Touch
<1>2. CASE Tick
  <2>1. /\ on /\ UNCHANGED <<on, late>>
        /\ quiet' = AtMost(quiet + 1, INACTIVITY_SLEEP_DELAY)
        /\ lonely' \in {0, AtMost(lonely + 1, Lonely)}
    BY <1>2 DEF Tick, Running
  <2> QED BY <2>1 DEF Off!Next, Off!Tick, Off!AtMost, AtMost
<1>3. CASE SdEvent
  <2>1. /\ on /\ UNCHANGED <<on, quiet, late>>
        /\ lonely' = 0 \/ lonely' = lonely
    BY <1>3 DEF SdEvent, LinkChanges, Running
  <2> QED BY <2>1 DEF Off!Next, Off!Meet
<1>4. CASE ServeTimeouts \/ AdcDone \/ UNCHANGED vars
  BY <1>4 DEF ServeTimeouts, AdcDone, vars, historyVars
<1>8. CASE ProcessTimerOps
  <2>1. /\ on /\ UNCHANGED <<on, quiet, lonely>>
        /\ late' = FALSE \/ late' = late
    BY <1>8 DEF ProcessTimerOps, Running, PowerInv, AdcTypes
  <2> QED BY <2>1 DEF Off!Next, Off!PromiseAgain
<1>5. CASE \/ app_sched_execute \/ power_manage
           \/ battery_level_meas_timeout_handler \/ adc_sample
           \/ adc_sample_trigger
  BY <1>5 DEF app_sched_execute, power_manage,
     battery_level_meas_timeout_handler, adc_sample, adc_sample_trigger,
     historyVars, Unchanged_Irq
<1>6. CASE shutdown_timeout_handler \/ ble_evt_dispatch
  <2>1. Running /\ UNCHANGED historyVars /\ (on' = FALSE \/ on' = on)
    BY <1>6 DEF shutdown_timeout_handler, ble_evt_dispatch, AdvertisingReacts,
       sleep_mode_enter, MainAt, Unchanged_Irq
  <2> QED BY <1>6, <2>1, GoesOffAsAllowed DEF Off!Next, historyVars
<1>7. CASE WakeUp \/ Reset
  BY <1>7 DEF WakeUp, Reset, Booted, Off!Next, Off!Restart
<1> QED BY <1>1, <1>2, <1>3, <1>4, <1>5, <1>6, <1>7, <1>8 DEF Next, MainStep

(* The controller switches itself off only as Inactivity allows, for any   *)
(* delays and sizes of the queues and any order of edges and of            *)
(* app_timer's two interrupts (my_timers.c:9-15, 42-48,                    *)
(* my_ble_advertising.c:34-37).                                            *)
THEOREM GoesOffOnlyAsAllowed == Spec => SwitchesOffAsAllowed
<1>1. Init => Off!Init
  BY DEF Init, Off!Init
<1>2. PowerInv /\ [Next]_vars => [Off!Next]_(Off!vars)
  BY StepsAreAllowed
<1> QED BY <1>1, <1>2, PowerInvariant, PTL
        DEF Spec, SwitchesOffAsAllowed, Off!Spec

=============================================================================
