------------------------------- MODULE Startup --------------------------------
(***************************************************************************)
(* The calls main makes before its loop (main.c:50-69), and what may       *)
(* interrupt them.                                                         *)
(*                                                                         *)
(* A call sets things up and switches sources of interrupts on, and most   *)
(* of them depend on earlier ones.  Some dependencies are checked: an      *)
(* error code goes to APP_ERROR_CHECK, which restarts the controller.      *)
(* Others are not: a default takes the place of what is missing, or a      *)
(* handler works on what is not set up yet.                                *)
(***************************************************************************)
EXTENDS Config, Attributes, Sequences

VARIABLES
  at,      \* the call main makes next
  ready,   \* what is set up or switched on
  missed   \* history: what was used before it was set up

startVars == <<at, ready, missed>>

(* What a piece of code needs to succeed, uses unchecked and sets up.      *)
Code(needs, uses, gives) == [needs |-> needs, uses |-> uses, gives |-> gives]

(* An error code that no other call can help.                              *)
Provided(legal) == IF legal THEN {} ELSE {"legal_parameters"}

-----------------------------------------------------------------------------
timers_init == Code({"APP_TIMER"}, {}, {"timers"})

ble_stack_init == Code({}, {}, {"softdevice", "dispatch"})

scheduler_init == Code({"APP_SCHEDULER"}, {}, {"scheduler"})

(* It reads the bonds from flash: system events follow.                    *)
peer_manager_init ==
  Code({"PEER_MANAGER", "FDS", "FSTORAGE", "softdevice"}
         \cup Provided(SecParamsLegal),
       {}, {"peers", "flash_operations"})

(* sd_ble_gap_ppcp_set, with times in units of 1.25 ms and 10 ms.          *)
MIN_CONN_INTERVAL == 6
MAX_CONN_INTERVAL == 24
SLAVE_LATENCY_Seven == 7

SLAVE_LATENCY == 6

CONN_SUP_TIMEOUT == 43

PpcpLegal ==
  /\ MIN_CONN_INTERVAL <= MAX_CONN_INTERVAL
  /\ 8 * CONN_SUP_TIMEOUT > 2 * (1 + SLAVE_LATENCY) * MAX_CONN_INTERVAL

gap_params_init ==
  Code({"softdevice"} \cup Provided(PpcpLegal), {},
       {"device_name", "preferred_parameters"})

advertising_init ==
  Code({"BLE_ADVERTISING", "softdevice"}, {"device_name", "peers"},
       {"advertising"})

(* dis_init, bas_init and gamepad_hids_init.                                *)
services_init ==
  Code({"BLE_DIS", "BLE_BAS", "BLE_HIDS", "softdevice"}, {},
       {"dis", "bas", "hids"})

battery_sensor_init == Code({"ADC"}, {}, {"adc"})

(* Without parameters of its own (p_conn_params) it takes the preferred.   *)
conn_params_init ==
  Code({"softdevice", "timers"}, {"preferred_parameters"},
       {"connection_parameters"})

buffer_init == Code({}, {}, {"buffer"})

(* nrf_drv_uart_rx_enable and nrf_drv_gpiote_in_event_enable.              *)
keypad_init == Code({"UART", "GPIOTE"}, {}, {"receiver", "sense_pin"})

timers_start == Code({"timers"}, {}, {"running_timers"})

advertising_start ==
  Code({"softdevice", "peers", "advertising"}, {}, {"radio"})

main_KeypadFirst ==
  <<timers_init, ble_stack_init, scheduler_init, keypad_init,
    peer_manager_init, gap_params_init, advertising_init, services_init,
    battery_sensor_init, conn_params_init, buffer_init,
    timers_start, advertising_start>>

main ==
  <<timers_init, ble_stack_init, scheduler_init, peer_manager_init,
    gap_params_init, advertising_init, services_init, battery_sensor_init,
    conn_params_init, buffer_init, keypad_init,
    timers_start, advertising_start>>

Started == at > Len(main)

-----------------------------------------------------------------------------
(* Handlers: what switches their interrupt on, and what they use.  Those   *)
(* of app_timer and of the SoftDevice go to the scheduler; the main loop   *)
(* runs them, and the measurement, when it has started.                    *)
On(source, things) == [on |-> source, uses |-> things]

OnWord == On({"receiver"}, {"hids", "buffer"})

OnKeyEdge == On({"sense_pin"}, {"timers"})

OnTimer == On({"running_timers"}, {"scheduler"})

OnSoftDevice == On({"flash_operations", "radio"}, {"scheduler", "dispatch"})

OnDispatch ==
  On({"main_loop"}, {"peers", "advertising", "hids", "bas",
                     "connection_parameters", "buffer"})

OnMeasurement == On({"main_loop"}, {"adc", "bas"})

Handlers == [
  uart_event_handler |-> OnWord,
  in_pin_handler     |-> OnKeyEdge,
  app_timer          |-> OnTimer,
  softdevice         |-> OnSoftDevice,
  ble_evt_dispatch   |-> OnDispatch,
  adc_sample         |-> OnMeasurement]

StartInit == at = 1 /\ ready = {} /\ missed = {}

Use(things) == missed' = missed \cup (things \ ready)

Restart == at' = 1 /\ ready' = {} /\ missed' = {}

(* The next call succeeds; an error would restart the controller.          *)
Succeeds == main[at].needs \subseteq ready \cup Built

CallReturns ==
  /\ ~Started /\ Succeeds
  /\ Use(main[at].uses)
  /\ at' = at + 1
  /\ ready' = ready \cup main[at].gives
                    \cup IF at = Len(main) THEN {"main_loop"} ELSE {}

(* The pin's handler starts a timer, perhaps before main does.             *)
Handler(name) ==
  /\ Handlers[name].on \cap ready # {}
  /\ Use(Handlers[name].uses)
  /\ ready' = ready \cup IF name = "in_pin_handler" THEN {"running_timers"}
                                                    ELSE {}
  /\ UNCHANGED at

-----------------------------------------------------------------------------
(* Nothing is used before it is set up, by main or by an interrupt that    *)
(* comes while main still sets things up: the events of the timers and of  *)
(* the SoftDevice find the scheduler, which scheduler_init sets up after   *)
(* both, and a word of the keypad the HID service and its buffer           *)
(* (main.c:54-64).                                                         *)
NothingMissed == missed = {}

=============================================================================
