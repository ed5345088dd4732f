------------------------------ MODULE Controller ------------------------------
(***************************************************************************)
(* The controller from reset to its main loop with the keypad talking to   *)
(* it: Startup and UartReceiver.  main's call of keypad_receiver_init      *)
(* switches the receiver on, a word received runs uart_event_handler       *)
(* wherever main is, and a restart switches the receiver off between any   *)
(* two bytes.                                                              *)
(***************************************************************************)
EXTENDS Startup, UartReceiver

controllerVars == <<startVars, vars>>

ControllerInit == StartInit /\ Init

(* The calls of main; one of them is keypad_receiver_init.  A call that    *)
(* fails restarts the controller (APP_ERROR_CHECK).                        *)
MainCalls ==
  IF Started \/ Succeeds
    THEN /\ CallReturns
         /\ IF main[at] = keypad_init THEN keypad_receiver_init
                                      ELSE UNCHANGED vars
    ELSE Restart /\ Reset

(* A reset from outside: a wake-up, or an error later on.                  *)
Resets == Restart /\ Reset

WordReceived == RxDone /\ Handler("uart_event_handler")

OtherInterrupt ==
  /\ \E name \in DOMAIN Handlers \ {"uart_event_handler"} : Handler(name)
  /\ UNCHANGED vars

Line ==
  /\ (\E w \in Words : KeypadSends(w)) \/ ByteArrives \/ LineError
  /\ UNCHANGED startVars

ControllerNext ==
  \/ MainCalls \/ Resets
  \/ WordReceived \/ OtherInterrupt
  \/ RxError /\ UNCHANGED startVars
  \/ ReceiveByte /\ UNCHANGED startVars
  \/ Line

(***************************************************************************)
(* Fairness: main goes on, bytes sent arrive and the UART's interrupt is   *)
(* served.  Nothing makes the keypad send, the line fail or the power go.  *)
(***************************************************************************)
ControllerSpec ==
  /\ ControllerInit /\ [][ControllerNext]_controllerVars
  /\ WF_controllerVars(MainCalls)
  /\ WF_controllerVars(ByteArrives /\ UNCHANGED startVars)
  /\ WF_controllerVars(ReceiveByte /\ UNCHANGED startVars)
  /\ WF_controllerVars(WordReceived)
  /\ WF_controllerVars(RxError /\ UNCHANGED startVars)

-----------------------------------------------------------------------------
(* The controller gets to its main loop, unless it is reset for ever from  *)
(* outside: no call of main fails on parameters that this code gives       *)
(* (main.c:53-69, my_ble_gap.h:9-28, my_ble_peer_manager.h:7-44).          *)
StartsUp ==
  []<>Started \/ []<><<Resets /\ (Started \/ Succeeds)>>_controllerVars

=============================================================================
