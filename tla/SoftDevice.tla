----------------------------- MODULE SoftDevice ------------------------------
(***************************************************************************)
(* The S130 SoftDevice and the host behind it, as the application sees     *)
(* them.  Neither is in this repository: the module keeps what the         *)
(* application calls (sd_ble_gatts_hvx through ble_hids and ble_bas, the   *)
(* BLE event queue it polls, advertising) and what it can be told.         *)
(*                                                                         *)
(* Packets leave in the order they were accepted, so the report the host   *)
(* is left with is the last one accepted on its link.                      *)
(***************************************************************************)
EXTENDS Integers, Sequences

CONSTANTS
  TxPackets,  \* transmit packets of a link
  MaxEvents,  \* bound: BLE events waiting to be polled
  None        \* no report received on this link yet

ASSUME SoftDeviceAssumption ==
  /\ TxPackets \in Nat \ {0}
  /\ MaxEvents \in Nat \ {0}

VARIABLES
  link,         \* the radio link exists
  notifying,    \* the host has enabled notifications on this link
  free,         \* transmit packets not in flight
  advertising,  \* connectable advertising is running
  evtq,         \* BLE events the application has not polled
  host          \* the last report accepted on this link

sdVars == <<link, notifying, free, advertising, evtq, host>>

Events == {"CONNECTED", "DISCONNECTED", "TX_COMPLETE",
           "BOOT_MODE_ENTERED", "REPORT_MODE_ENTERED"}

(* What ble_hids_inp_rep_send and ble_bas_battery_level_update can return: *)
(* the codes the application tells apart, with NRF_ERROR_INVALID_STATE     *)
(* standing for BLE_ERROR_GATTS_SYS_ATTR_MISSING too.                      *)
ErrCodes == {"SUCCESS", "NO_TX_PACKETS", "INVALID_STATE",
             "INVALID_CONN_HANDLE"}

InFlight == TxPackets - free

SdInit ==
  /\ link = FALSE
  /\ notifying = FALSE
  /\ free = TxPackets
  /\ advertising = TRUE
  /\ evtq = <<>>
  /\ host = None

Post(e) ==
  /\ Len(evtq) < MaxEvents
  /\ evtq' = Append(evtq, e)

(***************************************************************************)
(* A notification requested by a service whose connection handle is valid  *)
(* when handle is TRUE.  The handle may be stale: the link may be gone and *)
(* its DISCONNECTED event not yet polled.                                  *)
(***************************************************************************)
HvxResult(handle) ==
  IF ~handle THEN "INVALID_STATE"
  ELSE IF ~link THEN "INVALID_CONN_HANDLE"
  ELSE IF ~notifying THEN "INVALID_STATE"
  ELSE IF free = 0 THEN "NO_TX_PACKETS"
  ELSE "SUCCESS"

Accept(report) ==
  /\ free' = free - 1
  /\ host' = report
  /\ UNCHANGED <<link, notifying, advertising, evtq>>

LinkUp ==
  /\ ~link
  /\ advertising
  /\ Post("CONNECTED")
  /\ link' = TRUE
  /\ advertising' = FALSE
  /\ host' = None
  /\ UNCHANGED <<notifying, free>>

(* The packets in flight are dropped and no TX_COMPLETE reports them.      *)
LinkDown ==
  /\ link
  /\ Post("DISCONNECTED")
  /\ link' = FALSE
  /\ notifying' = FALSE
  /\ free' = TxPackets
  /\ host' = None
  /\ UNCHANGED advertising

(* One TX_COMPLETE event reports the packets sent in a connection event.   *)
TransmitPackets ==
  /\ link
  /\ free < TxPackets
  /\ Post("TX_COMPLETE")
  /\ free' \in free + 1 .. TxPackets
  /\ UNCHANGED <<link, notifying, advertising, host>>

=============================================================================
