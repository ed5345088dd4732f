----------------------------- MODULE KeyPipeline -----------------------------
(***************************************************************************)
(* A key change from the UART interrupt to the host: uart_event_handler    *)
(* (my_keypad.c), keys_send and send_key_scan_press_release                *)
(* (my_ble_services.c), the list of KeyBuffer, and the part of the BLE     *)
(* event dispatch (my_ble_connection.c) that drives it.                    *)
(*                                                                         *)
(* Three contexts run this code, by decreasing priority:                   *)
(*   - the SoftDevice, which may act between any two steps;                *)
(*   - the UART interrupt, which neither the main loop nor the ADC one of  *)
(*     the same priority (Config) interrupts: irq_pc is its control point; *)
(*   - the main loop, which polls BLE events and takes a step only while   *)
(*     irq_pc = "idle": main_pc is its control point.                      *)
(***************************************************************************)
EXTENDS KeyBuffer, SoftDevice, Config, FiniteSets

CONSTANTS
  Byte,               \* values of a byte of keypad_state
  KeyPatterns,        \* patterns the keypad reports
  Released,           \* the pattern of no key, keypad_state after a reset
  Junk,               \* a byte read through a NULL pattern pointer
  ProtocolMode,       \* the host may write the HID protocol mode
  BatteryNotifies     \* battery notifications compete for packets

Pattern == [1 .. PatternLen -> Byte]

ASSUME PipelineAssumption ==
  /\ KeyPatterns \subseteq Pattern
  /\ Released \in KeyPatterns
  /\ Junk \notin Byte
  /\ ProtocolMode \in BOOLEAN
  /\ BatteryNotifies \in BOOLEAN

VARIABLES
  keypad_state,   \* the last pattern the UART delivered
  m_in_boot_mode,
  m_conn_handle,  \* TRUE: not BLE_CONN_HANDLE_INVALID
  hids_handle,    \* conn_handle of m_hids (and of m_bas), in the same way
  irq_pc, irq_offset,
  main_pc,
  main_evt,       \* the event being dispatched
  offset,         \* the locals of send_key_scan_press_release
  p_key_pattern, data, copied,
  loaded,         \* count, as read by buffer_list.count--
  fault,          \* APP_ERROR_HANDLER was called: the system resets
  fresh,          \* history: nothing has kept the host from getting the
                  \* reports of the last key change
  raced           \* history: it arrived while the main loop held a copy

localVars == <<main_evt, offset, p_key_pattern, data, copied, loaded>>
mainVars == <<main_pc, localVars>>
irqVars == <<irq_pc, irq_offset>>
appVars == <<keypad_state, m_in_boot_mode, m_conn_handle, hids_handle, fault>>
ghostVars == <<fresh, raced>>

vars == <<listVars, sdVars, mainVars, irqVars, appVars, ghostVars>>

(* What data can hold, as little of it as has been copied.                 *)
Report == [1 .. PatternLen -> Byte \cup {Junk}]

NullPattern == [i \in 1 .. PatternLen |-> Junk]

(* What a pattern pointer refers to at the moment it is read.              *)
Deref(pointer) == IF pointer = "NULL" THEN NullPattern ELSE keypad_state

(* A notification of the HID service would be accepted or buffered.        *)
CanNotify == link /\ notifying /\ hids_handle /\ ~m_in_boot_mode

IrqIdle == irq_pc = "idle"

(* The main loop may run: no interrupt handler is active.                  *)
MainAt(pc) == main_pc = pc /\ IrqIdle /\ ~fault

GoTo(pc) ==
  /\ main_pc' = pc
  /\ UNCHANGED localVars

(* The locals of send_key_scan_press_release are dead once it has returned.*)
LeaveSend ==
  /\ offset' = 0
  /\ p_key_pattern' = "NULL"
  /\ data' = NullPattern
  /\ copied' = 0

(* The event is done with.                                                 *)
MainIdle ==
  /\ main_pc' = "idle"
  /\ main_evt' = "none"
  /\ LeaveSend
  /\ loaded' = 0

Init ==
  /\ buffer_init
  /\ SdInit
  /\ keypad_state = Released
  /\ m_in_boot_mode = FALSE
  /\ m_conn_handle = FALSE
  /\ hids_handle = FALSE
  /\ irq_pc = "idle" /\ irq_offset = 0
  /\ main_pc = "idle" /\ main_evt = "none"
  /\ offset = 0 /\ p_key_pattern = "NULL" /\ data = NullPattern /\ copied = 0
  /\ loaded = 0
  /\ fault = FALSE
  /\ fresh = FALSE /\ raced = FALSE

-----------------------------------------------------------------------------
(***************************************************************************)
(* The UART interrupt.                                                     *)
(***************************************************************************)

(* The copy of keypad_state the main loop holds, or the count it has read, *)
(* is about to be used.                                                    *)
MainHoldsCopy ==
  \/ main_pc = "copy" /\ copied > 0
  \/ main_pc \in {"send", "store"}

(* NRF_DRV_UART_EVT_RX_DONE with a pattern that differs from keypad_state. *)
KeyChange ==
  /\ IrqIdle
  /\ ~fault
  /\ \E pattern \in KeyPatterns \ {keypad_state} : keypad_state' = pattern
  /\ irq_pc' = "send"
  /\ irq_offset' = 0
  /\ fresh' = CanNotify
  /\ raced' = MainHoldsCopy
  /\ UNCHANGED <<listVars, sdVars, mainVars,
                 m_in_boot_mode, m_conn_handle, hids_handle, fault>>

(* keys_send once send_key_scan_press_release has returned.                *)
KeysSendReturns_NoEnqueue(err_code, actual_len) ==
  /\ irq_pc' = "idle"
  /\ irq_offset' = 0
  /\ UNCHANGED listVars
  /\ fault' = (err_code = "INVALID_CONN_HANDLE")

KeysSendReturns_Strict(err_code, actual_len) ==
  /\ irq_pc' = "idle"
  /\ irq_offset' = 0
  /\ IF err_code = "NO_TX_PACKETS" /\ actual_len <= PatternLen
       THEN buffer_enqueue(actual_len)
       ELSE UNCHANGED listVars
  /\ fault' = (err_code \notin {"SUCCESS", "NO_TX_PACKETS"})

KeysSendReturns(err_code, actual_len) ==
  /\ irq_pc' = "idle"
  /\ irq_offset' = 0
  /\ IF err_code = "NO_TX_PACKETS" /\ actual_len <= PatternLen
       THEN buffer_enqueue(actual_len)
       ELSE UNCHANGED listVars
  /\ fault' = (err_code \notin {"SUCCESS", "INVALID_STATE", "NO_TX_PACKETS"})

(* One round of the send loop on behalf of keys_send.                      *)
IrqSend ==
  /\ irq_pc = "send"
  /\ ~m_in_boot_mode
  /\ LET err_code == HvxResult(hids_handle) IN
       \/ /\ err_code = "SUCCESS"
          /\ Accept(keypad_state)
          /\ IF irq_offset + 1 <= PatternLen
               THEN /\ irq_offset' = irq_offset + 1
                    /\ UNCHANGED <<irq_pc, fault, listVars>>
               ELSE KeysSendReturns(err_code, irq_offset + 1)
       \/ /\ err_code # "SUCCESS"
          /\ KeysSendReturns(err_code, irq_offset)
          /\ UNCHANGED sdVars
  /\ UNCHANGED <<mainVars, ghostVars,
                 keypad_state, m_in_boot_mode, m_conn_handle, hids_handle>>

(* In boot mode nothing is sent and err_code is read uninitialized.        *)
IrqSendBootMode ==
  /\ irq_pc = "send"
  /\ m_in_boot_mode
  /\ \E err_code \in ErrCodes :
       KeysSendReturns(err_code,
                       IF err_code = "SUCCESS" THEN PatternLen + 1 ELSE 0)
  /\ UNCHANGED <<sdVars, mainVars, ghostVars,
                 keypad_state, m_in_boot_mode, m_conn_handle, hids_handle>>

(***************************************************************************)
(* The ADC interrupt's ble_bas_battery_level_update takes a packet of the  *)
(* same link; its errors are treated as keys_send treats its own.          *)
(***************************************************************************)
BatteryNotification ==
  /\ BatteryNotifies
  /\ IrqIdle \/ Preempts("ADC", "UART")
  /\ ~fault
  /\ LET err_code == HvxResult(hids_handle) IN
       \/ /\ err_code = "SUCCESS"
          /\ Accept(host)
          /\ UNCHANGED fault
       \/ /\ err_code = "INVALID_CONN_HANDLE"
          /\ fault' = TRUE
          /\ UNCHANGED sdVars
  /\ UNCHANGED <<listVars, mainVars, irqVars, ghostVars,
                 keypad_state, m_in_boot_mode, m_conn_handle, hids_handle>>

-----------------------------------------------------------------------------
(***************************************************************************)
(* The main loop: on_ble_evt and ble_hids_on_ble_evt of a polled event.    *)
(***************************************************************************)

(* The tx_flag on_ble_evt gives buffer_dequeue.                            *)
TxFlag_Never(evt) == FALSE

TxFlag(evt) == evt = "TX_COMPLETE"

(* What ble_hids reports of a write of the protocol mode.                  *)
on_hids_evt(evt) ==
  /\ evt \in {"BOOT_MODE_ENTERED", "REPORT_MODE_ENTERED"}
  /\ m_in_boot_mode' = (evt = "BOOT_MODE_ENTERED")
  /\ fresh' = (fresh /\ evt # "BOOT_MODE_ENTERED")

PollEvent ==
  /\ MainAt("idle")
  /\ evtq # <<>>
  /\ LET evt == Head(evtq) IN
       \/ /\ evt \in {"TX_COMPLETE", "DISCONNECTED"}
          /\ main_pc' = "dequeue" /\ main_evt' = evt
          /\ UNCHANGED <<m_in_boot_mode, fresh>>
       \/ /\ evt = "CONNECTED"
          /\ main_pc' = "handle" /\ main_evt' = evt
          /\ UNCHANGED <<m_in_boot_mode, fresh>>
       \/ /\ on_hids_evt(evt)
          /\ UNCHANGED <<main_pc, main_evt>>
  /\ evtq' = Tail(evtq)
  /\ UNCHANGED <<listVars, link, notifying, free, advertising, host, irqVars,
                 offset, p_key_pattern, data, copied, loaded,
                 keypad_state, m_conn_handle, hids_handle, fault, raced>>

(* on_ble_evt after buffer_dequeue has returned.                           *)
DequeueDone ==
  IF main_evt = "DISCONNECTED"
    THEN /\ main_pc' = "handle"
         /\ loaded' = 0
         /\ UNCHANGED <<main_evt, offset, p_key_pattern, data, copied>>
    ELSE MainIdle

(* buffer_dequeue up to the call of send_key_scan_press_release.           *)
Dequeue ==
  /\ MainAt("dequeue")
  /\ \/ /\ BUFFER_LIST_EMPTY
        /\ DequeueDone
     \/ /\ ~BUFFER_LIST_EMPTY /\ ~TxFlag(main_evt)
        /\ GoTo("clear")
     \/ /\ ~BUFFER_LIST_EMPTY /\ TxFlag(main_evt)
        /\ main_pc' = "copy"
        /\ p_key_pattern' = buffer[rp].p_data
        /\ offset' = buffer[rp].data_offset
        /\ UNCHANGED <<main_evt, data, copied, loaded>>
  /\ UNCHANGED <<listVars, sdVars, irqVars, appVars, ghostVars>>

(* The length of the memcpy of send_key_scan_press_release: the whole      *)
(* pattern in every round, whatever offset counts.                         *)
CopyLength_Remaining == PatternLen - offset

CopyLength == PatternLen

(* One byte of the memcpy, low byte first.                                 *)
CopyByte ==
  /\ MainAt("copy")
  /\ data' = [data EXCEPT ![copied + 1] = Deref(p_key_pattern)[copied + 1]]
  /\ copied' = copied + 1
  /\ main_pc' = IF copied + 1 >= CopyLength THEN "send" ELSE "copy"
  /\ UNCHANGED <<main_evt, offset, p_key_pattern, loaded,
                 listVars, sdVars, irqVars, appVars, ghostVars>>

(* buffer_dequeue once send_key_scan_press_release has returned.           *)
DequeueReturns(err_code, actual_len) ==
  LET unsent == err_code = "NO_TX_PACKETS" /\ actual_len <= PatternLen IN
  \/ /\ unsent
     /\ KeepHead(actual_len)
     /\ MainIdle
  \/ /\ ~unsent
     /\ main_pc' = "clear"
     /\ LeaveSend
     /\ UNCHANGED <<listVars, main_evt, loaded>>

(* One round of the send loop on behalf of buffer_dequeue.                 *)
MainSend ==
  /\ MainAt("send")
  /\ ~m_in_boot_mode
  /\ LET err_code == HvxResult(hids_handle) IN
       \/ /\ err_code = "SUCCESS"
          /\ Accept(data)
          /\ IF offset + 1 <= PatternLen
               THEN /\ main_pc' = "copy"
                    /\ offset' = offset + 1
                    /\ data' = NullPattern /\ copied' = 0
                    /\ UNCHANGED <<main_evt, p_key_pattern, loaded, listVars>>
               ELSE DequeueReturns(err_code, offset + 1)
       \/ /\ err_code # "SUCCESS"
          /\ DequeueReturns(err_code, offset)
          /\ UNCHANGED sdVars
  /\ UNCHANGED <<irqVars, appVars, ghostVars>>

MainSendBootMode ==
  /\ MainAt("send")
  /\ m_in_boot_mode
  /\ \E err_code \in ErrCodes :
       DequeueReturns(err_code,
                      IF err_code = "SUCCESS" THEN PatternLen + 1 ELSE offset)
  /\ UNCHANGED <<sdVars, irqVars, appVars, ghostVars>>

(* The removal of the head, one shared access at a time.                   *)
Clear ==
  /\ MainAt("clear")
  /\ ClearHead
  /\ GoTo("load")
  /\ UNCHANGED <<sdVars, irqVars, appVars, ghostVars>>

Load ==
  /\ MainAt("load")
  /\ main_pc' = "store"
  /\ loaded' = count
  /\ UNCHANGED <<main_evt, offset, p_key_pattern, data, copied,
                 listVars, sdVars, irqVars, appVars, ghostVars>>

Store ==
  /\ MainAt("store")
  /\ RetireHead(loaded)
  /\ DequeueDone
  /\ UNCHANGED <<sdVars, irqVars, appVars, ghostVars>>

(* on_ble_evt sets m_conn_handle.  Its whitelist part is modelled in       *)
(* Whitelist.                                                              *)
SetConnHandle_Connect ==
  m_conn_handle' = (m_conn_handle \/ main_evt = "CONNECTED")

SetConnHandle ==
  m_conn_handle' = (main_evt = "CONNECTED")

HandleConnection ==
  /\ MainAt("handle")
  /\ SetConnHandle
  /\ GoTo("hids")
  /\ UNCHANGED <<sdVars, listVars, irqVars,
                 keypad_state, m_in_boot_mode, hids_handle, fault, ghostVars>>

(* ble_hids_on_ble_evt and ble_bas_on_ble_evt come last.                   *)
HandleHids ==
  /\ MainAt("hids")
  /\ hids_handle' = (main_evt = "CONNECTED")
  /\ MainIdle
  /\ UNCHANGED <<listVars, sdVars, irqVars,
                 keypad_state, m_in_boot_mode, m_conn_handle, fault, ghostVars>>

-----------------------------------------------------------------------------
(***************************************************************************)
(* The SoftDevice and the host.                                            *)
(***************************************************************************)

Unchanged_App == UNCHANGED <<listVars, mainVars, irqVars, appVars, raced>>

(* Events of the link have not been polled.                                *)
LinkEventWaits ==
  \E i \in 1 .. Len(evtq) : evtq[i] \in {"CONNECTED", "DISCONNECTED"}

(* The advertising module makes the device connectable again once the end  *)
(* of the link has been dispatched: at once, or when the flash operations  *)
(* pending then have ended (Whitelist), or some time after a timeout.      *)
AdvertisingStarts ==
  /\ ~link /\ ~m_conn_handle /\ ~LinkEventWaits
  /\ advertising' = TRUE

AdvertisingTimesOut ==
  /\ advertising
  /\ advertising' = FALSE

AdvertisingChanges ==
  /\ ~fault
  /\ AdvertisingStarts \/ AdvertisingTimesOut
  /\ UNCHANGED <<link, notifying, free, evtq, host, fresh>>
  /\ Unchanged_App

Connect ==
  /\ ~fault
  /\ LinkUp
  /\ fresh' = fresh
  /\ Unchanged_App

Disconnect ==
  /\ ~fault
  /\ LinkDown
  /\ fresh' = FALSE
  /\ Unchanged_App

TxComplete ==
  /\ ~fault
  /\ TransmitPackets
  /\ fresh' = fresh
  /\ Unchanged_App

(* The host writes the CCCD, or the peer manager restores it, on a secured *)
(* link: the application has handled the connection.                       *)
Subscribe ==
  /\ ~fault
  /\ link /\ m_conn_handle /\ hids_handle
  /\ notifying' = ~notifying
  /\ fresh' = FALSE
  /\ UNCHANGED <<link, free, advertising, evtq, host>>
  /\ Unchanged_App

WriteProtocolMode ==
  /\ ProtocolMode
  /\ ~fault
  /\ link /\ m_conn_handle
  /\ \E evt \in {"BOOT_MODE_ENTERED", "REPORT_MODE_ENTERED"} : Post(evt)
  /\ fresh' = fresh
  /\ UNCHANGED <<link, notifying, free, advertising, host>>
  /\ Unchanged_App

(* The reset APP_ERROR_HANDLER ends in: main runs again from the start.    *)
Reset ==
  /\ fault
  /\ rp' = 0 /\ wp' = 0 /\ count' = 0 /\ lapped' = FALSE
  /\ buffer' = [i \in Slots |-> [p_data |-> "NULL", data_offset |-> 0]]
  /\ link' = FALSE /\ notifying' = FALSE /\ free' = TxPackets
  /\ advertising' = TRUE /\ evtq' = <<>> /\ host' = None
  /\ keypad_state' = Released
  /\ m_in_boot_mode' = FALSE /\ m_conn_handle' = FALSE /\ hids_handle' = FALSE
  /\ irq_pc' = "idle" /\ irq_offset' = 0
  /\ MainIdle
  /\ fault' = FALSE /\ fresh' = FALSE /\ raced' = FALSE

MainStep ==
  \/ PollEvent \/ Dequeue \/ CopyByte \/ MainSend \/ MainSendBootMode
  \/ Clear \/ Load \/ Store \/ HandleConnection \/ HandleHids

IrqStep == IrqSend \/ IrqSendBootMode

Next ==
  \/ KeyChange \/ BatteryNotification
  \/ IrqStep
  \/ MainStep
  \/ AdvertisingChanges
  \/ Connect \/ Disconnect \/ TxComplete \/ Subscribe \/ WriteProtocolMode
  \/ Reset

Spec == Init /\ [][Next]_vars

(***************************************************************************)
(* Fairness.  The SoftDevice transmits what it accepted while the link     *)
(* lives; a handler runs to its end; the main loop, which the 4800 baud    *)
(* UART interrupts again and again, gets through the gaps, hence SF.       *)
(***************************************************************************)
LiveSpec ==
  /\ Spec
  /\ WF_vars(IrqStep)
  /\ SF_vars(MainStep)
  /\ WF_vars(TxComplete)

-----------------------------------------------------------------------------
(* Every variable has its type.                                            *)
TypeOK ==
  /\ rp \in Slots /\ wp \in Slots
  /\ count \in Nat
  /\ buffer \in [Slots -> Element]
  /\ link \in BOOLEAN /\ notifying \in BOOLEAN /\ advertising \in BOOLEAN
  /\ free \in 0 .. TxPackets
  /\ evtq \in Seq(Events)
  /\ host \in Report \cup {None}
  /\ keypad_state \in KeyPatterns
  /\ m_in_boot_mode \in BOOLEAN /\ m_conn_handle \in BOOLEAN
  /\ hids_handle \in BOOLEAN /\ fault \in BOOLEAN
  /\ irq_pc \in {"idle", "send"} /\ irq_offset \in 0 .. PatternLen
  /\ main_pc \in {"idle", "dequeue", "copy", "send", "clear", "load", "store",
                  "handle", "hids"}
  /\ main_evt \in {"none", "TX_COMPLETE", "DISCONNECTED", "CONNECTED"}
  /\ offset \in 0 .. PatternLen
  /\ p_key_pattern \in Pointer
  /\ data \in Report
  /\ copied \in 0 .. PatternLen
  /\ loaded \in Nat
  /\ fresh \in BOOLEAN /\ raced \in BOOLEAN /\ lapped \in BOOLEAN

(***************************************************************************)
(* The count the main loop and the interrupt both update without a lock    *)
(* stays in range: an enqueue that falls between the two halves of count-- *)
(* can be lost, but the list never holds more than one entry too many, and *)
(* the uint8_t never wraps below zero (my_ble_buffer.c:31, 75;             *)
(* my_ble_buffer.h:67-68).                                                 *)
(***************************************************************************)
CountInRange ==
  /\ count \in 0 .. MAX_BUFFER_ENTRIES + 1
  /\ main_pc \in {"copy", "send", "clear", "load"} => count > 0
  /\ main_pc = "store" => loaded \in 1 .. count

(* Nothing is being done and nothing is buffered.                          *)
AtRest == main_pc = "idle" /\ irq_pc = "idle" /\ count = 0 /\ ~fault

(***************************************************************************)
(* The host is left with the current state of the keys: once nothing is    *)
(* pending, the last report it was sent is keypad_state, although reports  *)
(* are dropped, repeated, cut short by a lack of packets, and sent by the  *)
(* interrupt ahead of older buffered ones.  The exceptions are two: the    *)
(* key change fell while the main loop held a copy (raced), or the list    *)
(* was overfilled since the last reset (lapped).  (my_ble_services.c:148-  *)
(* 221, my_ble_buffer.c:14-84, my_keypad.c:38-51)                          *)
(***************************************************************************)
HostConverges ==
  AtRest /\ fresh /\ ~raced /\ ~lapped => host = keypad_state

(***************************************************************************)
(* The pipeline implements KeyDelivery: every single report the host gets  *)
(* is keypad_state at the moment it is accepted, the re-sent ones of the   *)
(* main loop included, with the same two exceptions                        *)
(* (my_ble_services.c:163-182, my_ble_buffer.c:55-60).                     *)
(***************************************************************************)
Delivery == INSTANCE KeyDelivery WITH
  Keys <- KeyPatterns, NoKeys <- Released, Reports <- Report,
  keys <- keypad_state, shown <- host, disturbed <- raced \/ lapped

ReportsAreCurrent == Delivery!Spec

(***************************************************************************)
(* No entry waits for a TX_COMPLETE that will not come: while the host     *)
(* listens, a non-empty list means packets in flight, or a TX_COMPLETE not *)
(* yet polled, or the main loop on its way to poll one or retry            *)
(* (my_ble_connection.c:45-49, my_ble_services.c:205-211).                 *)
(***************************************************************************)
NoStrandedKeys ==
  fresh /\ count > 0 /\ main_pc = "idle" /\ IrqIdle /\ ~fault =>
    InFlight > 0 \/ \E i \in 1 .. Len(evtq) : evtq[i] = "TX_COMPLETE"

(* The memcpy starts afresh and ends with the pattern.                     *)
CopyProgress ==
  /\ main_pc = "copy" => copied < PatternLen
  /\ main_pc = "send" => copied = PatternLen
  /\ main_pc \notin {"copy", "send"} => copied = 0

(* The head, or what will be the head once the main loop has retired it.   *)
Retiring == main_pc \in {"load", "store"}
FirstEntry == IF Retiring THEN Successor(rp) ELSE rp

(***************************************************************************)
(* Until the list is overfilled, its entries are a run of slots from rp to *)
(* wp, in order, whatever the interrupt enqueues between the clearing of   *)
(* the head and the advance of rp; and count, which can lose an increment, *)
(* never exceeds their number: an entry is dequeued only if there is one   *)
(* (my_ble_buffer.c:25-36, 47-79).                                         *)
(***************************************************************************)
ListInOrder ==
  ~lapped =>
    \E n \in 0 .. MAX_BUFFER_ENTRIES :
      /\ EntriesFrom(FirstEntry, n)
      /\ count <= IF Retiring THEN n + 1 ELSE n

(***************************************************************************)
(* The main loop reads a pattern through a NULL p_data only after the      *)
(* interrupt has overwritten an entry that was still in the list           *)
(* (my_ble_buffer.c:53-60, my_ble_buffer.h:80-84).                         *)
(***************************************************************************)
NullReadOnlyAfterLap ==
  main_pc \in {"copy", "send"} /\ p_key_pattern = "NULL" => lapped

(* As much as has been copied is what keypad_state still holds.            *)
CopyIsCurrent ==
  main_pc \in {"copy", "send"} /\ p_key_pattern # "NULL" /\ ~raced =>
    \A i \in 1 .. copied : data[i] = keypad_state[i]

(***************************************************************************)
(* Once the main loop has nothing left to dispatch, the copies of the      *)
(* connection handle kept by the application and by the services agree     *)
(* with the link, however soon or late advertising begins again            *)
(* (my_ble_connection.c:40-56, 131-143).                                   *)
(***************************************************************************)
HandlesFollowLink ==
  main_pc = "idle" /\ ~fault /\ ~LinkEventWaits
    => m_conn_handle = link /\ hids_handle = link

(***************************************************************************)
(* A key change that nothing interferes with reaches the host, or a later  *)
(* one takes its place.                                                    *)
(***************************************************************************)
KeysReachHost ==
  fresh ~> (host = keypad_state \/ ~fresh \/ raced \/ lapped \/ fault)

(***************************************************************************)
(* keys_send and the battery notification reset the controller only while  *)
(* a link loss has not been dispatched, or in boot mode, where the error   *)
(* code is uninitialized: in no other state does a handle kept too long or *)
(* an error that is to be expected end in APP_ERROR_HANDLER                *)
(* (my_ble_services.c:214-220, my_battery.c:36-41).                        *)
(***************************************************************************)
LossPending ==
  main_evt = "DISCONNECTED" \/ \E i \in 1 .. Len(evtq) : evtq[i] = "DISCONNECTED"

ResetsOnlyOnLoss ==
  [][fault' /\ ~fault => LossPending \/ m_in_boot_mode]_vars

-----------------------------------------------------------------------------
(***************************************************************************)
(* What the comments of the source say, and the code does not do.          *)
(***************************************************************************)

(* "number of elements that can be enqueued" (my_ble_buffer.h:7).          *)
AtMostMaxEntries == count <= MAX_BUFFER_ENTRIES

(* "elements in list" (my_ble_buffer.h:41), overfilling apart.             *)
CountsElements ==
  main_pc = "idle" /\ IrqIdle /\ ~lapped =>
    count = Cardinality({i \in Slots : Occupied(i)})

(* "Dequeue all keys without transmission." (my_ble_connection.c:53): when *)
(* on_ble_evt goes on after buffer_dequeue(false), no key is left.         *)
DisconnectDropsAll ==
  [][main_pc' = "handle" /\ main_evt' = "DISCONNECTED" /\ main_pc # "handle"
       => count' = 0]_vars

=============================================================================
