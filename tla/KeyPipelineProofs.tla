-------------------------- MODULE KeyPipelineProofs --------------------------
(***************************************************************************)
(* Theorems about KeyPipeline, for every size of the list, every pattern   *)
(* length, every set of patterns and any number of transmit packets.       *)
(***************************************************************************)
EXTENDS KeyPipeline, TLAPS

USE DEF Slots, IrqIdle

(* What keypad_state holds can be sent.                                    *)
LEMMA PatternsAreReports == KeyPatterns \subseteq Report
  BY PipelineAssumption DEF Pattern, Report

(* Nothing copied yet is a legal content of data.                          *)
LEMMA NullPatternIsReport == NullPattern \in Report
  BY DEF NullPattern, Report

(* A wrapped index is an index.                                            *)
LEMMA SuccessorIsSlot == \A i \in Slots : Successor(i) \in Slots
  BY BufferAssumption DEF Successor

-----------------------------------------------------------------------------
(* The strengthening: the count is bounded only while the main loop's      *)
(* locals are what its control point says they are.                        *)
CountInv == TypeOK /\ CountInRange /\ CopyProgress

(* An enqueue keeps the list well formed and adds at most one element,     *)
(* never past MAX_BUFFER_ENTRIES + 1 (buffer_enqueue, my_ble_buffer.c:14). *)
LEMMA EnqueueKeepsList ==
  ASSUME TypeOK, CountInRange, NEW actual_len \in 0 .. PatternLen,
         buffer_enqueue(actual_len)
  PROVE  /\ rp' \in Slots /\ wp' \in Slots
         /\ buffer' \in [Slots -> Element]
         /\ lapped' \in BOOLEAN
         /\ count' \in count .. MAX_BUFFER_ENTRIES + 1
<1>1. CASE BUFFER_LIST_FULL /\ UNCHANGED listVars
  BY <1>1, BufferAssumption DEF listVars, TypeOK, CountInRange
<1>2. CASE ~BUFFER_LIST_FULL
  <2>1. count' = count + 1 /\ count # MAX_BUFFER_ENTRIES + 1
    BY <1>2, BufferAssumption
    DEF buffer_enqueue, BUFFER_LIST_FULL, TypeOK
  <2>2. [p_data |-> "keypad_state", data_offset |-> actual_len] \in Element
    BY DEF Element, Pointer
  <2>3. buffer' \in [Slots -> Element]
    BY <1>2, <2>2 DEF buffer_enqueue, TypeOK
  <2>4. rp' \in Slots /\ wp' \in Slots
    BY <1>2, SuccessorIsSlot DEF buffer_enqueue, TypeOK
  <2>5. lapped' \in BOOLEAN
    BY <1>2 DEF buffer_enqueue, TypeOK
  <2> QED  BY <2>1, <2>3, <2>4, <2>5, BufferAssumption DEF CountInRange, TypeOK
<1> QED  BY <1>1, <1>2 DEF buffer_enqueue

(* Whatever send_key_scan_press_release returned, keys_send keeps the list *)
(* well formed (my_ble_services.c:198-220).                                *)
LEMMA KeysSendKeepsList ==
  ASSUME TypeOK, CountInRange, NEW err_code, NEW actual_len \in Nat,
         KeysSendReturns(err_code, actual_len)
  PROVE  /\ irq_pc' = "idle" /\ irq_offset' = 0
         /\ fault' \in BOOLEAN
         /\ rp' \in Slots /\ wp' \in Slots
         /\ buffer' \in [Slots -> Element]
         /\ lapped' \in BOOLEAN
         /\ count' \in count .. MAX_BUFFER_ENTRIES + 1
<1>1. CASE err_code = "NO_TX_PACKETS" /\ actual_len <= PatternLen
  <2>1. actual_len \in 0 .. PatternLen
    BY <1>1, BufferAssumption
  <2>2. buffer_enqueue(actual_len)
    BY <1>1 DEF KeysSendReturns
  <2> QED  BY <2>1, <2>2, EnqueueKeepsList DEF KeysSendReturns
<1>2. CASE ~(err_code = "NO_TX_PACKETS" /\ actual_len <= PatternLen)
  <2>1. UNCHANGED listVars
    BY <1>2 DEF KeysSendReturns
  <2> QED
    BY <2>1, BufferAssumption
    DEF KeysSendReturns, listVars, TypeOK, CountInRange
<1> QED  BY <1>1, <1>2

(* The same of buffer_dequeue (my_ble_buffer.c:56-71): it keeps the head   *)
(* or goes on to remove it.                                                *)
LEMMA DequeueReturnsKeepsList ==
  ASSUME TypeOK, NEW err_code, NEW actual_len \in Nat,
         DequeueReturns(err_code, actual_len)
  PROVE  /\ UNCHANGED <<rp, wp, count, lapped>>
         /\ buffer' \in [Slots -> Element]
         /\ main_pc' \in {"idle", "clear"}
         /\ main_evt' \in {"none", main_evt}
         /\ loaded' \in {0, loaded}
         /\ offset' = 0 /\ copied' = 0 /\ p_key_pattern' = "NULL"
         /\ data' = NullPattern
<1>1. CASE err_code = "NO_TX_PACKETS" /\ actual_len <= PatternLen
  <2>1. actual_len \in 0 .. PatternLen
    BY <1>1, BufferAssumption
  <2>2. KeepHead(actual_len) /\ MainIdle
    BY <1>1 DEF DequeueReturns
  <2>3. [buffer[rp] EXCEPT !.data_offset = actual_len] \in Element
    BY <2>1 DEF TypeOK, Element
  <2>4. buffer' \in [Slots -> Element]
    BY <2>2, <2>3 DEF KeepHead, TypeOK
  <2> QED  BY <2>2, <2>4 DEF KeepHead, MainIdle, LeaveSend
<1>2. CASE ~(err_code = "NO_TX_PACKETS" /\ actual_len <= PatternLen)
  BY <1>2 DEF DequeueReturns, LeaveSend, listVars, TypeOK
<1> QED  BY <1>1, <1>2

(* What the SoftDevice accepts and what follows does not disturb the rest. *)
LEMMA AcceptKeepsTypes ==
  ASSUME TypeOK, NEW report \in Report \cup {None}, free > 0, Accept(report)
  PROVE  free' \in 0 .. TxPackets /\ host' \in Report \cup {None}
  BY SoftDeviceAssumption DEF Accept, TypeOK

(* A notification is accepted only when there is a packet for it.          *)
LEMMA SuccessNeedsPacket ==
  ASSUME TypeOK, NEW handle, HvxResult(handle) = "SUCCESS"
  PROVE  free > 0
  BY DEF HvxResult, TypeOK

(* Posting an event keeps the queue a sequence of events.                  *)
LEMMA PostKeepsQueue ==
  ASSUME TypeOK, NEW e \in Events, Post(e)
  PROVE  evtq' \in Seq(Events)
  BY DEF Post, TypeOK

-----------------------------------------------------------------------------
(* No step breaks the types or the bounds on the count.                    *)
LEMMA CountInvInductive == CountInv /\ [Next]_vars => CountInv'
<1> SUFFICES ASSUME TypeOK, CountInRange, CopyProgress, [Next]_vars
             PROVE  TypeOK' /\ CountInRange' /\ CopyProgress'
  BY DEF CountInv
<1> USE DEF CopyProgress
<1> USE BufferAssumption, SoftDeviceAssumption
<1>1. CASE KeyChange
  BY <1>1 DEF KeyChange, TypeOK, CountInRange, CanNotify, MainHoldsCopy,
              listVars, sdVars, mainVars, localVars
<1>2. CASE BatteryNotification
  <2>1. free' \in 0 .. TxPackets /\ host' \in Report \cup {None}
    <3>1. CASE HvxResult(hids_handle) = "SUCCESS" /\ Accept(host)
      BY <3>1, SuccessNeedsPacket, AcceptKeepsTypes DEF TypeOK
    <3>2. CASE UNCHANGED sdVars
      BY <3>2 DEF sdVars, TypeOK
    <3> QED  BY <1>2, <3>1, <3>2 DEF BatteryNotification
  <2>2. /\ UNCHANGED <<rp, wp, count, buffer, keypad_state, m_in_boot_mode,
                       m_conn_handle, hids_handle, irq_pc, irq_offset,
                       main_pc, main_evt, offset, p_key_pattern, data, copied,
                       loaded, fresh, raced, lapped>>
        /\ UNCHANGED <<link, notifying, advertising, evtq>>
        /\ fault' \in BOOLEAN
    BY <1>2
    DEF BatteryNotification, Accept, TypeOK, listVars, sdVars, mainVars,
        irqVars, localVars, ghostVars
  <2>3. TypeOK'
    BY <2>1, <2>2 DEF TypeOK
  <2>4. CountInRange' /\ CopyProgress'
    BY <2>2 DEF CountInRange
  <2> QED  BY <2>3, <2>4
<1>3. CASE IrqSend
  <2>1. keypad_state \in Report
    BY PatternsAreReports DEF TypeOK
  <2>2. irq_offset + 1 \in Nat /\ irq_offset \in Nat
    BY DEF TypeOK
  <2>3. CASE /\ HvxResult(hids_handle) = "SUCCESS" /\ Accept(keypad_state)
             /\ irq_offset + 1 <= PatternLen
    <3>1. free' \in 0 .. TxPackets /\ host' \in Report \cup {None}
      BY <2>1, <2>3, SuccessNeedsPacket, AcceptKeepsTypes
    <3> QED
      BY <1>3, <2>3, <3>1
      DEF IrqSend, Accept, TypeOK, CountInRange,
          listVars, mainVars, localVars, ghostVars
  <2>4. CASE /\ HvxResult(hids_handle) = "SUCCESS" /\ Accept(keypad_state)
             /\ KeysSendReturns("SUCCESS", irq_offset + 1)
    <3>1. free' \in 0 .. TxPackets /\ host' \in Report \cup {None}
      BY <2>1, <2>4, SuccessNeedsPacket, AcceptKeepsTypes
    <3>2. /\ irq_pc' = "idle" /\ irq_offset' = 0 /\ fault' \in BOOLEAN
          /\ rp' \in Slots /\ wp' \in Slots /\ lapped' \in BOOLEAN
          /\ buffer' \in [Slots -> Element]
          /\ count' \in count .. MAX_BUFFER_ENTRIES + 1
      BY <2>2, <2>4, KeysSendKeepsList
    <3> QED
      BY <1>3, <2>4, <3>1, <3>2
      DEF IrqSend, Accept, TypeOK, CountInRange, mainVars, localVars, ghostVars
  <2>5. CASE /\ UNCHANGED sdVars
             /\ KeysSendReturns(HvxResult(hids_handle), irq_offset)
    <3>1. /\ irq_pc' = "idle" /\ irq_offset' = 0 /\ fault' \in BOOLEAN
          /\ rp' \in Slots /\ wp' \in Slots /\ lapped' \in BOOLEAN
          /\ buffer' \in [Slots -> Element]
          /\ count' \in count .. MAX_BUFFER_ENTRIES + 1
      BY <2>2, <2>5, KeysSendKeepsList
    <3> QED
      BY <1>3, <2>5, <3>1
      DEF IrqSend, sdVars, TypeOK, CountInRange, mainVars, localVars, ghostVars
  <2> QED  BY <1>3, <2>3, <2>4, <2>5 DEF IrqSend
<1>4. CASE IrqSendBootMode
  <2>1. /\ irq_pc' = "idle" /\ irq_offset' = 0 /\ fault' \in BOOLEAN
        /\ rp' \in Slots /\ wp' \in Slots /\ lapped' \in BOOLEAN
        /\ buffer' \in [Slots -> Element]
        /\ count' \in count .. MAX_BUFFER_ENTRIES + 1
    <3>1. PICK err_code \in ErrCodes, actual_len \in {PatternLen + 1, 0} :
            KeysSendReturns(err_code, actual_len)
      BY <1>4 DEF IrqSendBootMode
    <3> QED  BY <3>1, KeysSendKeepsList
  <2> QED
    BY <1>4, <2>1
    DEF IrqSendBootMode, sdVars, TypeOK, CountInRange, mainVars, localVars,
        ghostVars
<1>5. CASE PollEvent
  <2>1. Tail(evtq) \in Seq(Events) /\ Head(evtq) \in Events
    BY <1>5 DEF PollEvent, TypeOK
  <2>2. /\ main_pc = "idle" /\ main_pc' \in {"idle", "dequeue", "handle"}
        /\ main_evt' \in {main_evt, "TX_COMPLETE", "DISCONNECTED", "CONNECTED"}
        /\ m_in_boot_mode' \in BOOLEAN /\ fresh' \in BOOLEAN
    BY <1>5 DEF PollEvent, on_hids_evt, MainAt, TypeOK
  <2>3. /\ evtq' = Tail(evtq)
        /\ UNCHANGED <<listVars, link, notifying, free, advertising, host,
                       irqVars, offset, p_key_pattern, data, copied, loaded,
                       keypad_state, m_conn_handle, hids_handle, fault, raced>>
    BY <1>5 DEF PollEvent
  <2> QED
    BY <2>1, <2>2, <2>3 DEF TypeOK, CountInRange, listVars, irqVars
<1>6. CASE Dequeue
  <2>1. buffer[rp] \in Element
    BY DEF TypeOK
  <2>2. /\ main_pc = "dequeue"
        /\ UNCHANGED <<listVars, sdVars, irqVars, appVars, ghostVars>>
    BY <1>6 DEF Dequeue, MainAt
  <2>3. CASE BUFFER_LIST_EMPTY /\ DequeueDone
    BY <2>2, <2>3, NullPatternIsReport
    DEF DequeueDone, MainIdle, LeaveSend, TypeOK, CountInRange,
        listVars, sdVars, irqVars, appVars, ghostVars
  <2>4. CASE ~BUFFER_LIST_EMPTY /\ GoTo("clear")
    BY <2>2, <2>4
    DEF GoTo, BUFFER_LIST_EMPTY, TypeOK, CountInRange,
        listVars, sdVars, irqVars, appVars, ghostVars, localVars
  <2>5. CASE /\ ~BUFFER_LIST_EMPTY
             /\ main_pc' = "copy"
             /\ p_key_pattern' = buffer[rp].p_data
             /\ offset' = buffer[rp].data_offset
             /\ UNCHANGED <<main_evt, data, copied, loaded>>
    <3>1. p_key_pattern' \in Pointer /\ offset' \in 0 .. PatternLen
      BY <2>1, <2>5 DEF Element
    <3>2. copied' = 0
      BY <2>2, <2>5 DEF CopyProgress
    <3> QED
      BY <2>2, <2>5, <3>1, <3>2
      DEF BUFFER_LIST_EMPTY, TypeOK, CountInRange,
          listVars, sdVars, irqVars, appVars, ghostVars
  <2> QED  BY <1>6, <2>3, <2>4, <2>5 DEF Dequeue
<1>7. CASE CopyByte
  <2>1. /\ main_pc = "copy" /\ copied < PatternLen
        /\ data' = [data EXCEPT ![copied + 1] =
                                     Deref(p_key_pattern)[copied + 1]]
        /\ copied' = copied + 1
        /\ main_pc' = IF copied + 1 >= PatternLen THEN "send" ELSE "copy"
        /\ UNCHANGED <<main_evt, offset, p_key_pattern, loaded,
                       listVars, sdVars, irqVars, appVars, ghostVars>>
    BY <1>7 DEF CopyByte, MainAt, CopyLength
  <2>2. Deref(p_key_pattern) \in Report
    BY PatternsAreReports, NullPatternIsReport DEF Deref, TypeOK
  <2>3. data' \in Report
    BY <2>1, <2>2 DEF TypeOK, Report
  <2>4. /\ copied' \in 0 .. PatternLen
        /\ main_pc' = "copy" => copied' < PatternLen
        /\ main_pc' = "send" => copied' = PatternLen
        /\ main_pc' \in {"copy", "send"}
    BY <2>1 DEF TypeOK
  <2> QED
    BY <2>1, <2>3, <2>4
    DEF TypeOK, CountInRange, listVars, sdVars, irqVars, appVars, ghostVars
<1>8. CASE MainSend
  <2>1. /\ main_pc = "send"
        /\ UNCHANGED <<irqVars, appVars, ghostVars>>
    BY <1>8 DEF MainSend, MainAt
  <2>2. offset \in Nat /\ offset + 1 \in Nat
    BY DEF TypeOK
  <2>3. CASE Accept(data) /\ HvxResult(hids_handle) = "SUCCESS"
    <3>1. free' \in 0 .. TxPackets /\ host' \in Report \cup {None}
      BY <2>3, SuccessNeedsPacket, AcceptKeepsTypes DEF TypeOK
    <3>2. CASE /\ offset + 1 <= PatternLen
               /\ main_pc' = "copy" /\ offset' = offset + 1
               /\ data' = NullPattern /\ copied' = 0
               /\ UNCHANGED <<main_evt, p_key_pattern, loaded, listVars>>
      BY <2>1, <2>2, <2>3, <3>1, <3>2, NullPatternIsReport
      DEF Accept, TypeOK, CountInRange, listVars, irqVars, appVars, ghostVars
    <3>3. CASE DequeueReturns("SUCCESS", offset + 1)
      BY <2>1, <2>2, <2>3, <3>1, <3>3, NullPatternIsReport,
         DequeueReturnsKeepsList
      DEF Accept, TypeOK, CountInRange, Pointer, irqVars, appVars, ghostVars
    <3> QED  BY <1>8, <2>3, <3>2, <3>3 DEF MainSend
  <2>4. CASE UNCHANGED sdVars /\ DequeueReturns(HvxResult(hids_handle), offset)
    BY <2>1, <2>2, <2>4, NullPatternIsReport, DequeueReturnsKeepsList
    DEF sdVars, TypeOK, CountInRange, Pointer, irqVars, appVars, ghostVars
  <2> QED  BY <1>8, <2>3, <2>4 DEF MainSend
<1>9. CASE MainSendBootMode
  <2>1. PICK err_code \in ErrCodes, actual_len \in {PatternLen + 1, offset} :
          DequeueReturns(err_code, actual_len)
    BY <1>9 DEF MainSendBootMode
  <2>2. actual_len \in Nat
    BY <2>1 DEF TypeOK
  <2> QED
    BY <1>9, <2>1, <2>2, NullPatternIsReport, DequeueReturnsKeepsList
    DEF MainSendBootMode, MainAt, sdVars, TypeOK, CountInRange, Pointer,
        irqVars, appVars, ghostVars
<1>10. CASE Clear
  <2>1. buffer' \in [Slots -> Element]
    <3>1. buffer[rp] \in Element
      BY DEF TypeOK
    <3>2. [buffer[rp] EXCEPT !.p_data = "NULL"] \in Element
      BY <3>1 DEF Element, Pointer
    <3> QED  BY <1>10, <3>2 DEF Clear, ClearHead, TypeOK
  <2> QED
    BY <1>10, <2>1
    DEF Clear, ClearHead, GoTo, MainAt, TypeOK, CountInRange,
        sdVars, irqVars, appVars, ghostVars, localVars
<1>11. CASE Load
  BY <1>11
  DEF Load, MainAt, TypeOK, CountInRange,
      listVars, sdVars, irqVars, appVars, ghostVars
<1>12. CASE Store
  <2>1. rp' \in Slots /\ count' \in 0 .. MAX_BUFFER_ENTRIES + 1
    BY <1>12, SuccessorIsSlot
    DEF Store, RetireHead, MainAt, TypeOK, CountInRange
  <2> QED
    BY <1>12, <2>1, NullPatternIsReport
    DEF Store, RetireHead, DequeueDone, MainIdle, LeaveSend, MainAt,
        TypeOK, CountInRange, Pointer, sdVars, irqVars, appVars, ghostVars
<1>13. CASE HandleConnection
  BY <1>13
  DEF HandleConnection, SetConnHandle, GoTo, MainAt, TypeOK, CountInRange,
      listVars, sdVars, irqVars, ghostVars, localVars
<1>14. CASE HandleHids
  BY <1>14, NullPatternIsReport
  DEF HandleHids, MainIdle, LeaveSend, MainAt, TypeOK, CountInRange, Pointer,
      listVars, sdVars, irqVars, ghostVars
<1>15. CASE Connect \/ Disconnect \/ TxComplete
  <2>1. evtq' \in Seq(Events)
    BY <1>15, PostKeepsQueue
    DEF Connect, Disconnect, TxComplete, LinkUp, LinkDown, TransmitPackets,
        Events
  <2>2. free' \in 0 .. TxPackets
    BY <1>15
    DEF Connect, Disconnect, TxComplete, LinkUp, LinkDown, TransmitPackets,
        TypeOK
  <2>3. /\ link' \in BOOLEAN /\ notifying' \in BOOLEAN
        /\ advertising' \in BOOLEAN /\ fresh' \in BOOLEAN
        /\ host' \in Report \cup {None}
    BY <1>15
    DEF Connect, Disconnect, TxComplete, LinkUp, LinkDown, TransmitPackets,
        TypeOK
  <2>4. Unchanged_App
    BY <1>15 DEF Connect, Disconnect, TxComplete
  <2> QED
    BY <2>1, <2>2, <2>3, <2>4
    DEF Unchanged_App, TypeOK, CountInRange,
        listVars, mainVars, localVars, irqVars, appVars
<1>16. CASE Subscribe \/ AdvertisingChanges
  <2>1. /\ notifying' \in BOOLEAN /\ advertising' \in BOOLEAN
        /\ fresh' \in BOOLEAN
    BY <1>16
    DEF Subscribe, AdvertisingChanges, AdvertisingStarts, AdvertisingTimesOut,
        TypeOK
  <2>2. Unchanged_App /\ UNCHANGED <<link, free, evtq, host>>
    BY <1>16 DEF Subscribe, AdvertisingChanges
  <2> QED
    BY <2>1, <2>2
    DEF Unchanged_App, TypeOK, CountInRange,
        listVars, mainVars, localVars, irqVars, appVars
<1>17. CASE WriteProtocolMode
  <2>1. evtq' \in Seq(Events)
    BY <1>17, PostKeepsQueue DEF WriteProtocolMode, Events
  <2> QED
    BY <1>17, <2>1
    DEF WriteProtocolMode, Unchanged_App, TypeOK, CountInRange,
        listVars, mainVars, localVars, irqVars, appVars
<1>18. CASE Reset
  <2>1. [p_data |-> "NULL", data_offset |-> 0] \in Element
    BY DEF Element, Pointer
  <2>2. buffer' \in [Slots -> Element]
    BY <1>18, <2>1 DEF Reset
  <2>3. evtq' \in Seq(Events)
    BY <1>18 DEF Reset
  <2>4. MainIdle
    BY <1>18 DEF Reset
  <2>5. /\ rp' = 0 /\ wp' = 0 /\ count' = 0 /\ lapped' = FALSE
        /\ link' = FALSE /\ notifying' = FALSE /\ free' = TxPackets
        /\ advertising' = TRUE /\ host' = None
        /\ keypad_state' \in KeyPatterns
        /\ m_in_boot_mode' = FALSE /\ m_conn_handle' = FALSE
        /\ hids_handle' = FALSE
        /\ irq_pc' = "idle" /\ irq_offset' = 0
        /\ fault' = FALSE /\ fresh' = FALSE /\ raced' = FALSE
    BY <1>18, PipelineAssumption DEF Reset
  <2>6. /\ main_pc' = "idle" /\ main_evt' = "none" /\ loaded' = 0
        /\ offset' = 0 /\ copied' = 0 /\ p_key_pattern' \in Pointer
        /\ data' \in Report
    BY <2>4, NullPatternIsReport DEF MainIdle, LeaveSend, Pointer
  <2>7. /\ rp' \in Slots /\ wp' \in Slots /\ count' \in Nat
        /\ free' \in 0 .. TxPackets
        /\ host' \in Report \cup {None}
        /\ irq_offset' \in 0 .. PatternLen
    BY <2>5
  <2>8. offset' \in 0 .. PatternLen /\ copied' \in 0 .. PatternLen
    BY <2>6
  <2>9. TypeOK'
    BY <2>2, <2>3, <2>5, <2>6, <2>7, <2>8 DEF TypeOK
  <2> QED  BY <2>5, <2>6, <2>9 DEF CountInRange
<1>19. CASE UNCHANGED vars
  BY <1>19
  DEF vars, TypeOK, CountInRange, listVars, sdVars, mainVars, localVars,
      irqVars, appVars, ghostVars
<1> QED
  BY <1>1, <1>2, <1>3, <1>4, <1>5, <1>6, <1>7, <1>8, <1>9, <1>10, <1>11, <1>12,
     <1>13, <1>14, <1>15, <1>16, <1>17, <1>18, <1>19
  DEF Next, MainStep, IrqStep

(* The program starts with an empty list and nothing in progress.          *)
LEMMA CountInvInitial == Init => CountInv
<1> SUFFICES ASSUME Init PROVE CountInv
  OBVIOUS
<1>1. [p_data |-> "NULL", data_offset |-> 0] \in Element
  BY BufferAssumption DEF Element, Pointer
<1>2. buffer \in [Slots -> Element] /\ evtq \in Seq(Events)
  BY <1>1 DEF Init, buffer_init, SdInit
<1>3. rp = 0 /\ wp = 0 /\ count = 0 /\ lapped = FALSE
  BY DEF Init, buffer_init
<1>4. TypeOK
  BY <1>2, <1>3, NullPatternIsReport, BufferAssumption, SoftDeviceAssumption,
     PipelineAssumption
  DEF Init, SdInit, TypeOK, Pointer
<1> QED
  BY <1>3, <1>4, BufferAssumption
  DEF Init, CountInv, CountInRange, CopyProgress

LEMMA CountInvariant == Spec => []CountInv
  BY CountInvInitial, CountInvInductive, PTL DEF Spec

(***************************************************************************)
(* Every variable keeps its type: rp and wp never leave the slots, no slot *)
(* and no local of buffer_dequeue ever holds an offset past the pattern,   *)
(* and the packets in flight never outnumber the link's (my_ble_buffer.c:  *)
(* 14-84, my_ble_services.c:163-211).                                      *)
(***************************************************************************)
THEOREM TypesAreKept == Spec => []TypeOK
<1>1. CountInv => TypeOK
  BY DEF CountInv
<1> QED  BY <1>1, CountInvariant, PTL

(***************************************************************************)
(* The count, updated by two contexts without a lock, never leaves its     *)
(* range (my_ble_buffer.c:31, 75).                                         *)
(***************************************************************************)
THEOREM CountStaysInRange == Spec => []CountInRange
<1>1. CountInv => CountInRange
  BY DEF CountInv
<1> QED  BY <1>1, CountInvariant, PTL

=============================================================================
