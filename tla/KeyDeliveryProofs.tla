-------------------------- MODULE KeyDeliveryProofs --------------------------
(***************************************************************************)
(* KeyPipeline implements KeyDelivery.  The argument has three parts: the  *)
(* list stays in order until it is overfilled, so the main loop never      *)
(* dequeues an empty slot; what it has copied of keypad_state is still     *)
(* there unless a key change raced with it; therefore what it sends is     *)
(* keypad_state.                                                           *)
(***************************************************************************)
EXTENDS KeyPipelineProofs

USE DEF Slots, IrqIdle

-----------------------------------------------------------------------------
(* Arithmetic on the slots.                                                *)

(* Going n slots ahead covers the distance n, once around apart.           *)
LEMMA DistanceAhead ==
  ASSUME NEW i \in Slots, NEW n \in 0 .. MAX_BUFFER_ENTRIES
  PROVE  /\ Ahead(i, n) \in Slots
         /\ n < MAX_BUFFER_ENTRIES => Distance(i, Ahead(i, n)) = n
         /\ n = MAX_BUFFER_ENTRIES => Distance(i, Ahead(i, n)) = 0
<1>1. CASE i + n >= MAX_BUFFER_ENTRIES
  BY <1>1, BufferAssumption DEF Ahead, Distance
<1>2. CASE i + n < MAX_BUFFER_ENTRIES
  BY <1>2, BufferAssumption DEF Ahead, Distance
<1> QED  BY <1>1, <1>2, BufferAssumption

(* One step further is the successor.                                      *)
LEMMA SuccessorAhead ==
  ASSUME NEW i \in Slots, NEW n \in 0 .. MAX_BUFFER_ENTRIES - 1
  PROVE  /\ Successor(Ahead(i, n)) = Ahead(i, n + 1)
         /\ Ahead(Successor(i), n) = Ahead(i, n + 1)
<1>1. CASE i + n >= MAX_BUFFER_ENTRIES
  BY <1>1, BufferAssumption DEF Ahead, Successor
<1>2. CASE i + n < MAX_BUFFER_ENTRIES
  BY <1>2, BufferAssumption DEF Ahead, Successor
<1> QED  BY <1>1, <1>2, BufferAssumption

(* Distances from a slot tell the slots apart, and the one from its        *)
(* successor is one less, except to the slot itself.                       *)
LEMMA DistanceTellsSlots ==
  ASSUME NEW i \in Slots, NEW j \in Slots, NEW k \in Slots
  PROVE  /\ Distance(i, j) \in Slots
         /\ Distance(i, j) = Distance(i, k) => j = k
         /\ j # i => Distance(Successor(i), j) = Distance(i, j) - 1
         /\ Distance(Successor(i), i) = MAX_BUFFER_ENTRIES - 1
         /\ Distance(i, i) = 0
  BY BufferAssumption DEF Distance, Successor

-----------------------------------------------------------------------------
(* The list stays in order.                                                *)

(* A step that leaves the list alone keeps it in order.                    *)
LEMMA ListUntouched ==
  ASSUME TypeOK, ListInOrder,
         UNCHANGED <<rp, wp, count, lapped>>,
         \A i \in Slots : Occupied(i)' <=> Occupied(i),
         Retiring' <=> Retiring
  PROVE  ListInOrder'
<1> SUFFICES ASSUME ~lapped
             PROVE  \E n \in 0 .. MAX_BUFFER_ENTRIES :
                      /\ EntriesFrom(FirstEntry, n)'
                      /\ count <= IF Retiring THEN n + 1 ELSE n
  BY DEF ListInOrder
<1>1. PICK n \in 0 .. MAX_BUFFER_ENTRIES :
        /\ EntriesFrom(FirstEntry, n)
        /\ count <= IF Retiring THEN n + 1 ELSE n
  BY DEF ListInOrder
<1>2. FirstEntry' = FirstEntry
  BY DEF FirstEntry, Successor
<1>3. EntriesFrom(FirstEntry, n)'
  BY <1>1, <1>2 DEF EntriesFrom
<1> QED  BY <1>1, <1>3

(* An enqueue that overwrites nothing adds an entry at the end, or none    *)
(* when the list is full (buffer_enqueue, my_ble_buffer.c:18-36).          *)
LEMMA EnqueueExtends ==
  ASSUME TypeOK, NEW first \in Slots, NEW n \in 0 .. MAX_BUFFER_ENTRIES,
         EntriesFrom(first, n),
         NEW actual_len \in 0 .. PatternLen, buffer_enqueue(actual_len),
         ~lapped'
  PROVE  \E m \in n .. MAX_BUFFER_ENTRIES :
           /\ EntriesFrom(first, m)'
           /\ count' <= count + (m - n)
           /\ rp' = rp
<1> USE BufferAssumption
<1>1. CASE UNCHANGED listVars
  <2>1. EntriesFrom(first, n)'
    BY <1>1 DEF EntriesFrom, Occupied, listVars
  <2> QED  BY <1>1, <2>1 DEF listVars, TypeOK
<1>2. CASE /\ buffer' = [buffer EXCEPT ![wp] = [p_data |-> "keypad_state",
                                                data_offset |-> actual_len]]
           /\ lapped' = (lapped \/ Occupied(wp))
           /\ count' = count + 1
           /\ wp' = Successor(wp)
           /\ UNCHANGED rp
  <2>1. wp \in Slots /\ ~Occupied(wp)
    BY <1>2 DEF TypeOK
  <2>2. wp = Ahead(first, n) /\ ~(Distance(first, wp) < n)
    BY <2>1 DEF EntriesFrom
  <2>3. n < MAX_BUFFER_ENTRIES /\ Distance(first, wp) = n
    <3>1. n = MAX_BUFFER_ENTRIES => Distance(first, wp) = 0
      BY <2>2, DistanceAhead
    <3>2. n < MAX_BUFFER_ENTRIES
      BY <2>2, <3>1
    <3> QED  BY <2>2, <3>2, DistanceAhead
  <2>4. wp' = Ahead(first, n + 1)
    BY <1>2, <2>2, <2>3, SuccessorAhead
  <2>5. ASSUME NEW i \in Slots
        PROVE  Occupied(i)' <=> Distance(first, i) < n + 1
    <3>1. CASE i = wp
      BY <1>2, <2>1, <2>3, <3>1 DEF Occupied, TypeOK
    <3>2. CASE i # wp
      <4>1. Occupied(i)' <=> Occupied(i)
        BY <1>2, <3>2 DEF Occupied, TypeOK
      <4>2. Distance(first, i) # n /\ Distance(first, i) \in Slots
        BY <2>1, <2>3, <3>2, DistanceTellsSlots
      <4> QED  BY <4>1, <4>2 DEF EntriesFrom
    <3> QED  BY <3>1, <3>2
  <2>6. EntriesFrom(first, n + 1)'
    BY <2>4, <2>5 DEF EntriesFrom
  <2> QED  BY <1>2, <2>3, <2>6 DEF TypeOK
<1> QED  BY <1>1, <1>2 DEF buffer_enqueue

(* So does whatever keys_send does with the list.                          *)
LEMMA KeysSendKeepsOrder ==
  ASSUME TypeOK, ListInOrder, NEW err_code, NEW actual_len \in Nat,
         KeysSendReturns(err_code, actual_len), UNCHANGED main_pc
  PROVE  ListInOrder'
<1>1. CASE err_code = "NO_TX_PACKETS" /\ actual_len <= PatternLen
  <2> SUFFICES ASSUME ~lapped'
               PROVE  \E m \in 0 .. MAX_BUFFER_ENTRIES :
                        /\ EntriesFrom(FirstEntry, m)'
                        /\ count' <= IF Retiring' THEN m + 1 ELSE m
    BY DEF ListInOrder
  <2>1. buffer_enqueue(actual_len) /\ actual_len \in 0 .. PatternLen
    BY <1>1, BufferAssumption DEF KeysSendReturns
  <2>2. ~lapped
    BY <2>1 DEF buffer_enqueue, listVars
  <2>3. PICK first \in Slots : first = FirstEntry
    BY SuccessorIsSlot DEF FirstEntry, TypeOK
  <2>4. PICK n \in 0 .. MAX_BUFFER_ENTRIES :
          /\ EntriesFrom(first, n)
          /\ count <= IF Retiring THEN n + 1 ELSE n
    BY <2>2, <2>3 DEF ListInOrder
  <2>5. PICK m \in n .. MAX_BUFFER_ENTRIES :
          /\ EntriesFrom(first, m)'
          /\ count' <= count + (m - n)
          /\ rp' = rp
    BY <2>1, <2>4, EnqueueExtends
  <2>6. (Retiring' <=> Retiring) /\ first = FirstEntry'
    BY <2>3, <2>5 DEF Retiring, FirstEntry, Successor
  <2>7. count \in Nat /\ count' \in Nat
    BY <2>1 DEF TypeOK, buffer_enqueue, listVars
  <2>8. EntriesFrom(FirstEntry, m)'
    BY <2>5, <2>6 DEF EntriesFrom
  <2> QED
    BY <2>4, <2>5, <2>6, <2>7, <2>8
<1>2. CASE ~(err_code = "NO_TX_PACKETS" /\ actual_len <= PatternLen)
  BY <1>2, ListUntouched DEF KeysSendReturns, listVars, Occupied, Retiring
<1> QED  BY <1>1, <1>2

(* Clearing the head: there is one, and the rest starts at its successor   *)
(* (BUFFER_ELEMENT_INIT, my_ble_buffer.c:72).                              *)
LEMMA ClearKeepsOrder ==
  ASSUME TypeOK, CountInRange, ListInOrder, Clear
  PROVE  ListInOrder'
<1> USE BufferAssumption
<1> SUFFICES ASSUME ~lapped
             PROVE  \E m \in 0 .. MAX_BUFFER_ENTRIES :
                      /\ EntriesFrom(FirstEntry, m)'
                      /\ count' <= IF Retiring' THEN m + 1 ELSE m
  BY DEF ListInOrder, Clear, ClearHead
<1>1. /\ main_pc = "clear" /\ main_pc' = "load"
      /\ buffer' = [buffer EXCEPT ![rp].p_data = "NULL"]
      /\ UNCHANGED <<rp, wp, count, lapped>>
      /\ rp \in Slots /\ count \in Nat /\ count > 0
  BY DEF Clear, ClearHead, GoTo, MainAt, TypeOK, CountInRange
<1>2. PICK n \in 0 .. MAX_BUFFER_ENTRIES : EntriesFrom(rp, n) /\ count <= n
  BY <1>1 DEF ListInOrder, FirstEntry, Retiring
<1>3. n > 0 /\ n - 1 \in 0 .. MAX_BUFFER_ENTRIES
  BY <1>1, <1>2
<1>4. wp' = Ahead(Successor(rp), n - 1)
  BY <1>1, <1>2, <1>3, SuccessorAhead DEF EntriesFrom
<1>5. ASSUME NEW i \in Slots
      PROVE  Occupied(i)' <=> Distance(Successor(rp), i) < n - 1
  <2>1. CASE i = rp
    <3>1. buffer[i] \in Element
      BY DEF TypeOK
    <3>2. ~Occupied(i)'
      BY <1>1, <2>1, <3>1 DEF Occupied, TypeOK, Element
    <3> QED  BY <1>1, <2>1, <3>2, DistanceTellsSlots
  <2>2. CASE i # rp
    <3>1. Occupied(i)' <=> Occupied(i)
      BY <1>1, <2>2 DEF Occupied, TypeOK
    <3>2. Distance(Successor(rp), i) = Distance(rp, i) - 1
      BY <1>1, <2>2, DistanceTellsSlots
    <3>3. Distance(rp, i) \in Slots
      BY <1>1, DistanceTellsSlots
    <3> QED  BY <1>2, <3>1, <3>2, <3>3 DEF EntriesFrom
  <2> QED  BY <2>1, <2>2
<1>6. FirstEntry' = Successor(rp) /\ Retiring'
  BY <1>1 DEF FirstEntry, Retiring, Successor
<1>7. EntriesFrom(FirstEntry, n - 1)'
  BY <1>4, <1>5, <1>6 DEF EntriesFrom
<1> QED  BY <1>1, <1>2, <1>3, <1>6, <1>7

(* Retiring the head completes what Clear began; count falls at least by   *)
(* one (my_ble_buffer.c:74-79).                                            *)
LEMMA StoreKeepsOrder ==
  ASSUME TypeOK, CountInRange, ListInOrder, Store
  PROVE  ListInOrder'
<1> SUFFICES ASSUME ~lapped
             PROVE  \E m \in 0 .. MAX_BUFFER_ENTRIES :
                      /\ EntriesFrom(FirstEntry, m)'
                      /\ count' <= IF Retiring' THEN m + 1 ELSE m
  BY DEF ListInOrder, Store, RetireHead
<1>1. /\ main_pc = "store" /\ main_pc' \in {"idle", "handle"}
      /\ rp' = Successor(rp)
      /\ count' = loaded - 1 /\ loaded <= count
      /\ UNCHANGED <<wp, buffer>>
      /\ count \in Nat /\ loaded \in Nat
  BY DEF Store, RetireHead, DequeueDone, MainIdle, MainAt, TypeOK, CountInRange
<1>2. PICK n \in 0 .. MAX_BUFFER_ENTRIES :
        EntriesFrom(Successor(rp), n) /\ count <= n + 1
  BY <1>1 DEF ListInOrder, FirstEntry, Retiring
<1>3. FirstEntry' = Successor(rp) /\ ~Retiring'
  BY <1>1 DEF FirstEntry, Retiring
<1>4. EntriesFrom(FirstEntry, n)'
  BY <1>1, <1>2, <1>3 DEF EntriesFrom, Occupied
<1> QED  BY <1>1, <1>2, <1>3, <1>4

(* No entries lie from slot 0 to slot 0: the list of buffer_init.          *)
LEMMA EmptyDistances == Ahead(0, 0) = 0 /\ \A i \in Slots : Distance(0, i) >= 0
  BY BufferAssumption DEF Ahead, Distance

(* buffer_dequeue's answer to a transmission changes only the offset.      *)
LEMMA DequeueReturnsKeepsOrder ==
  ASSUME TypeOK, ListInOrder, NEW err_code, NEW actual_len \in Nat,
         DequeueReturns(err_code, actual_len), main_pc = "send"
  PROVE  ListInOrder'
<1>1. UNCHANGED <<rp, wp, count, lapped>> /\ main_pc' \in {"idle", "clear"}
  BY DequeueReturnsKeepsList
<1>2. ASSUME NEW i \in Slots PROVE Occupied(i)' <=> Occupied(i)
  <2>1. CASE KeepHead(actual_len)
    <3>1. buffer[i] \in Element
      BY DEF TypeOK
    <3> QED  BY <2>1, <3>1 DEF KeepHead, Occupied, TypeOK, Element
  <2>2. CASE UNCHANGED listVars
    BY <2>2 DEF listVars, Occupied
  <2> QED  BY <2>1, <2>2 DEF DequeueReturns
<1> QED  BY <1>1, <1>2, ListUntouched DEF Retiring

(* Every step keeps the list in order.                                     *)
LEMMA ListInOrderInductive ==
  CountInv /\ ListInOrder /\ [Next]_vars => ListInOrder'
<1> SUFFICES ASSUME TypeOK, CountInRange, ListInOrder, [Next]_vars
             PROVE  ListInOrder'
  BY DEF CountInv
<1>1. CASE UNCHANGED listVars /\ (Retiring' <=> Retiring)
  BY <1>1, ListUntouched DEF listVars, Occupied
<1>2. CASE IrqSend
  <2>1. irq_offset \in Nat /\ irq_offset + 1 \in Nat
    BY DEF TypeOK
  <2>2. UNCHANGED main_pc
    BY <1>2 DEF IrqSend, mainVars
  <2>3. CASE KeysSendReturns("SUCCESS", irq_offset + 1)
    BY <2>1, <2>2, <2>3, KeysSendKeepsOrder
  <2>4. CASE KeysSendReturns(HvxResult(hids_handle), irq_offset)
    BY <2>1, <2>2, <2>4, KeysSendKeepsOrder
  <2>5. CASE UNCHANGED listVars
    BY <1>1, <2>2, <2>5 DEF Retiring
  <2> QED  BY <1>2, <2>3, <2>4, <2>5 DEF IrqSend
<1>3. CASE IrqSendBootMode
  <2>1. PICK err_code \in ErrCodes, actual_len \in {PatternLen + 1, 0} :
          KeysSendReturns(err_code, actual_len)
    BY <1>3 DEF IrqSendBootMode
  <2>2. actual_len \in Nat
    BY <2>1, BufferAssumption
  <2> QED
    BY <1>3, <2>1, <2>2, KeysSendKeepsOrder DEF IrqSendBootMode, mainVars
<1>4. CASE MainSend
  <2>1. offset \in Nat /\ offset + 1 \in Nat /\ main_pc = "send"
    BY <1>4 DEF TypeOK, MainSend, MainAt
  <2>2. CASE DequeueReturns("SUCCESS", offset + 1)
    BY <2>1, <2>2, DequeueReturnsKeepsOrder
  <2>3. CASE DequeueReturns(HvxResult(hids_handle), offset)
    BY <2>1, <2>3, DequeueReturnsKeepsOrder
  <2>4. CASE UNCHANGED listVars /\ main_pc' = "copy"
    BY <1>1, <2>1, <2>4 DEF Retiring
  <2> QED  BY <1>4, <2>2, <2>3, <2>4 DEF MainSend
<1>5. CASE MainSendBootMode
  <2>1. PICK err_code \in ErrCodes, actual_len \in {PatternLen + 1, offset} :
          DequeueReturns(err_code, actual_len)
    BY <1>5 DEF MainSendBootMode
  <2>2. actual_len \in Nat /\ main_pc = "send"
    BY <1>5, <2>1, BufferAssumption DEF TypeOK, MainSendBootMode, MainAt
  <2> QED  BY <2>1, <2>2, DequeueReturnsKeepsOrder
<1>6. CASE Clear
  BY <1>6, ClearKeepsOrder
<1>7. CASE Store
  BY <1>7, StoreKeepsOrder
<1>8. CASE Reset
  <2>1. \A i \in Slots : ~Occupied(i)'
    BY <1>8 DEF Reset, Occupied
  <2>2. wp' = 0 /\ count' = 0 /\ FirstEntry' = 0
    BY <1>8 DEF Reset, MainIdle, FirstEntry, Retiring
  <2>3. EntriesFrom(FirstEntry, 0)'
    BY <2>1, <2>2, EmptyDistances DEF EntriesFrom, Distance
  <2> QED  BY <2>2, <2>3, BufferAssumption DEF ListInOrder
<1>9. CASE KeyChange \/ BatteryNotification \/ PollEvent \/ CopyByte \/ Load
  <2>1. UNCHANGED listVars
    BY <1>9 DEF KeyChange, BatteryNotification, PollEvent, CopyByte, Load
  <2>2. Retiring' <=> Retiring
    BY <1>9
    DEF KeyChange, BatteryNotification, PollEvent, CopyByte, Load, MainAt,
        mainVars, Retiring
  <2> QED  BY <1>1, <2>1, <2>2
<1>10. CASE Dequeue \/ HandleConnection \/ HandleHids
  <2>1. UNCHANGED listVars
    BY <1>10 DEF Dequeue, HandleConnection, HandleHids
  <2>2. Retiring' <=> Retiring
    BY <1>10
    DEF Dequeue, DequeueDone, GoTo, HandleConnection, HandleHids, MainIdle,
        MainAt, Retiring
  <2> QED  BY <1>1, <2>1, <2>2
<1>11. CASE Connect \/ Disconnect \/ TxComplete \/ Subscribe
              \/ WriteProtocolMode \/ AdvertisingChanges \/ UNCHANGED vars
  BY <1>1, <1>11
  DEF Connect, Disconnect, TxComplete, Subscribe, WriteProtocolMode,
      AdvertisingChanges, Unchanged_App, vars, mainVars, Retiring
<1> QED
  BY <1>2, <1>3, <1>4, <1>5, <1>6, <1>7, <1>8, <1>9, <1>10, <1>11
  DEF Next, MainStep, IrqStep

-----------------------------------------------------------------------------
(* What the main loop has copied.                                          *)

CopyInv == NullReadOnlyAfterLap /\ CopyIsCurrent

(* The head of a list in order that is not empty is an entry.              *)
LEMMA HeadIsOccupied ==
  ASSUME TypeOK, ListInOrder, ~lapped, count > 0, ~Retiring
  PROVE  Occupied(rp)
<1>1. PICK n \in 0 .. MAX_BUFFER_ENTRIES : EntriesFrom(rp, n) /\ count <= n
  BY DEF ListInOrder, FirstEntry
<1>2. rp \in Slots /\ n > 0
  BY <1>1 DEF TypeOK
<1>3. Distance(rp, rp) = 0
  BY <1>2, DistanceTellsSlots
<1> QED  BY <1>1, <1>2, <1>3 DEF EntriesFrom

(* A step of another context that changes neither the keys nor the locals  *)
(* of the main loop, nor forgets that the list was lapped.                 *)
LEMMA CopyUntouched ==
  ASSUME CopyInv,
         UNCHANGED <<main_pc, p_key_pattern, copied, data, keypad_state, raced>>,
         lapped => lapped'
  PROVE  CopyInv'
  BY DEF CopyInv, NullReadOnlyAfterLap, CopyIsCurrent

(* Nothing is claimed while the main loop does not hold a copy.            *)
LEMMA NoCopyHeld ==
  ASSUME main_pc' \notin {"copy", "send"}
  PROVE  CopyInv'
  BY DEF CopyInv, NullReadOnlyAfterLap, CopyIsCurrent

(* An enqueue never forgets that the list was lapped.                      *)
LEMMA LappedStays ==
  ASSUME NEW err_code, NEW actual_len, KeysSendReturns(err_code, actual_len)
  PROVE  lapped => lapped'
  BY DEF KeysSendReturns, buffer_enqueue, listVars

(* Every step keeps what is claimed of the copy.                           *)
LEMMA CopyInvInductive ==
  CountInv /\ ListInOrder /\ CopyInv /\ [Next]_vars => CopyInv'
<1> SUFFICES ASSUME TypeOK, CountInRange, CopyProgress, ListInOrder, CopyInv,
                    [Next]_vars
             PROVE  CopyInv'
  BY DEF CountInv
<1>1. CASE KeyChange
  <2>1. /\ raced' = MainHoldsCopy
        /\ UNCHANGED <<main_pc, p_key_pattern, copied, data, lapped>>
    BY <1>1 DEF KeyChange, mainVars, localVars, listVars
  <2>2. copied \in Nat
    BY DEF TypeOK
  <2> QED
    BY <2>1, <2>2
    DEF CopyInv, NullReadOnlyAfterLap, CopyIsCurrent, MainHoldsCopy
<1>2. CASE IrqSend
  <2>1. lapped => lapped'
    BY <1>2, LappedStays DEF IrqSend, listVars
  <2> QED
    BY <1>2, <2>1, CopyUntouched DEF IrqSend, mainVars, localVars, ghostVars
<1>3. CASE IrqSendBootMode
  <2>1. lapped => lapped'
    BY <1>3, LappedStays DEF IrqSendBootMode
  <2> QED
    BY <1>3, <2>1, CopyUntouched
    DEF IrqSendBootMode, mainVars, localVars, ghostVars
<1>4. CASE Dequeue
  <2>1. CASE /\ ~BUFFER_LIST_EMPTY
             /\ main_pc' = "copy"
             /\ p_key_pattern' = buffer[rp].p_data
             /\ UNCHANGED <<data, copied>>
    <3>1. /\ main_pc = "dequeue" /\ count > 0 /\ copied' = 0
          /\ UNCHANGED lapped
      BY <1>4, <2>1
      DEF Dequeue, MainAt, BUFFER_LIST_EMPTY, CopyProgress, TypeOK, listVars
    <3>2. p_key_pattern' = "NULL" => lapped
      BY <2>1, <3>1, HeadIsOccupied DEF Occupied, Retiring
    <3> QED
      BY <3>1, <3>2 DEF CopyInv, NullReadOnlyAfterLap, CopyIsCurrent
  <2>2. CASE DequeueDone \/ GoTo("clear")
    BY <2>2, NoCopyHeld DEF DequeueDone, MainIdle, GoTo
  <2> QED  BY <1>4, <2>1, <2>2 DEF Dequeue
<1>5. CASE CopyByte
  <2>1. /\ main_pc = "copy"
        /\ data' = [data EXCEPT ![copied + 1] =
                                     Deref(p_key_pattern)[copied + 1]]
        /\ copied' = copied + 1
        /\ copied \in Nat /\ copied < PatternLen
        /\ UNCHANGED <<p_key_pattern, lapped, keypad_state, raced>>
    BY <1>5
    DEF CopyByte, MainAt, CopyProgress, TypeOK, listVars, appVars, ghostVars
  <2>2. ASSUME p_key_pattern # "NULL", ~raced, NEW i \in 1 .. copied + 1
        PROVE  data'[i] = keypad_state[i]
    <3>1. data \in Report /\ i \in 1 .. PatternLen
      BY <2>1, BufferAssumption DEF TypeOK
    <3>2. CASE i = copied + 1
      BY <2>1, <2>2, <3>1, <3>2 DEF Deref, Report
    <3>3. CASE i \in 1 .. copied
      BY <2>1, <2>2, <3>1, <3>3 DEF CopyInv, CopyIsCurrent, Report
    <3> QED  BY <2>1, <3>2, <3>3
  <2> QED
    BY <2>1, <2>2 DEF CopyInv, NullReadOnlyAfterLap, CopyIsCurrent
<1>6. CASE MainSend
  <2>1. CASE /\ main_pc' = "copy" /\ copied' = 0
             /\ UNCHANGED <<p_key_pattern, listVars>>
    BY <1>6, <2>1
    DEF MainSend, MainAt, CopyInv, NullReadOnlyAfterLap, CopyIsCurrent, listVars
  <2>2. CASE main_pc' \in {"idle", "clear"}
    BY <2>2, NoCopyHeld
  <2> QED  BY <1>6, <2>1, <2>2 DEF MainSend, DequeueReturns, MainIdle
<1>7. CASE MainSendBootMode
  BY <1>7, NoCopyHeld DEF MainSendBootMode, DequeueReturns, MainIdle
<1>8. CASE Clear \/ Load \/ Store \/ HandleConnection \/ HandleHids \/ Reset
  BY <1>8, NoCopyHeld
  DEF Clear, Load, Store, HandleConnection, HandleHids, Reset, GoTo,
      DequeueDone, MainIdle
<1>9. CASE PollEvent
  <2>1. main_pc' \in {"idle", "dequeue", "handle"}
    BY <1>9 DEF PollEvent, on_hids_evt, MainAt
  <2> QED  BY <2>1, NoCopyHeld
<1>10. CASE BatteryNotification \/ Connect \/ Disconnect \/ TxComplete
              \/ Subscribe \/ WriteProtocolMode \/ AdvertisingChanges
              \/ UNCHANGED vars
  BY <1>10, CopyUntouched
  DEF BatteryNotification, Connect, Disconnect, TxComplete, Subscribe,
      WriteProtocolMode, AdvertisingChanges, Unchanged_App, vars, listVars, mainVars, localVars,
      appVars, ghostVars
<1> QED
  BY <1>1, <1>2, <1>3, <1>4, <1>5, <1>6, <1>7, <1>8, <1>9, <1>10
  DEF Next, MainStep, IrqStep

DeliveryInv == CountInv /\ ListInOrder /\ CopyInv

(* The three invariants hold together.                                     *)
LEMMA DeliveryInvariant == Spec => []DeliveryInv
<1>1. Init => DeliveryInv
  <2> SUFFICES ASSUME Init PROVE ListInOrder /\ CopyInv
    BY CountInvInitial DEF DeliveryInv
  <2>1. wp = 0 /\ count = 0 /\ FirstEntry = 0 /\ main_pc = "idle"
    BY DEF Init, buffer_init, FirstEntry, Retiring
  <2>2. \A i \in Slots : ~Occupied(i)
    BY DEF Init, buffer_init, Occupied
  <2>3. EntriesFrom(FirstEntry, 0)
    BY <2>1, <2>2, EmptyDistances DEF EntriesFrom, Distance
  <2>4. ListInOrder
    BY <2>1, <2>3, BufferAssumption DEF ListInOrder
  <2> QED  BY <2>1, <2>4 DEF CopyInv, NullReadOnlyAfterLap, CopyIsCurrent
<1>2. DeliveryInv /\ [Next]_vars => DeliveryInv'
  BY CountInvInductive, ListInOrderInductive, CopyInvInductive DEF DeliveryInv
<1> QED  BY <1>1, <1>2, PTL DEF Spec

(***************************************************************************)
(* Until the list is overfilled, its entries are in order and at least as  *)
(* many as count says (my_ble_buffer.c:14-84).                             *)
(***************************************************************************)
THEOREM ListStaysInOrder == Spec => []ListInOrder
<1>1. DeliveryInv => ListInOrder
  BY DEF DeliveryInv
<1> QED  BY <1>1, DeliveryInvariant, PTL

(***************************************************************************)
(* No NULL pattern is read unless the list was overfilled                  *)
(* (my_ble_buffer.c:53-60).                                                *)
(***************************************************************************)
THEOREM NullReadsNeedALap == Spec => []NullReadOnlyAfterLap
<1>1. DeliveryInv => NullReadOnlyAfterLap
  BY DEF DeliveryInv, CopyInv
<1> QED  BY <1>1, DeliveryInvariant, PTL

-----------------------------------------------------------------------------
(* The refinement.                                                         *)

disturbed == raced \/ lapped

(* A complete and undisturbed copy is keypad_state.                        *)
LEMMA CopyIsKeypadState ==
  ASSUME DeliveryInv, main_pc = "send", ~disturbed
  PROVE  data = keypad_state
<1>1. \A i \in 1 .. PatternLen : data[i] = keypad_state[i]
  BY DEF DeliveryInv, CountInv, CopyProgress, CopyInv, NullReadOnlyAfterLap,
         CopyIsCurrent, disturbed
<1>2. data \in Report /\ keypad_state \in Report
  BY PatternsAreReports DEF DeliveryInv, CountInv, TypeOK
<1>3. /\ data = [i \in 1 .. PatternLen |-> data[i]]
      /\ keypad_state = [i \in 1 .. PatternLen |-> keypad_state[i]]
  BY <1>2 DEF Report
<1> QED  BY <1>1, <1>3

(* Only an overfilling, never a repair, follows from what keys_send does.  *)
LEMMA KeysSendDisturbs ==
  ASSUME TypeOK, NEW err_code, NEW actual_len,
         KeysSendReturns(err_code, actual_len), UNCHANGED raced
  PROVE  disturbed' = TRUE \/ disturbed' = disturbed
  BY DEF KeysSendReturns, buffer_enqueue, listVars, disturbed, TypeOK

(* Every step is a step of KeyDelivery or changes nothing it speaks of.    *)
LEMMA StepsAreDelivered ==
  DeliveryInv /\ [Next]_vars => [Delivery!Next]_(Delivery!vars)
<1> SUFFICES ASSUME DeliveryInv, [Next]_vars
             PROVE  \/ Delivery!Next
                    \/ UNCHANGED <<keypad_state, host, disturbed>>
  BY DEF Delivery!vars, disturbed
<1> USE DEF Delivery!Next, Delivery!Change, Delivery!Show, Delivery!Mislead,
            Delivery!Disturb, Delivery!LoseHost, Delivery!Reset
<1>1. TypeOK
  BY DEF DeliveryInv, CountInv
<1>2. CASE KeyChange
  <2>1. keypad_state' \in KeyPatterns \ {keypad_state} /\ UNCHANGED host
    BY <1>2 DEF KeyChange, sdVars
  <2>2. disturbed' \in BOOLEAN
    BY DEF disturbed
  <2> QED  BY <2>1, <2>2 DEF disturbed
<1>3. CASE IrqSend
  <2>1. UNCHANGED keypad_state /\ UNCHANGED raced
    BY <1>3 DEF IrqSend, ghostVars
  <2>2. CASE Accept(keypad_state) /\ UNCHANGED listVars
    BY <2>1, <2>2 DEF Accept, listVars, disturbed
  <2>3. CASE Accept(keypad_state) /\ KeysSendReturns("SUCCESS", irq_offset + 1)
    <3>1. UNCHANGED listVars
      BY <2>3 DEF KeysSendReturns
    <3> QED  BY <2>2, <2>3, <3>1
  <2>4. CASE /\ UNCHANGED sdVars
             /\ KeysSendReturns(HvxResult(hids_handle), irq_offset)
    <3>1. disturbed' = TRUE \/ disturbed' = disturbed
      BY <1>1, <2>1, <2>4, KeysSendDisturbs
    <3> QED  BY <2>1, <2>4, <3>1 DEF sdVars, disturbed
  <2> QED  BY <1>3, <2>2, <2>3, <2>4 DEF IrqSend
<1>4. CASE IrqSendBootMode
  <2>1. UNCHANGED keypad_state /\ UNCHANGED raced /\ UNCHANGED host
    BY <1>4 DEF IrqSendBootMode, ghostVars, sdVars
  <2>2. disturbed' = TRUE \/ disturbed' = disturbed
    BY <1>1, <1>4, <2>1, KeysSendDisturbs DEF IrqSendBootMode
  <2> QED  BY <2>1, <2>2 DEF disturbed
<1>5. CASE MainSend
  <2>1. /\ main_pc = "send"
        /\ UNCHANGED <<keypad_state, raced>>
        /\ host' = data \/ UNCHANGED host
    BY <1>5 DEF MainSend, MainAt, Accept, appVars, ghostVars, sdVars
  <2>2. UNCHANGED lapped
    BY <1>5
    DEF MainSend, DequeueReturns, KeepHead, listVars
  <2>3. CASE host' = data /\ ~disturbed
    BY <2>1, <2>2, <2>3, CopyIsKeypadState DEF disturbed
  <2>4. CASE host' = data /\ disturbed
    BY <1>1, <2>1, <2>2, <2>4 DEF TypeOK, disturbed
  <2> QED  BY <2>1, <2>2, <2>3, <2>4 DEF disturbed
<1>6. CASE MainSendBootMode
  BY <1>6
  DEF MainSendBootMode, DequeueReturns, KeepHead, listVars, sdVars, appVars,
      ghostVars, disturbed
<1>7. CASE Reset
  BY <1>7 DEF Reset, disturbed
<1>8. CASE BatteryNotification
  BY <1>8
  DEF BatteryNotification, Accept, listVars, sdVars, ghostVars, disturbed
<1>9. CASE PollEvent \/ Dequeue \/ CopyByte \/ Clear \/ Load \/ Store
  BY <1>9
  DEF PollEvent, Dequeue, CopyByte, Clear, ClearHead, Load, Store, RetireHead,
      listVars, sdVars, appVars, ghostVars, disturbed
<1>10. CASE HandleConnection \/ HandleHids
  BY <1>10
  DEF HandleConnection, HandleHids, listVars, sdVars, ghostVars, disturbed
<1>11. CASE Connect \/ Disconnect
  <2>1. host' = None
    BY <1>11 DEF Connect, Disconnect, LinkUp, LinkDown
  <2>2. Unchanged_App
    BY <1>11 DEF Connect, Disconnect
  <2> QED  BY <2>1, <2>2 DEF Unchanged_App, listVars, appVars, disturbed
<1>12. CASE TxComplete \/ Subscribe \/ WriteProtocolMode \/ AdvertisingChanges
  <2>1. UNCHANGED host /\ Unchanged_App
    BY <1>12 DEF TxComplete, Subscribe, WriteProtocolMode, TransmitPackets,
                 AdvertisingChanges
  <2> QED  BY <2>1 DEF Unchanged_App, listVars, appVars, disturbed
<1>13. CASE UNCHANGED vars
  BY <1>13 DEF vars, listVars, sdVars, appVars, ghostVars, disturbed
<1> QED
  BY <1>2, <1>3, <1>4, <1>5, <1>6, <1>7, <1>8, <1>9, <1>10, <1>11, <1>12, <1>13
  DEF Next, MainStep, IrqStep

(***************************************************************************)
(* Every report the host is given is keypad_state as it stands when the    *)
(* SoftDevice takes it, unless a key change raced with the copy of the     *)
(* main loop or the list was overfilled.                                   *)
(***************************************************************************)
THEOREM ReportsStayCurrent == Spec => ReportsAreCurrent
<1>1. Init => Delivery!Init
  BY DEF Init, buffer_init, SdInit, Delivery!Init
<1>2. DeliveryInv /\ [Next]_vars => [Delivery!Next]_(Delivery!vars)
  BY StepsAreDelivered
<1> QED
  BY <1>1, <1>2, DeliveryInvariant, PTL
  DEF Spec, ReportsAreCurrent, Delivery!Spec

=============================================================================
