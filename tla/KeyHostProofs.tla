---------------------------- MODULE KeyHostProofs ----------------------------
(***************************************************************************)
(* What KeyPipeline leaves the host and the handles with: the copies of    *)
(* the connection handle follow the link, the controller resets itself     *)
(* only while a loss of the link is not dispatched, no entry of the list   *)
(* is stranded, and the host ends with the present state of the keys.      *)
(*                                                                         *)
(* The argument: a connected device does not advertise, and advertises     *)
(* again only when DISCONNECTED is dispatched, so at most one CONNECTED    *)
(* and then one DISCONNECTED wait in the queue, and link, handles and the  *)
(* event at hand follow from what waits.  A host that listens (fresh) has  *)
(* its handles set, so a report is refused only for want of packets, which *)
(* are in flight; and what is refused is in the list until it is sent.     *)
(***************************************************************************)
EXTENDS KeyDeliveryProofs

LinkEvents == {"CONNECTED", "DISCONNECTED"}
Waits(evt) == \E i \in 1 .. Len(evtq) : evtq[i] = evt

(* At most one CONNECTED waits, and behind it at most one DISCONNECTED.    *)
LinkEventsOrdered ==
  \A i, j \in 1 .. Len(evtq) :
    i < j /\ evtq[i] \in LinkEvents /\ evtq[j] \in LinkEvents
      => evtq[i] = "CONNECTED" /\ evtq[j] = "DISCONNECTED"

(* The main loop dispatches one event at a time.                           *)
EventAtHand ==
  /\ main_pc = "idle" <=> main_evt = "none"
  /\ main_pc \in {"handle", "hids"} => main_evt \in LinkEvents
  /\ main_pc \in {"copy", "send"} => main_evt = "TX_COMPLETE"
  /\ main_evt = "CONNECTED" => main_pc \in {"handle", "hids"}

(* The link as the events taken from the queue tell it.                    *)
Known ==
  IF main_evt \in LinkEvents THEN main_evt = "CONNECTED" ELSE m_conn_handle

(* DISCONNECTED is at hand, and m_conn_handle has not been cleared.        *)
Leaving == main_evt = "DISCONNECTED" /\ main_pc # "hids"

(* The last of the link's events tells the link, and they alternate.       *)
LinkOfEvents ==
  /\ Waits("DISCONNECTED") => ~link
  /\ Waits("CONNECTED") /\ ~Waits("DISCONNECTED") => link
  /\ ~Waits("CONNECTED") /\ ~Waits("DISCONNECTED") => (link <=> Known)
  /\ Waits("CONNECTED") => ~Known /\ ~Leaving
  /\ Waits("DISCONNECTED") /\ ~Waits("CONNECTED") => Known

AdvertisingWhenFree ==
  advertising => /\ ~link /\ ~Known /\ ~Leaving
                 /\ ~Waits("CONNECTED") /\ ~Waits("DISCONNECTED")

(* The services' copy of the handle is set last.                           *)
HandlesInOrder ==
  /\ main_pc # "hids" => (hids_handle <=> m_conn_handle)
  /\ main_pc = "hids" => /\ m_conn_handle <=> main_evt = "CONNECTED"
                         /\ hids_handle <=> ~m_conn_handle
  /\ main_pc = "handle" \/ Leaving =>
       (m_conn_handle <=> main_evt = "DISCONNECTED")

(* A host subscribes on a link that the application knows of.              *)
Subscribed == notifying => link /\ m_conn_handle /\ hids_handle

LinkInv ==
  /\ LinkEventsOrdered /\ EventAtHand /\ LinkOfEvents
  /\ AdvertisingWhenFree /\ HandlesInOrder /\ Subscribed

-----------------------------------------------------------------------------
(* Events posted and polled.                                               *)

LEMMA Posted ==
  ASSUME NEW e \in Events, evtq \in Seq(Events), evtq' = Append(evtq, e)
  PROVE  /\ \A f : Waits(f)' <=> Waits(f) \/ f = e
         /\ LinkEventsOrdered
              /\ (e \in LinkEvents =>
                    /\ ~Waits("DISCONNECTED")
                    /\ Waits("CONNECTED") => e = "DISCONNECTED")
            => LinkEventsOrdered'
<1> DEFINE n == Len(evtq)
<1>1. /\ n \in Nat /\ Len(evtq') = n + 1 /\ evtq'[n + 1] = e
      /\ \A i \in 1 .. n : evtq'[i] = evtq[i]
  OBVIOUS
<1> HIDE DEF n
<1>2. \A i \in 1 .. n + 1 : i = n + 1 \/ i \in 1 .. n
  BY <1>1
<1>3. 1 .. n \subseteq 1 .. n + 1 /\ n + 1 \in 1 .. n + 1
  BY <1>1
<1>4. \A f : Waits(f)' <=> Waits(f) \/ f = e
  BY <1>1, <1>2, <1>3 DEF Waits, n
<1>5. ASSUME LinkEventsOrdered,
             e \in LinkEvents => /\ ~Waits("DISCONNECTED")
                                 /\ Waits("CONNECTED") => e = "DISCONNECTED"
      PROVE  LinkEventsOrdered'
  <2> SUFFICES ASSUME NEW i \in 1 .. n + 1, NEW j \in 1 .. n + 1, i < j,
                      evtq'[i] \in LinkEvents, evtq'[j] \in LinkEvents
               PROVE  evtq'[i] = "CONNECTED" /\ evtq'[j] = "DISCONNECTED"
    BY <1>1 DEF LinkEventsOrdered
  <2>1. i \in 1 .. n /\ evtq'[i] = evtq[i]
    BY <1>1
  <2>2. CASE j \in 1 .. n
    BY <1>1, <1>5, <2>1, <2>2 DEF LinkEventsOrdered, n
  <2>3. CASE j = n + 1
    BY <1>1, <1>5, <2>1, <2>3 DEF Waits, LinkEvents, n
  <2> QED BY <1>2, <2>2, <2>3
<1> QED BY <1>4, <1>5

LEMMA Polled ==
  ASSUME evtq \in Seq(Events), evtq # <<>>, evtq' = Tail(evtq)
  PROVE  /\ \A f : Waits(f) <=> Waits(f)' \/ f = Head(evtq)
         /\ LinkEventsOrdered =>
              /\ LinkEventsOrdered'
              /\ Head(evtq) = "CONNECTED" => ~Waits("CONNECTED")'
              /\ Head(evtq) = "DISCONNECTED" =>
                   ~Waits("CONNECTED")' /\ ~Waits("DISCONNECTED")'
<1> DEFINE n == Len(evtq')
<1>1. /\ n \in Nat /\ Len(evtq) = n + 1 /\ evtq[1] = Head(evtq)
      /\ \A i \in 1 .. n : evtq'[i] = evtq[i + 1]
  OBVIOUS
<1> HIDE DEF n
<1>2. /\ \A i \in 1 .. n : i + 1 \in 1 .. n + 1 /\ 1 < i + 1
      /\ \A i \in 1 .. n + 1 : i = 1 \/ (i - 1 \in 1 .. n /\ (i - 1) + 1 = i)
      /\ 1 \in 1 .. n + 1
  BY <1>1
<1>3. \A f : Waits(f) <=> Waits(f)' \/ f = Head(evtq)
  <2> TAKE f
  <2>1. Waits(f) => Waits(f)' \/ f = Head(evtq)
    BY <1>1, <1>2 DEF Waits, n
  <2>2. Waits(f)' => Waits(f)
    BY <1>1, <1>2 DEF Waits, n
  <2>3. f = Head(evtq) => Waits(f)
    BY <1>1, <1>2 DEF Waits
  <2> QED BY <2>1, <2>2, <2>3
<1>4. ASSUME LinkEventsOrdered PROVE LinkEventsOrdered'
  <2> SUFFICES ASSUME NEW i \in 1 .. n, NEW j \in 1 .. n, i < j,
                      evtq'[i] \in LinkEvents, evtq'[j] \in LinkEvents
               PROVE  evtq'[i] = "CONNECTED" /\ evtq'[j] = "DISCONNECTED"
    BY DEF LinkEventsOrdered, n
  <2>1. i + 1 \in 1 .. n + 1 /\ j + 1 \in 1 .. n + 1 /\ i + 1 < j + 1
    BY <1>1
  <2> QED BY <1>1, <1>4, <2>1 DEF LinkEventsOrdered
<1>5. ASSUME LinkEventsOrdered, NEW i \in 1 .. n, Head(evtq) \in LinkEvents,
             evtq'[i] \in LinkEvents
      PROVE  Head(evtq) = "CONNECTED" /\ evtq'[i] = "DISCONNECTED"
  <2>1. 1 \in 1 .. n + 1 /\ i + 1 \in 1 .. n + 1 /\ 1 < i + 1
    BY <1>2
  <2> QED BY <1>1, <1>5, <2>1 DEF LinkEventsOrdered
<1>6. ASSUME LinkEventsOrdered
      PROVE  /\ Head(evtq) = "CONNECTED" => ~Waits("CONNECTED")'
             /\ Head(evtq) = "DISCONNECTED" =>
                  ~Waits("CONNECTED")' /\ ~Waits("DISCONNECTED")'
  BY <1>5, <1>6 DEF Waits, LinkEvents, n
<1> QED BY <1>3, <1>4, <1>6

-----------------------------------------------------------------------------
(* The link, the handles and the events at hand.                           *)

linkState == <<link, notifying, advertising, m_conn_handle, hids_handle>>

(* A step after which the same events of the link wait.                    *)
LinkEventsUnchanged ==
  /\ Waits("CONNECTED")' <=> Waits("CONNECTED")
  /\ Waits("DISCONNECTED")' <=> Waits("DISCONNECTED")

(* Posting or taking another event is such a step.                         *)
LEMMA OtherEvent ==
  ASSUME TypeOK, LinkEventsOrdered,
         \/ evtq' = evtq
         \/ \E e \in Events \ LinkEvents : evtq' = Append(evtq, e)
         \/ /\ evtq # <<>> /\ Head(evtq) \notin LinkEvents
            /\ evtq' = Tail(evtq)
  PROVE  LinkEventsUnchanged /\ LinkEventsOrdered'
<1>1. evtq \in Seq(Events)
  BY DEF TypeOK
<1>2. CASE evtq' = evtq
  BY <1>2 DEF LinkEventsUnchanged, LinkEventsOrdered, Waits
<1>3. CASE \E e \in Events \ LinkEvents : evtq' = Append(evtq, e)
  BY <1>1, <1>3, Posted DEF LinkEventsUnchanged, LinkEvents
<1>4. CASE /\ evtq # <<>> /\ Head(evtq) \notin LinkEvents
           /\ evtq' = Tail(evtq)
  BY <1>1, <1>4, Polled DEF LinkEventsUnchanged, LinkEvents
<1> QED BY <1>2, <1>3, <1>4

(* A step of another context than the main loop that leaves the link alone.*)
LEMMA LinkUntouched ==
  ASSUME LinkInv, LinkEventsOrdered', LinkEventsUnchanged,
         UNCHANGED <<link, advertising, m_conn_handle, hids_handle, main_pc,
                     main_evt>>,
         notifying' => notifying \/ (link /\ m_conn_handle /\ hids_handle)
  PROVE  LinkInv'
<1> USE DEF LinkInv, LinkEventsUnchanged
<1>1. EventAtHand'
  BY DEF EventAtHand
<1>2. LinkOfEvents' /\ AdvertisingWhenFree'
  BY DEF LinkOfEvents, AdvertisingWhenFree, Known, Leaving
<1>3. HandlesInOrder' /\ Subscribed'
  BY DEF HandlesInOrder, Subscribed, Leaving
<1> QED BY <1>1, <1>2, <1>3

(* The main loop inside buffer_dequeue.                                    *)
Dequeuing == {"dequeue", "copy", "send", "clear", "load", "store"}

LEMMA DequeuingEvent ==
  ASSUME TypeOK, EventAtHand, main_pc \in Dequeuing
  PROVE  main_evt \in {"TX_COMPLETE", "DISCONNECTED"}
BY DEF TypeOK, EventAtHand, Dequeuing

(* It stays there, or returns: to on_ble_evt after a loss of the link.     *)
LEMMA DequeueKeepsLink ==
  ASSUME TypeOK, LinkInv, UNCHANGED <<linkState, evtq>>,
         main_pc \in Dequeuing,
         \/ /\ main_pc' \in Dequeuing /\ main_evt' = main_evt
            /\ main_pc' \in {"copy", "send"} => main_evt = "TX_COMPLETE"
         \/ /\ main_evt = "DISCONNECTED"
            /\ main_pc' = "handle" /\ main_evt' = main_evt
         \/ /\ main_evt # "DISCONNECTED"
            /\ main_pc' = "idle" /\ main_evt' = "none"
  PROVE  LinkInv'
<1> USE DEF LinkInv, linkState, Dequeuing
<1>1. main_evt \in {"TX_COMPLETE", "DISCONNECTED"}
  BY DequeuingEvent
<1>2. LinkEventsOrdered' /\ LinkEventsUnchanged
  BY DEF LinkEventsOrdered, LinkEventsUnchanged, Waits
<1>3. EventAtHand'
  BY <1>1 DEF EventAtHand, LinkEvents
<1>4. (Known' <=> Known) /\ (Leaving' <=> Leaving)
  BY <1>1 DEF Known, Leaving, LinkEvents
<1>5. LinkOfEvents' /\ AdvertisingWhenFree'
  BY <1>2, <1>4 DEF LinkOfEvents, AdvertisingWhenFree, LinkEventsUnchanged
<1>6. HandlesInOrder' /\ Subscribed'
  BY <1>1, <1>4 DEF HandlesInOrder, Subscribed, Leaving
<1> QED BY <1>2, <1>3, <1>5, <1>6

(* What buffer_dequeue does once its send has returned is such a step.     *)
LEMMA DequeueReturnsMoves ==
  ASSUME NEW err_code, NEW actual_len, DequeueReturns(err_code, actual_len)
  PROVE  \/ main_pc' = "clear" /\ main_evt' = main_evt
         \/ main_pc' = "idle" /\ main_evt' = "none"
BY DEF DequeueReturns, MainIdle

LEMMA DequeuingKeepsLink ==
  ASSUME TypeOK, LinkInv,
         \/ Dequeue \/ CopyByte \/ MainSend \/ MainSendBootMode
         \/ Clear \/ Load \/ Store
  PROVE  LinkInv'
<1>1. main_pc \in Dequeuing
  BY DEF Dequeue, CopyByte, MainSend, MainSendBootMode, Clear, Load, Store,
         MainAt, Dequeuing
<1>2. UNCHANGED <<linkState, evtq>>
  BY DEF Dequeue, CopyByte, MainSend, MainSendBootMode, Clear, Load, Store,
         Accept, sdVars, appVars, linkState
<1>3. main_pc \in {"copy", "send"} => main_evt = "TX_COMPLETE"
  BY DEF LinkInv, EventAtHand
<1> SUFFICES
      \/ /\ main_pc' \in Dequeuing /\ main_evt' = main_evt
         /\ main_pc' \in {"copy", "send"} => main_evt = "TX_COMPLETE"
      \/ /\ main_evt = "DISCONNECTED"
         /\ main_pc' = "handle" /\ main_evt' = main_evt
      \/ /\ main_evt # "DISCONNECTED"
         /\ main_pc' = "idle" /\ main_evt' = "none"
  BY <1>1, <1>2, DequeueKeepsLink
<1>4. CASE Dequeue
  BY <1>4 DEF Dequeue, DequeueDone, MainIdle, GoTo, TxFlag, Dequeuing, localVars
<1>5. CASE CopyByte
  BY <1>3, <1>5 DEF CopyByte, MainAt, Dequeuing
<1>6. CASE MainSend
  BY <1>3, <1>6, DequeueReturnsMoves DEF MainSend, MainAt, Dequeuing
<1>7. CASE MainSendBootMode
  BY <1>3, <1>7, DequeueReturnsMoves DEF MainSendBootMode, MainAt, Dequeuing
<1>8. CASE Clear \/ Load
  BY <1>8 DEF Clear, Load, GoTo, Dequeuing, localVars
<1>9. CASE Store
  BY <1>9 DEF Store, DequeueDone, MainIdle
<1> QED BY <1>4, <1>5, <1>6, <1>7, <1>8, <1>9

(* What the interrupts, the host and the SoftDevice do on a link.          *)
LEMMA OthersKeepLink ==
  ASSUME TypeOK, LinkInv,
         \/ KeyChange \/ BatteryNotification \/ IrqStep
         \/ TxComplete \/ Subscribe \/ WriteProtocolMode
         \/ UNCHANGED vars
  PROVE  LinkInv'
<1>1. UNCHANGED <<link, advertising, m_conn_handle, hids_handle, main_pc,
                  main_evt>>
  BY DEF KeyChange, BatteryNotification, IrqStep, IrqSend, IrqSendBootMode,
         TxComplete, TransmitPackets, Subscribe, WriteProtocolMode, Accept,
         Unchanged_App, vars, sdVars, appVars, mainVars, localVars
<1>2. notifying' => notifying \/ (link /\ m_conn_handle /\ hids_handle)
  BY DEF KeyChange, BatteryNotification, IrqStep, IrqSend, IrqSendBootMode,
         TxComplete, TransmitPackets, Subscribe, WriteProtocolMode, Accept,
         vars, sdVars
<1>3. \/ evtq' = evtq
      \/ \E e \in Events \ LinkEvents : evtq' = Append(evtq, e)
  <2>1. CASE TxComplete
    <3>1. "TX_COMPLETE" \in Events \ LinkEvents
      BY DEF Events, LinkEvents
    <3> QED BY <2>1, <3>1 DEF TxComplete, TransmitPackets, Post
  <2>2. CASE WriteProtocolMode
    <3>1. {"BOOT_MODE_ENTERED", "REPORT_MODE_ENTERED"} \subseteq
            Events \ LinkEvents
      BY DEF Events, LinkEvents
    <3> QED BY <2>2, <3>1 DEF WriteProtocolMode, Post
  <2>3. CASE \/ KeyChange \/ BatteryNotification \/ IrqStep
             \/ Subscribe \/ UNCHANGED vars
    BY <2>3 DEF KeyChange, BatteryNotification, IrqStep, IrqSend,
                IrqSendBootMode, Subscribe, Accept, vars, sdVars
  <2> QED BY <2>1, <2>2, <2>3
<1>4. LinkEventsUnchanged /\ LinkEventsOrdered'
  BY <1>3, OtherEvent DEF LinkInv
<1> QED BY <1>1, <1>2, <1>4, LinkUntouched

(* The link comes up: a free device posts the first CONNECTED.             *)
LEMMA ConnectKeepsLink ==
  ASSUME TypeOK, LinkInv, Connect
  PROVE  LinkInv'
<1> USE DEF LinkInv
<1>1. /\ ~link /\ advertising /\ link' /\ ~advertising'
      /\ evtq' = Append(evtq, "CONNECTED")
      /\ UNCHANGED <<notifying, m_conn_handle, hids_handle, main_pc, main_evt>>
  BY DEF Connect, LinkUp, Post, Unchanged_App, appVars, mainVars, localVars
<1>2. ~Known /\ ~Leaving /\ ~Waits("CONNECTED") /\ ~Waits("DISCONNECTED")
  BY <1>1 DEF AdvertisingWhenFree
<1>3. evtq \in Seq(Events) /\ "CONNECTED" \in Events
  BY DEF TypeOK, Events
<1>4. /\ Waits("CONNECTED")' /\ ~Waits("DISCONNECTED")'
      /\ LinkEventsOrdered'
  BY <1>1, <1>2, <1>3, Posted
<1>5. (Known' <=> Known) /\ (Leaving' <=> Leaving)
  BY <1>1 DEF Known, Leaving
<1>6. LinkOfEvents' /\ AdvertisingWhenFree'
  BY <1>1, <1>2, <1>4, <1>5 DEF LinkOfEvents, AdvertisingWhenFree
<1>7. EventAtHand'
  BY <1>1 DEF EventAtHand
<1>8. HandlesInOrder' /\ Subscribed'
  BY <1>1, <1>5 DEF HandlesInOrder, Subscribed
<1> QED BY <1>4, <1>6, <1>7, <1>8

(* The link is lost: whatever waits, DISCONNECTED comes behind it.         *)
LEMMA DisconnectKeepsLink ==
  ASSUME TypeOK, LinkInv, Disconnect
  PROVE  LinkInv'
<1> USE DEF LinkInv
<1>1. /\ link /\ ~link' /\ ~notifying'
      /\ evtq' = Append(evtq, "DISCONNECTED")
      /\ UNCHANGED <<advertising, m_conn_handle, hids_handle, main_pc,
                     main_evt>>
  BY DEF Disconnect, LinkDown, Post, Unchanged_App, appVars, mainVars, localVars
<1>2. ~Waits("DISCONNECTED") /\ ~advertising
  BY <1>1 DEF LinkOfEvents, AdvertisingWhenFree
<1>3. evtq \in Seq(Events) /\ "DISCONNECTED" \in Events
  BY DEF TypeOK, Events
<1>4. /\ Waits("CONNECTED")' <=> Waits("CONNECTED")
      /\ Waits("DISCONNECTED")' /\ LinkEventsOrdered'
  BY <1>1, <1>2, <1>3, Posted
<1>5. (Known' <=> Known) /\ (Leaving' <=> Leaving)
  BY <1>1 DEF Known, Leaving
<1>6. LinkOfEvents' /\ AdvertisingWhenFree'
  BY <1>1, <1>2, <1>4, <1>5 DEF LinkOfEvents, AdvertisingWhenFree
<1>7. EventAtHand'
  BY <1>1 DEF EventAtHand
<1>8. HandlesInOrder' /\ Subscribed'
  BY <1>1, <1>5 DEF HandlesInOrder, Subscribed
<1> QED BY <1>4, <1>6, <1>7, <1>8

(* The main loop takes an event: what waited is at hand.                   *)
LEMMA PollKeepsLink ==
  ASSUME TypeOK, LinkInv, PollEvent
  PROVE  LinkInv'
<1> USE DEF LinkInv
<1>1. /\ main_pc = "idle" /\ main_evt = "none"
      /\ evtq \in Seq(Events) /\ evtq # <<>> /\ evtq' = Tail(evtq)
      /\ UNCHANGED linkState
  BY DEF PollEvent, MainAt, EventAtHand, TypeOK, linkState
<1>2. /\ Waits("CONNECTED") <=>
           Waits("CONNECTED")' \/ Head(evtq) = "CONNECTED"
      /\ Waits("DISCONNECTED") <=>
           Waits("DISCONNECTED")' \/ Head(evtq) = "DISCONNECTED"
      /\ LinkEventsOrdered'
      /\ Head(evtq) = "CONNECTED" => ~Waits("CONNECTED")'
      /\ Head(evtq) = "DISCONNECTED" =>
           ~Waits("CONNECTED")' /\ ~Waits("DISCONNECTED")'
  BY <1>1, Polled
<1>3. ~Leaving /\ (Known <=> m_conn_handle)
  BY <1>1 DEF Leaving, Known, LinkEvents
<1>4. CASE Head(evtq) = "CONNECTED"
  <2>1. main_pc' = "handle" /\ main_evt' = "CONNECTED"
    BY <1>4 DEF PollEvent, on_hids_evt
  <2>2. Known' /\ ~Leaving'
    BY <2>1 DEF Known, Leaving, LinkEvents
  <2>3. ~Known /\ ~m_conn_handle /\ ~hids_handle
    BY <1>1, <1>2, <1>3, <1>4 DEF LinkOfEvents, HandlesInOrder
  <2>4. LinkOfEvents' /\ AdvertisingWhenFree'
    BY <1>1, <1>2, <1>4, <2>2, <2>3
    DEF LinkOfEvents, AdvertisingWhenFree, linkState
  <2>5. EventAtHand'
    BY <2>1 DEF EventAtHand, LinkEvents
  <2>6. HandlesInOrder' /\ Subscribed'
    BY <1>1, <2>1, <2>2, <2>3 DEF HandlesInOrder, Subscribed, linkState
  <2> QED BY <1>2, <2>4, <2>5, <2>6
<1>5. CASE Head(evtq) = "DISCONNECTED"
  <2>1. main_pc' = "dequeue" /\ main_evt' = "DISCONNECTED"
    BY <1>5 DEF PollEvent, on_hids_evt
  <2>2. ~Known' /\ Leaving'
    BY <2>1 DEF Known, Leaving, LinkEvents
  <2>3. Known /\ m_conn_handle /\ hids_handle
    BY <1>1, <1>2, <1>3, <1>5 DEF LinkOfEvents, HandlesInOrder
  <2>4. LinkOfEvents' /\ AdvertisingWhenFree'
    BY <1>1, <1>2, <1>5, <2>2, <2>3
    DEF LinkOfEvents, AdvertisingWhenFree, linkState
  <2>5. EventAtHand'
    BY <2>1 DEF EventAtHand, LinkEvents
  <2>6. HandlesInOrder' /\ Subscribed'
    BY <1>1, <2>1, <2>2, <2>3 DEF HandlesInOrder, Subscribed, linkState
  <2> QED BY <1>2, <2>4, <2>5, <2>6
<1>6. CASE Head(evtq) \notin LinkEvents
  <2>1. LinkEventsUnchanged
    BY <1>1, <1>6, OtherEvent
  <2>2. \/ main_pc' = "idle" /\ main_evt' = "none"
        \/ main_pc' = "dequeue" /\ main_evt' = "TX_COMPLETE"
    BY <1>1, <1>6 DEF PollEvent, on_hids_evt, LinkEvents
  <2>3. (Known' <=> m_conn_handle) /\ ~Leaving'
    BY <1>1, <2>2 DEF Known, Leaving, LinkEvents, linkState
  <2>4. LinkOfEvents' /\ AdvertisingWhenFree'
    BY <1>1, <1>3, <2>1, <2>3
    DEF LinkOfEvents, AdvertisingWhenFree, LinkEventsUnchanged, linkState
  <2>5. EventAtHand'
    BY <2>2 DEF EventAtHand
  <2>6. HandlesInOrder' /\ Subscribed'
    BY <1>1, <2>2, <2>3 DEF HandlesInOrder, Subscribed, linkState
  <2> QED BY <1>2, <2>4, <2>5, <2>6
<1> QED BY <1>4, <1>5, <1>6 DEF LinkEvents

(* on_ble_evt and then the services set their copies of the handle.        *)
LEMMA HandlingKeepsLink ==
  ASSUME TypeOK, LinkInv, HandleConnection \/ HandleHids
  PROVE  LinkInv'
<1> USE DEF LinkInv
<1>1. UNCHANGED <<link, notifying, evtq>>
  BY DEF HandleConnection, HandleHids, sdVars
<1>2. LinkEventsOrdered' /\ LinkEventsUnchanged
  BY <1>1 DEF LinkEventsOrdered, LinkEventsUnchanged, Waits
<1>3. CASE HandleConnection
  <2>1. /\ main_pc = "handle" /\ main_pc' = "hids" /\ main_evt' = main_evt
        /\ main_evt \in LinkEvents
        /\ m_conn_handle' <=> main_evt = "CONNECTED"
        /\ UNCHANGED <<advertising, hids_handle>>
    BY <1>3 DEF HandleConnection, SetConnHandle, MainAt, GoTo, localVars,
                EventAtHand, sdVars
  <2>2. (Known' <=> Known) /\ (Known <=> main_evt = "CONNECTED") /\ ~Leaving'
        /\ (Leaving <=> main_evt = "DISCONNECTED")
    BY <2>1 DEF Known, Leaving, LinkEvents
  <2>3. LinkOfEvents'
    BY <1>1, <1>2, <2>2 DEF LinkOfEvents, LinkEventsUnchanged
  <2>4. AdvertisingWhenFree'
    BY <1>1, <1>2, <2>1, <2>2
    DEF LinkOfEvents, AdvertisingWhenFree, LinkEventsUnchanged, LinkEvents
  <2>5. EventAtHand'
    BY <2>1 DEF EventAtHand
  <2>6. hids_handle <=> main_evt = "DISCONNECTED"
    BY <2>1 DEF HandlesInOrder
  <2>7. HandlesInOrder'
    BY <2>1, <2>2, <2>6 DEF HandlesInOrder, LinkEvents
  <2>8. Subscribed'
    <3>1. main_evt = "CONNECTED" => ~notifying
      BY <2>6 DEF Subscribed
    <3>2. main_evt = "DISCONNECTED" => ~notifying
      BY <2>1, <2>2 DEF Subscribed, LinkOfEvents
    <3> QED BY <1>1, <2>1, <3>1, <3>2 DEF Subscribed, LinkEvents
  <2> QED BY <1>2, <2>3, <2>4, <2>5, <2>7, <2>8
<1>4. CASE HandleHids
  <2>1. /\ main_pc = "hids" /\ main_pc' = "idle" /\ main_evt' = "none"
        /\ main_evt \in LinkEvents
        /\ hids_handle' <=> main_evt = "CONNECTED"
        /\ UNCHANGED <<m_conn_handle, advertising>>
    BY <1>4 DEF HandleHids, MainIdle, MainAt, EventAtHand, sdVars
  <2>2. /\ Known <=> main_evt = "CONNECTED"
        /\ m_conn_handle <=> main_evt = "CONNECTED"
        /\ ~Leaving
    BY <2>1 DEF Known, Leaving, HandlesInOrder
  <2>3. (Known' <=> Known) /\ ~Leaving'
    BY <2>1, <2>2 DEF Known, Leaving, LinkEvents
  <2>4. LinkOfEvents' /\ AdvertisingWhenFree'
    BY <1>1, <1>2, <2>1, <2>2, <2>3
    DEF LinkOfEvents, AdvertisingWhenFree, LinkEventsUnchanged
  <2>5. EventAtHand'
    BY <2>1 DEF EventAtHand
  <2>6. HandlesInOrder'
    BY <2>1, <2>2, <2>3 DEF HandlesInOrder
  <2>7. Subscribed'
    BY <1>1, <2>1, <2>2 DEF Subscribed, HandlesInOrder
  <2> QED BY <1>2, <2>4, <2>5, <2>6, <2>7
<1> QED BY <1>3, <1>4

(* Advertising begins when no event of a link is left, or ends.            *)
LEMMA AdvertisingKeepsLink ==
  ASSUME TypeOK, LinkInv, AdvertisingChanges
  PROVE  LinkInv'
<1> USE DEF LinkInv
<1>1. UNCHANGED <<link, notifying, evtq, m_conn_handle, hids_handle, main_pc,
                  main_evt>>
  BY DEF AdvertisingChanges, Unchanged_App, appVars, mainVars, localVars
<1>2. /\ LinkEventsOrdered' /\ LinkEventsUnchanged
      /\ (Known' <=> Known) /\ (Leaving' <=> Leaving)
  BY <1>1 DEF LinkEventsOrdered, LinkEventsUnchanged, Waits, Known, Leaving
<1>3. EventAtHand' /\ HandlesInOrder' /\ Subscribed' /\ LinkOfEvents'
  BY <1>1, <1>2 DEF EventAtHand, HandlesInOrder, Subscribed, LinkOfEvents,
     LinkEventsUnchanged
<1>4. CASE AdvertisingStarts
  <2>1. /\ ~link /\ ~m_conn_handle
        /\ ~Waits("CONNECTED") /\ ~Waits("DISCONNECTED")
    BY <1>4 DEF AdvertisingStarts, LinkEventWaits, Waits
  <2>2. ~Known
    BY <2>1 DEF LinkOfEvents
  <2>3. ~Leaving
    BY <2>1 DEF HandlesInOrder, Leaving
  <2> QED BY <1>1, <1>2, <1>3, <2>1, <2>2, <2>3
          DEF AdvertisingWhenFree, LinkEventsUnchanged
<1>5. CASE AdvertisingTimesOut
  BY <1>2, <1>3, <1>5 DEF AdvertisingTimesOut, AdvertisingWhenFree
<1> QED BY <1>4, <1>5 DEF AdvertisingChanges

(* No step breaks it, and the device starts free and advertising.          *)
LEMMA LinkInvInductive ==
  ASSUME TypeOK, LinkInv, [Next]_vars
  PROVE  LinkInv'
<1>1. CASE Reset
  BY <1>1 DEF Reset, MainIdle, LinkInv, LinkEventsOrdered, EventAtHand,
              LinkOfEvents, AdvertisingWhenFree, HandlesInOrder, Subscribed,
              Waits, Known, Leaving, LinkEvents
<1> QED
  BY <1>1, OthersKeepLink, ConnectKeepsLink, DisconnectKeepsLink,
     PollKeepsLink, HandlingKeepsLink, DequeuingKeepsLink,
     AdvertisingKeepsLink
  DEF Next, MainStep

LEMMA LinkInvInitial == Init => LinkInv
BY DEF Init, SdInit, LinkInv, LinkEventsOrdered, EventAtHand, LinkOfEvents,
       AdvertisingWhenFree, HandlesInOrder, Subscribed, Waits, Known, Leaving,
       LinkEvents

LEMMA LinkInvariant == Spec => [](DeliveryInv /\ LinkInv)
<1>1. Init => LinkInv
  BY LinkInvInitial
<1>2. DeliveryInv /\ LinkInv /\ [Next]_vars => LinkInv'
  BY LinkInvInductive DEF DeliveryInv, CountInv
<1> QED BY <1>1, <1>2, DeliveryInvariant, PTL DEF Spec

(***************************************************************************)
(* Once the main loop has dispatched what waited, the copies of the handle *)
(* agree with the link, however soon or late advertising begins again      *)
(* (my_ble_connection.c:40-56, 131-143).                                   *)
(***************************************************************************)
THEOREM HandlesFollowTheLink == Spec => []HandlesFollowLink
<1>1. TypeOK /\ LinkInv => HandlesFollowLink
  <2> SUFFICES ASSUME TypeOK, LinkInv, main_pc = "idle",
                      ~Waits("CONNECTED"), ~Waits("DISCONNECTED")
               PROVE  m_conn_handle = link /\ hids_handle = link
    BY DEF HandlesFollowLink, LinkEventWaits, Waits
  <2>1. ~Leaving /\ (Known <=> m_conn_handle)
    BY DEF LinkInv, EventAtHand, Leaving, Known, LinkEvents
  <2>2. m_conn_handle <=> link
    BY <2>1 DEF LinkInv, LinkOfEvents
  <2>3. hids_handle <=> m_conn_handle
    BY DEF LinkInv, HandlesInOrder
  <2> QED BY <2>2, <2>3 DEF TypeOK
<1>2. DeliveryInv /\ LinkInv => TypeOK /\ LinkInv
  BY DEF DeliveryInv, CountInv
<1> QED BY <1>1, <1>2, LinkInvariant, PTL

(* A handle kept too long: the loss of its link waits or is at hand.       *)
LEMMA StaleHandle ==
  ASSUME LinkInv, hids_handle, ~link
  PROVE  LossPending
<1> USE DEF LinkInv
<1> SUFFICES ASSUME main_evt # "DISCONNECTED", ~Waits("DISCONNECTED")
             PROVE  FALSE
  BY DEF LossPending, Waits
<1>1. CASE main_evt = "CONNECTED"
  BY <1>1 DEF EventAtHand, HandlesInOrder
<1>2. CASE main_evt # "CONNECTED"
  <2>1. main_pc # "hids" /\ m_conn_handle /\ Known
    BY <1>2 DEF EventAtHand, HandlesInOrder, Known, LinkEvents
  <2> QED BY <2>1 DEF LinkOfEvents
<1> QED BY <1>1, <1>2

(***************************************************************************)
(* keys_send and the battery notification reset the controller only while  *)
(* a loss of the link is not dispatched, or in boot mode                   *)
(* (my_ble_services.c:214-220, my_battery.c:36-41).                        *)
(***************************************************************************)
THEOREM ResetsNeedALoss == Spec => ResetsOnlyOnLoss
<1>1. LinkInv /\ [Next]_vars =>
        [fault' /\ ~fault => LossPending \/ m_in_boot_mode]_vars
  <2> SUFFICES ASSUME LinkInv, Next, fault', ~fault, ~m_in_boot_mode
               PROVE  LossPending
    BY DEF vars
  <2>1. IrqSend \/ BatteryNotification
    BY DEF Next, MainStep, IrqStep, KeyChange, IrqSendBootMode, PollEvent,
           Dequeue, CopyByte, MainSend, MainSendBootMode, Clear, Load, Store,
           HandleConnection, HandleHids, Connect, Disconnect, TxComplete,
           Subscribe, WriteProtocolMode, AdvertisingChanges, Reset,
           Unchanged_App, appVars
  <2>2. HvxResult(hids_handle) = "INVALID_CONN_HANDLE"
    <3>1. CASE IrqSend
      BY <3>1 DEF IrqSend, KeysSendReturns, HvxResult
    <3>2. CASE BatteryNotification
      BY <3>2 DEF BatteryNotification
    <3> QED BY <2>1, <3>1, <3>2
  <2> QED BY <2>2, StaleHandle DEF HvxResult
<1> QED BY <1>1, LinkInvariant, PTL DEF Spec, ResetsOnlyOnLoss

-----------------------------------------------------------------------------
(* The host and the list.                                                  *)

(* The host listens as long as the last key change can reach it.           *)
FreshNotifies == fresh => CanNotify

(* The main loop has a TX_COMPLETE at hand and will look at the list.      *)
Retrying == main_pc \in {"dequeue", "copy", "send"} /\ main_evt = "TX_COMPLETE"

(* Something that makes the main loop look at the list again lies ahead.   *)
NoneStranded ==
  fresh /\ IrqIdle /\ count # 0 =>
    InFlight > 0 \/ Waits("TX_COMPLETE") \/ Retrying

(* A key change between the two halves of count-- is a race.               *)
RacedByIrq == irq_pc = "send" /\ main_pc = "store" => raced

(* An entry is left, apart from one the main loop is about to remove.      *)
EntryLeft ==
  /\ count > 0
  /\ main_pc \in {"clear", "load"} => count > 1
  /\ main_pc = "store" => loaded > 1

(* What the host lacks is in the list.                                     *)
HostOrList ==
  fresh /\ ~raced /\ ~lapped /\ IrqIdle => host = keypad_state \/ EntryLeft

HostInv == FreshNotifies /\ NoneStranded /\ RacedByIrq /\ HostOrList

(* Nothing of the link waits or is at hand while the host listens.         *)
LEMMA Listening ==
  ASSUME TypeOK, LinkInv, notifying
  PROVE  /\ link /\ main_evt \in {"none", "TX_COMPLETE"}
         /\ ~Waits("CONNECTED") /\ ~Waits("DISCONNECTED")
<1> USE DEF LinkInv
<1>1. link /\ m_conn_handle /\ hids_handle
  BY DEF Subscribed
<1>2. main_evt # "CONNECTED"
  BY <1>1 DEF EventAtHand, HandlesInOrder
<1>3. main_evt # "DISCONNECTED"
  <2> SUFFICES ASSUME main_evt = "DISCONNECTED" PROVE FALSE
    OBVIOUS
  <2>1. Leaving /\ ~Known
    BY <1>1 DEF HandlesInOrder, Leaving, Known, LinkEvents
  <2> QED BY <1>1, <2>1 DEF LinkOfEvents
<1>4. Known
  BY <1>1, <1>2, <1>3 DEF Known, LinkEvents
<1> QED BY <1>1, <1>2, <1>3, <1>4 DEF LinkOfEvents, TypeOK

(* What the SoftDevice answers to a host that listens.                     *)
LEMMA ListeningAnswer ==
  ASSUME TypeOK, CanNotify
  PROVE  \/ HvxResult(hids_handle) = "SUCCESS" /\ free > 0
         \/ HvxResult(hids_handle) = "NO_TX_PACKETS" /\ InFlight > 0
BY SoftDeviceAssumption DEF CanNotify, HvxResult, InFlight, TypeOK

(* A packet taken is in flight.                                            *)
LEMMA AcceptedIsInFlight ==
  ASSUME TypeOK, NEW report, Accept(report)
  PROVE  InFlight' > 0
BY SoftDeviceAssumption DEF TypeOK, Accept, InFlight

(* The steps that leave the host without a report of the keys, or take the *)
(* keys from under it, say so.                                             *)
LEMMA FreshNotifiesInductive ==
  ASSUME TypeOK, LinkInv, FreshNotifies, [Next]_vars
  PROVE  FreshNotifies'
<1> USE DEF FreshNotifies, CanNotify
<1>1. CASE KeyChange
  BY <1>1 DEF KeyChange, sdVars
<1>2. CASE IrqSend \/ IrqSendBootMode \/ BatteryNotification
  BY <1>2 DEF IrqSend, IrqSendBootMode, BatteryNotification, Accept, sdVars,
              ghostVars
<1>3. CASE PollEvent
  BY <1>3 DEF PollEvent, on_hids_evt
<1>4. CASE \/ Dequeue \/ CopyByte \/ MainSend \/ MainSendBootMode
           \/ Clear \/ Load \/ Store
  BY <1>4 DEF Dequeue, CopyByte, MainSend, MainSendBootMode, Clear, Load,
              Store, Accept, sdVars, appVars, ghostVars
<1>5. CASE HandleConnection
  BY <1>5 DEF HandleConnection, sdVars, ghostVars
<1>6. CASE HandleHids
  <2>1. main_evt \in LinkEvents
    BY <1>6 DEF HandleHids, MainAt, LinkInv, EventAtHand
  <2>2. ~notifying
    BY <2>1, Listening DEF LinkEvents
  <2> QED BY <1>6, <2>2 DEF HandleHids, ghostVars
<1>7. CASE Connect
  BY <1>7 DEF Connect, LinkUp
<1>8. CASE TxComplete \/ WriteProtocolMode \/ AdvertisingChanges
  BY <1>8 DEF TxComplete, TransmitPackets, WriteProtocolMode,
              AdvertisingChanges, Unchanged_App,
              appVars
<1>9. CASE Disconnect \/ Subscribe \/ Reset
  BY <1>9 DEF Disconnect, Subscribe, Reset
<1>10. CASE UNCHANGED vars
  BY <1>10 DEF vars, sdVars, appVars, ghostVars
<1> QED
  BY <1>1, <1>2, <1>3, <1>4, <1>5, <1>6, <1>7, <1>8, <1>9, <1>10
  DEF Next, MainStep, IrqStep

LEMMA RacedByIrqInductive ==
  ASSUME RacedByIrq, [Next]_vars
  PROVE  RacedByIrq'
<1> USE DEF RacedByIrq
<1>1. CASE KeyChange
  BY <1>1 DEF KeyChange, MainHoldsCopy, mainVars
<1>2. CASE IrqStep
  BY <1>2 DEF IrqStep, IrqSend, IrqSendBootMode, mainVars, ghostVars
<1>3. CASE MainStep
  <2>1. irq_pc = "idle" /\ UNCHANGED irqVars
    <3>1. CASE PollEvent \/ Dequeue \/ CopyByte
      BY <3>1 DEF PollEvent, Dequeue, CopyByte, MainAt, IrqIdle
    <3>2. CASE MainSend \/ MainSendBootMode
      BY <3>2 DEF MainSend, MainSendBootMode, MainAt, IrqIdle
    <3>3. CASE Clear \/ Load \/ Store
      BY <3>3 DEF Clear, Load, Store, MainAt, IrqIdle
    <3>4. CASE HandleConnection \/ HandleHids
      BY <3>4 DEF HandleConnection, HandleHids, MainAt, IrqIdle
    <3> QED BY <1>3, <3>1, <3>2, <3>3, <3>4 DEF MainStep
  <2> QED BY <2>1 DEF irqVars
<1>4. CASE \/ BatteryNotification \/ Connect \/ Disconnect \/ TxComplete
           \/ Subscribe \/ WriteProtocolMode \/ AdvertisingChanges
           \/ UNCHANGED vars
  BY <1>4 DEF BatteryNotification, Connect, Disconnect, TxComplete, Subscribe,
              WriteProtocolMode, AdvertisingChanges, Unchanged_App, vars, mainVars, irqVars,
              ghostVars
<1>5. CASE Reset
  BY <1>5 DEF Reset
<1> QED BY <1>1, <1>2, <1>3, <1>4, <1>5 DEF Next

(* The main loop runs only while no interrupt does.                        *)
LEMMA MainStepsAlone ==
  ASSUME MainStep
  PROVE  IrqIdle /\ ~fault
<1>1. CASE PollEvent \/ Dequeue \/ CopyByte \/ MainSend \/ MainSendBootMode
  BY <1>1 DEF PollEvent, Dequeue, CopyByte, MainSend, MainSendBootMode, MainAt
<1>2. CASE Clear \/ Load \/ Store \/ HandleConnection \/ HandleHids
  BY <1>2 DEF Clear, Load, Store, HandleConnection, HandleHids, MainAt
<1> QED BY <1>1, <1>2 DEF MainStep

(* A handler never ends with an entry in the list and nothing ahead: the   *)
(* list grows and is kept only for want of packets, which are in flight.   *)
LEMMA NoneStrandedInductive ==
  ASSUME TypeOK, CountInRange, LinkInv, FreshNotifies, NoneStranded,
         [Next]_vars
  PROVE  NoneStranded'
<1> SUFFICES ASSUME fresh', IrqIdle', count' # 0
             PROVE  InFlight' > 0 \/ Waits("TX_COMPLETE")' \/ Retrying'
  BY DEF NoneStranded
<1>1. evtq \in Seq(Events)
  BY DEF TypeOK
<1>2. CASE KeyChange
  BY <1>2 DEF KeyChange, IrqIdle
<1>3. CASE IrqSend
  <2>1. fresh /\ CanNotify
    BY <1>3 DEF IrqSend, ghostVars, FreshNotifies
  <2>2. CASE HvxResult(hids_handle) = "SUCCESS"
    BY <1>3, <2>2, AcceptedIsInFlight DEF IrqSend
  <2>3. CASE HvxResult(hids_handle) = "NO_TX_PACKETS" /\ InFlight > 0
    BY <1>3, <2>3 DEF IrqSend, sdVars, InFlight
  <2> QED BY <2>1, <2>2, <2>3, ListeningAnswer
<1>4. CASE IrqSendBootMode
  BY <1>4 DEF IrqSendBootMode, ghostVars, FreshNotifies, CanNotify
<1>5. CASE BatteryNotification
  <2>1. fresh /\ CanNotify
    BY <1>5 DEF BatteryNotification, ghostVars, FreshNotifies
  <2>2. HvxResult(hids_handle) # "INVALID_CONN_HANDLE"
    BY <2>1 DEF HvxResult, CanNotify
  <2> QED BY <1>5, <2>2, AcceptedIsInFlight DEF BatteryNotification
<1>6. CASE MainStep
  <2>1. IrqIdle
    BY <1>6, MainStepsAlone
  <2>2. fresh /\ CanNotify
    <3>1. fresh
      <4>1. CASE PollEvent
        BY <4>1 DEF PollEvent, on_hids_evt
      <4>2. CASE Dequeue \/ CopyByte \/ MainSend \/ MainSendBootMode
        BY <4>2 DEF Dequeue, CopyByte, MainSend, MainSendBootMode, ghostVars
      <4>3. CASE Clear \/ Load \/ Store \/ HandleConnection \/ HandleHids
        BY <4>3 DEF Clear, Load, Store, HandleConnection, HandleHids, ghostVars
      <4> QED BY <1>6, <4>1, <4>2, <4>3 DEF MainStep
    <3> QED BY <3>1 DEF FreshNotifies
  <2>3. /\ main_evt \in {"none", "TX_COMPLETE"}
        /\ ~Waits("CONNECTED") /\ ~Waits("DISCONNECTED")
    BY <2>2, Listening DEF CanNotify
  <2>4. CASE PollEvent
    <3>1. /\ evtq # <<>> /\ evtq' = Tail(evtq)
          /\ UNCHANGED <<count, free>> /\ main_pc = "idle"
      BY <2>4 DEF PollEvent, MainAt, listVars
    <3>2. Waits("TX_COMPLETE") =>
            Waits("TX_COMPLETE")' \/ Head(evtq) = "TX_COMPLETE"
      BY <1>1, <3>1, Polled
    <3>3. Head(evtq) = "TX_COMPLETE" => Retrying'
      BY <2>4 DEF PollEvent, on_hids_evt, Retrying
    <3>4. InFlight > 0 \/ Waits("TX_COMPLETE")
      BY <2>1, <2>2, <3>1 DEF NoneStranded, Retrying
    <3> QED BY <3>1, <3>2, <3>3, <3>4 DEF InFlight
  <2>5. CASE Dequeue
    <3>1. UNCHANGED <<count, free, evtq>>
      BY <2>5 DEF Dequeue, listVars, sdVars
    <3>2. main_evt = "TX_COMPLETE" => Retrying'
      BY <2>5, <3>1 DEF Dequeue, TxFlag, Retrying, BUFFER_LIST_EMPTY
    <3>3. main_evt = "none" => InFlight > 0 \/ Waits("TX_COMPLETE")
      BY <2>1, <2>2, <3>1 DEF NoneStranded, Retrying
    <3> QED BY <2>3, <3>1, <3>2, <3>3 DEF InFlight, Waits
  <2>6. CASE CopyByte
    <3>1. main_pc = "copy" /\ main_pc' \in {"copy", "send"}
          /\ main_evt' = main_evt
      BY <2>6 DEF CopyByte, MainAt
    <3>2. main_evt = "TX_COMPLETE"
      BY <3>1 DEF LinkInv, EventAtHand
    <3> QED BY <3>1, <3>2 DEF Retrying
  <2>7. CASE MainSend
    <3>1. CASE HvxResult(hids_handle) = "SUCCESS"
      BY <2>7, <3>1, AcceptedIsInFlight DEF MainSend
    <3>2. CASE HvxResult(hids_handle) = "NO_TX_PACKETS" /\ InFlight > 0
      BY <2>7, <3>2 DEF MainSend, sdVars, InFlight
    <3> QED BY <2>2, <3>1, <3>2, ListeningAnswer
  <2>8. CASE MainSendBootMode
    BY <2>2, <2>8 DEF MainSendBootMode, CanNotify
  <2>9. CASE Clear \/ Load \/ Store
    <3>1. main_pc \in {"clear", "load", "store"} /\ UNCHANGED <<free, evtq>>
      BY <2>9 DEF Clear, Load, Store, MainAt, sdVars
    <3>2. count # 0
      BY <3>1 DEF CountInRange, TypeOK
    <3>3. InFlight > 0 \/ Waits("TX_COMPLETE")
      BY <2>1, <2>2, <3>1, <3>2 DEF NoneStranded, Retrying
    <3> QED BY <3>1, <3>3 DEF InFlight, Waits
  <2>10. CASE HandleConnection \/ HandleHids
    BY <2>3, <2>10 DEF HandleConnection, HandleHids, MainAt, LinkInv,
                       EventAtHand, LinkEvents
  <2> QED
    BY <1>6, <2>4, <2>5, <2>6, <2>7, <2>8, <2>9, <2>10 DEF MainStep
<1>7. CASE Connect
  <2>1. notifying /\ ~link
    BY <1>7 DEF Connect, LinkUp, FreshNotifies, CanNotify
  <2> QED BY <2>1, Listening
<1>8. CASE TxComplete
  <2>1. evtq' = Append(evtq, "TX_COMPLETE") /\ "TX_COMPLETE" \in Events
    BY <1>8 DEF TxComplete, TransmitPackets, Post, Events
  <2> QED BY <1>1, <2>1, Posted
<1>9. CASE WriteProtocolMode
  <2>1. PICK e \in Events : evtq' = Append(evtq, e)
    BY <1>9 DEF WriteProtocolMode, Post, Events
  <2>2. Waits("TX_COMPLETE") => Waits("TX_COMPLETE")'
    BY <1>1, <2>1, Posted
  <2>3. UNCHANGED <<free, count, fresh, irq_pc, main_pc, main_evt>>
    BY <1>9 DEF WriteProtocolMode, Unchanged_App, listVars, irqVars, mainVars,
                localVars
  <2> QED BY <2>2, <2>3 DEF NoneStranded, InFlight, IrqIdle, Retrying
<1>10. CASE Disconnect \/ Subscribe \/ Reset
  BY <1>10 DEF Disconnect, Subscribe, Reset
<1>11. CASE UNCHANGED vars
  BY <1>11 DEF vars, listVars, sdVars, mainVars, localVars, irqVars, ghostVars,
               NoneStranded, InFlight, IrqIdle, Retrying, Waits
<1>12. CASE AdvertisingChanges
  BY <1>12 DEF AdvertisingChanges, Unchanged_App, listVars, mainVars, localVars,
               irqVars, NoneStranded, InFlight, IrqIdle, Retrying, Waits
<1> QED
  BY <1>2, <1>3, <1>4, <1>5, <1>6, <1>7, <1>8, <1>9, <1>10, <1>11, <1>12
  DEF Next, IrqStep

(* An enqueue leaves an entry beside the one that is being removed.        *)
LEMMA EnqueueLeavesEntry ==
  ASSUME TypeOK, CountInRange, NEW actual_len, buffer_enqueue(actual_len),
         main_pc # "store", UNCHANGED mainVars
  PROVE  EntryLeft'
<1>1. count' > 0 /\ (count > 0 => count' > 1)
  <2>1. CASE BUFFER_LIST_FULL /\ UNCHANGED listVars
    BY <2>1, BufferAssumption DEF BUFFER_LIST_FULL, listVars, TypeOK
  <2>2. CASE count' = count + 1
    BY <2>2 DEF TypeOK
  <2> QED BY <2>1, <2>2 DEF buffer_enqueue
<1>2. main_pc \in {"clear", "load"} => count > 0
  BY DEF CountInRange
<1> QED BY <1>1, <1>2 DEF EntryLeft, mainVars

(* A step that concerns neither the keys, the host, the list nor the       *)
(* removal of its head.                                                    *)
LEMMA HostUntouched ==
  ASSUME HostOrList, UNCHANGED <<host, keypad_state, count, loaded, raced,
                                 lapped, irq_pc, main_pc>>,
         fresh' => fresh
  PROVE  HostOrList'
BY DEF HostOrList, EntryLeft, IrqIdle

(* What is refused is in the list, and is sent before it leaves the list.  *)
LEMMA HostOrListInductive ==
  ASSUME DeliveryInv, LinkInv, HostInv, [Next]_vars
  PROVE  HostOrList'
<1>1. TypeOK /\ CountInRange
  BY DEF DeliveryInv, CountInv
<1> USE DEF HostInv
<1>2. CASE KeyChange
  BY <1>2 DEF KeyChange, HostOrList, IrqIdle
<1>3. CASE IrqSend
  <2> SUFFICES ASSUME fresh', ~raced', IrqIdle'
               PROVE  host' = keypad_state' \/ EntryLeft'
    BY DEF HostOrList
  <2>1. /\ CanNotify /\ ~raced /\ irq_pc = "send"
        /\ UNCHANGED <<mainVars, keypad_state>>
    BY <1>3 DEF IrqSend, ghostVars, FreshNotifies
  <2>2. CASE HvxResult(hids_handle) = "SUCCESS"
    BY <1>3, <2>1, <2>2 DEF IrqSend, Accept
  <2>3. CASE HvxResult(hids_handle) = "NO_TX_PACKETS"
    <3>1. irq_offset <= PatternLen
      BY <1>1 DEF TypeOK
    <3>2. buffer_enqueue(irq_offset)
      BY <1>3, <2>3, <3>1 DEF IrqSend, KeysSendReturns
    <3>3. main_pc # "store"
      BY <2>1 DEF RacedByIrq
    <3> QED BY <1>1, <2>1, <3>2, <3>3, EnqueueLeavesEntry
  <2> QED BY <1>1, <2>1, <2>2, <2>3, ListeningAnswer
<1>4. CASE IrqSendBootMode
  BY <1>4 DEF IrqSendBootMode, ghostVars, FreshNotifies, CanNotify, HostOrList
<1>5. CASE BatteryNotification
  <2>1. UNCHANGED host
    BY <1>5 DEF BatteryNotification, Accept, sdVars
  <2> QED
    BY <1>5, <2>1, HostUntouched
    DEF BatteryNotification, listVars, mainVars, localVars, irqVars, ghostVars
<1>6. CASE PollEvent
  BY <1>6 DEF PollEvent, on_hids_evt, MainAt, listVars, irqVars, HostOrList,
              EntryLeft
<1>7. CASE Dequeue
  <2> SUFFICES ASSUME fresh, ~raced, ~lapped, IrqIdle
               PROVE  host' = keypad_state' \/ EntryLeft'
    BY <1>7 DEF HostOrList, Dequeue, MainAt, ghostVars, listVars
  <2>1. /\ main_pc = "dequeue"
        /\ UNCHANGED <<host, keypad_state, count>>
    BY <1>7 DEF Dequeue, MainAt, sdVars, appVars, listVars
  <2>2. main_evt = "TX_COMPLETE"
    <3>1. notifying
      BY DEF FreshNotifies, CanNotify
    <3>2. main_evt # "none"
      BY <2>1 DEF LinkInv, EventAtHand
    <3> QED BY <1>1, <3>1, <3>2, Listening
  <2>3. CASE count = 0
    BY <2>1, <2>3 DEF HostOrList, EntryLeft
  <2>4. CASE count # 0
    <3>1. main_pc' = "copy"
      BY <1>7, <2>2, <2>4 DEF Dequeue, BUFFER_LIST_EMPTY, TxFlag
    <3> QED BY <1>1, <2>1, <2>4, <3>1 DEF EntryLeft, TypeOK
  <2> QED BY <2>3, <2>4
<1>8. CASE CopyByte
  <2>1. main_pc = "copy" /\ main_pc' \in {"copy", "send"}
    BY <1>8 DEF CopyByte, MainAt
  <2> QED
    BY <1>8, <2>1 DEF CopyByte, listVars, sdVars, appVars, irqVars, ghostVars,
                      HostOrList, EntryLeft, IrqIdle
<1>9. CASE MainSend
  <2> SUFFICES ASSUME fresh, ~raced, ~lapped
               PROVE  host' = keypad_state' \/ EntryLeft'
    BY <1>9 DEF HostOrList, MainSend, ghostVars, DequeueReturns, KeepHead,
                listVars
  <2>1. main_pc = "send" /\ UNCHANGED keypad_state /\ CanNotify
    BY <1>9 DEF MainSend, MainAt, appVars, FreshNotifies
  <2>2. CASE HvxResult(hids_handle) = "SUCCESS"
    <3>1. data = keypad_state
      BY <2>1, CopyIsKeypadState DEF disturbed
    <3> QED BY <1>9, <2>1, <2>2, <3>1 DEF MainSend, Accept
  <2>3. CASE HvxResult(hids_handle) = "NO_TX_PACKETS"
    <3>1. offset <= PatternLen /\ count > 0
      BY <1>1, <2>1 DEF TypeOK, CountInRange
    <3>2. KeepHead(offset) /\ MainIdle
      BY <1>9, <2>3, <3>1 DEF MainSend, DequeueReturns
    <3> QED BY <3>1, <3>2 DEF KeepHead, MainIdle, EntryLeft
  <2> QED BY <1>1, <2>1, <2>2, <2>3, ListeningAnswer
<1>10. CASE MainSendBootMode
  BY <1>10 DEF MainSendBootMode, ghostVars, FreshNotifies, CanNotify, HostOrList
<1>11. CASE Clear
  BY <1>11 DEF Clear, ClearHead, GoTo, MainAt, localVars, sdVars, appVars,
               irqVars, ghostVars, HostOrList, EntryLeft, IrqIdle
<1>12. CASE Load
  BY <1>12 DEF Load, MainAt, listVars, sdVars, appVars, irqVars, ghostVars,
               HostOrList, EntryLeft, IrqIdle
<1>13. CASE Store
  <2>1. /\ main_pc = "store" /\ count' = loaded - 1
        /\ main_pc' \in {"idle", "handle"}
        /\ UNCHANGED <<host, keypad_state, fresh, raced, lapped, irq_pc>>
    BY <1>13 DEF Store, RetireHead, DequeueDone, MainIdle, MainAt, sdVars,
                 appVars, irqVars, ghostVars
  <2> QED BY <1>1, <2>1 DEF HostOrList, EntryLeft, IrqIdle, TypeOK
<1>14. CASE HandleConnection \/ HandleHids
  <2>1. /\ main_pc \in {"handle", "hids"} /\ main_pc' \in {"hids", "idle"}
        /\ UNCHANGED <<host, keypad_state, count, fresh, raced, lapped, irq_pc>>
    BY <1>14 DEF HandleConnection, HandleHids, GoTo, MainIdle, MainAt, sdVars,
                 listVars, irqVars, ghostVars
  <2> QED BY <2>1 DEF HostOrList, EntryLeft, IrqIdle
<1>15. CASE Connect
  <2>1. ~fresh'
    <3>1. ~link /\ fresh' = fresh
      BY <1>15 DEF Connect, LinkUp
    <3> QED BY <3>1 DEF FreshNotifies, CanNotify
  <2> QED BY <2>1 DEF HostOrList
<1>16. CASE TxComplete \/ WriteProtocolMode \/ AdvertisingChanges
  <2>1. UNCHANGED <<host, fresh>> /\ Unchanged_App
    BY <1>16 DEF TxComplete, TransmitPackets, WriteProtocolMode,
                 AdvertisingChanges
  <2> QED
    BY <2>1, HostUntouched
    DEF Unchanged_App, listVars, mainVars, localVars, irqVars, appVars
<1>17. CASE Disconnect \/ Subscribe \/ Reset
  BY <1>17 DEF Disconnect, Subscribe, Reset, HostOrList
<1>18. CASE UNCHANGED vars
  BY <1>18, HostUntouched
  DEF vars, listVars, sdVars, mainVars, localVars, irqVars, appVars, ghostVars
<1> QED
  BY <1>2, <1>3, <1>4, <1>5, <1>6, <1>7, <1>8, <1>9, <1>10, <1>11, <1>12,
     <1>13, <1>14, <1>15, <1>16, <1>17, <1>18
  DEF Next, MainStep, IrqStep

LEMMA HostInvariant == Spec => [](DeliveryInv /\ LinkInv /\ HostInv)
<1>1. Init => HostInv
  BY DEF Init, HostInv, FreshNotifies, NoneStranded, RacedByIrq, HostOrList
<1>2. DeliveryInv /\ LinkInv /\ HostInv /\ [Next]_vars => HostInv'
  BY FreshNotifiesInductive, NoneStrandedInductive, RacedByIrqInductive,
     HostOrListInductive
  DEF HostInv, DeliveryInv, CountInv
<1> QED BY <1>1, <1>2, LinkInvariant, PTL DEF Spec

(***************************************************************************)
(* No entry of the list waits for a TX_COMPLETE that will not come         *)
(* (my_ble_connection.c:45-49, my_ble_services.c:205-211).                 *)
(***************************************************************************)
THEOREM NoKeysStranded == Spec => []NoStrandedKeys
<1>1. HostInv => NoStrandedKeys
  <2> SUFFICES ASSUME NoneStranded, fresh, count > 0, main_pc = "idle", IrqIdle
               PROVE  InFlight > 0 \/ Waits("TX_COMPLETE")
    BY DEF HostInv, NoStrandedKeys, Waits
  <2>1. ~Retrying
    BY DEF Retrying
  <2> QED BY <2>1 DEF NoneStranded
<1> QED BY <1>1, HostInvariant, PTL

(***************************************************************************)
(* The host is left with the present state of the keys: once nothing is    *)
(* pending, and unless a key change raced with the main loop's copy or the *)
(* list was overfilled, the last report it was sent is keypad_state        *)
(* (my_ble_services.c:148-221, my_ble_buffer.c:14-84, my_keypad.c:38-51).  *)
(***************************************************************************)
THEOREM HostHasTheKeys == Spec => []HostConverges
<1>1. HostInv => HostConverges
  BY DEF HostInv, HostOrList, HostConverges, AtRest, EntryLeft, IrqIdle
<1> QED BY <1>1, HostInvariant, PTL

=============================================================================
