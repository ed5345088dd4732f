------------------------------ MODULE LinkProofs ------------------------------
(***************************************************************************)
(* Links and their requests, for any numbers of links and events: an       *)
(* answer goes to the link that asked, no host waits for an answer that is *)
(* due, the negotiation asks a host so many times and no more, and a link  *)
(* serves what its security permits.                                       *)
(*                                                                         *)
(* The argument: advertising starts again when DISCONNECTED is handled, so *)
(* the queue never holds the events of two links, CONNECTED comes first in *)
(* it and DISCONNECTED last.  Of what keeps the negotiation going (the     *)
(* timer, its handler, a request, an update) a single thing is left once a *)
(* second course has given up: while there are more, the count of the      *)
(* negotiation covers the requests to the host.                            *)
(***************************************************************************)
EXTENDS Link, TLAPS

EventTypes == Requests \cup Timeouts
                \cup {"CONNECTED", "DISCONNECTED", "CONN_PARAM_UPDATE"}
LinkEvents == [evt : EventTypes, conn_handle : Links]

(* The types the argument needs.                                           *)
Types ==
  /\ links \in 0 .. MaxLinks
  /\ link \in {NoLink, links}
  /\ evts \in Seq(LinkEvents)
  /\ waiting \subseteq Requests

(* The events that wait are of one link, in an order.                      *)
QueueOfOneLink ==
  \A n \in 1 .. Len(evts) :
    /\ evts[n].conn_handle = links
    /\ evts[n].evt = "CONNECTED" => n = 1
    /\ evts[n].evt = "DISCONNECTED" => link = NoLink /\ n = Len(evts)

(* The handle is the one of the link, once CONNECTED has been handled.     *)
HandleOfLink ==
  /\ evts # <<>> => \/ Head(evts).evt = "CONNECTED"
                    \/ m_conn_handle = links
  /\ link # NoLink /\ evts = <<>> => m_conn_handle = links

(* Without a link DISCONNECTED waits last, or nothing does.                *)
EndOfLink ==
  link = NoLink /\ evts # <<>> => evts[Len(evts)].evt = "DISCONNECTED"

(* A request that waits for its answer is in the queue, unless it is for a *)
(* plain access or its link is being ended.                                *)
WaitingQueued ==
  /\ link = NoLink => waiting = {}
  /\ ~disconnecting => \A request \in waiting \ {"AUTHORIZE_ACCESS"} :
                         \E n \in 1 .. Len(evts) : evts[n].evt = request

LinkInv ==
  /\ Types /\ QueueOfOneLink /\ HandleOfLink /\ EndOfLink
  /\ (~fault => WaitingQueued)

LevelInv == level \in {OPEN, LevelOfPairing}

-----------------------------------------------------------------------------
(* A queue with one more event, and one without its head, by position.     *)
LEMMA QueueSteps ==
  ASSUME NEW S, NEW s \in Seq(S)
  PROVE  /\ \A e \in S :
              /\ Append(s, e) \in Seq(S)
              /\ Len(Append(s, e)) = Len(s) + 1
              /\ Append(s, e)[Len(s) + 1] = e
              /\ \A n \in 1 .. Len(s) : Append(s, e)[n] = s[n]
         /\ s # <<>> =>
              /\ Len(s) \in Nat \ {0}
              /\ Head(s) = s[1] /\ s[1] \in S
              /\ Tail(s) \in Seq(S) /\ Len(Tail(s)) = Len(s) - 1
              /\ \A n \in 1 .. Len(s) - 1 : Tail(s)[n] = s[n + 1]
<1>1. ASSUME NEW e \in S
      PROVE  /\ Append(s, e) \in Seq(S)
             /\ Len(Append(s, e)) = Len(s) + 1
             /\ Append(s, e)[Len(s) + 1] = e
             /\ \A n \in 1 .. Len(s) : Append(s, e)[n] = s[n]
  OBVIOUS
<1>2. ASSUME s # <<>>
      PROVE  /\ Len(s) \in Nat \ {0}
             /\ Head(s) = s[1] /\ s[1] \in S
             /\ Tail(s) \in Seq(S) /\ Len(Tail(s)) = Len(s) - 1
             /\ \A n \in 1 .. Len(s) - 1 : Tail(s)[n] = s[n + 1]
  BY <1>2
<1> QED BY <1>1, <1>2

(* A queue has no head only when it has no event.                          *)
LEMMA EmptyQueue ==
  ASSUME NEW S, NEW s \in Seq(S)
  PROVE  s = <<>> <=> Len(s) = 0
OBVIOUS

LEMMA InitLink == LinkInit => LinkInv /\ LevelInv
<1> SUFFICES ASSUME LinkInit PROVE LinkInv /\ LevelInv
  OBVIOUS
<1>1. Types
  BY RequestsAssumption DEF LinkInit, Init, Types, NoLink
<1>2. QueueOfOneLink /\ HandleOfLink /\ EndOfLink /\ WaitingQueued
  BY DEF LinkInit, Init, QueueOfOneLink, HandleOfLink, EndOfLink, WaitingQueued
<1>3. LevelInv
  BY DEF LinkInit, LevelInv
<1> QED BY <1>1, <1>2, <1>3 DEF LinkInv

(* An event of the link joins the queue, a request perhaps.                *)
LEMMA PostKeeps ==
  ASSUME LinkInv, ~fault, link # NoLink,
         NEW type \in EventTypes \ {"CONNECTED", "DISCONNECTED"},
         Post(type, link),
         UNCHANGED <<links, link, disconnecting, m_conn_handle>>,
         \/ waiting' = waiting
         \/ type \in Requests /\ waiting' = waiting \cup {type}
  PROVE  LinkInv'
<1> DEFINE e == [evt |-> type, conn_handle |-> link]
<1>1. link = links /\ e \in LinkEvents
  BY DEF LinkInv, Types, LinkEvents, Links, NoLink
<1>2. evts \in Seq(LinkEvents) /\ evts' = Append(evts, e)
  BY DEF LinkInv, Types, Post
<1>3. e.evt = type /\ e.conn_handle = links
  BY <1>1
<1> HIDE DEF e
<1>4. /\ evts' \in Seq(LinkEvents) /\ Len(evts') = Len(evts) + 1
      /\ evts'[Len(evts) + 1] = e
      /\ \A n \in 1 .. Len(evts) : evts'[n] = evts[n]
  BY <1>1, <1>2, QueueSteps
<1>5. Len(evts) \in Nat /\ (evts = <<>> <=> Len(evts) = 0)
  BY <1>2, EmptyQueue
<1>6. Types'
  BY <1>4 DEF LinkInv, Types
<1>7. QueueOfOneLink'
  <2> SUFFICES ASSUME NEW n \in 1 .. Len(evts) + 1
               PROVE  /\ evts'[n].conn_handle = links
                      /\ evts'[n].evt = "CONNECTED" => n = 1
                      /\ evts'[n].evt # "DISCONNECTED"
    BY <1>4 DEF QueueOfOneLink
  <2>1. CASE n \in 1 .. Len(evts)
    BY <1>4, <2>1 DEF LinkInv, QueueOfOneLink
  <2>2. CASE n = Len(evts) + 1
    BY <1>3, <1>4, <2>2
  <2> QED BY <1>5, <2>1, <2>2
<1>8. HandleOfLink'
  <2>1. evts' # <<>> /\ Head(evts') = evts'[1]
    BY <1>4, <1>5, QueueSteps, EmptyQueue
  <2>2. CASE evts = <<>>
    BY <1>5, <2>1, <2>2 DEF LinkInv, HandleOfLink
  <2>3. CASE evts # <<>>
    <3>1. Head(evts') = Head(evts)
      BY <1>2, <1>4, <1>5, <2>1, <2>3, QueueSteps
    <3> QED BY <2>1, <2>3, <3>1 DEF LinkInv, HandleOfLink
  <2> QED BY <2>2, <2>3
<1>9. EndOfLink'
  BY DEF EndOfLink
<1>10. WaitingQueued'
  <2>1. ASSUME ~disconnecting, NEW request \in waiting \ {"AUTHORIZE_ACCESS"}
        PROVE  \E n \in 1 .. Len(evts') : evts'[n].evt = request
    <3>1. PICK n \in 1 .. Len(evts) : evts[n].evt = request
      BY <2>1 DEF LinkInv, WaitingQueued
    <3>2. n \in 1 .. Len(evts') /\ evts'[n].evt = request
      BY <1>4, <1>5, <3>1
    <3> QED BY <3>2
  <2>2. \E n \in 1 .. Len(evts') : evts'[n].evt = type
    BY <1>3, <1>4, <1>5
  <2> QED BY <2>1, <2>2 DEF WaitingQueued
<1> QED BY <1>6, <1>7, <1>8, <1>9, <1>10 DEF LinkInv

(* An event of the link is handled; a request is answered, but as above.   *)
LEMMA TakeKeeps ==
  ASSUME LinkInv, ~fault, evts # <<>>, evts' = Tail(evts),
         Head(evts).evt \notin {"CONNECTED", "DISCONNECTED"},
         UNCHANGED <<links, link, m_conn_handle>>,
         waiting' \subseteq waiting, disconnecting => disconnecting',
         disconnecting' \/ Head(evts).evt \notin waiting' \ {"AUTHORIZE_ACCESS"}
  PROVE  LinkInv'
<1>1. evts \in Seq(LinkEvents)
  BY DEF LinkInv, Types
<1>2. /\ Len(evts) \in Nat \ {0} /\ Head(evts) = evts[1]
      /\ evts' \in Seq(LinkEvents) /\ Len(evts') = Len(evts) - 1
      /\ \A n \in 1 .. Len(evts) - 1 : evts'[n] = evts[n + 1]
  BY <1>1, QueueSteps
<1>3. Types'
  BY <1>2 DEF LinkInv, Types
<1>4. QueueOfOneLink'
  <2> SUFFICES ASSUME NEW n \in 1 .. Len(evts) - 1
               PROVE  /\ evts'[n].conn_handle = links
                      /\ evts'[n].evt # "CONNECTED"
                      /\ evts'[n].evt = "DISCONNECTED" =>
                           link = NoLink /\ n = Len(evts) - 1
    BY <1>2 DEF QueueOfOneLink
  <2>1. n + 1 \in 1 .. Len(evts) /\ n + 1 # 1 /\ evts'[n] = evts[n + 1]
    BY <1>2
  <2>2. /\ evts[n + 1].conn_handle = links
        /\ evts[n + 1].evt = "CONNECTED" => n + 1 = 1
        /\ evts[n + 1].evt = "DISCONNECTED" => link = NoLink /\ n + 1 = Len(evts)
    BY <2>1 DEF LinkInv, QueueOfOneLink
  <2>3. n + 1 = Len(evts) => n = Len(evts) - 1
    <3>1. n \in Int /\ Len(evts) \in Int
      BY <1>2
    <3> QED BY <3>1
  <2> QED BY <2>1, <2>2, <2>3
<1>5. HandleOfLink'
  BY DEF LinkInv, HandleOfLink
<1>6. EndOfLink'
  <2> SUFFICES ASSUME link = NoLink, evts' # <<>>
               PROVE  evts'[Len(evts')].evt = "DISCONNECTED"
    BY DEF EndOfLink
  <2>1. Len(evts) - 1 \in 1 .. Len(evts) - 1
    BY <1>2, EmptyQueue
  <2> QED BY <1>2, <2>1 DEF LinkInv, EndOfLink
<1>7. WaitingQueued'
  <2>1. ASSUME ~disconnecting', NEW request \in waiting' \ {"AUTHORIZE_ACCESS"}
        PROVE  \E n \in 1 .. Len(evts') : evts'[n].evt = request
    <3>1. PICK n \in 1 .. Len(evts) : evts[n].evt = request
      BY <2>1 DEF LinkInv, WaitingQueued
    <3>2. n # 1
      <4>1. evts[1].evt # request
        BY <1>2, <2>1
      <4> QED BY <3>1, <4>1
    <3>3. n - 1 \in 1 .. Len(evts) - 1 /\ (n - 1) + 1 = n
      BY <1>2, <3>1, <3>2
    <3> QED BY <1>2, <3>1, <3>3
  <2>2. link' = NoLink => waiting' = {}
    BY DEF WaitingQueued, LinkInv
  <2> QED BY <2>1, <2>2 DEF WaitingQueued
<1> QED BY <1>3, <1>4, <1>5, <1>6, <1>7 DEF LinkInv

(* Nothing of the queue, the link and its requests changes.                *)
LEMMA ElsewhereKeeps ==
  ASSUME LinkInv,
         UNCHANGED <<links, link, disconnecting, waiting, evts, m_conn_handle>>,
         fault => fault'
  PROVE  LinkInv'
<1>1. Types' /\ QueueOfOneLink' /\ HandleOfLink' /\ EndOfLink'
  BY DEF LinkInv, Types, QueueOfOneLink, HandleOfLink, EndOfLink
<1>2. ~fault' => WaitingQueued'
  BY DEF LinkInv, WaitingQueued
<1> QED BY <1>1, <1>2 DEF LinkInv

(* A link begins when the queue is empty.                                  *)
LEMMA ConnectKeeps ==
  ASSUME LinkInv, Connects
  PROVE  LinkInv' /\ evts = <<>> /\ link = NoLink
<1>1. evts \in Seq(LinkEvents) /\ link = NoLink
  BY DEF LinkInv, Types, Connects, Advertises
<1>2. evts = <<>>
  <2> SUFFICES ASSUME evts # <<>> PROVE FALSE
    OBVIOUS
  <2>1. Len(evts) \in 1 .. Len(evts)
    BY <1>1, QueueSteps
  <2> QED BY <1>1, <2>1 DEF LinkInv, EndOfLink, Connects, Advertises
<1>3. links' \in Links /\ link' = links'
  <2>1. links % MaxLinks \in 0 .. MaxLinks - 1
    BY RequestsAssumption DEF LinkInv, Types
  <2> QED BY <2>1, RequestsAssumption DEF Connects, Links
<1> DEFINE e == [evt |-> "CONNECTED", conn_handle |-> links']
<1>4. e \in LinkEvents
  BY <1>3 DEF LinkEvents, EventTypes
<1>5. evts' = <<e>>
  BY <1>2 DEF Connects, Post
<1>6. e.evt = "CONNECTED" /\ e.conn_handle = links'
  OBVIOUS
<1> HIDE DEF e
<1>7. evts' \in Seq(LinkEvents) /\ Len(evts') = 1 /\ evts'[1] = e /\ Head(evts') = e
  BY <1>4, <1>5
<1>8. Types' /\ link' # NoLink
  BY <1>3, <1>7 DEF Types, Connects, Links, NoLink
<1>9. QueueOfOneLink'
  BY <1>6, <1>7 DEF QueueOfOneLink
<1>10. HandleOfLink' /\ EndOfLink'
  BY <1>5, <1>6, <1>7, <1>8 DEF HandleOfLink, EndOfLink
<1>11. WaitingQueued'
  BY DEF WaitingQueued, Connects
<1> QED BY <1>1, <1>2, <1>8, <1>9, <1>10, <1>11 DEF LinkInv

(* A link ends, with DISCONNECTED last in the queue.                       *)
LEMMA EndKeeps ==
  ASSUME LinkInv, LinkEnds
  PROVE  LinkInv'
<1> DEFINE e == [evt |-> "DISCONNECTED", conn_handle |-> link]
<1>1. /\ link = links /\ links \in Links
      /\ UNCHANGED <<links, m_conn_handle>>
      /\ link' = NoLink /\ waiting' = {}
  BY DEF LinkInv, Types, LinkEnds, Links, NoLink
<1>2. e \in LinkEvents /\ e.evt = "DISCONNECTED" /\ e.conn_handle = links
  BY <1>1 DEF LinkEvents, EventTypes
<1>3. evts \in Seq(LinkEvents) /\ evts' = Append(evts, e)
  BY DEF LinkInv, Types, LinkEnds, Post
<1> HIDE DEF e
<1>4. /\ evts' \in Seq(LinkEvents) /\ Len(evts') = Len(evts) + 1
      /\ evts'[Len(evts) + 1] = e
      /\ \A n \in 1 .. Len(evts) : evts'[n] = evts[n]
  BY <1>2, <1>3, QueueSteps
<1>5. Len(evts) \in Nat /\ (evts = <<>> <=> Len(evts) = 0)
  BY <1>3, EmptyQueue
<1>6. Types' /\ EndOfLink' /\ WaitingQueued'
  BY <1>1, <1>2, <1>4 DEF LinkInv, Types, EndOfLink, WaitingQueued
<1>7. QueueOfOneLink'
  <2> SUFFICES ASSUME NEW n \in 1 .. Len(evts) + 1
               PROVE  /\ evts'[n].conn_handle = links
                      /\ evts'[n].evt = "CONNECTED" => n = 1
                      /\ evts'[n].evt = "DISCONNECTED" => n = Len(evts) + 1
    BY <1>1, <1>4 DEF QueueOfOneLink
  <2>1. CASE n \in 1 .. Len(evts)
    BY <1>4, <2>1 DEF LinkInv, QueueOfOneLink, LinkEnds
  <2>2. CASE n = Len(evts) + 1
    BY <1>2, <1>4, <2>2
  <2> QED BY <1>5, <2>1, <2>2
<1>8. HandleOfLink'
  <2> SUFFICES evts' # <<>> => Head(evts').evt = "CONNECTED" \/ m_conn_handle = links
    BY <1>1 DEF HandleOfLink
  <2>1. CASE evts = <<>>
    BY <2>1 DEF LinkInv, HandleOfLink, LinkEnds
  <2>2. CASE evts # <<>>
    <3>1. evts' # <<>> /\ Head(evts') = evts'[1] /\ Head(evts) = evts[1]
      BY <1>3, <1>4, <1>5, QueueSteps, EmptyQueue
    <3>2. Head(evts') = Head(evts)
      BY <1>4, <1>5, <2>2, <3>1
    <3> QED BY <2>2, <3>2 DEF LinkInv, HandleOfLink
  <2> QED BY <2>1, <2>2
<1> QED BY <1>6, <1>7, <1>8 DEF LinkInv

(* CONNECTED and DISCONNECTED are handled.                                 *)
LEMMA ConnectionKeeps ==
  ASSUME LinkInv, on_connection
  PROVE  /\ LinkInv'
         /\ Head(evts).evt = "DISCONNECTED" => link = NoLink /\ evts' = <<>>
<1>1. /\ evts \in Seq(LinkEvents) /\ evts # <<>> /\ evts' = Tail(evts)
      /\ Head(evts).evt \in {"CONNECTED", "DISCONNECTED"}
      /\ UNCHANGED <<links, link, disconnecting, waiting, fault>> /\ ~fault
  BY DEF LinkInv, Types, on_connection, NextIs, linkVars
<1>2. /\ Len(evts) \in Nat \ {0} /\ Head(evts) = evts[1]
      /\ evts' \in Seq(LinkEvents) /\ Len(evts') = Len(evts) - 1
      /\ \A n \in 1 .. Len(evts) - 1 : evts'[n] = evts[n + 1]
  BY <1>1, QueueSteps
<1>3. evts' = <<>> <=> Len(evts) = 1
  BY <1>2, EmptyQueue
<1>4. CASE Head(evts).evt = "DISCONNECTED"
  <2>1. link = NoLink /\ Len(evts) = 1
    BY <1>2, <1>4 DEF LinkInv, QueueOfOneLink
  <2>2. evts' = <<>>
    BY <1>3, <2>1
  <2>3. Types' /\ QueueOfOneLink' /\ HandleOfLink' /\ EndOfLink'
    BY <1>1, <1>2, <2>1, <2>2
    DEF LinkInv, Types, QueueOfOneLink, HandleOfLink, EndOfLink
  <2>4. WaitingQueued'
    BY <1>1, <2>1 DEF LinkInv, WaitingQueued
  <2> QED BY <2>1, <2>2, <2>3, <2>4 DEF LinkInv
<1>5. CASE Head(evts).evt = "CONNECTED"
  <2>1. m_conn_handle' = links
    <3>1. evts[1].conn_handle = links
      BY <1>2 DEF LinkInv, QueueOfOneLink
    <3> QED BY <1>2, <1>5, <3>1 DEF on_connection, ConnHandleAfter, Of
  <2>2. QueueOfOneLink'
    <3> SUFFICES ASSUME NEW n \in 1 .. Len(evts) - 1
                 PROVE  /\ evts'[n].conn_handle = links
                        /\ evts'[n].evt # "CONNECTED"
                        /\ evts'[n].evt = "DISCONNECTED" =>
                             link = NoLink /\ n = Len(evts) - 1
      BY <1>1, <1>2 DEF QueueOfOneLink
    <3>1. n + 1 \in 1 .. Len(evts) /\ n + 1 # 1 /\ evts'[n] = evts[n + 1]
      BY <1>2
    <3>2. /\ evts[n + 1].conn_handle = links
          /\ evts[n + 1].evt = "CONNECTED" => n + 1 = 1
          /\ evts[n + 1].evt = "DISCONNECTED" => link = NoLink /\ n + 1 = Len(evts)
      BY <3>1 DEF LinkInv, QueueOfOneLink
    <3>3. n + 1 = Len(evts) => n = Len(evts) - 1
      <4>1. n \in Int /\ Len(evts) \in Int
        BY <1>2
      <4> QED BY <4>1
    <3> QED BY <3>1, <3>2, <3>3
  <2>3. EndOfLink'
    <3> SUFFICES ASSUME link = NoLink, evts' # <<>>
                 PROVE  evts'[Len(evts')].evt = "DISCONNECTED"
      BY <1>1 DEF EndOfLink
    <3>1. Len(evts) - 1 \in 1 .. Len(evts) - 1
      BY <1>2, <1>3
    <3> QED BY <1>1, <1>2, <3>1 DEF LinkInv, EndOfLink
  <2>4. WaitingQueued'
    <3>1. ASSUME ~disconnecting, NEW request \in waiting \ {"AUTHORIZE_ACCESS"}
          PROVE  \E n \in 1 .. Len(evts') : evts'[n].evt = request
      <4>1. PICK n \in 1 .. Len(evts) : evts[n].evt = request
        BY <1>1, <3>1 DEF LinkInv, WaitingQueued
      <4>2. n # 1
        BY <1>2, <1>5, <4>1 DEF LinkInv, Types, Requests, GattRequests
      <4>3. n - 1 \in 1 .. Len(evts) - 1 /\ (n - 1) + 1 = n
        BY <1>2, <4>1, <4>2
      <4> QED BY <1>2, <4>1, <4>3
    <3> QED BY <1>1, <3>1 DEF WaitingQueued, LinkInv
  <2>5. Types' /\ HandleOfLink'
    BY <1>1, <1>2, <2>1 DEF LinkInv, Types, HandleOfLink
  <2> QED BY <1>5, <2>2, <2>3, <2>4, <2>5 DEF LinkInv
<1> QED BY <1>1, <1>4, <1>5

-----------------------------------------------------------------------------
(***************************************************************************)
(* The negotiation of connection parameters.                               *)
(***************************************************************************)
CpFlags == asked \in BOOLEAN /\ crossed \in BOOLEAN /\ polling \in BOOLEAN

CpTypes ==
  /\ CpFlags
  /\ cp_count \in 0 .. MAX_CONN_PARAMS_UPDATE_COUNT
  /\ timer \in {"off", "first", "next"}
  /\ timeout \in {"no", "queued", "behind"}
  /\ asks \in 0 .. 2 * MAX_CONN_PARAMS_UPDATE_COUNT

UpdateWaits == \E n \in 1 .. Len(evts) : evts[n].evt = "CONN_PARAM_UPDATE"

(* Between two links, and until CONNECTED is handled, it rests.            *)
Resting ==
  /\ link = NoLink /\ evts = <<>> =>
       cp_handle = BLE_CONN_HANDLE_INVALID /\ timer = "off"
  /\ evts # <<>> /\ Head(evts).evt = "CONNECTED" =>
       /\ cp_handle = BLE_CONN_HANDLE_INVALID /\ timer = "off"
       /\ asks = 0 /\ ~asked
  /\ link = NoLink => ~asked

(* While the host has a request, only the longer delay may run.            *)
AskedOnce ==
  /\ asked => cp_count > 0 /\ timer # "first" /\ timeout = "no"
  /\ timeout # "no" => timer = "off"

(* The negotiation has given up, and no event is to start it again.        *)
Spent ==
  /\ cp_count = 0 /\ ~asked /\ timer = "off" /\ timeout = "no"
  /\ ~UpdateWaits

(* The count of the negotiation covers the requests to the host.           *)
CountCovers ==
  /\ asks <= cp_count \/ Spent
  /\ timeout = "queued" /\ ~polling /\ UpdateWaits => asks = 0

(* A timer started beside the handler, and a request beside a timer.       *)
Beside ==
  /\ timeout # "no" => ~waited /\ (timer = "first" => cp_count = 0)
  /\ asked => cp_count > 0
  /\ asked /\ (timer = "first" \/ timeout # "no") => cp_count = 1

(* What keeps the negotiation going: the timer's handler, the timer, a     *)
(* request to the host, and an update that meets no timer just started.    *)
Goes(b) == IF b THEN 1 ELSE 0

UpdateGoes == UpdateWaits /\ (timer = "off" \/ waited)

Courses == Goes(timeout # "no") + Goes(timer # "off") + Goes(asked) + Goes(UpdateGoes)

(* The requests are covered by the count, and by the count of a course     *)
(* that has given up.                                                      *)
Budget ==
  asks <= IF Courses = 0 THEN 2 * MAX_CONN_PARAMS_UPDATE_COUNT
          ELSE IF Courses = 1 THEN MAX_CONN_PARAMS_UPDATE_COUNT + cp_count
          ELSE cp_count

CoursesInv == ~fault => Beside /\ (link # NoLink => Budget)

NegotiationInv ==
  /\ CpTypes /\ Resting
  /\ link # NoLink /\ ~crossed => AskedOnce /\ CountCovers

AsksInv ==
  /\ waited \in BOOLEAN
  /\ ~crossed => asks <= MAX_CONN_PARAMS_UPDATE_COUNT

-----------------------------------------------------------------------------
(* What a post and a dispatch do to the head of the queue and its updates. *)
LEMMA PostFacts ==
  ASSUME LinkInv, link # NoLink, NEW type \in EventTypes \ {"CONNECTED"},
         Post(type, link)
  PROVE  /\ evts' # <<>>
         /\ Head(evts').evt = "CONNECTED" =>
              evts # <<>> /\ Head(evts).evt = "CONNECTED"
         /\ UpdateWaits' => UpdateWaits \/ type = "CONN_PARAM_UPDATE"
<1> DEFINE e == [evt |-> type, conn_handle |-> link]
<1>1. e \in LinkEvents /\ e.evt = type
  BY DEF LinkInv, Types, LinkEvents, Links, NoLink
<1>2. evts \in Seq(LinkEvents) /\ evts' = Append(evts, e)
  BY DEF LinkInv, Types, Post
<1> HIDE DEF e
<1>3. /\ evts' \in Seq(LinkEvents) /\ Len(evts') = Len(evts) + 1
      /\ evts'[Len(evts) + 1] = e
      /\ \A n \in 1 .. Len(evts) : evts'[n] = evts[n]
  BY <1>1, <1>2, QueueSteps
<1>4. Len(evts) \in Nat /\ (evts = <<>> <=> Len(evts) = 0)
  BY <1>2, EmptyQueue
<1>5. evts' # <<>> /\ Head(evts') = evts'[1]
  BY <1>3, <1>4, QueueSteps, EmptyQueue
<1>6. CASE evts = <<>>
  BY <1>1, <1>3, <1>4, <1>5, <1>6 DEF UpdateWaits
<1>7. CASE evts # <<>>
  <2>1. Head(evts') = Head(evts)
    BY <1>2, <1>3, <1>4, <1>5, <1>7, QueueSteps
  <2>2. ASSUME NEW n \in 1 .. Len(evts'), evts'[n].evt = "CONN_PARAM_UPDATE"
        PROVE  UpdateWaits \/ type = "CONN_PARAM_UPDATE"
    <3>1. CASE n \in 1 .. Len(evts)
      BY <1>3, <2>2, <3>1 DEF UpdateWaits
    <3>2. CASE n = Len(evts) + 1
      BY <1>1, <1>3, <2>2, <3>2
    <3> QED BY <1>3, <1>4, <3>1, <3>2
  <2> QED BY <1>5, <1>7, <2>1, <2>2 DEF UpdateWaits
<1> QED BY <1>6, <1>7

LEMMA TakeFacts ==
  ASSUME LinkInv, evts # <<>>, evts' = Tail(evts)
  PROVE  /\ evts' # <<>> => Head(evts').evt # "CONNECTED"
         /\ UpdateWaits' => UpdateWaits
         /\ evts' = <<>> /\ link = NoLink => Head(evts).evt = "DISCONNECTED"
<1>1. evts \in Seq(LinkEvents)
  BY DEF LinkInv, Types
<1>2. /\ Len(evts) \in Nat \ {0} /\ Head(evts) = evts[1]
      /\ evts' \in Seq(LinkEvents) /\ Len(evts') = Len(evts) - 1
      /\ \A n \in 1 .. Len(evts) - 1 : evts'[n] = evts[n + 1]
  BY <1>1, QueueSteps
<1>3. evts' # <<>> => Head(evts').evt # "CONNECTED"
  <2> SUFFICES ASSUME evts' # <<>> PROVE Head(evts').evt # "CONNECTED"
    OBVIOUS
  <2>1. Head(evts') = evts'[1] /\ Len(evts') # 0
    BY <1>2, QueueSteps, EmptyQueue
  <2>2. 2 \in 1 .. Len(evts) /\ evts'[1] = evts[2]
    BY <1>2, <2>1
  <2> QED BY <2>1, <2>2 DEF LinkInv, QueueOfOneLink
<1>4. UpdateWaits' => UpdateWaits
  <2> SUFFICES ASSUME NEW n \in 1 .. Len(evts'), evts'[n].evt = "CONN_PARAM_UPDATE"
               PROVE  UpdateWaits
    BY DEF UpdateWaits
  <2>1. n + 1 \in 1 .. Len(evts) /\ evts'[n] = evts[n + 1]
    BY <1>2
  <2> QED BY <2>1 DEF UpdateWaits
<1>5. evts' = <<>> /\ link = NoLink => Head(evts).evt = "DISCONNECTED"
  <2>1. evts' = <<>> => Len(evts) = 1
    <3>1. evts' = <<>> => Len(evts) - 1 = 0
      BY <1>2, EmptyQueue
    <3>2. Len(evts) \in Int
      BY <1>2
    <3> QED BY <3>1, <3>2
  <2> QED BY <1>2, <2>1 DEF LinkInv, EndOfLink
<1> QED BY <1>3, <1>4, <1>5

LEMMA InitNegotiation == LinkInit => NegotiationInv
<1> SUFFICES ASSUME LinkInit PROVE NegotiationInv
  OBVIOUS
<1>1. CpTypes
  <2>1. CpFlags
    BY DEF LinkInit, CpFlags
  <2> QED BY <2>1 DEF LinkInit, CpTypes, MAX_CONN_PARAMS_UPDATE_COUNT
<1>2. Resting /\ link = NoLink
  BY DEF LinkInit, Init, Resting
<1> QED BY <1>1, <1>2 DEF NegotiationInv

LEMMA ConnectsNegotiation ==
  ASSUME LinkInv, NegotiationInv, LinkConnects
  PROVE  NegotiationInv'
<1>1. evts = <<>> /\ link = NoLink /\ link' # NoLink
  <2>1. Connects /\ Types'
    BY ConnectKeeps DEF LinkConnects, LinkInv
  <2>2. links' # NoLink
    <3>1. links % MaxLinks \in 0 .. MaxLinks - 1
      BY RequestsAssumption DEF LinkInv, Types
    <3> QED BY <2>1, <3>1, RequestsAssumption DEF Connects, NoLink
  <2> QED BY <2>1, <2>2, ConnectKeeps DEF Connects
<1>2. cp_handle = BLE_CONN_HANDLE_INVALID /\ timer = "off"
  BY <1>1 DEF NegotiationInv, Resting
<1>3. /\ asked' = FALSE /\ asks' = 0 /\ crossed' = FALSE
      /\ UNCHANGED <<polling, timeout, timer, cp_handle, cp_count>>
  BY DEF LinkConnects, cpVars
<1>4. CpTypes'
  <2>1. CpFlags'
    BY <1>3 DEF NegotiationInv, CpTypes, CpFlags
  <2> QED BY <1>3, <2>1 DEF NegotiationInv, CpTypes, MAX_CONN_PARAMS_UPDATE_COUNT
<1>5. Resting' /\ AskedOnce'
  BY <1>1, <1>2, <1>3 DEF Resting, AskedOnce
<1>6. CountCovers'
  BY <1>3, <1>4 DEF CountCovers, CpTypes
<1> QED BY <1>4, <1>5, <1>6 DEF NegotiationInv

LEMMA GoesNegotiation ==
  ASSUME LinkInv, NegotiationInv, LinkGoes
  PROVE  NegotiationInv'
<1>1. /\ link # NoLink /\ link' = NoLink /\ Post("DISCONNECTED", link)
      /\ asked' = FALSE
      /\ UNCHANGED <<polling, timeout, timer, cp_handle, cp_count, asks, crossed>>
  BY DEF LinkGoes, LinkEnds, cpVars
<1>2. /\ evts' # <<>>
      /\ Head(evts').evt = "CONNECTED" =>
           evts # <<>> /\ Head(evts).evt = "CONNECTED"
  BY <1>1, PostFacts DEF EventTypes
<1> QED BY <1>1, <1>2 DEF NegotiationInv, CpTypes, CpFlags, Resting

(* A request, a timeout or encryption.                                     *)
LEMMA ActsNegotiation ==
  ASSUME LinkInv, NegotiationInv, HostActs \/ HostEncrypts
  PROVE  NegotiationInv'
<1>1. UNCHANGED <<link, polling, timeout, timer, cp_handle, cp_count, asked, asks,
                  crossed>>
  BY DEF HostActs, HostEncrypts, HostRequests, TimesOut, cpVars, hostVars, vars,
         linkVars
<1>2. CASE evts' = evts
  BY <1>1, <1>2 DEF NegotiationInv, CpTypes, CpFlags, Resting, AskedOnce, CountCovers,
     Spent, UpdateWaits
<1>3. CASE \E type \in Requests \cup Timeouts : link # NoLink /\ Post(type, link)
  <2>1. PICK type \in Requests \cup Timeouts : link # NoLink /\ Post(type, link)
    BY <1>3
  <2>2. type \in EventTypes \ {"CONNECTED", "CONN_PARAM_UPDATE"}
    BY <2>1 DEF EventTypes, Requests, GattRequests, Timeouts
  <2>3. /\ evts' # <<>>
        /\ Head(evts').evt = "CONNECTED" =>
             evts # <<>> /\ Head(evts).evt = "CONNECTED"
        /\ UpdateWaits' => UpdateWaits
    BY <2>1, <2>2, PostFacts
  <2> HIDE DEF UpdateWaits
  <2> QED BY <1>1, <2>1, <2>3 DEF NegotiationInv, CpTypes, CpFlags, Resting, AskedOnce,
          CountCovers, Spent
<1> QED BY <1>2, <1>3 DEF HostActs, HostEncrypts, HostRequests, TimesOut, vars

(* The parameters change, as asked for or of the host's own accord.        *)
LEMMA ChangeNegotiation ==
  ASSUME LinkInv, NegotiationInv, HostAnswers \/ HostUpdates
  PROVE  NegotiationInv'
<1>1. /\ link # NoLink /\ Post("CONN_PARAM_UPDATE", link)
      /\ UNCHANGED <<link, polling, timeout, timer, cp_handle, cp_count, crossed>>
  BY DEF HostAnswers, HostUpdates, ParamsChange, cpVars, linkVars
<1>2. /\ evts' # <<>>
      /\ Head(evts').evt = "CONNECTED" =>
           evts # <<>> /\ Head(evts).evt = "CONNECTED"
  BY <1>1, PostFacts DEF EventTypes
<1>3. CASE HostAnswers
  <2>1. asked /\ asked' = FALSE /\ asks' = asks
    BY <1>3 DEF HostAnswers
  <2> QED BY <1>1, <1>2, <2>1 DEF NegotiationInv, CpTypes, CpFlags, Resting, AskedOnce,
          CountCovers, Spent
<1>4. CASE HostUpdates
  <2>1. asks' = 0 /\ asked' = asked
    BY <1>4 DEF HostUpdates
  <2> QED BY <1>1, <1>2, <2>1 DEF NegotiationInv, CpTypes, CpFlags, Resting, AskedOnce,
          CountCovers, MAX_CONN_PARAMS_UPDATE_COUNT
<1> QED BY <1>3, <1>4

(* A dispatch that leaves the negotiation alone.                           *)
LEMMA RequestNegotiation ==
  ASSUME LinkInv, NegotiationInv, DispatchRequest
  PROVE  NegotiationInv'
<1>1. /\ evts # <<>> /\ evts' = Tail(evts)
      /\ Head(evts).evt \in Requests \cup Timeouts
      /\ polling' = TRUE
      /\ UNCHANGED <<link, timeout, timer, cp_handle, cp_count, asked, asks, crossed>>
  BY DEF DispatchRequest, on_request, on_timeout, Answer, NextIs, Dispatches,
         cpVars, linkVars
<1>2. Head(evts).evt # "DISCONNECTED"
  BY <1>1 DEF Requests, GattRequests, Timeouts
<1>3. /\ evts' # <<>> => Head(evts').evt # "CONNECTED"
      /\ UpdateWaits' => UpdateWaits
      /\ ~(evts' = <<>> /\ link = NoLink)
  BY <1>1, <1>2, TakeFacts
<1> HIDE DEF UpdateWaits
<1> QED BY <1>1, <1>3 DEF NegotiationInv, CpTypes, CpFlags, Resting, AskedOnce,
        CountCovers, Spent

LEMMA UpdateNegotiation ==
  ASSUME LinkInv, NegotiationInv, DispatchUpdate
  PROVE  NegotiationInv'
<1>1. /\ evts # <<>> /\ evts' = Tail(evts)
      /\ Head(evts).evt = "CONN_PARAM_UPDATE"
      /\ polling' = TRUE
      /\ UNCHANGED <<link, timeout, cp_handle, asked, asks>>
  BY DEF DispatchUpdate, NextIs, Dispatches, linkVars
<1>2. PICK good \in BOOLEAN : Negotiate(cp_count, good)
  BY DEF DispatchUpdate
<1>3. /\ cp_count' = cp_count /\ crossed' = (crossed \/ timeout # "no")
      /\ timer' = IF good \/ timer # "off" THEN timer
                  ELSE IF cp_count = 0 THEN "first" ELSE "next"
  BY <1>2 DEF Negotiate
<1>4. /\ evts' # <<>> => Head(evts').evt # "CONNECTED"
      /\ UpdateWaits' => UpdateWaits
      /\ ~(evts' = <<>> /\ link = NoLink)
  BY <1>1, TakeFacts
<1>5. CpTypes' /\ Resting'
  BY <1>1, <1>3, <1>4 DEF NegotiationInv, CpTypes, CpFlags, Resting
<1>6. UpdateWaits
  <2>1. evts \in Seq(LinkEvents)
    BY DEF LinkInv, Types
  <2>2. 1 \in 1 .. Len(evts) /\ Head(evts) = evts[1]
    BY <1>1, <2>1, QueueSteps
  <2> QED BY <1>1, <2>2 DEF UpdateWaits
<1>7. ASSUME link' # NoLink, ~crossed'
      PROVE  AskedOnce' /\ CountCovers'
  <2>1. timeout = "no" /\ AskedOnce /\ CountCovers
    BY <1>1, <1>3, <1>7 DEF NegotiationInv, CpTypes, CpFlags
  <2>2. AskedOnce'
    BY <1>1, <1>3, <2>1 DEF AskedOnce, NegotiationInv, CpTypes, CpFlags
  <2>3. CountCovers'
    BY <1>1, <1>3, <1>6, <2>1 DEF CountCovers, Spent
  <2> QED BY <2>2, <2>3
<1> QED BY <1>5, <1>7 DEF NegotiationInv

LEMMA ConnectionNegotiation ==
  ASSUME LinkInv, NegotiationInv, DispatchConnection
  PROVE  NegotiationInv'
<1>1. /\ evts # <<>> /\ evts' = Tail(evts)
      /\ Head(evts).evt \in {"CONNECTED", "DISCONNECTED"}
      /\ polling' = TRUE
      /\ UNCHANGED <<link, timeout, asked, asks>>
  BY DEF DispatchConnection, on_connection, NextIs, Dispatches, linkVars
<1>2. evts' # <<>> => Head(evts').evt # "CONNECTED"
  BY <1>1, TakeFacts
<1>3. CASE Head(evts).evt = "CONNECTED"
  <2>1. PICK good \in BOOLEAN : Negotiate(0, good)
    BY <1>3 DEF DispatchConnection
  <2>2. /\ cp_count' = 0 /\ crossed' = (crossed \/ timeout # "no")
        /\ timer' = IF good \/ timer # "off" THEN timer ELSE "first"
    BY <2>1 DEF Negotiate
  <2>3. asks = 0 /\ ~asked
    BY <1>1, <1>3 DEF NegotiationInv, Resting
  <2>4. ~(evts' = <<>> /\ link = NoLink)
    BY <1>1, <1>3, TakeFacts
  <2>5. CpTypes' /\ Resting'
    BY <1>1, <1>2, <2>2, <2>3, <2>4
    DEF NegotiationInv, CpTypes, CpFlags, Resting, MAX_CONN_PARAMS_UPDATE_COUNT
  <2>6. ASSUME ~crossed' PROVE AskedOnce' /\ CountCovers'
    <3>1. timeout = "no"
      BY <2>2, <2>6
    <3>2. ~asked' /\ timeout' = "no" /\ asks' = 0 /\ cp_count' = 0
      BY <1>1, <2>2, <2>3, <3>1
    <3> QED BY <3>2 DEF AskedOnce, CountCovers
  <2> QED BY <2>5, <2>6 DEF NegotiationInv
<1>4. CASE Head(evts).evt = "DISCONNECTED"
  <2>1. /\ cp_handle' = BLE_CONN_HANDLE_INVALID /\ cp_count' = 0
        /\ timer' = "off" /\ crossed' = crossed
    BY <1>4 DEF DispatchConnection, OnDisconnected
  <2>2. link = NoLink
    BY <1>4, ConnectionKeeps DEF DispatchConnection
  <2> QED
    BY <1>1, <1>2, <2>1, <2>2
    DEF NegotiationInv, CpTypes, CpFlags, Resting, MAX_CONN_PARAMS_UPDATE_COUNT
<1> QED BY <1>1, <1>3, <1>4

(* A poll ends, the main loop waits, or the timer expires.                 *)
LEMMA WaitsNegotiation ==
  ASSUME NegotiationInv, PollEnds \/ MainWaits \/ TimerExpires
  PROVE  NegotiationInv'
<1>1. UNCHANGED <<link, evts, cp_handle, cp_count, asked, asks, crossed>>
  BY DEF PollEnds, MainWaits, TimerExpires, vars, linkVars, cpVars, hostVars
<1>2. UpdateWaits' <=> UpdateWaits
  BY <1>1 DEF UpdateWaits
<1>3. evts = <<>> => ~UpdateWaits
  BY DEF UpdateWaits
<1> HIDE DEF UpdateWaits
<1>4. CASE PollEnds
  <2>1. /\ evts = <<>> /\ polling' = FALSE /\ timer' = timer
        /\ timeout' = IF timeout = "behind" THEN "queued" ELSE timeout
    BY <1>4 DEF PollEnds, cpVars
  <2> QED BY <1>1, <1>2, <1>3, <2>1
          DEF NegotiationInv, CpTypes, CpFlags, Resting, AskedOnce, CountCovers, Spent
<1>5. CASE MainWaits
  <2>1. UNCHANGED <<polling, timeout, timer>>
    BY <1>5 DEF MainWaits
  <2> QED BY <1>1, <1>2, <2>1
          DEF NegotiationInv, CpTypes, CpFlags, Resting, AskedOnce, CountCovers, Spent
<1>6. CASE TimerExpires
  <2>1. /\ timer # "off" /\ (timer = "next" => ~asked)
        /\ timer' = "off" /\ polling' = polling
        /\ timeout' = IF ~polling /\ evts # <<>> THEN "behind" ELSE "queued"
    BY <1>6 DEF TimerExpires
  <2> QED BY <1>1, <1>2, <1>3, <2>1
          DEF NegotiationInv, CpTypes, CpFlags, Resting, AskedOnce, CountCovers, Spent
<1> QED BY <1>4, <1>5, <1>6

(* A request that the SoftDevice takes is the only one.                    *)
LEMMA TimeoutNegotiation ==
  ASSUME NegotiationInv, CoursesInv, update_timeout_handler
  PROVE  NegotiationInv'
<1>1. /\ timeout = "queued" /\ ~polling /\ timeout' = "no"
      /\ UNCHANGED <<link, evts, polling, timer, cp_handle, crossed>>
  BY DEF update_timeout_handler, linkVars
<1>2. UpdateWaits' <=> UpdateWaits
  BY <1>1 DEF UpdateWaits
<1> HIDE DEF UpdateWaits
<1>3. CASE UNCHANGED <<cp_count, asked, asks>>
  BY <1>1, <1>2, <1>3
  DEF NegotiationInv, CpTypes, CpFlags, Resting, AskedOnce, CountCovers, Spent
<1>4. CASE /\ cp_handle # BLE_CONN_HANDLE_INVALID
           /\ cp_count < MAX_CONN_PARAMS_UPDATE_COUNT /\ Ask
  <2>1. /\ cp_count' = cp_count + 1
        /\ asked' = (asked \/ UpdateStatus = "NRF_SUCCESS")
        /\ asks' = IF UpdateStatus = "NRF_SUCCESS" /\ asks < MaxAsks
                     THEN asks + 1 ELSE asks
    BY <1>4 DEF Ask
  <2>2. UpdateStatus = "NRF_SUCCESS" => link # NoLink
    BY DEF UpdateStatus, Status
  <2>4. CpTypes'
    <3>1. /\ cp_count \in 0 .. 2 /\ asks \in 0 .. 6
          /\ cp_count' \in 0 .. MAX_CONN_PARAMS_UPDATE_COUNT
      BY <1>4, <2>1 DEF NegotiationInv, CpTypes, MAX_CONN_PARAMS_UPDATE_COUNT
    <3>2. UpdateStatus = "NRF_SUCCESS" => asks < 2 * MAX_CONN_PARAMS_UPDATE_COUNT
      <4>1. Courses # 0
        BY <1>1 DEF Courses, Goes
      <4>2. UpdateStatus = "NRF_SUCCESS" => Budget
        BY <2>2 DEF update_timeout_handler, CoursesInv
      <4> QED BY <3>1, <4>1, <4>2 DEF Budget, MAX_CONN_PARAMS_UPDATE_COUNT
    <3>3. asks' \in 0 .. 2 * MAX_CONN_PARAMS_UPDATE_COUNT
      BY <2>1, <3>1, <3>2 DEF MAX_CONN_PARAMS_UPDATE_COUNT
    <3>4. CpFlags'
      BY <1>1, <2>1 DEF NegotiationInv, CpTypes, CpFlags, update_timeout_handler
    <3> QED BY <1>1, <3>1, <3>3, <3>4 DEF NegotiationInv, CpTypes
  <2>5. Resting'
    BY <1>1, <1>4, <2>1, <2>2 DEF NegotiationInv, Resting
  <2>6. ASSUME link # NoLink, ~crossed PROVE AskedOnce' /\ CountCovers'
    <3>1. AskedOnce /\ asks <= cp_count
      BY <1>1, <2>6 DEF NegotiationInv, CountCovers, Spent
    <3>2. cp_count \in Nat /\ asks \in Nat
      BY DEF NegotiationInv, CpTypes, CpFlags, MAX_CONN_PARAMS_UPDATE_COUNT
    <3>3. AskedOnce'
      BY <1>1, <2>1, <3>1, <3>2 DEF AskedOnce
    <3>4. CountCovers'
      BY <1>1, <2>1, <3>1, <3>2 DEF CountCovers
    <3> QED BY <3>3, <3>4
  <2> QED BY <1>1, <2>4, <2>5, <2>6 DEF NegotiationInv
<1>5. CASE GiveUp
  <2>1. cp_count' = 0 /\ UNCHANGED <<asked, asks>>
    BY <1>5 DEF GiveUp
  <2>2. CpTypes' /\ Resting'
    BY <1>1, <2>1 DEF NegotiationInv, CpTypes, CpFlags, Resting, MAX_CONN_PARAMS_UPDATE_COUNT
  <2>3. ASSUME link # NoLink, ~crossed PROVE AskedOnce' /\ CountCovers'
    <3>1. ~asked /\ timer = "off" /\ (UpdateWaits => asks = 0)
      BY <1>1, <2>3 DEF NegotiationInv, AskedOnce, CountCovers
    <3> QED BY <1>1, <1>2, <2>1, <3>1 DEF AskedOnce, CountCovers, Spent
  <2> QED BY <1>1, <2>2, <2>3 DEF NegotiationInv
<1> QED BY <1>3, <1>4, <1>5 DEF update_timeout_handler

LEMMA ResetNegotiation ==
  ASSUME LinkResets
  PROVE  NegotiationInv'
<1>1. CpTypes'
  <2>1. CpFlags'
    BY DEF LinkResets, CpFlags
  <2> QED BY <2>1 DEF LinkResets, CpTypes, MAX_CONN_PARAMS_UPDATE_COUNT
<1>2. Resting' /\ link' = NoLink
  BY DEF LinkResets, Reset, Resting
<1> QED BY <1>1, <1>2 DEF NegotiationInv

-----------------------------------------------------------------------------
(***************************************************************************)
(* The courses of the negotiation.                                         *)
(***************************************************************************)
LEMMA CoursesCount == Courses \in 0 .. 4 /\ Courses' \in 0 .. 4
BY DEF Courses, Goes

(* A host that has not been asked leaves room for two courses.             *)
LEMMA FreshBudget ==
  ASSUME CpTypes', asks' = 0
  PROVE  Budget'
<1>1. ASSUME NEW n \in 0 .. MAX_CONN_PARAMS_UPDATE_COUNT
      PROVE  /\ 0 <= 2 * MAX_CONN_PARAMS_UPDATE_COUNT /\ 0 <= n
             /\ 0 <= MAX_CONN_PARAMS_UPDATE_COUNT + n
  BY DEF MAX_CONN_PARAMS_UPDATE_COUNT
<1>2. cp_count' \in 0 .. MAX_CONN_PARAMS_UPDATE_COUNT
  BY DEF CpTypes
<1> QED BY <1>1, <1>2 DEF Budget

(* Courses give way to others, no more of them.                            *)
LEMMA BudgetKept ==
  ASSUME CpTypes, CpTypes', Budget, asks' = asks, cp_count' = cp_count,
         Courses' <= Courses
  PROVE  Budget'
BY CoursesCount DEF CpTypes, Budget, MAX_CONN_PARAMS_UPDATE_COUNT

LEMMA InitCourses == LinkInit => CoursesInv /\ AsksInv
<1> SUFFICES ASSUME LinkInit PROVE CoursesInv /\ AsksInv
  OBVIOUS
<1>1. /\ link = NoLink /\ timeout = "no" /\ waited = FALSE
      /\ asked = FALSE /\ asks = 0
  BY DEF LinkInit, Init, NoLink
<1>2. CoursesInv
  BY <1>1 DEF CoursesInv, Beside
<1>3. AsksInv
  <2>1. waited \in BOOLEAN
    BY <1>1
  <2>2. asks <= MAX_CONN_PARAMS_UPDATE_COUNT
    BY <1>1 DEF MAX_CONN_PARAMS_UPDATE_COUNT
  <2> QED BY <2>1, <2>2 DEF AsksInv
<1> QED BY <1>2, <1>3

(* The link and its host.                                                  *)
LEMMA HostCourses ==
  ASSUME LinkInv, NegotiationInv, NegotiationInv', AsksInv, CoursesInv,
         \/ LinkConnects \/ LinkGoes \/ HostActs \/ HostEncrypts
         \/ HostAnswers \/ HostUpdates
  PROVE  CoursesInv'
<1>1. /\ ~fault /\ Beside /\ (link # NoLink => Budget)
      /\ CpTypes /\ CpTypes'
      /\ UNCHANGED <<timeout, timer, waited, cp_count>>
  BY DEF LinkConnects, Connects, LinkGoes, LinkEnds, HostActs, HostRequests, TimesOut,
     HostEncrypts, HostAnswers, HostUpdates, ParamsChange, CoursesInv, cpVars,
     NegotiationInv
<1>2. asked' => asked
  BY DEF LinkConnects, LinkGoes, HostActs, HostEncrypts, HostAnswers, HostUpdates,
     hostVars
<1>3. Beside'
  BY <1>1, <1>2 DEF Beside
<1>4. CASE LinkConnects \/ HostUpdates
  BY <1>1, <1>3, <1>4, FreshBudget DEF LinkConnects, HostUpdates, CoursesInv
<1>5. CASE LinkGoes
  BY <1>3, <1>5 DEF LinkGoes, LinkEnds, CoursesInv
<1>6. CASE HostActs \/ HostEncrypts
  <2>1. asks' = asks /\ asked' = asked
    BY <1>6 DEF HostActs, HostEncrypts, hostVars
  <2>2. UpdateWaits' => UpdateWaits
    <3>1. CASE evts' = evts
      BY <3>1 DEF UpdateWaits
    <3>2. ASSUME NEW type \in Requests \cup Timeouts, link # NoLink, Post(type, link)
          PROVE  UpdateWaits' => UpdateWaits
      BY <3>2, PostFacts DEF EventTypes, Requests, GattRequests, Timeouts
    <3> QED BY <1>6, <3>1, <3>2
            DEF HostActs, HostEncrypts, HostRequests, TimesOut, vars
  <2>3. Courses' <= Courses
    BY <1>1, <2>1, <2>2 DEF Courses, Goes, UpdateGoes
  <2>4. link' = link
    BY <1>6 DEF HostActs, HostEncrypts, HostRequests, TimesOut, vars, linkVars
  <2> QED BY <1>1, <1>3, <2>1, <2>3, <2>4, BudgetKept DEF CoursesInv
<1>7. CASE HostAnswers
  <2>1. asked /\ ~asked' /\ asks' = asks /\ link # NoLink
    BY <1>7 DEF HostAnswers, ParamsChange
  <2>2. Courses' <= Courses
    BY <1>1, <2>1 DEF Courses, Goes
  <2> QED BY <1>1, <1>3, <2>1, <2>2, BudgetKept DEF CoursesInv
<1> QED BY <1>4, <1>5, <1>6, <1>7

(* The main loop handles an event.  An update starts the timer, or finds   *)
(* it running.                                                             *)
LEMMA DispatchCourses ==
  ASSUME LinkInv, NegotiationInv, NegotiationInv', AsksInv, CoursesInv,
         DispatchConnection \/ DispatchRequest \/ DispatchUpdate
  PROVE  CoursesInv'
<1>1. /\ ~fault /\ Beside /\ (link # NoLink => Budget)
      /\ CpTypes /\ CpTypes'
      /\ evts # <<>> /\ evts' = Tail(evts)
      /\ UNCHANGED <<link, timeout, asked, asks>>
  BY DEF DispatchConnection, on_connection, DispatchRequest, on_request, on_timeout,
     Answer, DispatchUpdate, Dispatches, NextIs, linkVars, CoursesInv, NegotiationInv
<1>2. UpdateWaits' => UpdateWaits
  BY <1>1, TakeFacts
<1>3. CASE DispatchRequest
  <2>1. UNCHANGED <<timer, waited, cp_count>>
    BY <1>3 DEF DispatchRequest, cpVars
  <2>2. Courses' <= Courses
    BY <1>1, <1>2, <2>1 DEF Courses, Goes, UpdateGoes
  <2>3. Beside'
    BY <1>1, <2>1 DEF Beside
  <2> QED BY <1>1, <2>1, <2>2, <2>3, BudgetKept DEF CoursesInv
<1>4. CASE DispatchUpdate
  <2>1. /\ cp_count' = cp_count /\ waited' = (waited /\ timer # "off")
        /\ timer # "off" => timer' = timer
        /\ timer = "off" => timer' \in {"off", IF cp_count = 0 THEN "first" ELSE "next"}
    BY <1>4 DEF DispatchUpdate, Negotiate
  <2>2. UpdateWaits
    <3>1. evts \in Seq(LinkEvents)
      BY DEF LinkInv, Types
    <3>2. 1 \in 1 .. Len(evts) /\ Head(evts) = evts[1]
      BY <1>1, <3>1, QueueSteps
    <3> QED BY <1>4, <3>2 DEF UpdateWaits, DispatchUpdate, NextIs
  <2>3. Courses' <= Courses
    <3>1. CASE timer # "off"
      BY <1>1, <1>2, <2>1, <2>2, <3>1 DEF Courses, Goes, UpdateGoes, AsksInv
    <3>2. CASE timer = "off" /\ timer' = "off"
      BY <1>1, <1>2, <2>1, <2>2, <3>2 DEF Courses, Goes, UpdateGoes
    <3>3. CASE timer = "off" /\ timer' # "off"
      <4>1. UpdateGoes /\ ~UpdateGoes'
        BY <2>1, <2>2, <3>3 DEF UpdateGoes
      <4> QED BY <1>1, <3>3, <4>1 DEF Courses, Goes
    <3> QED BY <3>1, <3>2, <3>3
  <2>4. Beside'
    <3>1. CASE timer # "off"
      BY <1>1, <2>1, <3>1 DEF Beside, AsksInv
    <3>2. CASE timer = "off"
      <4>1. ~waited' /\ (timer' = "first" => cp_count = 0)
        BY <2>1, <3>2
      <4> QED BY <1>1, <2>1, <4>1 DEF Beside, CpTypes, MAX_CONN_PARAMS_UPDATE_COUNT
    <3> QED BY <3>1, <3>2
  <2> QED BY <1>1, <2>1, <2>3, <2>4, BudgetKept DEF CoursesInv
<1>5. CASE DispatchConnection /\ Head(evts).evt = "CONNECTED"
  <2>1. PICK good \in BOOLEAN : Negotiate(0, good)
    BY <1>5 DEF DispatchConnection
  <2>2. asks = 0 /\ ~asked
    BY <1>1, <1>5 DEF NegotiationInv, Resting
  <2>3. Beside'
    BY <1>1, <2>1, <2>2 DEF Beside, Negotiate, CpTypes, CpFlags
  <2> QED BY <1>1, <2>2, <2>3, FreshBudget DEF CoursesInv
<1>6. CASE DispatchConnection /\ Head(evts).evt = "DISCONNECTED"
  <2>1. link = NoLink
    BY <1>6, ConnectionKeeps DEF DispatchConnection
  <2>2. ~asked' /\ timer' = "off" /\ waited' = FALSE
    BY <1>1, <1>6, <2>1 DEF DispatchConnection, OnDisconnected, NegotiationInv, Resting
  <2> QED BY <1>1, <2>1, <2>2 DEF Beside, CoursesInv
<1> QED BY <1>3, <1>4, <1>5, <1>6 DEF DispatchConnection, on_connection, NextIs

(* The timer: it expires, and its handler asks the host or gives up.       *)
LEMMA TimerCourses ==
  ASSUME NegotiationInv, NegotiationInv', CoursesInv,
         PollEnds \/ MainWaits \/ TimerExpires \/ update_timeout_handler
  PROVE  CoursesInv'
<1>1. /\ ~fault /\ Beside /\ (link # NoLink => Budget)
      /\ CpTypes /\ CpTypes'
      /\ UNCHANGED <<link, evts>>
  BY DEF PollEnds, MainWaits, TimerExpires, update_timeout_handler, vars, linkVars,
     CoursesInv, NegotiationInv
<1>2. /\ UpdateWaits' <=> UpdateWaits
      /\ evts = <<>> => ~UpdateWaits
  BY <1>1 DEF UpdateWaits
<1>3. CASE PollEnds
  <2>1. /\ UNCHANGED <<timer, waited, cp_count, asked, asks>>
        /\ timeout' # "no" <=> timeout # "no"
    BY <1>3 DEF PollEnds, cpVars, hostVars
  <2>2. Courses' <= Courses
    BY <1>1, <1>2, <2>1 DEF Courses, Goes, UpdateGoes
  <2>3. Beside'
    BY <1>1, <2>1 DEF Beside
  <2> QED BY <1>1, <2>1, <2>2, <2>3, BudgetKept DEF CoursesInv
<1>4. CASE MainWaits
  <2>1. /\ UNCHANGED <<timeout, timer, cp_count, asked, asks>>
        /\ evts = <<>> /\ timeout = "no"
    BY <1>4 DEF MainWaits, Idle, hostVars
  <2>2. Courses' <= Courses
    BY <1>1, <1>2, <2>1 DEF Courses, Goes, UpdateGoes
  <2>3. Beside'
    BY <1>1, <2>1 DEF Beside
  <2> QED BY <1>1, <2>1, <2>2, <2>3, BudgetKept DEF CoursesInv
<1>5. CASE TimerExpires
  <2>1. /\ UNCHANGED <<cp_count, asked, asks>>
        /\ timer # "off" /\ waited /\ (timer = "next" => ~asked)
        /\ timer' = "off" /\ ~waited' /\ timeout' # "no"
    BY <1>5 DEF TimerExpires, hostVars
  <2>2. Courses' <= Courses
    BY <1>1, <1>2, <2>1 DEF Courses, Goes, UpdateGoes
  <2>3. Beside'
    BY <1>1, <2>1 DEF Beside, CpTypes
  <2> QED BY <1>1, <2>1, <2>2, <2>3, BudgetKept DEF CoursesInv
<1>6. CASE update_timeout_handler
  <2>1. /\ UNCHANGED <<timer, waited>> /\ timeout = "queued" /\ timeout' = "no"
        /\ UpdateGoes' <=> UpdateGoes
    BY <1>2, <1>6 DEF update_timeout_handler, UpdateGoes
  <2>2. CASE UNCHANGED <<cp_count, asked, asks>>
    <3>1. Courses' <= Courses
      BY <2>1, <2>2 DEF Courses, Goes
    <3>2. Beside'
      BY <1>1, <2>1, <2>2 DEF Beside
    <3> QED BY <1>1, <2>2, <3>1, <3>2, BudgetKept DEF CoursesInv
  <2>3. CASE Ask /\ UpdateStatus # "NRF_SUCCESS"
    BY <2>3 DEF Ask, conn_params_error_handler, Check, CoursesInv
  <2>4. CASE Ask /\ UpdateStatus = "NRF_SUCCESS"
    <3>1. /\ ~asked /\ asked' /\ cp_count' = cp_count + 1 /\ link # NoLink
          /\ asks' \in {asks, asks + 1}
      BY <2>4 DEF Ask, UpdateStatus, Status
    <3>2. Courses' = Courses
      BY <2>1, <3>1 DEF Courses, Goes
    <3>3. Budget'
      <4>1. Courses >= 1
        BY <2>1 DEF Courses, Goes
      <4> QED BY <1>1, <3>1, <3>2, <4>1, CoursesCount
              DEF Budget, CpTypes, MAX_CONN_PARAMS_UPDATE_COUNT
    <3>4. Beside'
      BY <1>1, <2>1, <3>1 DEF Beside, CpTypes, MAX_CONN_PARAMS_UPDATE_COUNT
    <3> QED BY <3>3, <3>4 DEF CoursesInv
  <2>5. CASE GiveUp /\ ~(cp_count < MAX_CONN_PARAMS_UPDATE_COUNT)
    <3>1. cp_count = 3 /\ cp_count' = 0 /\ UNCHANGED <<asked, asks>>
      BY <1>1, <2>5 DEF GiveUp, CpTypes, MAX_CONN_PARAMS_UPDATE_COUNT
    <3>2. ~asked /\ ~waited
      BY <1>1, <2>1, <3>1 DEF Beside
    <3>3. Beside'
      BY <2>1, <3>1, <3>2 DEF Beside
    <3>4. Courses' = Courses - 1 /\ Courses' \in {0, 1}
      <4>1. ~(timer # "off" /\ UpdateGoes)
        BY <3>2 DEF UpdateGoes
      <4> QED BY <2>1, <3>1, <3>2, <4>1 DEF Courses, Goes
    <3>5. link # NoLink => Budget'
      BY <1>1, <3>1, <3>4, CoursesCount DEF Budget, MAX_CONN_PARAMS_UPDATE_COUNT
    <3> QED BY <1>1, <3>3, <3>5 DEF CoursesInv
  <2> QED BY <1>6, <2>2, <2>3, <2>4, <2>5 DEF update_timeout_handler
<1> QED BY <1>3, <1>4, <1>5, <1>6

-----------------------------------------------------------------------------
(* The event at the head of the queue is one of the last link.             *)
LEMMA HeadOfLink ==
  ASSUME LinkInv, evts # <<>>
  PROVE  /\ Head(evts) \in LinkEvents /\ Of = links
         /\ Head(evts).evt # "CONNECTED" => m_conn_handle = links
<1>1. evts \in Seq(LinkEvents)
  BY DEF LinkInv, Types
<1>2. Head(evts) = evts[1] /\ evts[1] \in LinkEvents /\ 1 \in 1 .. Len(evts)
  BY <1>1, QueueSteps
<1> QED BY <1>2 DEF LinkInv, QueueOfOneLink, HandleOfLink, Of

(* A request or a timeout is handled.                                      *)
LEMMA RequestKeeps ==
  ASSUME LinkInv, on_request \/ on_timeout
  PROVE  LinkInv'
<1>1. /\ evts # <<>> /\ ~fault /\ evts' = Tail(evts)
      /\ Head(evts).evt \in Requests \cup Timeouts
      /\ UNCHANGED <<links, link, m_conn_handle>>
  BY DEF on_request, on_timeout, Answer, NextIs, linkVars
<1>2. Head(evts).evt \notin {"CONNECTED", "DISCONNECTED"}
  BY <1>1 DEF Requests, GattRequests, Timeouts
<1>3. Of = links /\ m_conn_handle = links
  BY <1>1, <1>2, HeadOfLink
<1>4. /\ waiting' \subseteq waiting /\ (disconnecting => disconnecting')
      /\ disconnecting' \/ Head(evts).evt \notin waiting' \ {"AUTHORIZE_ACCESS"}
  <2>1. CASE on_timeout
    <3>1. /\ waiting' = waiting /\ Head(evts).evt \in Timeouts
          /\ disconnecting => disconnecting'
      BY <2>1 DEF on_timeout, NextIs, Disconnects
    <3> QED BY <3>1 DEF LinkInv, Types, Requests, GattRequests, Timeouts
  <2>2. CASE on_request /\ UNCHANGED <<waiting, disconnecting>>
                        /\ Head(evts).evt = "AUTHORIZE_ACCESS"
    BY <2>2
  <2>3. ASSUME NEW conn \in {m_conn_handle, Of}, Answer(Head(evts).evt, conn)
        PROVE  <1>4!1 /\ <1>4!2
    <3>1. conn = links /\ disconnecting' = disconnecting
      BY <1>3, <2>3 DEF Answer
    <3>2. CASE link = links /\ link # NoLink
      BY <2>3, <3>1, <3>2 DEF Answer, Status
    <3>3. CASE link # links \/ link = NoLink
      <4>1. waiting = {}
        BY <1>1, <3>3 DEF LinkInv, Types, WaitingQueued
      <4> QED BY <2>3, <3>1, <4>1 DEF Answer
    <3> QED BY <3>2, <3>3
  <2>4. CASE on_request
    <3>1. ASSUME Head(evts).evt = "AUTHORIZE_QUEUED_WRITE",
                 NEW req \in Authorizations(Head(evts).evt)
          PROVE  Replied(req)
      BY <3>1 DEF Authorizations, Replied
    <3> QED BY <2>2, <2>3, <2>4, <3>1 DEF on_request, linkVars
  <2> QED BY <1>1, <2>1, <2>4
<1> QED BY <1>1, <1>2, <1>4, TakeKeeps

LEMMA NextKeepsLink ==
  LinkInv /\ LevelInv /\ [LinkNext]_linkStateVars => LinkInv' /\ LevelInv'
<1> SUFFICES ASSUME LinkInv, LevelInv, [LinkNext]_linkStateVars
             PROVE  LinkInv' /\ LevelInv'
  OBVIOUS
<1>1. LinkInv'
  <2>1. CASE LinkConnects
    BY <2>1, ConnectKeeps DEF LinkConnects
  <2>2. CASE LinkGoes
    BY <2>2, EndKeeps DEF LinkGoes
  <2>3. CASE HostActs
    <3>1. CASE \E request \in Requests : HostRequests(request)
      <4>1. PICK request \in Requests : HostRequests(request)
        BY <3>1
      <4>2. request \in EventTypes \ {"CONNECTED", "DISCONNECTED"}
        BY <4>1 DEF EventTypes, Requests, GattRequests
      <4> QED BY <4>1, <4>2, PostKeeps DEF HostRequests
    <3>2. CASE \E expiry \in Timeouts : TimesOut(expiry)
      <4>1. PICK expiry \in Timeouts : TimesOut(expiry)
        BY <3>2
      <4>2. expiry \in EventTypes \ {"CONNECTED", "DISCONNECTED"}
        BY <4>1 DEF EventTypes, Timeouts
      <4> QED BY <4>1, <4>2, PostKeeps DEF TimesOut, linkVars
    <3> QED BY <2>3, <3>1, <3>2 DEF HostActs
  <2>4. CASE HostAnswers \/ HostUpdates
    <3>1. ParamsChange
      BY <2>4 DEF HostAnswers, HostUpdates
    <3>2. "CONN_PARAM_UPDATE" \in EventTypes \ {"CONNECTED", "DISCONNECTED"}
      BY DEF EventTypes
    <3> QED BY <3>1, <3>2, PostKeeps DEF ParamsChange, linkVars
  <2>5. CASE DispatchConnection
    BY <2>5, ConnectionKeeps DEF DispatchConnection
  <2>6. CASE DispatchRequest
    BY <2>6, RequestKeeps DEF DispatchRequest
  <2>7. CASE DispatchUpdate
    <3>1. /\ evts # <<>> /\ ~fault /\ evts' = Tail(evts)
          /\ Head(evts).evt = "CONN_PARAM_UPDATE"
          /\ UNCHANGED <<links, link, disconnecting, waiting, m_conn_handle>>
      BY <2>7 DEF DispatchUpdate, NextIs, linkVars
    <3>2. Head(evts).evt \notin waiting
      BY <3>1 DEF LinkInv, Types, Requests, GattRequests
    <3> QED BY <3>1, <3>2, TakeKeeps
  <2>8. CASE HostEncrypts \/ PollEnds \/ MainWaits \/ TimerExpires
    BY <2>8, ElsewhereKeeps
    DEF HostEncrypts, PollEnds, MainWaits, TimerExpires, vars, linkVars
  <2>9. CASE update_timeout_handler
    BY <2>9, ElsewhereKeeps DEF update_timeout_handler, linkVars
  <2>10. CASE LinkResets
    <3>1. Types'
      BY <2>10, RequestsAssumption DEF LinkResets, Reset, Types, NoLink
    <3>2. QueueOfOneLink' /\ HandleOfLink' /\ EndOfLink' /\ WaitingQueued'
      BY <2>10 DEF LinkResets, Reset, QueueOfOneLink, HandleOfLink, EndOfLink,
         WaitingQueued
    <3> QED BY <3>1, <3>2 DEF LinkInv
  <2>11. CASE UNCHANGED linkStateVars
    BY <2>11, ElsewhereKeeps DEF linkStateVars, vars, linkVars
  <2> QED BY <2>1, <2>2, <2>3, <2>4, <2>5, <2>6, <2>7, <2>8, <2>9, <2>10, <2>11
          DEF LinkNext, MainStep
<1>2. LevelInv'
  <2>1. level' \in {level, OPEN, LevelOfPairing}
    BY DEF LinkNext, MainStep, LinkConnects, LinkGoes, HostActs, HostEncrypts,
       HostAnswers, HostUpdates, ParamsChange, DispatchConnection, DispatchRequest,
       DispatchUpdate, Dispatches, PollEnds, MainWaits, TimerExpires,
       update_timeout_handler, LinkResets, linkStateVars, hostVars
  <2> QED BY <2>1 DEF LevelInv
<1> QED BY <1>1, <1>2

LEMMA NextKeepsNegotiation ==
  ASSUME LinkInv, NegotiationInv, CoursesInv, [LinkNext]_linkStateVars
  PROVE  NegotiationInv'
<1>1. CASE LinkConnects
  BY <1>1, ConnectsNegotiation
<1>2. CASE LinkGoes
  BY <1>2, GoesNegotiation
<1>3. CASE HostActs \/ HostEncrypts
  BY <1>3, ActsNegotiation
<1>4. CASE HostAnswers \/ HostUpdates
  BY <1>4, ChangeNegotiation
<1>5. CASE DispatchConnection
  BY <1>5, ConnectionNegotiation
<1>6. CASE DispatchRequest
  BY <1>6, RequestNegotiation
<1>7. CASE DispatchUpdate
  BY <1>7, UpdateNegotiation
<1>8. CASE PollEnds \/ MainWaits \/ TimerExpires
  BY <1>8, WaitsNegotiation
<1>9. CASE update_timeout_handler
  BY <1>9, TimeoutNegotiation
<1>10. CASE LinkResets
  BY <1>10, ResetNegotiation
<1>11. CASE UNCHANGED linkStateVars
  BY <1>11 DEF linkStateVars, vars, linkVars, cpVars, hostVars, NegotiationInv,
     CpTypes, CpFlags, Resting, AskedOnce, CountCovers, Spent, UpdateWaits
<1> QED BY <1>1, <1>2, <1>3, <1>4, <1>5, <1>6, <1>7, <1>8, <1>9, <1>10, <1>11
        DEF LinkNext, MainStep

(* One course alone asks three times at most.                              *)
LEMMA NextKeepsAsks ==
  ASSUME NegotiationInv, AsksInv, [LinkNext]_linkStateVars
  PROVE  AsksInv'
<1>1. CASE update_timeout_handler
  <2>1. UNCHANGED <<link, crossed, waited>> /\ timeout = "queued"
    BY <1>1 DEF update_timeout_handler, linkVars
  <2>2. CASE asks' = asks
    BY <2>1, <2>2 DEF AsksInv
  <2>3. CASE asks' # asks
    <3>1. /\ asks' = asks + 1 /\ link # NoLink
          /\ cp_count < MAX_CONN_PARAMS_UPDATE_COUNT
      BY <1>1, <2>3 DEF update_timeout_handler, Ask, GiveUp, UpdateStatus, Status
    <3>2. ~crossed => asks <= cp_count
      BY <2>1, <3>1 DEF NegotiationInv, CountCovers, Spent
    <3>3. cp_count \in Int /\ asks \in Int
      BY DEF NegotiationInv, CpTypes, MAX_CONN_PARAMS_UPDATE_COUNT
    <3> QED BY <2>1, <3>1, <3>2, <3>3 DEF AsksInv, MAX_CONN_PARAMS_UPDATE_COUNT
  <2> QED BY <2>2, <2>3
<1>2. CASE DispatchConnection \/ DispatchUpdate
  <2>1. /\ asks' = asks /\ (crossed => crossed')
        /\ waited' \in BOOLEAN
    BY <1>2 DEF DispatchConnection, DispatchUpdate, Dispatches, Negotiate,
       OnDisconnected, AsksInv
  <2> QED BY <2>1 DEF AsksInv
<1>3. CASE LinkConnects \/ LinkResets \/ HostUpdates
  <2>1. asks' = 0 /\ waited' \in {waited, FALSE}
    BY <1>3 DEF LinkConnects, LinkResets, HostUpdates, ParamsChange, cpVars
  <2>2. waited' \in BOOLEAN
    BY <2>1 DEF AsksInv
  <2>3. asks' <= MAX_CONN_PARAMS_UPDATE_COUNT
    BY <2>1 DEF MAX_CONN_PARAMS_UPDATE_COUNT
  <2> QED BY <2>2, <2>3 DEF AsksInv
<1>4. CASE \/ LinkGoes \/ HostActs \/ HostEncrypts \/ HostAnswers
           \/ DispatchRequest \/ UNCHANGED linkStateVars
  <2>1. UNCHANGED <<asks, crossed, waited>>
    BY <1>4 DEF LinkGoes, HostActs, HostEncrypts, HostAnswers, ParamsChange,
       DispatchRequest, Dispatches, linkStateVars, cpVars, hostVars
  <2> QED BY <2>1 DEF AsksInv
<1>5. CASE PollEnds \/ MainWaits \/ TimerExpires
  <2>1. UNCHANGED <<asks, crossed>> /\ waited' \in {waited, TRUE, FALSE}
    BY <1>5 DEF PollEnds, MainWaits, TimerExpires, cpVars, hostVars
  <2> QED BY <2>1 DEF AsksInv
<1> QED BY <1>1, <1>2, <1>3, <1>4, <1>5 DEF LinkNext, MainStep

LEMMA NextKeepsCourses ==
  LinkInv /\ NegotiationInv /\ CoursesInv /\ AsksInv /\ [LinkNext]_linkStateVars
    => NegotiationInv' /\ CoursesInv' /\ AsksInv'
<1> SUFFICES ASSUME LinkInv, NegotiationInv, CoursesInv, AsksInv,
                    [LinkNext]_linkStateVars
             PROVE  NegotiationInv' /\ CoursesInv' /\ AsksInv'
  OBVIOUS
<1>1. NegotiationInv' /\ AsksInv'
  BY NextKeepsNegotiation, NextKeepsAsks
<1>2. CASE LinkResets
  <2>1. link' = NoLink /\ timeout' = "no" /\ asked' = FALSE
    BY <1>2 DEF LinkResets, Reset
  <2> QED BY <1>1, <2>1 DEF CoursesInv, Beside
<1>3. CASE UNCHANGED linkStateVars
  <2>1. UNCHANGED <<link, fault, evts, timeout, timer, waited, cp_count, asked, asks>>
    BY <1>3 DEF linkStateVars, vars, linkVars, cpVars, hostVars
  <2>2. (UpdateWaits' <=> UpdateWaits) /\ (UpdateGoes' <=> UpdateGoes)
    BY <2>1 DEF UpdateWaits, UpdateGoes
  <2>3. Courses' = Courses
    BY <2>1, <2>2 DEF Courses, Goes
  <2>4. (Budget' <=> Budget) /\ (Beside' <=> Beside)
    BY <2>1, <2>3 DEF Budget, Beside
  <2> QED BY <1>1, <2>1, <2>4 DEF CoursesInv
<1> QED BY <1>1, <1>2, <1>3, HostCourses, DispatchCourses, TimerCourses
        DEF LinkNext, MainStep

-----------------------------------------------------------------------------
(* A memory request is answered through the handle of the link it came     *)
(* from (my_ble_connection.c:41, 56, 86-90), with any number of events     *)
(* waiting.                                                                *)
THEOREM MemoryRepliesReachTheirLink == LinkSpec => []MemoryReplyToItsLink
<1>1. LinkInv => MemoryReplyToItsLink
  BY HeadOfLink DEF MemoryReplyToItsLink, NextIs
<1> QED BY <1>1, InitLink, NextKeepsLink, PTL DEF LinkSpec

(* When nothing waits for the main loop, no host waits for an answer: a    *)
(* queued write, a memory request and a missing key are always answered,   *)
(* unless the link is being ended, and only a plain access is passed over  *)
(* (my_ble_connection.c:86-115, my_ble_peer_manager.c:80-99).              *)
THEOREM RequestsAreAnswered == LinkSpec => []EveryRequestAnswered
<1>1. LinkInv => EveryRequestAnswered
  <2> SUFFICES ASSUME LinkInv, evts = <<>>, ~fault, ~disconnecting
               PROVE  waiting \subseteq {"AUTHORIZE_ACCESS"}
    BY DEF EveryRequestAnswered
  <2>1. \A request \in waiting \ {"AUTHORIZE_ACCESS"} :
          \E n \in 1 .. 0 : evts[n].evt = request
    BY DEF LinkInv, WaitingQueued
  <2> QED BY <2>1
<1> QED BY <1>1, InitLink, NextKeepsLink, PTL DEF LinkSpec

(* Every attribute that a host of a gamepad uses is open to it on a link   *)
(* that pairing has secured, and on no other (my_ble_services.c:29-30,     *)
(* 48-52, 99-101, 126-141, my_ble_peer_manager.h:7-44).                    *)
THEOREM EncryptedLinksAreServed == LinkSpec => []ServedWhenEncrypted
<1>1. LevelInv => ServedWhenEncrypted
  <2> SUFFICES ASSUME LevelInv,
                      NEW table \in Tables, NEW access \in DOMAIN table \cap HostUses
               PROVE  Permits(level, table[access]) <=> level # OPEN
    BY DEF ServedWhenEncrypted
  <2>1. table[access] = ENC_NO_MITM
    BY DEF Tables, dis_init, bas_init, gamepad_hids_init, HostUses
  <2>2. level \in {OPEN, ENC_NO_MITM}
    BY DEF LevelInv, LevelOfPairing, SEC_PARAM_MITM
  <2> QED BY <2>1, <2>2 DEF Permits, OPEN, ENC_NO_MITM, NO_ACCESS
<1> QED BY <1>1, InitLink, NextKeepsLink, PTL DEF LinkSpec

(* A host that leaves the parameters alone is asked three times at most,   *)
(* and six times when a second course of the negotiation was started       *)
(* beside the first, however the timer and the events of the link          *)
(* interleave (my_ble_connection.c:13, my_ble_connection.h:16-19).         *)
THEOREM AsksAreBounded == LinkSpec => []AsksBounded
<1>1. NegotiationInv /\ AsksInv => AsksBounded
  BY DEF NegotiationInv, CpTypes, AsksInv, AsksBounded, MAX_CONN_PARAMS_UPDATE_COUNT
<1> QED BY <1>1, InitLink, NextKeepsLink, InitNegotiation, InitCourses,
        NextKeepsCourses, PTL DEF LinkSpec

(* Nothing on a link resets the controller but a call that comes too late  *)
(* or a negotiation that was restarted while its timer's handler was in    *)
(* the queue (my_ble_connection.c:13-15, 70-113,                           *)
(* my_ble_peer_manager.c:89-93).                                           *)
THEOREM ResetsComeTooLate == LinkSpec => ResetsOnlyTooLate
<1>1. LinkInv /\ NegotiationInv /\ [LinkNext]_linkStateVars =>
        [~fault /\ fault' => TooLate \/ crossed]_linkStateVars
  <2> SUFFICES ASSUME LinkInv, NegotiationInv, LinkNext, ~fault, fault'
               PROVE  TooLate \/ crossed
    OBVIOUS
  <2>1. CASE update_timeout_handler
    <3>1. timeout = "queued" /\ CalledLink = cp_handle
      BY <2>1 DEF update_timeout_handler, CalledLink
    <3>2. UpdateStatus # "NRF_SUCCESS" /\ cp_handle # NoLink
      BY <2>1 DEF NoLink, BLE_CONN_HANDLE_INVALID, update_timeout_handler, Ask, GiveUp, conn_params_error_handler,
         Check
    <3>3. CASE Status(cp_handle) = "NRF_SUCCESS"
      <4>1. asked
        BY <3>2, <3>3 DEF UpdateStatus
      <4>2. link # NoLink
        BY <3>3 DEF Status, NoLink, BLE_CONN_HANDLE_INVALID
      <4> QED BY <3>1, <4>1, <4>2 DEF NegotiationInv, AskedOnce
    <3>4. CASE Status(cp_handle) # "NRF_SUCCESS"
      BY <3>1, <3>2, <3>4 DEF TooLate, Status
    <3> QED BY <3>3, <3>4
  <2>2. CASE DispatchRequest
    <3>1. /\ evts # <<>> /\ Head(evts).evt \in Requests \cup Timeouts
          /\ CalledLink = Of
      BY <2>2 DEF DispatchRequest, on_request, on_timeout, NextIs, Dispatches,
         CalledLink
    <3>2. Of = links /\ m_conn_handle = links /\ Of # NoLink
      BY <3>1, HeadOfLink DEF Requests, GattRequests, Timeouts, LinkEvents, Links, NoLink, Of
    <3>3. Status(Of) # "NRF_SUCCESS"
      BY <2>2, <3>2 DEF DispatchRequest, on_request, on_timeout, NextIs,
         Answer, Check
    <3> QED BY <3>1, <3>2, <3>3 DEF Status, TooLate
  <2>3. CASE ~update_timeout_handler /\ ~DispatchRequest
    BY <2>3 DEF LinkNext, MainStep, LinkConnects, Connects, LinkGoes, LinkEnds,
       HostActs, HostRequests, TimesOut, HostEncrypts, HostAnswers, HostUpdates,
       ParamsChange, DispatchConnection, on_connection, DispatchUpdate, PollEnds,
       MainWaits, TimerExpires, LinkResets, Reset, vars, linkVars
  <2> QED BY <2>1, <2>2, <2>3
<1> QED BY <1>1, InitLink, NextKeepsLink, InitNegotiation, InitCourses,
        NextKeepsCourses, PTL DEF LinkSpec, ResetsOnlyTooLate

=============================================================================
