------------------------------- MODULE Requests -------------------------------
(***************************************************************************)
(* The requests and timeouts of a link that the application answers:       *)
(* on_ble_evt (my_ble_connection.c:36-128, its keys and whitelist parts    *)
(* apart) and PM_EVT_CONN_SEC_FAILED (my_ble_peer_manager.c:80-99).        *)
(*                                                                         *)
(* Events wait for the main loop, so the link may have gone when an event  *)
(* of it is handled.  Every call is checked: an error that the code does   *)
(* not except ends in APP_ERROR_HANDLER.                                   *)
(***************************************************************************)
EXTENDS Integers, Sequences

CONSTANTS
  MaxLinks,     \* bound: links told apart
  MaxEvents     \* bound: events not dispatched

ASSUME RequestsAssumption ==
  /\ MaxLinks \in Nat \ {0, 1}
  /\ MaxEvents \in Nat \ {0}

NoLink == 0
BLE_CONN_HANDLE_INVALID == 0

(* The handle of a link, here a number that tells it from the link before. *)
Links == 1 .. MaxLinks

VARIABLES
  links,          \* the number of the last link
  link,           \* the number of the link there is, or NoLink
  disconnecting,  \* sd_ble_gap_disconnect was called for it
  waiting,        \* requests of its host that wait for an answer
  evts,           \* events not dispatched, each with its link
  m_conn_handle,
  fault

linkVars == <<links, link, disconnecting, waiting>>
vars == <<linkVars, evts, m_conn_handle, fault>>

(* RW_AUTHORIZE_REQUEST comes for a queued write, and for a plain access   *)
(* to an attribute under authorization: the attributes are those of the    *)
(* SDK's services.                                                         *)
GattRequests == {"USER_MEM_REQUEST", "AUTHORIZE_QUEUED_WRITE", "AUTHORIZE_ACCESS"}
Requests == GattRequests \cup {"KEY_MISSING"}

(* Of the GATT client and of the server, handled alike.                    *)
Timeouts == {"GATT_TIMEOUT"}

Init ==
  /\ links = 0 /\ link = NoLink /\ disconnecting = FALSE /\ waiting = {}
  /\ evts = <<>>
  /\ m_conn_handle = BLE_CONN_HANDLE_INVALID
  /\ fault = FALSE

Post(type, of) ==
  /\ Len(evts) < MaxEvents
  /\ evts' = Append(evts, [evt |-> type, conn_handle |-> of])

Advertises ==
  /\ link = NoLink
  /\ \A n \in 1 .. Len(evts) : evts[n].evt # "DISCONNECTED"

(* A host connects: advertising starts again after DISCONNECTED only.      *)
Connects ==
  /\ ~fault /\ Advertises
  /\ links' = (links % MaxLinks) + 1 /\ link' = links'
  /\ Post("CONNECTED", links')
  /\ disconnecting' = FALSE /\ waiting' = {}
  /\ UNCHANGED <<m_conn_handle, fault>>

LinkEnds ==
  /\ ~fault /\ link # NoLink
  /\ Post("DISCONNECTED", link)
  /\ link' = NoLink /\ waiting' = {} /\ disconnecting' = FALSE
  /\ UNCHANGED <<links, m_conn_handle, fault>>

(* An access, memory for queued writes, or encryption with a key that the  *)
(* controller does not have.  A host has one request of GATT at a time.    *)
HostRequests(request) ==
  /\ ~fault /\ link # NoLink /\ request \notin waiting
  /\ request \in GattRequests => waiting \cap GattRequests = {}
  /\ Post(request, link)
  /\ waiting' = waiting \cup {request}
  /\ UNCHANGED <<links, link, disconnecting, m_conn_handle, fault>>

TimesOut(timeout) ==
  /\ ~fault /\ link # NoLink
  /\ Post(timeout, link)
  /\ UNCHANGED <<linkVars, m_conn_handle, fault>>

-----------------------------------------------------------------------------
(* What the SoftDevice returns to a call for a link.                       *)
Status(conn) ==
  IF conn = NoLink \/ conn # link THEN "BLE_ERROR_INVALID_CONN_HANDLE"
  ELSE IF disconnecting THEN "NRF_ERROR_INVALID_STATE"
  ELSE "NRF_SUCCESS"

(* APP_ERROR_CHECK of a status, some of which the caller excepts.          *)
Check(status, excepted) == fault' = (status \notin {"NRF_SUCCESS"} \cup excepted)

NextIs(types) == ~fault /\ evts # <<>> /\ Head(evts).evt \in types
Of == Head(evts).conn_handle

ConnHandleAfter_NotSet(evt, handle) ==
  IF evt = "CONNECTED" THEN m_conn_handle ELSE BLE_CONN_HANDLE_INVALID

ConnHandleAfter(evt, handle) ==
  IF evt = "CONNECTED" THEN handle ELSE BLE_CONN_HANDLE_INVALID

on_connection ==
  /\ NextIs({"CONNECTED", "DISCONNECTED"})
  /\ m_conn_handle' = ConnHandleAfter(Head(evts).evt, Of)
  /\ evts' = Tail(evts)
  /\ UNCHANGED <<linkVars, fault>>

(* A reply, for the link of m_conn_handle or of the event: an answer when  *)
(* the call succeeds.                                                      *)
Answer(request, conn) ==
  /\ Check(Status(conn), IF request = "KEY_MISSING"
                           THEN {"NRF_ERROR_INVALID_STATE"} ELSE {})
  /\ waiting' = IF Status(conn) = "NRF_SUCCESS" THEN waiting \ {request}
                                                 ELSE waiting
  /\ evts' = Tail(evts)
  /\ UNCHANGED <<links, link, disconnecting, m_conn_handle>>

(* The type and the operation in RW_AUTHORIZE_REQUEST.  A read has none:   *)
(* the handler takes what lies in its place in the union.                  *)
QueuedWrites == {"PREP_WRITE_REQ", "EXEC_WRITE_REQ_NOW", "EXEC_WRITE_REQ_CANCEL"}

Authorizations(request) ==
  IF request = "AUTHORIZE_QUEUED_WRITE"
    THEN [type : {"WRITE"}, op : QueuedWrites]
    ELSE [type : {"WRITE"}, op : {"WRITE_REQ"}] \cup
         [type : {"READ", "INVALID"}, op : QueuedWrites \cup {"WRITE_REQ"}]

Replied_NoCancel(req) ==
  /\ req.type # "INVALID"
  /\ req.op \in {"PREP_WRITE_REQ", "EXEC_WRITE_REQ_NOW"}

Replied(req) == req.type # "INVALID" /\ req.op \in QueuedWrites

on_request ==
  /\ NextIs(Requests)
  /\ LET request == Head(evts).evt IN
       \/ request = "USER_MEM_REQUEST" /\ Answer(request, m_conn_handle)
       \/ request = "KEY_MISSING" /\ Answer(request, Of)
       \/ /\ request \in {"AUTHORIZE_QUEUED_WRITE", "AUTHORIZE_ACCESS"}
          /\ \E req \in Authorizations(request) :
               IF Replied(req)
                 THEN Answer(request, Of)
                 ELSE /\ evts' = Tail(evts)
                      /\ UNCHANGED <<linkVars, m_conn_handle, fault>>

(* sd_ble_gap_disconnect; DISCONNECTED follows when the link has ended.    *)
Disconnects(conn) == disconnecting' = (disconnecting \/ conn = link)

on_timeout ==
  /\ NextIs(Timeouts)
  /\ Check(Status(Of), {})
  /\ Disconnects(Of)
  /\ evts' = Tail(evts)
  /\ UNCHANGED <<links, link, waiting, m_conn_handle>>

Reset ==
  /\ fault
  /\ links' = 0 /\ link' = NoLink /\ disconnecting' = FALSE /\ waiting' = {}
  /\ evts' = <<>>
  /\ m_conn_handle' = BLE_CONN_HANDLE_INVALID
  /\ fault' = FALSE

Next ==
  \/ Connects \/ LinkEnds
  \/ \E request \in Requests : HostRequests(request)
  \/ \E timeout \in Timeouts : TimesOut(timeout)
  \/ on_connection \/ on_request \/ on_timeout
  \/ Reset

Spec == Init /\ [][Next]_vars

-----------------------------------------------------------------------------
(* A memory request is answered through m_conn_handle, which is then the   *)
(* handle of the link it came from (my_ble_connection.c:41, 56, 86-90).    *)
MemoryReplyToItsLink == NextIs({"USER_MEM_REQUEST"}) => m_conn_handle = Of

(* With everything handled, no host waits for an answer, unless its link   *)
(* is being ended or the request is for a plain access, which the handler  *)
(* may pass over (my_ble_connection.c:86-115,                              *)
(* my_ble_peer_manager.c:80-99).                                           *)
EveryRequestAnswered ==
  evts = <<>> /\ ~fault /\ ~disconnecting => waiting \subseteq {"AUTHORIZE_ACCESS"}

=============================================================================
