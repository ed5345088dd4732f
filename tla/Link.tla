--------------------------------- MODULE Link ---------------------------------
(***************************************************************************)
(* A link from the handlers' side: the requests of Requests, with the      *)
(* negotiation of connection parameters that conn_params_init asks of the  *)
(* SDK (my_ble_connection.c:13-34) and the attributes of Attributes.       *)
(*                                                                         *)
(* The timer of the negotiation and the SoftDevice's events share the      *)
(* scheduler's queue.  One poll handles all the events there are, so an    *)
(* event may overtake the timer's handler, but not a poll it is queued     *)
(* behind.  The timer takes seconds and the main loop milliseconds: it     *)
(* does not expire again before its handler has run, nor does the longer   *)
(* delay (30 s) pass before a request is answered or given up (30 s too).  *)
(***************************************************************************)
EXTENDS Requests, Attributes

VARIABLES
  polling,    \* the main loop is handling events
  timeout,    \* the timer's handler is "queued", "behind" a poll, or "no"
  timer,      \* "first" or "next" delay, or "off"
  waited,     \* the main loop has been idle since the timer started
  cp_handle,  \* m_conn_handle of the negotiation
  cp_count,   \* requests it has made
  cp_good,    \* the parameters it was last told of are acceptable
  asked,      \* the host has a request to answer
  asks,       \* history: requests since the link began, or since the host
              \* last changed the parameters of its own accord
  crossed,    \* history: the link or an update of it was handled while the
              \* timer's handler was in the queue
  level       \* security of the link

cpVars == <<timer, waited, cp_handle, cp_count, cp_good>>
hostVars == <<asked, asks, crossed, level>>
linkStateVars == <<vars, polling, timeout, cpVars, hostVars>>

MAX_CONN_PARAMS_UPDATE_COUNT == 3

(* Bound: asks is not counted any further.                                 *)
MaxAsks == 2 * MAX_CONN_PARAMS_UPDATE_COUNT + 1

LinkInit ==
  /\ Init
  /\ polling = FALSE /\ timeout = "no" /\ timer = "off" /\ waited = FALSE
  /\ cp_handle = BLE_CONN_HANDLE_INVALID /\ cp_count = 0 /\ cp_good = FALSE
  /\ asked = FALSE /\ asks = 0 /\ crossed = FALSE
  /\ level = OPEN

-----------------------------------------------------------------------------
(* The host.                                                               *)
LinkConnects ==
  /\ Connects
  /\ asked' = FALSE /\ asks' = 0 /\ crossed' = FALSE /\ level' = OPEN
  /\ UNCHANGED <<polling, timeout, cpVars>>

LinkGoes ==
  /\ LinkEnds
  /\ asked' = FALSE /\ level' = OPEN
  /\ UNCHANGED <<polling, timeout, cpVars, asks, crossed>>

HostActs ==
  /\ \/ \E request \in Requests :
          /\ request = "KEY_MISSING" => level = OPEN
          /\ HostRequests(request)
     \/ \E expiry \in Timeouts : TimesOut(expiry)
  /\ UNCHANGED <<polling, timeout, cpVars, hostVars>>

(* Encryption, after pairing or with the keys of a bond.                   *)
HostEncrypts ==
  /\ ~fault /\ link # NoLink /\ level = OPEN /\ "KEY_MISSING" \notin waiting
  /\ level' = LevelOfPairing
  /\ UNCHANGED <<vars, polling, timeout, cpVars, asked, asks, crossed>>

ParamsChange ==
  /\ ~fault /\ link # NoLink
  /\ Post("CONN_PARAM_UPDATE", link)
  /\ UNCHANGED <<linkVars, m_conn_handle, fault, polling, timeout, cpVars, crossed, level>>

(* The answer to a request, or the end of the wait for it.                 *)
HostAnswers == asked /\ ParamsChange /\ asked' = FALSE /\ UNCHANGED asks

HostUpdates == ParamsChange /\ asks' = 0 /\ UNCHANGED asked

-----------------------------------------------------------------------------
(* The negotiation (ble_conn_params), started by a link or an update.      *)
Negotiate_Anew(count, good) ==
  /\ cp_count' = 0 /\ cp_good' = good
  /\ timer' = IF good \/ timer # "off" THEN timer ELSE "first"
  /\ waited' = (waited /\ timer # "off")
  /\ crossed' = (crossed \/ timeout # "no")

Negotiate(count, good) ==
  /\ cp_count' = count /\ cp_good' = good
  /\ timer' = IF good \/ timer # "off" THEN timer
              ELSE IF count = 0 THEN "first" ELSE "next"
  /\ waited' = (waited /\ timer # "off")
  /\ crossed' = (crossed \/ timeout # "no")

OnDisconnected ==
  /\ cp_handle' = BLE_CONN_HANDLE_INVALID /\ cp_count' = 0
  /\ timer' = "off" /\ waited' = FALSE
  /\ UNCHANGED cp_good

(* A dispatch: the timer's handler, if it was queued first, goes first.    *)
Dispatches ==
  /\ polling \/ timeout # "queued"
  /\ polling' = TRUE
  /\ UNCHANGED <<timeout, asked, asks, level>>

DispatchConnection ==
  /\ on_connection
  /\ Dispatches
  /\ IF Head(evts).evt = "CONNECTED"
       THEN cp_handle' = Of /\ \E good \in BOOLEAN : Negotiate(0, good)
       ELSE OnDisconnected /\ UNCHANGED crossed

DispatchRequest ==
  /\ on_request \/ on_timeout
  /\ Dispatches
  /\ UNCHANGED <<cpVars, crossed>>

DispatchUpdate ==
  /\ NextIs({"CONN_PARAM_UPDATE"})
  /\ Dispatches
  /\ \E good \in BOOLEAN : Negotiate(cp_count, good)
  /\ evts' = Tail(evts)
  /\ UNCHANGED <<linkVars, m_conn_handle, fault, cp_handle>>

PollEnds ==
  /\ ~fault /\ polling /\ evts = <<>>
  /\ polling' = FALSE
  /\ timeout' = IF timeout = "behind" THEN "queued" ELSE timeout
  /\ UNCHANGED <<vars, cpVars, hostVars>>

Idle == evts = <<>> /\ ~polling /\ timeout = "no"

MainWaits ==
  /\ ~fault /\ Idle
  /\ timer # "off" /\ ~waited
  /\ waited' = TRUE
  /\ UNCHANGED <<vars, polling, timeout, timer, cp_handle, cp_count, cp_good,
                 hostVars>>

TimerExpires ==
  /\ ~fault /\ timer # "off" /\ waited
  /\ timer = "next" => ~asked
  /\ timer' = "off" /\ waited' = FALSE
  /\ timeout' = IF ~polling /\ evts # <<>> THEN "behind" ELSE "queued"
  /\ UNCHANGED <<vars, polling, cp_handle, cp_count, cp_good, hostVars>>

(* sd_ble_gap_conn_param_update; conn_params_error_handler gets its error. *)
UpdateStatus == IF Status(cp_handle) = "NRF_SUCCESS" /\ asked
                  THEN "NRF_ERROR_BUSY" ELSE Status(cp_handle)

conn_params_error_handler(status) == Check(status, {})

Ask ==
  /\ conn_params_error_handler(UpdateStatus)
  /\ cp_count' = cp_count + 1
  /\ asked' = (asked \/ UpdateStatus = "NRF_SUCCESS")
  /\ asks' = IF UpdateStatus = "NRF_SUCCESS" /\ asks < MaxAsks
               THEN asks + 1 ELSE asks

(* It gives up without a disconnection (disconnect_on_fail).               *)
GiveUp == cp_count' = 0 /\ UNCHANGED <<fault, asked, asks>>

update_timeout_handler ==
  /\ ~fault /\ timeout = "queued" /\ ~polling
  /\ timeout' = "no"
  /\ IF cp_handle = BLE_CONN_HANDLE_INVALID
       THEN UNCHANGED <<fault, cp_count, asked, asks>>
     ELSE IF cp_count < MAX_CONN_PARAMS_UPDATE_COUNT THEN Ask
     ELSE GiveUp
  /\ UNCHANGED <<linkVars, evts, m_conn_handle, polling, timer, waited,
                 cp_handle, cp_good, crossed, level>>

LinkResets ==
  /\ Reset
  /\ polling' = FALSE /\ timeout' = "no" /\ timer' = "off" /\ waited' = FALSE
  /\ cp_handle' = BLE_CONN_HANDLE_INVALID /\ cp_count' = 0 /\ cp_good' = FALSE
  /\ asked' = FALSE /\ asks' = 0 /\ crossed' = FALSE /\ level' = OPEN

MainStep ==
  \/ DispatchConnection \/ DispatchRequest \/ DispatchUpdate \/ PollEnds
  \/ MainWaits \/ update_timeout_handler \/ LinkResets

LinkNext ==
  \/ LinkConnects \/ LinkGoes \/ HostActs \/ HostEncrypts
  \/ HostAnswers \/ HostUpdates
  \/ MainStep \/ TimerExpires

(***************************************************************************)
(* Fairness.  The main loop works through its queue, timers expire, and a  *)
(* request is answered or given up.  Nothing makes a host connect, ask,    *)
(* change the parameters or leave.                                         *)
(***************************************************************************)
LinkSpec ==
  /\ LinkInit /\ [][LinkNext]_linkStateVars
  /\ WF_linkStateVars(MainStep) /\ WF_linkStateVars(TimerExpires)
  /\ WF_linkStateVars(HostAnswers)

-----------------------------------------------------------------------------
(* Only a call that comes too late, to a link that has gone or is being    *)
(* ended, resets the controller, or one that meets a request without an    *)
(* answer: the timer of the negotiation was started by an event handled    *)
(* while its handler was in the queue (my_ble_connection.c:13-15, 70-113,  *)
(* my_ble_peer_manager.c:89-93).                                           *)
CalledLink == IF timeout' # timeout THEN cp_handle ELSE Of
TooLate == CalledLink # link \/ disconnecting

ResetsOnlyTooLate == [][~fault /\ fault' => TooLate \/ crossed]_linkStateVars

(* A host that leaves the parameters alone is asked three times at most,   *)
(* whatever it answers.  An event handled while the timer's handler was in *)
(* the queue starts the negotiation a second time beside the first, and    *)
(* one of the two clears the count as it gives up: such a host is asked    *)
(* six times at most (my_ble_connection.c:13, my_ble_connection.h:16-19).  *)
AsksBounded ==
  asks <= (IF crossed THEN 2 ELSE 1) * MAX_CONN_PARAMS_UPDATE_COUNT

(* Left with a host that does nothing but answer, the negotiation ends: no *)
(* timer, no request without its answer, and no reset                      *)
(* (my_ble_connection.c:20-26).                                            *)
NegotiationEnds ==
  \/ <>[](~fault /\ Idle /\ timer = "off" /\ ~asked)
  \/ []<><<LinkConnects \/ LinkGoes \/ HostActs \/ HostUpdates>>_linkStateVars

(* A host gets at what a gamepad's host uses when the link is encrypted,   *)
(* with the security that pairing reaches, and at nothing of it before     *)
(* (my_ble_services.c:29-30, 48-52, 99-101, 126-141,                       *)
(* my_ble_peer_manager.h:7-44).                                            *)
ServedWhenEncrypted ==
  \A table \in Tables : \A access \in DOMAIN table \cap HostUses :
    Permits(level, table[access]) <=> level # OPEN

=============================================================================
