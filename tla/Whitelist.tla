------------------------------ MODULE Whitelist ------------------------------
(***************************************************************************)
(* Who may connect: bonds, the whitelist and the advertising modes         *)
(* (my_ble_advertising.c, my_ble_peer_manager.c, the whitelist part of     *)
(* my_ble_connection.c, and m_is_wl_changed of my_ble_globals.h).          *)
(*                                                                         *)
(* The SoftDevice queues events, the main loop dispatches them one at a    *)
(* time: the Peer Manager first, then on_ble_evt, then the advertising     *)
(* module (my_ble_connection.c:131-143).  Peer identifiers are given in    *)
(* order and never freed, as no code deletes a bond: identifier i is the   *)
(* one of bonds[i + 1].                                                    *)
(*                                                                         *)
(* The room in the flash is abstract: any write may take the last of it,   *)
(* and a garbage collection makes some.                                    *)
(*                                                                         *)
(* Left out: the device identities list, which gets the same peers as the  *)
(* whitelist, what the Peer Manager writes besides bonds and ranks, and    *)
(* errors of the flash, of pm_peer_rank_highest without room too, which    *)
(* end in a reset; a reset may come at any time.                           *)
(***************************************************************************)
EXTENDS Config, Sequences, FiniteSets, SequencesExt

CONSTANTS
  Hosts, NoHost,
  BLE_GAP_WHITELIST_ADDR_MAX_COUNT,
  MaxEvents                     \* bound: events not dispatched

ASSUME WhitelistAssumption ==
  /\ IsFiniteSet(Hosts) /\ NoHost \notin Hosts
  /\ BLE_GAP_WHITELIST_ADDR_MAX_COUNT \in Nat \ {0}
  /\ MaxEvents \in Nat \ {0}

PM_PEER_ID_INVALID == -1

(* The files that include my_ble_globals.h and use m_is_wl_changed: each   *)
(* has a copy of the static variable.                                      *)
Units == {"my_ble_advertising", "my_ble_peer_manager", "my_ble_connection"}

VARIABLES
  bonds,           \* hosts by peer identifier
  flash,           \* operations queued in fstorage; the head is under way
  written,         \* the head is done, its system event not dispatched
  full,            \* the flash has no room for a write
  held,            \* writes that the Peer Manager holds back
  link,            \* the host of the SoftDevice's link
  sec,             \* pairing on the link: "none", "asked" by the controller,
                   \* "requested" by the host, or "pairing"
  evts,            \* BLE events not dispatched
  conn,            \* the host of the link the application knows of
  m_peer_id, m_whitelist_peers, m_is_wl_changed,
  pm_whitelist,    \* the argument of the last pm_whitelist_set
  adv,             \* "off", "pending", "directed", "fast" or "slow"
  adv_mode,        \* the mode started last
  adv_filter,      \* peers of the last whitelist or address reply
  known, bondless, \* history: identifiers reported since the reset, and
                   \* whether there was no bond then
  gc_refused       \* history: the last fds_gc was refused, and none is queued

flashVars == <<flash, written, full, held, gc_refused>>
linkVars == <<link, sec>>
peerVars == <<m_peer_id, m_whitelist_peers, m_is_wl_changed, pm_whitelist>>
advVars == <<adv, adv_mode, adv_filter>>
historyVars == <<known, bondless>>

vars == <<bonds, flashVars, linkVars, evts, conn, peerVars, advVars,
          historyVars>>

PeerIds == 0 .. Cardinality(Hosts) - 1
Bonded(h) == h \in ToSet(bonds)
PeerId(h) == IF Bonded(h) THEN (CHOOSE i \in 1 .. Len(bonds) : bonds[i] = h) - 1
                          ELSE PM_PEER_ID_INVALID
HostsOf(ids) == {bonds[i + 1] : i \in ids}

Event(type) == [evt |-> type, host |-> link]
NextIs(type) == evts # <<>> /\ Head(evts).evt = type

(* What survives a reset: bonds whose write the flash has completed.       *)
Stored ==
  LET left == (IF written THEN Tail(flash) ELSE flash) \o held
      unwritten == Cardinality({i \in 1 .. Len(left) : left[i] = "bond"})
  IN SubSeq(bonds, 1, Len(bonds) - unwritten)

-----------------------------------------------------------------------------
(***************************************************************************)
(* Advertising.                                                            *)
(***************************************************************************)

(* peer_list_get: the first identifiers, as many as the whitelist takes.   *)
peer_list_get_SkipFirst(peers) ==
  [i \in 1 .. IF Len(peers) = 0 THEN 0
              ELSE IF Len(peers) - 1 < BLE_GAP_WHITELIST_ADDR_MAX_COUNT
                     THEN Len(peers) - 1
                     ELSE BLE_GAP_WHITELIST_ADDR_MAX_COUNT |-> i]

peer_list_get(peers) ==
  [i \in 1 .. IF Len(peers) < BLE_GAP_WHITELIST_ADDR_MAX_COUNT
                THEN Len(peers) ELSE BLE_GAP_WHITELIST_ADDR_MAX_COUNT |-> i - 1]

(* The replies of on_adv_evt to BLE_ADV_EVT_WHITELIST_REQUEST and          *)
(* BLE_ADV_EVT_PEER_ADDR_REQUEST: the peers allowed.                       *)
WhitelistReply_None(whitelist) == {}

WhitelistReply(whitelist) == ToSet(whitelist)

PeerAddrReply ==
  IF m_peer_id \in 0 .. Len(bonds) - 1 THEN {m_peer_id} ELSE {}

(* ble_advertising_start: it waits for the flash, and passes over directed *)
(* advertising when it is given no address.                                *)
AdvStart(mode, queue, whitelist) ==
  IF queue # <<>>
    THEN /\ adv' = "pending" /\ adv_mode' = mode
         /\ UNCHANGED adv_filter
  ELSE IF mode = "directed" /\ PeerAddrReply # {}
    THEN /\ adv' = mode /\ adv_mode' = mode
         /\ adv_filter' = PeerAddrReply
  ELSE LET started == IF mode = "directed" THEN "fast" ELSE mode
       IN /\ adv' = started /\ adv_mode' = started
          /\ adv_filter' = WhitelistReply(whitelist)

(* main up to its loop, with the bonds found in the flash: peer_manager_   *)
(* init keeps them, and advertising_start lists them.  No address is asked *)
(* for in fast mode.                                                       *)
Boot(peers) ==
  /\ bonds' = peers
  /\ flash' = <<>> /\ written' = FALSE
  /\ full' \in {full, FALSE} /\ held' = <<>> /\ gc_refused' = FALSE
  /\ link' = NoHost /\ sec' = "none" /\ evts' = <<>> /\ conn' = NoHost
  /\ m_peer_id' = 0
  /\ m_whitelist_peers' = peer_list_get(peers)
  /\ pm_whitelist' = peer_list_get(peers)
  /\ m_is_wl_changed' = [u \in Units |-> FALSE]
  /\ AdvStart("fast", <<>>, peer_list_get(peers))
  /\ known' = {} /\ bondless' = (peers = <<>>)

Init ==
  /\ bonds = <<>> /\ flash = <<>> /\ written = FALSE
  /\ full = FALSE /\ held = <<>> /\ gc_refused = FALSE
  /\ link = NoHost /\ sec = "none" /\ evts = <<>> /\ conn = NoHost
  /\ m_peer_id = 0
  /\ m_whitelist_peers = <<>> /\ pm_whitelist = <<>>
  /\ m_is_wl_changed = [u \in Units |-> FALSE]
  /\ adv = "fast" /\ adv_mode = "fast" /\ adv_filter = {}
  /\ known = {} /\ bondless = TRUE

(* An error of the flash, which the Peer Manager reports, or any other     *)
(* error that is checked: at any time.                                     *)
Reset == Boot(Stored)

-----------------------------------------------------------------------------
(***************************************************************************)
(* Hosts and the SoftDevice.                                               *)
(***************************************************************************)
HasRoom == Len(evts) < MaxEvents

Admits(h) ==
  \/ adv = "directed" /\ h \in HostsOf(adv_filter)
  \/ adv \in {"fast", "slow"} /\ (adv_filter = {} \/ h \in HostsOf(adv_filter))

HostConnects(h) ==
  /\ HasRoom /\ Admits(h)
  /\ link' = h /\ sec' = "none" /\ adv' = "off"
  /\ evts' = Append(evts, [evt |-> "CONNECTED", host |-> h])
  /\ UNCHANGED <<bonds, flashVars, conn, peerVars, adv_mode, adv_filter,
                 historyVars>>

HostLeaves ==
  /\ HasRoom /\ link # NoHost
  /\ link' = NoHost /\ sec' = "none"
  /\ evts' = Append(evts, Event("DISCONNECTED"))
  /\ UNCHANGED <<bonds, flashVars, conn, peerVars, advVars, historyVars>>

(* A host encrypts the link with keys it has; the controller may have lost *)
(* them in a reset.                                                        *)
HostEncrypts ==
  /\ HasRoom /\ link # NoHost /\ sec \in {"none", "asked"}
  /\ evts' = Append(evts, Event(IF Bonded(link) THEN "ENCRYPTED"
                                              ELSE "KEY_MISSING"))
  /\ UNCHANGED <<bonds, flashVars, linkVars, conn, peerVars, advVars,
                 historyVars>>

(* Any host, one that has lost its keys too, asks for pairing.             *)
HostAsksPairing ==
  /\ HasRoom /\ link # NoHost /\ sec \in {"none", "asked"}
  /\ sec' = "requested"
  /\ evts' = Append(evts, Event("SEC_PARAMS_REQUEST"))
  /\ UNCHANGED <<bonds, flashVars, link, conn, peerVars, advVars, historyVars>>

(* The host ends the pairing, with or without a bond.                      *)
HostPairs ==
  /\ HasRoom /\ sec = "pairing"
  /\ sec' = "none"
  /\ \E result \in {"BONDED", "PAIRED"} : evts' = Append(evts, Event(result))
  /\ UNCHANGED <<bonds, flashVars, link, conn, peerVars, advVars, historyVars>>

AdvTimesOut ==
  /\ HasRoom /\ adv \in {"directed", "fast", "slow"}
  /\ adv' = "off"
  /\ evts' = Append(evts, Event("ADV_TIMEOUT"))
  /\ UNCHANGED <<bonds, flashVars, linkVars, conn, peerVars, adv_mode,
                 adv_filter, historyVars>>

FlashCompletes ==
  /\ flash # <<>> /\ ~written
  /\ written' = TRUE
  /\ UNCHANGED <<bonds, flash, full, held, gc_refused, linkVars, evts, conn,
                 peerVars, advVars, historyVars>>

-----------------------------------------------------------------------------
(***************************************************************************)
(* Dispatching, in the main loop.                                          *)
(***************************************************************************)

(* What the handler provides for: FDS_ERR_NO_SPACE_IN_QUEUES when the      *)
(* queue has no place, FDS_ERR_BUSY at any time.                           *)
fds_gc(queue) ==
  IF Len(queue) < FDS_OP_QUEUE_SIZE THEN {"SUCCESS", "BUSY"}
                                    ELSE {"NO_SPACE_IN_QUEUES", "BUSY"}

(* PM_EVT_STORAGE_FULL: after an error nothing is done, "Retry." or not.   *)
StorageFull_Ignored(queue, err_code) == queue

StorageFull(queue, err_code) ==
  IF err_code = "SUCCESS" THEN Append(queue, "gc") ELSE queue

ReportStorageFull(queue) ==
  \E err_code \in fds_gc(queue) :
    /\ flash' = StorageFull(queue, err_code)
    /\ gc_refused' = (err_code # "SUCCESS" /\ "gc" \notin ToSet(queue))

(* A write that has been queued may take the last of the room.             *)
RoomAfter(writes) == full' \in IF writes THEN {full, TRUE} ELSE {full}

(* pm_peer_rank_highest: busy while a rank is being written or when the    *)
(* queue has no place, and it has nothing to write when the peer is the    *)
(* highest already.                                                        *)
Ranked(queue) ==
  IF full \/ "rank" \in ToSet(queue) \/ Len(queue) >= FDS_OP_QUEUE_SIZE
    THEN {queue} ELSE {queue, Append(queue, "rank")}

(* The Peer Manager writes the keys of a bond, or holds them back.         *)
StoreBond(op) ==
  IF full \/ Len(flash) >= FDS_OP_QUEUE_SIZE
    THEN /\ held' = Append(held, op)
         /\ IF full THEN ReportStorageFull(flash)
                    ELSE UNCHANGED <<flash, gc_refused>>
         /\ UNCHANGED full
    ELSE /\ flash' \in Ranked(Append(flash, op))
         /\ RoomAfter(TRUE)
         /\ UNCHANGED <<held, gc_refused>>

(* After an operation of the flash it tries the writes held back again,    *)
(* until the queue has no place or there is no room, which it reports.     *)
(* While the flash is full it tries none: a write refused for that waits   *)
(* for a garbage collection.                                               *)
RetryHeld(queue, room) ==
  IF held = <<>> \/ ~room
    THEN flash' = queue /\ full' = ~room /\ UNCHANGED <<held, gc_refused>>
  ELSE \E n \in 1 .. Len(held) :
         LET sent == queue \o SubSeq(held, 1, n)
         IN /\ Len(sent) <= FDS_OP_QUEUE_SIZE
            /\ held' = SubSeq(held, n + 1, Len(held))
            /\ full' \in BOOLEAN
            /\ IF held' # <<>> /\ full'
                 THEN ReportStorageFull(sent)
                 ELSE /\ held' # <<>> => Len(sent) = FDS_OP_QUEUE_SIZE
                      /\ flash' = sent /\ gc_refused' = FALSE

(* PM_EVT_BONDED_PEER_CONNECTED.                                           *)
DispatchConnected ==
  /\ NextIs("CONNECTED")
  /\ LET h == Head(evts).host IN
       /\ conn' = h
       /\ IF Bonded(h)
            THEN /\ m_peer_id' = PeerId(h)
                 /\ flash' \in Ranked(flash) /\ RoomAfter(flash' # flash)
                 /\ known' = known \cup {PeerId(h)}
            ELSE UNCHANGED <<m_peer_id, flash, full, known>>
  /\ evts' = Tail(evts)
  /\ UNCHANGED <<bonds, written, held, gc_refused, linkVars, m_whitelist_peers,
                 m_is_wl_changed, pm_whitelist, advVars, bondless>>

(* PM_EVT_CONN_SEC_SUCCEEDED after encryption, or after pairing without a  *)
(* bond, which has no identifier.                                          *)
DispatchSecured ==
  /\ NextIs("ENCRYPTED") \/ NextIs("PAIRED")
  /\ m_peer_id' = PeerId(Head(evts).host)
  /\ flash' \in Ranked(flash) /\ RoomAfter(flash' # flash)
  /\ known' = known \cup {m_peer_id'}
  /\ evts' = Tail(evts)
  /\ UNCHANGED <<bonds, written, held, gc_refused, linkVars, conn, m_whitelist_peers,
                 m_is_wl_changed, pm_whitelist, advVars, bondless>>

(* PM_EVT_CONN_SEC_FAILED with a missing key: pm_conn_secure asks the host *)
(* to pair, unless the link is busy or gone (NRF_ERROR_INVALID_STATE).     *)
DispatchKeyMissing ==
  /\ NextIs("KEY_MISSING")
  /\ sec' = IF sec = "none" /\ link = Head(evts).host THEN "asked" ELSE sec
  /\ evts' = Tail(evts)
  /\ UNCHANGED <<bonds, flashVars, link, conn, peerVars, advVars, historyVars>>

(* PM_EVT_CONN_SEC_CONFIG_REQ comes for a peer that is bonded already.     *)
AllowRepairing_Always == TRUE

allow_repairing == FALSE

DispatchSecParamsRequest ==
  /\ NextIs("SEC_PARAMS_REQUEST")
  /\ sec' = IF sec # "requested" THEN sec
            ELSE IF Bonded(Head(evts).host) /\ ~allow_repairing THEN "none"
            ELSE "pairing"
  /\ evts' = Tail(evts)
  /\ UNCHANGED <<bonds, flashVars, link, conn, peerVars, advVars, historyVars>>

(* m_whitelist_peers is an array of that size.                             *)
PlaceLeft_OneMore == Len(m_whitelist_peers) <= BLE_GAP_WHITELIST_ADDR_MAX_COUNT

PlaceLeft == Len(m_whitelist_peers) < BLE_GAP_WHITELIST_ADDR_MAX_COUNT

(* The Peer Manager keeps the bond, under the identifier the host had if   *)
(* it had one; then PM_EVT_CONN_SEC_SUCCEEDED after bonding.               *)
DispatchBonded ==
  /\ NextIs("BONDED")
  /\ LET h == Head(evts).host
         all == IF Bonded(h) THEN bonds ELSE Append(bonds, h)
         id == IF Bonded(h) THEN PeerId(h) ELSE Len(bonds)
     IN /\ bonds' = all
        /\ m_peer_id' = id
        /\ StoreBond(IF Bonded(h) THEN "update" ELSE "bond")
        /\ known' = known \cup {id}
        /\ IF PlaceLeft
             THEN /\ m_whitelist_peers' = Append(m_whitelist_peers, id)
                  /\ m_is_wl_changed' =
                       [m_is_wl_changed EXCEPT !["my_ble_peer_manager"] = TRUE]
             ELSE UNCHANGED <<m_whitelist_peers, m_is_wl_changed>>
  /\ evts' = Tail(evts)
  /\ UNCHANGED <<written, linkVars, conn, pm_whitelist, advVars, bondless>>

(* The whitelist part of on_ble_evt; then advertising starts again.        *)
DispatchDisconnected ==
  /\ NextIs("DISCONNECTED")
  /\ conn' = NoHost
  /\ IF m_is_wl_changed["my_ble_connection"]
       THEN /\ pm_whitelist' = m_whitelist_peers
            /\ m_is_wl_changed' =
                 [m_is_wl_changed EXCEPT !["my_ble_connection"] = FALSE]
       ELSE UNCHANGED <<pm_whitelist, m_is_wl_changed>>
  /\ AdvStart("directed", flash, pm_whitelist')
  /\ evts' = Tail(evts)
  /\ UNCHANGED <<bonds, flashVars, linkVars, m_peer_id, m_whitelist_peers,
                 historyVars>>

(* After the slow mode comes BLE_ADV_EVT_IDLE: sleep_mode_enter, which     *)
(* only a reset ends.                                                      *)
DispatchAdvTimeout ==
  /\ NextIs("ADV_TIMEOUT")
  /\ \/ adv_mode = "slow" /\ Boot(Stored)
     \/ /\ adv_mode # "slow"
        /\ AdvStart(IF adv_mode = "directed" THEN "fast" ELSE "slow",
                    flash, pm_whitelist)
        /\ evts' = Tail(evts)
        /\ UNCHANGED <<bonds, flashVars, linkVars, conn, peerVars, historyVars>>

(* sys_evt_dispatch: fstorage first, and with it the Peer Manager, then    *)
(* the advertising module, which looks at what is in the queue.            *)
AdvOnSysEvt_First(queue) ==
  IF adv = "pending" THEN AdvStart(adv_mode, flash, pm_whitelist)
                     ELSE UNCHANGED advVars

AdvOnSysEvt(queue) ==
  IF adv = "pending" THEN AdvStart(adv_mode, queue, pm_whitelist)
                     ELSE UNCHANGED advVars

sys_evt_dispatch ==
  /\ written
  /\ written' = FALSE
  /\ RetryHeld(Tail(flash), Head(flash) = "gc" \/ ~full)
  /\ AdvOnSysEvt(flash')
  /\ UNCHANGED <<bonds, linkVars, evts, conn, peerVars, historyVars>>

Next ==
  \/ \E h \in Hosts : HostConnects(h)
  \/ HostLeaves \/ HostEncrypts \/ HostAsksPairing \/ HostPairs
  \/ AdvTimesOut \/ FlashCompletes
  \/ DispatchConnected \/ DispatchSecured \/ DispatchKeyMissing
  \/ DispatchSecParamsRequest \/ DispatchBonded
  \/ DispatchDisconnected \/ DispatchAdvTimeout
  \/ sys_evt_dispatch
  \/ Reset

Spec == Init /\ [][Next]_vars

(* The flash ends what it began, and the main loop dispatches its events.  *)
Fairness == WF_vars(FlashCompletes) /\ WF_vars(sys_evt_dispatch)

FairSpec == Spec /\ Fairness

-----------------------------------------------------------------------------
(* Every variable has its type.                                            *)
TypeOK ==
  /\ ToSet(bonds) \subseteq Hosts /\ Len(bonds) <= Cardinality(Hosts)
  /\ ToSet(flash) \subseteq {"bond", "update", "rank", "gc"}
  /\ Len(flash) <= FDS_OP_QUEUE_SIZE
  /\ {written, full, gc_refused} \subseteq BOOLEAN
  /\ written => flash # <<>>
  /\ ToSet(held) \subseteq {"bond", "update"}
  /\ {link, conn} \subseteq Hosts \cup {NoHost}
  /\ sec \in {"none", "asked", "requested", "pairing"}
  /\ Len(evts) <= MaxEvents
  /\ m_peer_id \in PeerIds \cup {0, PM_PEER_ID_INVALID}
  /\ ToSet(m_whitelist_peers) \subseteq PeerIds
  /\ ToSet(pm_whitelist) \subseteq PeerIds
  /\ Len(m_whitelist_peers) <= BLE_GAP_WHITELIST_ADDR_MAX_COUNT
  /\ m_is_wl_changed \in [Units -> BOOLEAN]
  /\ adv \in {"off", "pending", "directed", "fast", "slow"}
  /\ adv_mode \in {"directed", "fast", "slow"}
  /\ adv_filter \subseteq 0 .. Len(bonds) - 1
  /\ known \subseteq PeerIds \cup {PM_PEER_ID_INVALID} /\ bondless \in BOOLEAN

(* No place of the whitelist is taken twice by the same peer               *)
(* (my_ble_peer_manager.c:70-74, 101-105).                                 *)
NoPeerTwice ==
  Cardinality(ToSet(m_whitelist_peers)) = Len(m_whitelist_peers)

(* A whitelist in use locks out no bonded host, unless it is full          *)
(* (my_ble_advertising.c:113-138).                                         *)
BondedHostsAdmitted ==
  adv \in {"fast", "slow"} /\ adv_filter # {} =>
    \/ \A h \in ToSet(bonds) : Admits(h)
    \/ Cardinality(adv_filter) = BLE_GAP_WHITELIST_ADDR_MAX_COUNT

(* Once a reset has found a bond, no stranger is connected to until the    *)
(* next (my_ble_advertising.c:39-53, 130-152).                             *)
StrangersShutOut == ~bondless /\ link # NoHost => Bonded(link)

(* Directed advertising calls a peer heard of since the reset, although    *)
(* m_peer_id starts as 0, a valid identifier (my_ble_advertising.c:3,      *)
(* 55-69).                                                                 *)
DirectedToKnownPeer == adv = "directed" => adv_filter \subseteq known

(* With everything dispatched and written, the controller is connected or  *)
(* can be (my_ble_connection.c:145-154).                                   *)
Reachable ==
  link = NoHost /\ evts = <<>> /\ flash = <<>> => adv \notin {"off", "pending"}

(* A bond stays in memory alone only when a collection has been refused,   *)
(* which nothing asks for again (my_ble_peer_manager.c:107-116): again and *)
(* again all bonds are in the flash, or wait for that collection.          *)
BondsReachFlash == []<>(Stored = bonds \/ gc_refused)

(* "The whitelist has been modified, update it in the Peer Manager."       *)
(* (my_ble_connection.c:59): after the link, the Peer Manager has the      *)
(* application's whitelist.                                                *)
PeerManagerUpdated ==
  [][DispatchDisconnected => pm_whitelist' = m_whitelist_peers]_vars

=============================================================================
