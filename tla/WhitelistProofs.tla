--------------------------- MODULE WhitelistProofs ---------------------------
(***************************************************************************)
(* Who may connect, for any number of hosts, any size of the whitelist and *)
(* any length of the queue of events: the proofs of the invariants of      *)
(* Whitelist.                                                              *)
(*                                                                         *)
(* First, strangers are shut out: once a reset has found a bond, every     *)
(* link until the next reset is one with a bonded host.  No code sets the  *)
(* copy of m_is_wl_changed that on_ble_evt reads, so the Peer Manager      *)
(* keeps the whitelist of the reset, which is not empty; every start of    *)
(* advertising replies with it, or with the address of a bond, and bonds   *)
(* are never removed.                                                      *)
(*                                                                         *)
(* Then, from the order of the events, the other invariants and the types. *)
(***************************************************************************)
EXTENDS Whitelist, FiniteSetTheorems, TLAPS

AnyHost == Hosts \cup {NoHost}
Modes == {"directed", "fast", "slow"}
FlashOps == {"bond", "update", "rank", "gc"}
BleEvents ==
  [evt : {"CONNECTED", "DISCONNECTED", "ENCRYPTED", "KEY_MISSING",
          "SEC_PARAMS_REQUEST", "BONDED", "PAIRED", "ADV_TIMEOUT"},
   host : AnyHost]
BondIds(peers) == 0 .. Len(peers) - 1

(* The types the argument needs.                                           *)
Types ==
  /\ bonds \in Seq(AnyHost)
  /\ flash \in Seq(FlashOps) /\ written \in BOOLEAN /\ (written => flash # <<>>)
  /\ held \in Seq(FlashOps)
  /\ link \in AnyHost
  /\ evts \in Seq(BleEvents)
  /\ pm_whitelist \in Seq(Nat)
  /\ m_is_wl_changed \in [Units -> BOOLEAN]
  /\ adv_mode \in Modes /\ bondless \in BOOLEAN

(* The Peer Manager's whitelist is the one of the reset.                   *)
WhitelistOfReset ==
  /\ ToSet(pm_whitelist) \subseteq BondIds(bonds)
  /\ ~bondless => pm_whitelist # <<>>
  /\ ~m_is_wl_changed["my_ble_connection"]

(* Advertising admits bonded hosts only.                                   *)
FilterOfBonds ==
  /\ adv_filter \subseteq BondIds(bonds)
  /\ ~bondless /\ adv \in {"fast", "slow"} => adv_filter # {}

ShutOutInv == Types /\ WhitelistOfReset /\ FilterOfBonds /\ StrangersShutOut

-----------------------------------------------------------------------------
(* A prefix of the bonds is a sequence of hosts.                           *)
LEMMA PrefixType ==
  ASSUME NEW S, NEW s \in Seq(S), NEW n \in Int, n <= Len(s)
  PROVE  SubSeq(s, 1, n) \in Seq(S)
<1>1. CASE n >= 0
  BY <1>1
<1>2. CASE n < 0
  <2>1. 1 .. n = {} /\ 1 .. 0 = {}
    BY <1>2
  <2>2. SubSeq(s, 1, n) = <<>>
    BY <1>2
  <2> QED BY <2>2
<1> QED BY <1>1, <1>2

(* What a reset finds in the flash are the first bonds, or none.           *)
LEMMA StoredType ==
  ASSUME Types
  PROVE  /\ Stored \in Seq(AnyHost)
         /\ \E n \in Int : n <= Len(bonds) /\ Stored = SubSeq(bonds, 1, n)
<1> DEFINE queue == IF written THEN Tail(flash) ELSE flash
           left == queue \o held
           unwritten == {i \in 1 .. Len(left) : left[i] = "bond"}
<1>1. left \in Seq(FlashOps)
  <2>1. queue \in Seq(FlashOps)
    <3>1. CASE written
      BY <3>1 DEF Types
    <3>2. CASE ~written
      BY <3>2 DEF Types
    <3> QED BY <3>1, <3>2
  <2> HIDE DEF queue
  <2> QED BY <2>1 DEF Types
<1>2. IsFiniteSet(unwritten) /\ Cardinality(unwritten) \in Nat
  <2>1. IsFiniteSet(1 .. Len(left))
    BY <1>1, FS_Interval
  <2> QED BY <2>1, FS_Subset, FS_CardinalityType, unwritten \subseteq 1 .. Len(left)
<1>3. bonds \in Seq(AnyHost) /\ Len(bonds) \in Nat
  BY DEF Types
<1>4. Stored = SubSeq(bonds, 1, Len(bonds) - Cardinality(unwritten))
  BY DEF Stored
<1> HIDE DEF unwritten
<1>5. /\ Len(bonds) - Cardinality(unwritten) \in Int
      /\ Len(bonds) - Cardinality(unwritten) <= Len(bonds)
  BY <1>2, <1>3
<1> QED BY <1>3, <1>4, <1>5, PrefixType

(* peer_list_get gives identifiers of bonds, and some when there are any.  *)
LEMMA PeerList ==
  ASSUME NEW S, NEW peers \in Seq(S)
  PROVE  /\ peer_list_get(peers) \in Seq(Nat)
         /\ ToSet(peer_list_get(peers)) \subseteq BondIds(peers)
         /\ peers # <<>> => peer_list_get(peers) # <<>>
<1> DEFINE n == IF Len(peers) < BLE_GAP_WHITELIST_ADDR_MAX_COUNT
                  THEN Len(peers) ELSE BLE_GAP_WHITELIST_ADDR_MAX_COUNT
<1>1. n \in Nat /\ n <= Len(peers) /\ (peers # <<>> => n > 0)
  BY WhitelistAssumption
<1>2. peer_list_get(peers) = [i \in 1 .. n |-> i - 1]
  BY DEF peer_list_get
<1> HIDE DEF n
<1>3. peer_list_get(peers) \in Seq(Nat) /\ Len(peer_list_get(peers)) = n
  BY <1>1, <1>2
<1>4. \A i \in 1 .. n : i - 1 \in BondIds(peers)
  BY <1>1 DEF BondIds
<1>5. ToSet(peer_list_get(peers)) \subseteq BondIds(peers)
  BY <1>2, <1>4 DEF ToSet
<1> QED BY <1>1, <1>3, <1>5

(* A sequence that is not empty has elements.                              *)
LEMMA SomeElement ==
  ASSUME NEW S, NEW s \in Seq(S), s # <<>>
  PROVE  ToSet(s) # {}
<1>1. 1 \in DOMAIN s
  OBVIOUS
<1> QED BY <1>1 DEF ToSet

(* Advertising that starts admits bonded hosts only.                       *)
LEMMA AdvStartFilter ==
  ASSUME FilterOfBonds, bonds' = bonds, bondless' = bondless,
         bonds \in Seq(AnyHost),
         NEW mode \in Modes, NEW queue,
         NEW whitelist \in Seq(Nat),
         ToSet(whitelist) \subseteq BondIds(bonds),
         ~bondless => whitelist # <<>>,
         AdvStart(mode, queue, whitelist)
  PROVE  FilterOfBonds'
<1>1. CASE adv' = "pending" /\ adv_filter' = adv_filter
  BY <1>1 DEF FilterOfBonds, BondIds
<1>2. CASE adv' = "directed" /\ adv_filter' = PeerAddrReply
  BY <1>2 DEF FilterOfBonds, BondIds, PeerAddrReply
<1>3. CASE adv_filter' = ToSet(whitelist)
  BY <1>3, SomeElement DEF FilterOfBonds, BondIds
<1> QED BY <1>1, <1>2, <1>3 DEF AdvStart, WhitelistReply

LEMMA AdvStartMode ==
  ASSUME NEW mode \in Modes, NEW queue, NEW whitelist,
         AdvStart(mode, queue, whitelist)
  PROVE  adv_mode' \in Modes
BY DEF AdvStart, Modes

(* A reset establishes the invariant.                                      *)
LEMMA BootShutsOut ==
  ASSUME NEW peers \in Seq(AnyHost), Boot(peers)
  PROVE  ShutOutInv'
<1>1. /\ peer_list_get(peers) \in Seq(Nat)
      /\ ToSet(peer_list_get(peers)) \subseteq BondIds(peers)
      /\ peers # <<>> => peer_list_get(peers) # <<>>
  BY PeerList
<1>2. Types'
  <2>1. /\ bonds' \in Seq(AnyHost)
        /\ flash' \in Seq(FlashOps) /\ held' \in Seq(FlashOps)
        /\ evts' \in Seq(BleEvents) /\ pm_whitelist' \in Seq(Nat)
    BY <1>1 DEF Boot
  <2>2. m_is_wl_changed' \in [Units -> BOOLEAN] /\ bondless' \in BOOLEAN
    BY DEF Boot
  <2>3. written' = FALSE /\ link' \in AnyHost /\ adv_mode' \in Modes
    BY DEF Boot, AnyHost, AdvStart, Modes
  <2> QED BY <2>1, <2>2, <2>3 DEF Types
<1>3. WhitelistOfReset'
  BY <1>1 DEF Boot, WhitelistOfReset, BondIds, Units
<1>4. FilterOfBonds'
  <2>1. adv' = "fast" /\ adv_filter' = ToSet(peer_list_get(peers))
    BY DEF Boot, AdvStart, WhitelistReply
  <2>2. bonds' = peers /\ bondless' = (peers = <<>>)
    BY DEF Boot
  <2> QED BY <1>1, <2>1, <2>2, SomeElement DEF FilterOfBonds, BondIds
<1>5. StrangersShutOut'
  BY DEF Boot, StrangersShutOut
<1> QED BY <1>2, <1>3, <1>4, <1>5 DEF ShutOutInv

LEMMA InitShutsOut == Init => ShutOutInv
<1> SUFFICES ASSUME Init PROVE ShutOutInv
  OBVIOUS
<1>1. Types
  <2>1. /\ bonds \in Seq(AnyHost)
        /\ flash \in Seq(FlashOps) /\ held \in Seq(FlashOps)
        /\ evts \in Seq(BleEvents) /\ pm_whitelist \in Seq(Nat)
    BY DEF Init
  <2>2. m_is_wl_changed \in [Units -> BOOLEAN] /\ bondless \in BOOLEAN
    BY DEF Init
  <2>3. written = FALSE /\ link \in AnyHost /\ adv_mode \in Modes
    BY DEF Init, AnyHost, Modes
  <2> QED BY <2>1, <2>2, <2>3 DEF Types
<1>2. WhitelistOfReset
  BY DEF Init, WhitelistOfReset, BondIds, Units, ToSet
<1>3. FilterOfBonds
  BY DEF Init, FilterOfBonds
<1> QED BY <1>1, <1>2, <1>3 DEF Init, StrangersShutOut, ShutOutInv

(* Appending to a queue and taking its head off keep its type.             *)
LEMMA QueueTypes ==
  ASSUME NEW S, NEW s \in Seq(S)
  PROVE  /\ \A e \in S : Append(s, e) \in Seq(S) /\ Append(s, e) # <<>>
         /\ s # <<>> => Head(s) \in S /\ Tail(s) \in Seq(S)
<1>1. ASSUME NEW e \in S PROVE Append(s, e) \in Seq(S) /\ Append(s, e) # <<>>
  <2>1. Append(s, e) \in Seq(S) /\ Len(Append(s, e)) = Len(s) + 1
    OBVIOUS
  <2>2. Len(s) \in Nat /\ Len(<<>>) = 0
    OBVIOUS
  <2> QED BY <2>1, <2>2
<1>2. s # <<>> => Head(s) \in S /\ Tail(s) \in Seq(S)
  OBVIOUS
<1> QED BY <1>1, <1>2

(* Storing a bond keeps the queues typed and not empty.                    *)
LEMMA StoreBondTypes ==
  ASSUME Types, NEW op \in {"bond", "update"}, StoreBond(op)
  PROVE  /\ flash' \in Seq(FlashOps) /\ held' \in Seq(FlashOps)
         /\ flash # <<>> => flash' # <<>>
<1>1. {op, "gc", "rank"} \subseteq FlashOps
  BY DEF FlashOps
<1>2. \A q \in Seq(FlashOps) : \A w \in FlashOps :
        Append(q, w) \in Seq(FlashOps) /\ Append(q, w) # <<>>
  BY QueueTypes
<1>3. flash \in Seq(FlashOps) /\ held \in Seq(FlashOps)
  BY DEF Types
<1>4. PICK q \in {flash, Append(flash, "gc"), Append(flash, op)} :
        flash' \in {q, Append(q, "rank")}
  BY DEF StoreBond, ReportStorageFull, StorageFull, Ranked
<1>5. q \in Seq(FlashOps) /\ (flash # <<>> => q # <<>>)
  BY <1>1, <1>2, <1>3
<1>6. flash' \in Seq(FlashOps) /\ (flash # <<>> => flash' # <<>>)
  BY <1>1, <1>2, <1>4, <1>5
<1>7. held' = held \/ held' = Append(held, op)
  BY DEF StoreBond
<1>8. held' \in Seq(FlashOps)
  BY <1>1, <1>2, <1>3, <1>7
<1> QED BY <1>6, <1>8

(* What is tried again, and what is left of what is held back.             *)
LEMMA Split ==
  ASSUME NEW S, NEW s \in Seq(S), NEW n \in 1 .. Len(s)
  PROVE  /\ SubSeq(s, 1, n) \in Seq(S)
         /\ SubSeq(s, n + 1, Len(s)) \in Seq(S)
<1>1. Len(s) \in Nat /\ n \in Nat /\ n + 1 \in Nat
  OBVIOUS
<1>2. \A i \in 1 .. n : s[i] \in S
  OBVIOUS
<1>3. \A i \in n + 1 .. Len(s) : s[i] \in S
  OBVIOUS
<1> QED BY <1>1, <1>2, <1>3

(* So does trying again what is held back.                                 *)
LEMMA RetryHeldTypes ==
  ASSUME held \in Seq(FlashOps), NEW queue \in Seq(FlashOps), NEW room,
         RetryHeld(queue, room)
  PROVE  flash' \in Seq(FlashOps) /\ held' \in Seq(FlashOps)
<1>1. CASE flash' = queue /\ held' = held
  BY <1>1
<1>2. CASE ~(held = <<>> \/ ~room)
  <2>1. PICK n \in 1 .. Len(held) :
          /\ held' = SubSeq(held, n + 1, Len(held))
          /\ flash' \in {queue \o SubSeq(held, 1, n),
                        Append(queue \o SubSeq(held, 1, n), "gc")}
    BY <1>2 DEF RetryHeld, ReportStorageFull, StorageFull
  <2>2. /\ SubSeq(held, 1, n) \in Seq(FlashOps)
        /\ SubSeq(held, n + 1, Len(held)) \in Seq(FlashOps)
    BY Split
  <2>3. queue \o SubSeq(held, 1, n) \in Seq(FlashOps)
    BY <2>2
  <2> QED BY <2>1, <2>2, <2>3, QueueTypes, "gc" \in FlashOps DEF FlashOps
<1> QED BY <1>1, <1>2 DEF RetryHeld

(* A host that connects is bonded, unless the reset found no bond.         *)
LEMMA ConnectShutsOut ==
  ASSUME ShutOutInv, NEW h \in Hosts, HostConnects(h)
  PROVE  ShutOutInv'
<1> USE DEF ShutOutInv
<1>1. Types'
  BY DEF HostConnects, Types, AnyHost, BleEvents, flashVars, peerVars, historyVars
<1>2. WhitelistOfReset'
  BY DEF HostConnects, WhitelistOfReset, BondIds, peerVars, historyVars
<1>3. FilterOfBonds'
  BY DEF HostConnects, FilterOfBonds, BondIds, historyVars
<1>4. StrangersShutOut'
  <2>1. SUFFICES ASSUME ~bondless PROVE Bonded(h)
    BY DEF HostConnects, StrangersShutOut, Bonded, historyVars
  <2>2. h \in HostsOf(adv_filter)
    BY <2>1 DEF HostConnects, Admits, FilterOfBonds
  <2>3. PICK i \in adv_filter : h = bonds[i + 1]
    BY <2>2 DEF HostsOf
  <2>4. i + 1 \in DOMAIN bonds
    BY <2>3 DEF FilterOfBonds, BondIds, Types
  <2> QED BY <2>3, <2>4 DEF Bonded, ToSet
<1> QED BY <1>1, <1>2, <1>3, <1>4

(* A new bond leaves the others where they are.                            *)
LEMMA BondedShutsOut ==
  ASSUME ShutOutInv, DispatchBonded
  PROVE  ShutOutInv'
<1> USE DEF ShutOutInv
<1> DEFINE h == Head(evts).host
           all == IF Bonded(h) THEN bonds ELSE Append(bonds, h)
<1>1. h \in AnyHost /\ Tail(evts) \in Seq(BleEvents)
  <2>1. evts # <<>> /\ evts \in Seq(BleEvents)
    BY DEF DispatchBonded, NextIs, Types
  <2>2. Head(evts) \in BleEvents /\ Tail(evts) \in Seq(BleEvents)
    BY <2>1
  <2> QED BY <2>2 DEF BleEvents
<1>2. bonds' = all
  BY DEF DispatchBonded
<1>3. /\ bonds' \in Seq(AnyHost)
      /\ BondIds(bonds) \subseteq BondIds(bonds')
      /\ ToSet(bonds) \subseteq ToSet(bonds')
  <2>1. CASE Bonded(h)
    BY <1>2, <2>1 DEF Types
  <2>2. CASE ~Bonded(h)
    <3>1. bonds' = Append(bonds, h)
      BY <1>2, <2>2
    <3>2. bonds' \in Seq(AnyHost) /\ Len(bonds') = Len(bonds) + 1
      BY <1>1, <3>1 DEF Types
    <3>3. \A i \in DOMAIN bonds : i \in DOMAIN bonds' /\ bonds'[i] = bonds[i]
      BY <1>1, <3>1 DEF Types
    <3> QED BY <3>2, <3>3 DEF BondIds, ToSet, Types
  <2> QED BY <2>1, <2>2
<1>4. Types'
  <2>1. /\ flash' \in Seq(FlashOps) /\ held' \in Seq(FlashOps)
        /\ flash # <<>> => flash' # <<>>
    BY StoreBondTypes DEF DispatchBonded
  <2>2. m_is_wl_changed' \in [Units -> BOOLEAN]
    BY DEF DispatchBonded, Types
  <2> QED BY <1>1, <1>3, <2>1, <2>2
        DEF DispatchBonded, Types, linkVars, advVars
<1>5. WhitelistOfReset'
  <2>1. pm_whitelist' = pm_whitelist /\ bondless' = bondless
    BY DEF DispatchBonded
  <2>2. m_is_wl_changed'["my_ble_connection"] = m_is_wl_changed["my_ble_connection"]
    BY DEF DispatchBonded, Types, Units
  <2> QED BY <1>3, <2>1, <2>2 DEF WhitelistOfReset
<1>6. FilterOfBonds'
  BY <1>3 DEF DispatchBonded, FilterOfBonds, advVars
<1>7. StrangersShutOut'
  BY <1>3 DEF DispatchBonded, StrangersShutOut, Bonded, linkVars
<1> QED BY <1>4, <1>5, <1>6, <1>7

(* Steps that leave the bonds, the whitelist and advertising alone.        *)
Elsewhere ==
  UNCHANGED <<bonds, pm_whitelist, m_is_wl_changed, adv_mode, adv_filter,
              bondless>>

LEMMA ElsewhereKeeps ==
  ASSUME ShutOutInv, Elsewhere, adv' \in {adv, "off"}, link' \in {link, NoHost}
  PROVE  WhitelistOfReset' /\ FilterOfBonds' /\ StrangersShutOut'
<1>1. WhitelistOfReset'
  BY DEF ShutOutInv, Elsewhere, WhitelistOfReset
<1>2. FilterOfBonds'
  BY DEF ShutOutInv, Elsewhere, FilterOfBonds
<1>3. StrangersShutOut'
  BY DEF ShutOutInv, Elsewhere, StrangersShutOut, Bonded
<1> QED BY <1>1, <1>2, <1>3

(* Hosts, timeouts and the flash.                                          *)
LEMMA SoftDeviceShutsOut ==
  ASSUME ShutOutInv,
         \/ HostLeaves \/ HostEncrypts \/ HostAsksPairing \/ HostPairs
         \/ AdvTimesOut \/ FlashCompletes
  PROVE  ShutOutInv'
<1>1. Elsewhere /\ adv' \in {adv, "off"} /\ link' \in {link, NoHost}
  BY DEF Elsewhere, HostLeaves, HostEncrypts, HostAsksPairing, HostPairs,
         AdvTimesOut, FlashCompletes, flashVars, linkVars, peerVars, advVars,
         historyVars
<1>2. evts' \in Seq(BleEvents)
  <2>1. CASE evts' = evts
    BY <2>1 DEF ShutOutInv, Types
  <2>2. CASE \E e \in BleEvents : evts' = Append(evts, e)
    BY <2>2, QueueTypes DEF ShutOutInv, Types
  <2>3. \/ evts' = evts
        \/ \E type \in {"DISCONNECTED", "ENCRYPTED", "KEY_MISSING",
                         "SEC_PARAMS_REQUEST", "BONDED", "PAIRED", "ADV_TIMEOUT"} :
             evts' = Append(evts, Event(type))
    BY DEF HostLeaves, HostEncrypts, HostAsksPairing, HostPairs, AdvTimesOut,
           FlashCompletes
  <2>4. \A type \in {"DISCONNECTED", "ENCRYPTED", "KEY_MISSING",
                     "SEC_PARAMS_REQUEST", "BONDED", "PAIRED", "ADV_TIMEOUT"} :
          Event(type) \in BleEvents
    BY DEF Event, BleEvents, ShutOutInv, Types
  <2> QED BY <2>1, <2>2, <2>3, <2>4
<1>3. /\ flash' = flash /\ held' = held
      /\ written' \in BOOLEAN /\ (written' => flash' # <<>>)
  <2>1. CASE UNCHANGED flashVars
    BY <2>1 DEF flashVars, ShutOutInv, Types
  <2>2. CASE FlashCompletes
    BY <2>2 DEF FlashCompletes
  <2> QED
    BY <2>1, <2>2 DEF HostLeaves, HostEncrypts, HostAsksPairing, HostPairs,
                      AdvTimesOut
<1>4. Types'
  BY <1>1, <1>2, <1>3 DEF ShutOutInv, Types, Elsewhere, AnyHost
<1> QED BY <1>1, <1>4, ElsewhereKeeps DEF ShutOutInv

(* Events that the Peer Manager alone reacts to.                           *)
LEMMA SecurityShutsOut ==
  ASSUME ShutOutInv,
         \/ DispatchConnected \/ DispatchSecured
         \/ DispatchKeyMissing \/ DispatchSecParamsRequest
  PROVE  ShutOutInv'
<1>1. Elsewhere /\ adv' = adv /\ link' = link
  BY DEF Elsewhere, DispatchConnected, DispatchSecured, DispatchKeyMissing,
         DispatchSecParamsRequest, linkVars, peerVars, advVars, historyVars
<1>2. evts' \in Seq(BleEvents)
  BY QueueTypes DEF DispatchConnected, DispatchSecured, DispatchKeyMissing,
     DispatchSecParamsRequest, NextIs, ShutOutInv, Types
<1>3. flash' = flash \/ flash' = Append(flash, "rank")
  <2>1. \A q \in Ranked(flash) : q = flash \/ q = Append(flash, "rank")
    BY DEF Ranked
  <2>2. flash' \in Ranked(flash) \/ flash' = flash
    <3>1. CASE DispatchConnected
      BY <3>1 DEF DispatchConnected
    <3>2. CASE DispatchSecured
      BY <3>2 DEF DispatchSecured
    <3>3. CASE DispatchKeyMissing \/ DispatchSecParamsRequest
      BY <3>3 DEF DispatchKeyMissing, DispatchSecParamsRequest, flashVars
    <3> QED BY <3>1, <3>2, <3>3
  <2> QED BY <2>1, <2>2
<1>4. flash' \in Seq(FlashOps) /\ (flash # <<>> => flash' # <<>>)
  <2>1. flash \in Seq(FlashOps) /\ "rank" \in FlashOps
    BY DEF FlashOps, ShutOutInv, Types
  <2>2. Append(flash, "rank") \in Seq(FlashOps) /\ Append(flash, "rank") # <<>>
    BY <2>1, QueueTypes
  <2> QED BY <1>3, <2>1, <2>2
<1>5. written' = written /\ held' = held
  BY DEF DispatchConnected, DispatchSecured, DispatchKeyMissing,
         DispatchSecParamsRequest, flashVars
<1>6. Types'
  BY <1>1, <1>2, <1>4, <1>5 DEF ShutOutInv, Types, Elsewhere
<1> QED BY <1>1, <1>6, ElsewhereKeeps DEF ShutOutInv

(* Advertising that starts again after a link, a timeout or a write.       *)
LEMMA RestartShutsOut ==
  ASSUME ShutOutInv,
         bonds' = bonds, bondless' = bondless, link' = link,
         pm_whitelist' = pm_whitelist, m_is_wl_changed' = m_is_wl_changed,
         NEW mode \in Modes, NEW queue,
         \/ AdvStart(mode, queue, pm_whitelist)
         \/ UNCHANGED <<adv, adv_filter>>
  PROVE  WhitelistOfReset' /\ FilterOfBonds' /\ StrangersShutOut'
<1>1. WhitelistOfReset'
  BY DEF ShutOutInv, WhitelistOfReset
<1>2. FilterOfBonds'
  <2>1. CASE UNCHANGED <<adv, adv_filter>>
    BY <2>1 DEF ShutOutInv, FilterOfBonds
  <2>2. CASE AdvStart(mode, queue, pm_whitelist)
    BY <2>2, AdvStartFilter DEF ShutOutInv, Types, WhitelistOfReset
  <2> QED BY <2>1, <2>2
<1>3. StrangersShutOut'
  BY DEF ShutOutInv, StrangersShutOut, Bonded
<1> QED BY <1>1, <1>2, <1>3

LEMMA DisconnectedShutsOut ==
  ASSUME ShutOutInv, DispatchDisconnected
  PROVE  ShutOutInv'
<1>1. pm_whitelist' = pm_whitelist /\ m_is_wl_changed' = m_is_wl_changed
  BY DEF DispatchDisconnected, ShutOutInv, WhitelistOfReset
<1>2. /\ AdvStart("directed", flash, pm_whitelist) /\ "directed" \in Modes
      /\ bonds' = bonds /\ bondless' = bondless /\ link' = link
      /\ flash' = flash /\ written' = written /\ held' = held
  BY <1>1 DEF DispatchDisconnected, linkVars, flashVars, historyVars, Modes
<1>3. evts' \in Seq(BleEvents)
  BY QueueTypes DEF DispatchDisconnected, NextIs, ShutOutInv, Types
<1>4. Types'
  BY <1>1, <1>2, <1>3, AdvStartMode DEF ShutOutInv, Types
<1>5. WhitelistOfReset' /\ FilterOfBonds' /\ StrangersShutOut'
  BY <1>1, <1>2, RestartShutsOut
<1> QED BY <1>4, <1>5 DEF ShutOutInv

LEMMA AdvTimeoutShutsOut ==
  ASSUME ShutOutInv, DispatchAdvTimeout
  PROVE  ShutOutInv'
<1>1. CASE Boot(Stored)
  BY <1>1, StoredType, BootShutsOut DEF ShutOutInv
<1>2. CASE ~Boot(Stored)
  <2> DEFINE mode == IF adv_mode = "directed" THEN "fast" ELSE "slow"
  <2>1. /\ AdvStart(mode, flash, pm_whitelist)
        /\ evts' = Tail(evts) /\ evts # <<>>
        /\ UNCHANGED <<bonds, flashVars, linkVars, conn, peerVars, historyVars>>
    BY <1>2 DEF DispatchAdvTimeout, NextIs
  <2>2. evts' \in Seq(BleEvents)
    BY <2>1, QueueTypes DEF ShutOutInv, Types
  <2>3. mode \in Modes
    BY DEF Modes
  <2> HIDE DEF mode
  <2>4. Types'
    BY <2>1, <2>2, <2>3, AdvStartMode
    DEF ShutOutInv, Types, flashVars, linkVars, peerVars, historyVars
  <2>5. WhitelistOfReset' /\ FilterOfBonds' /\ StrangersShutOut'
    BY <2>1, <2>3, RestartShutsOut DEF linkVars, peerVars, historyVars
  <2> QED BY <2>4, <2>5 DEF ShutOutInv
<1> QED BY <1>1, <1>2

LEMMA SysEvtShutsOut ==
  ASSUME ShutOutInv, sys_evt_dispatch
  PROVE  ShutOutInv'
<1>1. /\ flash # <<>> /\ written' = FALSE
      /\ UNCHANGED <<bonds, link, evts, pm_whitelist, m_is_wl_changed, bondless>>
  BY DEF sys_evt_dispatch, ShutOutInv, Types, linkVars, peerVars, historyVars
<1>2. Types'
  <2>1. adv_mode' \in Modes
    BY AdvStartMode DEF sys_evt_dispatch, AdvOnSysEvt, advVars, ShutOutInv, Types
  <2>2. flash' \in Seq(FlashOps) /\ held' \in Seq(FlashOps)
    BY <1>1, QueueTypes, RetryHeldTypes DEF sys_evt_dispatch, ShutOutInv, Types
  <2> QED BY <1>1, <2>1, <2>2 DEF ShutOutInv, Types
<1>3. \/ AdvStart(adv_mode, flash', pm_whitelist)
      \/ UNCHANGED <<adv, adv_filter>>
  BY DEF sys_evt_dispatch, AdvOnSysEvt, advVars
<1>4. WhitelistOfReset' /\ FilterOfBonds' /\ StrangersShutOut'
  BY <1>1, <1>3, RestartShutsOut DEF ShutOutInv, Types
<1> QED BY <1>2, <1>4 DEF ShutOutInv

-----------------------------------------------------------------------------
(* Every step preserves the invariant.                                     *)
LEMMA NextShutsOut == ShutOutInv /\ [Next]_vars => ShutOutInv'
<1> SUFFICES ASSUME ShutOutInv, [Next]_vars PROVE ShutOutInv'
  OBVIOUS
<1>1. ASSUME NEW h \in Hosts, HostConnects(h) PROVE ShutOutInv'
  BY <1>1, ConnectShutsOut
<1>2. CASE \/ HostLeaves \/ HostEncrypts \/ HostAsksPairing \/ HostPairs
           \/ AdvTimesOut \/ FlashCompletes
  BY <1>2, SoftDeviceShutsOut
<1>3. CASE \/ DispatchConnected \/ DispatchSecured
           \/ DispatchKeyMissing \/ DispatchSecParamsRequest
  BY <1>3, SecurityShutsOut
<1>4. CASE DispatchBonded
  BY <1>4, BondedShutsOut
<1>5. CASE DispatchDisconnected
  BY <1>5, DisconnectedShutsOut
<1>6. CASE DispatchAdvTimeout
  BY <1>6, AdvTimeoutShutsOut
<1>7. CASE sys_evt_dispatch
  BY <1>7, SysEvtShutsOut
<1>8. CASE Reset
  BY <1>8, StoredType, BootShutsOut DEF Reset, ShutOutInv
<1>9. CASE UNCHANGED vars
  BY <1>9 DEF vars, flashVars, linkVars, peerVars, advVars, historyVars,
     ShutOutInv, Types, WhitelistOfReset, FilterOfBonds, StrangersShutOut, Bonded
<1> QED
  BY <1>1, <1>2, <1>3, <1>4, <1>5, <1>6, <1>7, <1>8, <1>9 DEF Next

(* Once a reset has found a bond, no stranger is connected to until the    *)
(* next (my_ble_advertising.c:39-53, 130-152), for any number of hosts and *)
(* any size of the whitelist.                                              *)
THEOREM StrangersStayOut == Spec => []StrangersShutOut
<1>1. ShutOutInv => StrangersShutOut
  BY DEF ShutOutInv
<1> QED BY <1>1, InitShutsOut, NextShutsOut, PTL DEF Spec

(* The Peer Manager's whitelist changes at a reset only: the bonds made    *)
(* since do not reach it (my_ble_connection.c:58-69, my_ble_globals.h:34). *)
THEOREM WhitelistChangesAtReset ==
  Spec => [][pm_whitelist' # pm_whitelist => Boot(Stored)]_vars
<1>1. ShutOutInv /\ [Next]_vars =>
        [pm_whitelist' # pm_whitelist => Boot(Stored)]_vars
  <2> SUFFICES ASSUME ShutOutInv, Next, pm_whitelist' # pm_whitelist
               PROVE  Boot(Stored)
    BY DEF vars, peerVars
  <2>1. CASE DispatchDisconnected
    BY <2>1 DEF DispatchDisconnected, ShutOutInv, WhitelistOfReset
  <2>2. CASE Reset
    BY <2>2 DEF Reset
  <2>3. CASE DispatchAdvTimeout
    BY <2>3 DEF DispatchAdvTimeout, peerVars
  <2>4. CASE ~DispatchDisconnected /\ ~Reset /\ ~DispatchAdvTimeout
    BY <2>4 DEF Next, HostConnects, HostLeaves, HostEncrypts, HostAsksPairing,
       HostPairs, AdvTimesOut, FlashCompletes, DispatchConnected,
       DispatchSecured, DispatchKeyMissing, DispatchSecParamsRequest, DispatchBonded,
       sys_evt_dispatch, peerVars
  <2> QED BY <2>1, <2>2, <2>3, <2>4
<1> QED BY <1>1, InitShutsOut, NextShutsOut, PTL DEF Spec

-----------------------------------------------------------------------------
(***************************************************************************)
(* The order of the events, and what it keeps true of the lists.           *)
(*                                                                         *)
(* The argument: advertising, the link and an event that ends one of them  *)
(* take turns, and that event is the last of the queue.  So the queue      *)
(* holds events of one link only, a request to pair is that of the host    *)
(* on the link, and a bond is made with a host that has none.  A bond is   *)
(* then always a new one: it takes a new place in the whitelist, and there *)
(* is none after a reset that found a bond, when strangers are shut out.   *)
(***************************************************************************)
Restarts == {"DISCONNECTED", "ADV_TIMEOUT"}
At(type) == {i \in DOMAIN evts : evts[i].evt = type}

(* Advertising, a link, or the event that ends it.                         *)
Turns ==
  /\ adv # "off" => link = NoHost /\ evts = <<>>
  /\ link # NoHost =>
       \A i \in DOMAIN evts : evts[i].evt \notin Restarts /\ evts[i].host = link
  /\ adv = "off" /\ link = NoHost =>
       evts # <<>> /\ evts[Len(evts)].evt \in Restarts
  /\ \A i \in DOMAIN evts : evts[i].evt \in Restarts => i = Len(evts)

(* One request to pair at a time, one bond for each host.                  *)
Pairing ==
  /\ link = NoHost => sec = "none"
  /\ link # NoHost /\ sec # "requested" => At("SEC_PARAMS_REQUEST") = {}
  /\ \A i, j \in At("SEC_PARAMS_REQUEST") : i = j
  /\ \A i, j \in At("BONDED") : i = j
  /\ \A i \in At("SEC_PARAMS_REQUEST"), j \in At("BONDED") : j < i
  /\ \A i \in At("BONDED") : ~Bonded(evts[i].host)
  /\ sec = "pairing" => ~Bonded(link) /\ At("BONDED") = {}

(* After a reset that found a bond, the events are those of bonded hosts.  *)
EventHosts ==
  \A i \in DOMAIN evts :
    IF evts[i].evt = "ADV_TIMEOUT"
      THEN evts[i].host = NoHost
      ELSE evts[i].host \in Hosts /\ (~bondless => Bonded(evts[i].host))

(* The reset has found a bond, and no link has been dispatched since.      *)
Fresh ==
  /\ ~bondless /\ adv_mode # "directed"
  /\ \/ link = NoHost /\ (evts = <<>> \/ Head(evts).evt = "ADV_TIMEOUT")
     \/ NextIs("CONNECTED") /\ Bonded(Head(evts).host)

PeerReported == m_peer_id \in known \/ bonds = <<>> \/ Fresh

(* The whitelist of the application, and the one that is in use.           *)
ListsOfBonds ==
  /\ m_whitelist_peers \in Seq(Nat) /\ IsInjective(m_whitelist_peers)
  /\ Len(m_whitelist_peers) <= BLE_GAP_WHITELIST_ADDR_MAX_COUNT
  /\ ToSet(m_whitelist_peers) \subseteq BondIds(bonds)
  /\ pm_whitelist = IF bondless THEN <<>> ELSE peer_list_get(bonds)
  /\ adv \in {"fast", "slow"} => adv_filter = ToSet(pm_whitelist)

(* The rest of the types, with the limits of the queues.                   *)
Bounds ==
  /\ ToSet(bonds) \subseteq Hosts /\ IsInjective(bonds)
  /\ Len(flash) <= FDS_OP_QUEUE_SIZE /\ {full, gc_refused} \subseteq BOOLEAN
  /\ held \in Seq({"bond", "update"})
  /\ conn \in AnyHost /\ Len(evts) <= MaxEvents
  /\ sec \in {"none", "asked", "requested", "pairing"}
  /\ m_peer_id \in BondIds(bonds) \cup {0, PM_PEER_ID_INVALID}
  /\ known \subseteq BondIds(bonds) \cup {PM_PEER_ID_INVALID}
  /\ adv \in {"off", "pending"} \cup Modes
  /\ adv = "pending" => flash # <<>>

OrderInv ==
  /\ ShutOutInv
  /\ Turns /\ Pairing /\ EventHosts
  /\ PeerReported /\ DirectedToKnownPeer
  /\ ListsOfBonds /\ Bounds

-----------------------------------------------------------------------------
(* An element comes last; a head is taken off.                             *)
LEMMA Arrival ==
  ASSUME NEW S, NEW s \in Seq(S), NEW e \in S, NEW t, t = Append(s, e)
  PROVE  /\ Len(s) \in Nat /\ t \in Seq(S) /\ t # <<>> /\ Len(t) = Len(s) + 1
         /\ DOMAIN s = 1 .. Len(s) /\ DOMAIN t = 1 .. Len(s) + 1
         /\ t[Len(s) + 1] = e
         /\ \A i \in DOMAIN s : t[i] = s[i]
<1>1. Len(s) \in Nat /\ t \in Seq(S) /\ Len(t) = Len(s) + 1
  OBVIOUS
<1>2. t # <<>>
  BY QueueTypes
<1>3. DOMAIN s = 1 .. Len(s) /\ DOMAIN t = 1 .. Len(s) + 1
  OBVIOUS
<1>4. t[Len(s) + 1] = e /\ \A i \in DOMAIN s : t[i] = s[i]
  OBVIOUS
<1> QED BY <1>1, <1>2, <1>3, <1>4

LEMMA Departure ==
  ASSUME NEW S, NEW s \in Seq(S), s # <<>>, NEW t, t = Tail(s)
  PROVE  /\ Len(s) \in Nat \ {0} /\ t \in Seq(S) /\ Len(t) = Len(s) - 1
         /\ DOMAIN s = 1 .. Len(s) /\ DOMAIN t = 1 .. Len(s) - 1
         /\ Head(s) = s[1]
         /\ \A i \in DOMAIN t : i + 1 \in DOMAIN s /\ t[i] = s[i + 1]
         /\ t = <<>> <=> Len(s) = 1
<1>1. Len(s) \in Nat \ {0} /\ t \in Seq(S) /\ Len(t) = Len(s) - 1
  OBVIOUS
<1>2. DOMAIN s = 1 .. Len(s) /\ DOMAIN t = 1 .. Len(s) - 1
  OBVIOUS
<1>3. Head(s) = s[1]
  OBVIOUS
<1>4. \A i \in DOMAIN t : i + 1 \in DOMAIN s /\ t[i] = s[i + 1]
  BY <1>1, <1>2
<1>5. t = <<>> <=> Len(s) = 1
  <2>1. t = <<>> <=> Len(t) = 0
    BY <1>1
  <2> QED BY <1>1, <2>1
<1> QED BY <1>1, <1>2, <1>3, <1>4, <1>5

(* The queue of events, and what a host puts in it.                        *)
LEMMA QueueOfEvents ==
  ASSUME ShutOutInv
  PROVE  evts \in Seq(BleEvents) /\ DOMAIN evts = 1 .. Len(evts)
         /\ Len(evts) \in Nat
BY DEF ShutOutInv, Types

HostEvents == {"DISCONNECTED", "ENCRYPTED", "KEY_MISSING",
               "SEC_PARAMS_REQUEST", "BONDED", "PAIRED"}

HostActs == HostLeaves \/ HostEncrypts \/ HostAsksPairing \/ HostPairs

LEMMA HostActsShape ==
  ASSUME OrderInv, HostActs
  PROVE  /\ link # NoHost /\ adv = "off"
         /\ \E type \in HostEvents : evts' = Append(evts, Event(type))
         /\ \A type \in HostEvents : Event(type) \in BleEvents
         /\ link' = link \/ HostLeaves
         /\ Len(evts) < MaxEvents
         /\ UNCHANGED <<bonds, flashVars, conn, peerVars, advVars, historyVars>>
<1>1. link # NoHost
  BY DEF HostActs, HostLeaves, HostEncrypts, HostAsksPairing, HostPairs,
         OrderInv, Pairing
<1>2. adv = "off"
  BY <1>1 DEF OrderInv, Turns
<1>3. \E type \in HostEvents : evts' = Append(evts, Event(type))
  BY DEF HostActs, HostLeaves, HostEncrypts, HostAsksPairing, HostPairs, HostEvents
<1>4. \A type \in HostEvents : Event(type) \in BleEvents
  BY DEF HostEvents, Event, BleEvents, OrderInv, ShutOutInv, Types
<1>5. link' = link \/ HostLeaves
  BY DEF HostActs, HostEncrypts, HostAsksPairing, HostPairs, linkVars
<1>6. /\ Len(evts) < MaxEvents
      /\ UNCHANGED <<bonds, flashVars, conn, peerVars, advVars, historyVars>>
  BY DEF HostActs, HostLeaves, HostEncrypts, HostAsksPairing, HostPairs, HasRoom
<1> QED BY <1>1, <1>2, <1>3, <1>4, <1>5, <1>6

(* Advertising runs with an empty queue: what ends it is the only event.   *)
LEMMA FirstEvent ==
  ASSUME OrderInv, adv # "off", NEW e \in BleEvents, evts' = Append(evts, e)
  PROVE  link = NoHost /\ evts = <<>> /\ DOMAIN evts' = {1} /\ Len(evts') = 1
         /\ evts'[1] = e /\ evts' # <<>> /\ Head(evts') = e
<1>1. link = NoHost /\ evts = <<>>
  BY DEF OrderInv, Turns
<1>2. evts' = <<e>>
  BY <1>1
<1> QED BY <1>1, <1>2

(* Events of a link, and the two that start advertising again.             *)
LinkDispatch ==
  \/ DispatchConnected \/ DispatchSecured \/ DispatchKeyMissing
  \/ DispatchSecParamsRequest \/ DispatchBonded

LEMMA LinkDispatchShape ==
  ASSUME OrderInv, LinkDispatch
  PROVE  /\ evts # <<>> /\ evts' = Tail(evts)
         /\ 1 \in DOMAIN evts /\ evts[1] = Head(evts) /\ evts[1].evt \notin Restarts
         /\ link' = link
         /\ UNCHANGED <<written, pm_whitelist, advVars, bondless>>
<1>1. evts # <<>> /\ evts' = Tail(evts) /\ Head(evts).evt \notin Restarts
  BY DEF LinkDispatch, DispatchConnected, DispatchSecured, DispatchKeyMissing,
         DispatchSecParamsRequest, DispatchBonded, NextIs, Restarts
<1>2. 1 \in DOMAIN evts /\ evts[1] = Head(evts)
  BY <1>1, QueueOfEvents, Departure DEF OrderInv
<1>3. link' = link /\ UNCHANGED <<written, pm_whitelist, advVars, bondless>>
  BY DEF LinkDispatch, DispatchConnected, DispatchSecured, DispatchKeyMissing,
         DispatchSecParamsRequest, DispatchBonded, linkVars, flashVars, peerVars,
         historyVars
<1> QED BY <1>1, <1>2, <1>3

NextMode ==
  IF NextIs("DISCONNECTED") THEN "directed"
  ELSE IF adv_mode = "directed" THEN "fast" ELSE "slow"

LEMMA RestartShape ==
  ASSUME OrderInv, DispatchDisconnected \/ DispatchAdvTimeout, ~Boot(Stored)
  PROVE  /\ evts # <<>> /\ Len(evts) = 1 /\ evts' = <<>> /\ link = NoHost
         /\ Head(evts) = evts[1] /\ DOMAIN evts = {1}
         /\ AdvStart(NextMode, flash, pm_whitelist)
         /\ NextMode \in Modes /\ adv' # "off"
         /\ conn' \in {conn, NoHost}
         /\ UNCHANGED <<bonds, flashVars, linkVars, peerVars, historyVars>>
<1>1. /\ evts # <<>> /\ Head(evts).evt \in Restarts /\ evts' = Tail(evts)
  BY DEF DispatchDisconnected, DispatchAdvTimeout, NextIs, Restarts
<1>2. Len(evts) = 1 /\ DOMAIN evts = {1} /\ Head(evts) = evts[1] /\ evts' = <<>>
  <2>1. /\ Len(evts) \in Nat \ {0} /\ DOMAIN evts = 1 .. Len(evts)
        /\ Head(evts) = evts[1] /\ (evts' = <<>> <=> Len(evts) = 1)
    BY <1>1, QueueOfEvents, Departure DEF OrderInv
  <2>2. 1 = Len(evts)
    BY <1>1, <2>1 DEF OrderInv, Turns
  <2>3. 1 .. 1 = {1}
    OBVIOUS
  <2>4. evts' = Tail(evts)
    BY <1>1
  <2> QED BY <2>1, <2>2, <2>3, <2>4
<1>3. link = NoHost
  BY <1>1, <1>2 DEF OrderInv, Turns
<1>4. /\ AdvStart(NextMode, flash, pm_whitelist)
      /\ conn' \in {conn, NoHost}
      /\ UNCHANGED <<bonds, flashVars, linkVars, peerVars, historyVars>>
  <2>1. CASE DispatchDisconnected
    <3>1. ~m_is_wl_changed["my_ble_connection"]
      BY DEF OrderInv, ShutOutInv, WhitelistOfReset
    <3> QED BY <2>1, <3>1 DEF DispatchDisconnected, NextMode, peerVars
  <2>2. CASE DispatchAdvTimeout
    <3>1. ~NextIs("DISCONNECTED")
      BY <2>2 DEF DispatchAdvTimeout, NextIs
    <3> QED BY <2>2, <3>1 DEF DispatchAdvTimeout, NextMode, peerVars
  <2> QED BY <2>1, <2>2
<1>5. NextMode \in Modes
  BY DEF NextMode, Modes
<1>6. adv' # "off"
  BY <1>4, <1>5 DEF AdvStart, Modes
<1> QED BY <1>1, <1>2, <1>3, <1>4, <1>5, <1>6

(* The flash and its events leave the queue of events alone.               *)
FlashStep == FlashCompletes \/ sys_evt_dispatch

LEMMA FlashStepShape ==
  ASSUME OrderInv, FlashStep
  PROVE  /\ UNCHANGED <<bonds, linkVars, evts, conn, peerVars, historyVars>>
         /\ flash # <<>>
         /\ adv' # "off" <=> adv # "off"
         /\ \/ UNCHANGED advVars
            \/ adv = "pending" /\ AdvStart(adv_mode, flash', pm_whitelist)
<1>1. UNCHANGED <<bonds, linkVars, evts, conn, peerVars, historyVars>>
  BY DEF FlashStep, FlashCompletes, sys_evt_dispatch
<1>2. flash # <<>>
  BY DEF FlashStep, FlashCompletes, sys_evt_dispatch, OrderInv, ShutOutInv, Types
<1>3. \/ UNCHANGED advVars
      \/ adv = "pending" /\ AdvStart(adv_mode, flash', pm_whitelist)
  BY DEF FlashStep, FlashCompletes, sys_evt_dispatch, AdvOnSysEvt
<1>4. adv' # "off" <=> adv # "off"
  <2>1. adv_mode \in Modes
    BY DEF OrderInv, ShutOutInv, Types
  <2>2. CASE UNCHANGED advVars
    BY <2>2 DEF advVars
  <2>3. CASE adv = "pending" /\ AdvStart(adv_mode, flash', pm_whitelist)
    BY <2>1, <2>3 DEF AdvStart, Modes
  <2> QED BY <1>3, <2>2, <2>3
<1> QED BY <1>1, <1>2, <1>3, <1>4

(* The steps by shape.                                                     *)
LEMMA StepShapes ==
  ASSUME OrderInv, Next
  PROVE  \/ \E h \in Hosts : HostConnects(h)
         \/ HostActs \/ AdvTimesOut \/ LinkDispatch \/ FlashStep
         \/ (DispatchDisconnected \/ DispatchAdvTimeout) /\ ~Boot(Stored)
         \/ Boot(Stored)
BY DEF Next, HostActs, LinkDispatch, FlashStep, Reset

-----------------------------------------------------------------------------
(* Advertising, the link and what ends one of them take turns.             *)
LEMMA TurnsKept ==
  ASSUME OrderInv, Next, ~Boot(Stored)
  PROVE  Turns'
<1>0. /\ evts \in Seq(BleEvents) /\ DOMAIN evts = 1 .. Len(evts)
      /\ Len(evts) \in Nat /\ Turns
  BY QueueOfEvents DEF OrderInv
<1>1. ASSUME NEW h \in Hosts, HostConnects(h) PROVE Turns'
  <2> DEFINE e == [evt |-> "CONNECTED", host |-> h]
  <2>1. e \in BleEvents /\ adv # "off" /\ evts' = Append(evts, e)
    BY <1>1 DEF HostConnects, Admits, BleEvents, AnyHost
  <2>2. DOMAIN evts' = {1} /\ evts'[1] = e
    BY <2>1, FirstEvent
  <2>3. adv' = "off" /\ link' = h /\ h # NoHost
    BY <1>1, WhitelistAssumption DEF HostConnects
  <2> QED BY <2>2, <2>3 DEF Turns, Restarts
<1>2. CASE HostActs
  <2>1. /\ link # NoHost /\ adv = "off" /\ adv' = "off"
        /\ link' = link \/ HostLeaves
    BY <1>2, HostActsShape DEF advVars
  <2>2. PICK type \in HostEvents : evts' = Append(evts, Event(type))
    BY <1>2, HostActsShape
  <2>3. /\ evts' # <<>> /\ Len(evts') = Len(evts) + 1
        /\ DOMAIN evts' = 1 .. Len(evts) + 1
        /\ evts'[Len(evts) + 1] = Event(type)
        /\ \A i \in DOMAIN evts : evts'[i] = evts[i]
    BY <1>0, <1>2, <2>2, HostActsShape, Arrival
  <2>4. Event(type).evt = type /\ Event(type).host = link
    BY DEF Event
  <2>5. \A i \in DOMAIN evts : evts[i].evt \notin Restarts /\ evts[i].host = link
    BY <1>0, <2>1 DEF Turns
  <2>6. \A i \in DOMAIN evts' : i \in DOMAIN evts \/ i = Len(evts')
    BY <1>0, <2>3
  <2>7. CASE HostLeaves
    <3>1. link' = NoHost /\ evts' = Append(evts, Event("DISCONNECTED"))
      BY <2>7 DEF HostLeaves
    <3>2. evts'[Len(evts')] = Event("DISCONNECTED")
      BY <1>0, <1>2, <3>1, HostActsShape, Arrival DEF HostEvents
    <3>3. evts'[Len(evts')].evt \in Restarts
      BY <3>2 DEF Event, Restarts
    <3> QED BY <2>1, <2>3, <2>5, <2>6, <3>1, <3>3 DEF Turns
  <2>8. CASE ~HostLeaves
    <3>1. type # "DISCONNECTED"
      <4>1. \E t \in HostEvents \ {"DISCONNECTED"} : evts' = Append(evts, Event(t))
        BY <1>2, <2>8 DEF HostActs, HostEncrypts, HostAsksPairing, HostPairs,
           HostEvents
      <4>2. PICK t \in HostEvents \ {"DISCONNECTED"} : evts' = Append(evts, Event(t))
        BY <4>1
      <4>3. evts'[Len(evts) + 1] = Event(t)
        BY <1>0, <1>2, <4>2, HostActsShape, Arrival
      <4> QED BY <2>3, <4>3 DEF Event
    <3>2. type \notin Restarts
      BY <3>1 DEF HostEvents, Restarts
    <3> QED BY <2>1, <2>3, <2>4, <2>5, <2>6, <2>8, <3>2 DEF Turns
  <2> QED BY <2>7, <2>8
<1>3. CASE AdvTimesOut
  <2>1. /\ adv # "off" /\ adv' = "off" /\ link' = link
        /\ evts' = Append(evts, Event("ADV_TIMEOUT"))
    BY <1>3 DEF AdvTimesOut, linkVars
  <2>2. Event("ADV_TIMEOUT") \in BleEvents
    BY DEF Event, BleEvents, OrderInv, ShutOutInv, Types
  <2>3. /\ link = NoHost /\ DOMAIN evts' = {1} /\ Len(evts') = 1
        /\ evts'[1].evt = "ADV_TIMEOUT" /\ evts' # <<>>
    BY <2>1, <2>2, FirstEvent DEF Event
  <2> QED BY <2>1, <2>3 DEF Turns, Restarts
<1>4. CASE LinkDispatch
  <2>1. /\ evts # <<>> /\ evts' = Tail(evts) /\ link' = link /\ adv' = adv
        /\ 1 \in DOMAIN evts /\ evts[1].evt \notin Restarts
    BY <1>4, LinkDispatchShape DEF advVars
  <2>2. /\ Len(evts) \in Nat \ {0} /\ Len(evts') = Len(evts) - 1
        /\ DOMAIN evts' = 1 .. Len(evts) - 1
        /\ \A i \in DOMAIN evts' : i + 1 \in DOMAIN evts /\ evts'[i] = evts[i + 1]
        /\ evts' = <<>> <=> Len(evts) = 1
    BY <1>0, <2>1, Departure
  <2>3. adv = "off"
    BY <1>0, <2>1 DEF Turns
  <2>4. link # NoHost =>
          \A i \in DOMAIN evts' : evts'[i].evt \notin Restarts /\ evts'[i].host = link
    BY <1>0, <2>2 DEF Turns
  <2>5. link = NoHost => evts' # <<>> /\ evts'[Len(evts')].evt \in Restarts
    BY <1>0, <2>1, <2>2, <2>3 DEF Turns
  <2>6. \A i \in DOMAIN evts' : evts'[i].evt \in Restarts => i = Len(evts')
    BY <1>0, <2>2 DEF Turns
  <2> QED BY <2>1, <2>3, <2>4, <2>5, <2>6 DEF Turns
<1>5. CASE FlashStep
  BY <1>0, <1>5, FlashStepShape DEF Turns, linkVars
<1>6. CASE DispatchDisconnected \/ DispatchAdvTimeout
  BY <1>6, RestartShape DEF Turns, linkVars
<1> QED BY <1>1, <1>2, <1>3, <1>4, <1>5, <1>6, StepShapes

-----------------------------------------------------------------------------
(* Where the events of a type are, when one comes and when one goes.       *)
LEMMA AtArrival ==
  ASSUME ShutOutInv, NEW e \in BleEvents, evts' = Append(evts, e), NEW type
  PROVE  /\ At(type)' = IF e.evt = type THEN At(type) \cup {Len(evts) + 1} ELSE At(type)
         /\ \A i \in At(type) : i < Len(evts) + 1 /\ evts'[i] = evts[i]
         /\ evts'[Len(evts) + 1] = e
<1>1. /\ Len(evts) \in Nat
      /\ DOMAIN evts = 1 .. Len(evts) /\ DOMAIN evts' = 1 .. Len(evts) + 1
      /\ evts'[Len(evts) + 1] = e
      /\ \A i \in DOMAIN evts : evts'[i] = evts[i]
  BY QueueOfEvents, Arrival
<1>2. \A i : i \in DOMAIN evts' <=> i \in DOMAIN evts \/ i = Len(evts) + 1
  BY <1>1
<1>3. \A i : i \in At(type)' <=> \/ i \in At(type)
                                 \/ i = Len(evts) + 1 /\ e.evt = type
  BY <1>1, <1>2 DEF At
<1>4. At(type)' = IF e.evt = type THEN At(type) \cup {Len(evts) + 1} ELSE At(type)
  BY <1>3
<1>5. \A i \in At(type) : i < Len(evts) + 1 /\ evts'[i] = evts[i]
  BY <1>1 DEF At
<1> QED BY <1>1, <1>4, <1>5

LEMMA AtDeparture ==
  ASSUME ShutOutInv, evts # <<>>, evts' = Tail(evts), NEW type
  PROVE  /\ \A i \in At(type)' : i + 1 \in At(type) /\ evts'[i] = evts[i + 1]
                                 /\ i \in Nat \ {0}
         /\ \A i \in At(type) : i \in Nat \ {0}
         /\ Head(evts).evt = type => 1 \in At(type)
<1>1. /\ Len(evts) \in Nat \ {0}
      /\ DOMAIN evts = 1 .. Len(evts) /\ DOMAIN evts' = 1 .. Len(evts) - 1
      /\ Head(evts) = evts[1]
      /\ \A i \in DOMAIN evts' : i + 1 \in DOMAIN evts /\ evts'[i] = evts[i + 1]
  BY QueueOfEvents, Departure
<1> QED BY <1>1 DEF At

(* Bonds are not removed between resets, and new only in DispatchBonded.   *)
LEMMA BondsKept ==
  ASSUME OrderInv, Next, ~Boot(Stored), ~DispatchBonded
  PROVE  bonds' = bonds /\ \A h : Bonded(h)' = Bonded(h)
<1>1. bonds' = bonds
  <2>1. CASE \E h \in Hosts : HostConnects(h)
    BY <2>1 DEF HostConnects
  <2>2. CASE HostActs
    BY <2>2, HostActsShape
  <2>3. CASE AdvTimesOut
    BY <2>3 DEF AdvTimesOut
  <2>4. CASE LinkDispatch
    BY <2>4 DEF LinkDispatch, DispatchConnected, DispatchSecured, DispatchKeyMissing,
       DispatchSecParamsRequest
  <2>5. CASE FlashStep
    BY <2>5, FlashStepShape
  <2>6. CASE DispatchDisconnected \/ DispatchAdvTimeout
    BY <2>6, RestartShape
  <2> QED BY <2>1, <2>2, <2>3, <2>4, <2>5, <2>6, StepShapes
<1> QED BY <1>1 DEF Bonded

(* A bond is made with a host that has none, and takes the next place.     *)
LEMMA NewBond ==
  ASSUME OrderInv, DispatchBonded
  PROVE  /\ ~Bonded(Head(evts).host) /\ Head(evts).host \in Hosts
         /\ bonds' = Append(bonds, Head(evts).host) /\ bondless
         /\ Len(bonds) \in Nat
         /\ m_peer_id' = Len(bonds) /\ known' = known \cup {Len(bonds)}
         /\ StoreBond("bond")
         /\ IF PlaceLeft
              THEN m_whitelist_peers' = Append(m_whitelist_peers, Len(bonds))
              ELSE m_whitelist_peers' = m_whitelist_peers
         /\ \A h : Bonded(h)' <=> Bonded(h) \/ h = Head(evts).host
         /\ \A i \in At("BONDED") : i = 1
<1>1. evts # <<>> /\ Head(evts).evt = "BONDED" /\ evts' = Tail(evts)
  BY DEF DispatchBonded, NextIs
<1>2. 1 \in At("BONDED") /\ evts[1] = Head(evts) /\ 1 \in DOMAIN evts
  BY <1>1, AtDeparture, LinkDispatchShape DEF OrderInv, LinkDispatch
<1>3. ~Bonded(Head(evts).host) /\ \A i \in At("BONDED") : i = 1
  BY <1>2 DEF OrderInv, Pairing
<1>4. Head(evts).host \in Hosts /\ bondless
  <2>1. Head(evts).host \in Hosts /\ (~bondless => Bonded(Head(evts).host))
    BY <1>1, <1>2 DEF OrderInv, EventHosts
  <2> QED BY <1>3, <2>1 DEF OrderInv, ShutOutInv, Types
<1>5. bonds' = Append(bonds, Head(evts).host)
  BY <1>3 DEF DispatchBonded
<1>6. bonds \in Seq(AnyHost) /\ Len(bonds) \in Nat
  BY DEF OrderInv, ShutOutInv, Types
<1>7. \A h : Bonded(h)' <=> Bonded(h) \/ h = Head(evts).host
  <2>1. /\ DOMAIN bonds' = 1 .. Len(bonds) + 1 /\ DOMAIN bonds = 1 .. Len(bonds)
        /\ bonds'[Len(bonds) + 1] = Head(evts).host
        /\ \A i \in DOMAIN bonds : bonds'[i] = bonds[i]
    BY <1>4, <1>5, <1>6, Arrival DEF AnyHost
  <2>2. \A i : i \in DOMAIN bonds' <=> i \in DOMAIN bonds \/ i = Len(bonds) + 1
    BY <1>6, <2>1
  <2> QED BY <2>1, <2>2 DEF Bonded, ToSet
<1>8. /\ m_peer_id' = Len(bonds) /\ known' = known \cup {Len(bonds)}
      /\ StoreBond("bond")
      /\ IF PlaceLeft
           THEN m_whitelist_peers' = Append(m_whitelist_peers, Len(bonds))
           ELSE m_whitelist_peers' = m_whitelist_peers
  BY <1>3 DEF DispatchBonded
<1> QED BY <1>1, <1>2, <1>3, <1>4, <1>5, <1>6, <1>7, <1>8

(* The hosts of the events that remain are hosts, bonded where they were.  *)
LEMMA EventHostsKept ==
  ASSUME OrderInv, ShutOutInv', Next, ~Boot(Stored)
  PROVE  EventHosts'
<1>0. /\ evts \in Seq(BleEvents) /\ DOMAIN evts = 1 .. Len(evts)
      /\ Len(evts) \in Nat /\ EventHosts /\ Turns
  BY QueueOfEvents DEF OrderInv
<1>1. ASSUME NEW h \in Hosts, HostConnects(h) PROVE EventHosts'
  <2> DEFINE e == [evt |-> "CONNECTED", host |-> h]
  <2>1. e \in BleEvents /\ adv # "off" /\ evts' = Append(evts, e) /\ link' = h
    BY <1>1 DEF HostConnects, Admits, BleEvents, AnyHost
  <2>2. DOMAIN evts' = {1} /\ evts'[1] = e
    BY <2>1, FirstEvent
  <2>3. (~bondless => Bonded(h))'
    BY <2>1, WhitelistAssumption DEF ShutOutInv, StrangersShutOut
  <2> QED BY <2>2, <2>3 DEF EventHosts
<1>2. CASE HostActs
  <2>1. /\ link # NoHost /\ UNCHANGED <<bonds, historyVars>>
        /\ \A t \in HostEvents : Event(t) \in BleEvents
    BY <1>2, HostActsShape
  <2>2. PICK type \in HostEvents : evts' = Append(evts, Event(type))
    BY <1>2, HostActsShape
  <2>3. /\ DOMAIN evts' = 1 .. Len(evts) + 1
        /\ evts'[Len(evts) + 1] = Event(type)
        /\ \A i \in DOMAIN evts : evts'[i] = evts[i]
    BY <1>0, <2>1, <2>2, Arrival
  <2>4. link \in Hosts /\ (~bondless => Bonded(link))
    BY <2>1 DEF OrderInv, ShutOutInv, Types, AnyHost, StrangersShutOut
  <2>5. Event(type).evt # "ADV_TIMEOUT" /\ Event(type).host = link
    BY DEF Event, HostEvents
  <2>6. \A i \in DOMAIN evts' : i \in DOMAIN evts \/ i = Len(evts) + 1
    BY <1>0, <2>3
  <2>7. bondless' = bondless /\ \A h : Bonded(h)' = Bonded(h)
    BY <2>1 DEF historyVars, Bonded
  <2> QED BY <1>0, <2>3, <2>4, <2>5, <2>6, <2>7 DEF EventHosts
<1>3. CASE AdvTimesOut
  <2>1. /\ adv # "off" /\ link = NoHost
        /\ evts' = Append(evts, Event("ADV_TIMEOUT"))
    BY <1>0, <1>3 DEF AdvTimesOut, Turns
  <2>2. Event("ADV_TIMEOUT") \in BleEvents
    BY DEF Event, BleEvents, OrderInv, ShutOutInv, Types
  <2>3. DOMAIN evts' = {1} /\ evts'[1] = Event("ADV_TIMEOUT")
    BY <2>1, <2>2, FirstEvent
  <2> QED BY <2>1, <2>3 DEF EventHosts, Event
<1>4. CASE LinkDispatch
  <2>1. evts # <<>> /\ evts' = Tail(evts) /\ bondless' = bondless
    BY <1>4, LinkDispatchShape
  <2>2. \A i \in DOMAIN evts' : i + 1 \in DOMAIN evts /\ evts'[i] = evts[i + 1]
    BY <1>0, <2>1, Departure
  <2>3. \A h : Bonded(h) => Bonded(h)'
    BY BondsKept, NewBond
  <2> QED BY <1>0, <2>1, <2>2, <2>3 DEF EventHosts
<1>5. CASE FlashStep
  BY <1>0, <1>5, FlashStepShape DEF EventHosts, Bonded, historyVars
<1>6. CASE DispatchDisconnected \/ DispatchAdvTimeout
  <2>1. evts' = <<>>
    BY <1>6, RestartShape
  <2>2. DOMAIN evts' = {}
    BY <2>1
  <2> QED BY <2>2 DEF EventHosts
<1> QED BY <1>1, <1>2, <1>3, <1>4, <1>5, <1>6, StepShapes

(* One request to pair at a time, and one bond for each host.              *)
LEMMA HostActsPair ==
  ASSUME OrderInv, HostActs
  PROVE  Pairing'
<1>0. /\ link # NoHost /\ UNCHANGED bonds
      /\ ShutOutInv /\ Pairing /\ Len(evts) \in Nat
      /\ \A t \in HostEvents : Event(t) \in BleEvents
  BY HostActsShape, QueueOfEvents DEF OrderInv
<1>1. \A h : Bonded(h)' = Bonded(h)
  BY <1>0 DEF Bonded
<1>2. /\ Event("DISCONNECTED").evt = "DISCONNECTED" /\ Event("BONDED").evt = "BONDED"
      /\ Event("SEC_PARAMS_REQUEST").evt = "SEC_PARAMS_REQUEST"
      /\ Event("PAIRED").evt = "PAIRED" /\ Event("ENCRYPTED").evt = "ENCRYPTED"
      /\ Event("KEY_MISSING").evt = "KEY_MISSING" /\ Event("BONDED").host = link
  BY DEF Event
<1>3. ASSUME NEW type \in HostEvents \ {"BONDED", "SEC_PARAMS_REQUEST"},
             evts' = Append(evts, Event(type))
      PROVE  /\ At("BONDED")' = At("BONDED")
             /\ At("SEC_PARAMS_REQUEST")' = At("SEC_PARAMS_REQUEST")
             /\ \A i \in At("BONDED") : evts'[i] = evts[i]
  <2>1. Event(type) \in BleEvents /\ Event(type).evt = type
    BY <1>0 DEF Event
  <2>2. type # "BONDED" /\ type # "SEC_PARAMS_REQUEST"
    BY <1>3
  <2> QED BY <1>0, <1>3, <2>1, <2>2, AtArrival
<1>4. CASE HostLeaves
  <2>1. link' = NoHost /\ sec' = "none" /\ evts' = Append(evts, Event("DISCONNECTED"))
    BY <1>4 DEF HostLeaves
  <2> QED BY <1>0, <1>1, <1>3, <2>1 DEF Pairing, HostEvents
<1>5. CASE HostEncrypts
  <2>1. link' = link /\ sec' = sec
    BY <1>5 DEF HostEncrypts, linkVars
  <2>2. \/ evts' = Append(evts, Event("ENCRYPTED"))
        \/ evts' = Append(evts, Event("KEY_MISSING"))
    BY <1>5 DEF HostEncrypts
  <2>3. /\ At("BONDED")' = At("BONDED")
        /\ At("SEC_PARAMS_REQUEST")' = At("SEC_PARAMS_REQUEST")
        /\ \A i \in At("BONDED") : evts'[i] = evts[i]
    BY <1>3, <2>2 DEF HostEvents
  <2> QED BY <1>0, <1>1, <2>1, <2>3 DEF Pairing
<1>6. CASE HostAsksPairing
  <2>1. /\ sec' = "requested" /\ link' = link /\ sec \in {"none", "asked"}
        /\ evts' = Append(evts, Event("SEC_PARAMS_REQUEST"))
    BY <1>6 DEF HostAsksPairing
  <2>2. Event("SEC_PARAMS_REQUEST") \in BleEvents
    BY <1>0 DEF HostEvents
  <2>3. /\ At("BONDED")' = At("BONDED")
        /\ At("SEC_PARAMS_REQUEST")' = At("SEC_PARAMS_REQUEST") \cup {Len(evts) + 1}
        /\ \A i \in At("BONDED") : i < Len(evts) + 1 /\ evts'[i] = evts[i]
    BY <1>0, <1>2, <2>1, <2>2, AtArrival
  <2>4. At("SEC_PARAMS_REQUEST") = {}
    BY <1>0, <2>1 DEF Pairing
  <2> QED BY <1>0, <1>1, <2>1, <2>3, <2>4 DEF Pairing
<1>7. CASE HostPairs
  <2>1. link' = link /\ sec = "pairing" /\ sec' = "none"
    BY <1>7 DEF HostPairs
  <2>2. /\ At("SEC_PARAMS_REQUEST") = {} /\ At("BONDED") = {} /\ ~Bonded(link)
    BY <1>0, <2>1 DEF Pairing
  <2>3. CASE evts' = Append(evts, Event("PAIRED"))
    BY <1>0, <1>1, <1>3, <2>1, <2>2, <2>3 DEF Pairing, HostEvents
  <2>4. CASE evts' = Append(evts, Event("BONDED"))
    <3>1. Event("BONDED") \in BleEvents
      BY <1>0 DEF HostEvents
    <3>2. /\ At("BONDED")' = At("BONDED") \cup {Len(evts) + 1}
          /\ At("SEC_PARAMS_REQUEST")' = At("SEC_PARAMS_REQUEST")
          /\ evts'[Len(evts) + 1] = Event("BONDED")
      BY <1>0, <1>2, <2>4, <3>1, AtArrival
    <3> QED BY <1>0, <1>1, <1>2, <2>1, <2>2, <3>2 DEF Pairing
  <2>5. \/ evts' = Append(evts, Event("PAIRED"))
        \/ evts' = Append(evts, Event("BONDED"))
    BY <1>7 DEF HostPairs
  <2> QED BY <2>3, <2>4, <2>5
<1> QED BY <1>4, <1>5, <1>6, <1>7 DEF HostActs

LEMMA LinkDispatchPairs ==
  ASSUME OrderInv, LinkDispatch
  PROVE  Pairing'
<1> DEFINE req == "SEC_PARAMS_REQUEST"
           head == Head(evts)
<1>0. /\ ShutOutInv /\ Pairing
      /\ evts # <<>> /\ evts' = Tail(evts) /\ link' = link
      /\ 1 \in DOMAIN evts /\ evts[1] = head /\ evts[1].evt \notin Restarts
  BY LinkDispatchShape DEF OrderInv
<1>1. /\ \A i \in At(req)' : i + 1 \in At(req) /\ i \in Nat \ {0}
      /\ \A i \in At("BONDED")' : /\ i + 1 \in At("BONDED") /\ i \in Nat \ {0}
                                  /\ evts'[i] = evts[i + 1]
      /\ head.evt = req => 1 \in At(req)
      /\ head.evt = "BONDED" => 1 \in At("BONDED")
      /\ \A i \in At("BONDED") : i \in Nat \ {0}
  BY <1>0, AtDeparture
<1>2. head.host \in Hosts /\ (link # NoHost => head.host = link)
  <2>1. head.evt # "ADV_TIMEOUT"
    BY <1>0 DEF Restarts
  <2> QED BY <1>0, <2>1 DEF OrderInv, EventHosts, Turns
<1>3. /\ \A i, j \in At(req)' : i = j
      /\ \A i, j \in At("BONDED")' : i = j
      /\ \A i \in At(req)', j \in At("BONDED")' : j < i
  BY <1>0, <1>1 DEF Pairing
<1>4. At(req) = {} => At(req)' = {}
  BY <1>1
<1>5. At("BONDED") = {} => At("BONDED")' = {}
  BY <1>1
<1> HIDE DEF head, req
<1>6. CASE DispatchBonded
  <2>1. /\ \A i \in At("BONDED") : i = 1
    BY <1>6, NewBond
  <2>2. At("BONDED")' = {}
    BY <1>1, <2>1
  <2>3. 1 \in At("BONDED")
    BY <1>1, <1>6 DEF DispatchBonded, NextIs, head
  <2>4. sec' = sec /\ sec # "pairing"
    BY <1>0, <1>6, <2>3 DEF DispatchBonded, linkVars, Pairing
  <2> QED BY <1>0, <1>3, <1>4, <2>2, <2>4 DEF Pairing, req
<1>7. CASE ~DispatchBonded
  <2>1. bonds' = bonds /\ \A h : Bonded(h)' = Bonded(h)
    <3>1. bonds' = bonds
      BY <1>7 DEF LinkDispatch, DispatchConnected, DispatchSecured,
         DispatchKeyMissing, DispatchSecParamsRequest
    <3> QED BY <3>1 DEF Bonded
  <2>2. (\A i \in At("BONDED") : ~Bonded(evts[i].host))'
    BY <1>0, <1>1, <2>1 DEF Pairing
  <2>3. CASE DispatchSecParamsRequest
    <3>1. 1 \in At(req)
      BY <1>1, <2>3 DEF DispatchSecParamsRequest, NextIs, head, req
    <3>2. At(req)' = {}
      BY <1>0, <1>1, <3>1 DEF Pairing, req
    <3>3. At("BONDED") = {}
      BY <1>0, <1>1, <3>1 DEF Pairing, req
    <3>4. sec' = IF sec # "requested" THEN sec
                 ELSE IF Bonded(head.host) THEN "none" ELSE "pairing"
      BY <2>3 DEF DispatchSecParamsRequest, allow_repairing, head
    <3>5. link = NoHost => sec' = "none"
      BY <1>0, <3>4 DEF Pairing
    <3>6. sec' = "pairing" => ~Bonded(link)
      <4>1. CASE sec # "requested"
        BY <1>0, <3>4, <4>1 DEF Pairing
      <4>2. CASE sec = "requested"
        <5>1. link # NoHost
          BY <1>0, <4>2 DEF Pairing
        <5> QED BY <1>2, <3>4, <4>2, <5>1
      <4> QED BY <4>1, <4>2
    <3> QED BY <1>0, <1>3, <1>5, <2>1, <2>2, <3>2, <3>3, <3>5, <3>6 DEF Pairing, req
  <2>4. CASE ~DispatchSecParamsRequest
    <3>1. \/ sec' = sec
          \/ sec = "none" /\ sec' = "asked" /\ link = head.host
      BY <1>7, <2>4 DEF LinkDispatch, DispatchConnected, DispatchSecured,
         DispatchKeyMissing, linkVars, head
    <3>2. link = NoHost => sec' = "none"
      BY <1>0, <1>2, <3>1, WhitelistAssumption DEF Pairing
    <3>3. link # NoHost /\ sec' # "requested" => At(req)' = {}
      BY <1>0, <1>4, <3>1 DEF Pairing, req
    <3>4. sec' = "pairing" => ~Bonded(link) /\ At("BONDED")' = {}
      BY <1>0, <1>5, <3>1 DEF Pairing
    <3> QED BY <1>0, <1>3, <2>1, <2>2, <3>2, <3>3, <3>4 DEF Pairing, req
  <2> QED BY <2>3, <2>4
<1> QED BY <1>6, <1>7

LEMMA PairingKept ==
  ASSUME OrderInv, Next, ~Boot(Stored)
  PROVE  Pairing'
<1>0. Pairing
  BY DEF OrderInv
<1>1. ASSUME NEW h \in Hosts, HostConnects(h) PROVE Pairing'
  <2> DEFINE e == [evt |-> "CONNECTED", host |-> h]
  <2>1. e \in BleEvents /\ adv # "off" /\ evts' = Append(evts, e)
    BY <1>1 DEF HostConnects, Admits, BleEvents, AnyHost
  <2>2. DOMAIN evts' = {1} /\ evts'[1] = e
    BY <2>1, FirstEvent
  <2>3. At("BONDED")' = {} /\ At("SEC_PARAMS_REQUEST")' = {}
    BY <2>2 DEF At
  <2>4. sec' = "none"
    BY <1>1 DEF HostConnects
  <2> QED BY <2>3, <2>4 DEF Pairing
<1>2. CASE HostActs
  BY <1>2, HostActsPair
<1>3. CASE AdvTimesOut
  <2>1. /\ adv # "off" /\ evts' = Append(evts, Event("ADV_TIMEOUT"))
        /\ UNCHANGED linkVars
    BY <1>3 DEF AdvTimesOut
  <2>2. Event("ADV_TIMEOUT") \in BleEvents
    BY DEF Event, BleEvents, OrderInv, ShutOutInv, Types
  <2>3. link = NoHost /\ DOMAIN evts' = {1} /\ evts'[1].evt = "ADV_TIMEOUT"
    BY <2>1, <2>2, FirstEvent DEF Event
  <2>4. At("BONDED")' = {} /\ At("SEC_PARAMS_REQUEST")' = {}
    BY <2>3 DEF At
  <2> QED BY <1>0, <2>1, <2>3, <2>4 DEF Pairing, linkVars
<1>4. CASE LinkDispatch
  BY <1>4, LinkDispatchPairs
<1>5. CASE FlashStep
  <2>1. UNCHANGED <<bonds, link, sec, evts>>
    BY <1>5, FlashStepShape DEF linkVars
  <2> QED BY <1>0, <2>1 DEF Pairing, At, Bonded
<1>6. CASE DispatchDisconnected \/ DispatchAdvTimeout
  <2>1. evts' = <<>> /\ link = NoHost /\ UNCHANGED linkVars
    BY <1>6, RestartShape
  <2>2. At("BONDED")' = {} /\ At("SEC_PARAMS_REQUEST")' = {}
    BY <2>1 DEF At
  <2> QED BY <1>0, <2>1, <2>2 DEF Pairing, linkVars
<1> QED BY <1>1, <1>2, <1>3, <1>4, <1>5, <1>6, StepShapes

-----------------------------------------------------------------------------
(* What a start of advertising does to the mode and to the filter.         *)
LEMMA AdvStartResult ==
  ASSUME NEW mode \in Modes, NEW queue, NEW whitelist, AdvStart(mode, queue, whitelist)
  PROVE  /\ adv' = "directed" => mode = "directed" /\ adv_filter' = PeerAddrReply
         /\ mode # "directed" => adv_mode' # "directed"
         /\ adv' \in {"fast", "slow"} => adv_filter' = ToSet(whitelist)
         /\ adv' = "pending" => queue # <<>>
         /\ adv' \in {"pending"} \cup Modes
<1>1. CASE queue # <<>>
  BY <1>1 DEF AdvStart, Modes
<1>2. CASE queue = <<>> /\ mode = "directed" /\ PeerAddrReply # {}
  BY <1>2 DEF AdvStart, Modes
<1>3. CASE queue = <<>> /\ ~(mode = "directed" /\ PeerAddrReply # {})
  BY <1>3 DEF AdvStart, Modes, WhitelistReply
<1> QED BY <1>1, <1>2, <1>3

(* The address of the reply is one reported, once a link has ended.        *)
LEMMA ReplyReported ==
  ASSUME PeerReported, ~Fresh
  PROVE  PeerAddrReply \subseteq known
<1>1. CASE m_peer_id \in known
  BY <1>1 DEF PeerAddrReply
<1>2. CASE bonds = <<>>
  <2>1. Len(bonds) = 0 /\ 0 .. 0 - 1 = {}
    BY <1>2
  <2> QED BY <2>1 DEF PeerAddrReply
<1> QED BY <1>1, <1>2 DEF PeerReported

(* m_peer_id has been reported when a link ends.                           *)
LEMMA PeerReportedKept ==
  ASSUME OrderInv, ShutOutInv', Next, ~Boot(Stored)
  PROVE  PeerReported'
<1>0. /\ evts \in Seq(BleEvents) /\ DOMAIN evts = 1 .. Len(evts)
      /\ Len(evts) \in Nat /\ PeerReported /\ Turns
  BY QueueOfEvents DEF OrderInv
<1>1. ASSUME NEW h \in Hosts, HostConnects(h) PROVE PeerReported'
  <2> DEFINE e == [evt |-> "CONNECTED", host |-> h]
  <2>1. e \in BleEvents /\ adv # "off" /\ evts' = Append(evts, e) /\ link' = h
    BY <1>1 DEF HostConnects, Admits, BleEvents, AnyHost
  <2>2. evts' # <<>> /\ Head(evts') = e
    BY <2>1, FirstEvent
  <2>3. NextIs("CONNECTED")' /\ Head(evts').host = h
    BY <2>2 DEF NextIs
  <2>4. (~bondless => Bonded(h))'
    BY <2>1, WhitelistAssumption DEF ShutOutInv, StrangersShutOut
  <2>5. UNCHANGED <<bonds, m_peer_id, known, bondless, adv_mode>>
    BY <1>1 DEF HostConnects, peerVars, historyVars
  <2>6. Fresh => Fresh'
    BY <2>3, <2>4, <2>5 DEF Fresh
  <2> QED BY <1>0, <2>5, <2>6 DEF PeerReported
<1>2. CASE HostActs
  <2>1. /\ link # NoHost /\ \A t \in HostEvents : Event(t) \in BleEvents
        /\ UNCHANGED <<bonds, m_peer_id, known, bondless, adv_mode>>
    BY <1>2, HostActsShape DEF peerVars, historyVars, advVars
  <2>2. PICK type \in HostEvents : evts' = Append(evts, Event(type))
    BY <1>2, HostActsShape
  <2>3. evts # <<>> => Head(evts') = Head(evts) /\ evts' # <<>>
    BY <1>0, <2>1, <2>2
  <2>4. Fresh => Fresh'
    BY <2>1, <2>3 DEF Fresh, NextIs, Bonded
  <2> QED BY <1>0, <2>1, <2>4 DEF PeerReported
<1>3. CASE AdvTimesOut
  <2>1. /\ adv # "off" /\ evts' = Append(evts, Event("ADV_TIMEOUT"))
        /\ UNCHANGED <<bonds, link, m_peer_id, known, bondless, adv_mode>>
    BY <1>3 DEF AdvTimesOut, peerVars, historyVars, linkVars
  <2>2. Event("ADV_TIMEOUT") \in BleEvents
    BY DEF Event, BleEvents, OrderInv, ShutOutInv, Types
  <2>3. link = NoHost /\ Head(evts').evt = "ADV_TIMEOUT"
    BY <2>1, <2>2, FirstEvent DEF Event
  <2> QED BY <1>0, <2>1, <2>3 DEF PeerReported, Fresh
<1>4. CASE DispatchConnected \/ DispatchSecured \/ DispatchBonded
  <2>1. CASE m_peer_id' \in known'
    BY <2>1 DEF PeerReported
  <2>2. CASE DispatchConnected /\ ~Bonded(Head(evts).host)
    <3>1. UNCHANGED <<bonds, m_peer_id, known>> /\ NextIs("CONNECTED")
      BY <2>2 DEF DispatchConnected
    <3>2. ~Fresh
      BY <2>2, <3>1 DEF Fresh, NextIs
    <3> QED BY <1>0, <3>1, <3>2 DEF PeerReported
  <2>3. CASE DispatchBonded
    BY <2>3, NewBond DEF PeerReported
  <2> QED BY <1>4, <2>1, <2>2, <2>3 DEF DispatchConnected, DispatchSecured
<1>5. CASE DispatchKeyMissing \/ DispatchSecParamsRequest
  <2>1. UNCHANGED <<bonds, m_peer_id, known>> /\ ~Fresh
    BY <1>5 DEF DispatchKeyMissing, DispatchSecParamsRequest, peerVars,
       historyVars, NextIs, Fresh
  <2> QED BY <1>0, <2>1 DEF PeerReported
<1>6. CASE FlashStep
  <2>1. UNCHANGED <<bonds, link, evts, m_peer_id, known, bondless>>
    BY <1>6, FlashStepShape DEF linkVars, peerVars, historyVars
  <2>2. adv_mode # "directed" => adv_mode' # "directed"
    <3>1. adv_mode \in Modes
      BY DEF OrderInv, ShutOutInv, Types
    <3> QED BY <1>6, <3>1, FlashStepShape, AdvStartResult DEF advVars
  <2>3. Fresh => Fresh'
    BY <2>1, <2>2 DEF Fresh, NextIs, Bonded
  <2> QED BY <1>0, <2>1, <2>3 DEF PeerReported
<1>7. CASE DispatchDisconnected \/ DispatchAdvTimeout
  <2>1. /\ evts # <<>> /\ evts' = <<>> /\ link' = NoHost
        /\ UNCHANGED <<bonds, m_peer_id, known, bondless>>
        /\ NextMode \in Modes /\ AdvStart(NextMode, flash, pm_whitelist)
    BY <1>7, RestartShape DEF linkVars, peerVars, historyVars
  <2>2. Fresh => Fresh'
    <3> SUFFICES ASSUME Fresh PROVE Fresh'
      OBVIOUS
    <3>1. Head(evts).evt = "ADV_TIMEOUT" /\ ~bondless /\ adv_mode # "directed"
      BY <1>7, <2>1 DEF Fresh, NextIs, DispatchDisconnected, DispatchAdvTimeout
    <3>2. NextMode # "directed"
      BY <3>1 DEF NextMode, NextIs
    <3>3. adv_mode' # "directed"
      BY <2>1, <3>2, AdvStartResult
    <3> QED BY <2>1, <3>1, <3>3 DEF Fresh
  <2> QED BY <1>0, <2>1, <2>2 DEF PeerReported
<1> QED BY <1>1, <1>2, <1>3, <1>4, <1>5, <1>6, <1>7, StepShapes DEF LinkDispatch

(* Directed advertising calls a peer that has been reported.               *)
LEMMA DirectedKept ==
  ASSUME OrderInv, Next, ~Boot(Stored)
  PROVE  DirectedToKnownPeer'
<1>0. PeerReported /\ DirectedToKnownPeer /\ adv_mode \in Modes
  BY DEF OrderInv, ShutOutInv, Types
<1>1. CASE UNCHANGED <<adv, adv_filter>> /\ known \subseteq known'
  BY <1>0, <1>1 DEF DirectedToKnownPeer
<1>2. CASE adv' = "off"
  BY <1>2 DEF DirectedToKnownPeer
<1>3. CASE FlashStep
  <2>1. known' = known
    BY <1>3, FlashStepShape DEF historyVars
  <2>2. CASE adv = "pending" /\ AdvStart(adv_mode, flash', pm_whitelist)
    <3>1. adv_mode = "directed" => PeerAddrReply \subseteq known
      BY <1>0, ReplyReported DEF Fresh
    <3> QED BY <1>0, <2>1, <2>2, <3>1, AdvStartResult DEF DirectedToKnownPeer
  <2> QED BY <1>1, <1>3, <2>1, <2>2, FlashStepShape DEF advVars
<1>4. CASE DispatchDisconnected \/ DispatchAdvTimeout
  <2>1. /\ known' = known /\ evts # <<>>
        /\ NextMode \in Modes /\ AdvStart(NextMode, flash, pm_whitelist)
    BY <1>4, RestartShape DEF historyVars
  <2>2. NextMode = "directed" => NextIs("DISCONNECTED")
    BY DEF NextMode
  <2>3. NextIs("DISCONNECTED") => ~Fresh
    BY <2>1 DEF NextIs, Fresh
  <2>4. NextMode = "directed" => PeerAddrReply \subseteq known
    BY <1>0, <2>2, <2>3, ReplyReported
  <2> QED BY <2>1, <2>4, AdvStartResult DEF DirectedToKnownPeer
<1>5. CASE LinkDispatch
  <2>1. UNCHANGED <<adv, adv_filter>>
    BY <1>5, LinkDispatchShape DEF advVars
  <2>2. known \subseteq known'
    BY <1>5 DEF LinkDispatch, DispatchConnected, DispatchSecured, DispatchKeyMissing,
       DispatchSecParamsRequest, DispatchBonded, historyVars
  <2> QED BY <1>1, <2>1, <2>2
<1>6. CASE HostActs
  BY <1>1, <1>6, HostActsShape DEF advVars, historyVars
<1>7. CASE AdvTimesOut \/ \E h \in Hosts : HostConnects(h)
  BY <1>2, <1>7 DEF AdvTimesOut, HostConnects
<1> QED BY <1>3, <1>4, <1>5, <1>6, <1>7, StepShapes

-----------------------------------------------------------------------------
(* The lists change with a new bond, which has a new place in them.        *)
LEMMA ListsKept ==
  ASSUME OrderInv, Next, ~Boot(Stored)
  PROVE  ListsOfBonds'
<1>0. ListsOfBonds /\ adv_mode \in Modes
  BY DEF OrderInv, ShutOutInv, Types
<1>1. pm_whitelist' = pm_whitelist /\ bondless' = bondless
  <2>1. CASE HostActs
    BY <2>1, HostActsShape DEF peerVars, historyVars
  <2>2. CASE AdvTimesOut \/ \E h \in Hosts : HostConnects(h)
    BY <2>2 DEF AdvTimesOut, HostConnects, peerVars, historyVars
  <2>3. CASE LinkDispatch
    BY <2>3, LinkDispatchShape
  <2>4. CASE FlashStep
    BY <2>4, FlashStepShape DEF peerVars, historyVars
  <2>5. CASE DispatchDisconnected \/ DispatchAdvTimeout
    BY <2>5, RestartShape DEF peerVars, historyVars
  <2> QED BY <2>1, <2>2, <2>3, <2>4, <2>5, StepShapes
<1>2. adv' \in {"fast", "slow"} => adv_filter' = ToSet(pm_whitelist')
  <2>1. CASE UNCHANGED <<adv, adv_filter>>
    BY <1>0, <1>1, <2>1 DEF ListsOfBonds
  <2>2. CASE adv' = "off"
    BY <2>2
  <2>3. CASE \E mode \in Modes : \E queue : AdvStart(mode, queue, pm_whitelist)
    BY <1>1, <2>3, AdvStartResult
  <2>4. CASE HostActs
    BY <2>1, <2>4, HostActsShape DEF advVars
  <2>5. CASE LinkDispatch
    BY <2>1, <2>5, LinkDispatchShape DEF advVars
  <2>6. CASE FlashStep
    BY <1>0, <2>1, <2>3, <2>6, FlashStepShape DEF advVars
  <2>7. CASE DispatchDisconnected \/ DispatchAdvTimeout
    BY <2>3, <2>7, RestartShape
  <2>8. CASE AdvTimesOut \/ \E h \in Hosts : HostConnects(h)
    BY <2>2, <2>8 DEF AdvTimesOut, HostConnects
  <2> QED BY <2>4, <2>5, <2>6, <2>7, <2>8, StepShapes
<1>3. CASE UNCHANGED <<bonds, m_whitelist_peers>>
  BY <1>0, <1>1, <1>2, <1>3 DEF ListsOfBonds
<1>4. CASE DispatchBonded
  <2>1. /\ bonds' = Append(bonds, Head(evts).host) /\ bondless
        /\ Len(bonds) \in Nat
    BY <1>4, NewBond
  <2>2. Len(bonds') = Len(bonds) + 1
    BY <2>1 DEF OrderInv, ShutOutInv, Types
  <2>3. BondIds(bonds) \subseteq BondIds(bonds') /\ Len(bonds) \in BondIds(bonds')
    BY <2>1, <2>2 DEF BondIds
  <2>4. pm_whitelist' = IF bondless' THEN <<>> ELSE peer_list_get(bonds')
    BY <1>0, <1>1, <2>1 DEF ListsOfBonds
  <2>5. CASE m_whitelist_peers' = m_whitelist_peers
    BY <1>0, <1>2, <2>3, <2>4, <2>5 DEF ListsOfBonds
  <2>6. CASE PlaceLeft /\ m_whitelist_peers' = Append(m_whitelist_peers, Len(bonds))
    <3>1. /\ Len(m_whitelist_peers) \in Nat
          /\ m_whitelist_peers' \in Seq(Nat)
          /\ Len(m_whitelist_peers') = Len(m_whitelist_peers) + 1
          /\ DOMAIN m_whitelist_peers = 1 .. Len(m_whitelist_peers)
          /\ DOMAIN m_whitelist_peers' = 1 .. Len(m_whitelist_peers) + 1
          /\ m_whitelist_peers'[Len(m_whitelist_peers) + 1] = Len(bonds)
          /\ \A i \in DOMAIN m_whitelist_peers :
               m_whitelist_peers'[i] = m_whitelist_peers[i]
      BY <1>0, <2>1, <2>6, Arrival DEF ListsOfBonds
    <3>2. Len(m_whitelist_peers') <= BLE_GAP_WHITELIST_ADDR_MAX_COUNT
      BY <2>6, <3>1, WhitelistAssumption DEF PlaceLeft
    <3>3. \A i \in DOMAIN m_whitelist_peers : m_whitelist_peers[i] \in BondIds(bonds)
      BY <1>0 DEF ListsOfBonds, ToSet
    <3>4. \A i \in DOMAIN m_whitelist_peers : m_whitelist_peers[i] # Len(bonds)
      BY <2>1, <3>3 DEF BondIds
    <3>5. \A i \in DOMAIN m_whitelist_peers' :
            i \in DOMAIN m_whitelist_peers \/ i = Len(m_whitelist_peers) + 1
      BY <3>1
    <3>6. IsInjective(m_whitelist_peers')
      BY <1>0, <3>1, <3>4, <3>5 DEF ListsOfBonds, IsInjective
    <3>7. ToSet(m_whitelist_peers') \subseteq BondIds(bonds')
      BY <2>3, <3>1, <3>3, <3>5 DEF ToSet
    <3> QED BY <1>2, <2>4, <3>1, <3>2, <3>6, <3>7 DEF ListsOfBonds
  <2> QED BY <1>4, <2>5, <2>6, NewBond
<1>5. CASE HostActs
  BY <1>3, <1>5, HostActsShape DEF peerVars
<1>6. CASE AdvTimesOut \/ \E h \in Hosts : HostConnects(h)
  BY <1>3, <1>6 DEF AdvTimesOut, HostConnects, peerVars
<1>7. CASE LinkDispatch /\ ~DispatchBonded
  BY <1>3, <1>7 DEF LinkDispatch, DispatchConnected, DispatchSecured,
     DispatchKeyMissing, DispatchSecParamsRequest, peerVars
<1>8. CASE FlashStep
  BY <1>3, <1>8, FlashStepShape DEF peerVars
<1>9. CASE DispatchDisconnected \/ DispatchAdvTimeout
  BY <1>3, <1>9, RestartShape DEF peerVars
<1> QED BY <1>4, <1>5, <1>6, <1>7, <1>8, <1>9, StepShapes

-----------------------------------------------------------------------------
(* What is queued fits in the queue of fstorage.                           *)
LEMMA QueueLengths ==
  ASSUME NEW queue \in Seq(FlashOps), Len(queue) <= FDS_OP_QUEUE_SIZE
  PROVE  /\ ReportStorageFull(queue) =>
              Len(flash') <= FDS_OP_QUEUE_SIZE /\ gc_refused' \in BOOLEAN
         /\ \A q \in Ranked(queue) : Len(q) <= FDS_OP_QUEUE_SIZE
<1>1. \A op \in FlashOps : /\ Len(Append(queue, op)) = Len(queue) + 1
                           /\ Append(queue, op) \in Seq(FlashOps)
  BY Arrival
<1>2. Len(queue) \in Nat /\ {"gc", "rank"} \subseteq FlashOps
  BY DEF FlashOps
<1>3. ASSUME ReportStorageFull(queue)
      PROVE  Len(flash') <= FDS_OP_QUEUE_SIZE /\ gc_refused' \in BOOLEAN
  <2>1. \/ flash' = queue
        \/ Len(queue) < FDS_OP_QUEUE_SIZE /\ flash' = Append(queue, "gc")
    BY <1>3 DEF ReportStorageFull, StorageFull, fds_gc
  <2>2. gc_refused' \in BOOLEAN
    BY <1>3 DEF ReportStorageFull
  <2> QED BY <1>1, <1>2, <2>1, <2>2 DEF FDS_OP_QUEUE_SIZE
<1>5. ASSUME NEW q \in Ranked(queue) PROVE Len(q) <= FDS_OP_QUEUE_SIZE
  <2>1. q = queue \/ ~(Len(queue) >= FDS_OP_QUEUE_SIZE)
    BY <1>5 DEF Ranked
  <2>2. q = queue \/ q = Append(queue, "rank")
    BY <1>5 DEF Ranked
  <2> QED BY <1>1, <1>2, <2>1, <2>2 DEF FDS_OP_QUEUE_SIZE
<1> QED BY <1>3, <1>5

LEMMA StoreBondBounds ==
  ASSUME Types, Bounds, StoreBond("bond")
  PROVE  /\ Len(flash') <= FDS_OP_QUEUE_SIZE /\ full' \in BOOLEAN
         /\ gc_refused' \in BOOLEAN /\ held' \in Seq({"bond", "update"})
<1>1. flash \in Seq(FlashOps) /\ Len(flash) \in Nat /\ Len(flash) <= FDS_OP_QUEUE_SIZE
  BY DEF Types, Bounds
<1>2. held' \in Seq({"bond", "update"})
  <2>1. held \in Seq({"bond", "update"}) /\ "bond" \in {"bond", "update"}
    BY DEF Bounds
  <2>2. Append(held, "bond") \in Seq({"bond", "update"})
    BY <2>1, QueueTypes
  <2> QED BY <2>1, <2>2 DEF StoreBond
<1>3. full' \in BOOLEAN
  BY DEF StoreBond, RoomAfter, Bounds
<1>4. CASE full \/ Len(flash) >= FDS_OP_QUEUE_SIZE
  <2>1. \/ ReportStorageFull(flash)
        \/ flash' = flash /\ gc_refused' = gc_refused
    BY <1>4 DEF StoreBond
  <2> QED BY <1>1, <1>2, <1>3, <2>1, QueueLengths DEF Bounds
<1>5. CASE ~(full \/ Len(flash) >= FDS_OP_QUEUE_SIZE)
  <2>1. /\ flash' \in Ranked(Append(flash, "bond")) /\ "bond" \in FlashOps
        /\ gc_refused' \in BOOLEAN
    BY <1>5 DEF StoreBond, FlashOps, Bounds
  <2>2. /\ Append(flash, "bond") \in Seq(FlashOps)
        /\ Len(Append(flash, "bond")) = Len(flash) + 1
    BY <1>1, <2>1, Arrival
  <2>3. Len(flash) + 1 <= FDS_OP_QUEUE_SIZE
    BY <1>1, <1>5 DEF FDS_OP_QUEUE_SIZE
  <2> QED BY <1>2, <1>3, <2>1, <2>2, <2>3, QueueLengths
<1> QED BY <1>4, <1>5

LEMMA RetryHeldBounds ==
  ASSUME Types, Bounds, flash # <<>>, NEW room \in BOOLEAN,
         RetryHeld(Tail(flash), room)
  PROVE  /\ Len(flash') <= FDS_OP_QUEUE_SIZE /\ full' \in BOOLEAN
         /\ gc_refused' \in BOOLEAN /\ held' \in Seq({"bond", "update"})
<1>1. flash \in Seq(FlashOps) /\ Len(flash) \in Nat /\ Len(flash) <= FDS_OP_QUEUE_SIZE
  BY DEF Types, Bounds
<1>2. Tail(flash) \in Seq(FlashOps) /\ Len(Tail(flash)) = Len(flash) - 1
  BY <1>1, Departure
<1>3. Len(Tail(flash)) \in Nat /\ Len(Tail(flash)) + 1 <= FDS_OP_QUEUE_SIZE
  BY <1>1, <1>2 DEF FDS_OP_QUEUE_SIZE
<1>4. Len(Tail(flash)) <= FDS_OP_QUEUE_SIZE
  BY <1>3 DEF FDS_OP_QUEUE_SIZE
<1>5. held \in Seq({"bond", "update"})
  BY DEF Bounds
<1>6. CASE held = <<>> \/ ~room
  BY <1>4, <1>5, <1>6 DEF RetryHeld, Bounds
<1>7. CASE held # <<>> /\ room
  <2>1. PICK n \in 1 .. Len(held) :
          LET sent == Tail(flash) \o SubSeq(held, 1, n)
          IN /\ Len(sent) <= FDS_OP_QUEUE_SIZE
             /\ held' = SubSeq(held, n + 1, Len(held))
             /\ full' \in BOOLEAN
             /\ \/ ReportStorageFull(sent)
                \/ flash' = sent /\ gc_refused' = FALSE
    BY <1>7 DEF RetryHeld
  <2> DEFINE sent == Tail(flash) \o SubSeq(held, 1, n)
  <2>2. /\ SubSeq(held, 1, n) \in Seq({"bond", "update"})
        /\ held' \in Seq({"bond", "update"})
    BY <1>5, <2>1, Split
  <2>3. SubSeq(held, 1, n) \in Seq(FlashOps)
    BY <2>2 DEF FlashOps
  <2>4. sent \in Seq(FlashOps)
    BY <1>2, <2>3
  <2>5. Len(flash') <= FDS_OP_QUEUE_SIZE /\ gc_refused' \in BOOLEAN
    BY <2>1, <2>4, QueueLengths
  <2> QED BY <2>1, <2>2, <2>5
<1> QED BY <1>6, <1>7

(* The Peer Manager gives the identifier of a bond, or the invalid one.    *)
LEMMA PeerIdType ==
  ASSUME bonds \in Seq(AnyHost), NEW h
  PROVE  PeerId(h) \in BondIds(bonds) \cup {PM_PEER_ID_INVALID}
<1>1. CASE Bonded(h)
  <2>1. \E i \in 1 .. Len(bonds) : bonds[i] = h
    BY <1>1 DEF Bonded, ToSet
  <2> DEFINE i == CHOOSE i \in 1 .. Len(bonds) : bonds[i] = h
  <2>2. i \in 1 .. Len(bonds)
    BY <2>1
  <2>3. PeerId(h) = i - 1
    BY <1>1 DEF PeerId
  <2> HIDE DEF i
  <2> QED BY <2>2, <2>3 DEF BondIds
<1>2. CASE ~Bonded(h)
  BY <1>2 DEF PeerId
<1> QED BY <1>1, <1>2

(* Steps that leave the bonds, the flash and what is known of peers alone. *)
LEMMA BoundsElsewhere ==
  ASSUME OrderInv,
         UNCHANGED <<bonds, flash, full, held, gc_refused, m_peer_id, known>>,
         conn' \in AnyHost, Len(evts') <= MaxEvents,
         sec' \in {"none", "asked", "requested", "pairing"},
         \/ adv' = adv
         \/ adv' \in {"off", "pending"} \cup Modes /\ (adv' = "pending" => flash' # <<>>)
  PROVE  Bounds'
BY DEF OrderInv, Bounds, IsInjective

(* A head that is taken off leaves place in the queue of events.           *)
LEMMA FewerEvents ==
  ASSUME OrderInv, evts # <<>>, evts' = Tail(evts)
  PROVE  Len(evts') <= MaxEvents /\ Head(evts).host \in AnyHost
<1>1. evts \in Seq(BleEvents) /\ Len(evts) \in Nat /\ Len(evts) <= MaxEvents
  BY QueueOfEvents DEF OrderInv, Bounds
<1>2. Len(evts') = Len(evts) - 1
  BY <1>1, Departure
<1>3. Head(evts) \in BleEvents
  BY <1>1, QueueTypes
<1> QED BY <1>1, <1>2, <1>3, WhitelistAssumption DEF BleEvents

LEMMA LinkDispatchBounds ==
  ASSUME OrderInv, LinkDispatch
  PROVE  Bounds'
<1>0. /\ evts # <<>> /\ evts' = Tail(evts) /\ UNCHANGED advVars
      /\ Len(evts') <= MaxEvents /\ Head(evts).host \in AnyHost
  BY LinkDispatchShape, FewerEvents
<1>1. /\ Bounds /\ Types
      /\ bonds \in Seq(AnyHost) /\ flash \in Seq(FlashOps)
      /\ Len(flash) <= FDS_OP_QUEUE_SIZE
  BY DEF OrderInv, ShutOutInv, Types, Bounds
<1>2. CASE DispatchKeyMissing \/ DispatchSecParamsRequest
  <2>1. UNCHANGED <<bonds, flash, full, held, gc_refused, conn, m_peer_id, known>>
    BY <1>2 DEF DispatchKeyMissing, DispatchSecParamsRequest, flashVars, peerVars,
       historyVars
  <2>2. sec' \in {"none", "asked", "requested", "pairing"}
    BY <1>1, <1>2 DEF DispatchKeyMissing, DispatchSecParamsRequest, Bounds
  <2> QED BY <1>0, <1>1, <2>1, <2>2, BoundsElsewhere DEF Bounds, advVars
<1>3. CASE DispatchConnected \/ DispatchSecured
  <2>1. UNCHANGED <<bonds, held, gc_refused, sec>> /\ conn' \in AnyHost
    BY <1>0, <1>1, <1>3 DEF DispatchConnected, DispatchSecured, linkVars, Bounds
  <2>2. \/ flash' \in Ranked(flash) /\ RoomAfter(flash' # flash)
        \/ UNCHANGED <<flash, full>>
    BY <1>3 DEF DispatchConnected, DispatchSecured
  <2>3. Len(flash') <= FDS_OP_QUEUE_SIZE
    BY <1>1, <2>2, QueueLengths
  <2>4. full' \in BOOLEAN
    BY <1>1, <2>2 DEF RoomAfter, Bounds
  <2>5. flash # <<>> => flash' # <<>>
    <3>1. flash' \in {flash, Append(flash, "rank")}
      BY <2>2 DEF Ranked
    <3>2. "rank" \in FlashOps
      BY DEF FlashOps
    <3> QED BY <1>1, <3>1, <3>2, QueueTypes
  <2>6. /\ m_peer_id' \in BondIds(bonds) \cup {0, PM_PEER_ID_INVALID}
        /\ known' \subseteq BondIds(bonds) \cup {PM_PEER_ID_INVALID}
    BY <1>1, <1>3, PeerIdType DEF DispatchConnected, DispatchSecured, Bounds
  <2> QED BY <1>0, <1>1, <2>1, <2>3, <2>4, <2>5, <2>6 DEF Bounds, advVars, IsInjective
<1>4. CASE DispatchBonded
  <2> DEFINE h == Head(evts).host
  <2>1. /\ ~Bonded(h) /\ h \in Hosts /\ bonds' = Append(bonds, h)
        /\ Len(bonds) \in Nat
        /\ m_peer_id' = Len(bonds) /\ known' = known \cup {Len(bonds)}
        /\ StoreBond("bond")
    BY <1>4, NewBond
  <2> HIDE DEF h
  <2>2. /\ DOMAIN bonds = 1 .. Len(bonds) /\ DOMAIN bonds' = 1 .. Len(bonds) + 1
        /\ bonds'[Len(bonds) + 1] = h /\ Len(bonds') = Len(bonds) + 1
        /\ \A i \in DOMAIN bonds : bonds'[i] = bonds[i]
    BY <1>1, <2>1, Arrival DEF AnyHost
  <2>3. \A i \in DOMAIN bonds' : i \in DOMAIN bonds \/ i = Len(bonds) + 1
    BY <2>1, <2>2
  <2>4. \A i \in DOMAIN bonds : bonds[i] # h /\ bonds[i] \in Hosts
    BY <1>1, <2>1 DEF Bonded, ToSet, Bounds
  <2>5. IsInjective(bonds')
    BY <1>1, <2>2, <2>3, <2>4 DEF IsInjective, Bounds
  <2>6. ToSet(bonds') \subseteq Hosts
    BY <2>1, <2>2, <2>3, <2>4 DEF ToSet
  <2>7. BondIds(bonds) \subseteq BondIds(bonds') /\ Len(bonds) \in BondIds(bonds')
    BY <2>1, <2>2 DEF BondIds
  <2>8. /\ m_peer_id' \in BondIds(bonds') \cup {0, PM_PEER_ID_INVALID}
        /\ known' \subseteq BondIds(bonds') \cup {PM_PEER_ID_INVALID}
    BY <1>1, <2>1, <2>7 DEF Bounds
  <2>9. /\ Len(flash') <= FDS_OP_QUEUE_SIZE /\ full' \in BOOLEAN
        /\ gc_refused' \in BOOLEAN /\ held' \in Seq({"bond", "update"})
    BY <1>1, <2>1, StoreBondBounds
  <2>10. flash # <<>> => flash' # <<>>
    BY <1>1, <2>1, StoreBondTypes
  <2>11. conn' = conn /\ sec' = sec
    BY <1>4 DEF DispatchBonded, linkVars
  <2> QED BY <1>0, <1>1, <2>5, <2>6, <2>8, <2>9, <2>10, <2>11 DEF Bounds, advVars
<1> QED BY <1>2, <1>3, <1>4 DEF LinkDispatch

LEMMA BoundsKept ==
  ASSUME OrderInv, Next, ~Boot(Stored)
  PROVE  Bounds'
<1>0. /\ evts \in Seq(BleEvents) /\ Len(evts) \in Nat /\ Bounds
      /\ adv_mode \in Modes /\ Types
  BY QueueOfEvents DEF OrderInv, ShutOutInv, Types
<1>1. ASSUME NEW h \in Hosts, HostConnects(h) PROVE Bounds'
  <2>1. [evt |-> "CONNECTED", host |-> h] \in BleEvents /\ Len(evts) < MaxEvents
    BY <1>1 DEF HostConnects, HasRoom, BleEvents, AnyHost
  <2>2. Len(evts') = Len(evts) + 1
    BY <1>0, <1>1, <2>1, Arrival DEF HostConnects
  <2>3. Len(evts') <= MaxEvents
    BY <1>0, <2>1, <2>2, WhitelistAssumption
  <2>4. /\ UNCHANGED <<bonds, flash, full, held, gc_refused, conn, m_peer_id, known>>
        /\ sec' = "none" /\ adv' = "off"
    BY <1>1 DEF HostConnects, flashVars, peerVars, historyVars
  <2> QED BY <1>0, <2>3, <2>4, BoundsElsewhere DEF Bounds
<1>2. CASE HostActs
  <2>1. /\ UNCHANGED <<bonds, flash, full, held, gc_refused, conn, m_peer_id, known,
                       adv>>
        /\ Len(evts) < MaxEvents
        /\ \E type \in HostEvents :
             Event(type) \in BleEvents /\ evts' = Append(evts, Event(type))
    BY <1>2, HostActsShape DEF flashVars, peerVars, advVars, historyVars
  <2>2. Len(evts') = Len(evts) + 1
    BY <1>0, <2>1, Arrival
  <2>3. Len(evts') <= MaxEvents
    BY <1>0, <2>1, <2>2, WhitelistAssumption
  <2>4. sec' \in {"none", "asked", "requested", "pairing"}
    BY <1>0, <1>2 DEF HostActs, HostLeaves, HostEncrypts, HostAsksPairing,
       HostPairs, linkVars, Bounds
  <2> QED BY <1>0, <2>1, <2>3, <2>4, BoundsElsewhere DEF Bounds
<1>3. CASE AdvTimesOut
  <2>1. /\ UNCHANGED <<bonds, flash, full, held, gc_refused, conn, m_peer_id, known,
                       sec>>
        /\ Len(evts) < MaxEvents /\ adv' = "off"
        /\ evts' = Append(evts, Event("ADV_TIMEOUT"))
    BY <1>3 DEF AdvTimesOut, HasRoom, flashVars, peerVars, historyVars, linkVars
  <2>2. Event("ADV_TIMEOUT") \in BleEvents
    BY <1>0 DEF Event, BleEvents, Types
  <2>3. Len(evts') <= MaxEvents
    BY <1>0, <2>1, <2>2, Arrival, WhitelistAssumption
  <2> QED BY <1>0, <2>1, <2>3, BoundsElsewhere DEF Bounds
<1>4. CASE LinkDispatch
  BY <1>4, LinkDispatchBounds
<1>5. CASE FlashCompletes
  <2>1. /\ UNCHANGED <<bonds, flash, full, held, gc_refused, conn, m_peer_id, known,
                       sec, evts, adv>>
    BY <1>5 DEF FlashCompletes, peerVars, historyVars, linkVars, advVars
  <2> QED BY <1>0, <2>1, BoundsElsewhere DEF Bounds
<1>6. CASE sys_evt_dispatch
  <2>1. /\ UNCHANGED <<bonds, linkVars, evts, conn, peerVars, historyVars>>
        /\ flash # <<>>
    BY <1>6, FlashStepShape DEF FlashStep
  <2>2. /\ Len(flash') <= FDS_OP_QUEUE_SIZE /\ full' \in BOOLEAN
        /\ gc_refused' \in BOOLEAN /\ held' \in Seq({"bond", "update"})
    <3>1. (Head(flash) = "gc" \/ ~full) \in BOOLEAN
      OBVIOUS
    <3> QED BY <1>0, <1>6, <2>1, <3>1, RetryHeldBounds DEF sys_evt_dispatch
  <2>3. adv' \in {"off", "pending"} \cup Modes /\ (adv' = "pending" => flash' # <<>>)
    <3>1. CASE adv = "pending"
      BY <1>0, <1>6, <3>1, AdvStartResult DEF sys_evt_dispatch, AdvOnSysEvt
    <3>2. CASE adv # "pending"
      BY <1>0, <1>6, <3>2 DEF sys_evt_dispatch, AdvOnSysEvt, advVars, Bounds
    <3> QED BY <3>1, <3>2
  <2> QED BY <1>0, <2>1, <2>2, <2>3 DEF Bounds, IsInjective, linkVars, peerVars,
             historyVars
<1>7. CASE DispatchDisconnected \/ DispatchAdvTimeout
  <2>1. /\ UNCHANGED <<bonds, flash, full, held, gc_refused, m_peer_id, known, sec>>
        /\ evts' = <<>> /\ conn' \in {conn, NoHost}
        /\ NextMode \in Modes /\ AdvStart(NextMode, flash, pm_whitelist)
    BY <1>7, RestartShape DEF flashVars, linkVars, peerVars, historyVars
  <2>2. adv' \in {"off", "pending"} \cup Modes /\ (adv' = "pending" => flash' # <<>>)
    BY <2>1, AdvStartResult
  <2>3. Len(evts') <= MaxEvents
    BY <2>1, WhitelistAssumption
  <2> QED BY <1>0, <2>1, <2>2, <2>3, BoundsElsewhere DEF Bounds, AnyHost
<1> QED BY <1>1, <1>2, <1>3, <1>4, <1>5, <1>6, <1>7, StepShapes DEF FlashStep

-----------------------------------------------------------------------------
(* The elements of a sequence without repetition, counted.                 *)
LEMMA CountOfDistinct ==
  ASSUME NEW S, NEW s \in Seq(S), IsInjective(s)
  PROVE  Cardinality(ToSet(s)) = Len(s) /\ IsFiniteSet(ToSet(s))
<1>1. Len(s) \in Nat /\ DOMAIN s = 1 .. Len(s)
  OBVIOUS
<1>2. IsFiniteSet(1 .. Len(s)) /\ Cardinality(1 .. Len(s)) = Len(s)
  BY <1>1, FS_Interval
<1>3. s \in [1 .. Len(s) -> ToSet(s)]
  BY <1>1 DEF ToSet
<1>4. s \in Surjection(1 .. Len(s), ToSet(s))
  BY <1>1, <1>3 DEF Surjection, ToSet
<1>5. s \in Injection(1 .. Len(s), ToSet(s))
  BY <1>3 DEF Injection
<1> QED BY <1>2, <1>4, <1>5, FS_Surjection

(* A prefix has the elements of the sequence at the same places.           *)
LEMMA PrefixElements ==
  ASSUME NEW S, NEW s \in Seq(S), NEW n \in Int, n <= Len(s)
  PROVE  \A i \in DOMAIN SubSeq(s, 1, n) :
           i \in DOMAIN s /\ SubSeq(s, 1, n)[i] = s[i]
<1>1. CASE n >= 0
  <2>1. n \in Nat /\ Len(s) \in Nat /\ DOMAIN s = 1 .. Len(s)
    BY <1>1
  <2>2. DOMAIN SubSeq(s, 1, n) = 1 .. n
    BY <1>1
  <2>3. \A i \in 1 .. n : SubSeq(s, 1, n)[i] = s[i]
    BY <1>1, <2>1
  <2> QED BY <2>1, <2>2, <2>3
<1>2. CASE n < 0
  <2>1. 1 .. n = {} /\ 1 .. 0 = {}
    BY <1>2
  <2>2. SubSeq(s, 1, n) = <<>>
    BY <1>2, <2>1
  <2> QED BY <2>2
<1> QED BY <1>1, <1>2

(* peer_list_get names the bonds in their order, each of them once: all of *)
(* them, or as many as the whitelist takes.                                *)
LEMMA PeerListPlaces ==
  ASSUME NEW S, NEW peers \in Seq(S)
  PROVE  /\ IsInjective(peer_list_get(peers))
         /\ Len(peer_list_get(peers)) <= BLE_GAP_WHITELIST_ADDR_MAX_COUNT
         /\ \/ Len(peer_list_get(peers)) = BLE_GAP_WHITELIST_ADDR_MAX_COUNT
            \/ BondIds(peers) \subseteq ToSet(peer_list_get(peers))
         /\ peers = <<>> => peer_list_get(peers) = <<>>
<1> DEFINE n == IF Len(peers) < BLE_GAP_WHITELIST_ADDR_MAX_COUNT
                  THEN Len(peers) ELSE BLE_GAP_WHITELIST_ADDR_MAX_COUNT
           list == peer_list_get(peers)
<1>1. /\ n \in Nat /\ n <= BLE_GAP_WHITELIST_ADDR_MAX_COUNT
      /\ n = BLE_GAP_WHITELIST_ADDR_MAX_COUNT \/ n = Len(peers)
      /\ peers = <<>> => n = 0
  BY WhitelistAssumption
<1>2. list = [i \in 1 .. n |-> i - 1]
  BY DEF peer_list_get
<1> HIDE DEF n, list
<1>3. Len(list) = n /\ DOMAIN list = 1 .. n /\ \A i \in 1 .. n : list[i] = i - 1
  BY <1>1, <1>2
<1>4. IsInjective(list)
  BY <1>1, <1>3 DEF IsInjective
<1>5. ASSUME n = Len(peers), NEW id \in BondIds(peers) PROVE id \in ToSet(list)
  <2>1. id + 1 \in 1 .. n /\ (id + 1) - 1 = id
    BY <1>1, <1>5 DEF BondIds
  <2>2. id + 1 \in DOMAIN list /\ list[id + 1] = id
    BY <1>3, <2>1
  <2> QED BY <2>2 DEF ToSet
<1>6. n = 0 => list = <<>>
  BY <1>2
<1> QED BY <1>1, <1>3, <1>4, <1>5, <1>6 DEF list

(* A reset establishes the invariant.                                      *)
LEMMA BootOrders ==
  ASSUME OrderInv, Boot(Stored)
  PROVE  OrderInv'
<1> DEFINE peers == Stored
<1>1. peers \in Seq(AnyHost) /\ bonds \in Seq(AnyHost)
  BY StoredType DEF OrderInv, ShutOutInv, Types
<1>2. PICK n \in Int : n <= Len(bonds) /\ peers = SubSeq(bonds, 1, n)
  BY StoredType DEF OrderInv, ShutOutInv
<1>3. \A i \in DOMAIN peers : i \in DOMAIN bonds /\ peers[i] = bonds[i]
  BY <1>1, <1>2, PrefixElements
<1> HIDE DEF peers
<1>4. ToSet(peers) \subseteq Hosts /\ IsInjective(peers)
  BY <1>3 DEF OrderInv, Bounds, ToSet, IsInjective
<1>5. Boot(peers)
  BY DEF peers
<1>6. /\ bonds' = peers /\ link' = NoHost /\ sec' = "none" /\ evts' = <<>>
      /\ flash' = <<>> /\ held' = <<>> /\ conn' = NoHost
      /\ m_peer_id' = 0 /\ known' = {} /\ bondless' = (peers = <<>>)
      /\ m_whitelist_peers' = peer_list_get(peers)
      /\ pm_whitelist' = peer_list_get(peers)
      /\ full' \in {full, FALSE} /\ gc_refused' = FALSE
  BY <1>5 DEF Boot
<1>7. adv' = "fast" /\ adv_mode' = "fast" /\ adv_filter' = ToSet(peer_list_get(peers))
  BY <1>5 DEF Boot, AdvStart, WhitelistReply
<1>8. /\ peer_list_get(peers) \in Seq(Nat)
      /\ ToSet(peer_list_get(peers)) \subseteq BondIds(peers)
      /\ IsInjective(peer_list_get(peers))
      /\ Len(peer_list_get(peers)) <= BLE_GAP_WHITELIST_ADDR_MAX_COUNT
      /\ peers = <<>> => peer_list_get(peers) = <<>>
  BY <1>1, PeerList, PeerListPlaces
<1>9. ShutOutInv'
  BY <1>1, <1>5, BootShutsOut
<1>10. DOMAIN evts' = {} /\ Len(evts') = 0 /\ \A type : At(type)' = {}
  BY <1>6 DEF At
<1>11. Turns'
  BY <1>6, <1>7, <1>10 DEF Turns
<1>12. Pairing'
  BY <1>6, <1>10 DEF Pairing
<1>13. EventHosts'
  BY <1>10 DEF EventHosts
<1>14. PeerReported'
  BY <1>6, <1>7 DEF PeerReported, Fresh
<1>15. DirectedToKnownPeer'
  BY <1>7 DEF DirectedToKnownPeer
<1>16. ListsOfBonds'
  BY <1>6, <1>7, <1>8 DEF ListsOfBonds
<1>17. Bounds'
  <2>1. Len(flash') <= FDS_OP_QUEUE_SIZE /\ Len(evts') <= MaxEvents
    BY <1>6, WhitelistAssumption DEF FDS_OP_QUEUE_SIZE
  <2>2. held' \in Seq({"bond", "update"}) /\ conn' \in AnyHost
    BY <1>6 DEF AnyHost
  <2>3. full' \in BOOLEAN /\ gc_refused' \in BOOLEAN
    BY <1>6 DEF OrderInv, Bounds
  <2>4. adv' \in {"off", "pending"} \cup Modes /\ adv' # "pending"
    BY <1>7 DEF Modes
  <2> QED BY <1>4, <1>6, <2>1, <2>2, <2>3, <2>4 DEF Bounds
<1> QED BY <1>9, <1>11, <1>12, <1>13, <1>14, <1>15, <1>16, <1>17 DEF OrderInv

LEMMA InitOrders == Init => OrderInv
<1> SUFFICES ASSUME Init PROVE OrderInv
  OBVIOUS
<1>1. /\ bonds = <<>> /\ evts = <<>> /\ link = NoHost /\ adv = "fast"
      /\ m_whitelist_peers = <<>> /\ pm_whitelist = <<>> /\ adv_filter = {}
  BY DEF Init
<1>2. /\ DOMAIN evts = {} /\ DOMAIN bonds = {} /\ DOMAIN m_whitelist_peers = {}
      /\ DOMAIN pm_whitelist = {} /\ \A type : At(type) = {}
  BY <1>1 DEF At
<1>3. ToSet(bonds) = {} /\ ToSet(m_whitelist_peers) = {} /\ ToSet(pm_whitelist) = {}
  BY <1>2 DEF ToSet
<1>4. ShutOutInv
  BY InitShutsOut
<1>5. Turns /\ Pairing /\ EventHosts
  BY <1>1, <1>2 DEF Init, Turns, Pairing, EventHosts
<1>6. PeerReported /\ DirectedToKnownPeer
  BY <1>1 DEF PeerReported, DirectedToKnownPeer
<1>7. ListsOfBonds
  <2>1. m_whitelist_peers \in Seq(Nat) /\ Len(m_whitelist_peers) = 0
    BY <1>1
  <2>2. bondless /\ 0 <= BLE_GAP_WHITELIST_ADDR_MAX_COUNT
    BY WhitelistAssumption DEF Init
  <2> QED BY <1>1, <1>2, <1>3, <2>1, <2>2 DEF ListsOfBonds, IsInjective
<1>8. Bounds
  <2>1. Len(flash) <= FDS_OP_QUEUE_SIZE /\ Len(evts) <= MaxEvents
    BY WhitelistAssumption DEF Init, FDS_OP_QUEUE_SIZE
  <2>2. held \in Seq({"bond", "update"}) /\ conn \in AnyHost
    BY DEF Init, AnyHost
  <2> QED BY <1>1, <1>2, <1>3, <2>1, <2>2 DEF Init, Bounds, IsInjective, Modes
<1> QED BY <1>4, <1>5, <1>6, <1>7, <1>8 DEF OrderInv

LEMMA NextOrders == OrderInv /\ [Next]_vars => OrderInv'
<1> SUFFICES ASSUME OrderInv, [Next]_vars PROVE OrderInv'
  OBVIOUS
<1>1. ShutOutInv'
  BY NextShutsOut DEF OrderInv
<1>2. CASE UNCHANGED vars
  <2>1. /\ UNCHANGED <<bonds, flash, full, held, gc_refused, link, sec, evts, conn,
                       m_peer_id>>
        /\ UNCHANGED <<m_whitelist_peers, pm_whitelist, adv, adv_mode, adv_filter,
                       known, bondless>>
    BY <1>2 DEF vars, flashVars, linkVars, peerVars, advVars, historyVars
  <2>2. Turns' /\ Pairing' /\ EventHosts'
    BY <2>1 DEF OrderInv, Turns, Pairing, EventHosts, At, Bonded
  <2>3. PeerReported' /\ DirectedToKnownPeer'
    BY <2>1 DEF OrderInv, PeerReported, Fresh, NextIs, Bonded, DirectedToKnownPeer
  <2>4. ListsOfBonds' /\ Bounds'
    BY <2>1 DEF OrderInv, ListsOfBonds, Bounds
  <2> QED BY <1>1, <2>2, <2>3, <2>4 DEF OrderInv
<1>3. CASE Next /\ Boot(Stored)
  BY <1>3, BootOrders
<1>4. CASE Next /\ ~Boot(Stored)
  BY <1>1, <1>4, TurnsKept, PairingKept, EventHostsKept, PeerReportedKept,
     DirectedKept, ListsKept, BoundsKept
  DEF OrderInv
<1> QED BY <1>2, <1>3, <1>4

-----------------------------------------------------------------------------
(* Every variable has its type: m_whitelist_peers stays within its array   *)
(* and names peers that exist (my_ble_globals.h:35-36), and the queue of   *)
(* fstorage within its places (sdk_config.h).                              *)
THEOREM TypesAreKept == Spec => []TypeOK
<1>1. OrderInv => TypeOK
  <2> SUFFICES ASSUME OrderInv PROVE TypeOK
    OBVIOUS
  <2>0. /\ Types /\ Bounds /\ ListsOfBonds /\ WhitelistOfReset /\ FilterOfBonds
        /\ bonds \in Seq(AnyHost) /\ Len(bonds) \in Nat
    BY DEF OrderInv, ShutOutInv, Types
  <2>1. Len(bonds) <= Cardinality(Hosts) /\ Cardinality(Hosts) \in Nat
    <3>1. Cardinality(ToSet(bonds)) = Len(bonds)
      BY <2>0, CountOfDistinct DEF Bounds
    <3>2. IsFiniteSet(Hosts) /\ ToSet(bonds) \in SUBSET Hosts
      BY <2>0, WhitelistAssumption DEF Bounds
    <3> QED BY <3>1, <3>2, FS_Subset, FS_CardinalityType
  <2>2. BondIds(bonds) \subseteq PeerIds
    BY <2>0, <2>1 DEF BondIds, PeerIds
  <2>3. /\ m_peer_id \in PeerIds \cup {0, PM_PEER_ID_INVALID}
        /\ ToSet(m_whitelist_peers) \subseteq PeerIds
        /\ ToSet(pm_whitelist) \subseteq PeerIds
        /\ known \subseteq PeerIds \cup {PM_PEER_ID_INVALID}
    BY <2>0, <2>2 DEF Bounds, ListsOfBonds, WhitelistOfReset
  <2>4. adv_filter \subseteq 0 .. Len(bonds) - 1
    BY <2>0 DEF FilterOfBonds, BondIds
  <2>5. /\ ToSet(flash) \subseteq {"bond", "update", "rank", "gc"}
        /\ ToSet(held) \subseteq {"bond", "update"}
    BY <2>0 DEF Types, Bounds, FlashOps, ToSet
  <2>6. {written, full, gc_refused} \subseteq BOOLEAN /\ (written => flash # <<>>)
    BY <2>0 DEF Types, Bounds
  <2>7. {link, conn} \subseteq Hosts \cup {NoHost}
    BY <2>0 DEF Types, Bounds, AnyHost
  <2>8. /\ ToSet(bonds) \subseteq Hosts /\ Len(flash) <= FDS_OP_QUEUE_SIZE
        /\ sec \in {"none", "asked", "requested", "pairing"}
        /\ Len(evts) <= MaxEvents
        /\ Len(m_whitelist_peers) <= BLE_GAP_WHITELIST_ADDR_MAX_COUNT
    BY <2>0 DEF Bounds, ListsOfBonds
  <2>9. /\ m_is_wl_changed \in [Units -> BOOLEAN] /\ bondless \in BOOLEAN
        /\ adv \in {"off", "pending", "directed", "fast", "slow"}
        /\ adv_mode \in {"directed", "fast", "slow"}
    BY <2>0 DEF Types, Bounds, Modes
  <2> QED BY <2>1, <2>3, <2>4, <2>5, <2>6, <2>7, <2>8, <2>9 DEF TypeOK
<1> QED BY <1>1, InitOrders, NextOrders, PTL DEF Spec

(* No place of the whitelist is taken twice by the same peer               *)
(* (my_ble_peer_manager.c:70-74, 101-105), for any size of the whitelist:  *)
(* a host that has a bond is refused another.                              *)
THEOREM PlacesAreNotTakenTwice == Spec => []NoPeerTwice
<1>1. OrderInv => NoPeerTwice
  BY CountOfDistinct DEF OrderInv, ListsOfBonds, NoPeerTwice
<1> QED BY <1>1, InitOrders, NextOrders, PTL DEF Spec

(* A whitelist in use locks out no bonded host, unless it is full          *)
(* (my_ble_advertising.c:113-138): no bond is made after a reset that      *)
(* found one, so the whitelist of the reset is that of all bonds.          *)
THEOREM BondedHostsMayConnect == Spec => []BondedHostsAdmitted
<1>1. OrderInv => BondedHostsAdmitted
  <2> SUFFICES ASSUME OrderInv, adv \in {"fast", "slow"}, adv_filter # {}
               PROVE  \/ \A h \in ToSet(bonds) : Admits(h)
                      \/ Cardinality(adv_filter) = BLE_GAP_WHITELIST_ADDR_MAX_COUNT
    BY DEF BondedHostsAdmitted
  <2>1. adv_filter = ToSet(pm_whitelist)
    BY DEF OrderInv, ListsOfBonds
  <2>2. pm_whitelist # <<>>
    <3>1. ToSet(<<>>) = {}
      BY DEF ToSet
    <3> QED BY <2>1, <3>1
  <2>3. pm_whitelist = peer_list_get(bonds) /\ bonds \in Seq(AnyHost)
    BY <2>2 DEF OrderInv, ListsOfBonds, ShutOutInv, Types
  <2>4. CASE Len(pm_whitelist) = BLE_GAP_WHITELIST_ADDR_MAX_COUNT
    <3>1. pm_whitelist \in Seq(Nat) /\ IsInjective(pm_whitelist)
      BY <2>3, PeerList, PeerListPlaces
    <3> QED BY <2>1, <2>4, <3>1, CountOfDistinct
  <2>5. CASE BondIds(bonds) \subseteq adv_filter
    <3>1. ASSUME NEW h \in ToSet(bonds) PROVE h \in HostsOf(adv_filter)
      <4>1. PICK i \in DOMAIN bonds : bonds[i] = h
        BY <3>1 DEF ToSet
      <4>2. i - 1 \in BondIds(bonds) /\ (i - 1) + 1 = i
        BY <2>3 DEF BondIds
      <4> QED BY <2>5, <4>1, <4>2 DEF HostsOf
    <3> QED BY <3>1 DEF Admits
  <2> QED BY <2>1, <2>3, <2>4, <2>5, PeerListPlaces
<1> QED BY <1>1, InitOrders, NextOrders, PTL DEF Spec

(* Directed advertising calls a peer heard of since the reset, although    *)
(* m_peer_id starts as 0, a valid identifier (my_ble_advertising.c:3,      *)
(* 55-69): with bonds, a link comes with the identifier of its host.       *)
THEOREM CallsOnlyKnownPeers == Spec => []DirectedToKnownPeer
<1>1. OrderInv => DirectedToKnownPeer
  BY DEF OrderInv
<1> QED BY <1>1, InitOrders, NextOrders, PTL DEF Spec

(* With everything dispatched and written, the controller is connected or  *)
(* can be (my_ble_connection.c:145-154): what ended a link or advertising  *)
(* is still in the queue, or advertising waits for the flash.              *)
THEOREM StaysReachable == Spec => []Reachable
<1>1. OrderInv => Reachable
  BY DEF OrderInv, Turns, Bounds, Reachable
<1> QED BY <1>1, InitOrders, NextOrders, PTL DEF Spec

(* Once a reset has found a bond, no other is made until the next: a host  *)
(* that is bonded is refused another (my_ble_peer_manager.c:101-105), and  *)
(* strangers are shut out (my_ble_advertising.c:130-152).                  *)
THEOREM NoBondAfterABond ==
  Spec => [][~bondless /\ bonds' # bonds => Boot(Stored)]_vars
<1>1. OrderInv /\ [Next]_vars =>
        [~bondless /\ bonds' # bonds => Boot(Stored)]_vars
  <2> SUFFICES ASSUME OrderInv, Next, ~bondless, bonds' # bonds, ~Boot(Stored)
               PROVE  FALSE
    BY DEF vars
  <2> QED BY BondsKept, NewBond DEF OrderInv, ShutOutInv, Types
<1> QED BY <1>1, InitOrders, NextOrders, PTL DEF Spec

=============================================================================
