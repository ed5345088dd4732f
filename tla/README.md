# Bluetooth SNES controller: TLA+ specifications

The firmware in `../src/bluetooth_snes_controller` runs on an nRF51 with the
S130 SoftDevice. A keypad sends the state of twelve buttons over a UART; the
firmware turns each change into a HID input report for the connected host,
buffers reports when the SoftDevice has no packet for them, keeps bonds and a
whitelist, measures the battery once a minute, and switches itself off after
five minutes without a key edge. (File names below are relative to that
directory.)

These modules specify that behaviour, TLC checks them on small instances and
TLAPS proves the properties marked *proved* for all values of the constants.
`PROJECT.json` maps every definition to the lines it models and lists the runs,
the hazards and the theorems.

    tlc -workers 2 -config MCPower.cfg MCPower      # a run
    tlapm PowerProofs.tla                           # a proof

## 1. The system

Three contexts share memory without locks, by decreasing priority:

1. the SoftDevice (radio, link, flash), which may act between any two steps;
2. the application's interrupts, all of one priority: UART, ADC, the sense pin,
   app_timer. A handler is not interrupted by another handler;
3. the main loop (`main.c:72-75`): `app_sched_execute`, then `power_manage`.
   Timer handlers, BLE events and system events reach it through the scheduler's
   queue.

| Component | State | Operations | Interacts with | What makes it correct |
|---|---|---|---|---|
| UART receiver (`my_keypad.c`) | `rx_buffer`, `keypad_state`, whether reception is armed | `uart_event_handler`, `keypad_receiver_init` | calls `keys_send`; the main loop reads `keypad_state` through pointers | words are not mixed from two halves; the last word sent is the state |
| HID reports (`my_ble_services.c`) | `m_in_boot_mode`, `m_hids.conn_handle` | `keys_send`, `send_key_scan_press_release`, `on_hids_evt` | called by the UART interrupt *and* by the main loop; enqueues in the buffer | the host ends with the state of the keys; no report is stale |
| Report buffer (`my_ble_buffer.c`) | `rp`, `wp`, `count`, the slots | `buffer_enqueue` (interrupt), `buffer_dequeue` (main loop) | shared by two contexts | order, count in range, no read through NULL |
| BLE event dispatch (`my_ble_connection.c`) | `m_conn_handle` | `on_ble_evt`, `ble_evt_dispatch`, `sys_evt_dispatch` | drives buffer, whitelist, advertising, services, in a fixed order | handles follow the link; every request is answered on its link |
| Peer manager events (`my_ble_peer_manager.c`) | `m_peer_id`, `m_whitelist_peers`, `m_whitelist_peer_cnt`, `m_is_wl_changed` | `pm_evt_handler` | flash (asynchronous), dispatch, advertising | no peer twice; bonded hosts are admitted |
| Advertising (`my_ble_advertising.c`) | mode and filter | `on_adv_evt`, `peer_list_get`, `advertising_start` | waits for pending flash operations | strangers are shut out; the controller becomes reachable again |
| Timers, main loop, power (`my_timers.c`, `main.c`, `my_ble_util.c`) | two timers, scheduler queue, app_timer's queue | `reset_shutdown_timer`, handlers, `power_manage`, `sleep_mode_enter` | pin interrupt, scheduler | no lost wake-up; switches off after inactivity and not otherwise |
| Battery (`my_battery.c`) | ADC buffer, crystal | `adc_sample`, `adc_event_handler` | scheduler, notification packets of the link | the crystal is released; arithmetic does not wrap and keeps order |
| Connection parameters (`conn_params_init`) | in the SDK: handle, count, timer | an ask per timeout, `conn_params_error_handler` | timer through the scheduler, the link's events | asks as often as configured; no ask for a link that has gone |
| Tables (`my_ble_gap.c`, `dis_init`, `bas_init`, `gamepad_hids_init`) | the SoftDevice's attributes and preferred parameters | run once | what a host may do on a link | legal parameters; open to an encrypted link, shut before |
| Start-up (`main.c:50-69`) | what is set up, which interrupts are on | thirteen calls in a row | every handler | nothing is used before it is set up |
| Configuration (`sdk_config.h`) | constants | | priorities decide who interrupts whom | agrees with what the code calls |

The hard behaviours: the unlocked list shared by interrupt and main loop; copies
of the connection handle that outlive the link until DISCONNECTED is dispatched;
packets that run out; timer operations that app_timer defers; flash operations
that complete after a disconnection or never (reset); two-byte words without a
frame mark; handlers that sit in a queue while the world changes; interrupts that come
while `main` still sets things up; a flash without room.
`PROJECT.json` lists them under `hazards`, each with its line.

## 2. Modules

| Module | Models | Kind |
|---|---|---|
| `KeyBuffer` | the circular list | component |
| `SoftDevice` | link, packets, event queue of the S130 | external component |
| `KeyPipeline` | UART interrupt, HID reports, dispatch; composes `KeyBuffer` and `SoftDevice` | composition |
| `KeyDelivery` | what the pipeline promises: a report shows the present state of the keys | abstract specification |
| `Power` | main loop, scheduler, timers, ADC, system-off | component |
| `Inactivity` | when the controller may switch itself off | abstract specification |
| `Whitelist` | bonds, flash, whitelist, advertising modes | component |
| `UartReceiver` | bytes into words | component |
| `Startup` | the calls of `main` before its loop, and what may interrupt them | component |
| `Controller` | `Startup` and `UartReceiver`: reset, start-up, reception | composition |
| `Requests` | requests and timeouts of a link | component |
| `Attributes` | permissions of the services, security of pairing | tables |
| `Link` | `Requests` and `Attributes` with the negotiation of connection parameters | composition |
| `Config` | `sdk_config.h`: what is built in, priorities, sizes | constants |
| `BatteryLevel` | arithmetic of a measurement, with widths | algorithm |
| `MC*` | constants for TLC | instances |
| `KeyPipelineProofs`, `KeyDeliveryProofs`, `KeyHostProofs` | the key path: types and count, then the list and the refinement, then link, handles and host; each extends the one before | proofs |
| `PowerProofs`, `WhitelistProofs`, `LinkProofs`, `ControllerProofs`, `BatteryLevelProofs` | the other components | proofs |

### Correspondence with the code

**KeyBuffer, KeyPipeline.** An interrupt handler is cut only where the SoftDevice
can be told apart: `IrqSend` is one round of the loop of
`send_key_scan_press_release`. The main loop is cut at every access to shared
memory: `CopyByte` is one byte of the `memcpy` (its length is not a compile-time
constant, and the Cortex-M0 library copies an unaligned rest bytewise), `Clear`,
`Load` and `Store` are `BUFFER_ELEMENT_INIT`, the read and the write of `count--`.
`main_pc` and `irq_pc` name the place. `rp++` and its wrap are one step with the
write of `count`, because no interrupt reads `rp`. The order in which the compiler
emits these accesses is the order of the source. `p_data` is a pointer (`NULL` or
the address of `keypad_state`), never a pattern: that is why an entry's content
changes with the next key change. In boot mode `err_code` is uninitialized, and
`IrqSendBootMode`/`MainSendBootMode` choose any code. Whether the HID service
lets a host write the protocol mode at all is the SDK's business, so it is a
constant. History variables: `lapped` (an enqueue has overwritten an entry),
`raced` (the last key change fell on a copy the main loop held), `fresh` (nothing
has kept the host from being told of the last key change). Advertising is only as
much as the key path needs: once the end of the link has been dispatched it may
start at any time (`AdvertisingStarts`: at once, or when pending flash operations
have ended, which `Whitelist` models), and it may time out at any time.

**Power.** A tick is 30 s. Time passes only when nothing is pending (`Tick`'s
guard): handlers need milliseconds. A timer that has run out in a tick is `expired`;
`ServeTimeouts` (app_timer's RTC1 interrupt) puts its handler on the scheduler's
queue, and `ProcessTimerOps` (its SWI0 interrupt) applies the stops requested, then
the starts of timers not running. The two come in either order, with edges, events
and the main loop's work in between: so an edge whose stop is pending may be
overtaken by the expiry, and a stop may still call off a timer that has run out.
Which came first within a tick, the edge or the running out, makes no difference to
what follows, so the model has the tick first. `late` says that the shutdown timer
ran out before the last edge's stop was carried out; when the stop catches it before
its handler is queued, the promise holds again (`Inactivity!PromiseAgain`). Directed advertising lasts 1.28 s and is part of the fast mode here.
`PutAll` is a put whose caller checks the result; `battery_level_update` does not.
The timeouts are those of `my_timers.h` and `my_ble_advertising.h`.

**Whitelist.** `DispatchX` is the whole dispatch of an event: Peer Manager,
`on_ble_evt`, advertising. `m_is_wl_changed` is a function of the translation
unit, because the header declares it `static`. Flash operations queue up; the
bond is durable when its write has completed (`Stored`), and `Reset` may come in
any state. What `ble_advertising` does with pending flash operations, with the
replies and with mode changes follows the SDK's contract as the application uses
it. `pm_peer_rank_highest` may be busy. The flash's room is abstract (`full`): any
write may take the last of it. A bond that finds no room is held back (`held`), the
Peer Manager reports PM_EVT_STORAGE_FULL, and `StorageFull` is the handler's answer:
a garbage collection, or nothing when `fds_gc` refuses it, as busy or for want of a
place in its queue. A write refused for want of room is tried again only after a
garbage collection (`RetryHeld`), so after a refusal it stays in memory until
something else is stored and the full flash is reported once more. `gc_refused` is
the history of that. (In the runs every refusal is FDS_ERR_BUSY: a bond is the first
write of its link, so it finds places in the queue.) A host that encrypts with keys
the controller lost in a reset is asked to pair (`DispatchKeyMissing`).

**Requests.** Links are numbered, so that an answer on the wrong link shows.
`Status` is what the SoftDevice returns for a link that is gone or being ended,
`Check` is `APP_ERROR_CHECK` with the codes the caller excepts; a request has its
answer only when the call succeeds. `Replied` is the guard of
`my_ble_connection.c:99-102`: an authorization request gets no reply when its type is
INVALID or its operation is not that of a queued write. `Authorizations` says what
such a request can carry: a queued write has one of the three operations, a plain
write has another, and a read has none, so that the handler compares whatever lies
in its place. The GATT client's and server's timeouts are handled alike and are one
event here.

**Link.** `ble_conn_params` is in the SDK: its contract is that a link or a change
of its parameters to ones that are not acceptable starts a timer (5 s the first
time, 30 s later), that each expiry asks the host until the count is reached, and
that a disconnection stops it. The timer's handler goes through the scheduler, as
BLE events do; one poll handles all the events there are. So `timeout` says whether
the handler is queued, and whether behind a poll. `asked` is a request that the
host has not answered; another one meanwhile is NRF_ERROR_BUSY, which
`conn_params_error_handler` turns into a reset. `asks` counts every ask; `crossed`
says that an event was handled while the timer's handler was in the queue. That event
finds the timer stopped and starts it, so that the negotiation goes on twice: once by
the queued handler, once by the new timer. One of the two gives up first and clears
the count for the other.

**Attributes.** The security modes are ordered levels. `Permits` compares the level
a link has with the level an attribute demands; `LevelOfPairing` is what pairing
with the parameters of `my_ble_peer_manager.h` reaches.

**Startup, Controller.** A call of `main` is a record of what makes it fail when it
is missing (`needs`), what it uses unchecked (`uses`) and what it sets up or
switches on (`gives`). `OnWord`, `OnKeyEdge` and the others, collected in `Handlers`,
say what switches an interrupt on and what its handler uses. Timers and the SoftDevice put their events in the scheduler, so their
interrupts need it and the rest waits for the main loop. In `Controller` the call of
`keypad_receiver_init` is the receiver's own action, a word received is
`uart_event_handler` wherever `main` is, and a restart may fall between two bytes.

**UartReceiver.** Bytes are tagged with the half and the word they came from, so
a mixed word shows. A UART error ends the reception in the driver; the handler
does not ask for another.

**BatteryLevel.** `uint16` where the variables are `uint16_t`;
`ADC_RESULT_IN_MILLI_VOLTS` is computed in `int`. `battery_level_in_percent` is
the SDK's.

## 3. Runs

| Run | Instance | Properties |
|---|---|---|
| `key_race` | list of 2, 2-byte patterns, 1 packet, 1 pending event, battery notifications | `CountInRange`\*, `ListInOrder`\*, `NullReadOnlyAfterLap`\*, `HostConverges`\*, `ReportsAreCurrent`\* (refinement of `KeyDelivery`) |
| `key_link` | list of 1, 2 packets, 3 pending events, protocol mode, battery | `NoStrandedKeys`\*, `HandlesFollowLink`\*, `ResetsOnlyOnLoss`\* |
| `key_live` | list of 1, 1 packet, fair | `KeysReachHost` |
| `power` | real delays, scheduler queue of 4, 6 timer operations, fair | `WakeUpNotLost`\*, `TimerTracksQuiet`\*, `CrystalReleased`\*, `SwitchesOffAsAllowed`\* (refinement of `Inactivity`), `InactivityEndsInSleep`, `EventsArePolled` |
| `whitelist` | 3 hosts, whitelist of 2, 3 pending events, flash queue of 4, fair | `NoPeerTwice`\*, `BondedHostsAdmitted`\*, `StrangersShutOut`\*, `DirectedToKnownPeer`\*, `Reachable`\*, `BondsReachFlash` |
| `battery_level` | 7 sample values, buffer of 6 | `SumNeverWraps`\*, `LosesAtMostTenMillivolts`\*, `LevelFollowsVoltage`\* |
| `controller` | the calls of `main`, 2 words, FIFO of 3, fair | `NothingMissed`\*, `StartsUp`, `WordsWhole`\*, `ReceivesLastWord`\*, `WordsArrive` |
| `link` | 2 links, 3 pending events, 3 asks, fair | `MemoryReplyToItsLink`\*, `EveryRequestAnswered`\*, `ResetsOnlyTooLate`\*, `AsksBounded`\*, `NegotiationEnds`, `ServedWhenEncrypted`\* |

\* also proved. `TypeOK` is checked in `key_race`, `power`, `whitelist` and
`controller`, and proved for all four. For each property `PROJECT.json` names a mutant of
the code under which TLC finds it violated.

Four runs are expected to be violated: the code differs from what a comment says.

- `key_overfill`: `BUFFER_LIST_FULL` (`my_ble_buffer.h:67`) lets a sixth element
  overwrite the first ("number of elements that can be enqueued", line 7).
- `key_lost_count`: an enqueue between the halves of `count--`
  (`my_ble_buffer.c:75`) is lost from `count` ("elements in list").
- `key_disconnect`: `buffer_dequeue(false)` drops one entry ("Dequeue all keys
  without transmission", `my_ble_connection.c:53`).
- `whitelist_stale`: `m_is_wl_changed` is `static` in a header, so the Peer Manager
  never gets the new bond at the disconnection (`my_ble_connection.c:58-60`).

Other behaviour worth knowing, visible as the exceptions the passing properties
make: a key change during the main loop's copy can show the host a pattern that
never existed (`raced` in `ReportsAreCurrent`); a key press between the loss of the
link and the dispatch of DISCONNECTED resets the controller (`ResetsOnlyOnLoss`);
so does a GATT timeout handled when its link has gone, and an ask for new connection
parameters that a late timer makes too early (`crossed` in `ResetsOnlyTooLate`); a
late timer also makes the negotiation run twice, with up to six asks in place of
three (`AsksBounded`); a plain access under authorization may be left without an
answer (`EveryRequestAnswered`); a garbage collection that is refused is never asked
for again, although the comment in its place says "Retry."
(`my_ble_peer_manager.c:111`), and the bonds held back wait for the next report of a
full flash, which may not come (`gc_refused` in `BondsReachFlash`); the supervision timeout exceeds its legal minimum by 10 ms
(`StartsUp`: a latency of 7 would restart the controller for ever); a key
edge whose stop is not carried out before the expired shutdown is queued does not
stop it (`late` in `SwitchesOffAsAllowed`); after a UART error the receiver is deaf until
the next reset (`deaf` in `ReceivesLastWord`).

### Bounds, and why they are enough

- *List of 1 or 2* (5 in the code): wrap-around, a full list, an overfilled one
  and a lost increment all occur with 2; the runs that show a divergence use 5,
  and the proofs have no bound.
- *Packets 1 or 2*: none left, one left and two in flight. *Patterns of 2 bytes*
  with two values: enough to tell a mixture from a pattern. *Events not dispatched
  1 to 4*: two BLE events in sequence, with one more behind them.
- *Scheduler queue of 4* (10): small enough to be filled. *Timer operations 6* and
  all four delays are the real ones.
- *3 hosts, whitelist of 2* (8 in the S130): one host does not fit. Hosts are
  interchangeable, hence the symmetry in `whitelist_stale`; `whitelist` has a
  liveness property and does without it. *Flash queue of 4*: the real size.
- *2 links, 3 pending events* in `link`: a link and the next, and DISCONNECTED
  behind two events of the old link. Link numbers are used again, as handles are.
  The configured count of asks is the real one, and asks are counted up to seven: one
  more than the two courses of three that can come together.
- *Time in `link`*: the delays are seconds and the main loop's work milliseconds, so
  a timer expires only after the main loop has been idle since its start, and the
  30 s delay not before a request is answered or given up, which takes 30 s too.
- *Samples*: both ends of the converter's range and one in each segment of the
  discharge curve; every buffer of six of them, in every order.
- *FIFO of 3* (6): a word and a half, so an overrun can split a word. *Words on the
  line: 2*, one behind the other. The calls of `main` are all there.

Deadlock is checked in every run: the SoftDevice, the keypad or a tick can always
act.

### Fairness

- `KeyPipeline!LiveSpec`: a handler ends (weak), an accepted packet leaves while the
  link lives (weak), and the main loop gets through the gaps of a 4800 baud UART
  (strong: it is disabled during every interrupt, but enabled again and again).
  Keys, links and hosts are not fair. `key_live` leaves out battery notifications,
  which could take every packet, and the protocol mode.
- `Power!LiveSpec`: pending interrupts are served and a conversion ends (weak); time
  passes and the main loop runs (strong, as edges and events disable both). No edge
  and no event is assumed.
- `Controller!ControllerSpec`: the next call of `main` returns or fails, bytes sent
  arrive, and the UART's interrupt is served (weak). Nothing makes the keypad send,
  the line fail or the controller be reset from outside.
- `Link!LinkSpec`: the main loop works through its queue, timers expire, and a
  request is answered or given up (weak; the SoftDevice ends an unanswered one after
  30 s). No host is assumed to connect, ask or leave.
- `Whitelist!FairSpec`: a flash operation ends and its system event is dispatched
  (weak). No host and no reset is assumed.

## 4. Proofs

TLAPS checks thirty-four theorems, for every value of the constants that the named
assumptions allow (a list of 1 to 254 slots because `count` is a `uint8_t`,
a pattern of 1 to 255 bytes, positive queue sizes and delays, any finite set of
hosts, up to 64 ten-bit samples, at least two link numbers, any FIFO).

| Theorem | Inductive invariant | Why the strengthening is needed |
|---|---|---|
| `KeyPipelineProofs!TypesAreKept`, `CountStaysInRange` | `CountInv` = `TypeOK /\ CountInRange /\ CopyProgress` | `count - 1` is safe only because the main loop is at `store` with the value it read; the copy index stays in the pattern only while the control point says so |
| `KeyDeliveryProofs!ListStaysInOrder` | `DeliveryInv` = `CountInv /\ ListInOrder /\ CopyInv` | the occupied slots are a run from the head, or from its successor while the head is being retired; `count` is at most their number, so a non-empty count means an occupied head |
| `KeyDeliveryProofs!NullReadsNeedALap` | the same | from the occupied head: the pointer read in `Dequeue` is not NULL before a lap |
| `KeyDeliveryProofs!ReportsStayCurrent`: `KeyPipeline` implements `KeyDelivery` | the same | the bytes copied so far equal `keypad_state` unless `raced`; then each step maps to a step of `KeyDelivery` or a stutter |
| `KeyHostProofs!HandlesFollowTheLink` | `LinkInv` = `LinkEventsOrdered`, `EventAtHand`, `LinkOfEvents`, `AdvertisingWhenFree`, `HandlesInOrder`, `Subscribed` | a connected device does not advertise, and advertises again only after DISCONNECTED is dispatched: at most one CONNECTED and behind it one DISCONNECTED wait, and link and handles follow from what waits and what is at hand |
| `KeyHostProofs!ResetsNeedALoss` | the same | a host subscribes only on a link the application knows of, so a refusal other than for want of packets means that the link has gone and its DISCONNECTED waits or is at hand |
| `KeyHostProofs!NoKeysStranded`, `HostHasTheKeys` | `LinkInv`, `DeliveryInv` and `HostInv` = `FreshNotifies`, `NoneStranded`, `RacedByIrq`, `HostOrList` | what is refused was refused for want of packets, which are in flight or reported; and it is in the list until it has been sent, apart from the entry the main loop is about to remove |
| `PowerProofs!TimerMeasuresInactivity` | `TimerInv` = types, `HeadHandled`, `PendingRestart`, `TimerTracksQuiet` | between the edge and app_timer's second interrupt the timer is wrong, but a stop *and* a start are pending; a handler runs only for the head of the queue |
| `PowerProofs!NoWakeUpIsLost` | itself | every put sets `woken`, and only a look at an empty queue leads to the wait |
| `PowerProofs!CrystalIsReleased` | `CrystalInv` | the crystal is on only from the request to the handler, and no measurement starts in between |
| `PowerProofs!TypesAndLimitsAreKept` | `PowerInv` = `TimerInv`, `QueuesBounded`, `TimersRun`, `AdcTypes`, `ShutdownInTime`, `AdvertisingInv` | a timer that runs has time left, so that a tick does not take it below zero; the queues' limits |
| `PowerProofs!GoesOffOnlyAsAllowed`: `Power` implements `Inactivity` | the same | a shutdown that is queued, or about to be (`ShutdownDue`), ran out when the delay ended, or the last edge's stop came too late for it (`ShutdownInTime`); until then the delay is not over (`QuietTillDue`); the timer reads the inactivity (`TimerInv`), and advertising's time and events tell how long there was no host (`AdvertisingInv`) |
| `WhitelistProofs!StrangersStayOut` | `ShutOutInv` = types, `WhitelistOfReset`, `FilterOfBonds`, `StrangersShutOut` | the whitelist of the last reset is not empty if there was a bond; each filter in use comes from bonds; bonds only grow until the reset |
| `WhitelistProofs!WhitelistChangesAtReset` | the connection's copy of `m_is_wl_changed` is false | nothing sets that copy: this is the general form of the divergence above |
| `WhitelistProofs!TypesAreKept`, `PlacesAreNotTakenTwice`, `BondedHostsMayConnect`, `CallsOnlyKnownPeers`, `StaysReachable`, `NoBondAfterABond` | `OrderInv` = `ShutOutInv`, `Turns`, `Pairing`, `EventHosts`, `PeerReported`, `ListsOfBonds`, `Bounds` and `DirectedToKnownPeer` | advertising, a link and the event that ends either take turns, and that event is the last of the queue: so a request to pair in the queue is of the link's host, one at a time, and a BONDED brings a new peer; after a reset that found a bond every event is of a bonded host, whose second bond is refused, so the whitelist of the reset stays that of all bonds |
| `BatteryLevelProofs!SumFits` | `SumInv` | the sum of `i` samples is at most `1023 * i` |
| `BatteryLevelProofs!ConversionIsPrecise` | the same | a quotient is within one of its fraction (`Division`), so the two divisions lose less than the divisor and the scaling allow (`ConversionLoss`), and 16 bits suffice (`MillivoltsFit`) |
| `BatteryLevelProofs!LevelIsMonotone` | `LevelInv` | the level sent is that of the sum recorded with it; averages and millivolts keep the order of sums, and the lines of the discharge curve rise and do not cross (`LevelKeepsOrder`) |
| `LinkProofs!MemoryRepliesReachTheirLink`, `RequestsAreAnswered` | `LinkInv` = types, `QueueOfOneLink`, `HandleOfLink`, `EndOfLink`, `WaitingQueued` | the queue holds the events of one link between its CONNECTED and its DISCONNECTED, because advertising waits for the dispatch of the latter; a request that waits is in the queue, unless it is a plain access or its link is being ended: the answer to it succeeds, so it ends the wait |
| `LinkProofs!EncryptedLinksAreServed` | `LevelInv` | the level is that of pairing or none, and the tables demand just that |
| `LinkProofs!ResetsComeTooLate` | `NegotiationInv` = types, `Resting`, `AskedOnce`, `Spent`, `CountCovers` | the negotiation's count covers the asks of a link unless an event crossed the timer's handler; a pending answer excludes a queued handler unless crossed |
| `LinkProofs!AsksAreBounded` | `NegotiationInv` with `AsksInv` and `CoursesInv` = `Beside`, `Budget` | when an event has crossed the handler, two courses of the negotiation run (`Courses` counts what keeps it going). While there are two, the count they share covers all asks; one of them gives up and clears it, having used up three; the other has what the count leaves of three more |
| `ControllerProofs!ReceiverTypes`, `WordsArriveWhole` | `ReceiverInv` = types, `OffInv`, `WordStream` of the line, `StreamInv`, `WordsWhole` | buffer, FIFO and line together are a row of whole words; every move of a byte keeps the row (`Shift`, `AppendSecond`), and two bytes taken are its first word (`WordTaken`) |
| `ControllerProofs!LastWordReceived` | `ReceiverInv` with `LastInv` | the last byte of the row is the low half of the last word sent, or the row is empty and the word is in `keypad_state`; a row of whole words leaves no single byte in the buffer |
| `ControllerProofs!NothingIsMissed` | `StartInv` = `SetUp`, `SwitchedOn`, `NothingMissed` | what is set up follows from the call `main` is at, and so does which interrupts may come |

Each proof has one step per action; lemmas named after what an operator keeps
carry the arithmetic. TLC checked every invariant on the instances first.

`NoBondAfterABond` is stated by no run; it is what makes `BondedHostsAdmitted` true:
since the Peer Manager's list is never renewed after a reset, it stays complete only
because no bond is made after a reset that found one.

Every safety invariant, action property and refinement of the passing runs is proved.
Only model-checked are the liveness properties (`KeysReachHost`,
`InactivityEndsInSleep`, `EventsArePolled`, `BondsReachFlash`, `StartsUp`,
`WordsArrive`, `NegotiationEnds`), because fairness and ENABLED are outside the
prover's reach, and the four violations, which are counterexamples.

## 5. Plan

Built so far, in order of importance: the key path, power, whitelist, receiver,
start-up, links with their negotiation, battery. Next:

1. Compose the pipeline and the shutdown timer with `Controller`, for properties
   across them: a key pressed is both sent and counted as activity.
2. Proofs across components: what the theorems of the key path and of the receiver
   give together for that composition; safety parts of the liveness arguments (what
   a packet in flight or an operation in the flash queue is waiting for).
3. The size of the flash in place of `full`, for how often it fills.

## 6. Not modelled

The advertising data, the report map, names and appearance (constants handed to the
SDK that no property tells apart); events that only call `APP_ERROR_CHECK` (a reset,
which may come anywhere anyway); `PM_EVT_PEERS_DELETE_SUCCEEDED` (no code deletes
peers: `peer_manager_init(false)`); the MTU request of API version 3; the options of
SDK modules that are not built; logging; the identities list, which always gets the
same peers as the whitelist; `adc_event_counter`, which nothing reads.
