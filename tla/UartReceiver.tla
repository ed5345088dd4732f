----------------------------- MODULE UartReceiver -----------------------------
(***************************************************************************)
(* Receiving the keypad's words over the UART: uart_event_handler and the  *)
(* reception part of keypad_receiver_init (my_keypad.c:26-82).             *)
(*                                                                         *)
(* The keypad sends a word as two bytes, which carry no mark of which is   *)
(* the first, and knows nothing of resets.  Bytes that arrive before       *)
(* keypad_receiver_init has switched the receiver on are lost; later ones  *)
(* wait in the UART's FIFO until its interrupt runs.  An error, of the     *)
(* line or of a FIFO that overruns, makes the driver end the reception it  *)
(* was asked for and report it.                                            *)
(***************************************************************************)
EXTENDS Config, Sequences

CONSTANTS
  Words,        \* what the keypad sends
  FifoSize,
  MaxOnLine     \* bound: words waiting in the keypad

ASSUME UartReceiverAssumption ==
  /\ FifoSize \in Nat \ {0}
  /\ MaxOnLine \in Nat \ {0}

VARIABLES
  last,         \* the word the keypad sent last
  line,         \* bytes sent and not arrived
  on,           \* the receiver is enabled
  fifo,
  receiving,    \* nrf_drv_uart_rx is under way
  rx_buffer,    \* bytes received by it
  failed,       \* an error not reported to uart_event_handler
  keypad_state,
  sent,         \* history: the keypad has sent a word since it was enabled
  slipped,      \* history: it was enabled between two bytes
  deaf          \* history: an error was reported

history == <<sent, slipped, deaf>>
vars == <<last, line, on, fifo, receiving, rx_buffer, failed, keypad_state,
          history>>

Halves == {"high", "low"}
Bytes == [half : Halves, word : Words]
Byte(h, w) == [half |-> h, word |-> w]

(* keypad_state is the word of two halves; 0 before the first word.        *)
Combined_LastOnly(first, second) == <<second>>

Combined(first, second) == <<first, second>>

Zero == <<>>
Whole(w) == Combined(Byte("high", w), Byte("low", w))

(* Power-up, or a reset: the UART is off, whatever the keypad is sending.  *)
Off ==
  /\ on' = FALSE /\ receiving' = FALSE /\ failed' = FALSE
  /\ fifo' = <<>> /\ rx_buffer' = <<>>
  /\ keypad_state' = Zero
  /\ sent' = FALSE /\ slipped' = FALSE /\ deaf' = FALSE

Init ==
  /\ last \in Words /\ line = <<>>
  /\ on = FALSE /\ receiving = FALSE /\ failed = FALSE
  /\ fifo = <<>> /\ rx_buffer = <<>>
  /\ keypad_state = Zero
  /\ sent = FALSE /\ slipped = FALSE /\ deaf = FALSE

Reset == Off /\ UNCHANGED <<last, line>>

(* nrf_drv_uart_init, nrf_drv_uart_rx_enable and the first nrf_drv_uart_rx. *)
keypad_receiver_init ==
  /\ ~on
  /\ on' = TRUE /\ receiving' = TRUE
  /\ slipped' = (line # <<>> /\ Head(line).half = "low")
  /\ UNCHANGED <<last, line, fifo, rx_buffer, failed, keypad_state, sent, deaf>>

KeypadSends(w) ==
  /\ Len(line) <= 2 * (MaxOnLine - 1)
  /\ last' = w
  /\ line' = line \o <<Byte("high", w), Byte("low", w)>>
  /\ sent' = on
  /\ UNCHANGED <<on, fifo, receiving, rx_buffer, failed, keypad_state, slipped,
                 deaf>>

(* A byte ends on the line.  Without flow control (HWFC) a full FIFO, that *)
(* nobody reads, overruns.                                                 *)
FifoTakes(b) ==
  IF Len(fifo) < FifoSize
    THEN fifo' = Append(fifo, b) /\ UNCHANGED failed
    ELSE ~UART_DEFAULT_CONFIG_HWFC /\ failed' = TRUE /\ UNCHANGED fifo

ByteArrives ==
  /\ line # <<>>
  /\ line' = Tail(line)
  /\ IF on THEN FifoTakes(Head(line)) ELSE UNCHANGED <<fifo, failed>>
  /\ UNCHANGED <<last, on, receiving, rx_buffer, keypad_state, history>>

(* A byte with a framing error.                                            *)
LineError ==
  /\ on /\ line # <<>>
  /\ line' = Tail(line)
  /\ failed' = TRUE
  /\ UNCHANGED <<last, on, fifo, receiving, rx_buffer, keypad_state, history>>

-----------------------------------------------------------------------------
(* The driver's interrupt: a byte of the FIFO goes to the buffer.          *)
ReceiveByte ==
  /\ receiving /\ ~failed /\ fifo # <<>> /\ Len(rx_buffer) < 2
  /\ rx_buffer' = Append(rx_buffer, Head(fifo))
  /\ fifo' = Tail(fifo)
  /\ UNCHANGED <<last, line, on, receiving, failed, keypad_state, history>>

(* nrf_drv_uart_rx at the end of NRF_DRV_UART_EVT_RX_DONE.                 *)
Rearm_KeepsByte == rx_buffer' = Tail(rx_buffer) /\ UNCHANGED <<receiving, fifo>>

Rearm_Flushes == rx_buffer' = <<>> /\ fifo' = <<>> /\ UNCHANGED receiving

Rearm_Forgotten == rx_buffer' = <<>> /\ receiving' = FALSE /\ UNCHANGED fifo

Rearm == rx_buffer' = <<>> /\ UNCHANGED <<receiving, fifo>>

RxDone ==
  /\ receiving /\ ~failed /\ Len(rx_buffer) = 2
  /\ keypad_state' = Combined(rx_buffer[1], rx_buffer[2])
  /\ Rearm
  /\ UNCHANGED <<last, line, on, failed, history>>

(* NRF_DRV_UART_EVT_ERROR: nothing starts the reception again.             *)
RxError ==
  /\ receiving /\ failed
  /\ receiving' = FALSE /\ failed' = FALSE /\ deaf' = TRUE
  /\ rx_buffer' = <<>>
  /\ UNCHANGED <<last, line, on, fifo, keypad_state, sent, slipped>>

uart_event_handler == RxDone \/ RxError

Next ==
  \/ \E w \in Words : KeypadSends(w)
  \/ ByteArrives \/ LineError
  \/ ReceiveByte \/ uart_event_handler
  \/ keypad_receiver_init
  \/ Reset

Spec == Init /\ [][Next]_vars

(***************************************************************************)
(* Fairness: bytes sent arrive and the interrupt is served.  Nothing makes *)
(* the keypad send or the line fail.                                       *)
(***************************************************************************)
LiveSpec ==
  /\ Spec
  /\ WF_vars(keypad_receiver_init)
  /\ WF_vars(ByteArrives) /\ WF_vars(ReceiveByte) /\ WF_vars(uart_event_handler)

-----------------------------------------------------------------------------
(* Every variable has its type, and the FIFO its limit.                    *)
TypeOK ==
  /\ last \in Words
  /\ line \in Seq(Bytes) /\ Len(line) <= 2 * MaxOnLine
  /\ fifo \in Seq(Bytes) /\ Len(fifo) <= FifoSize
  /\ rx_buffer \in Seq(Bytes) /\ Len(rx_buffer) <= 2
  /\ on \in BOOLEAN /\ receiving \in BOOLEAN /\ failed \in BOOLEAN
  /\ keypad_state = Zero \/ keypad_state \in Bytes \X Bytes
  /\ sent \in BOOLEAN /\ slipped \in BOOLEAN /\ deaf \in BOOLEAN

(* The halves of two words are never combined, unless the receiver was     *)
(* switched on between two bytes (my_keypad.c:33-36, 53).                  *)
WordsWhole ==
  ~slipped => keypad_state = Zero \/ \E w \in Words : keypad_state = Whole(w)

(* When all that was sent has arrived and been read, keypad_state is the   *)
(* last word, or the receiver slipped or has met an error                  *)
(* (my_keypad.c:32-58).                                                    *)
ReceivesLastWord ==
  sent /\ line = <<>> /\ fifo = <<>> /\ Len(rx_buffer) < 2 /\ ~failed =>
    slipped \/ deaf \/ keypad_state = Whole(last)

(* A word sent reaches keypad_state or gives way to a later one, unless    *)
(* the receiver slipped, failed or was reset (my_keypad.c:32-54).          *)
WordsArrive ==
  \A w \in Words :
    sent /\ last = w ~>
      keypad_state = Whole(w) \/ last # w \/ ~sent \/ slipped \/ failed \/ deaf

=============================================================================
