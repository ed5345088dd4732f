------------------------------ MODULE KeyBuffer ------------------------------
(***************************************************************************)
(* The circular list of key reports that could not be transmitted          *)
(* (my_ble_buffer.c, my_ble_buffer.h).                                     *)
(*                                                                         *)
(* buffer_enqueue runs in the UART interrupt, which the main loop cannot   *)
(* preempt, so it is one step.  buffer_dequeue runs in the main loop and   *)
(* can be interrupted between any two of its accesses: it is split here    *)
(* into the accesses an interrupt can tell apart, and KeyPipeline puts     *)
(* them in order.                                                          *)
(***************************************************************************)
EXTENDS Integers

CONSTANTS
  MAX_BUFFER_ENTRIES,  \* my_ble_buffer.h:9
  PatternLen           \* sizeof(keypad_state), the key_pattern_len of keys_send

ASSUME BufferAssumption ==
  /\ MAX_BUFFER_ENTRIES \in 1 .. 254   \* count is a uint8_t
  /\ PatternLen \in 1 .. 255           \* data_len is a uint8_t

VARIABLES
  rp,      \* read index
  wp,      \* write index
  count,   \* elements in the list
  buffer,  \* the slots
  lapped   \* history: an enqueue has overwritten an entry not yet dequeued

listVars == <<rp, wp, count, buffer, lapped>>

Slots == 0 .. MAX_BUFFER_ENTRIES - 1

(***************************************************************************)
(* A slot holds the pointer it was given, not the pattern: p_data is NULL  *)
(* or the address of keypad_state, the only pattern keys_send is given.    *)
(* p_instance and data_len are the same in every entry and are left out.   *)
(***************************************************************************)
Pointer == {"NULL", "keypad_state"}

Element == [p_data : Pointer, data_offset : 0 .. PatternLen]

Occupied(i) == buffer[i].p_data # "NULL"

Successor(i) == IF i + 1 = MAX_BUFFER_ENTRIES THEN 0 ELSE i + 1

(* The slot n steps after i, and how many steps lead from i to j.          *)
Ahead(i, n) ==
  IF i + n >= MAX_BUFFER_ENTRIES THEN i + n - MAX_BUFFER_ENTRIES ELSE i + n

Distance(i, j) == IF j >= i THEN j - i ELSE j - i + MAX_BUFFER_ENTRIES

(* The occupied slots are the n that lie from first to wp.                 *)
EntriesFrom(first, n) ==
  /\ wp = Ahead(first, n)
  /\ \A i \in Slots : Occupied(i) <=> Distance(first, i) < n

BUFFER_LIST_FULL_NeverFull == FALSE

BUFFER_LIST_FULL == MAX_BUFFER_ENTRIES = count - 1

BUFFER_LIST_EMPTY == count = 0

buffer_init ==
  /\ rp = 0
  /\ wp = 0
  /\ count = 0
  /\ buffer = [i \in Slots |-> [p_data |-> "NULL", data_offset |-> 0]]
  /\ lapped = FALSE

buffer_enqueue_Unwrapped(offset) ==
  /\ ~BUFFER_LIST_FULL
  /\ buffer' = [buffer EXCEPT ![wp] = [p_data |-> "keypad_state",
                                       data_offset |-> offset]]
  /\ lapped' = (lapped \/ Occupied(wp))
  /\ count' = count + 1
  /\ wp' = wp + 1
  /\ UNCHANGED rp

buffer_enqueue(offset) ==
  \/ /\ BUFFER_LIST_FULL
     /\ UNCHANGED listVars
  \/ /\ ~BUFFER_LIST_FULL
     /\ buffer' = [buffer EXCEPT ![wp] = [p_data |-> "keypad_state",
                                          data_offset |-> offset]]
     /\ lapped' = (lapped \/ Occupied(wp))
     /\ count' = count + 1
     /\ wp' = Successor(wp)
     /\ UNCHANGED rp

(* buffer_dequeue keeps the head and notes how far its transmission got.   *)
KeepHead(actual_len) ==
  /\ buffer' = [buffer EXCEPT ![rp].data_offset = actual_len]
  /\ UNCHANGED <<rp, wp, count, lapped>>

(* BUFFER_ELEMENT_INIT(buffer_list.rp) forgets only the pointer.           *)
ClearHead_NextSlot ==
  /\ buffer' = [buffer EXCEPT ![Successor(rp)].p_data = "NULL"]
  /\ UNCHANGED <<rp, wp, count, lapped>>

ClearHead ==
  /\ buffer' = [buffer EXCEPT ![rp].p_data = "NULL"]
  /\ UNCHANGED <<rp, wp, count, lapped>>

(* The write half of buffer_list.count--, whose read half gave loaded, and *)
(* the advance of rp, which no other context looks at.                     *)
RetireHead(loaded) ==
  /\ rp' = Successor(rp)
  /\ count' = loaded - 1
  /\ UNCHANGED <<wp, buffer, lapped>>

=============================================================================
