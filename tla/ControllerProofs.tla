--------------------------- MODULE ControllerProofs ---------------------------
(***************************************************************************)
(* From reset to the main loop nothing is used before it is set up; and    *)
(* the keypad's words arrive whole, for any words, any FIFO and any number *)
(* of words on the line.                                                   *)
(*                                                                         *)
(* The first argument: what is set up follows from the call main is at.    *)
(* The second: as long as there is no error, what the application has      *)
(* received, the FIFO and the line hold whole words in a row, unless the   *)
(* receiver was switched on between two bytes of one.                      *)
(***************************************************************************)
EXTENDS Controller, SequenceTheorems, TLAPS

(* A row of whole words, the first of which may have lost its first byte.  *)
WordStream(s) ==
  /\ \A n \in 1 .. Len(s) :
       s[n].half = "high" => n < Len(s) /\ s[n + 1] = Byte("low", s[n].word)
  /\ \A n \in 1 .. Len(s) :
       s[n].half = "low" /\ n < Len(s) => s[n + 1].half = "high"

WholeFirst(s) == Len(s) > 0 => s[1].half = "high"

Stream == (rx_buffer \o fifo) \o line

OffInv ==
  ~on => ~receiving /\ fifo = <<>> /\ rx_buffer = <<>> /\ keypad_state = Zero

StreamInv ==
  ~slipped /\ on /\ receiving /\ ~failed => WordStream(Stream) /\ WholeFirst(Stream)

ReceiverInv ==
  /\ TypeOK /\ OffInv /\ WordStream(line) /\ StreamInv /\ WordsWhole

(* The end of the row is the last word sent; without a row it has arrived. *)
EndsWithLast ==
  IF Len(Stream) = 0 THEN keypad_state = Whole(last)
                     ELSE Stream[Len(Stream)] = Byte("low", last)

LastInv ==
  /\ sent => on
  /\ on /\ ~deaf => receiving
  /\ sent /\ ~slipped /\ ~deaf /\ ~failed => EndsWithLast

-----------------------------------------------------------------------------
(* A byte that moves from a queue to the one before it.                    *)
LEMMA Shift ==
  ASSUME NEW S, NEW r \in Seq(S), NEW f \in Seq(S), f # <<>>
  PROVE  Append(r, Head(f)) \o Tail(f) = r \o f
<1> DEFINE a == Append(r, Head(f))
           t == Tail(f)
<1>1. /\ Head(f) \in S /\ Head(f) = f[1] /\ t \in Seq(S)
      /\ Len(t) = Len(f) - 1 /\ Len(f) \in Nat \ {0} /\ Len(r) \in Nat
      /\ \A n \in 1 .. Len(f) - 1 : t[n] = f[n + 1]
  OBVIOUS
<1>2. /\ a \in Seq(S) /\ Len(a) = Len(r) + 1 /\ a[Len(r) + 1] = f[1]
      /\ \A n \in 1 .. Len(r) : a[n] = r[n]
  BY <1>1
<1> HIDE DEF a, t
<1>3. /\ a \o t \in Seq(S) /\ Len(a \o t) = Len(a) + Len(t)
      /\ \A n \in 1 .. Len(a) + Len(t) :
           (a \o t)[n] = IF n <= Len(a) THEN a[n] ELSE t[n - Len(a)]
  BY <1>1, <1>2, ConcatProperties
<1>4. /\ r \o f \in Seq(S) /\ Len(r \o f) = Len(r) + Len(f)
      /\ \A n \in 1 .. Len(r) + Len(f) :
           (r \o f)[n] = IF n <= Len(r) THEN r[n] ELSE f[n - Len(r)]
  BY ConcatProperties
<1>5. Len(a \o t) = Len(r \o f)
  BY <1>1, <1>2, <1>3, <1>4
<1>6. ASSUME NEW n \in 1 .. Len(r) + Len(f)
      PROVE  (a \o t)[n] = (r \o f)[n]
  <2>1. (a \o t)[n] = IF n <= Len(r) + 1 THEN a[n] ELSE t[n - (Len(r) + 1)]
    BY <1>1, <1>2, <1>3
  <2>2. CASE n <= Len(r)
    BY <1>2, <1>4, <2>1, <2>2
  <2>3. CASE n = Len(r) + 1
    BY <1>1, <1>2, <1>4, <2>1, <2>3
  <2>4. CASE n > Len(r) + 1
    <3>1. n - (Len(r) + 1) \in 1 .. Len(f) - 1 /\ n - (Len(r) + 1) + 1 = n - Len(r)
      BY <1>1, <2>4
    <3>2. t[n - (Len(r) + 1)] = f[n - Len(r)]
      BY <1>1, <3>1
    <3> QED BY <1>1, <1>4, <2>1, <2>4, <3>2
  <2>5. n \in Int /\ Len(r) \in Int
    BY <1>1
  <2>6. n <= Len(r) \/ n = Len(r) + 1 \/ n > Len(r) + 1
    BY <2>5
  <2> QED BY <2>2, <2>3, <2>4, <2>6
<1>7. a \o t = r \o f
  BY <1>3, <1>4, <1>5, <1>6, SeqEqual
<1> QED BY <1>7 DEF a, t

(* A byte appended to the second of two queues.                            *)
LEMMA AppendSecond ==
  ASSUME NEW S, NEW r \in Seq(S), NEW f \in Seq(S), NEW e \in S
  PROVE  r \o Append(f, e) = Append(r \o f, e)
<1>1. <<e>> \in Seq(S)
  OBVIOUS
<1>2. Append(f, e) = f \o <<e>>
  BY AppendIsConcat
<1>3. r \o f \in Seq(S)
  BY ConcatProperties
<1>4. Append(r \o f, e) = (r \o f) \o <<e>>
  BY <1>3, AppendIsConcat
<1> QED BY <1>1, <1>2, <1>4, ConcatAssociative

(* A word sent keeps the row.                                              *)
LEMMA SentStream ==
  ASSUME NEW s \in Seq(Bytes), NEW w \in Words, WordStream(s)
  PROVE  LET t == s \o <<Byte("high", w), Byte("low", w)>>
         IN WordStream(t) /\ (WholeFirst(s) => WholeFirst(t))
<1> DEFINE p == <<Byte("high", w), Byte("low", w)>>
           t == s \o p
<1>1. /\ p \in Seq(Bytes) /\ Len(p) = 2
      /\ p[1] = Byte("high", w) /\ p[2] = Byte("low", w)
  BY DEF Bytes, Byte, Halves
<1>2. /\ p[1].half = "high" /\ p[2].half = "low"
      /\ p[2] = Byte("low", p[1].word)
  BY <1>1 DEF Byte
<1> HIDE DEF p
<1>3. /\ t \in Seq(Bytes) /\ Len(t) = Len(s) + 2
      /\ \A n \in 1 .. Len(s) + 2 :
           t[n] = IF n <= Len(s) THEN s[n] ELSE p[n - Len(s)]
  <2>1. /\ t \in Seq(Bytes) /\ Len(t) = Len(s) + Len(p)
        /\ \A n \in 1 .. Len(s) + Len(p) :
             t[n] = IF n <= Len(s) THEN s[n] ELSE p[n - Len(s)]
    BY <1>1, ConcatProperties
  <2> QED BY <1>1, <2>1
<1> HIDE DEF t
<1>4. Len(s) \in Nat
  OBVIOUS
<1>5. t[Len(s) + 1] = p[1] /\ t[Len(s) + 2] = p[2]
  BY <1>3, <1>4
<1>6. WordStream(t)
  <2>1. ASSUME NEW n \in 1 .. Len(s) + 2, t[n].half = "high"
        PROVE  n < Len(t) /\ t[n + 1] = Byte("low", t[n].word)
    <3>1. CASE n <= Len(s)
      <4>1. n \in 1 .. Len(s) /\ t[n] = s[n]
        BY <1>3, <1>4, <3>1
      <4>2. n < Len(s) /\ s[n + 1] = Byte("low", s[n].word)
        BY <2>1, <4>1 DEF WordStream
      <4>3. t[n + 1] = s[n + 1]
        BY <1>3, <1>4, <4>2
      <4> QED BY <1>3, <1>4, <4>1, <4>2, <4>3
    <3>2. CASE n = Len(s) + 1
      BY <1>2, <1>3, <1>4, <1>5, <3>2
    <3>3. CASE n = Len(s) + 2
      BY <1>2, <1>5, <2>1, <3>3
    <3> QED BY <1>4, <3>1, <3>2, <3>3
  <2>2. ASSUME NEW n \in 1 .. Len(s) + 2, t[n].half = "low", n < Len(t)
        PROVE  t[n + 1].half = "high"
    <3>1. CASE n < Len(s)
      <4>1. n \in 1 .. Len(s) /\ t[n] = s[n] /\ t[n + 1] = s[n + 1]
        BY <1>3, <1>4, <3>1
      <4> QED BY <2>2, <3>1, <4>1 DEF WordStream
    <3>2. CASE n = Len(s)
      BY <1>2, <1>5, <3>2
    <3>3. CASE n = Len(s) + 1
      BY <1>2, <1>5, <2>2, <3>3
    <3> QED BY <1>3, <1>4, <2>2, <3>1, <3>2, <3>3
  <2> QED BY <1>3, <2>1, <2>2 DEF WordStream
<1>7. ASSUME WholeFirst(s) PROVE WholeFirst(t)
  <2>1. CASE Len(s) = 0
    BY <1>2, <1>5, <2>1 DEF WholeFirst
  <2>2. CASE Len(s) > 0
    <3>1. t[1] = s[1]
      BY <1>3, <1>4, <2>2
    <3> QED BY <1>7, <2>2, <3>1 DEF WholeFirst
  <2> QED BY <1>4, <2>1, <2>2
<1> QED BY <1>6, <1>7 DEF t, p

(* A byte that ends on the line keeps the row on it.                       *)
LEMMA TailStream ==
  ASSUME NEW s \in Seq(Bytes), s # <<>>, WordStream(s)
  PROVE  WordStream(Tail(s))
<1> DEFINE t == Tail(s)
<1>1. /\ t \in Seq(Bytes) /\ Len(t) = Len(s) - 1 /\ Len(s) \in Nat \ {0}
      /\ \A n \in 1 .. Len(s) - 1 : t[n] = s[n + 1]
  OBVIOUS
<1> HIDE DEF t
<1>2. ASSUME NEW n \in 1 .. Len(t)
      PROVE  /\ t[n].half = "high" =>
                  n < Len(t) /\ t[n + 1] = Byte("low", t[n].word)
             /\ t[n].half = "low" /\ n < Len(t) => t[n + 1].half = "high"
  <2>1. /\ n + 1 \in 1 .. Len(s) /\ t[n] = s[n + 1]
        /\ n + 1 < Len(s) <=> n < Len(t)
        /\ n < Len(t) => t[n + 1] = s[(n + 1) + 1]
    BY <1>1
  <2> QED BY <2>1 DEF WordStream
<1>3. WordStream(t)
  BY <1>2 DEF WordStream
<1> QED BY <1>3 DEF t

(* A word at the head of a row is whole, and the row goes on after it.     *)
LEMMA WordTaken ==
  ASSUME NEW r \in Seq(Bytes), Len(r) = 2, NEW t \in Seq(Bytes),
         WordStream(r \o t), WholeFirst(r \o t)
  PROVE  /\ \E w \in Words : Combined(r[1], r[2]) = Whole(w)
         /\ WordStream(t) /\ WholeFirst(t)
<1> DEFINE s == r \o t
<1>1. /\ s \in Seq(Bytes) /\ Len(s) = Len(t) + 2 /\ Len(t) \in Nat
      /\ \A n \in 1 .. Len(t) + 2 : s[n] = IF n <= 2 THEN r[n] ELSE t[n - 2]
  <2>1. /\ s \in Seq(Bytes) /\ Len(s) = Len(r) + Len(t)
        /\ \A n \in 1 .. Len(r) + Len(t) :
             s[n] = IF n <= Len(r) THEN r[n] ELSE t[n - Len(r)]
    BY ConcatProperties
  <2>2. Len(t) \in Nat /\ 2 + Len(t) = Len(t) + 2
    OBVIOUS
  <2> HIDE DEF s
  <2> QED BY <2>1, <2>2
<1>2. s[1] = r[1] /\ s[2] = r[2] /\ \A n \in 1 .. Len(t) : t[n] = s[n + 2]
  BY <1>1
<1>3. WordStream(s) /\ WholeFirst(s)
  OBVIOUS
<1> HIDE DEF s
<1>4. s[1].half = "high" /\ s[2] = Byte("low", s[1].word)
  BY <1>1, <1>3 DEF WordStream, WholeFirst
<1>5. \E w \in Words : Combined(r[1], r[2]) = Whole(w)
  <2>1. r[1] \in Bytes
    OBVIOUS
  <2>2. PICK h \in Halves, w \in Words : r[1] = [half |-> h, word |-> w]
    BY <2>1 DEF Bytes
  <2>3. r[1] = Byte("high", w) /\ r[2] = Byte("low", w)
    BY <1>2, <1>4, <2>2 DEF Byte
  <2> QED BY <2>3 DEF Whole
<1>6. WordStream(t)
  <2>1. ASSUME NEW n \in 1 .. Len(t)
        PROVE  /\ t[n].half = "high" =>
                    n < Len(t) /\ t[n + 1] = Byte("low", t[n].word)
               /\ t[n].half = "low" /\ n < Len(t) => t[n + 1].half = "high"
    <3>1. /\ n + 2 \in 1 .. Len(s) /\ t[n] = s[n + 2]
          /\ n + 2 < Len(s) <=> n < Len(t)
          /\ n < Len(t) => t[n + 1] = s[(n + 2) + 1]
      BY <1>1, <1>2
    <3> QED BY <1>3, <3>1 DEF WordStream
  <2> QED BY <2>1 DEF WordStream
<1>7. WholeFirst(t)
  <2> SUFFICES ASSUME Len(t) > 0 PROVE t[1].half = "high"
    BY DEF WholeFirst
  <2>1. 2 \in 1 .. Len(s) /\ 2 < Len(s) /\ t[1] = s[3]
    BY <1>1, <1>2
  <2>2. s[2].half = "low"
    BY <1>4 DEF Byte
  <2> QED BY <1>3, <2>1, <2>2 DEF WordStream
<1> QED BY <1>5, <1>6, <1>7

-----------------------------------------------------------------------------
(* What is received, the FIFO and the line are typed queues.               *)
LEMMA StreamType ==
  ASSUME TypeOK
  PROVE  /\ rx_buffer \in Seq(Bytes) /\ fifo \in Seq(Bytes) /\ line \in Seq(Bytes)
         /\ rx_buffer \o fifo \in Seq(Bytes) /\ Stream \in Seq(Bytes)
<1>1. rx_buffer \in Seq(Bytes) /\ fifo \in Seq(Bytes) /\ line \in Seq(Bytes)
  BY DEF TypeOK
<1>2. rx_buffer \o fifo \in Seq(Bytes)
  BY <1>1, ConcatProperties
<1>3. Stream \in Seq(Bytes)
  BY <1>1, <1>2, ConcatProperties DEF Stream
<1> QED BY <1>1, <1>2, <1>3

LEMMA InitReceives == Init => ReceiverInv
<1> SUFFICES ASSUME Init PROVE ReceiverInv
  OBVIOUS
<1>1. TypeOK
  <2>1. /\ on \in BOOLEAN /\ receiving \in BOOLEAN /\ failed \in BOOLEAN
        /\ sent \in BOOLEAN /\ slipped \in BOOLEAN /\ deaf \in BOOLEAN
    BY DEF Init
  <2>2. /\ last \in Words
        /\ line \in Seq(Bytes) /\ fifo \in Seq(Bytes) /\ rx_buffer \in Seq(Bytes)
        /\ Len(line) = 0 /\ Len(fifo) = 0 /\ Len(rx_buffer) = 0
    BY DEF Init
  <2>3. 0 <= 2 * MaxOnLine /\ 0 <= FifoSize
    BY UartReceiverAssumption
  <2>4. keypad_state = Zero
    BY DEF Init
  <2> QED BY <2>1, <2>2, <2>3, <2>4 DEF TypeOK
<1>2. OffInv /\ StreamInv /\ WordsWhole
  BY DEF Init, OffInv, StreamInv, WordsWhole
<1>3. WordStream(line)
  BY DEF Init, WordStream
<1> QED BY <1>1, <1>2, <1>3 DEF ReceiverInv

LEMMA ResetReceives ==
  ASSUME ReceiverInv, Reset
  PROVE  ReceiverInv'
<1>1. TypeOK'
  <2>1. /\ on' \in BOOLEAN /\ receiving' \in BOOLEAN /\ failed' \in BOOLEAN
        /\ sent' \in BOOLEAN /\ slipped' \in BOOLEAN /\ deaf' \in BOOLEAN
    BY DEF Reset, Off
  <2>2. /\ fifo' \in Seq(Bytes) /\ rx_buffer' \in Seq(Bytes)
        /\ Len(fifo') = 0 /\ Len(rx_buffer') = 0
    BY DEF Reset, Off
  <2>3. 0 <= FifoSize
    BY UartReceiverAssumption
  <2>4. keypad_state' = Zero /\ line' = line /\ last' = last
    BY DEF Reset, Off
  <2> QED BY <2>1, <2>2, <2>3, <2>4 DEF TypeOK, ReceiverInv
<1>2. OffInv' /\ StreamInv' /\ WordsWhole'
  BY DEF Reset, Off, OffInv, StreamInv, WordsWhole
<1>3. WordStream(line')
  BY DEF Reset, ReceiverInv
<1> QED BY <1>1, <1>2, <1>3 DEF ReceiverInv, WordStream

(* The receiver is switched on: the row is what is on the line.            *)
LEMMA SwitchOnReceives ==
  ASSUME ReceiverInv, keypad_receiver_init
  PROVE  ReceiverInv'
<1>1. /\ ~on /\ on' = TRUE /\ receiving' = TRUE
      /\ slipped' = (line # <<>> /\ Head(line).half = "low")
      /\ UNCHANGED <<last, line, fifo, rx_buffer, failed, keypad_state, sent, deaf>>
  BY DEF keypad_receiver_init
<1>2. fifo = <<>> /\ rx_buffer = <<>> /\ keypad_state = Zero
  BY <1>1 DEF ReceiverInv, OffInv
<1>3. TypeOK'
  <2>1. on' \in BOOLEAN /\ receiving' \in BOOLEAN /\ slipped' \in BOOLEAN
    BY <1>1
  <2> QED BY <1>1, <2>1 DEF ReceiverInv, TypeOK
<1>4. Stream' = line
  <2>1. line \in Seq(Bytes) /\ <<>> \in Seq(Bytes)
    BY DEF ReceiverInv, TypeOK
  <2>2. <<>> \o <<>> = <<>> /\ <<>> \o line = line
    BY <2>1, ConcatEmptySeq
  <2> QED BY <1>1, <1>2, <2>2 DEF Stream
<1>5. ASSUME ~slipped' PROVE WholeFirst(line)
  <2> SUFFICES ASSUME Len(line) > 0 PROVE line[1].half = "high"
    BY DEF WholeFirst
  <2>1. line \in Seq(Bytes)
    BY DEF ReceiverInv, TypeOK
  <2>2. line # <<>> /\ Head(line) = line[1] /\ line[1] \in Bytes
    BY <2>1
  <2> QED BY <1>1, <1>5, <2>2 DEF Bytes, Halves
<1>6. StreamInv'
  <2>1. WordStream(line)
    BY DEF ReceiverInv
  <2> QED BY <1>4, <1>5, <2>1 DEF StreamInv, WordStream, WholeFirst
<1>7. OffInv' /\ WordsWhole' /\ WordStream(line)'
  BY <1>1, <1>2 DEF OffInv, WordsWhole, ReceiverInv, WordStream
<1> QED BY <1>3, <1>6, <1>7 DEF ReceiverInv

(* A word sent joins the row.                                              *)
LEMMA SendsReceives ==
  ASSUME ReceiverInv, NEW w \in Words, KeypadSends(w)
  PROVE  ReceiverInv'
<1> DEFINE p == <<Byte("high", w), Byte("low", w)>>
<1>1. /\ line' = line \o p /\ last' = w /\ sent' = on
      /\ Len(line) <= 2 * (MaxOnLine - 1)
      /\ UNCHANGED <<on, fifo, receiving, rx_buffer, failed, keypad_state, slipped,
                     deaf>>
  BY DEF KeypadSends
<1>2. p \in Seq(Bytes) /\ Len(p) = 2
  BY DEF Bytes, Byte, Halves
<1>3. /\ rx_buffer \o fifo \in Seq(Bytes) /\ Stream \in Seq(Bytes)
      /\ line \in Seq(Bytes)
  BY StreamType DEF ReceiverInv
<1>4. TypeOK'
  <2>1. line' \in Seq(Bytes) /\ Len(line') = Len(line) + Len(p)
    BY <1>1, <1>2, <1>3, ConcatProperties
  <2>2. Len(line') <= 2 * MaxOnLine
    BY <1>1, <1>2, <1>3, <2>1, UartReceiverAssumption
  <2>3. sent' \in BOOLEAN
    BY <1>1 DEF ReceiverInv, TypeOK
  <2> HIDE DEF p
  <2> QED BY <1>1, <2>1, <2>2, <2>3 DEF ReceiverInv, TypeOK
<1>5. Stream' = Stream \o p
  BY <1>1, <1>2, <1>3, ConcatAssociative DEF Stream
<1>6. StreamInv'
  <2> SUFFICES ASSUME ~slipped, on, receiving, ~failed
               PROVE  WordStream(Stream \o p) /\ WholeFirst(Stream \o p)
    BY <1>1, <1>5 DEF StreamInv, WordStream, WholeFirst
  <2>1. WordStream(Stream) /\ WholeFirst(Stream)
    BY DEF ReceiverInv, StreamInv
  <2> QED BY <1>3, <2>1, SentStream
<1>7. WordStream(line \o p)
  BY <1>3, SentStream DEF ReceiverInv
<1>8. WordStream(line)'
  BY <1>1, <1>7 DEF WordStream
<1>9. OffInv' /\ WordsWhole'
  BY <1>1 DEF ReceiverInv, OffInv, WordsWhole
<1> QED BY <1>4, <1>6, <1>8, <1>9 DEF ReceiverInv

(* A byte ends on the line: it is in the FIFO, lost before the receiver is *)
(* on, or lost with an error.                                              *)
LEMMA ArrivesReceives ==
  ASSUME ReceiverInv, ByteArrives \/ LineError
  PROVE  ReceiverInv'
<1>1. /\ line # <<>> /\ line' = Tail(line)
      /\ UNCHANGED <<last, on, receiving, rx_buffer, keypad_state, sent, slipped,
                     deaf>>
  BY DEF ByteArrives, LineError, history
<1>2. /\ rx_buffer \in Seq(Bytes) /\ fifo \in Seq(Bytes) /\ line \in Seq(Bytes)
      /\ rx_buffer \o fifo \in Seq(Bytes) /\ Stream \in Seq(Bytes)
  BY StreamType DEF ReceiverInv
<1>3. /\ line' \in Seq(Bytes) /\ Len(line') = Len(line) - 1
      /\ Head(line) \in Bytes /\ Len(line) \in Nat
  BY <1>1, <1>2
<1>4. \/ fifo' = fifo /\ failed' = TRUE
      \/ fifo' = fifo /\ failed' = failed /\ ~on
      \/ /\ fifo' = Append(fifo, Head(line)) /\ failed' = failed
         /\ on /\ Len(fifo) < FifoSize
  BY DEF ByteArrives, LineError, FifoTakes
<1>5. failed' \in BOOLEAN
  BY <1>4 DEF ReceiverInv, TypeOK
<1>6. fifo' \in Seq(Bytes) /\ Len(fifo') <= FifoSize
  <2>1. CASE fifo' = fifo
    BY <2>1 DEF ReceiverInv, TypeOK
  <2>2. CASE fifo' = Append(fifo, Head(line)) /\ Len(fifo) < FifoSize
    <3>1. fifo' \in Seq(Bytes) /\ Len(fifo') = Len(fifo) + 1 /\ Len(fifo) \in Nat
      BY <1>2, <1>3, <2>2, AppendProperties
    <3> QED BY <2>2, <3>1, UartReceiverAssumption
  <2> QED BY <1>4, <2>1, <2>2
<1>7. TypeOK'
  <2>1. Len(line') <= 2 * MaxOnLine
    BY <1>3, UartReceiverAssumption DEF ReceiverInv, TypeOK
  <2> QED BY <1>1, <1>3, <1>5, <1>6, <2>1 DEF ReceiverInv, TypeOK
<1>8. WordStream(line')
  BY <1>1, <1>2, TailStream DEF ReceiverInv
<1>9. StreamInv'
  <2> SUFFICES ASSUME ~slipped, on, receiving, ~failed'
               PROVE  WordStream(Stream)' /\ WholeFirst(Stream)'
    BY <1>1 DEF StreamInv
  <2>1. fifo' = Append(fifo, Head(line)) /\ ~failed
    BY <1>4
  <2>2. rx_buffer \o fifo' = Append(rx_buffer \o fifo, Head(line))
    BY <1>2, <1>3, <2>1, AppendSecond
  <2>3. Stream' = Stream
    BY <1>1, <1>2, <2>2, Shift DEF Stream
  <2>4. WordStream(Stream) /\ WholeFirst(Stream)
    BY <2>1 DEF ReceiverInv, StreamInv
  <2> QED BY <2>3, <2>4 DEF WordStream, WholeFirst
<1>10. OffInv' /\ WordsWhole'
  BY <1>1, <1>4 DEF ReceiverInv, OffInv, WordsWhole
<1> QED BY <1>7, <1>8, <1>9, <1>10 DEF ReceiverInv, WordStream

(* The driver takes a byte out of the FIFO.                                *)
LEMMA ReceivesByte ==
  ASSUME ReceiverInv, ReceiveByte
  PROVE  ReceiverInv'
<1>1. /\ receiving /\ fifo # <<>> /\ Len(rx_buffer) < 2
      /\ rx_buffer' = Append(rx_buffer, Head(fifo)) /\ fifo' = Tail(fifo)
      /\ UNCHANGED <<last, line, on, receiving, failed, keypad_state, sent, slipped,
                     deaf>>
  BY DEF ReceiveByte, history
<1>2. rx_buffer \in Seq(Bytes) /\ fifo \in Seq(Bytes) /\ line \in Seq(Bytes)
  BY StreamType DEF ReceiverInv
<1>3. /\ Head(fifo) \in Bytes /\ fifo' \in Seq(Bytes)
      /\ Len(fifo') = Len(fifo) - 1 /\ Len(fifo) \in Nat
  BY <1>1, <1>2
<1>4. /\ rx_buffer' \in Seq(Bytes) /\ Len(rx_buffer') = Len(rx_buffer) + 1
      /\ Len(rx_buffer) \in Nat
  BY <1>1, <1>2, <1>3
<1>5. Len(fifo') <= FifoSize /\ Len(rx_buffer') <= 2
  BY <1>1, <1>3, <1>4, UartReceiverAssumption DEF ReceiverInv, TypeOK
<1>6. TypeOK'
  BY <1>1, <1>3, <1>4, <1>5 DEF ReceiverInv, TypeOK
<1>7. Stream' = Stream
  BY <1>1, <1>2, Shift DEF Stream
<1>8. StreamInv'
  BY <1>1, <1>7 DEF ReceiverInv, StreamInv, WordStream, WholeFirst
<1>9. OffInv' /\ WordsWhole' /\ WordStream(line)'
  BY <1>1 DEF ReceiverInv, OffInv, WordsWhole, WordStream
<1> QED BY <1>6, <1>8, <1>9 DEF ReceiverInv

(* Two bytes are the next word of the row.                                 *)
LEMMA RxDoneReceives ==
  ASSUME ReceiverInv, RxDone
  PROVE  ReceiverInv'
<1>1. /\ receiving /\ ~failed /\ Len(rx_buffer) = 2
      /\ keypad_state' = Combined(rx_buffer[1], rx_buffer[2])
      /\ rx_buffer' = <<>>
      /\ UNCHANGED <<last, line, on, receiving, fifo, failed, sent, slipped, deaf>>
  BY DEF RxDone, Rearm, history
<1>2. rx_buffer \in Seq(Bytes) /\ fifo \in Seq(Bytes) /\ line \in Seq(Bytes)
  BY StreamType DEF ReceiverInv
<1>3. on
  BY <1>1 DEF ReceiverInv, OffInv
<1>4. TypeOK'
  <2>1. rx_buffer[1] \in Bytes /\ rx_buffer[2] \in Bytes
    <3>1. 1 \in 1 .. Len(rx_buffer) /\ 2 \in 1 .. Len(rx_buffer)
      BY <1>1
    <3> QED BY <1>2, <3>1, ElementOfSeq
  <2>2. keypad_state' \in Bytes \X Bytes
    BY <1>1, <2>1 DEF Combined
  <2>3. rx_buffer' \in Seq(Bytes) /\ Len(rx_buffer') <= 2
    BY <1>1
  <2> QED BY <1>1, <2>2, <2>3 DEF ReceiverInv, TypeOK
<1>5. fifo \o line \in Seq(Bytes) /\ Stream = rx_buffer \o (fifo \o line)
  BY <1>2, ConcatProperties, ConcatAssociative DEF Stream
<1>6. Stream' = fifo \o line
  BY <1>1, <1>2, ConcatEmptySeq DEF Stream
<1>7. ASSUME ~slipped
      PROVE  /\ \E w \in Words : keypad_state' = Whole(w)
             /\ WordStream(fifo \o line) /\ WholeFirst(fifo \o line)
  <2>1. WordStream(Stream) /\ WholeFirst(Stream)
    BY <1>1, <1>3, <1>7 DEF ReceiverInv, StreamInv
  <2>2. /\ WordStream(rx_buffer \o (fifo \o line))
        /\ WholeFirst(rx_buffer \o (fifo \o line))
    BY <1>5, <2>1
  <2>3. /\ \E w \in Words : Combined(rx_buffer[1], rx_buffer[2]) = Whole(w)
        /\ WordStream(fifo \o line) /\ WholeFirst(fifo \o line)
    BY <1>1, <1>2, <1>5, <2>2, WordTaken
  <2> QED BY <1>1, <2>3
<1>8. WordsWhole'
  <2>1. CASE slipped
    BY <1>1, <2>1 DEF WordsWhole
  <2>2. CASE ~slipped
    <3>1. PICK w \in Words : keypad_state' = Whole(w)
      BY <1>7, <2>2
    <3> QED BY <3>1 DEF WordsWhole, Whole
  <2> QED BY <2>1, <2>2
<1>9. StreamInv'
  BY <1>1, <1>6, <1>7 DEF StreamInv, WordStream, WholeFirst
<1>10. OffInv' /\ WordStream(line)'
  BY <1>1, <1>3 DEF ReceiverInv, OffInv, WordStream
<1> QED BY <1>4, <1>8, <1>9, <1>10 DEF ReceiverInv

(* An error ends the reception until the next reset.                       *)
LEMMA RxErrorReceives ==
  ASSUME ReceiverInv, RxError
  PROVE  ReceiverInv'
<1>1. /\ receiving /\ receiving' = FALSE /\ failed' = FALSE /\ deaf' = TRUE
      /\ rx_buffer' = <<>>
      /\ UNCHANGED <<last, line, on, fifo, keypad_state, sent, slipped>>
  BY DEF RxError
<1>2. TypeOK'
  <2>1. receiving' \in BOOLEAN /\ failed' \in BOOLEAN /\ deaf' \in BOOLEAN
    BY <1>1
  <2>2. rx_buffer' \in Seq(Bytes) /\ Len(rx_buffer') <= 2
    BY <1>1
  <2> QED BY <1>1, <2>1, <2>2 DEF ReceiverInv, TypeOK
<1>3. OffInv' /\ StreamInv' /\ WordsWhole' /\ WordStream(line)'
  BY <1>1 DEF ReceiverInv, OffInv, StreamInv, WordsWhole, WordStream
<1> QED BY <1>2, <1>3 DEF ReceiverInv

LEMMA NextReceives == ReceiverInv /\ [Next]_vars => ReceiverInv'
<1> SUFFICES ASSUME ReceiverInv, [Next]_vars PROVE ReceiverInv'
  OBVIOUS
<1>1. ASSUME NEW w \in Words, KeypadSends(w) PROVE ReceiverInv'
  BY <1>1, SendsReceives
<1>2. CASE ByteArrives \/ LineError
  BY <1>2, ArrivesReceives
<1>3. CASE ReceiveByte
  BY <1>3, ReceivesByte
<1>4. CASE uart_event_handler
  BY <1>4, RxDoneReceives, RxErrorReceives DEF uart_event_handler
<1>5. CASE keypad_receiver_init
  BY <1>5, SwitchOnReceives
<1>6. CASE Reset
  BY <1>6, ResetReceives
<1>7. CASE UNCHANGED vars
  BY <1>7 DEF vars, history, ReceiverInv, TypeOK, OffInv, StreamInv, Stream,
     WordsWhole, WordStream, WholeFirst
<1> QED BY <1>1, <1>2, <1>3, <1>4, <1>5, <1>6, <1>7 DEF Next

-----------------------------------------------------------------------------
(* A word sent is the end of the row.                                      *)
LEMMA SendsLast ==
  ASSUME ReceiverInv, LastInv, NEW w \in Words, KeypadSends(w)
  PROVE  LastInv'
<1> DEFINE p == <<Byte("high", w), Byte("low", w)>>
<1>1. /\ line' = line \o p /\ last' = w /\ sent' = on
      /\ UNCHANGED <<on, fifo, receiving, rx_buffer, failed, keypad_state,
                     slipped, deaf>>
  BY DEF KeypadSends
<1>2. p \in Seq(Bytes) /\ Len(p) = 2 /\ p[2] = Byte("low", w)
  BY DEF Bytes, Byte, Halves
<1>3. /\ rx_buffer \o fifo \in Seq(Bytes) /\ Stream \in Seq(Bytes)
      /\ line \in Seq(Bytes)
  BY StreamType DEF ReceiverInv
<1>4. Stream' = Stream \o p
  BY <1>1, <1>2, <1>3, ConcatAssociative DEF Stream
<1> HIDE DEF p
<1>5. Len(Stream) \in Nat /\ Len(Stream \o p) = Len(Stream) + 2
  <2> DEFINE s == Stream
  <2>1. s \in Seq(Bytes)
    BY <1>3
  <2> HIDE DEF s
  <2>2. Len(s) \in Nat
    BY <2>1, LenProperties
  <2>3. Len(s \o p) = Len(s) + Len(p)
    BY <1>2, <2>1, ConcatProperties
  <2>4. Len(s \o p) = Len(s) + 2
    BY <1>2, <2>3
  <2> QED BY <2>2, <2>4 DEF s
<1>6. (Stream \o p)[Len(Stream) + 2] = p[2]
  <2>1. \A n \in 1 .. Len(Stream) + Len(p) :
          (Stream \o p)[n] = IF n <= Len(Stream) THEN Stream[n]
                                                 ELSE p[n - Len(Stream)]
    BY <1>2, <1>3, ConcatProperties
  <2> QED BY <1>2, <1>5, <2>1
<1>7. EndsWithLast'
  BY <1>1, <1>2, <1>4, <1>5, <1>6 DEF EndsWithLast, Byte
<1> QED BY <1>1, <1>7 DEF LastInv

(* Bytes that move leave the row, its end and keypad_state as they are.    *)
LEMMA MovesLast ==
  ASSUME ReceiverInv, LastInv, ByteArrives \/ LineError \/ ReceiveByte
  PROVE  LastInv'
<1>1. UNCHANGED <<last, on, receiving, keypad_state, sent, slipped, deaf>>
  BY DEF ByteArrives, LineError, ReceiveByte, history
<1>2. /\ rx_buffer \in Seq(Bytes) /\ fifo \in Seq(Bytes) /\ line \in Seq(Bytes)
      /\ rx_buffer \o fifo \in Seq(Bytes)
  BY StreamType DEF ReceiverInv
<1>3. ASSUME on, ~failed' PROVE Stream' = Stream /\ ~failed
  <2>1. CASE ReceiveByte
    BY <1>2, <1>3, <2>1, Shift DEF ReceiveByte, Stream
  <2>2. CASE ByteArrives \/ LineError
    <3>1. /\ line # <<>> /\ line' = Tail(line) /\ rx_buffer' = rx_buffer
          /\ fifo' = Append(fifo, Head(line)) /\ ~failed
      BY <1>3, <2>2 DEF ByteArrives, LineError, FifoTakes
    <3>2. Head(line) \in Bytes
      BY <1>2, <3>1
    <3>3. rx_buffer \o fifo' = Append(rx_buffer \o fifo, Head(line))
      BY <1>2, <3>1, <3>2, AppendSecond
    <3> QED BY <1>2, <3>1, <3>3, Shift DEF Stream
  <2> QED BY <2>1, <2>2
<1>4. ASSUME sent, ~slipped, ~deaf, ~failed' PROVE EndsWithLast'
  <2>1. on
    BY <1>4 DEF LastInv
  <2>2. Stream' = Stream /\ EndsWithLast
    BY <1>3, <1>4, <2>1 DEF LastInv
  <2> QED BY <1>1, <2>2 DEF EndsWithLast, Whole, Combined, Byte
<1> QED BY <1>1, <1>4 DEF LastInv

(* The word taken is the last one if nothing is behind it.                 *)
LEMMA RxDoneLast ==
  ASSUME ReceiverInv, LastInv, RxDone
  PROVE  LastInv'
<1> DEFINE t == fifo \o line
<1>1. /\ receiving /\ ~failed /\ Len(rx_buffer) = 2
      /\ keypad_state' = Combined(rx_buffer[1], rx_buffer[2])
      /\ rx_buffer' = <<>>
      /\ UNCHANGED <<last, line, on, receiving, fifo, failed, sent, slipped, deaf>>
  BY DEF RxDone, Rearm, history
<1>2. rx_buffer \in Seq(Bytes) /\ fifo \in Seq(Bytes) /\ line \in Seq(Bytes)
  BY StreamType DEF ReceiverInv
<1>3. t \in Seq(Bytes) /\ Stream = rx_buffer \o t /\ Stream' = t
  BY <1>1, <1>2, ConcatProperties, ConcatAssociative, ConcatEmptySeq DEF Stream
<1>4. Len(t) \in Nat
  BY <1>3
<1>5. /\ Len(Stream) = Len(t) + 2
      /\ \A n \in 1 .. Len(t) + 2 :
           Stream[n] = IF n <= 2 THEN rx_buffer[n] ELSE t[n - 2]
  <2> HIDE DEF t
  <2>1. /\ Len(rx_buffer \o t) = Len(rx_buffer) + Len(t)
        /\ \A n \in 1 .. Len(rx_buffer) + Len(t) :
             (rx_buffer \o t)[n] = IF n <= Len(rx_buffer)
                                     THEN rx_buffer[n]
                                     ELSE t[n - Len(rx_buffer)]
    BY <1>2, <1>3, ConcatProperties
  <2>2. 2 + Len(t) = Len(t) + 2
    BY <1>4
  <2> QED BY <1>1, <1>3, <2>1, <2>2
<1> HIDE DEF t
<1>6. ASSUME sent, ~slipped, ~deaf PROVE EndsWithLast'
  <2>1. on /\ EndsWithLast
    BY <1>1, <1>6 DEF LastInv
  <2>2. Stream[Len(t) + 2] = Byte("low", last)
    BY <1>4, <1>5, <2>1 DEF EndsWithLast
  <2>3. CASE Len(t) = 0
    <3>1. rx_buffer[2] = Byte("low", last)
      BY <1>5, <2>2, <2>3
    <3>2. WordStream(Stream) /\ WholeFirst(Stream)
      BY <1>1, <1>6, <2>1 DEF ReceiverInv, StreamInv
    <3>3. PICK w \in Words : Combined(rx_buffer[1], rx_buffer[2]) = Whole(w)
      <4>1. /\ WordStream(rx_buffer \o t) /\ WholeFirst(rx_buffer \o t)
        BY <1>3, <3>2
      <4> QED BY <1>1, <1>2, <1>3, <4>1, WordTaken
    <3>4. rx_buffer[2] = Byte("low", w)
      BY <3>3 DEF Combined, Whole
    <3>5. w = last
      BY <3>1, <3>4 DEF Byte
    <3>6. keypad_state' = Whole(last)
      BY <1>1, <3>3, <3>5
    <3> QED BY <1>1, <1>3, <2>3, <3>6 DEF EndsWithLast, Whole, Combined, Byte
  <2>4. CASE Len(t) > 0
    <3>1. Stream[Len(t) + 2] = t[Len(t)]
      BY <1>4, <1>5, <2>4
    <3>2. t[Len(t)] = Byte("low", last)
      BY <2>2, <3>1
    <3>3. Stream' = t /\ last' = last
      BY <1>1, <1>3
    <3>4. t # <<>>
      BY <2>4
    <3> QED BY <3>2, <3>3, <3>4 DEF EndsWithLast
  <2> QED BY <1>4, <2>3, <2>4
<1> QED BY <1>1, <1>6 DEF LastInv

LEMMA NextLast == ReceiverInv /\ LastInv /\ [Next]_vars => LastInv'
<1> SUFFICES ASSUME ReceiverInv, LastInv, [Next]_vars PROVE LastInv'
  OBVIOUS
<1>1. ASSUME NEW w \in Words, KeypadSends(w) PROVE LastInv'
  BY <1>1, SendsLast
<1>2. CASE ByteArrives \/ LineError \/ ReceiveByte
  BY <1>2, MovesLast
<1>3. CASE RxDone
  BY <1>3, RxDoneLast
<1>4. CASE RxError
  BY <1>4 DEF RxError, LastInv
<1>5. CASE keypad_receiver_init
  BY <1>5 DEF keypad_receiver_init, LastInv
<1>6. CASE Reset
  BY <1>6 DEF Reset, Off, LastInv
<1>7. CASE UNCHANGED vars
  BY <1>7 DEF vars, history, LastInv, EndsWithLast, Stream, Whole, Combined, Byte
<1> QED BY <1>1, <1>2, <1>3, <1>4, <1>5, <1>6, <1>7 DEF Next, uart_event_handler

(* With nothing behind it, the word received is the last one: what is left *)
(* of a row of whole words is no single byte.                              *)
LEMMA LastReceived == ReceiverInv /\ LastInv => ReceivesLastWord
<1> SUFFICES ASSUME ReceiverInv, LastInv, sent, line = <<>>, fifo = <<>>,
                    Len(rx_buffer) < 2, ~failed, ~slipped, ~deaf
             PROVE  keypad_state = Whole(last)
  BY DEF ReceivesLastWord
<1>1. on /\ receiving /\ EndsWithLast
  BY DEF LastInv
<1>2. WholeFirst(Stream)
  BY <1>1 DEF ReceiverInv, StreamInv
<1>3. rx_buffer \in Seq(Bytes)
  BY StreamType DEF ReceiverInv
<1>4. Stream = rx_buffer
  BY <1>3, ConcatEmptySeq DEF Stream
<1>5. Len(rx_buffer) \in Nat
  BY <1>3
<1>6. Len(rx_buffer) # 1
  <2> SUFFICES ASSUME Len(rx_buffer) = 1 PROVE FALSE
    OBVIOUS
  <2>1. rx_buffer[1] = Byte("low", last)
    <3>1. rx_buffer # <<>>
      OBVIOUS
    <3>2. Len(Stream) = 1 /\ Stream # <<>>
      BY <1>4, <3>1
    <3>3. Stream[Len(Stream)] = Byte("low", last)
      BY <1>1, <3>2 DEF EndsWithLast
    <3> QED BY <1>4, <3>2, <3>3
  <2>2. rx_buffer[1].half = "high"
    BY <1>2, <1>4 DEF WholeFirst
  <2> QED BY <2>1, <2>2 DEF Byte
<1>7. Len(rx_buffer) = 0
  <2> DEFINE n == Len(rx_buffer)
  <2>1. n \in Nat /\ n < 2 /\ n # 1
    BY <1>5, <1>6
  <2> HIDE DEF n
  <2>2. n = 0
    BY <2>1
  <2> QED BY <2>2 DEF n
<1> QED BY <1>1, <1>4, <1>7 DEF EndsWithLast

-----------------------------------------------------------------------------
(* A step of the controller is a step of its receiver or leaves it alone.  *)
LEMMA ReceiverStep == [ControllerNext]_controllerVars => [Next]_vars
<1> SUFFICES ASSUME [ControllerNext]_controllerVars PROVE [Next]_vars
  OBVIOUS
<1>1. CASE MainCalls
  BY <1>1 DEF MainCalls, Next
<1>2. CASE Resets
  BY <1>2 DEF Resets, Next
<1>3. CASE WordReceived
  BY <1>3 DEF WordReceived, Next, uart_event_handler
<1>4. CASE OtherInterrupt
  BY <1>4 DEF OtherInterrupt
<1>5. CASE RxError \/ ReceiveByte
  BY <1>5 DEF Next, uart_event_handler
<1>6. CASE Line
  BY <1>6 DEF Line, Next
<1>7. CASE UNCHANGED controllerVars
  BY <1>7 DEF controllerVars
<1> QED BY <1>1, <1>2, <1>3, <1>4, <1>5, <1>6, <1>7 DEF ControllerNext

(* So what holds of UartReceiver by itself holds here.                     *)
LEMMA ImplementsReceiver == ControllerSpec => Spec
<1>1. ControllerInit => Init
  BY DEF ControllerInit
<1> QED BY <1>1, ReceiverStep, PTL DEF ControllerSpec, Spec

LEMMA ReceiverInvariant == Spec => [](ReceiverInv /\ LastInv)
<1>1. Init => LastInv
  BY DEF Init, LastInv
<1> QED BY <1>1, InitReceives, NextReceives, NextLast, PTL DEF Spec

(* TypeOK: types, and the limits of the FIFO, the buffer and the line      *)
(* (my_keypad.c:26-82).                                                    *)
THEOREM ReceiverTypes == ControllerSpec => []TypeOK
<1>1. ReceiverInv => TypeOK
  BY DEF ReceiverInv
<1> QED BY <1>1, ImplementsReceiver, ReceiverInvariant, PTL

(* WordsWhole: the halves of two words are never combined, unless the      *)
(* receiver was switched on between two bytes (my_keypad.c:33-36, 53).     *)
THEOREM WordsArriveWhole == ControllerSpec => []WordsWhole
<1>1. ReceiverInv => WordsWhole
  BY DEF ReceiverInv
<1> QED BY <1>1, ImplementsReceiver, ReceiverInvariant, PTL

(* ReceivesLastWord: when all that was sent has arrived and been read,     *)
(* keypad_state is the last word, or the receiver slipped or has met an    *)
(* error (my_keypad.c:32-58).                                              *)
THEOREM LastWordReceived == ControllerSpec => []ReceivesLastWord
BY LastReceived, ImplementsReceiver, ReceiverInvariant, PTL

-----------------------------------------------------------------------------
(* What is set up when main is past a call, and how far main is when some  *)
(* interrupt may come.                                                     *)
SetUp ==
  /\ at > 1 => "timers" \in ready
  /\ at > 2 => "dispatch" \in ready
  /\ at > 3 => "scheduler" \in ready
  /\ at > 4 => "peers" \in ready
  /\ at > 5 => "device_name" \in ready /\ "preferred_parameters" \in ready
  /\ at > 6 => "advertising" \in ready
  /\ at > 7 => "bas" \in ready /\ "hids" \in ready
  /\ at > 8 => "adc" \in ready
  /\ at > 9 => "connection_parameters" \in ready
  /\ at > 10 => "buffer" \in ready

SwitchedOn ==
  /\ "flash_operations" \in ready => at > 4
  /\ "receiver" \in ready => at > 11
  /\ "sense_pin" \in ready => at > 11
  /\ "running_timers" \in ready => at > 11
  /\ "radio" \in ready => at > 13
  /\ "main_loop" \in ready => at > 13

StartInv == at \in 1 .. 14 /\ SetUp /\ SwitchedOn /\ NothingMissed

LEMMA CallsGive ==
  /\ Len(main) = 13
  /\ main[1].gives = {"timers"}
  /\ main[2].gives = {"softdevice", "dispatch"}
  /\ main[3].gives = {"scheduler"}
  /\ main[4].gives = {"peers", "flash_operations"}
  /\ main[5].gives = {"device_name", "preferred_parameters"}
  /\ main[6].gives = {"advertising"}
  /\ main[7].gives = {"dis", "bas", "hids"}
  /\ main[8].gives = {"adc"}
  /\ main[9].gives = {"connection_parameters"}
  /\ main[10].gives = {"buffer"}
  /\ main[11].gives = {"receiver", "sense_pin"}
  /\ main[12].gives = {"running_timers"}
  /\ main[13].gives = {"radio"}
BY DEF main, Code, timers_init, ble_stack_init, scheduler_init,
   peer_manager_init, gap_params_init, advertising_init, services_init,
   battery_sensor_init, conn_params_init, buffer_init, keypad_init,
   timers_start, advertising_start

LEMMA CallsUse ==
  /\ main[6].uses = {"device_name", "peers"}
  /\ main[9].uses = {"preferred_parameters"}
  /\ \A k \in (1 .. 5) \cup (7 .. 8) \cup (10 .. 13) : main[k].uses = {}
<1>1. /\ main[6].uses = {"device_name", "peers"}
      /\ main[9].uses = {"preferred_parameters"}
  BY DEF main, Code, timers_init, ble_stack_init, scheduler_init,
     peer_manager_init, gap_params_init, advertising_init, services_init,
     battery_sensor_init, conn_params_init, buffer_init, keypad_init,
     timers_start, advertising_start
<1>2. /\ main[1].uses = {} /\ main[2].uses = {} /\ main[3].uses = {}
      /\ main[4].uses = {} /\ main[5].uses = {} /\ main[7].uses = {}
      /\ main[8].uses = {} /\ main[10].uses = {} /\ main[11].uses = {}
      /\ main[12].uses = {} /\ main[13].uses = {}
  BY DEF main, Code, timers_init, ble_stack_init, scheduler_init,
     peer_manager_init, gap_params_init, advertising_init, services_init,
     battery_sensor_init, conn_params_init, buffer_init, keypad_init,
     timers_start, advertising_start
<1>3. ASSUME NEW k \in (1 .. 5) \cup (7 .. 8) \cup (10 .. 13)
      PROVE  main[k].uses = {}
  BY <1>2
<1> QED BY <1>1, <1>3

(* The call that sets each thing up.                                       *)
LEMMA SetUpBy ==
  ASSUME NEW gives, gives = main[at].gives
  PROVE  /\ at = 1 => "timers" \in gives
         /\ at = 2 => "dispatch" \in gives
         /\ at = 3 => "scheduler" \in gives
         /\ at = 4 => "peers" \in gives
         /\ at = 5 => "device_name" \in gives /\ "preferred_parameters" \in gives
         /\ at = 6 => "advertising" \in gives
         /\ at = 7 => "bas" \in gives /\ "hids" \in gives
         /\ at = 8 => "adc" \in gives
         /\ at = 9 => "connection_parameters" \in gives
         /\ at = 10 => "buffer" \in gives
BY CallsGive

(* No call before it switches an interrupt on.                             *)
LEMMA SwitchedOnBy ==
  ASSUME NEW k \in 1 .. 13, NEW gives, gives = main[k].gives
  PROVE  /\ "flash_operations" \in gives => k = 4
         /\ "receiver" \in gives => k = 11
         /\ "sense_pin" \in gives => k = 11
         /\ "running_timers" \in gives => k = 12
         /\ "radio" \in gives => k = 13
         /\ "main_loop" \notin gives
BY CallsGive

LEMMA Returns ==
  ASSUME StartInv, CallReturns
  PROVE  StartInv'
<1> DEFINE gives == main[at].gives
           uses == main[at].uses
<1>1. Len(main) = 13
  BY CallsGive
<1>2. at \in 1 .. 13 /\ at' = at + 1
  <2>1. at \in 1 .. 14
    BY DEF StartInv
  <2>2. ~(at > 13)
    BY <1>1 DEF CallReturns, Started
  <2>3. at' = at + 1
    BY DEF CallReturns
  <2> QED BY <2>1, <2>2, <2>3
<1>3. missed' = missed \cup (uses \ ready)
  BY DEF CallReturns, Use
<1>4. ready' = ready \cup gives \cup IF at = 13 THEN {"main_loop"} ELSE {}
  BY <1>1 DEF CallReturns
<1>5. missed = {} /\ SetUp /\ SwitchedOn
  BY DEF StartInv, NothingMissed
<1>6. /\ at = 1 => "timers" \in gives
      /\ at = 2 => "dispatch" \in gives
      /\ at = 3 => "scheduler" \in gives
      /\ at = 4 => "peers" \in gives
      /\ at = 5 => "device_name" \in gives /\ "preferred_parameters" \in gives
      /\ at = 6 => "advertising" \in gives
      /\ at = 7 => "bas" \in gives /\ "hids" \in gives
      /\ at = 8 => "adc" \in gives
      /\ at = 9 => "connection_parameters" \in gives
      /\ at = 10 => "buffer" \in gives
  BY SetUpBy
<1>7. /\ "flash_operations" \in gives => at = 4
      /\ "receiver" \in gives => at = 11
      /\ "sense_pin" \in gives => at = 11
      /\ "running_timers" \in gives => at = 12
      /\ "radio" \in gives => at = 13
      /\ "main_loop" \notin gives
  BY <1>2, SwitchedOnBy
<1>8. uses \subseteq ready
  <2>1. CASE at = 6
    <3>1. uses = {"device_name", "peers"}
      BY <2>1, CallsUse
    <3> QED BY <1>5, <2>1, <3>1 DEF SetUp
  <2>2. CASE at = 9
    <3>1. uses = {"preferred_parameters"}
      BY <2>2, CallsUse
    <3> QED BY <1>5, <2>2, <3>1 DEF SetUp
  <2>3. CASE at # 6 /\ at # 9
    <3>1. at \in (1 .. 5) \cup (7 .. 8) \cup (10 .. 13)
      BY <1>2, <2>3
    <3>2. uses = {}
      BY <3>1, CallsUse
    <3> QED BY <3>2
  <2> QED BY <2>1, <2>2, <2>3
<1> HIDE DEF gives, uses
<1>9. NothingMissed'
  BY <1>3, <1>5, <1>8 DEF NothingMissed
<1>10. ready \subseteq ready' /\ gives \subseteq ready'
  BY <1>4
<1>11. SetUp'
  BY <1>2, <1>5, <1>6, <1>10 DEF SetUp
<1>12. /\ "flash_operations" \in ready' => "flash_operations" \in ready \cup gives
       /\ "receiver" \in ready' => "receiver" \in ready \cup gives
       /\ "sense_pin" \in ready' => "sense_pin" \in ready \cup gives
       /\ "running_timers" \in ready' => "running_timers" \in ready \cup gives
       /\ "radio" \in ready' => "radio" \in ready \cup gives
       /\ "main_loop" \in ready' => "main_loop" \in ready \cup gives \/ at = 13
  BY <1>4
<1>13. SwitchedOn'
  BY <1>2, <1>5, <1>7, <1>12 DEF SwitchedOn
<1> QED BY <1>2, <1>9, <1>11, <1>13 DEF StartInv

LEMMA Interrupts ==
  ASSUME StartInv, NEW name \in DOMAIN Handlers, Handler(name)
  PROVE  StartInv'
<1>1. at' = at /\ missed' = missed \cup (Handlers[name].uses \ ready)
  BY DEF Handler, Use
<1>2. ready' = ready \cup IF name = "in_pin_handler" THEN {"running_timers"}
                                                     ELSE {}
  BY DEF Handler
<1>3. at \in 1 .. 14 /\ SetUp /\ SwitchedOn /\ missed = {}
  BY DEF StartInv, NothingMissed
<1>4. PICK thing \in ready : thing \in Handlers[name].on
  BY DEF Handler
<1>5. /\ Handlers[name].uses \subseteq ready
      /\ name = "in_pin_handler" => at > 11
  <2>1. CASE name = "uart_event_handler"
    <3>1. thing = "receiver" /\ Handlers[name].uses = {"hids", "buffer"}
      BY <1>4, <2>1 DEF Handlers, OnWord, On
    <3>2. "hids" \in ready /\ "buffer" \in ready
      BY <1>3, <1>4, <3>1 DEF SetUp, SwitchedOn
    <3> QED BY <2>1, <3>1, <3>2
  <2>2. CASE name = "in_pin_handler"
    <3>1. thing = "sense_pin" /\ Handlers[name].uses = {"timers"}
      BY <1>4, <2>2 DEF Handlers, OnKeyEdge, On
    <3>2. "timers" \in ready /\ at > 11
      BY <1>3, <1>4, <3>1 DEF SetUp, SwitchedOn
    <3> QED BY <3>1, <3>2
  <2>3. CASE name = "app_timer"
    <3>1. thing = "running_timers" /\ Handlers[name].uses = {"scheduler"}
      BY <1>4, <2>3 DEF Handlers, OnTimer, On
    <3>2. "scheduler" \in ready
      BY <1>3, <1>4, <3>1 DEF SetUp, SwitchedOn
    <3> QED BY <2>3, <3>1, <3>2
  <2>4. CASE name = "softdevice"
    <3>1. /\ thing = "flash_operations" \/ thing = "radio"
          /\ Handlers[name].uses = {"scheduler", "dispatch"}
      BY <1>4, <2>4 DEF Handlers, OnSoftDevice, On
    <3>2. "scheduler" \in ready /\ "dispatch" \in ready
      BY <1>3, <1>4, <3>1 DEF SetUp, SwitchedOn
    <3> QED BY <2>4, <3>1, <3>2
  <2>5. CASE name = "ble_evt_dispatch"
    <3>1. /\ thing = "main_loop"
          /\ Handlers[name].uses = {"peers", "advertising", "hids", "bas",
                                    "connection_parameters", "buffer"}
      BY <1>4, <2>5 DEF Handlers, OnDispatch, On
    <3>2. /\ "peers" \in ready /\ "advertising" \in ready /\ "hids" \in ready
          /\ "bas" \in ready /\ "connection_parameters" \in ready
          /\ "buffer" \in ready
      BY <1>3, <1>4, <3>1 DEF SetUp, SwitchedOn
    <3> QED BY <2>5, <3>1, <3>2
  <2>6. CASE name = "adc_sample"
    <3>1. thing = "main_loop" /\ Handlers[name].uses = {"adc", "bas"}
      BY <1>4, <2>6 DEF Handlers, OnMeasurement, On
    <3>2. "adc" \in ready /\ "bas" \in ready
      BY <1>3, <1>4, <3>1 DEF SetUp, SwitchedOn
    <3> QED BY <2>6, <3>1, <3>2
  <2> QED BY <2>1, <2>2, <2>3, <2>4, <2>5, <2>6 DEF Handlers
<1>6. NothingMissed'
  BY <1>1, <1>3, <1>5 DEF NothingMissed
<1>7. SetUp' /\ SwitchedOn'
  <2>1. CASE name = "in_pin_handler"
    <3>1. ready' = ready \cup {"running_timers"} /\ at > 11
      BY <1>2, <1>5, <2>1
    <3> QED BY <1>1, <1>3, <3>1 DEF SetUp, SwitchedOn
  <2>2. CASE name # "in_pin_handler"
    BY <1>1, <1>2, <1>3, <2>2 DEF SetUp, SwitchedOn
  <2> QED BY <2>1, <2>2
<1> QED BY <1>1, <1>3, <1>6, <1>7 DEF StartInv

LEMMA StartsAgain == Restart => StartInv'
BY DEF Restart, StartInv, SetUp, SwitchedOn, NothingMissed

(* NothingMissed: from any reset to the main loop, with the interrupts of  *)
(* every call that switches some on, nothing is used before it is set up   *)
(* (main.c:54-64).                                                         *)
THEOREM NothingIsMissed == ControllerSpec => []NothingMissed
<1>1. ControllerInit => StartInv
  BY DEF ControllerInit, StartInit, StartInv, SetUp, SwitchedOn, NothingMissed
<1>2. StartInv /\ [ControllerNext]_controllerVars => StartInv'
  <2> SUFFICES ASSUME StartInv, [ControllerNext]_controllerVars
               PROVE  StartInv'
    OBVIOUS
  <2>1. CASE MainCalls
    BY <2>1, Returns, StartsAgain DEF MainCalls
  <2>2. CASE Resets
    BY <2>2, StartsAgain DEF Resets
  <2>3. CASE WordReceived
    BY <2>3, Interrupts DEF WordReceived, Handlers
  <2>4. CASE OtherInterrupt
    BY <2>4, Interrupts DEF OtherInterrupt
  <2>5. CASE UNCHANGED startVars
    BY <2>5 DEF startVars, StartInv, SetUp, SwitchedOn, NothingMissed
  <2> QED BY <2>1, <2>2, <2>3, <2>4, <2>5
          DEF ControllerNext, controllerVars, Line
<1>3. StartInv => NothingMissed
  BY DEF StartInv
<1> QED BY <1>1, <1>2, <1>3, PTL DEF ControllerSpec

=============================================================================
