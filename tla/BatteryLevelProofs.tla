------------------------- MODULE BatteryLevelProofs -------------------------
(***************************************************************************)
(* The arithmetic of adc_event_handler, for any buffer of up to 64 samples *)
(* of 10 bits.                                                             *)
(*                                                                         *)
(* The 16-bit sum never wraps: after i samples it is at most 1023 * i.  So *)
(* the average has 10 bits, and its millivolts fit 16 bits.  What a        *)
(* division loses is less than its divisor; it keeps the order, and so do  *)
(* the lines of the discharge curve, which do not cross.                   *)
(***************************************************************************)
EXTENDS BatteryLevel, TLAPS

SumInv == i \in 0 .. ADC_BUFFER_SIZE /\ SumNeverWraps

(* One more sample: the only step that adds.                               *)
LEMMA AddSampleInRange == SumInv /\ AddSample => SumInv'
<1> SUFFICES ASSUME SumInv, AddSample PROVE SumInv'
  OBVIOUS
<1>1. PICK sample \in Samples :
        /\ adc_sum_value' = Sum(adc_sum_value, sample)
        /\ total' = total + sample
  BY DEF AddSample
<1>2. sample \in 0 .. 1023
  BY BatteryLevelAssumption
<1>3. i' = i + 1 /\ i \in 0 .. 63 /\ i' \in 0 .. ADC_BUFFER_SIZE
  BY BatteryLevelAssumption DEF AddSample, SumInv
<1>4. total' \in 0 .. 1023 * i' /\ 1023 * i' < 65536
  BY <1>1, <1>2, <1>3 DEF SumInv, SumNeverWraps
<1>5. adc_sum_value' = total'
  BY <1>1, <1>2, <1>3, <1>4 DEF Sum, uint16, SumInv, SumNeverWraps
<1> QED BY <1>3, <1>4, <1>5 DEF SumInv, SumNeverWraps

(* The sum of a full buffer fits 16 bits (my_battery.c:8, 20-22).          *)
THEOREM SumFits == Spec => []SumNeverWraps
<1>1. Init => SumInv
  BY BatteryLevelAssumption DEF Init, SumInv, SumNeverWraps
<1>2. SumInv /\ [Next]_vars => SumInv'
  <2>1. SumInv /\ SendLevel => SumInv'
    BY BatteryLevelAssumption DEF SendLevel, FirstSum, SumInv, SumNeverWraps
  <2>2. SumInv /\ UNCHANGED vars => SumInv'
    BY DEF vars, SumInv, SumNeverWraps
  <2> QED BY <2>1, <2>2, AddSampleInRange DEF Next
<1>3. SumInv => SumNeverWraps
  BY DEF SumInv
<1> QED BY <1>1, <1>2, <1>3, PTL DEF Spec

-----------------------------------------------------------------------------
(* What a division loses.                                                  *)
LEMMA Division ==
  ASSUME NEW a \in Nat, NEW n \in Nat \ {0}
  PROVE  /\ a \div n \in Nat
         /\ (a \div n) * n <= a /\ a <= (a \div n) * n + n - 1
<1>1. a = n * (a \div n) + (a % n) /\ a % n \in 0 .. n - 1 /\ a \div n \in Int
  OBVIOUS
<1>2. a \div n \in Nat
  OBVIOUS
<1>3. n * (a \div n) = (a \div n) * n
  BY <1>2
<1> QED BY <1>1, <1>2, <1>3

(* The thirds of a millivolt before the multiplication by 3: those of an   *)
(* average of 10 bits.                                                     *)
Thirds(sum) == (Average(sum) * 2225) \div 1023

FullSums == 0 .. 1023 * ADC_BUFFER_SIZE

LEMMA AverageRange ==
  ASSUME NEW sum \in FullSums
  PROVE  /\ sum \in Nat /\ Average(sum) \in 0 .. 1023
         /\ sum - Average(sum) * ADC_BUFFER_SIZE \in 0 .. ADC_BUFFER_SIZE - 1
<1> DEFINE n == ADC_BUFFER_SIZE
           a == Average(sum)
<1>0. n \in 1 .. 64 /\ sum \in 0 .. 1023 * n /\ a = sum \div n
  BY BatteryLevelAssumption DEF Average, FullSums
<1> HIDE DEF n, a
<1>1. a \in Nat /\ a * n <= sum /\ sum <= a * n + n - 1
  <2>1. sum \in Nat /\ n \in Nat \ {0}
    BY <1>0
  <2> QED BY <1>0, <2>1, Division
<1>2. a <= 1023
  <2>1. ASSUME 1024 <= a PROVE FALSE
    <3>1. 1024 * n <= a * n
      BY <1>0, <1>1, <2>1
    <3> QED BY <1>0, <1>1, <3>1
  <2> QED BY <1>1, <2>1
<1>3. sum - a * n \in 0 .. n - 1
  <2>1. a * n \in Int
    BY <1>0, <1>1
  <2> QED BY <1>0, <1>1, <2>1
<1> QED BY <1>0, <1>1, <1>2, <1>3 DEF a, n

LEMMA ThirdsRange ==
  ASSUME NEW sum \in FullSums
  PROVE  /\ Thirds(sum) \in 0 .. 2225
         /\ Average(sum) * 2225 - Thirds(sum) * 1023 \in 0 .. 1022
<1> DEFINE a == Average(sum)
           t == Thirds(sum)
<1>1. a \in 0 .. 1023 /\ t = (a * 2225) \div 1023
  BY AverageRange DEF Thirds
<1> HIDE DEF a, t
<1> DEFINE w == a * 2225
<1>2. w \in Nat /\ w <= 1023 * 2225 /\ t = w \div 1023
  BY <1>1
<1> HIDE DEF w
<1>3. t \in Nat /\ t * 1023 <= w /\ w <= t * 1023 + 1022
  BY <1>2
<1>4. t \in 0 .. 2225 /\ w - t * 1023 \in 0 .. 1022
  BY <1>2, <1>3
<1> QED BY <1>4 DEF a, t, w

(* What both divisions lose.                                               *)
LEMMA ConversionLoss ==
  ASSUME NEW sum \in FullSums
  PROVE  sum * 6675 - (Thirds(sum) * 3) * 1023 * ADC_BUFFER_SIZE
           \in 0 .. 10 * 1023 * ADC_BUFFER_SIZE
<1> DEFINE n == ADC_BUFFER_SIZE
           a == Average(sum)
           q == Thirds(sum)
           s == a * 2225 - q * 1023
           r == sum - a * n
<1>1. /\ n \in 1 .. 64 /\ sum \in Nat /\ a \in 0 .. 1023 /\ q \in 0 .. 2225
      /\ s \in 0 .. 1022 /\ r \in 0 .. n - 1
  BY BatteryLevelAssumption, AverageRange, ThirdsRange
<1> HIDE DEF n, a, q
<1>2. sum * 6675 - (q * 3) * 1023 * n = 3 * (s * n) + 6675 * r
  <2>1. s * n = (a * n) * 2225 - (q * n) * 1023
    BY <1>1
  <2>2. (q * 3) * 1023 * n = 3069 * (q * n)
    BY <1>1
  <2>3. sum * 6675 = 6675 * (a * n) + 6675 * r
    BY <1>1
  <2>4. a * n \in Int /\ q * n \in Int /\ r \in Int
    BY <1>1
  <2> QED BY <1>1, <2>1, <2>2, <2>3, <2>4
<1> HIDE DEF s, r
<1>3. s * n \in 0 .. 1022 * n
  BY <1>1
<1>4. 3 * (s * n) + 6675 * r \in 0 .. 10 * 1023 * n
  BY <1>1, <1>3
<1> QED BY <1>2, <1>4 DEF n, q

(* 16 bits hold the millivolts of a full buffer.                           *)
LEMMA MillivoltsFit ==
  ASSUME NEW sum \in FullSums
  PROVE  Millivolts(sum) = Thirds(sum) * 3 /\ Millivolts(sum) \in Nat
<1> DEFINE t == Thirds(sum)
<1>1. t \in 0 .. 2225
  BY ThirdsRange
<1>2. Millivolts(sum) = (t * 3) % 65536
  BY DEF Millivolts, uint16, ADC_RESULT_IN_MILLI_VOLTS, Thirds
<1> HIDE DEF t
<1>3. (t * 3) % 65536 = t * 3 /\ t * 3 \in Nat
  BY <1>1
<1> QED BY <1>2, <1>3 DEF t

(* More is measured as more.                                               *)
LEMMA MillivoltsKeepOrder ==
  ASSUME NEW x \in FullSums, NEW y \in FullSums, x <= y
  PROVE  Millivolts(x) <= Millivolts(y)
<1> DEFINE a == Average(x)
           b == Average(y)
           p == Thirds(x)
           q == Thirds(y)
<1>1. /\ x \in Nat /\ y \in Nat /\ ADC_BUFFER_SIZE \in Nat \ {0}
      /\ a \in 0 .. 1023 /\ b \in 0 .. 1023 /\ p \in 0 .. 2225 /\ q \in 0 .. 2225
  BY BatteryLevelAssumption, AverageRange, ThirdsRange
<1>2. /\ x - a * ADC_BUFFER_SIZE \in 0 .. ADC_BUFFER_SIZE - 1
      /\ y - b * ADC_BUFFER_SIZE \in 0 .. ADC_BUFFER_SIZE - 1
  BY AverageRange
<1>3. p = (a * 2225) \div 1023 /\ q = (b * 2225) \div 1023
  BY DEF Thirds
<1>4. Millivolts(x) = p * 3 /\ Millivolts(y) = q * 3
  BY MillivoltsFit
<1> HIDE DEF a, b, p, q
<1>5. a <= b
  <2> DEFINE n == ADC_BUFFER_SIZE
  <2>1. n \in Nat \ {0} /\ x - a * n \in 0 .. n - 1 /\ y - b * n \in 0 .. n - 1
    BY <1>1, <1>2
  <2>2. x \in Nat /\ y \in Nat /\ a \in Nat /\ b \in Nat
    BY <1>1
  <2> HIDE DEF n
  <2> DEFINE an == a * n
             bn == b * n
  <2>3. an \in Int /\ bn \in Int /\ x - an \in 0 .. n - 1 /\ y - bn \in 0 .. n - 1
    BY <2>1, <2>2
  <2>4. b + 1 <= a => bn + n <= an
    <3>1. b + 1 <= a => (b + 1) * n <= a * n
      BY <2>1, <2>2
    <3>2. (b + 1) * n = b * n + n
      BY <2>1, <2>2
    <3> QED BY <3>1, <3>2
  <2> HIDE DEF an, bn
  <2>5. ~(b + 1 <= a)
    BY <2>1, <2>2, <2>3, <2>4
  <2> QED BY <2>2, <2>5
<1> DEFINE v == a * 2225
           w == b * 2225
<1>6. v \in Nat /\ w \in Nat /\ v <= w /\ p = v \div 1023 /\ q = w \div 1023
  BY <1>1, <1>3, <1>5
<1> HIDE DEF v, w
<1>7. p <= q
  BY <1>6
<1> QED BY <1>1, <1>4, <1>7

-----------------------------------------------------------------------------
(* The percentage, one straight line at a time: the lines do not cross.    *)
LEMMA LevelOnLines ==
  ASSUME NEW mv \in Nat
  PROVE  LET level_of == battery_level_in_percent(mv) IN
         /\ mv >= 3000 => level_of = 100
         /\ mv > 2900 /\ mv < 3000 =>
              level_of = 100 - ((3000 - mv) * 58) \div 100 /\ level_of \in 43 .. 100
         /\ mv > 2740 /\ mv <= 2900 =>
              level_of = 42 - ((2900 - mv) * 24) \div 160 /\ level_of \in 19 .. 42
         /\ mv > 2440 /\ mv <= 2740 =>
              level_of = 18 - ((2740 - mv) * 12) \div 300 /\ level_of \in 7 .. 18
         /\ mv > 2100 /\ mv <= 2440 =>
              level_of = 6 - ((2440 - mv) * 6) \div 340 /\ level_of \in 1 .. 6
         /\ mv <= 2100 => level_of = 0
<1> DEFINE p == battery_level_in_percent(mv)
<1>1. CASE mv >= 3000
  BY <1>1 DEF battery_level_in_percent
<1>2. CASE mv > 2900 /\ mv < 3000
  BY <1>2 DEF battery_level_in_percent
<1>3. CASE mv > 2740 /\ mv <= 2900
  BY <1>3 DEF battery_level_in_percent
<1>4. CASE mv > 2440 /\ mv <= 2740
  BY <1>4 DEF battery_level_in_percent
<1>5. CASE mv > 2100 /\ mv <= 2440
  BY <1>5 DEF battery_level_in_percent
<1>6. CASE mv <= 2100
  BY <1>6 DEF battery_level_in_percent
<1> QED BY <1>1, <1>2, <1>3, <1>4, <1>5, <1>6

LEMMA LevelType ==
  ASSUME NEW mv \in Nat
  PROVE  battery_level_in_percent(mv) \in 0 .. 100
<1> DEFINE p == battery_level_in_percent(mv)
<1>1. /\ mv >= 3000 => p = 100
      /\ mv > 2900 /\ mv < 3000 => p \in 43 .. 100
      /\ mv > 2740 /\ mv <= 2900 => p \in 19 .. 42
      /\ mv > 2440 /\ mv <= 2740 => p \in 7 .. 18
      /\ mv > 2100 /\ mv <= 2440 => p \in 1 .. 6
      /\ mv <= 2100 => p = 0
  BY LevelOnLines
<1> HIDE DEF p
<1>2. p \in 0 .. 100
  BY <1>1
<1> QED BY <1>2 DEF p

LEMMA LevelKeepsOrder ==
  ASSUME NEW x \in Nat, NEW y \in Nat, x <= y
  PROVE  battery_level_in_percent(x) <= battery_level_in_percent(y)
<1> DEFINE p == battery_level_in_percent(x)
           q == battery_level_in_percent(y)
<1> SUFFICES p <= q
  OBVIOUS
<1>1. /\ x >= 3000 => p = 100
      /\ x > 2900 /\ x < 3000 => p \in 43 .. 100
      /\ x > 2740 /\ x <= 2900 => p \in 19 .. 42
      /\ x > 2440 /\ x <= 2740 => p \in 7 .. 18
      /\ x > 2100 /\ x <= 2440 => p \in 1 .. 6
      /\ x <= 2100 => p = 0
  BY LevelOnLines
<1>2. /\ y >= 3000 => q = 100
      /\ y > 2900 /\ y < 3000 => q \in 43 .. 100
      /\ y > 2740 /\ y <= 2900 => q \in 19 .. 42
      /\ y > 2440 /\ y <= 2740 => q \in 7 .. 18
      /\ y > 2100 /\ y <= 2440 => q \in 1 .. 6
      /\ y <= 2100 => q = 0
  BY LevelOnLines
<1>3. CASE x > 2900 /\ y < 3000
  <2>1. p = 100 - ((3000 - x) * 58) \div 100 /\ q = 100 - ((3000 - y) * 58) \div 100
    BY <1>3, LevelOnLines
  <2> HIDE DEF p, q
  <2> QED BY <1>3, <2>1
<1>4. CASE x > 2740 /\ y <= 2900
  <2>1. p = 42 - ((2900 - x) * 24) \div 160 /\ q = 42 - ((2900 - y) * 24) \div 160
    BY <1>4, LevelOnLines
  <2> HIDE DEF p, q
  <2> QED BY <1>4, <2>1
<1>5. CASE x > 2440 /\ y <= 2740
  <2>1. p = 18 - ((2740 - x) * 12) \div 300 /\ q = 18 - ((2740 - y) * 12) \div 300
    BY <1>5, LevelOnLines
  <2> HIDE DEF p, q
  <2> QED BY <1>5, <2>1
<1>6. CASE x > 2100 /\ y <= 2440
  <2>1. p = 6 - ((2440 - x) * 6) \div 340 /\ q = 6 - ((2440 - y) * 6) \div 340
    BY <1>6, LevelOnLines
  <2> HIDE DEF p, q
  <2> QED BY <1>6, <2>1
<1> HIDE DEF p, q
<1> QED BY <1>1, <1>2, <1>3, <1>4, <1>5, <1>6

-----------------------------------------------------------------------------
(* The sum of a full buffer, and the level sent for one.                   *)
LevelInv ==
  /\ SumInv
  /\ level_total # -1 =>
       /\ level_total \in FullSums
       /\ level = battery_level_in_percent(Millivolts(level_total))

LEMMA InitLevel == Init => LevelInv
BY BatteryLevelAssumption DEF Init, LevelInv, SumInv, SumNeverWraps

LEMMA SentLevel ==
  ASSUME SumInv, SendLevel
  PROVE  /\ total \in FullSums /\ level_total' = total
         /\ level' = battery_level_in_percent(Millivolts(total))
BY DEF SendLevel, SumInv, SumNeverWraps, FullSums

LEMMA NextLevel == LevelInv /\ [Next]_vars => LevelInv'
<1> SUFFICES ASSUME LevelInv, [Next]_vars PROVE LevelInv'
  OBVIOUS
<1>1. CASE AddSample
  <2>1. SumInv'
    BY <1>1, AddSampleInRange DEF LevelInv
  <2> QED BY <1>1, <2>1 DEF AddSample, LevelInv
<1>2. CASE SendLevel
  <2>1. SumInv'
    BY <1>2, BatteryLevelAssumption DEF LevelInv, SendLevel, FirstSum, SumInv,
       SumNeverWraps
  <2> QED BY <1>2, <2>1, SentLevel DEF LevelInv
<1>3. CASE UNCHANGED vars
  BY <1>3 DEF vars, LevelInv, SumInv, SumNeverWraps
<1> QED BY <1>1, <1>2, <1>3 DEF Next

(* Both divisions together lose at most 10 mV (my_battery.c:25, 28 and     *)
(* my_battery.h:10-13), for any buffer of up to 64 samples.                *)
THEOREM ConversionIsPrecise == Spec => []LosesAtMostTenMillivolts
<1>1. LevelInv => LosesAtMostTenMillivolts
  <2> SUFFICES ASSUME LevelInv, i = ADC_BUFFER_SIZE
               PROVE  total * 6675 - Millivolts(total) * 1023 * ADC_BUFFER_SIZE
                        \in 0 .. 10 * 1023 * ADC_BUFFER_SIZE
    BY DEF LosesAtMostTenMillivolts, LevelInv, SumInv, SumNeverWraps
  <2>1. total \in FullSums
    BY DEF LevelInv, SumInv, SumNeverWraps, FullSums
  <2>2. Millivolts(total) = Thirds(total) * 3
    BY <2>1, MillivoltsFit
  <2> QED BY <2>1, <2>2, ConversionLoss
<1> QED BY <1>1, InitLevel, NextLevel, PTL DEF Spec

(* A higher voltage never shows as a lower level (my_battery.c:20-31), for *)
(* any two buffers of samples.                                             *)
THEOREM LevelIsMonotone == Spec => LevelFollowsVoltage
<1>1. LevelInv /\ [Next]_vars =>
        [SendLevel /\ level_total # -1 =>
           /\ total >= level_total => level' >= level
           /\ total <= level_total => level' <= level]_vars
  <2> SUFFICES ASSUME LevelInv, SendLevel, level_total # -1
               PROVE  /\ total >= level_total => level' >= level
                      /\ total <= level_total => level' <= level
    OBVIOUS
  <2> DEFINE x == level_total
             y == total
             p == Millivolts(level_total)
             q == Millivolts(total)
  <2>1. /\ x \in FullSums /\ y \in FullSums
        /\ level = battery_level_in_percent(p)
        /\ level' = battery_level_in_percent(q)
    BY SentLevel DEF LevelInv
  <2>2. p \in Nat /\ q \in Nat /\ x \in Nat /\ y \in Nat
    BY <2>1, MillivoltsFit, AverageRange
  <2>3. (x <= y => p <= q) /\ (y <= x => q <= p)
    BY <2>1, MillivoltsKeepOrder
  <2> HIDE DEF p, q
  <2>4. (x <= y => level <= level') /\ (y <= x => level' <= level)
    BY <2>1, <2>2, <2>3, LevelKeepsOrder
  <2>5. level \in Int /\ level' \in Int
    BY <2>1, <2>2, LevelType
  <2> QED BY <2>2, <2>4, <2>5
<1> QED BY <1>1, InitLevel, NextLevel, PTL DEF Spec, LevelFollowsVoltage

=============================================================================
