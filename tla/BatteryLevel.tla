---------------------------- MODULE BatteryLevel ----------------------------
(***************************************************************************)
(* The arithmetic of adc_event_handler (my_battery.c:6-43) and of          *)
(* ADC_RESULT_IN_MILLI_VOLTS (my_battery.h:10-13), with the widths of its  *)
(* variables: samples are added one by one to a uint16_t, their average is *)
(* turned into millivolts, also a uint16_t, and these into percent.        *)
(***************************************************************************)
EXTENDS Integers

CONSTANTS
  ADC_BUFFER_SIZE,
  Samples           \* the values the converter gives

ASSUME BatteryLevelAssumption ==
  /\ ADC_BUFFER_SIZE \in 1 .. 64
  /\ Samples \subseteq 0 .. 1023

VARIABLES
  i,                \* samples of the buffer added
  adc_sum_value,
  total,            \* history: their sum, not cut to 16 bits
  level,            \* percent sent last
  level_total       \* history: the total it was computed from, -1 if none

vars == <<i, adc_sum_value, total, level, level_total>>

uint16(n) == n % 65536

ADC_RESULT_IN_MILLI_VOLTS_DivideFirst(v) == ((v \div 1023) * 2225) * 3

ADC_RESULT_IN_MILLI_VOLTS(v) == ((v * 2225) \div 1023) * 3

(* battery_level_in_percent of the SDK: straight lines between voltages.   *)
battery_level_in_percent(mv) ==
  CASE mv >= 3000 -> 100
    [] mv > 2900 /\ mv < 3000 -> 100 - ((3000 - mv) * 58) \div 100
    [] mv > 2740 /\ mv <= 2900 -> 42 - ((2900 - mv) * 24) \div 160
    [] mv > 2440 /\ mv <= 2740 -> 18 - ((2740 - mv) * 12) \div 300
    [] mv > 2100 /\ mv <= 2440 -> 6 - ((2440 - mv) * 6) \div 340
    [] mv <= 2100 -> 0

Average(sum) == sum \div ADC_BUFFER_SIZE
Millivolts(sum) == uint16(ADC_RESULT_IN_MILLI_VOLTS(Average(sum)))

Init ==
  /\ i = 0 /\ adc_sum_value = 0 /\ total = 0
  /\ level = 100 /\ level_total = -1

Sum_Byte(sum, sample) == (sum + sample) % 256

Sum(sum, sample) == uint16(sum + sample)

AddSample ==
  /\ i < ADC_BUFFER_SIZE
  /\ \E sample \in Samples :
       /\ adc_sum_value' = Sum(adc_sum_value, sample)
       /\ total' = total + sample
  /\ i' = i + 1
  /\ UNCHANGED <<level, level_total>>

(* The local variable starts anew with every buffer.                       *)
FirstSum_Kept == adc_sum_value

FirstSum == 0

SendLevel ==
  /\ i = ADC_BUFFER_SIZE
  /\ level' = battery_level_in_percent(Millivolts(adc_sum_value))
  /\ level_total' = total
  /\ i' = 0 /\ adc_sum_value' = FirstSum /\ total' = 0

Next == AddSample \/ SendLevel

Spec == Init /\ [][Next]_vars

-----------------------------------------------------------------------------
(* The sum of a full buffer fits 16 bits, for any buffer of the size       *)
(* assumed (my_battery.c:8, 20-22).                                        *)
SumNeverWraps == adc_sum_value = total /\ total \in 0 .. 1023 * i

(* Both divisions together lose less than 10 mV of the voltage measured,   *)
(* which is total * 2225 * 3 / (1023 * ADC_BUFFER_SIZE).                   *)
LosesAtMostTenMillivolts ==
  i = ADC_BUFFER_SIZE =>
    total * 6675 - Millivolts(adc_sum_value) * 1023 * ADC_BUFFER_SIZE
      \in 0 .. 10 * 1023 * ADC_BUFFER_SIZE

(* A higher voltage never shows as a lower level.                          *)
LevelFollowsVoltage ==
  [][SendLevel /\ level_total # -1 =>
       /\ total >= level_total => level' >= level
       /\ total <= level_total => level' <= level]_vars

=============================================================================
