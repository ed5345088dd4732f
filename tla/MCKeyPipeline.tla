---------------------------- MODULE MCKeyPipeline ----------------------------
(* Instances of KeyPipeline for TLC.                                       *)
EXTENDS KeyPipeline

(* One bit of each byte of keypad_state: the low byte comes first.         *)
Bits == {0, 1}
NoKey == <<0, 0>>

(* A key of each byte: with both pressed or both released, a torn copy is  *)
(* neither.                                                                *)
BothOrNone == {NoKey, <<1, 1>>}

=============================================================================
