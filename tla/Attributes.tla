------------------------------ MODULE Attributes ------------------------------
(***************************************************************************)
(* The attribute tables of dis_init, bas_init and gamepad_hids_init        *)
(* (my_ble_services.c:14-145): the security that the SoftDevice demands of *)
(* a link for each access of the host, and the security that pairing with  *)
(* the parameters of peer_manager_init reaches (my_ble_peer_manager.h).    *)
(*                                                                         *)
(* The attributes of a boot keyboard are not in the table: the HID service *)
(* has none (is_kb).                                                       *)
(***************************************************************************)
EXTENDS Integers

(* The macros BLE_GAP_CONN_SEC_MODE_SET_*, as the level they demand.       *)
OPEN == 1
ENC_NO_MITM == 2
ENC_WITH_MITM == 3
NO_ACCESS == 4

dis_init == [manufacturer_read |-> ENC_NO_MITM, manufacturer_write |-> NO_ACCESS,
             pnp_id_read       |-> ENC_NO_MITM, pnp_id_write       |-> NO_ACCESS]

bas_init == [level_read |-> ENC_NO_MITM, level_write |-> NO_ACCESS,
             level_cccd |-> ENC_NO_MITM]

gamepad_hids_init_Mitm ==
  [input_cccd |-> ENC_WITH_MITM, input_read |-> ENC_NO_MITM,
   map_read   |-> ENC_NO_MITM,   info_read  |-> ENC_NO_MITM]

gamepad_hids_init ==
  [input_cccd    |-> ENC_NO_MITM, input_read     |-> ENC_NO_MITM,
   input_write   |-> ENC_NO_MITM,
   map_read      |-> ENC_NO_MITM, map_write      |-> NO_ACCESS,
   info_read     |-> ENC_NO_MITM, info_write     |-> NO_ACCESS,
   protocol_read |-> ENC_NO_MITM, protocol_write |-> ENC_NO_MITM,
   control_read  |-> NO_ACCESS,   control_write  |-> ENC_NO_MITM]

Permits(level, demand) == demand # NO_ACCESS /\ demand <= level

Tables == {dis_init, bas_init, gamepad_hids_init}

(* What a host does with a gamepad.                                        *)
HostUses == {"pnp_id_read", "level_read", "level_cccd", "input_cccd",
             "input_read", "map_read", "info_read", "protocol_read",
             "protocol_write", "control_write"}

(* pm_sec_params_set accepts bonding with keys to distribute and no demand *)
(* for MITM protection that nothing can meet.                              *)
SEC_PARAM_BOND == TRUE
SEC_PARAM_MITM == FALSE
SEC_PARAM_OOB == FALSE
SEC_PARAM_IO_CAPABILITIES == "NONE"
SEC_PARAM_MIN_KEY_SIZE == 7
SEC_PARAM_MAX_KEY_SIZE == 16
KeysDistributed == {"enc", "id"}

CanAuthenticate == SEC_PARAM_OOB \/ SEC_PARAM_IO_CAPABILITIES # "NONE"

SecParamsLegal ==
  /\ SEC_PARAM_BOND <=> KeysDistributed # {}
  /\ SEC_PARAM_MITM => CanAuthenticate
  /\ SEC_PARAM_OOB => SEC_PARAM_MITM
  /\ 7 <= SEC_PARAM_MIN_KEY_SIZE
  /\ SEC_PARAM_MIN_KEY_SIZE <= SEC_PARAM_MAX_KEY_SIZE
  /\ SEC_PARAM_MAX_KEY_SIZE <= 16

(* The security of a link that was paired with these parameters.           *)
LevelOfPairing == IF SEC_PARAM_MITM THEN ENC_WITH_MITM ELSE ENC_NO_MITM

=============================================================================
