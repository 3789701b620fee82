------------------------------- MODULE Roles -------------------------------
(***************************************************************************)
(* The Config account: who is admin, signer and pauser, where fees go, and *)
(* whether the program is paused; with the nine instructions that write it *)
(* after initialize.                                                       *)
(***************************************************************************)
EXTENDS Runtime

CONSTANTS
  SignerKeys,   \* secp256k1 public keys, the zero key included
  ZERO_KEY,     \* [0u8; 64]
  NewAdmins,    \* arguments rotate_admin_role is called with
  NewPausers,   \* arguments grant/rotate_pauser_role are called with
  NewTreasuries \* arguments set_treasury is called with

ASSUME RolesAssumption ==
  /\ ZERO_KEY \in SignerKeys
  /\ NewAdmins \cup NewPausers \cup NewTreasuries \subseteq Pubkeys

VARIABLE config   \* the singleton Config account

ConfigType ==
  [exists : BOOLEAN, admin : Pubkeys, signer : SignerKeys, pauser : Pubkeys,
   treasury : Pubkeys, is_paused : BOOLEAN]

(* Before initialize the account does not exist and no instruction finds it. *)
NoConfig ==
  [exists |-> FALSE, admin |-> DEFAULT, signer |-> ZERO_KEY, pauser |-> DEFAULT,
   treasury |-> DEFAULT, is_paused |-> FALSE]

ConfigExists == Check(config.exists, "AccountNotInitialized")

AdminOnly(caller) == ConfigExists ?? Check(config.admin = caller, "Unauthorized")

AdminOrPauser(caller) ==
     ConfigExists
  ?? Check(config.admin = caller \/ config.pauser = caller, "Unauthorized")

PauseVerdict(caller) == AdminOrPauser(caller)

Pause(caller) ==
  /\ PauseVerdict(caller) = Ok
  /\ config' = [config EXCEPT !.is_paused = TRUE]

UnpauseVerdict(caller) == AdminOrPauser(caller)

Unpause(caller) ==
  /\ UnpauseVerdict(caller) = Ok
  /\ config' = [config EXCEPT !.is_paused = FALSE]

(* Mutant: the zero key is taken for a treasury. *)
SetTreasury_NoZeroCheck(caller, new_treasury) ==
  /\ AdminOnly(caller) = Ok
  /\ config' = [config EXCEPT !.treasury = new_treasury]

SetTreasury(caller, new_treasury) ==
  /\ AdminOnly(caller) ?? Check(new_treasury # DEFAULT, "ZeroTreasury") = Ok
  /\ config' = [config EXCEPT !.treasury = new_treasury]

GrantSignerRole(caller, signer) ==
  /\ AdminOnly(caller) ?? Check(signer # ZERO_KEY, "ZeroSigner") = Ok
  /\ config' = [config EXCEPT !.signer = signer]

(* Nothing tells the two apart on chain: granting replaces the signer too. *)
RotateSignerRole(caller, new_signer) == GrantSignerRole(caller, new_signer)

GrantPauserRole(caller, pauser) ==
  /\ AdminOnly(caller) ?? Check(pauser # DEFAULT, "ZeroPauser") = Ok
  /\ config' = [config EXCEPT !.pauser = pauser]

RotatePauserRole(caller, new_pauser) == GrantPauserRole(caller, new_pauser)

RotateAdminRole(caller, new_admin) ==
  /\ AdminOnly(caller) ?? Check(new_admin # DEFAULT, "ZeroAdmin") = Ok
  /\ config' = [config EXCEPT !.admin = new_admin]

PauseOrTreasuryStep ==
  \E caller \in Callers :
    \/ Pause(caller)
    \/ Unpause(caller)
    \/ \E key \in NewTreasuries : SetTreasury(caller, key)

GrantOrRotateStep ==
  \E caller \in Callers :
    \/ \E key \in SignerKeys :
         GrantSignerRole(caller, key) \/ RotateSignerRole(caller, key)
    \/ \E key \in NewPausers :
         GrantPauserRole(caller, key) \/ RotatePauserRole(caller, key)
    \/ \E key \in NewAdmins : RotateAdminRole(caller, key)

RolesStep == PauseOrTreasuryStep \/ GrantOrRotateStep

(* The part of initialize that checks and writes Config. *)
InitialRolesVerdict(params) ==
     Check(params.admin # DEFAULT, "ZeroAdmin")
  ?? Check(params.signer # ZERO_KEY, "ZeroSigner")
  ?? Check(params.pauser # DEFAULT, "ZeroPauser")
  ?? Check(params.treasury # DEFAULT, "ZeroTreasury")

InitialConfig(params) ==
  [exists |-> TRUE, admin |-> params.admin, signer |-> params.signer,
   pauser |-> params.pauser, treasury |-> params.treasury, is_paused |-> FALSE]
=============================================================================
