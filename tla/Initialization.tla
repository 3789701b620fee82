--------------------------- MODULE Initialization ---------------------------
(***************************************************************************)
(* The initialize instruction: the deployer whose key is in the binary     *)
(* creates the three singletons, once.                                     *)
(***************************************************************************)
EXTENDS Routes, Whitelist

InitParamType ==
  [admin : Pubkeys, signer : SignerKeys, pauser : Pubkeys, treasury : Pubkeys,
   stablecoins : Seq(Pubkeys), route_ids : Seq(RouteIds),
   treasury_bps : Seq(Nat), ip_creator_bps : Seq(Nat)]

(* Mutant: init_if_needed, so that a new deployer may start again. *)
InitializeVerdict_Reopens(deployer, caller, params) ==
     Check(caller = deployer, "InvalidDeployer")
  ?? InitialRolesVerdict(params)
  ?? InitialRoutesVerdict(params)
  ?? InitialTokensVerdict(params)
  ?? InitialCapsVerdict(params)

(* `init` refuses the three singletons when they exist, so this succeeds   *)
(* at most once in the life of the program.  Anchor creates accounts       *)
(* before it looks at the `address` of the payer.                          *)
InitializeVerdict(deployer, caller, params) ==
     Check(~config.exists, "AccountAlreadyInUse")
  ?? Check(caller = deployer, "InvalidDeployer")
  ?? Check(deployer # DEFAULT, "ZeroDeployer")
  ?? InitialRolesVerdict(params)
  ?? InitialRoutesVerdict(params)
  ?? InitialTokensVerdict(params)
  ?? InitialCapsVerdict(params)

CreateSingletons(params) ==
  /\ config' = InitialConfig(params)
  /\ profiles' = InitialProfiles(params)
  /\ count' = Len(params.route_ids)
  /\ token_list' = params.stablecoins
=============================================================================
