------------------------------ MODULE MCDeploy ------------------------------
(***************************************************************************)
(* Small instances of the deployment pipeline.                             *)
(***************************************************************************)
EXTENDS DeployPipeline

CONSTANTS
  dflt, dep, led, ph, adm, tr1, tr2,  \* keys: deployer in a file and on a Ledger
  zero, k1, ra, rm, none,
  t1, t2

MCPubkeys == {dflt, dep, led, ph, adm, tr1, tr2}

MCParams ==
  [admin |-> adm, signer |-> k1, pauser |-> adm, treasury |-> tr1, stablecoins |-> <<>>,
   route_ids |-> <<ra>>, treasury_bps |-> <<0>>, ip_creator_bps |-> <<0>>]

Flag(yes, skip_build, skip_init, skip_routes) ==
  [yes |-> yes, skip_build |-> skip_build, skip_init |-> skip_init,
   skip_routes |-> skip_routes, skip_verify |-> skip_routes]

Production ==
  [v \in {"SPLITTER_DEPLOYER", "ADMIN_PUBKEY", "TREASURY_PUBKEY", "ADMIN_KEYPAIR_PATH"} |->
     CASE v = "SPLITTER_DEPLOYER" -> dep [] v = "TREASURY_PUBKEY" -> tr1 [] OTHER -> adm]

NoFile == <<>>

(* Shells: nothing set; the deployer's keypair and a deployer to bake; a   *)
(* mistaken pair of the two.                                               *)
DeployerShell(key, path) ==
  [v \in {"SPLITTER_DEPLOYER", "DEPLOYER_KEYPAIR_PATH"} |->
     IF v = "SPLITTER_DEPLOYER" THEN key ELSE path]

MCShells == {<<>>, DeployerShell(dep, dep), DeployerShell(led, dep)}
NoShell == {<<>>}
OneShell == {DeployerShell(dep, dep)}

MCFlags ==
  {Flag(TRUE, FALSE, FALSE, FALSE), Flag(FALSE, FALSE, FALSE, FALSE),
   Flag(TRUE, TRUE, TRUE, FALSE), Flag(TRUE, FALSE, TRUE, TRUE)}
Unattended == {Flag(TRUE, FALSE, TRUE, TRUE)}
Attended == {Flag(FALSE, FALSE, FALSE, FALSE)}
=============================================================================
