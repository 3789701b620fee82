------------------------- MODULE MCOperatorScripts -------------------------
(***************************************************************************)
(* Small instances of the operators' scripts.                              *)
(***************************************************************************)
EXTENDS OperatorScripts

CONSTANTS
  canonical, devnetId, throwaway,        \* program ids
  ph, dep, k0, k1, ra, rm, none, \* keys and routes
  t1

(* lib.rs and the keypair file belong together, or the keypair file is     *)
(* still that of the devnet program.                                       *)
MCSources ==
  {[declares |-> canonical, keypair |-> canonical],
   [declares |-> canonical, keypair |-> devnetId]}

NoFile == <<>>
DeployerShell == [v \in {"SPLITTER_DEPLOYER"} |-> dep]
CanonicalShell ==
  [v \in {"SPLITTER_PROGRAM_ID", "SOLANA_RPC_URL"} |->
     IF v = "SPLITTER_PROGRAM_ID" THEN canonical ELSE "devnet"]
MCShells == {DeployerShell, CanonicalShell}
=============================================================================
