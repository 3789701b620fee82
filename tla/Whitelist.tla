----------------------------- MODULE Whitelist -----------------------------
(***************************************************************************)
(* The TokenList account: the vector of stablecoin mints settle_stable     *)
(* accepts, and set_whitelisted_tokens, which edits it one mint at a time. *)
(***************************************************************************)
EXTENDS Roles, SequencesExt

CONSTANTS
  Mints,         \* addresses of initialized SPL mints
  TokenUpdates,  \* arguments set_whitelisted_tokens is called with
  MAX_TOKENS     \* 16

(* tokens and allowed are the two argument vectors, remaining the accounts *)
(* passed beside them, which ought to be the mints that tokens names.      *)
TokenUpdateType ==
  [tokens : Seq(Pubkeys), allowed : Seq(BOOLEAN), remaining : Seq(Pubkeys)]

ASSUME WhitelistAssumption ==
  /\ Mints \subseteq Pubkeys \ {DEFAULT}
  /\ TokenUpdates \subseteq TokenUpdateType
  /\ MAX_TOKENS \in Nat

VARIABLE token_list   \* TokenList.tokens

(* TokenList::is_allowed *)
IsAllowed(mint) == \E i \in DOMAIN token_list : token_list[i] = mint

-----------------------------------------------------------------------------
Listed(list, mint) == \E i \in DOMAIN list : list[i] = mint

NeedsSlot(list, update, i) == update.allowed[i] /\ ~Listed(list, update.tokens[i])

(* Mutant: adding does not look whether the mint is there already. *)
Edited_NoLookup(list, update, i) ==
  IF update.allowed[i] THEN Append(list, update.tokens[i])
  ELSE RemoveFirst(list, update.tokens[i])

(* One turn of the update loop: push a mint that is missing, or remove the *)
(* first occurrence of one that is there.                                  *)
Edited(list, update, i) ==
  IF NeedsSlot(list, update, i) THEN Append(list, update.tokens[i])
  ELSE IF update.allowed[i] THEN list
  ELSE RemoveFirst(list, update.tokens[i])

(* The list before the loop and after each of its turns. *)
Edits(update) ==
  LET after[i \in 0 .. Len(update.tokens)] ==
        IF i = 0 THEN token_list ELSE Edited(after[i - 1], update, i)
  IN  after

NewList(update) == Edits(update)[Len(update.tokens)]

(* Mutant: room is checked once, before the loop. *)
FitsWhileEdited_Once(update) == Len(token_list) <= MAX_TOKENS

(* Room is looked for at each push, so the order of the update matters. *)
FitsWhileEdited(update) ==
  \A i \in DOMAIN update.tokens :
    LET before == Edits(update)[i - 1]
    IN  NeedsSlot(before, update, i) => Len(before) < MAX_TOKENS

WhitelistVerdict(caller, update) ==
     AdminOnly(caller)
  ?? Check(Len(update.tokens) = Len(update.allowed), "ArrayLengthMismatch")
  ?? Check(Len(update.tokens) <= MAX_TOKENS, "TokenListFull")
  ?? Check(Len(update.remaining) = Len(update.tokens), "ArrayLengthMismatch")
  ?? Check(\A i \in DOMAIN update.remaining :
             update.remaining[i] \in Mints /\ update.remaining[i] = update.tokens[i],
           "InvalidMint")
  ?? Check(\A i, j \in DOMAIN update.tokens :
             update.tokens[i] = update.tokens[j] => i = j, "DuplicateToken")
  ?? Check(FitsWhileEdited(update), "TokenListFull")

SetWhitelistedTokens(caller, update) ==
  /\ WhitelistVerdict(caller, update) = Ok
  /\ token_list' = NewList(update)

WhitelistStep ==
  \E caller \in Callers, update \in TokenUpdates : SetWhitelistedTokens(caller, update)

(* The part of initialize that checks and writes TokenList: the vector is  *)
(* stored as given, duplicates included, and no mint is looked at.         *)
InitialTokensVerdict(params) ==
     Check(Len(params.stablecoins) <= MAX_TOKENS, "TokenListFull")
  ?? Check(\A i \in DOMAIN params.stablecoins : params.stablecoins[i] # DEFAULT,
           "ZeroStablecoin")

-----------------------------------------------------------------------------
(* The token list never outgrows its account, whatever the order in which  *)
(* an update adds and removes.                                             *)
WhitelistFits == Len(token_list) <= MAX_TOKENS

(* set_whitelisted_tokens does what it is asked: after a successful update *)
(* exactly the mints marked allowed are accepted among those it names, and *)
(* the others are as before.                                               *)
UpdatesTakeEffect ==
  \A caller \in Callers, update \in TokenUpdates :
    WhitelistVerdict(caller, update) = Ok =>
      \A mint \in Pubkeys :
        LET named == {i \in DOMAIN update.tokens : update.tokens[i] = mint}
        IN  Listed(NewList(update), mint) <=>
              IF named = {} THEN IsAllowed(mint) ELSE \A i \in named : update.allowed[i]
=============================================================================
