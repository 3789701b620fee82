------------------------------- MODULE Routes -------------------------------
(***************************************************************************)
(* The ProfilesIndex account: a vector of route profiles searched from the *)
(* front, with configure_route, disable_route, enable_route and quote_total. *)
(***************************************************************************)
EXTENDS Roles, SplitMath

CONSTANTS
  RouteIds,      \* 32-byte route identifiers
  RouteUpdates,  \* arguments configure_route is called with
  MAX_ROUTES     \* 32

RouteUpdateType ==
  [route_id : RouteIds, treasury_bps : Nat, ip_creator_bps : Nat,
   route_treasury : Pubkeys]

ASSUME RoutesAssumption ==
  /\ RouteUpdates \subseteq RouteUpdateType
  /\ MAX_ROUTES \in Nat

VARIABLES
  profiles,  \* ProfilesIndex.entries
  count      \* ProfilesIndex.count

ProfileType ==
  [route_id : RouteIds, treasury_bps : Nat, ip_creator_bps : Nat,
   enabled : BOOLEAN, configured_at : Nat, route_treasury : Pubkeys]

-----------------------------------------------------------------------------
Entries(route_id) == {i \in DOMAIN profiles : profiles[i].route_id = route_id}

RouteExists(route_id) == Entries(route_id) # {}

(* Mutant: the search starts at the back of the vector. *)
RouteIndex_Last(route_id) ==
  CHOOSE i \in Entries(route_id) : \A j \in Entries(route_id) : i >= j

(* iter().find(): the first entry wins, a later one with its id is shadowed. *)
RouteIndex(route_id) ==
  CHOOSE i \in Entries(route_id) : \A j \in Entries(route_id) : i <= j

Profile(route_id) == profiles[RouteIndex(route_id)]

(* find_route_profile *)
FindRoute(route_id) == Check(RouteExists(route_id), "UnknownRoute")

(* Mutant: always the global treasury. *)
EffectiveTreasury_Global(route_id) == config.treasury

EffectiveTreasury(route_id) ==
  IF Profile(route_id).route_treasury = DEFAULT
  THEN config.treasury
  ELSE Profile(route_id).route_treasury

-----------------------------------------------------------------------------
(* Mutant: configure_route trusts the fees it is given. *)
ConfigureVerdict_NoCaps(caller, update) ==
     AdminOnly(caller)
  ?? Check(RouteExists(update.route_id) \/ Len(profiles) < MAX_ROUTES, "UnknownRoute")

ConfigureVerdict(caller, update) ==
     AdminOnly(caller)
  ?? CapsVerdict(update.treasury_bps, update.ip_creator_bps)
  ?? Check(RouteExists(update.route_id) \/ Len(profiles) < MAX_ROUTES, "UnknownRoute")

(* Mutant: reconfiguring a route also enables it. *)
Reconfigured_Enables(entry, update) ==
  [entry EXCEPT !.treasury_bps = update.treasury_bps,
                !.ip_creator_bps = update.ip_creator_bps,
                !.route_treasury = update.route_treasury,
                !.configured_at = now,
                !.enabled = TRUE]

(* Mutant: the time of the change is not recorded. *)
Reconfigured_KeepsStamp(entry, update) ==
  [entry EXCEPT !.treasury_bps = update.treasury_bps,
                !.ip_creator_bps = update.ip_creator_bps,
                !.route_treasury = update.route_treasury]

(* An existing entry keeps its enabled flag. *)
Reconfigured(entry, update) ==
  [entry EXCEPT !.treasury_bps = update.treasury_bps,
                !.ip_creator_bps = update.ip_creator_bps,
                !.route_treasury = update.route_treasury,
                !.configured_at = now]

NewProfile(update) ==
  [route_id |-> update.route_id, treasury_bps |-> update.treasury_bps,
   ip_creator_bps |-> update.ip_creator_bps, enabled |-> TRUE,
   configured_at |-> now, route_treasury |-> update.route_treasury]

UpdateRoute(caller, update) ==
  /\ ConfigureVerdict(caller, update) = Ok
  /\ RouteExists(update.route_id)
  /\ profiles' = [profiles EXCEPT ![RouteIndex(update.route_id)] = Reconfigured(@, update)]
  /\ UNCHANGED count

(* Mutant: count is not kept in step with the vector. *)
AddRoute_StaleCount(caller, update) ==
  /\ ConfigureVerdict(caller, update) = Ok
  /\ ~RouteExists(update.route_id)
  /\ profiles' = Append(profiles, NewProfile(update))
  /\ UNCHANGED count

AddRoute(caller, update) ==
  /\ ConfigureVerdict(caller, update) = Ok
  /\ ~RouteExists(update.route_id)
  /\ profiles' = Append(profiles, NewProfile(update))
  /\ count' = Len(profiles')

ConfigureRoute(caller, update) == UpdateRoute(caller, update) \/ AddRoute(caller, update)

SetEnabled(caller, route_id, enabled) ==
  /\ AdminOnly(caller) ?? FindRoute(route_id) = Ok
  /\ profiles' = [profiles EXCEPT ![RouteIndex(route_id)].enabled = enabled]
  /\ UNCHANGED count

DisableRoute(caller, route_id) == SetEnabled(caller, route_id, FALSE)

EnableRoute(caller, route_id) == SetEnabled(caller, route_id, TRUE)

RoutesStep ==
  \E caller \in Callers :
    \/ \E update \in RouteUpdates : ConfigureRoute(caller, update)
    \/ \E route_id \in RouteIds : DisableRoute(caller, route_id) \/ EnableRoute(caller, route_id)

(* Mutant: the preview forgets the IP creator it is given. *)
QuoteTotalVerdict_NoCreator(gross, route_id, ip_creator) ==
     ConfigExists
  ?? Check(~config.is_paused, "ProtocolPaused")
  ?? FindRoute(route_id)
  ?? Check(Profile(route_id).enabled, "RouteDisabled")
  ?? SplitVerdict(gross, Profile(route_id), FALSE)

(* quote_total reads and writes nothing: its error, or Ok with            *)
(* Split(gross, Profile(route_id)) as its result.                         *)
QuoteTotalVerdict(gross, route_id, ip_creator) ==
     ConfigExists
  ?? Check(~config.is_paused, "ProtocolPaused")
  ?? FindRoute(route_id)
  ?? Check(Profile(route_id).enabled, "RouteDisabled")
  ?? SplitVerdict(gross, Profile(route_id), ip_creator # DEFAULT)

-----------------------------------------------------------------------------
(* The part of initialize that checks and writes ProfilesIndex: nothing    *)
(* keeps two of the initial routes from carrying the same id.              *)
InitialRoutesVerdict(params) ==
     Check(Len(params.route_ids) > 0, "UnknownRoute")
  ?? Check(/\ Len(params.route_ids) = Len(params.treasury_bps)
           /\ Len(params.route_ids) = Len(params.ip_creator_bps), "ArrayLengthMismatch")
  ?? Check(Len(params.route_ids) <= MAX_ROUTES, "UnknownRoute")

InitialCapsVerdict(params) ==
  LET verdicts == [i \in DOMAIN params.route_ids |->
                     CapsVerdict(params.treasury_bps[i], params.ip_creator_bps[i])]
      bad == {i \in DOMAIN verdicts : verdicts[i] # Ok}
  IN  IF bad = {} THEN Ok
      ELSE verdicts[CHOOSE i \in bad : \A j \in bad : i <= j]

InitialProfiles(params) ==
  [i \in DOMAIN params.route_ids |->
     [route_id |-> params.route_ids[i], treasury_bps |-> params.treasury_bps[i],
      ip_creator_bps |-> params.ip_creator_bps[i], enabled |-> TRUE,
      configured_at |-> now, route_treasury |-> DEFAULT]]

-----------------------------------------------------------------------------
(* The route table: count is the length of the vector, which stays within  *)
(* its capacity, every stored fee is within the caps and no profile is     *)
(* dated in the future.                                                    *)
RouteTable ==
  /\ count = Len(profiles) /\ count <= MAX_ROUTES
  /\ \A i \in DOMAIN profiles :
       /\ CapsVerdict(profiles[i].treasury_bps, profiles[i].ip_creator_bps) = Ok
       /\ profiles[i].configured_at <= now
=============================================================================
