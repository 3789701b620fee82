--------------------------- MODULE RegistryProofs ---------------------------
(***************************************************************************)
(* For every route table and every token list: what the search from the    *)
(* front finds, that configure_route, disable_route and enable_route keep  *)
(* the table sound, that a successful update of the token list leaves one  *)
(* that fits its account, and what initialize makes of all three accounts. *)
(***************************************************************************)
EXTENDS Initialization, SplitMathProofs

RoutesType == profiles \in Seq(ProfileType) /\ count \in Nat

(* Every entry of the table is a profile.                                  *)
LEMMA ProfileAt ==
  ASSUME RoutesType
  PROVE  /\ Len(profiles) \in Nat /\ DOMAIN profiles = 1 .. Len(profiles)
         /\ \A i \in DOMAIN profiles : profiles[i] \in ProfileType
  BY LenProperties, ElementOfSeq DEF RoutesType

(* The search finds the first entry with the id it looks for.              *)
LEMMA RouteIndexIsFirst ==
  ASSUME RoutesType, NEW route_id, RouteExists(route_id)
  PROVE  /\ RouteIndex(route_id) \in DOMAIN profiles
         /\ profiles[RouteIndex(route_id)].route_id = route_id
         /\ \A j \in DOMAIN profiles :
              j < RouteIndex(route_id) => profiles[j].route_id # route_id
<1> DEFINE E == Entries(route_id)
<1>1. E \subseteq DOMAIN profiles /\ E # {}
  BY DEF Entries, RouteExists
<1>2. E \subseteq Nat /\ DOMAIN profiles \subseteq Nat
  BY <1>1, ProfileAt
<1>3. \E i \in E : \A j \in E : i <= j
  <2> HIDE DEF E
  <2> QED BY <1>1, <1>2, LeastNumber
<1>4. RouteIndex(route_id) \in E /\ \A j \in E : RouteIndex(route_id) <= j
  BY <1>3 DEF RouteIndex
<1>5. \A j \in DOMAIN profiles : j < RouteIndex(route_id) => j \notin E
  <2> HIDE DEF E
  <2> QED BY <1>1, <1>2, <1>4
<1> QED BY <1>4, <1>5 DEF Entries

(* A profile found by its id is a profile.                                 *)
LEMMA ProfileType_Found ==
  ASSUME RoutesType, NEW route_id, RouteExists(route_id)
  PROVE  Profile(route_id) \in ProfileType /\ Profile(route_id).route_id = route_id
  BY RouteIndexIsFirst, ProfileAt DEF Profile

-----------------------------------------------------------------------------
(* What is said of each entry of the table.                                *)
Sound(profile) ==
  /\ CapsVerdict(profile.treasury_bps, profile.ip_creator_bps) = Ok
  /\ profile.configured_at <= now

(* One entry is replaced by a sound one: the table stays sound.            *)
LEMMA ReplaceKeepsTable ==
  ASSUME RoutesType, RouteTable, NEW i \in DOMAIN profiles,
         NEW entry \in ProfileType, Sound(entry),
         profiles' = [profiles EXCEPT ![i] = entry], count' = count, now' = now
  PROVE  RoutesType' /\ RouteTable'
<1>1. /\ profiles' \in Seq(ProfileType) /\ Len(profiles') = Len(profiles)
      /\ DOMAIN profiles' = DOMAIN profiles
      /\ \A j \in DOMAIN profiles : profiles'[j] = IF j = i THEN entry ELSE profiles[j]
  BY ProfileAt, ExceptSeq, LenProperties DEF RoutesType
<1>2. \A j \in DOMAIN profiles : Sound(profiles[j])
  BY DEF RouteTable, Sound
<1>3. \A j \in DOMAIN profiles' : Sound(profiles'[j])
  BY <1>1, <1>2
<1> QED BY <1>1, <1>3 DEF RoutesType, RouteTable, Sound

LEMMA ConfigureKeepsTable ==
  ASSUME RoutesType, RouteTable, now \in Nat, now' = now,
         NEW caller, NEW update \in RouteUpdateType, ConfigureRoute(caller, update)
  PROVE  RoutesType' /\ RouteTable'
<1>1. MAX_ROUTES \in Nat
  BY RoutesAssumption
<1>2. /\ CapsVerdict(update.treasury_bps, update.ip_creator_bps) = Ok
      /\ RouteExists(update.route_id) \/ Len(profiles) < MAX_ROUTES
  BY BothSucceed DEF ConfigureRoute, UpdateRoute, AddRoute, ConfigureVerdict, Check, Ok
<1>3. CASE UpdateRoute(caller, update)
  <2> DEFINE i == RouteIndex(update.route_id)
             entry == Reconfigured(profiles[i], update)
  <2>1. i \in DOMAIN profiles /\ profiles[i] \in ProfileType
    BY <1>3, RouteIndexIsFirst, ProfileAt DEF UpdateRoute
  <2>2. entry \in ProfileType /\ Sound(entry)
    <3>1. entry \in ProfileType
      BY <1>1, <2>1 DEF Reconfigured, ProfileType, RouteUpdateType
    <3>2. /\ entry.treasury_bps = update.treasury_bps
          /\ entry.ip_creator_bps = update.ip_creator_bps
          /\ entry.configured_at = now
      BY <2>1 DEF Reconfigured, ProfileType
    <3> HIDE DEF entry
    <3> QED BY <1>2, <3>1, <3>2 DEF Sound
  <2>3. profiles' = [profiles EXCEPT ![i] = entry] /\ count' = count
    BY <1>3 DEF UpdateRoute
  <2> HIDE DEF i, entry
  <2> QED BY <2>1, <2>2, <2>3, ReplaceKeepsTable
<1>4. CASE AddRoute(caller, update)
  <2> DEFINE entry == NewProfile(update)
  <2>1. entry \in ProfileType /\ Sound(entry)
    BY <1>1, <1>2 DEF NewProfile, ProfileType, RouteUpdateType, Sound
  <2>2. profiles' = Append(profiles, entry) /\ count' = Len(profiles')
        /\ ~RouteExists(update.route_id)
    BY <1>4 DEF AddRoute
  <2> HIDE DEF entry
  <2>3. /\ profiles' \in Seq(ProfileType) /\ Len(profiles') = Len(profiles) + 1
        /\ DOMAIN profiles' = 1 .. Len(profiles) + 1
        /\ \A j \in 1 .. Len(profiles) + 1 :
             profiles'[j] = IF j = Len(profiles) + 1 THEN entry ELSE profiles[j]
    BY <2>1, <2>2, ProfileAt DEF RoutesType
  <2>4. \A j \in DOMAIN profiles : Sound(profiles[j])
    BY DEF RouteTable, Sound
  <2>5. \A j \in DOMAIN profiles' : Sound(profiles'[j])
    BY <2>1, <2>3, <2>4, ProfileAt
  <2>6. count' \in Nat /\ count' = Len(profiles') /\ count' <= MAX_ROUTES
    BY <1>1, <1>2, <2>2, <2>3, ProfileAt
  <2> QED BY <2>3, <2>5, <2>6 DEF RoutesType, RouteTable, Sound
<1> QED BY <1>3, <1>4 DEF ConfigureRoute

LEMMA ToggleKeepsTable ==
  ASSUME RoutesType, RouteTable, now \in Nat, now' = now,
         NEW caller \in Callers, NEW route_id \in RouteIds,
         NEW enabled \in BOOLEAN, SetEnabled(caller, route_id, enabled)
  PROVE  RoutesType' /\ RouteTable'
<1> DEFINE i == RouteIndex(route_id)
           entry == [profiles[i] EXCEPT !.enabled = enabled]
<1>1. RouteExists(route_id)
  BY BothSucceed DEF SetEnabled, FindRoute, Check, Ok
<1>2. i \in DOMAIN profiles /\ profiles[i] \in ProfileType
  BY <1>1, RouteIndexIsFirst, ProfileAt
<1>3. entry \in ProfileType /\ Sound(entry)
  BY <1>2 DEF ProfileType, RouteTable, Sound
<1>4. profiles' = [profiles EXCEPT ![i] = entry] /\ count' = count
  BY DEF SetEnabled
<1> HIDE DEF i, entry
<1> QED BY <1>2, <1>3, <1>4, ReplaceKeepsTable

(* Every administrative instruction on routes keeps the table sound.       *)
LEMMA RoutesStepKeepsTable ==
  ASSUME RoutesType, RouteTable, now \in Nat, now' = now, RoutesStep
  PROVE  RoutesType' /\ RouteTable'
<1>1. PICK caller \in Callers :
        \/ \E update \in RouteUpdates : ConfigureRoute(caller, update)
        \/ \E route_id \in RouteIds :
             DisableRoute(caller, route_id) \/ EnableRoute(caller, route_id)
  BY DEF RoutesStep
<1>2. CASE \E update \in RouteUpdates : ConfigureRoute(caller, update)
  BY <1>2, ConfigureKeepsTable, RoutesAssumption
<1>3. CASE \E route_id \in RouteIds :
             DisableRoute(caller, route_id) \/ EnableRoute(caller, route_id)
  <2>1. PICK route_id \in RouteIds, enabled \in BOOLEAN : SetEnabled(caller, route_id, enabled)
    BY <1>3 DEF DisableRoute, EnableRoute
  <2> QED BY <2>1, ToggleKeepsTable
<1> QED BY <1>1, <1>2, <1>3

(* The clock only makes the table older.                                   *)
LEMMA TickKeepsTable ==
  ASSUME RoutesType, RouteTable, now \in Nat, now' \in Nat, now <= now',
         UNCHANGED <<profiles, count>>
  PROVE  RoutesType' /\ RouteTable'
<1>1. \A i \in DOMAIN profiles : profiles[i].configured_at \in Nat
  BY ProfileAt DEF ProfileType
<1> QED BY <1>1 DEF RoutesType, RouteTable

(* What initialize writes: the first index whose fees exceed a cap ends    *)
(* the loop, so when it does not end early none does.                      *)
LEMMA InitialTable ==
  ASSUME NEW params, now \in Nat,
         params.route_ids \in Seq(RouteIds),
         params.treasury_bps \in Seq(Nat), params.ip_creator_bps \in Seq(Nat),
         InitialRoutesVerdict(params) = Ok, InitialCapsVerdict(params) = Ok
  PROVE  /\ InitialProfiles(params) \in Seq(ProfileType)
         /\ Len(InitialProfiles(params)) = Len(params.route_ids)
         /\ Len(params.route_ids) <= MAX_ROUTES
         /\ \A i \in DOMAIN InitialProfiles(params) : Sound(InitialProfiles(params)[i])
<1> DEFINE n == Len(params.route_ids)
           t == params.treasury_bps
           c == params.ip_creator_bps
<1>1. /\ n \in Nat /\ n <= MAX_ROUTES
      /\ DOMAIN params.route_ids = 1 .. n /\ DOMAIN t = 1 .. n /\ DOMAIN c = 1 .. n
  BY BothSucceed, LenProperties DEF InitialRoutesVerdict, Check, Ok
<1>2. \A i \in 1 .. n : params.route_ids[i] \in RouteIds /\ t[i] \in Nat /\ c[i] \in Nat
  BY <1>1, LenProperties
<1>3. \A i \in 1 .. n : CapsVerdict(t[i], c[i]) = Ok
  <2> DEFINE verdicts == [i \in 1 .. n |-> CapsVerdict(t[i], c[i])]
             bad == {i \in DOMAIN verdicts : verdicts[i] # Ok}
             first == CHOOSE i \in bad : \A j \in bad : i <= j
  <2>1. (IF bad = {} THEN Ok ELSE verdicts[first]) = Ok
    BY <1>1 DEF InitialCapsVerdict
  <2>2. bad \subseteq 1 .. n /\ bad \subseteq Nat
    BY <1>1
  <2>3. bad # {} => first \in bad
    <3> HIDE DEF bad
    <3> QED BY <2>2, LeastNumber
  <2>4. bad = {}
    <3> HIDE DEF first
    <3> QED BY <2>1, <2>3
  <2> QED BY <2>4
<1> DEFINE p == InitialProfiles(params)
<1>4. p = [i \in 1 .. n |->
             [route_id |-> params.route_ids[i], treasury_bps |-> t[i],
              ip_creator_bps |-> c[i], enabled |-> TRUE,
              configured_at |-> now, route_treasury |-> DEFAULT]]
  BY <1>1 DEF InitialProfiles
<1>5. \A i \in 1 .. n : p[i] \in ProfileType /\ Sound(p[i])
  BY <1>2, <1>3, <1>4, RuntimeAssumption DEF ProfileType, Sound
<1>6. DOMAIN p = 1 .. n
  BY <1>4
<1>7. p \in [1 .. n -> ProfileType]
  <2>1. p = [i \in 1 .. n |-> p[i]]
    BY <1>4
  <2> HIDE DEF p
  <2> QED BY <2>1, <1>5
<1> HIDE DEF p, n
<1>8. p \in Seq(ProfileType) /\ Len(p) = n
  BY <1>1, <1>6, <1>7
<1> QED BY <1>1, <1>5, <1>6, <1>8 DEF p, n

-----------------------------------------------------------------------------
(* No earlier entry has the id of entry i.                                 *)
IsFirst(i) == \A j \in DOMAIN profiles : j < i => profiles[j].route_id # profiles[i].route_id

(* The three things that can happen to a table: the first entry of an id   *)
(* is reconfigured, it is switched on or off, or an entry is appended.     *)
Reconfigures(i) ==
  \E update \in RouteUpdates :
    /\ update.route_id = profiles[i].route_id
    /\ profiles' = [profiles EXCEPT ![i] = Reconfigured(profiles[i], update)]

Toggles(i) ==
  \E enabled \in BOOLEAN :
    profiles' = [profiles EXCEPT ![i] = [profiles[i] EXCEPT !.enabled = enabled]]

LEMMA RoutesStepEffect ==
  ASSUME RoutesType, RoutesStep
  PROVE  /\ config.exists
         /\ \/ \E i \in DOMAIN profiles : IsFirst(i) /\ (Reconfigures(i) \/ Toggles(i))
            \/ \E entry : profiles' = Append(profiles, entry)
<1>1. PICK caller \in Callers :
        \/ \E update \in RouteUpdates : ConfigureRoute(caller, update)
        \/ \E route_id \in RouteIds :
             DisableRoute(caller, route_id) \/ EnableRoute(caller, route_id)
  BY DEF RoutesStep
<1>2. ASSUME AdminOnly(caller) = Ok PROVE config.exists
  BY <1>2, BothSucceed DEF AdminOnly, ConfigExists, Check, Ok
<1>3. ASSUME NEW update \in RouteUpdates, UpdateRoute(caller, update)
      PROVE  /\ config.exists
             /\ \E i \in DOMAIN profiles : IsFirst(i) /\ Reconfigures(i)
  <2>1. AdminOnly(caller) = Ok /\ RouteExists(update.route_id)
    BY <1>3, BothSucceed DEF UpdateRoute, ConfigureVerdict
  <2> DEFINE i == RouteIndex(update.route_id)
  <2>2. i \in DOMAIN profiles /\ profiles[i].route_id = update.route_id /\ IsFirst(i)
    BY <2>1, RouteIndexIsFirst DEF IsFirst
  <2>3. profiles' = [profiles EXCEPT ![i] = Reconfigured(profiles[i], update)]
    BY <1>3 DEF UpdateRoute
  <2> HIDE DEF i
  <2> QED BY <1>2, <2>1, <2>2, <2>3 DEF Reconfigures
<1>4. ASSUME NEW update \in RouteUpdates, AddRoute(caller, update)
      PROVE  config.exists /\ \E entry : profiles' = Append(profiles, entry)
  <2>1. AdminOnly(caller) = Ok
    BY <1>4, BothSucceed DEF AddRoute, ConfigureVerdict
  <2> QED BY <1>2, <1>4, <2>1 DEF AddRoute
<1>5. ASSUME NEW route_id \in RouteIds, NEW enabled \in BOOLEAN,
             SetEnabled(caller, route_id, enabled)
      PROVE  /\ config.exists
             /\ \E i \in DOMAIN profiles : IsFirst(i) /\ Toggles(i)
  <2>1. AdminOnly(caller) = Ok /\ FindRoute(route_id) = Ok
    BY <1>5, BothSucceed DEF SetEnabled
  <2>2. RouteExists(route_id)
    BY <2>1 DEF FindRoute, Check, Ok
  <2> DEFINE i == RouteIndex(route_id)
  <2>3. i \in DOMAIN profiles /\ IsFirst(i)
    BY <2>2, RouteIndexIsFirst DEF IsFirst
  <2>4. profiles' = [profiles EXCEPT ![i] = [profiles[i] EXCEPT !.enabled = enabled]]
    BY <1>5 DEF SetEnabled
  <2> HIDE DEF i
  <2> QED BY <1>2, <2>1, <2>3, <2>4 DEF Toggles
<1> QED BY <1>1, <1>3, <1>4, <1>5 DEF ConfigureRoute, DisableRoute, EnableRoute

(* The first entry of an id is the only one a step changes.                *)
LEMMA RoutesStepIsLocal ==
  ASSUME RoutesType, RoutesStep, NEW i \in DOMAIN profiles
  PROVE  /\ i \in DOMAIN profiles'
         /\ profiles'[i].route_id = profiles[i].route_id
         /\ ~IsFirst(i) => profiles'[i] = profiles[i]
         /\ \/ profiles'[i].configured_at = now
            \/ profiles'[i] = [profiles[i] EXCEPT !.enabled = profiles'[i].enabled]
         /\ profiles'[i].enabled # profiles[i].enabled =>
              profiles' = [profiles EXCEPT ![i].enabled = ~@]
<1>1. profiles[i] \in ProfileType /\ DOMAIN profiles = 1 .. Len(profiles)
      /\ Len(profiles) \in Nat
  BY ProfileAt
<1>2. profiles[i] = [profiles[i] EXCEPT !.enabled = profiles[i].enabled]
  BY <1>1 DEF ProfileType
<1>3. ASSUME NEW k \in DOMAIN profiles, IsFirst(k), Reconfigures(k)
      PROVE  /\ i \in DOMAIN profiles'
             /\ profiles'[i] = profiles[i] \/ (i = k /\ profiles'[i].configured_at = now)
             /\ profiles'[i].route_id = profiles[i].route_id
             /\ profiles'[i].enabled = profiles[i].enabled
  <2>1. PICK update \in RouteUpdates :
          profiles' = [profiles EXCEPT ![k] = Reconfigured(profiles[k], update)]
    BY <1>3 DEF Reconfigures
  <2>2. profiles[k] \in ProfileType
    BY ProfileAt
  <2>3. /\ Reconfigured(profiles[k], update).route_id = profiles[k].route_id
        /\ Reconfigured(profiles[k], update).enabled = profiles[k].enabled
        /\ Reconfigured(profiles[k], update).configured_at = now
    BY <2>2 DEF Reconfigured, ProfileType
  <2> QED BY <2>1, <2>3
<1>4. ASSUME NEW k \in DOMAIN profiles, IsFirst(k), Toggles(k)
      PROVE  /\ i \in DOMAIN profiles'
             /\ profiles'[i] = profiles[i] \/ i = k
             /\ profiles'[i].route_id = profiles[i].route_id
             /\ profiles'[i] = [profiles[i] EXCEPT !.enabled = profiles'[i].enabled]
             /\ profiles'[i].enabled # profiles[i].enabled =>
                  profiles' = [profiles EXCEPT ![i].enabled = ~@]
  <2>1. PICK enabled \in BOOLEAN :
          profiles' = [profiles EXCEPT ![k] = [profiles[k] EXCEPT !.enabled = enabled]]
    BY <1>4 DEF Toggles
  <2>2. profiles[k] \in ProfileType
    BY ProfileAt
  <2>3. CASE i # k
    BY <2>1, <2>3, <1>2
  <2>4. CASE i = k
    <3>1. profiles'[i] = [profiles[i] EXCEPT !.enabled = enabled] /\ i \in DOMAIN profiles'
      BY <2>1, <2>4
    <3>2. profiles'[i].enabled = enabled /\ profiles'[i].route_id = profiles[i].route_id
      BY <3>1, <1>1 DEF ProfileType
    <3>3. enabled # profiles[i].enabled => enabled = ~profiles[i].enabled
      BY <1>1 DEF ProfileType
    <3> QED BY <2>1, <2>4, <3>1, <3>2, <3>3
  <2> QED BY <2>3, <2>4
<1>5. ASSUME NEW entry, profiles' = Append(profiles, entry)
      PROVE  i \in DOMAIN profiles' /\ profiles'[i] = profiles[i]
  BY <1>1, <1>5
<1> QED BY <1>2, <1>3, <1>4, <1>5, RoutesStepEffect

(* No route is ever lost: what was found is found again.                   *)
LEMMA RoutesRemain ==
  ASSUME RoutesType, NEW route_id, RouteExists(route_id),
         \A i \in DOMAIN profiles :
           i \in DOMAIN profiles' /\ profiles'[i].route_id = profiles[i].route_id
  PROVE  RouteExists(route_id)'
<1>1. PICK i \in DOMAIN profiles : profiles[i].route_id = route_id
  BY DEF RouteExists, Entries
<1>2. i \in DOMAIN profiles' /\ profiles'[i].route_id = route_id
  BY <1>1
<1> QED BY <1>2 DEF RouteExists, Entries

(* configure_route leaves the route it was asked for and switches none.    *)
LEMMA ConfigureIsLocal ==
  ASSUME RoutesType, NEW caller, NEW update \in RouteUpdateType, ConfigureRoute(caller, update)
  PROVE  /\ config.exists /\ RouteExists(update.route_id)'
         /\ \A i \in DOMAIN profiles :
              /\ i \in DOMAIN profiles'
              /\ profiles'[i].route_id = profiles[i].route_id
              /\ profiles'[i].enabled = profiles[i].enabled
<1>1. config.exists
  BY BothSucceed DEF ConfigureRoute, UpdateRoute, AddRoute, ConfigureVerdict, AdminOnly,
                     ConfigExists, Check, Ok
<1>2. Len(profiles) \in Nat /\ DOMAIN profiles = 1 .. Len(profiles)
      /\ \A i \in DOMAIN profiles : profiles[i] \in ProfileType
  BY ProfileAt
<1>3. CASE UpdateRoute(caller, update)
  <2> DEFINE k == RouteIndex(update.route_id)
             entry == Reconfigured(profiles[k], update)
  <2>1. k \in DOMAIN profiles /\ profiles[k].route_id = update.route_id
    BY <1>3, RouteIndexIsFirst DEF UpdateRoute
  <2>2. entry.route_id = profiles[k].route_id /\ entry.enabled = profiles[k].enabled
    BY <1>2, <2>1 DEF Reconfigured, ProfileType
  <2>3. profiles' = [profiles EXCEPT ![k] = entry]
    BY <1>3 DEF UpdateRoute
  <2> HIDE DEF k, entry
  <2>4. /\ k \in DOMAIN profiles' /\ profiles'[k].route_id = update.route_id
        /\ \A i \in DOMAIN profiles :
             /\ i \in DOMAIN profiles'
             /\ profiles'[i].route_id = profiles[i].route_id
             /\ profiles'[i].enabled = profiles[i].enabled
    BY <2>1, <2>2, <2>3
  <2> QED BY <1>1, <2>4 DEF RouteExists, Entries
<1>4. CASE AddRoute(caller, update)
  <2> DEFINE entry == NewProfile(update)
  <2>1. profiles' = Append(profiles, entry) /\ entry.route_id = update.route_id
    BY <1>4 DEF AddRoute, NewProfile
  <2> HIDE DEF entry
  <2>2. /\ DOMAIN profiles' = 1 .. Len(profiles) + 1 /\ profiles'[Len(profiles) + 1] = entry
        /\ \A i \in 1 .. Len(profiles) : profiles'[i] = profiles[i]
    BY <2>1, <1>2 DEF RoutesType
  <2>3. Len(profiles) + 1 \in DOMAIN profiles' /\ 1 .. Len(profiles) \subseteq DOMAIN profiles'
    BY <2>2, <1>2
  <2> QED BY <1>1, <1>2, <2>1, <2>2, <2>3 DEF RouteExists, Entries
<1> QED BY <1>3, <1>4 DEF ConfigureRoute

-----------------------------------------------------------------------------
LEMMA MinOfNaturals ==
  ASSUME NEW S, S \subseteq Nat, S # {}
  PROVE  Min(S) \in S
<1>1. \E n \in S : \A m \in S : n <= m
  BY LeastNumber
<1> QED BY <1>1 DEF Min

(* Removing an element closes the gap it leaves, or changes nothing.       *)
LEMMA RemoveFirstCloses ==
  ASSUME NEW T, NEW s \in Seq(T), NEW e
  PROVE  \/ RemoveFirst(s, e) = s /\ ~Listed(s, e)
         \/ \E k \in DOMAIN s :
              /\ s[k] = e
              /\ RemoveFirst(s, e) \in Seq(T)
              /\ Len(RemoveFirst(s, e)) = Len(s) - 1
              /\ \A j \in 1 .. Len(s) - 1 :
                   RemoveFirst(s, e)[j] = IF j < k THEN s[j] ELSE s[j + 1]
<1> DEFINE I == {i \in 1 .. Len(s) : s[i] = e}
<1>1. CASE I = {}
  <2>1. RemoveFirst(s, e) = s
    BY <1>1 DEF RemoveFirst
  <2>2. ~Listed(s, e)
    BY <1>1 DEF Listed
  <2> QED BY <2>1, <2>2
<1>2. CASE I # {}
  <2>1. Min(I) \in I
    <3>1. I \subseteq Nat
      OBVIOUS
    <3> HIDE DEF I
    <3> QED BY <3>1, <1>2, MinOfNaturals
  <2>2. RemoveFirst(s, e) = RemoveAt(s, Min(I))
    BY <1>2 DEF RemoveFirst, SelectInSeq
  <2> DEFINE k == Min(I)
             front == SubSeq(s, 1, k - 1)
             back == SubSeq(s, k + 1, Len(s))
  <2>3. k \in 1 .. Len(s) /\ s[k] = e /\ k \in DOMAIN s
    BY <2>1
  <2> HIDE DEF I, k
  <2>4. RemoveAt(s, k) = front \o back
    BY DEF RemoveAt
  <2>5. /\ front \in Seq(T) /\ Len(front) = k - 1
        /\ back \in Seq(T) /\ Len(back) = Len(s) - k
        /\ \A j \in 1 .. k - 1 : front[j] = s[j]
        /\ \A j \in 1 .. Len(s) - k : back[j] = s[k + j]
        /\ Len(s) \in Nat /\ k \in Nat
    BY <2>3
  <2> HIDE DEF front, back
  <2>6. /\ front \o back \in Seq(T) /\ Len(front \o back) = Len(front) + Len(back)
        /\ \A j \in 1 .. Len(front) + Len(back) :
             (front \o back)[j] = IF j <= Len(front) THEN front[j] ELSE back[j - Len(front)]
    BY <2>5, ConcatProperties
  <2> DEFINE r == front \o back
  <2> HIDE DEF r
  <2>7. Len(r) = Len(s) - 1
    BY <2>3, <2>5, <2>6 DEF r
  <2>8. ASSUME NEW j \in 1 .. Len(s) - 1
        PROVE  r[j] = IF j < k THEN s[j] ELSE s[j + 1]
    <3>1. j \in 1 .. Len(front) + Len(back)
      BY <2>3, <2>5
    <3>2. CASE j < k
      <4>1. j \in 1 .. k - 1 /\ j <= Len(front)
        BY <3>2, <2>5
      <4> QED BY <3>1, <3>2, <4>1, <2>5, <2>6 DEF r
    <3>3. CASE ~(j < k)
      <4>1. /\ ~(j <= Len(front)) /\ j - Len(front) \in 1 .. Len(s) - k
            /\ k + (j - Len(front)) = j + 1
        BY <3>3, <2>3, <2>5
      <4> QED BY <3>1, <3>3, <4>1, <2>5, <2>6 DEF r
    <3> QED BY <3>2, <3>3
  <2> QED BY <2>2, <2>3, <2>4, <2>6, <2>7, <2>8 DEF k, r
<1> QED BY <1>1, <1>2

LEMMA RemoveFirstShortens ==
  ASSUME NEW T, NEW s \in Seq(T), NEW e
  PROVE  /\ RemoveFirst(s, e) \in Seq(T)
         /\ Len(RemoveFirst(s, e)) <= Len(s)
<1>1. Len(s) \in Nat
  BY LenProperties
<1> QED BY <1>1, RemoveFirstCloses

(* One turn of the loop keeps a list of public keys and lengthens it by at *)
(* most one, only when it pushes.                                          *)
LEMMA EditedType ==
  ASSUME NEW list \in Seq(Pubkeys), NEW update \in TokenUpdateType,
         NEW i \in 1 .. Len(update.tokens)
  PROVE  /\ Edited(list, update, i) \in Seq(Pubkeys)
         /\ Len(Edited(list, update, i)) <=
              IF NeedsSlot(list, update, i) THEN Len(list) + 1 ELSE Len(list)
<1>1. update.tokens[i] \in Pubkeys
  BY DEF TokenUpdateType
<1>2. RemoveFirst(list, update.tokens[i]) \in Seq(Pubkeys)
      /\ Len(RemoveFirst(list, update.tokens[i])) <= Len(list)
  BY RemoveFirstShortens
<1> QED BY <1>1, <1>2 DEF Edited

(* The loop is well defined: it starts from the list as stored and each    *)
(* turn edits what the turn before left.                                   *)
LEMMA EditsUnfold ==
  ASSUME NEW update \in TokenUpdateType
  PROVE  /\ Edits(update)[0] = token_list
         /\ \A i \in 1 .. Len(update.tokens) :
              Edits(update)[i] = Edited(Edits(update)[i - 1], update, i)
<1> DEFINE N == Len(update.tokens)
           Turn(f, i) == IF i = 0 THEN token_list ELSE Edited(f[i - 1], update, i)
           IsRun(f, n) == f = [i \in 0 .. n |-> Turn(f, i)]
<1>1. N \in Nat
  BY LenProperties DEF TokenUpdateType
<1>2. ASSUME NEW n \in 0 .. N, \A m \in 0 .. N : m < n => \E f : IsRun(f, m)
      PROVE  \E f : IsRun(f, n)
  <2> HIDE DEF N
  <2>1. CASE n = 0
    <3> DEFINE f == [i \in 0 .. 0 |-> token_list]
    <3>1. f = [i \in 0 .. n |-> Turn(f, i)]
      BY <2>1
    <3> QED BY <3>1
  <2>2. CASE n # 0
    <3>1. n - 1 \in 0 .. N /\ n - 1 < n /\ n \in Nat
      BY <1>1, <2>2
    <3>2. PICK f : IsRun(f, n - 1)
      BY <1>2, <3>1
    <3> DEFINE g == [i \in 0 .. n |-> IF i = n THEN Edited(f[n - 1], update, n) ELSE f[i]]
    <3>3. ASSUME NEW i \in 0 .. n PROVE g[i] = Turn(g, i)
      <4>1. CASE i = 0
        BY <4>1, <2>2, <3>1, <3>2
      <4>2. CASE i # 0
        <5>1. i - 1 \in 0 .. n - 1 /\ i - 1 # n
          BY <4>2, <3>1
        <5>2. g[i - 1] = f[i - 1]
          BY <5>1, <3>1
        <5>3. i # n => f[i] = Edited(f[i - 1], update, i)
          BY <4>2, <3>1, <3>2
        <5> QED BY <4>2, <5>2, <5>3
      <4> QED BY <4>1, <4>2
    <3> HIDE DEF Turn
    <3>4. g = [i \in 0 .. n |-> Turn(g, i)]
      BY <3>3
    <3> QED BY <3>4
  <2> QED BY <2>1, <2>2
<1>3. \E f : IsRun(f, N)
  <2> DEFINE bad == {n \in 0 .. N : ~ \E f : IsRun(f, n)}
  <2> SUFFICES ASSUME bad # {} PROVE FALSE
    BY <1>1
  <2>1. bad \subseteq Nat /\ bad \subseteq 0 .. N
    BY <1>1
  <2>2. PICK n \in bad : \A m \in bad : n <= m
    <3> HIDE DEF bad
    <3> QED BY <2>1, LeastNumber
  <2>3. ASSUME NEW m \in 0 .. N, m < n PROVE \E f : IsRun(f, m)
    <3>1. m \notin bad
      BY <2>1, <2>2, <2>3
    <3> HIDE DEF IsRun
    <3> QED BY <3>1
  <2> HIDE DEF IsRun
  <2>4. \E f : IsRun(f, n)
    BY <1>2, <2>2, <2>3
  <2> QED BY <2>2, <2>4
<1>4. IsRun(Edits(update), N)
  <2>1. Edits(update) = CHOOSE f : IsRun(f, N)
    BY DEF Edits
  <2> HIDE DEF IsRun, N
  <2> QED BY <2>1, <1>3
<1> DEFINE e == Edits(update)
<1>5. e = [i \in 0 .. N |-> Turn(e, i)]
  BY <1>4
<1> HIDE DEF e
<1>6. e[0] = token_list /\ \A i \in 1 .. N : e[i] = Edited(e[i - 1], update, i)
  <2> HIDE DEF N
  <2> QED BY <1>1, <1>5
<1> QED BY <1>6 DEF e

(* Induction over the turns: whatever the loop is given, every list it     *)
(* passes through holds public keys, and as long as each push finds room   *)
(* none outgrows the account.                                              *)
LEMMA EditsType ==
  ASSUME NEW update \in TokenUpdateType, token_list \in Seq(Pubkeys)
  PROVE  \A n \in 0 .. Len(update.tokens) :
           /\ Edits(update)[n] \in Seq(Pubkeys)
           /\ FitsWhileEdited(update) /\ Len(token_list) <= MAX_TOKENS
                => Len(Edits(update)[n]) <= MAX_TOKENS
<1> DEFINE N == Len(update.tokens)
           e == Edits(update)
           Good(n) == /\ e[n] \in Seq(Pubkeys)
                      /\ FitsWhileEdited(update) /\ Len(token_list) <= MAX_TOKENS
                           => Len(e[n]) <= MAX_TOKENS
           bad == {n \in 0 .. N : ~Good(n)}
<1>1. N \in Nat /\ DOMAIN update.tokens = 1 .. N /\ MAX_TOKENS \in Nat
  BY LenProperties, WhitelistAssumption DEF TokenUpdateType
<1>2. e[0] = token_list /\ \A i \in 1 .. N : e[i] = Edited(e[i - 1], update, i)
  BY EditsUnfold
<1> SUFFICES ASSUME bad # {} PROVE FALSE
  BY DEF bad
<1>3. bad \subseteq Nat /\ bad \subseteq 0 .. N
  BY <1>1
<1>4. PICK n \in bad : \A m \in bad : n <= m
  <2> HIDE DEF bad
  <2> QED BY <1>3, LeastNumber
<1>5. n # 0
  BY <1>2, <1>4
<1>6. n \in 1 .. N /\ n - 1 \in 0 .. N /\ n - 1 \notin bad
  BY <1>1, <1>3, <1>4, <1>5
<1>7. Good(n - 1)
  BY <1>6
<1>8. /\ e[n] \in Seq(Pubkeys)
      /\ Len(e[n]) <= IF NeedsSlot(e[n - 1], update, n)
                      THEN Len(e[n - 1]) + 1 ELSE Len(e[n - 1])
  <2> HIDE DEF N, e
  <2> QED BY <1>2, <1>6, <1>7, EditedType DEF N
<1>9. FitsWhileEdited(update) /\ NeedsSlot(e[n - 1], update, n) => Len(e[n - 1]) < MAX_TOKENS
  BY <1>1, <1>6 DEF FitsWhileEdited
<1>10. Good(n)
  <2> HIDE DEF e
  <2>1. Len(e[n]) \in Nat /\ Len(e[n - 1]) \in Nat
    BY <1>7, <1>8, LenProperties
  <2> QED BY <2>1, <1>1, <1>7, <1>8, <1>9
<1> QED BY <1>4, <1>10

(* What set_whitelisted_tokens writes.                                     *)
LEMMA WhitelistUpdateType ==
  ASSUME token_list \in Seq(Pubkeys), NEW caller \in Callers, NEW update \in TokenUpdates,
         SetWhitelistedTokens(caller, update)
  PROVE  /\ token_list' \in Seq(Pubkeys)
         /\ Len(token_list) <= MAX_TOKENS => Len(token_list') <= MAX_TOKENS
<1>1. update \in TokenUpdateType
  BY WhitelistAssumption
<1>2. FitsWhileEdited(update)
  BY BothSucceed DEF SetWhitelistedTokens, WhitelistVerdict, Check, Ok
<1>3. Len(update.tokens) \in 0 .. Len(update.tokens)
  BY <1>1, LenProperties DEF TokenUpdateType
<1>4. token_list' = Edits(update)[Len(update.tokens)]
  BY DEF SetWhitelistedTokens, NewList
<1> QED BY <1>1, <1>2, <1>3, <1>4, EditsType

(* A list without repetition: the only kind in which removing the first    *)
(* occurrence of a mint removes the mint.                                  *)
Distinct(list) == \A i, j \in DOMAIN list : list[i] = list[j] => i = j

LEMMA RemoveFirstRemoves ==
  ASSUME NEW s \in Seq(Pubkeys), Distinct(s), NEW e
  PROVE  /\ Distinct(RemoveFirst(s, e))
         /\ \A mint : Listed(RemoveFirst(s, e), mint) = (Listed(s, mint) /\ mint # e)
<1> DEFINE r == RemoveFirst(s, e)
<1>1. CASE r = s /\ ~Listed(s, e)
  BY <1>1 DEF Listed
<1>2. ASSUME NEW k \in DOMAIN s, s[k] = e, r \in Seq(Pubkeys), Len(r) = Len(s) - 1,
             \A j \in 1 .. Len(s) - 1 : r[j] = IF j < k THEN s[j] ELSE s[j + 1]
      PROVE  Distinct(r) /\ \A mint : Listed(r, mint) = (Listed(s, mint) /\ mint # e)
  <2> HIDE DEF r
  <2>1. /\ DOMAIN r = 1 .. Len(s) - 1 /\ DOMAIN s = 1 .. Len(s) /\ Len(s) \in Nat
        /\ k \in 1 .. Len(s)
    BY <1>2, LenProperties
  <2> DEFINE old(j) == IF j < k THEN j ELSE j + 1
  <2>2. \A j \in DOMAIN r : old(j) \in DOMAIN s /\ old(j) # k /\ r[j] = s[old(j)]
    BY <1>2, <2>1
  <2>3. \A i \in DOMAIN s \ {k} : \E j \in DOMAIN r : old(j) = i
    <3> SUFFICES ASSUME NEW i \in DOMAIN s \ {k} PROVE \E j \in DOMAIN r : old(j) = i
      OBVIOUS
    <3>1. CASE i < k
      <4>1. i \in DOMAIN r /\ old(i) = i
        BY <3>1, <2>1
      <4> QED BY <4>1
    <3>2. CASE ~(i < k)
      <4>1. i - 1 \in DOMAIN r /\ old(i - 1) = i
        BY <3>2, <2>1
      <4> QED BY <4>1
    <3> QED BY <3>1, <3>2
  <2>4. \A i, j \in DOMAIN r : old(i) = old(j) => i = j
    BY <2>1
  <2> HIDE DEF old
  <2>5. Distinct(r)
    BY <2>2, <2>4 DEF Distinct
  <2>6. ASSUME NEW mint PROVE Listed(r, mint) = (Listed(s, mint) /\ mint # e)
    <3>1. Listed(r, mint) => Listed(s, mint) /\ mint # e
      BY <1>2, <2>2 DEF Distinct, Listed
    <3>2. Listed(s, mint) /\ mint # e => Listed(r, mint)
      <4> SUFFICES ASSUME NEW i \in DOMAIN s, s[i] = mint, mint # e PROVE Listed(r, mint)
        BY DEF Listed
      <4>1. i \in DOMAIN s \ {k}
        BY <1>2
      <4>2. PICK j \in DOMAIN r : old(j) = i
        BY <2>3, <4>1
      <4> QED BY <2>2, <4>2 DEF Listed
    <3>3. /\ Listed(r, mint) \in BOOLEAN /\ (Listed(s, mint) /\ mint # e) \in BOOLEAN
      BY DEF Listed
    <3> QED BY <3>1, <3>2, <3>3
  <2> QED BY <2>5, <2>6
<1> QED BY <1>1, <1>2, RemoveFirstCloses

(* One turn of the loop decides about the mint it names and no other.      *)
LEMMA EditedDecides ==
  ASSUME NEW list \in Seq(Pubkeys), Distinct(list), NEW update \in TokenUpdateType,
         NEW i \in 1 .. Len(update.tokens), Len(update.tokens) = Len(update.allowed)
  PROVE  LET edited == Edited(list, update, i)
         IN  /\ Distinct(edited)
             /\ \A mint :
                  Listed(edited, mint)
                    = IF mint = update.tokens[i] THEN update.allowed[i] ELSE Listed(list, mint)
<1> DEFINE token == update.tokens[i]
           edited == Edited(list, update, i)
<1>1. token \in Pubkeys /\ update.allowed[i] \in BOOLEAN
  BY DEF TokenUpdateType
<1>2. CASE ~update.allowed[i]
  <2>1. edited = RemoveFirst(list, token)
    BY <1>2 DEF Edited, NeedsSlot
  <2> HIDE DEF edited
  <2>2. Distinct(edited) /\ \A mint : Listed(edited, mint) = (Listed(list, mint) /\ mint # token)
    BY <2>1, RemoveFirstRemoves
  <2>3. ASSUME NEW mint
        PROVE  Listed(edited, mint)
                 = IF mint = token THEN update.allowed[i] ELSE Listed(list, mint)
    <3>1. Listed(list, mint) \in BOOLEAN /\ Listed(edited, mint) \in BOOLEAN
      BY DEF Listed
    <3> QED BY <1>1, <1>2, <2>2, <3>1
  <2> QED BY <2>2, <2>3 DEF edited
<1>3. CASE update.allowed[i] /\ Listed(list, token)
  <2>1. edited = list
    BY <1>3 DEF Edited, NeedsSlot
  <2> HIDE DEF edited
  <2>2. ASSUME NEW mint
        PROVE  Listed(edited, mint)
                 = IF mint = token THEN update.allowed[i] ELSE Listed(list, mint)
    <3>1. Listed(list, mint) \in BOOLEAN
      BY DEF Listed
    <3> QED BY <1>1, <1>3, <2>1, <3>1
  <2> QED BY <2>1, <2>2 DEF edited
<1>4. CASE update.allowed[i] /\ ~Listed(list, token)
  <2>1. edited = Append(list, token)
    BY <1>4 DEF Edited, NeedsSlot
  <2>2. /\ DOMAIN list = 1 .. Len(list) /\ DOMAIN Append(list, token) = 1 .. Len(list) + 1
        /\ \A j \in 1 .. Len(list) : Append(list, token)[j] = list[j]
        /\ Append(list, token)[Len(list) + 1] = token /\ Len(list) \in Nat
    BY <1>1, AppendProperties, LenProperties
  <2> HIDE DEF edited, token
  <2>3. \A j \in 1 .. Len(list) : list[j] # token
    BY <1>4, <2>2 DEF Listed
  <2>4. Distinct(edited)
    <3> SUFFICES ASSUME NEW j \in 1 .. Len(list) + 1, NEW k \in 1 .. Len(list) + 1,
                        edited[j] = edited[k]
                 PROVE  j = k
      BY <2>1, <2>2 DEF Distinct
    <3>1. j \in 1 .. Len(list) \/ j = Len(list) + 1
      BY <2>2
    <3>2. k \in 1 .. Len(list) \/ k = Len(list) + 1
      BY <2>2
    <3> QED BY <3>1, <3>2, <2>1, <2>2, <2>3 DEF Distinct
  <2>5. ASSUME NEW mint
        PROVE  Listed(edited, mint)
                 = IF mint = token THEN update.allowed[i] ELSE Listed(list, mint)
    <3>1. mint = token => Listed(edited, mint)
      <4>1. Len(list) + 1 \in 1 .. Len(list) + 1
        BY <2>2
      <4> QED BY <4>1, <2>1, <2>2 DEF Listed
    <3>2. mint # token => (Listed(edited, mint) <=> Listed(list, mint))
      <4> SUFFICES ASSUME mint # token PROVE Listed(edited, mint) <=> Listed(list, mint)
        OBVIOUS
      <4>1. \A j \in 1 .. Len(list) + 1 : edited[j] = mint => j \in 1 .. Len(list)
        BY <2>1, <2>2
      <4>2. 1 .. Len(list) \subseteq 1 .. Len(list) + 1
        BY <2>2
      <4> QED BY <2>1, <2>2, <4>1, <4>2 DEF Listed
    <3>3. Listed(list, mint) \in BOOLEAN /\ Listed(edited, mint) \in BOOLEAN
      BY DEF Listed
    <3> QED BY <1>1, <1>4, <3>1, <3>2, <3>3
  <2> QED BY <2>4, <2>5 DEF edited, token
<1> QED BY <1>1, <1>2, <1>3, <1>4

(* Induction over the turns: after n of them the first n mints named are   *)
(* listed as the update says, every other one as before.                   *)
LEMMA EditsDecide ==
  ASSUME NEW update \in TokenUpdateType, token_list \in Seq(Pubkeys), Distinct(token_list),
         Len(update.tokens) = Len(update.allowed), Distinct(update.tokens)
  PROVE  \A n \in 0 .. Len(update.tokens) :
           /\ Distinct(Edits(update)[n])
           /\ \A mint :
                /\ \A i \in 1 .. n :
                     update.tokens[i] = mint =>
                       (Listed(Edits(update)[n], mint) = update.allowed[i])
                /\ (\A i \in 1 .. n : update.tokens[i] # mint) =>
                     (Listed(Edits(update)[n], mint) = Listed(token_list, mint))
<1> DEFINE N == Len(update.tokens)
           e == Edits(update)
           tokens == update.tokens
           Good(n) == /\ Distinct(e[n])
                      /\ \A mint :
                           /\ \A i \in 1 .. n :
                                tokens[i] = mint => (Listed(e[n], mint) = update.allowed[i])
                           /\ (\A i \in 1 .. n : tokens[i] # mint) =>
                                (Listed(e[n], mint) = Listed(token_list, mint))
           bad == {n \in 0 .. N : ~Good(n)}
<1>1. N \in Nat /\ DOMAIN tokens = 1 .. N
  BY LenProperties DEF TokenUpdateType
<1>2. e[0] = token_list /\ \A i \in 1 .. N : e[i] = Edited(e[i - 1], update, i)
  BY EditsUnfold
<1> SUFFICES ASSUME bad # {} PROVE FALSE
  BY DEF bad
<1>3. bad \subseteq Nat /\ bad \subseteq 0 .. N
  BY <1>1
<1>4. PICK n \in bad : \A m \in bad : n <= m
  <2> HIDE DEF bad
  <2> QED BY <1>3, LeastNumber
<1>5. n # 0
  BY <1>2, <1>4
<1>6. n \in 1 .. N /\ n - 1 \in 0 .. N /\ n - 1 \notin bad
  <2> HIDE DEF bad, N
  <2>1. n \in 0 .. N /\ n \in Nat
    BY <1>3, <1>4
  <2>2. n \in 1 .. N /\ n - 1 \in 0 .. N /\ ~(n <= n - 1)
    BY <2>1, <1>1, <1>5
  <2> QED BY <2>2, <1>4
<1>7. Good(n - 1)
  BY <1>6
<1>8. e[n - 1] \in Seq(Pubkeys)
  BY <1>6, EditsType
<1>9. /\ Distinct(e[n])
      /\ \A mint : Listed(e[n], mint)
                     = IF mint = tokens[n] THEN update.allowed[n] ELSE Listed(e[n - 1], mint)
  <2> HIDE DEF e, N
  <2> QED BY <1>2, <1>6, <1>7, <1>8, EditedDecides DEF N
<1>10. ASSUME NEW mint
       PROVE  /\ \A i \in 1 .. n :
                   tokens[i] = mint => (Listed(e[n], mint) = update.allowed[i])
              /\ (\A i \in 1 .. n : tokens[i] # mint) =>
                   (Listed(e[n], mint) = Listed(token_list, mint))
  <2> HIDE DEF e, N, tokens
  <2>1. n \in Nat /\ \A i \in 1 .. n : i \in 1 .. N /\ (i = n \/ i \in 1 .. n - 1)
    BY <1>1, <1>6
  <2>2. \A i \in 1 .. n : tokens[i] = tokens[n] => i = n
    BY <1>1, <1>6, <2>1 DEF Distinct, tokens
  <2>3. ASSUME NEW i \in 1 .. n, tokens[i] = mint PROVE Listed(e[n], mint) = update.allowed[i]
    BY <1>7, <1>9, <2>1, <2>2, <2>3 DEF tokens
  <2>4. ASSUME \A i \in 1 .. n : tokens[i] # mint
        PROVE  Listed(e[n], mint) = Listed(token_list, mint)
    <3>1. n \in 1 .. n /\ 1 .. n - 1 \subseteq 1 .. n
      BY <1>6, <2>1
    <3> QED BY <1>7, <1>9, <2>4, <3>1 DEF tokens
  <2> QED BY <2>3, <2>4
<1>11. Good(n)
  <2> HIDE DEF e
  <2> QED BY <1>9, <1>10
<1> QED BY <1>4, <1>11

(* An update of a list without repetition does what it is asked.           *)
LEMMA UpdateDoesAsAsked ==
  ASSUME token_list \in Seq(Pubkeys), Distinct(token_list),
         NEW caller \in Callers, NEW update \in TokenUpdates,
         WhitelistVerdict(caller, update) = Ok
  PROVE  /\ Distinct(NewList(update))
         /\ \A mint \in Pubkeys :
              LET named == {i \in DOMAIN update.tokens : update.tokens[i] = mint}
              IN  Listed(NewList(update), mint) <=>
                    IF named = {} THEN IsAllowed(mint) ELSE \A i \in named : update.allowed[i]
<1> DEFINE N == Len(update.tokens)
<1>1. update \in TokenUpdateType
  BY WhitelistAssumption
<1>2. Len(update.tokens) = Len(update.allowed) /\ Distinct(update.tokens)
  BY BothSucceed DEF WhitelistVerdict, Check, Ok, Distinct
<1>3. N \in 0 .. N /\ DOMAIN update.tokens = 1 .. N
  BY <1>1, LenProperties DEF TokenUpdateType
<1>4. /\ Distinct(NewList(update))
      /\ \A mint :
           /\ \A i \in 1 .. N :
                update.tokens[i] = mint => (Listed(NewList(update), mint) = update.allowed[i])
           /\ (\A i \in 1 .. N : update.tokens[i] # mint) =>
                (Listed(NewList(update), mint) = Listed(token_list, mint))
  BY <1>1, <1>2, <1>3, EditsDecide DEF NewList
<1>5. ASSUME NEW mint \in Pubkeys
      PROVE  LET named == {i \in DOMAIN update.tokens : update.tokens[i] = mint}
             IN  Listed(NewList(update), mint) <=>
                   IF named = {} THEN IsAllowed(mint) ELSE \A i \in named : update.allowed[i]
  <2>1. IsAllowed(mint) = Listed(token_list, mint)
    BY DEF IsAllowed, Listed
  <2> HIDE DEF N
  <2> QED BY <1>3, <1>4, <2>1
<1> QED BY <1>4, <1>5

-----------------------------------------------------------------------------
(* Once initialized, no role and not the treasury is the zero key.         *)
RolesFilled ==
  config.exists =>
    /\ config.admin # DEFAULT /\ config.pauser # DEFAULT /\ config.treasury # DEFAULT
    /\ config.signer # ZERO_KEY

(* Before initialize there are no routes, and none can be made.            *)
EmptyBeforeInitialize == ~config.exists => profiles = <<>>

(* No role instruction writes a zero key, whoever calls it.                *)
LEMMA RolesKeep ==
  ASSUME config \in ConfigType, RolesFilled, RolesStep
  PROVE  config' \in ConfigType /\ RolesFilled' /\ config'.exists = config.exists
<1>1. PICK caller \in Callers :
        \/ Pause(caller)
        \/ Unpause(caller)
        \/ \E key \in NewTreasuries : SetTreasury(caller, key)
        \/ \E key \in SignerKeys :
             GrantSignerRole(caller, key) \/ RotateSignerRole(caller, key)
        \/ \E key \in NewPausers :
             GrantPauserRole(caller, key) \/ RotatePauserRole(caller, key)
        \/ \E key \in NewAdmins : RotateAdminRole(caller, key)
  BY DEF RolesStep, PauseOrTreasuryStep, GrantOrRotateStep
<1>2. NewTreasuries \subseteq Pubkeys /\ NewPausers \subseteq Pubkeys
      /\ NewAdmins \subseteq Pubkeys
  BY RolesAssumption
<1>3. CASE Pause(caller)
  BY <1>3 DEF Pause, ConfigType, RolesFilled
<1>4. CASE Unpause(caller)
  BY <1>4 DEF Unpause, ConfigType, RolesFilled
<1>5. ASSUME NEW key \in NewTreasuries, SetTreasury(caller, key)
      PROVE  config' \in ConfigType /\ RolesFilled' /\ config'.exists = config.exists
  <2>1. key # DEFAULT
    BY <1>5, BothSucceed DEF SetTreasury, Check, Ok
  <2> QED BY <1>2, <1>5, <2>1 DEF SetTreasury, ConfigType, RolesFilled
<1>6. ASSUME NEW key \in SignerKeys, GrantSignerRole(caller, key)
      PROVE  config' \in ConfigType /\ RolesFilled' /\ config'.exists = config.exists
  <2>1. key # ZERO_KEY
    BY <1>6, BothSucceed DEF GrantSignerRole, Check, Ok
  <2> QED BY <1>6, <2>1 DEF GrantSignerRole, ConfigType, RolesFilled
<1>7. ASSUME NEW key \in NewPausers, GrantPauserRole(caller, key)
      PROVE  config' \in ConfigType /\ RolesFilled' /\ config'.exists = config.exists
  <2>1. key # DEFAULT
    BY <1>7, BothSucceed DEF GrantPauserRole, Check, Ok
  <2> QED BY <1>2, <1>7, <2>1 DEF GrantPauserRole, ConfigType, RolesFilled
<1>8. ASSUME NEW key \in NewAdmins, RotateAdminRole(caller, key)
      PROVE  config' \in ConfigType /\ RolesFilled' /\ config'.exists = config.exists
  <2>1. key # DEFAULT
    BY <1>8, BothSucceed DEF RotateAdminRole, Check, Ok
  <2> QED BY <1>2, <1>8, <2>1 DEF RotateAdminRole, ConfigType, RolesFilled
<1> QED BY <1>1, <1>3, <1>4, <1>5, <1>6, <1>7, <1>8
        DEF RotateSignerRole, RotatePauserRole

(* What initialize leaves, whatever it is given: the types, the table and  *)
(* the list within their bounds, and no vacant role.                       *)
LEMMA InitializeMakes ==
  ASSUME now \in Nat, now' = now, NEW deployer, NEW caller, NEW params \in InitParamType,
         InitializeVerdict(deployer, caller, params) = Ok, CreateSingletons(params)
  PROVE  /\ config' \in ConfigType /\ config'.exists /\ RolesFilled'
         /\ RoutesType' /\ RouteTable'
         /\ token_list' \in Seq(Pubkeys) /\ WhitelistFits'
<1>1. /\ InitialRolesVerdict(params) = Ok /\ InitialRoutesVerdict(params) = Ok
      /\ InitialTokensVerdict(params) = Ok /\ InitialCapsVerdict(params) = Ok
  BY BothSucceed DEF InitializeVerdict
<1>2. config' \in ConfigType /\ config'.exists /\ RolesFilled'
  <2>1. /\ params.admin # DEFAULT /\ params.signer # ZERO_KEY
        /\ params.pauser # DEFAULT /\ params.treasury # DEFAULT
    BY <1>1, BothSucceed DEF InitialRolesVerdict, Check, Ok
  <2> QED BY <2>1 DEF CreateSingletons, InitialConfig, InitParamType, ConfigType, RolesFilled
<1>3. RoutesType' /\ RouteTable'
  <2>1. /\ profiles' = InitialProfiles(params) /\ count' = Len(params.route_ids)
        /\ params.route_ids \in Seq(RouteIds)
        /\ params.treasury_bps \in Seq(Nat) /\ params.ip_creator_bps \in Seq(Nat)
    BY DEF CreateSingletons, InitParamType
  <2>2. /\ profiles' \in Seq(ProfileType) /\ count' = Len(profiles')
        /\ count' <= MAX_ROUTES /\ count' \in Nat
        /\ \A i \in DOMAIN profiles' : Sound(profiles'[i])
    BY <2>1, <1>1, InitialTable, LenProperties
  <2> QED BY <2>2 DEF RoutesType, RouteTable, Sound
<1>4. token_list' \in Seq(Pubkeys) /\ WhitelistFits'
  <2>1. Len(params.stablecoins) <= MAX_TOKENS
    BY <1>1, BothSucceed DEF InitialTokensVerdict, Check, Ok
  <2> QED BY <2>1 DEF CreateSingletons, InitParamType, WhitelistFits
<1> QED BY <1>2, <1>3, <1>4

=============================================================================
