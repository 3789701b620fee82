SPECIFICATION FairSpec
CONSTANTS
  canonical = canonical
  devnetId = devnetId
  throwaway = throwaway
  ph = ph
  dep = dep
  k0 = k0
  k1 = k1
  ra = ra
  rm = rm
  none = none
  t1 = t1
  Terminals = {t1}
  Shells <- MCShells
  Urls = {"devnet"}
  ENV_DEVELOPMENT <- NoFile
  ENV_PRODUCTION <- NoFile
  CANONICAL_ID = canonical
  DEVNET_ID = devnetId
  ThrowawayIds = {throwaway}
  Sources <- MCSources
  PLACEHOLDER = ph
  FileKeys = {dep}
  ADMIN = dep
  INITIAL_SIGNER = k0
  INITIAL_ROUTES = {ra}
  AGENT_X402 = ra
  MERCHANT_AIFP1 = rm
  HotKeys = {k1}
  NONE = none
INVARIANTS
  TypeOK
  ReportsHold
PROPERTIES
  EveryRunEnds
  NothingIsInitializedTwice
