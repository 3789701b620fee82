SPECIFICATION FairSpec
CONSTANTS
  dflt = dflt
  dep = dep
  led = led
  ph = ph
  adm = adm
  tr1 = tr1
  tr2 = tr2
  zero = zero
  k1 = k1
  ra = ra
  rm = rm
  none = none
  t1 = t1
  t2 = t2
  Pubkeys <- MCPubkeys
  DEFAULT = dflt
  Callers = {adm}
  MAX_TIME = 0
  SignerKeys = {zero, k1}
  ZERO_KEY = zero
  NewAdmins = {}
  NewPausers = {}
  NewTreasuries = {}
  BPS_DENOMINATOR = 10000
  MAX_TREASURY_BPS = 500
  MAX_IP_CREATOR_BPS = 100
  MAX_AGGREGATE_BPS = 1000
  U64_SIZE = 1000000
  RouteIds = {ra, rm}
  RouteUpdates = {}
  MAX_ROUTES = 2
  Mints = {}
  TokenUpdates = {}
  MAX_TOKENS = 1
  Terminals = {t1, t2}
  Shells <- OneShell
  ENV_PRODUCTION <- Production
  ENV_LOCAL <- NoFile
  OTHER_PARAMS <- MCParams
  PLACEHOLDER = ph
  CONSTANTS_EDITED = FALSE
  Wallets = {dep}
  FileKeys = {dep, adm}
  Flags <- Unattended
  NewAuthorities = {}
  AGENT_X402 = ra
  MERCHANT_AIFP1 = rm
  MAX_LATE = 1
  NONE = none
INVARIANTS
  ReportsHold
PROPERTIES
  PipelineKeepsDecisions
  EveryRunEnds
