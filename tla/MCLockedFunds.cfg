SPECIFICATION Spec
CONSTANTS
  dflt = dflt
  adm = adm
  pau = pau
  p1 = p1
  p2 = p2
  mer = mer
  tr1 = tr1
  tr2 = tr2
  ipc = ipc
  usdc = usdc
  usdt = usdt
  zero = zero
  k1 = k1
  k2 = k2
  r1 = r1
  r2 = r2
  cfgPda = cfgPda
  profPda = profPda
  listPda = listPda
  np1 = np1
  np2 = np2
  ataP1 = ataP1
  ataMer = ataMer
  ataTr1 = ataTr1
  ataTr2 = ataTr2
  ataIpc = ataIpc
  none = none
  Pubkeys <- MCPubkeys
  DEFAULT = dflt
  Callers = {adm, pau}
  MAX_TIME = 3
  SignerKeys <- MCSignerKeys
  ZERO_KEY = zero
  NewAdmins = {}
  NewPausers = {}
  NewTreasuries = {tr2}
  BPS_DENOMINATOR = 10000
  MAX_TREASURY_BPS = 500
  MAX_IP_CREATOR_BPS = 100
  MAX_AGGREGATE_BPS = 1000
  U64_SIZE = 1000000
  RouteIds = {r1}
  RouteUpdates = {}
  MAX_ROUTES = 1
  Mints = {usdc}
  TokenUpdates = {}
  MAX_TOKENS = 1
  Payers = {p1, p2}
  Accounts <- MCAccounts
  TOKEN <- MCToken
  NONCE_PDA <- MCNoncePda
  MARKER_PDA <- MCMarkerPda
  CONFIG_PDA = cfgPda
  PROFILES_PDA = profPda
  TOKEN_LIST_PDA = listPda
  NONE = none
  NativeTxs <- ListPayments
  StableTxs = {}
  FUNDS <- MCFunds
  COUNTER_RENT = 5
  MARKER_RENT = 6
  MIN_BALANCE = 3
  MAX_QUOTE_LIFETIME_SECONDS = 1
  MAX_NONCE = 2
  DEPLOYER = adm
  InitParams <- SettleParams
INVARIANTS
  NothingLockedInProtocolPdas
