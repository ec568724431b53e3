SPECIFICATION Spec
CONSTANTS
  b1 = b1
  b2 = b2
  home = home
  away = away
  me = me
  none = none
  siteA = siteA
  siteB = siteB
  any = any
  somebody = somebody
  page = page
  Tabs <- OneTab
  Addresses <- TwoAddresses
  Account = me
  None = none
  SignedIn = FALSE
  HasTrustStore = TRUE
  BindTrust = TRUE
  Strict = FALSE
  StrictPurpose = FALSE
  TrustTtl = 1
  MaxTime = 0
  TrustedIssuers <- NoSite
  Claims <- FiveClaims
  Unbound = any
  ExpectedSubject = me
  RequiredPurpose = page
  ReceiptTtl = 0
  MaxChanges = 1
PROPERTIES
  RiskReachesEveryLoad
CHECK_DEADLOCK FALSE
