SPECIFICATION Spec
CONSTANTS
  instamart = instamart
  shopify = shopify
  m1 = m1
  m2 = m2
  m3 = m3
  s1 = s1
  Nil = Nil
  Connectors = {instamart, shopify}
  OAuthConnectors = {instamart}
  CredentialConnectors = {instamart}
  States = {st1}
  Keys = {k1}
  Addresses = {a1}
  MaxTokens = 1
  Missions = {m1, m2, m3}
  Sessions = {s1}
  EnvRuntime = "subscription"
  EnvConfigured = {"api", "subscription"}
  Keywords <- MCKeywords
  General = "GENERAL"
  Messages <- MCMessages
  Widening <- MCWidening
  Capabilities <- MCCapabilities
  ReadTools <- MCReadTools
  ResultTool <- MCResultTool
  Informational <- MCInformational
  CutReadable = {shopify}
  ServersOf <- MCServersOf
  Stranger = "stranger"
  AtOnce = 2
  MaxCalls = 2
  MaxEvents = 1
SYMMETRY MCSymmetry
PROPERTIES NoteIsTrue OfferedStays
CHECK_DEADLOCK FALSE
