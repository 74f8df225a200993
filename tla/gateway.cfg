SPECIFICATION Spec
CONSTANTS
  Workers = {w1, w2}
  Addresses = {a1, a2}
  NoAddress = nobody
  Configured <- Chosen
  Codes = {c1, c2}
  TotpRequired = TRUE
  MaxFailed = 2
  MaxGen = 2
SYMMETRY Same
INVARIANTS SessionsPaid BannedSeesDecoy SecretsStay UpgradeEnds
INVARIANTS ProfilesConnect TrafficAsPromised
