SPECIFICATION StorageSpec
CONSTANTS
  Careful = TRUE
  Tidies = TRUE
  Fragile = {"key.pem", "ca.key", "sub_token"}
  MaxRotations = 1
  BlkidMisses = FALSE
  OnePassphrase = TRUE
INVARIANTS DurablyKept UnlockLoads BannerHonest
PROPERTIES ShredOnlyVaulted DataKept
