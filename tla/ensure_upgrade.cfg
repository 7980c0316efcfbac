SPECIFICATION FairSpec
CONSTANTS
  Runner = {r1, r2, r3}
  WithDriver = {r1, r2}
  Reader = {c}
  InitColumns = {{}, {"hash"}, {"state"}, {"hash", "state"}}
  MaxFaults = 2
INVARIANTS EnsuredTable UpgradeSafe
PROPERTIES EventuallyEnsured
