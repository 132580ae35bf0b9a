\* Torn writes, on eMMC.
SPECIFICATION FairSpec
CONSTANTS
  Device = "EMMC"
  MaxLuns = 1
  Configured = {0}
  TableSize = 5
  Guids = {"sys_a", "sys_b", "boot_a", "boot_b", "data"}
  Ptn <- TwoPairsPtn
  HomeGuid <- TwoPairsGuid
  InitMedia <- ActiveA
  Disturbances = {"crash", "tear"}
  DriverRepairs = TRUE
INVARIANTS
  GuidsWhole
  OneCopyValid
PROPERTY
  BootFinishes
