\* Crashes between any two steps, on UFS with two LUNs and one
\* that is not configured.
SPECIFICATION FairSpec
CONSTANTS
  Device = "UFS"
  MaxLuns = 3
  Configured = {1, 2}
  TableSize = 7
  Guids = {"live", "idle", "data"}
  Ptn <- UfsPtn
  HomeGuid <- UfsGuid
  InitMedia <- UfsMedia
  Disturbances = {"crash"}
  DriverRepairs = TRUE
INVARIANTS
  TypeOK
  
  
PROPERTIES
  ImplementsSlotSwitch
  BootFinishes
