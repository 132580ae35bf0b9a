\* I/O errors of the disk and of the boot LUN, on UFS with one LUN between two
\* that are not configured.  The boot LUN is unset from the start: it changes
\* nothing of what is checked here.
SPECIFICATION FairSpec
CONSTANTS
  Device = "UFS"
  MaxLuns = 3
  Configured = {1}
  TableSize = 3
  Guids = {"live", "idle", "data"}
  Ptn <- MiddleLunPtn
  HomeGuid <- OneLunGuid
  InitMedia <- FactoryNoBootLun
  Disturbances = {"fault"}
  DriverRepairs = TRUE
INVARIANT
  GuidsWhole
PROPERTIES
  PrimaryFirst
  BootFinishes
