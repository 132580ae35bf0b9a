\* SwitchSlotsApp works from what PartitionDxe read.
SPECIFICATION Spec
CONSTANTS
  Device = "EMMC"
  MaxLuns = 1
  Configured = {0}
  TableSize = 3
  Guids = {"live", "idle", "data"}
  Ptn <- OneLunPtn
  HomeGuid <- OneLunGuid
  InitMedia <- FactoryNew
  Disturbances = {}
  DriverRepairs = TRUE
PROPERTY
  AlternateKeepsItsMarks
