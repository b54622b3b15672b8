CONSTANTS
  Labels = {0, 1, 2}
  VSItems <- MCVSItems
  VSConfigs <- MCVSConfigs
  NoConfig = NoConfig
  VsVips <- MCVsVips
  MaxVS = 3
SPECIFICATION Spec
INVARIANTS TypeOK NoContestedLabel SharedByOnce
