\* Uploads, complete or cut off, and what the boot loader makes of the flash then.
SPECIFICATION FairDevice
CONSTANTS
  FlashSize = 64
  SectorSize = 8
  PageLen = 4
  ExcludeStart = 16
  MaxPost = 8
  Starts <- Whole
  Lengths <- Sizes
  HeadLen = 4
  RtkAt = 5
  DefaultImage = 24
  SystemData = 8
  PinsAt = 2
  SysAddrs <- Sectors
  Before <- OldFlash
  NewImage <- NewOne
INVARIANTS
  CalibrationUntouched
  FlashAsAsked
  NoPartialPage
  BootsSelected
  DefaultSurvives
  UploadedBoots
PROPERTIES
  WrittenStays
  BootEnds
CHECK_DEADLOCK FALSE
