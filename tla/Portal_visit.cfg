SPECIFICATION Spec
CONSTANTS
  None = None
  DnsLen = 512
  MyAddr <- TheAddr
  Tables <- TheTables
  UrlParts <- TheUrlParts
  Files <- TheFiles
  Modes <- TheModes
  Settings <- TheSettings
  Users <- TheUsers
  Visits <- TheVisits
  Companions <- TheCompanions
  ArgLen = 8
  SsidLen = 2
  PassLen = 2
  UserLen = 4
  PasswordLen = 4
CHECK_DEADLOCK FALSE
INVARIANTS
  AnswersName
  OnlyWithPassword
  FormAsTyped
PROPERTIES
  VisitEnds
