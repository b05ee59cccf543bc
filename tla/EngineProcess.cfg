SPECIFICATION FairSpec
CONSTANTS
  r1 = r1
  r2 = r2
  s1 = s1
  s2 = s2
  f1 = f1
  f2 = f2
  Investigation <- MCInvestigations
  Stopper <- MCStoppers
  MaxConcurrency = 1
  MaxProgress = 2
  Fingerprint <- MCFingerprints
  Items = 3
  ChunkOption = 2
  FpConcurrency = 1
  Traffic <- MCTraffic
INVARIANTS
  TypeOK
  PermitsMatchInFlight
  StreamFraming
  FpPermitsMatchProbing
  EntryPerItem
PROPERTIES
  CancelledNeverReports
  PermitReturned
  StopCompletes
  AdmittedBatchAnswered
CHECK_DEADLOCK FALSE
