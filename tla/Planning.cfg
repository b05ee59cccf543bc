SPECIFICATION Spec
CONSTANTS
  Catalog <- MCCatalog
  Synthesis = "synthesis"
  GroupOf <- MCGroupOf
  SourcesOf <- MCSourcesOf
  Source = {"tax", "loan"}
  Tax = "tax"
  Requests <- MCRequests
  Foreign = "invented"
  MaxEntries = 3
  None = "none"
INVARIANTS GateSkipsStand PlannedIsAccounted FallbackCoversRequest BucketsPartition
CHECK_DEADLOCK FALSE
