SPECIFICATION Spec
CONSTANTS
  Capabilities = {"extraction", "retrieval"}
  MetricsOf <- MCMetricsOf
  Optional = {"citation_validity"}
  ValuesOf <- MCValuesOf
  VersionsOf <- MCVersionsOf
  MaxCases = 2
  Depths = {5, 10}
  Floors <- MCFloors
  Tolerances = {0, 2}
  Place = 4
  OwnTag = "v1"
  OtherTag = "v2"
  NoFile = NoFile
  Torn = Torn
INVARIANTS
  FloorIsKept
  TableExplainsTheExit
PROPERTIES
  PassesAgain
  EvidenceIsKept
