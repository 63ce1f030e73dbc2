SPECIFICATION ScanSpec
CONSTANTS
  Scans <- MCScans
  SampleCounts = {1, 2}
  RetryCounts = {0, 1}
  SettleTime = 1
  MeasureTime = 8
  HostTimeout = 8
PROPERTIES
  MeasuresOnTrust
