SPECIFICATION Spec
INVARIANTS
  DecodedShown
  SamplesShown
  CallsShown
  FindGoesRound
  ChartRight
  ReportShown
  ExportComplete
  PmuEventsKept
CHECK_DEADLOCK FALSE
