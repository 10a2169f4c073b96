SPECIFICATION Spec
INVARIANTS
  TasksMeasured
  NetReportRight
  CompactionsCounted
  SlicesShown
  CountsRight
CHECK_DEADLOCK FALSE
