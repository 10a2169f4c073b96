SPECIFICATION TestSpec
CONSTANTS
  DirtyBytes = 3
  BackgroundBytes = 2
  Centisecs = 7
  StartForms <- EveryForm
  StartBytes = {1, 2, 3, 4}
  StartRatios = {10, 20}
  StartCentisecs = {7, 9}
  Knobs = 2
  Faults = TRUE
  Vdexes <- MCVdexes
  Page = 4
  Align = 2
  HeaderLen = 2
INVARIANTS
  SettingsInv
  BytesRestored
  FilesJudged
  HeaderComesLast
