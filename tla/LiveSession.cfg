SPECIFICATION WorkSpec
CONSTANTS
  a = a
  b = b
  Newline = Newline
  Backspace = Backspace
  Interrupt = Interrupt
  Escape = Escape
  Sensitive <- MCSensitive
  MaxCommand = 2
  MaxPending = 2
  MaxOutput = 4
  Margin = 1
  Ids = {1, 2, 3, 4, 5, 6, 7, 8}
  NoId = 0
  Home = 0
  Paths = {1}
  Files = {2, 3}
  PageLimit = 1
  Chunks <- MCChunks
  Texts <- MCTexts
  Uses <- MCUses
  MaxClicks = 3
  MaxTyped = 3
  MaxPrinted = 1
CHECK_DEADLOCK FALSE
INVARIANTS PaneIsTruthful CaptureIsExact
PROPERTIES MetricsKeepComing EveryRequestIsAnswered
