SPECIFICATION MCSpec
CONSTANTS
  \* Touch
  N = 1
  PinsOf <- MCPinsOf
  NoPin = "none"
  Threshold = 2
  MaxFail = 1
  MaxMove = 1
  MaxRefresh = 1
  MaxReport = 2
  \* Led
  Instances = {0, 1}
  Patterns <- MCPatterns
  MaxCmd = 3
  Byte = 5
  \* Inputs
  Targets = {"nordic", "silabs", "esp32"}
  Pressed <- MCPressed
  Layouts <- MCLayouts
  FieldModes = {"poll", "irq", "t2t", "none"}
  Thresholds <- MCThresholds
  AdcMax = 3
  Debounce = 3
  Wrap = 2
  MaxInput = 3
PROPERTIES
  TouchCorrect
  LedCorrect
  InputsCorrect
CHECK_DEADLOCK FALSE
