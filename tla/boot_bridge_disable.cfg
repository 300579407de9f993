SPECIFICATION PromptSpec
CONSTANTS
  TIMEOUT = 1
  Handoff <- MCHandoff
INVARIANT DisabledMeansShut
