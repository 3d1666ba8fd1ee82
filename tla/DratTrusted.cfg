SPECIFICATION PMSpec
CONSTANTS
  MaxVar = 4
  Order = 3
  Inputs <- SomeInputs
  PermFiles <- PermFilesFor
INVARIANT
  Certificate
