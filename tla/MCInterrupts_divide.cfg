CONSTANTS
  Firmwares <- MCFirmwares
  Raised = {0, 3, 14, 128}
  NULL = 0
SPECIFICATION Spec
INVARIANT ExceptionsReachTheirHandlers
