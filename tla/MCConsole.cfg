CONSTANTS
  Ctx = {c1, c2}
  Calls <- MCCalls
  Preemptive = FALSE
SPECIFICATION Spec
INVARIANT TypeOK
INVARIANT OutputFaithful
