CONSTANTS
  Ctx = {c1}
  Calls <- MCNegCalls
  Preemptive = FALSE
SPECIFICATION Spec
INVARIANT OutputFaithful
