CONSTANTS
  Ctx = {c1, c2}
  Calls <- MCTermCalls
  Preemptive = TRUE
SPECIFICATION Spec
INVARIANT OutputFaithful
