SPECIFICATION Spec
CONSTANTS
  Cores = {1, 2}
  N = 2
  Updates = 1
INVARIANTS TemplateFftDone
