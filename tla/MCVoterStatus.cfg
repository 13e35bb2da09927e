SPECIFICATION Spec
CONSTANTS
  a = a
  b = b
  c = c
  Signal = {n1, n2}
  Word = {a, b, c}
  Samples <- MCSamples
INVARIANTS
  AlarmIsExact
  DiagnosisIsExact
