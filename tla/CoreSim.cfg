SPECIFICATION Spec
CONSTANTS
  Attempts = {a1, a2, a3}
  Keys = {k1, k2}
  Policies = {p1}
  Held = {c1}
  Unknown = Unknown
  Nothing = Nothing
SYMMETRY MCSymmetry
INVARIANTS
  SomeCallGoesOn
  OneAnswerPerKey
  EveryChangeHasItsKey
  NoRetryFailsOnItsTwin
PROPERTY
  WritesOncePerKey
