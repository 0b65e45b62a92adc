SPECIFICATION MCSpec
CONSTANTS
  k1 = k1
  k2 = k2
  r1 = r1
  r2 = r2
  r3 = r3
  r4 = r4
  Keys = {k1, k2}
  Records = {r1, r2, r4}
  KeyOf <- MCKeyOf
  None = None
  NoQuery = NoQuery
INVARIANT
  AnswersFresh
