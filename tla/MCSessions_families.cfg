SPECIFICATION Spec

CONSTANTS
  f1 = f1
  f2 = f2
  q1 = q1
  q2 = q2
  q3 = q3
  q4 = q4
  q5 = q5
  Families = {f1, f2}
  Careful = {f1}
  Requests = {q1, q2, q3, q4, q5}
  FamilyOf <- ThreeAndTwo
  MaxTokens = 4
  Faults = {"dies", "half", "lost"}

SYMMETRY RequestSymmetry

INVARIANTS
  OneCurrentToken
  CarefulStaysSignedIn
  ReuseWasReuse
  EndedStaysEnded

\* The system rests when every request is done.
CHECK_DEADLOCK FALSE
