SPECIFICATION MCSpec
CONSTANTS
  q1 = q1
  q2 = q2
  q3 = q3
  p1 = p1
  p2 = p2
  c1 = c1
  c2 = c2
  s1 = s1
  s2 = s2
  t1 = t1
  g1 = g1
  g2 = g2
  g3 = g3
  Nobody = Nobody
  Request = {q1, q2, q3}
  Chat = {c1, c2}
  Student = {s1, s2}
  Teacher = {t1}
  Calls <- MCCalls
  Editor = {p1, p2}
  Pupil = {s1}
  Group = {g1, g2}
  GroupOf <- MCGroupOf
  HomeworkCalls <- MCHomeworkCalls
  MaxId = 2
  MaxMoves = 2
SYMMETRY RequestSymmetry
INVARIANTS
  OneAccountPerChat
  RoleWasHeld
  NoStandstill
  RowsBelong
  AnswersTruthful
PROPERTIES
  NobodyThrownOut
  OnlyAuthorChanges
CHECK_DEADLOCK FALSE
