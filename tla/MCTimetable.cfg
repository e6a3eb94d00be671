SPECIFICATION MCSpec
CONSTANTS
  w1 = w1
  w2 = w2
  monday = monday
  tuesday = tuesday
  nine = nine
  ten = ten
  algebra = algebra
  physics = physics
  g1 = g1
  g2 = g2
  NoTime = NoTime
  NoText = NoText
  Reserved = Reserved
  Worker = {w1, w2}
  Faculties <- MCFaculties
  LessonsOf <- MCLessonsOf
  MaxFailures = 2
  WeeksAhead = 4
  Rooms <- MCRooms
  WeeklyOf <- MCWeeklyOf
  FirstDays <- MCFirstDays
  MaxMidnights = 2
  Pages <- MCPages
INVARIANTS
  SuccessMeansFilled
  RootCauseReported
  StoredIsWhole
  LessonsAsPrinted
PROPERTIES
  FillEnds
CHECK_DEADLOCK FALSE
