SPECIFICATION Spec
CONSTANTS
  r1 = r1
  r2 = r2
  r3 = r3
  hall = hall
  annex = annex
  Request = {r1, r2, r3}
  Session = {r1, r2, r3}
  RoomId <- MCRoomId
  UserId <- MCUserId
  InitialRooms <- MCInitialRooms
  InitialBookings <- MCInitialBookings
  FirstId = 2
  Call <- MCCall
SYMMETRY RequestSymmetry
INVARIANTS
  ConflictJustified
  EventsTruthful
PROPERTIES
  CancelAuthorised
  ImplementsCalendar
CHECK_DEADLOCK FALSE
