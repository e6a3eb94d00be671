SPECIFICATION FairSystemSpec
CONSTANTS
  r1 = r1
  r2 = r2
  i1 = i1
  i2 = i2
  hall = hall
  cellar = cellar
  aula = aula
  Request = {r1, r2}
  Importer = {i1}
  Session = {r1, r2, i1}
  RoomId <- MCRoomId
  UserId = {1, 3, 4}
  InitialRooms = {hall, cellar}
  InitialBookings <- MCInitialBookings
  FirstId = 3
  Call <- MCCall
  ImportedRoom <- MCImportedRoom
  StaleRoom = {cellar}
  Lessons <- MCLessons
INVARIANTS
  NoDoubleBooking
  NoOrphanBooking
  SkippedForGoodReason
PROPERTIES
  ImportIsAtomic
  ImplementsSharedCalendar
  EverythingEnds
CHECK_DEADLOCK FALSE
