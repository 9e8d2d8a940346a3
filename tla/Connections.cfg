CONSTANTS
  Socket = {s1, s2}
  Client = {c1, c2}
  User = {u1}
  Room = {r1}
  RedisConnected = TRUE
  MaxPublish = 2
  None = None
SPECIFICATION FairSpec
INVARIANTS NothingLeftBehind BooksBalance LostOnlyByReuse RoomHearsInFull
PROPERTIES PublishedFinish
CHECK_DEADLOCK FALSE
