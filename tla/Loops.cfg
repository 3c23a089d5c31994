\* One instance of each part; the README names the bounds.
CONSTANTS
  i1 = i1
  i2 = i2
  Sweeps = {s1}
  Requests = {i1, i2}
  MaxFaults = 3
  None = None
  rep = rep
  sen1 = sen1
  sen2 = sen2
  titleA = titleA
  titleB = titleB
  titleR = titleR
  DailyLimit = 2
  MaxFails = 2
  MaxWarns = 1
  LastDay = 2
  MaxFull = 1
  Runs = {rep, sen1, sen2}
  Kind <- MCKind
  Topics <- MCTopics
  Cap = 2
  Batch = 1
  MaxEdits = 4
  Pillars = {bow, sword, stroke}
  MaxSpawns = 3
  Commands = {c1, c2}
  MaxExecs = 3
SPECIFICATION MCSpec
INVARIANTS
  FleetInv
  DaemonInv
  BacklogInv
  SomebodyDrains
  HeldByTheNewest
  ChannelsDedupe
PROPERTIES
  ApprovedIsDisabled
  RatchetHolds
  DoneStaysDone
  LateEventsAreSilent
  LoopsEnd
  StartedRunsEnd
CHECK_DEADLOCK FALSE
