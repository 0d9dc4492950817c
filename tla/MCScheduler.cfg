SPECIFICATION Spec
CONSTANTS
  KernelMain = KernelMain
  PacketHandler = PacketHandler
  User = {user}
  Idle = Idle
  Boot = Boot
  None = None
  MaxSleep = 2
  CacheSlots = 2
  EventSlots = 1
  PacketSlots = 1
INVARIANTS
  TypeOK
  CurrentIsExecuting
  ContextsOwned
  NoLostUserWakeup
  UserSleepHonoured
PROPERTIES
  ScheduleReturns
  RunnableRuns
  SleeperWakes
  ReaderServed
CHECK_DEADLOCK FALSE
