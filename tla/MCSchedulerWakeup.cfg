SPECIFICATION Spec
CONSTANTS
  KernelMain = KernelMain
  PacketHandler = PacketHandler
  User = {user}
  Idle = Idle
  Boot = Boot
  None = None
  MaxSleep = 1
  CacheSlots = 1
  EventSlots = 1
  PacketSlots = 1
PROPERTY
  PacketHandled
CHECK_DEADLOCK FALSE
