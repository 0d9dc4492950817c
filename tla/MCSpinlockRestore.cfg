SPECIFICATION Spec
CONSTANTS
  KernelTask = {kernel_main, packet_handler}
  UserTask = {user}
  Irq = Irq
  Locks = 2
INVARIANT
  InterruptsRestored
