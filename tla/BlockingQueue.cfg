\* Two producers (a simulation thread and the thread that pushes the
\* sentinel), two consumers, room for two items.
CONSTANTS
  Producers = {simulation, gui}
  Consumers = {worker1, worker2}
  Items = {snapshot, sentinel}
  NoItem = NoItem
  MaxSize = 2
SPECIFICATION Spec
INVARIANTS QueueTypeOK WakeupsPending
PROPERTIES IsLiveFifo
