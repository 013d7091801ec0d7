\* Two pushing threads, three functors, one descriptor besides the eventfd.
CONSTANTS
  Threads = {th1, th2}
  Tasks = {t1, t2, t3}
  NoTask = NoTask
  IoChannels = {sock}
  Wakeup = wakeup
SPECIFICATION Spec
INVARIANTS
  TypeOK
  NoLostWakeup
  ReadSucceeds
PROPERTIES
  ImplementsTaskQueue
  IoServed
