SPECIFICATION Spec
CONSTANTS
  Consumers = {r1, r2, r3}
  Producers = {w1, w2}
  MaxData = 2
  SpinThreads = {t1, t2}
  SpinWrites = 2
  NoThread = NoThread
  RcuReaders = {r1}
  RcuWriters = {w1, w2}
  RcuEntries = 2
  RcuInitial = 1
  Loader = Loader
  Drivers <- AllDrivers
  MaxDetections = 2
  MaxOpens = 2
  Bytes = 3
  Width = 2
  Faults = 2
  Turns = 1
  Callers = {t1, t2, t3}
  MaxValue = 4
INVARIANTS
  ExercisesTypeOK
  BlockDebt
  BlockSleepersWoken
  SpinWhole
  SpinReadOnce
  RcuWalkable
  RcuNoneLost
  RcuNoneLeaked
  NothingOutlives
  LedsHeld
  LampOut
  LampAgrees
  SensorGate
  DhtShowsSent
  DhtInBounds
  MotorInStep
  CounterExact
PROPERTIES
  BlockReadReturns
  ExitEnds
CHECK_DEADLOCK FALSE
