SPECIFICATION Spec
CONSTANTS
  w1 = w1
  w2 = w2
  t1 = t1
  t2 = t2
  Tasks = {t1}
  Threads = {a1, a2}
  Main = main
  CooperativeBudget = 1
  Scenarios <- SafetyScenarios
SYMMETRY ThreadSymmetry
INVARIANTS
  TypeOK
  ExclusiveFrame
  TicketAccounted
  HandoffAccounted
  EventsMatch
PROPERTIES
  ExecutorResumes
  ImplementsTaskControl
