SPECIFICATION LiveSpec
CONSTANTS
  w1 = w1
  w2 = w2
  t1 = t1
  t2 = t2
  Tasks = {t1}
  Threads = {a1}
  Main = main
  CooperativeBudget = 1
  Scenarios <- StrayScenarios
PROPERTIES
  TasksComplete
CHECK_DEADLOCK FALSE
