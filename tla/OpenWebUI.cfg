SPECIFICATION FairSpec
CONSTANTS
  i1 = i1
  i2 = i2
  t1 = t1
  t2 = t2
  t3 = t3
  chat = chat
  Instances = {i1, i2}
  MaxCrashes = 1
  Tasks = {t1, t2}
  Items = {chat}
  item_of <- MCItemOf
  max_retries = 2
  LockTimeout = 4
  TimeoutDuration = 1
  Focuses <- MCFocuses
CHECK_DEADLOCK FALSE
INVARIANTS OpenWebUITypeOK RunningTasksAreListed OneCleaner GivesUpForTheLiving
PROPERTIES StoppedTasksEnd DoneTasksAreForgotten
