SPECIFICATION FairSpec
CONSTANTS
  Alarms = {a1, a2}
  Runs = {r1, r2}
  ChanCap = 1
  MaxConfs = 3
  PromptStop = TRUE
  NoAlarm = NoAlarm
INVARIANTS TypeOK RunOkIsServed NoTornAccount NothingLostUndegraded
PROPERTIES DeliverySpec CentreRecovers AlarmsDisposedOf ReloadReturns
CHECK_DEADLOCK FALSE
