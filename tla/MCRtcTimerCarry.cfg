SPECIFICATION Spec
CONSTANTS
  Timer <- MCTimer
  RTC_TIMER_LPM = 0
  t1 = t1
  Thread <- MCThread
  Rtc = Rtc
  NoThread = NoThread
  Tick = 3
  Second = 1002
  Start = 999
  Horizon = 1008
  Delay <- MCDelay
  IdleTime <- MCIdleTime
CHECK_DEADLOCK FALSE
INVARIANTS Armed
