SPECIFICATION FairSpec
CONSTANTS
  Timer <- MCTimer
  RTC_TIMER_LPM = 0
  t1 = t1
  Thread <- MCThread
  Rtc = Rtc
  NoThread = NoThread
  Tick = 3
  Second = 1002
  Start = 1000
  Horizon = 1005
  Delay <- MCDelay
  IdleTime <- MCIdleTime
CHECK_DEADLOCK FALSE
INVARIANTS ArmedWithinSecond NearIsExpired
PROPERTIES Handled
