SPECIFICATION LiveSpec
CONSTANTS
  SCHED_QUEUE_SIZE = 4
  APP_TIMER_OP_QUEUE_SIZE = 6
  BATTERY_LEVEL_MEAS_INTERVAL <- OneMinute
  INACTIVITY_SLEEP_DELAY <- FiveMinutes
  APP_ADV_FAST_TIMEOUT <- FastTimeout
  APP_ADV_SLOW_TIMEOUT <- SlowTimeout
  MaxSdEvents = 2
INVARIANT TypeOK
INVARIANT WakeUpNotLost
INVARIANT TimerTracksQuiet
INVARIANT CrystalReleased
PROPERTY SwitchesOffAsAllowed
PROPERTY InactivityEndsInSleep
PROPERTY EventsArePolled
