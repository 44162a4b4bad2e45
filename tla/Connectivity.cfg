\* One sensor, sensors having only the passing of time in common: it polls every
\* ten minutes, in up to three minutes each, and misses four polls or is stopped.
SPECIFICATION FairSpec
CONSTANTS
  Sensors = {a}
  PollInterval <- TenMinutes
  MaxWork <- ThreeMinutes
  MaxFaults = 4
INVARIANTS
  TypeOK
  NominalIsGreen
  OneMissIsNotRed
  DownIsNotGreen
PROPERTIES
  DownTurnsRed
  UpTurnsGreen
