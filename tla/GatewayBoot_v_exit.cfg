SPECIFICATION BootSpec
CONSTANT
  MaxSignals = 1
PROPERTY
  SignalEnds
\* The process may have ended.
CHECK_DEADLOCK FALSE
