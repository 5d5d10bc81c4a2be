\* A rate controller reconfigured in flight.
SPECIFICATION Spec
CONSTANTS
  Errors <- MCErrors
  Rates <- MCRates
  Gains <- MCGains
  Default <- MCDefault
  Landed = TRUE
INVARIANTS TypeOK UndisturbedStep NoWindup NoLegacy
