\* A database that matches, or the gateway's, with two changes by other tools and a call
\* of apply(), or a change and two calls, or three calls; each change at any moment.
SPECIFICATION Spec
CONSTANTS
    MaxSteps = 3
INVARIANTS
    PlanKept NoInventedValue
PROPERTIES
    NothingLost AppliedAsRead RateCardStillPrices
\* The operator has made the calls.
CHECK_DEADLOCK FALSE
