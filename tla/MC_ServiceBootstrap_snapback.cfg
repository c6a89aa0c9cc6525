\* Snapback starts before the URSM registration (spec 4.6 gates it on it).
CONSTANTS
    SpIds <- MCSpIds
    OneShotOutcomes = {TRUE}
    MaxRestarts = 1
SPECIFICATION Spec
INVARIANT SnapbackGatedOnRegistration
CHECK_DEADLOCK FALSE
