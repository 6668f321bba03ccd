SPECIFICATION AttributionSpec
CONSTANTS
    Input <- MCInput
    Base <- MCBase
    Key <- MCKey
    Host <- MCHost
    Port <- MCPort
    NameCap = 2
    ValueCap = 2
    MaxEntries = 2
    Budget = 6
INVARIANT ScopeIsCredential
CHECK_DEADLOCK FALSE
