\* Files of up to two rows, every kind of user, limits whose
\* conversion and whose products overflow in 8 bits.
\* CHECK_DEADLOCK FALSE: a spec is written once.
CONSTANTS
    alice = alice  bob = bob  wheel = wheel
    Usernames = {alice, bob}
    Groupnames = {wheel}
    PasswdRows <- Users
    GroupRows <- Groups
    MaxRows = 2
    Requests <- AllRequests
    Unset = Unset
    Malformed = Malformed
    Half = 128
    MinShares = 2
    MaxShares = 20
    SharesPerCPU = 4
    Milli = 5
    Fine = 2
    QuotaPeriod = 8
    MinQuota = 3
SPECIFICATION Spec
INVARIANTS Inv ResolvedUser RootOnlyIfNamed LimitsHold NetworkAsAsked
CHECK_DEADLOCK FALSE
