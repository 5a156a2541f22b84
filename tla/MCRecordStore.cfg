CONSTANTS
    Handles = {"a", "b"}
    NoHandle = none
    NoRecord = null
    Public = public
    MaxLifetime <- MCLifetime
    MaxRecordBytes = 2
    Offers <- MCOffers
    LocalKey <- M
    MaxRemoteCount = 3
    MaxRemoteBytes = 4
SPECIFICATION Spec
INVARIANTS TypeOK AncestryHolds NoRivals BudgetExact
PROPERTIES BatchAtomic
