SPECIFICATION FairSpec
CONSTANTS
    c1 = c1
    c2 = c2
    x = x
    NoCustomer = NoCustomer
    NoEntry = NoEntry
    Customers <- OneCustomer
    Courses <- OneCourse
    Licenses <- TwoLicenses
    Tabs = {1}
    Owner <- OfFirst
    CatalogOf <- OnlyLater
    AutoApplied <- Last
    Keyless <- Last
    PortalOn <- OneCustomer
    WithProvider <- OneCustomer
    Universal <- None
    Staff = FALSE
    SameIds = FALSE
    Overlap = FALSE
    Unheard = TRUE
INVARIANTS
    EnrollOnce
PROPERTIES
    AssignedIsActivated
    DefaultIsRealised
