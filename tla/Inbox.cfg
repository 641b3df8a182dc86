SPECIFICATION Spec
CONSTANTS
    ann = ann
    Users = {ann}
    Events = {e1, e2}
    Recipient <- MCRecipient
    CategoryOf <- MCCategory
    Producers = {p1, p2}
    Routable = {"email", "inapp"}
    DefaultListLimit = 1
    MaxListLimit = 1
    Limits = {2}
    MaxRows = 2
    Horizon = 2
SYMMETRY Symmetry
INVARIANTS
    TypeOK
    OneRowPerEvent
    WalkIsExact
PROPERTIES
    OptOutHolds
    SecurityMailIsProtected
