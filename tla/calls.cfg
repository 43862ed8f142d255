SPECIFICATION Spec
CONSTANTS
    GatewayCall = {g1, g2}
    Providers = {p1, p2}
    None = None
    Defaults = Defaults
SYMMETRY Symmetry
CHECK_DEADLOCK FALSE
INVARIANTS
    DecisionsComply
    SpendingIsBounded
    EventTellsTheCall
PROPERTIES
    UseIsMetered
