\* Three tasks per pass, stores seen in order.
SPECIFICATION FairSpec
CONSTANTS
    N = 3
    Strong = TRUE
INVARIANTS
    NoLostWakeup
    OneExtraCheck
    PassesApart
PROPERTIES
    Terminates
    ImplementsExactlyOnce
