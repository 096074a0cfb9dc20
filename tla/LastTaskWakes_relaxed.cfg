\* What Ordering::Relaxed alone guarantees.
SPECIFICATION Spec
CONSTANTS
    N = 2
    Strong = FALSE
INVARIANT SumComplete
