CONSTANTS
    Fibers = {f1, f2}
    Numbers = {"1"}
    Objects = {"object"}
    MaxArgs = 2
SPECIFICATION Spec
SYMMETRY Symmetric
INVARIANTS CursorsAgree ArgumentsArrive DependantsGetResults ResultsArrive
CHECK_DEADLOCK FALSE
