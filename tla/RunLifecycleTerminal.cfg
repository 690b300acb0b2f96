SPECIFICATION Spec
CONSTANTS
    Run = {run1, run2}
    Execution = {x1, x2, x3}
    MaxIterations = 3
PROPERTY TerminalStatesAreProtected
CHECK_DEADLOCK FALSE
