SPECIFICATION Spec
CONSTANTS
    Run = {run1, run2}
    Execution = {x1, x2, x3}
    MaxIterations = 3
INVARIANTS
    ExecutedOnce
    AnswerStands
PROPERTIES
    EveryExecutionAnswers
CHECK_DEADLOCK FALSE
