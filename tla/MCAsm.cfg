SPECIFICATION Spec
CONSTANTS
    a = a  b = b  c = c  u1 = u1  u2 = u2
    Regs = {a, b, c}
    Programs <- MCPrograms
    Functions <- MCFunctions
    StepsPerInstruction = 2
    PoolSize = 2
    MaxJobs = 9
PROPERTIES
    ImplementsSync Settles
CHECK_DEADLOCK FALSE
