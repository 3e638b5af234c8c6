SPECIFICATION Spec
CONSTANTS
    Files = {c1, c2}
    System = System
    NoFile = NoFile
    MaxArgs = 3
INVARIANTS
    ConfigHonoured
