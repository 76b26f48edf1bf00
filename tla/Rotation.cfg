CONSTANTS
    Pods = {p1, p2}
    MaxPw = 2
    None = None
SPECIFICATION FairSpec
INVARIANTS TypeOK OnlyKnownPasswords SuccessIsLasting KeepsServing
PROPERTY RestartsRecover
