SPECIFICATION Spec
CONSTANTS
    Requests = {r1, r2}
    None = None
    Sender = "smtp"
    MaxUsers = 2
    MaxLinks = 2
    MaxPw = 3
SYMMETRY Symmetry
INVARIANTS
    KeysAgree
    SignInOpens
    
    BundleRevoked
CHECK_DEADLOCK FALSE
