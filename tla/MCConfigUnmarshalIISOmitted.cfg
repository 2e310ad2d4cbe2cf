CONSTANTS
    IISDefault <- MCIISDefault
    IISUserVal = "user"
    Omitted = Omitted
    UserPath = "/host/proc"
    UserRules = "rules"
    Nil = Nil

SPECIFICATION Spec



INVARIANT IISDefaultsWhenOmitted
