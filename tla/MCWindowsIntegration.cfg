CONSTANTS
    rt1 = rt1
    rt2 = rt2
    rt3 = rt3
    Routers <- MCRouters
    NoRoute = NoRoute

SPECIFICATION Spec

\* Once Run has returned and no handler could be mounted, nothing is left to do.
CHECK_DEADLOCK FALSE

INVARIANT TypeOK
INVARIANT ScrapeComplete
INVARIANT SameResultEveryRouter
INVARIANT ScrapeTargetsServed
