------------------------ MODULE MCWindowsIntegration ------------------------
(* Three routers, so that a later RegisterRoutes meets what the first left  *)
(* in the shared registry, and more than once.                             *)
EXTENDS WindowsIntegration

CONSTANTS rt1, rt2, rt3

MCRouters == {rt1, rt2, rt3}
=============================================================================
