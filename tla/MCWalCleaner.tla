---------------------------- MODULE MCWalCleaner ----------------------------
(* Instantiates WalCleaner for TLC: two storage directories, one of them   *)
(* with a WAL that cannot be opened, the run goroutine and, for the safety *)
(* runs, one other goroutine calling CleanupStorage concurrently.          *)
EXTENDS WalCleaner

CONSTANTS d1, d2, admin

MCDirs == {d1, d2}
MCUnreadable == {d2}
MCCallersConcurrent == {Loop, admin}
MCCallersLoopOnly == {Loop}
=============================================================================
