--------------------------- MODULE MCCollectorSync ---------------------------
(* All nine collector types, one exporter config of each.                  *)
(*                                                                         *)
(* A behaviour starts with at most one non-nil agent config.  The types    *)
(* share nothing but the flag map, and every property is a conjunction of  *)
(* one part per type that reads only that type's config, its flag keys and *)
(* its exporter configs; a translate or Sync of one type that wrote        *)
(* another type's key or field shows as a violation of that other type's   *)
(* part while its config is nil.  So one active type per behaviour reaches *)
(* every violation a mix of non-nil configs reaches, while the nil configs *)
(* of the other eight keep the nil path of translateConfig and the failed  *)
(* type assertion of Sync in every behaviour.                              *)
EXTENDS CollectorSync

CONSTANTS e1, e2, e3, e4, e5, e6, e7, e8, e9

MCKinds == {"exchange", "smtp", "net", "textfile", "service", "process",
            "mssql", "msmq", "logical_disk"}
MCExpConfigs == {e1, e2, e3, e4, e5, e6, e7, e8, e9}
MCExpKind == [e \in MCExpConfigs |-> CASE e = e1 -> "exchange"
                                      [] e = e2 -> "smtp"
                                      [] e = e3 -> "net"
                                      [] e = e4 -> "textfile"
                                      [] e = e5 -> "service"
                                      [] e = e6 -> "process"
                                      [] e = e7 -> "mssql"
                                      [] e = e8 -> "msmq"
                                      [] e = e9 -> "logical_disk"]

\* The agent configs with at most one non-nil entry.
OneActive ==
    {[c \in Kinds |-> NilPtr]} \cup
    UNION {{[c \in Kinds |-> IF c = k THEN v ELSE NilPtr] : v \in CfgValues(k)} :
           k \in Kinds}

MCInit == cfg \in OneActive /\ Init

MCSpec == MCInit /\ [][Next]_vars
=============================================================================
