------------------------- MODULE MCConfigUnmarshal -------------------------
(* The kingpin defaults of collector.IISConfig: the allow lists match      *)
(* everything (".+") and the deny lists nothing ("^$").                    *)
EXTENDS ConfigUnmarshal

MCIISDefault ==
    [site_whitelist |-> ".+", site_blacklist |-> "^$",
     app_whitelist |-> ".+", app_blacklist |-> "^$"]
=============================================================================
