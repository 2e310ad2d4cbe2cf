---------------------------- MODULE CollectorSync ----------------------------
(***************************************************************************)
(* The per-collector configs of the windows_exporter integration           *)
(* (config.go).  Every field is a *string, nil when the user left it out.  *)
(* A collector config can                                                  *)
(*   - translate itself into the exporter's flag map: setIfNotNil writes   *)
(*     cm[flag] = *field for every non-nil field (translateConfig skips a  *)
(*     nil config, including a typed nil pointer held in the interface);   *)
(*   - Sync itself into one of the exporter's collector.Config values: if  *)
(*     the value has the collector's own type, setStringIfNotNil copies    *)
(*     every non-nil field into its destination field, and Sync returns    *)
(*     whether the type matched.                                           *)
(* Each collector's flag names and destination fields are written out by   *)
(* hand in its translate and Sync; they are checked here against what each *)
(* agent field documents and the flag of each exporter field.              *)
(***************************************************************************)
EXTENDS FiniteSets

CONSTANTS
    Kinds,       \* the collectors whose configs are modelled
    ExpConfigs,  \* the exporter's collector.Config values
    ExpKind,     \* the collector each exporter config belongs to
    UserVal,     \* a value the user writes
    Dflt,        \* an exporter field's value before any Sync
    Unset,       \* a nil *string field
    NilPtr,      \* a nil *XxxConfig pointer
    Absent       \* a key missing from the flag map

(***************************************************************************)
(* The code: for each collector config type, the flag its translate writes *)
(* each field to (key) and the field of the exporter's config its Sync     *)
(* copies the field into (dest).                                           *)
(***************************************************************************)
ExchangeConfig ==
    [EnabledList |-> [key |-> "collectors.exchange.enabled", dest |-> "Enabled"]]

TextFileConfig ==
    [TextFileDirectory |-> [key |-> "collector.textfile.directory",
                            dest |-> "TextFileDirectory"]]

\* Mutant: a flag name mistyped in translate.
SMTPConfigKeyTypo ==
    [WhiteList |-> [key |-> "collector.smtp.whitelist", dest |-> "ServerWhiteList"],
     BlackList |-> [key |-> "collector.smtp.server-blacklist", dest |-> "ServerBlackList"]]

\* Mutant: Sync copies the blacklist into the whitelist field.
SMTPConfigDestCopyPaste ==
    [WhiteList |-> [key |-> "collector.smtp.server-whitelist", dest |-> "ServerWhiteList"],
     BlackList |-> [key |-> "collector.smtp.server-blacklist", dest |-> "ServerWhiteList"]]

SMTPConfig ==
    [WhiteList |-> [key |-> "collector.smtp.server-whitelist", dest |-> "ServerWhiteList"],
     BlackList |-> [key |-> "collector.smtp.server-blacklist", dest |-> "ServerBlackList"]]

ServiceConfig ==
    [Where |-> [key |-> "collector.service.services-where", dest |-> "ServiceWhereClause"]]

\* Mutant: a flag name mistyped in translate.
ProcessConfigKeyTypo ==
    [WhiteList |-> [key |-> "collector.process.whitelist", dest |-> "ProcessWhiteList"],
     BlackList |-> [key |-> "collector.process.blacklst", dest |-> "ProcessBlackList"]]

\* Mutant: Sync copies the whitelist into the blacklist field.
ProcessConfigDestCopyPaste ==
    [WhiteList |-> [key |-> "collector.process.whitelist", dest |-> "ProcessBlackList"],
     BlackList |-> [key |-> "collector.process.blacklist", dest |-> "ProcessBlackList"]]

ProcessConfig ==
    [WhiteList |-> [key |-> "collector.process.whitelist", dest |-> "ProcessWhiteList"],
     BlackList |-> [key |-> "collector.process.blacklist", dest |-> "ProcessBlackList"]]

NetworkConfig ==
    [WhiteList |-> [key |-> "collector.net.nic-whitelist", dest |-> "NICWhiteList"],
     BlackList |-> [key |-> "collector.net.nic-blacklist", dest |-> "NICBlackList"]]

\* Mutant: the flag name is written with "collector." where the exporter
\* uses "collectors.".
MSSQLConfigKeyTypo ==
    [EnabledClasses |-> [key |-> "collector.mssql.classes-enabled",
                         dest |-> "MSSQLEnabledCollectors"]]

MSSQLConfig ==
    [EnabledClasses |-> [key |-> "collectors.mssql.classes-enabled",
                         dest |-> "MSSQLEnabledCollectors"]]

MSMQConfig ==
    [Where |-> [key |-> "collector.msmq.msmq-where", dest |-> "MSMQWhereClause"]]

\* Mutant: Sync copies the blacklist into the whitelist field.
LogicalDiskConfigDestCopyPaste ==
    [WhiteList |-> [key |-> "collector.logical_disk.volume-whitelist",
                    dest |-> "VolumeWhiteList"],
     BlackList |-> [key |-> "collector.logical_disk.volume-blacklist",
                    dest |-> "VolumeWhiteList"]]

LogicalDiskConfig ==
    [WhiteList |-> [key |-> "collector.logical_disk.volume-whitelist",
                    dest |-> "VolumeWhiteList"],
     BlackList |-> [key |-> "collector.logical_disk.volume-blacklist",
                    dest |-> "VolumeBlackList"]]

\* The types implementing translatableConfig, by the collector they belong to.
Translatable ==
    [exchange |-> ExchangeConfig, textfile |-> TextFileConfig, smtp |-> SMTPConfig,
     service |-> ServiceConfig, process |-> ProcessConfig, net |-> NetworkConfig,
     mssql |-> MSSQLConfig, msmq |-> MSMQConfig, logical_disk |-> LogicalDiskConfig]

Fields(c) == DOMAIN Translatable[c]

(***************************************************************************)
(* The reference: the flag each agent field documents (Setting) and the    *)
(* flag of each field of the exporter's collector configs (Flag).          *)
(***************************************************************************)
Setting ==
    [exchange |-> [EnabledList |-> "collectors.exchange.enabled"],
     textfile |-> [TextFileDirectory |-> "collector.textfile.directory"],
     smtp |-> [WhiteList |-> "collector.smtp.server-whitelist",
               BlackList |-> "collector.smtp.server-blacklist"],
     service |-> [Where |-> "collector.service.services-where"],
     process |-> [WhiteList |-> "collector.process.whitelist",
                  BlackList |-> "collector.process.blacklist"],
     net |-> [WhiteList |-> "collector.net.nic-whitelist",
              BlackList |-> "collector.net.nic-blacklist"],
     mssql |-> [EnabledClasses |-> "collectors.mssql.classes-enabled"],
     msmq |-> [Where |-> "collector.msmq.msmq-where"],
     logical_disk |-> [WhiteList |-> "collector.logical_disk.volume-whitelist",
                       BlackList |-> "collector.logical_disk.volume-blacklist"]]

Flag ==
    [exchange |-> [Enabled |-> "collectors.exchange.enabled"],
     textfile |-> [TextFileDirectory |-> "collector.textfile.directory"],
     smtp |-> [ServerWhiteList |-> "collector.smtp.server-whitelist",
               ServerBlackList |-> "collector.smtp.server-blacklist"],
     service |-> [ServiceWhereClause |-> "collector.service.services-where"],
     process |-> [ProcessWhiteList |-> "collector.process.whitelist",
                  ProcessBlackList |-> "collector.process.blacklist"],
     net |-> [NICWhiteList |-> "collector.net.nic-whitelist",
              NICBlackList |-> "collector.net.nic-blacklist"],
     mssql |-> [MSSQLEnabledCollectors |-> "collectors.mssql.classes-enabled"],
     msmq |-> [MSMQWhereClause |-> "collector.msmq.msmq-where"],
     logical_disk |-> [VolumeWhiteList |-> "collector.logical_disk.volume-whitelist",
                       VolumeBlackList |-> "collector.logical_disk.volume-blacklist"]]

Keys == UNION {{Setting[c][f] : f \in DOMAIN Setting[c]} : c \in Kinds}

ASSUME /\ Kinds \subseteq DOMAIN Translatable
       /\ ExpKind \in [ExpConfigs -> Kinds]

VARIABLES
    cfg,         \* the agent's collector configs: NilPtr or a value per field
    cm,          \* the flag map translateConfig fills: a function on the keys set
    exp,         \* the exporter's collector configs
    translated,  \* history: the configs passed to translateConfig
    synced,      \* history: the pairs <<c, e>> for which Sync returned true
    panicked     \* a nil pointer was dereferenced

vars == <<cfg, cm, exp, translated, synced, panicked>>

CfgValues(c) == {NilPtr} \cup [Fields(c) -> {Unset, UserVal}]

TypeOK ==
    /\ \A c \in Kinds : cfg[c] \in CfgValues(c)
    /\ DOMAIN cm \subseteq Keys /\ \A k \in DOMAIN cm : cm[k] = UserVal
    /\ \A e \in ExpConfigs : exp[e] \in [DOMAIN Flag[ExpKind[e]] -> {Dflt, UserVal}]
    /\ translated \subseteq Kinds
    /\ synced \subseteq Kinds \X ExpConfigs
    /\ panicked \in BOOLEAN

\* Any configuration the YAML decoder can produce; an empty flag map
\* (make(map[string]string)); the exporter's configs hold their defaults.
Init ==
    /\ cfg \in [Kinds -> UNION {CfgValues(c) : c \in Kinds}]
    /\ \A c \in Kinds : cfg[c] \in CfgValues(c)
    /\ cm = [k \in {} |-> UserVal]
    /\ exp = [e \in ExpConfigs |-> [d \in DOMAIN Flag[ExpKind[e]] |-> Dflt]]
    /\ translated = {} /\ synced = {}
    /\ panicked = FALSE

\* setIfNotNil(cm, key, value) for every field of a config, as its translate
\* does: the map gains the key of every non-nil field.  (With one user value
\* the order of two writes to the same key is invisible.)
setIfNotNil(m, c, v) ==
    LET set(k) == {f \in Fields(c) : Translatable[c][f].key = k /\ v[f] # Unset}
        written == {Translatable[c][f].key : f \in {g \in Fields(c) : v[g] # Unset}}
    IN [k \in DOMAIN m \cup written |->
          IF set(k) # {} THEN v[CHOOSE f \in set(k) : TRUE] ELSE m[k]]

\* setStringIfNotNil(field, &other.dest) for every field, as Sync does.
setStringIfNotNil(dst, c, v) ==
    [d \in DOMAIN dst |->
        IF \E f \in Fields(c) : Translatable[c][f].dest = d /\ v[f] # Unset
        THEN v[CHOOSE f \in Fields(c) : Translatable[c][f].dest = d /\ v[f] # Unset]
        ELSE dst[d]]

\* Mutant: only the interface is compared with nil; a typed nil pointer
\* reaches translate, which dereferences it.
translateConfigNilOnly(c) ==
    /\ ~panicked
    /\ IF cfg[c] = NilPtr
         THEN panicked' = TRUE /\ UNCHANGED cm
         ELSE cm' = setIfNotNil(cm, c, cfg[c]) /\ UNCHANGED panicked
    /\ translated' = translated \cup {c}
    /\ UNCHANGED <<cfg, exp, synced>>

\* translateConfig(c, cm): c == nil || reflect.ValueOf(c).IsNil() returns;
\* otherwise c.translate(cm).
translateConfig(c) ==
    /\ ~panicked
    /\ IF cfg[c] = NilPtr
         THEN UNCHANGED cm
         ELSE cm' = setIfNotNil(cm, c, cfg[c])
    /\ translated' = translated \cup {c}
    /\ UNCHANGED <<cfg, exp, synced, panicked>>

\* c.Sync(v) on a non-nil config (Sync dereferences its receiver): the type
\* assertion v.(*collector.XxxConfig) succeeds only for the collector's own
\* config type.
Sync(c, e) ==
    /\ ~panicked
    /\ cfg[c] # NilPtr
    /\ LET ok == ExpKind[e] = c IN
         /\ exp' = IF ok THEN [exp EXCEPT ![e] = setStringIfNotNil(@, c, cfg[c])]
                         ELSE exp
         /\ synced' = IF ok THEN synced \cup {<<c, e>>} ELSE synced
    /\ UNCHANGED <<cfg, cm, translated, panicked>>

Next ==
    \/ \E c \in Kinds : translateConfig(c)
    \/ \E c \in Kinds, e \in ExpConfigs : Sync(c, e)

Spec == Init /\ [][Next]_vars

(***************************************************************************)
(* Properties                                                              *)
(***************************************************************************)

Get(m, k) == IF k \in DOMAIN m THEN m[k] ELSE Absent

\* The value the agent config sets for flag k, or Absent.
SetFor(c, k) ==
    IF cfg[c] # NilPtr /\ \E f \in Fields(c) : Setting[c][f] = k /\ cfg[c][f] # Unset
    THEN cfg[c][CHOOSE f \in Fields(c) : Setting[c][f] = k]
    ELSE Absent

\* Translating any of the configs, nil ones included, never panics, and the
\* flag map holds exactly the flags the non-nil fields of the translated
\* configs document, each with the field's value.
TranslateExact ==
    /\ ~panicked
    /\ \A k \in Keys :
         Get(cm, k) = IF \E c \in translated : SetFor(c, k) # Absent
                 THEN SetFor(CHOOSE c \in translated : SetFor(c, k) # Absent, k)
                 ELSE Absent

\* Sync reports a match only for an exporter config of its own collector,
\* and each exporter config holds, in every field, the value of the agent
\* field documenting the same flag if a matching Sync copied one, and its
\* default otherwise.
SyncExact ==
    /\ \A <<c, e>> \in synced : ExpKind[e] = c
    /\ \A e \in ExpConfigs : \A d \in DOMAIN exp[e] :
         LET c == ExpKind[e] IN
         exp[e][d] = IF <<c, e>> \in synced /\ SetFor(c, Flag[c][d]) # Absent
                     THEN SetFor(c, Flag[c][d]) ELSE Dflt

=============================================================================
