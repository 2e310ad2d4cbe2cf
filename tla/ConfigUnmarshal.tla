--------------------------- MODULE ConfigUnmarshal ---------------------------
(***************************************************************************)
(* YAML loading of two integration configs that fill in defaults:          *)
(*   - windows_exporter Config.UnmarshalYAML decodes the document in place; *)
(*     only when it has an "iis" section does the decoder call             *)
(*     IISConfig.UnmarshalYAML on the IIS field, which runs assignDefaults  *)
(*     (every field to its kingpin default), then decodes the section      *)
(*     over a copy, and the copy is stored only if decoding succeeded;      *)
(*   - process_exporter Config.UnmarshalYAML: *c = DefaultConfig, then the  *)
(*     document is decoded into c itself.                                   *)
(* The same struct may be loaded again (a configuration reload).  A YAML    *)
(* decode error (a value of the wrong type) still sets the other fields it  *)
(* decoded, so after an error in place a struct holds some of the document. *)
(***************************************************************************)
EXTENDS Functions

CONSTANTS
    IISDefault,   \* the kingpin defaults of collector.IISConfig
    Omitted,      \* a windows_exporter document without an "iis" section
    IISUserVal,   \* a value a user writes for an IIS filter
    UserPath,     \* a procfs_path a user writes
    UserRules,    \* a non-empty process_names list
    Nil           \* the zero value of process_names

IISKeys == {"site_whitelist", "site_blacklist", "app_whitelist", "app_blacklist"}

\* The IIS field of a fresh Config{}: every string empty.
IISZero == [k \in IISKeys |-> ""]

ProcKeys == {"process_names", "procfs_path", "track_children",
             "track_threads", "gather_smaps", "recheck_on_scrape"}

\* process_exporter's DefaultConfig.
ProcDefault ==
    [process_names |-> Nil, procfs_path |-> "/proc", track_children |-> TRUE,
     track_threads |-> TRUE, gather_smaps |-> TRUE, recheck_on_scrape |-> FALSE]

\* The value a document may give each key: one that differs from the default.
ProcDocVal ==
    [process_names |-> UserRules, procfs_path |-> UserPath, track_children |-> FALSE,
     track_threads |-> FALSE, gather_smaps |-> FALSE, recheck_on_scrape |-> TRUE]

\* A document sets some of the keys.
Docs(keys, val) == {Restrict(val, K) : K \in SUBSET keys}
IISDocs  == Docs(IISKeys, [k \in IISKeys |-> IISUserVal])
ProcDocs == Docs(ProcKeys, ProcDocVal)

\* Decoding a document into a struct overwrites the keys it sets and leaves
\* the others as they were.
unmarshal(base, doc) ==
    [k \in DOMAIN base |-> IF k \in DOMAIN doc THEN doc[k] ELSE base[k]]

\* assignDefaults(c): a kingpin application with c's flags parses an empty
\* command line, which sets every field to its flag's default.
assignDefaults == IISDefault

VARIABLES
    iis, proc,         \* the structs
    iisDoc, procDoc,   \* history: the document of the last load
    iisErr, procErr    \* the error returned by the last load

vars == <<iis, proc, iisDoc, procDoc, iisErr, procErr>>

\* Each struct holds the result of a first load of some document.
Init ==
    /\ \E d \in IISDocs \cup {Omitted} :
          /\ iisDoc = d
          /\ iis = IF d = Omitted THEN IISZero ELSE unmarshal(assignDefaults, d)
    /\ \E d \in ProcDocs : procDoc = d /\ proc = unmarshal(ProcDefault, d)
    /\ iisErr = FALSE /\ procErr = FALSE

\* Mutant: the kingpin defaults are assigned after the document is decoded.
IISUnmarshalYAMLDefaultsLast(doc, err) ==
    /\ iis' = IISDefault
    /\ iisDoc' = doc /\ iisErr' = err
    /\ UNCHANGED <<proc, procDoc, procErr>>

IISUnmarshalYAML(doc, err) ==
    LET p == unmarshal(assignDefaults, doc)   \* assignDefaults; p := plain(*c); unmarshal(&p)
    IN /\ iis' = IF err THEN IISDefault ELSE p
       /\ iisDoc' = doc /\ iisErr' = err
       /\ UNCHANGED <<proc, procDoc, procErr>>

\* Mutant: *c = DefaultConfig is missing; the document is decoded over
\* whatever the struct held.
ProcUnmarshalYAMLNoReset(doc, err) ==
    /\ IF err
         THEN \E K \in SUBSET DOMAIN doc : proc' = unmarshal(proc, Restrict(doc, K))
         ELSE proc' = unmarshal(proc, doc)
    /\ procDoc' = doc /\ procErr' = err
    /\ UNCHANGED <<iis, iisDoc, iisErr>>

ProcUnmarshalYAML(doc, err) ==
    LET c == ProcDefault                  \* *c = DefaultConfig
    IN /\ IF err
            THEN \E K \in SUBSET DOMAIN doc : proc' = unmarshal(c, Restrict(doc, K))
            ELSE proc' = unmarshal(c, doc)
       /\ procDoc' = doc /\ procErr' = err
       /\ UNCHANGED <<iis, iisDoc, iisErr>>

\* windows_exporter Config.UnmarshalYAML on a fresh Config{}: unmarshal into
\* (*plain)(c) with no defaults of its own.  The decoder calls
\* IISConfig.UnmarshalYAML only for a document with an "iis" section; the
\* other fields are outside this model.
WinUnmarshalYAML(sec, err) ==
    IF sec = Omitted
      THEN /\ iis' = IISZero /\ iisDoc' = Omitted /\ iisErr' = err
           /\ UNCHANGED <<proc, procDoc, procErr>>
      ELSE IISUnmarshalYAML(sec, err)

Next ==
    \E err \in BOOLEAN :
        \/ \E d \in IISDocs \cup {Omitted} : WinUnmarshalYAML(d, err)
        \/ \E d \in ProcDocs : ProcUnmarshalYAML(d, err)

Spec == Init /\ [][Next]_vars


(***************************************************************************)
(* Properties                                                              *)
(***************************************************************************)

\* The values a field may hold after loading doc: its default, or the
\* document's value when the document sets it and that value was kept.
Allowed(default, doc, kept, k) ==
    {default[k]} \cup (IF kept /\ doc # Omitted /\ k \in DOMAIN doc THEN {doc[k]} ELSE {})

\* However many times a struct is reloaded, no field keeps a value from an
\* earlier document: IISConfig restarts from the kingpin defaults and drops
\* the decoded copy on error, process_exporter restarts from DefaultConfig.
NoStaleField ==
    /\ \A k \in IISKeys :
         iis[k] \in Allowed(IISDefault, iisDoc, ~iisErr, k) \cup {IISZero[k]}
    /\ \A k \in ProcKeys : proc[k] \in Allowed(ProcDefault, procDoc, TRUE, k)

\* A load that succeeds keeps every value the document sets.
DocumentApplied ==
    /\ ~iisErr /\ iisDoc # Omitted => \A k \in DOMAIN iisDoc : iis[k] = iisDoc[k]
    /\ ~procErr => \A k \in DOMAIN procDoc : proc[k] = procDoc[k]

\* Every IIS filter the document does not set holds its kingpin default
\* after a successful load (config.go, IISConfig.UnmarshalYAML: "This
\* IISConfig should already have default values from the kingpin via
\* Config.UnmarshalYAML already being called first").
IISDefaultsWhenOmitted ==
    ~iisErr =>
        \A k \in IISKeys :
            (iisDoc = Omitted \/ k \notin DOMAIN iisDoc) => iis[k] = IISDefault[k]

=============================================================================
