------------------------------- MODULE Config -------------------------------
(***************************************************************************)
(* Where the settings of a command come from (src/config/resolve.ts): two  *)
(* files, the environment and the command's flags, merged over defaults,   *)
(* coerced, completed and validated; and the facade that                   *)
(* start --facade-only serves, which resolves them once more               *)
(* (src/cli.ts, src/server/bootstrap.ts), beside the seed command, which   *)
(* makes the buckets that facades write to (src/cli/run.ts).               *)
(* Seven settings stand for all of them: an enumeration, four strings and  *)
(* two ports. A string is what is left when it is trimmed.                 *)
(***************************************************************************)
EXTENDS Integers, FiniteSets

CONSTANTS
    Name,           \* the strings a setting may have that are good for it
    Unsafe,         \* the prefixes at the root of a bucket or above
    Port,           \* the ports a service may have
    Projects,       \* the project files there are to commit
    MaxSettings     \* a bound on the settings given outside it at a time

Backend == {"minio", "s3", "external"}
Strings == {"awsRegion", "s3Bucket", "s3Prefix", "s3Endpoint"}
Ports == {"minio", "postgres"}
Field == Strings \cup Ports \cup {"storageBackend"}

Absent == "absent"  \* not given
Blank == "blank"    \* a string of spaces, or none
Wrong == "wrong"    \* of the wrong type, not one of the names, out of range

\* What a source may say of a field: only files can hold a string of another
\* type, and there are flags for three of the fields.
File == {"project", "local"}
Flag == {"storageBackend", "s3Bucket", "s3Prefix"}

Given(s, f) ==
    IF s = "cli" /\ f \notin Flag THEN {Absent}
    ELSE {Absent}
         \cup (IF s \in File \/ f \notin Strings THEN {Wrong} ELSE {})
         \cup (IF f \in Strings THEN Name \cup {Blank} ELSE {})
         \cup (IF f = "s3Prefix" THEN Unsafe ELSE {})
         \cup (IF f = "storageBackend" THEN Backend ELSE {})
         \cup (IF f \in Ports THEN Port ELSE {})

MinioPort == "9000"
DefaultPort == "5432"
ExternalPort == "5433"
BundledBucket == "athena-local"
ResultsBucket == "athena-local-results"

ASSUME ConfigAssumption ==
    /\ (Name \cup Port) \cap (Unsafe \cup Backend \cup {Absent, Blank, Wrong}) = {}
    /\ Unsafe \cap (Backend \cup {Absent, Blank, Wrong}) = {}
    /\ {MinioPort, DefaultPort, ExternalPort} \subseteq Port
    /\ \A file \in Projects : /\ file \in [Field -> {file[f] : f \in Field}]
                               /\ \A f \in Field : file[f] \in Given("project", f)
    /\ MaxSettings \in Nat

Source == {"project", "local", "env", "cli"}

VARIABLES
    source,         \* what each source says of each field
    output,         \* ATHENA_OUTPUT_LOCATION: its bucket, or Absent
    endpoint,       \* ATHENA_LOCAL_MINIO_ENDPOINT or else S3_ENDPOINT, or Absent
    facade,         \* what the facade that was started runs with
    buckets         \* what seeds have made: the store and the bucket

vars == <<source, output, endpoint, facade, buckets>>

Nothing == [f \in Field |-> Absent]
NoFacade == [running |-> FALSE, config |-> Nothing]

defaultConfig ==
    [Nothing EXCEPT !["storageBackend"] = "minio", !["awsRegion"] = "us-east-1",
                    !["minio"] = MinioPort, !["postgres"] = DefaultPort]

Over(base, config) == [f \in Field |-> IF config[f] = Absent THEN base[f] ELSE config[f]]

\* Mutant: the files come over the environment.
mergePartialConfigsSwapped(from) ==
    Over(Over(Over(Over(defaultConfig, from["env"]), from["project"]), from["local"]), from["cli"])

mergePartialConfigs(from) ==
    Over(Over(Over(Over(defaultConfig, from["project"]), from["local"]), from["env"]), from["cli"])

\* A value that is none becomes the default; a port is kept as it is.
coerce(f, value) ==
    IF \/ f = "storageBackend" /\ value \notin Backend
       \/ f \in Strings /\ value \in {Absent, Blank, Wrong}
    THEN defaultConfig[f] ELSE value

\* Mutant: only the environment is asked for the port.
postgresPortProvidedByEnv(from) == from["env"]["postgres"] # Absent

postgresPortProvided(from) == \E s \in Source : from[s]["postgres"] # Absent

coerceConfig(from) ==
    LET merged == mergePartialConfigs(from)
        coerced == [f \in Field |-> coerce(f, merged[f])]
    IN  IF coerced["storageBackend"] = "external" /\ ~postgresPortProvided(from)
        THEN [coerced EXCEPT !["postgres"] = ExternalPort]
        ELSE coerced

\* The fields that are refused when they are coerced.
coerceIssues(from) ==
    LET merged == mergePartialConfigs(from)
    IN  {f \in Field : merged[f] = Wrong}

\* The fields that are refused for the backend they are missing for.
validateConfig(config) ==
    LET backend == config["storageBackend"]
    IN  {f \in {"s3Bucket"} : backend \in {"s3", "external"} /\ config[f] = Absent}
        \cup {f \in {"s3Prefix"} : backend = "s3" /\ config[f] \in Unsafe \cup {Absent}}
        \cup {f \in {"s3Endpoint"} : backend = "external" /\ config[f] = Absent}

resolveConfig(from) ==
    LET config == coerceConfig(from)
    IN  [config |-> config, issues |-> coerceIssues(from) \cup validateConfig(config)]

\* Where the facade writes results: bucket and prefix.
resolveDefaultOutputLocation(config) ==
    IF output # Absent THEN [bucket |-> output, prefix |-> Absent]
    ELSE IF config["storageBackend"] \in {"s3", "external"}
    THEN [bucket |-> config["s3Bucket"], prefix |-> config["s3Prefix"]]
    ELSE [bucket |-> ResultsBucket, prefix |-> "local"]

\* The store the facade writes to with the bundled backend; a port stands for
\* the address http://127.0.0.1:<port>.
storageEndpoint(config) == IF endpoint # Absent THEN endpoint ELSE config["minio"]

\* The store seed makes buckets in: the port is not that of the settings.
bucketManagerEndpoint == IF endpoint # Absent THEN endpoint ELSE MinioPort

\* Mutant: seed makes the default bucket, wherever results are sent.
seedBucketsDefault(config) ==
    (IF config["storageBackend"] = "minio" THEN {BundledBucket} ELSE {})
        \cup {ResultsBucket} \cup ({config["s3Bucket"]} \ {Absent})

\* The buckets of a seed.
seedBuckets(config) ==
    (IF config["storageBackend"] = "minio" THEN {BundledBucket} ELSE {})
        \cup {IF output = Absent THEN ResultsBucket ELSE output}
        \cup ({config["s3Bucket"]} \ {Absent})

Settings == {sf \in (Source \ {"project"}) \X Field : source[sf[1]][sf[2]] # Absent}

Init ==
    /\ source = [s \in Source |-> Nothing]
    /\ output \in Name \cup {Absent}
    /\ endpoint \in Name \cup {Absent}
    /\ facade = NoFacade
    /\ buckets = {}

\* Another project file is checked out.
Commit(file) ==
    /\ file # source["project"]
    /\ source' = [source EXCEPT !["project"] = file]
    /\ facade' = NoFacade
    /\ UNCHANGED <<output, endpoint, buckets>>

\* Somebody edits the local file, the environment or the flags of a command.
Edit(s, f, value) ==
    /\ value \in Given(s, f) /\ value # source[s][f]
    /\ value # Absent => Cardinality(Settings \cup {<<s, f>>}) <= MaxSettings
    /\ source' = [source EXCEPT ![s][f] = value]
    /\ facade' = NoFacade
    /\ UNCHANGED <<output, endpoint, buckets>>

\* start --facade-only: the command's settings are checked with its flags, and
\* the facade resolves its own without them.
StartFacade ==
    /\ ~facade.running
    /\ resolveConfig(source).issues = {}
    /\ LET own == resolveConfig([source EXCEPT !["cli"] = Nothing])
       IN  /\ own.issues = {}
           /\ facade' = [running |-> TRUE, config |-> own.config]
    /\ UNCHANGED <<source, output, endpoint, buckets>>

\* seed, when it succeeds: without the bundled store it makes no buckets. How
\* it may fail halfway is the subject of the module Seed.
RunSeed ==
    LET settings == resolveConfig(source)
    IN  /\ settings.issues = {}
        /\ settings.config["storageBackend"] = "minio"
        /\ buckets' = buckets \cup {bucketManagerEndpoint} \X seedBuckets(settings.config)
    /\ UNCHANGED <<source, output, endpoint, facade>>

Next ==
    \/ \E file \in Projects : Commit(file)
    \/ \E s \in Source \ {"project"}, f \in Field : \E value \in Given(s, f) : Edit(s, f, value)
    \/ StartFacade
    \/ RunSeed

Spec == Init /\ [][Next]_vars

-----------------------------------------------------------------------------
(* Properties                                                              *)

resolved == coerceConfig(source)
accepted == resolveConfig(source).issues = {}
Higher == [project |-> {"local", "env", "cli"}, local |-> {"env", "cli"},
           env |-> {"cli"}, cli |-> {}]

\* A source never overrides one above it: editing a file or the environment
\* changes no setting that a higher source gives, not even by the defaults
\* that depend on other settings.
HigherSourceWins ==
    [][\A f \in Field, s \in Source :
         /\ source[s][f] # Absent
         /\ \A t \in Higher[s] \cup {s} : source'[t][f] = source[t][f]
         => resolved'[f] = resolved[f]]_vars

\* The catalog's database stays off port 5432 beside a store that somebody
\* else runs, unless some source asks for a port: then it has that one.
PostgresStaysClear ==
    accepted /\ resolved["storageBackend"] = "external" =>
        LET asked == {source[s]["postgres"] : s \in Source} \ {Absent}
        IN  IF asked = {} THEN resolved["postgres"] # DefaultPort
                          ELSE resolved["postgres"] \in asked

\* One seed is enough for all facades of its environment: once a seed has
\* succeeded with the bundled store, a facade with the bundled store finds the
\* bucket it writes results to in the store it writes them to, however the
\* settings were edited between the two, as long as nobody wipes the store and
\* either the environment names the store or its port is the default one. With
\* another port and no endpoint the two go to different stores.
ResultsHaveABucket ==
    /\ facade.running /\ facade.config["storageBackend"] = "minio"
    /\ buckets # {}
    /\ endpoint # Absent \/ facade.config["minio"] = MinioPort
    => <<storageEndpoint(facade.config), resolveDefaultOutputLocation(facade.config).bucket>>
         \in buckets
=============================================================================
