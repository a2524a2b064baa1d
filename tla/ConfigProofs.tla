---------------------------- MODULE ConfigProofs ----------------------------
(***************************************************************************)
(* Proofs about Config: for any strings, ports and project files, settings *)
(* that are accepted are enough to run on, no source overrides one above   *)
(* it, and one seed makes the bucket that later facades write results to.  *)
(***************************************************************************)
EXTENDS Config, TLAPS

\* Merging takes the highest of the sources that have a value.
LEMMA MergeTakesHighest ==
  ASSUME NEW from, NEW f \in Field
  PROVE  mergePartialConfigs(from)[f] =
           IF from["cli"][f] # Absent THEN from["cli"][f]
           ELSE IF from["env"][f] # Absent THEN from["env"][f]
           ELSE IF from["local"][f] # Absent THEN from["local"][f]
           ELSE IF from["project"][f] # Absent THEN from["project"][f]
           ELSE defaultConfig[f]
  BY DEF mergePartialConfigs, Over

\* What a coerced setting is, but for the port beside somebody else's store.
LEMMA CoerceIsCoerce ==
  ASSUME NEW from, NEW f \in Field
  PROVE  /\ f # "postgres" \/ postgresPortProvided(from) =>
              coerceConfig(from)[f] = coerce(f, mergePartialConfigs(from)[f])
         /\ coerceConfig(from)["storageBackend"] =
              coerce("storageBackend", mergePartialConfigs(from)["storageBackend"])
  BY DEF coerceConfig, Field

\* Two sets of sources that agree from a source with a value upwards resolve
\* the setting alike.
LEMMA ResolvedFromAbove ==
  ASSUME NEW from, NEW onto, NEW f \in Field, NEW s \in Source,
         from[s][f] # Absent,
         \A t \in Higher[s] \cup {s} : onto[t][f] = from[t][f]
  PROVE  coerceConfig(onto)[f] = coerceConfig(from)[f]
  <1>1. mergePartialConfigs(onto)[f] = mergePartialConfigs(from)[f]
    <2>1. CASE s = "project"
      BY <2>1, MergeTakesHighest DEF Higher
    <2>2. CASE s = "local"
      BY <2>2, MergeTakesHighest DEF Higher
    <2>3. CASE s = "env"
      BY <2>3, MergeTakesHighest DEF Higher
    <2>4. CASE s = "cli"
      BY <2>4, MergeTakesHighest DEF Higher
    <2> QED BY <2>1, <2>2, <2>3, <2>4 DEF Source
  <1>2. f = "postgres" => postgresPortProvided(from) /\ postgresPortProvided(onto)
    BY DEF postgresPortProvided
  <1> QED BY <1>1, <1>2, CoerceIsCoerce

\* A source never overrides one above it.
THEOREM SourcesHaveTheirOrder == Spec => HigherSourceWins
  <1>1. ASSUME NEW f \in Field, NEW s \in Source,
               source[s][f] # Absent,
               \A t \in Higher[s] \cup {s} : source'[t][f] = source[t][f]
        PROVE  resolved'[f] = resolved[f]
    <2>1. coerceConfig(source')[f] = coerceConfig(source)[f]
      BY <1>1, ResolvedFromAbove
    <2>2. resolved[f] = coerceConfig(source)[f] /\ resolved'[f] = coerceConfig(source')[f]
      BY DEF resolved
    <2> QED BY <2>1, <2>2
  <1>2. [\A f \in Field, s \in Source :
           /\ source[s][f] # Absent
           /\ \A t \in Higher[s] \cup {s} : source'[t][f] = source[t][f]
           => resolved'[f] = resolved[f]]_vars
    BY <1>1
  <1> QED BY <1>2, PTL DEF HigherSourceWins

\* Beside somebody else's store the catalog's database has the port that was
\* asked for, and stays off 5432 when none was.
THEOREM PostgresKeepsClear == Spec => []PostgresStaysClear
  <1>1. PostgresStaysClear
    <2>1. SUFFICES ASSUME accepted, resolved["storageBackend"] = "external"
          PROVE  LET asked == {source[s]["postgres"] : s \in Source} \ {Absent}
                 IN  IF asked = {} THEN resolved["postgres"] # DefaultPort
                                   ELSE resolved["postgres"] \in asked
      BY DEF PostgresStaysClear
    <2> DEFINE asked == {source[s]["postgres"] : s \in Source} \ {Absent}
    <2>2. resolved = coerceConfig(source) /\ "postgres" \in Field
      BY DEF resolved, Field, Ports
    <2>3. CASE asked = {}
      <3>1. ~postgresPortProvided(source)
        BY <2>3 DEF postgresPortProvided
      <3>2. resolved["postgres"] = ExternalPort
        BY <2>1, <2>2, <3>1, CoerceIsCoerce DEF coerceConfig
      <3> QED BY <2>3, <3>2 DEF ExternalPort, DefaultPort
    <2>4. CASE asked # {}
      <3>1. postgresPortProvided(source)
        BY <2>4 DEF postgresPortProvided
      <3>2. resolved["postgres"] = coerce("postgres", mergePartialConfigs(source)["postgres"])
        BY <2>2, <3>1, CoerceIsCoerce
      <3>3. resolved["postgres"] = mergePartialConfigs(source)["postgres"]
        BY <3>2 DEF coerce, Strings
      <3>4. mergePartialConfigs(source)["postgres"] \in asked
        BY <2>2, <3>1, MergeTakesHighest DEF postgresPortProvided, Source
      <3> QED BY <2>4, <3>3, <3>4
    <2> QED BY <2>3, <2>4
  <1> QED BY <1>1, PTL

\* What a seed that made anything has left for good.
Seeded ==
    buckets # {} =>
        <<bucketManagerEndpoint, IF output = Absent THEN ResultsBucket ELSE output>> \in buckets

\* No step takes a bucket away, and a seed makes that of the results whatever
\* its settings.
LEMMA SeededStays == Spec => []Seeded
  <1>1. Init => Seeded
    BY DEF Init, Seeded
  <1>2. ASSUME Seeded, [Next]_vars PROVE Seeded'
    <2>1. CASE UNCHANGED <<output, endpoint, buckets>>
      BY <1>2, <2>1 DEF Seeded, bucketManagerEndpoint
    <2>2. CASE RunSeed
      <3>1. PICK config : buckets' = buckets \cup {bucketManagerEndpoint} \X seedBuckets(config)
        BY <2>2 DEF RunSeed
      <3>2. (IF output = Absent THEN ResultsBucket ELSE output) \in seedBuckets(config)
        BY DEF seedBuckets
      <3>3. UNCHANGED <<output, endpoint>>
        BY <2>2 DEF RunSeed
      <3> QED BY <3>1, <3>2, <3>3 DEF Seeded, bucketManagerEndpoint
    <2>3. ASSUME NEW file \in Projects, Commit(file) PROVE Seeded'
      BY <2>1, <2>3 DEF Commit
    <2>4. ASSUME NEW s \in Source, NEW f \in Field, NEW value, Edit(s, f, value) PROVE Seeded'
      BY <2>1, <2>4 DEF Edit
    <2>5. CASE StartFacade
      BY <2>1, <2>5 DEF StartFacade
    <2>6. CASE UNCHANGED vars
      BY <2>1, <2>6 DEF vars
    <2> QED BY <1>2, <2>2, <2>3, <2>4, <2>5, <2>6 DEF Next
  <1> QED BY <1>1, <1>2, PTL DEF Spec

\* Once a seed has succeeded with the bundled store, every later facade of the
\* environment finds its results bucket in its store, however the settings were
\* edited in between, if the store is named or at the default port
\* (storageEndpoint and resolveDefaultOutputLocation against
\* bucketManagerEndpoint and seedBuckets).
THEOREM OneSeedIsEnough == Spec => []ResultsHaveABucket
  <1>1. Seeded => ResultsHaveABucket
    <2>1. SUFFICES ASSUME Seeded, buckets # {},
                          facade.config["storageBackend"] = "minio",
                          endpoint # Absent \/ facade.config["minio"] = MinioPort
          PROVE  <<storageEndpoint(facade.config),
                   resolveDefaultOutputLocation(facade.config).bucket>> \in buckets
      BY DEF ResultsHaveABucket
    <2>2. storageEndpoint(facade.config) = bucketManagerEndpoint
      BY <2>1 DEF storageEndpoint, bucketManagerEndpoint
    <2>3. resolveDefaultOutputLocation(facade.config).bucket
            = IF output = Absent THEN ResultsBucket ELSE output
      BY <2>1 DEF resolveDefaultOutputLocation
    <2> QED BY <2>1, <2>2, <2>3 DEF Seeded
  <1> QED BY <1>1, SeededStays, PTL
=============================================================================
