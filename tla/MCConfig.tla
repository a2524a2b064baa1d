------------------------------ MODULE MCConfig ------------------------------
(* A good string, an unsafe prefix, the default ports; an empty project    *)
(* file and three full ones; at most two settings elsewhere.               *)
EXTENDS Config, TLC

MCName == {"mine"}
MCUnsafe == {"/"}
MCPort == {"5432", "5433", "9000"}

Settled(backend, bucket, prefix, s3, minio, postgres) ==
    "awsRegion" :> "mine" @@ "storageBackend" :> backend @@ "s3Bucket" :> bucket
    @@ "s3Prefix" :> prefix @@ "s3Endpoint" :> s3
    @@ "minio" :> minio @@ "postgres" :> postgres

MCProjects ==
    {Nothing,
     Settled("external", "mine", "absent", "mine", "absent", "absent"),
     Settled("s3", "mine", "mine", "absent", "5433", "9000"),
     Settled("wrong", "blank", "/", "blank", "9000", "wrong")}
=============================================================================
