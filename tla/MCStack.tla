------------------------------- MODULE MCStack -------------------------------
(* An instance of the stack of createLocalStackServices                     *)
(* (src/infra/services.ts) with the two services that differ the most: the  *)
(* object store that only bundled mode runs and the metastore with its init *)
(* task.                                                                    *)
EXTENDS Stack

TwoServices == <<"minio", "hive-metastore">>
TwoNames == Range(TwoServices)

MetastoreOnly == {"hive-metastore"}

Bundled == [bundled |-> TRUE, ports |-> "default"]
External == [bundled |-> FALSE, ports |-> "default"]

OneConfig == {Bundled}
BothBackends == {Bundled, External}

\* The runs of the command line are interchangeable.
CliSymmetry == Permutations(Cli)

\* What tells two states apart: of a run that has ended only whether it was
\* killed, which is counted.  What it was run with is gone with its process;
\* its ports, which its containers keep, are the same in every configuration
\* here; and no command reads running.json.
StackView ==
    <<runtimeVars, runtime,
      [c \in Cli |->
         IF phase[c] \in Active \cup {"serving"}
         THEN <<phase[c], cmd[c], conf[c], at[c], ready[c], alone[c]>>
         ELSE IF phase[c] \in {"idle", "killed"} THEN <<phase[c]>> ELSE <<"ended">>]>>
=============================================================================
