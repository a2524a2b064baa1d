----------------------------- MODULE MCReadiness -----------------------------
(* A service that answers or refuses at once and one whose probes may hang: *)
(* one retry interval is two ticks of the clock.                            *)
EXTENDS Readiness, TLC

MCTimeout == "tcp" :> 4 @@ "http" :> 6
MCMaxProbe == "tcp" :> 0 @@ "http" :> 2
=============================================================================
