------------------------------ MODULE Readiness ------------------------------
(***************************************************************************)
(* waitForServicesReady of src/runtime/readiness.ts: after `start` or      *)
(* `reset` has started the containers, every service is probed in a loop   *)
(* of its own until it answers or its deadline has passed, and the command *)
(* goes on when all the loops have ended.                                  *)
(*                                                                         *)
(* `now` is the clock, 0 when the loops begin.  A timer fires at its time  *)
(* and code between two awaits takes none: time passes in Tick only, and   *)
(* never past a pending timer or the longest a probe can take.             *)
(***************************************************************************)
EXTENDS Integers

CONSTANTS
    Service,        \* the services waited for
    Timeout,        \* each one's readiness.timeoutMs
    MaxProbe,       \* the longest a probe of it takes to answer or give up
    Interval        \* retryIntervalMs

\* A probe is aborted after the service's own timeout; sleeping takes time.
ASSUME ReadinessAssumption ==
    /\ Timeout \in [Service -> Nat]
    /\ MaxProbe \in [Service -> Nat]
    /\ \A s \in Service : MaxProbe[s] <= Timeout[s]
    /\ Interval \in Nat \ {0}

VARIABLES
    now,            \* the clock
    upSince,        \* since when each service has been able to answer, Down if not
    pc,             \* where each service's loop is
    begun,          \* when its latest probe began
    wake,           \* when its latest sleep ends
    verdict         \* what waitForServicesReady has returned

vars == <<now, upSince, pc, begun, wake, verdict>>

Down == -1
Up(s) == upSince[s] # Down

Init ==
    /\ now = 0
    /\ upSince \in [Service -> {Down, 0}]
    /\ pc = [s \in Service |-> "check"]
    /\ begun = [s \in Service |-> 0]
    /\ wake = [s \in Service |-> 0]
    /\ verdict = "pending"

\* Mutant: counts the timeout from each probe instead of from the first.
CheckDeadlineAnew(s) ==
    /\ pc[s] = "check"
    /\ IF now <= begun[s] + Timeout[s]
         THEN /\ pc' = [pc EXCEPT ![s] = "probing"]
              /\ begun' = [begun EXCEPT ![s] = now]
         ELSE /\ pc' = [pc EXCEPT ![s] = "timedOut"]
              /\ UNCHANGED begun
    /\ UNCHANGED <<now, upSince, wake, verdict>>

\* Mutant: while (now() < deadline)
CheckDeadlineStrict(s) ==
    /\ pc[s] = "check"
    /\ IF now < Timeout[s]
         THEN /\ pc' = [pc EXCEPT ![s] = "probing"]
              /\ begun' = [begun EXCEPT ![s] = now]
         ELSE /\ pc' = [pc EXCEPT ![s] = "timedOut"]
              /\ UNCHANGED begun
    /\ UNCHANGED <<now, upSince, wake, verdict>>

\* while (now() <= deadline): a probe begins, or the loop gives up.
CheckDeadline(s) ==
    /\ pc[s] = "check"
    /\ IF now <= Timeout[s]
         THEN /\ pc' = [pc EXCEPT ![s] = "probing"]
              /\ begun' = [begun EXCEPT ![s] = now]
         ELSE /\ pc' = [pc EXCEPT ![s] = "timedOut"]
              /\ UNCHANGED begun
    /\ UNCHANGED <<now, upSince, wake, verdict>>

\* The probe answers: only a service that is up can satisfy it.
ProbeSucceeds(s) ==
    /\ pc[s] = "probing" /\ Up(s)
    /\ pc' = [pc EXCEPT ![s] = "ready"]
    /\ UNCHANGED <<now, upSince, begun, wake, verdict>>

\* Mutant: retries without a sleep: with a probe that is refused at once, for
\* ever.
ProbeFailsAtOnce(s) ==
    /\ pc[s] = "probing" /\ ~(Up(s) /\ upSince[s] <= begun[s])
    /\ pc' = [pc EXCEPT ![s] = "check"]
    /\ UNCHANGED <<now, upSince, begun, wake, verdict>>

\* The probe says no, throws or gives up: not when the service has been up
\* since before the probe began.
ProbeFails(s) ==
    /\ pc[s] = "probing" /\ ~(Up(s) /\ upSince[s] <= begun[s])
    /\ pc' = [pc EXCEPT ![s] = "sleeping"]
    /\ wake' = [wake EXCEPT ![s] = now + Interval]
    /\ UNCHANGED <<now, upSince, begun, verdict>>

WakeUp(s) ==
    /\ pc[s] = "sleeping" /\ now >= wake[s]
    /\ pc' = [pc EXCEPT ![s] = "check"]
    /\ UNCHANGED <<now, upSince, begun, wake, verdict>>

Ended(s) == pc[s] \in {"ready", "timedOut"}

\* Promise.all over the loops: ready when every service is.
Conclude ==
    /\ verdict = "pending" /\ \A s \in Service : Ended(s)
    /\ verdict' = IF \A s \in Service : pc[s] = "ready" THEN "ready" ELSE "failed"
    /\ UNCHANGED <<now, upSince, pc, begun, wake>>

\* A service starts to answer, or stops.
ComesUp(s) ==
    /\ ~Up(s) /\ verdict = "pending"
    /\ upSince' = [upSince EXCEPT ![s] = now]
    /\ UNCHANGED <<now, pc, begun, wake, verdict>>

GoesDown(s) ==
    /\ Up(s) /\ verdict = "pending"
    /\ upSince' = [upSince EXCEPT ![s] = Down]
    /\ UNCHANGED <<now, pc, begun, wake, verdict>>

Tick ==
    /\ \E s \in Service : ~Ended(s)
    /\ \A s \in Service : /\ pc[s] # "check"
                          /\ pc[s] = "probing" => now < begun[s] + MaxProbe[s]
                          /\ pc[s] = "sleeping" => now < wake[s]
    /\ now' = now + 1
    /\ UNCHANGED <<upSince, pc, begun, wake, verdict>>

Concluded == verdict # "pending" /\ UNCHANGED vars

Loop(s) == CheckDeadline(s) \/ ProbeSucceeds(s) \/ ProbeFails(s) \/ WakeUp(s)

Next ==
    \/ \E s \in Service : Loop(s) \/ ComesUp(s) \/ GoesDown(s)
    \/ Conclude
    \/ Tick
    \/ Concluded

Spec == Init /\ [][Next]_vars

\* The loops run, a probe ends within MaxProbe, and the clock goes on.
Fairness ==
    /\ \A s \in Service : WF_vars(Loop(s))
    /\ WF_vars(Conclude)
    /\ WF_vars(Tick)

FairSpec == Spec /\ Fairness

-----------------------------------------------------------------------------
(* Properties                                                              *)

\* Every variable keeps its type; a probe never begins after the deadline.
TypeOK ==
    /\ now \in Nat
    /\ upSince \in [Service -> Nat \cup {Down}]
    /\ pc \in [Service -> {"check", "probing", "sleeping", "ready", "timedOut"}]
    /\ begun \in [Service -> Nat] /\ \A s \in Service : begun[s] <= Timeout[s]
    /\ wake \in [Service -> Nat]
    /\ verdict \in {"pending", "ready", "failed"}

\* A loop that has not ended is never later than one probe and one sleep past
\* its deadline: since a probe may take the whole timeout, a service holds the
\* command up for at most twice its timeout and one retry interval.
WaitIsBounded ==
    \A s \in Service :
      ~Ended(s) => now <= Timeout[s] + MaxProbe[s] + Interval

\* A loop gives up only on a service that was not up early enough for one
\* more round: one that answers from a probe and a sleep before the deadline
\* on, and keeps answering, is found ready.
UpInTimeIsReady ==
    \A s \in Service :
      pc[s] = "timedOut" /\ Up(s) => upSince[s] + MaxProbe[s] + Interval > Timeout[s]

\* The wait ends, whatever the services do.
WaitEnds == <>(verdict # "pending")
=============================================================================
