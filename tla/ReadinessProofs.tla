-------------------------- MODULE ReadinessProofs ---------------------------
(***************************************************************************)
(* Proofs about Readiness: for any services, timeouts, probe lengths and   *)
(* retry interval, the wait of each service is bounded and a service that  *)
(* is up early enough is found ready.                                      *)
(***************************************************************************)
EXTENDS Readiness, TLAPS

\* The latest time a loop of s can still be going.
Limit(s) == Timeout[s] + MaxProbe[s] + Interval

\* Where a loop stands in time, wherever it is.
Timing(s) ==
    /\ pc[s] = "check" => now <= Limit(s)
    /\ pc[s] = "probing" => begun[s] <= now /\ now <= begun[s] + MaxProbe[s]
    /\ pc[s] = "sleeping" => /\ now <= wake[s] /\ wake[s] <= now + Interval
                             /\ wake[s] <= Limit(s)
    /\ pc[s] = "timedOut" => now > Timeout[s]

\* When s has been up for long enough, its loop has one more round: the next
\* probe begins by a probe and a sleep after it came up.
NextRound(s) ==
    Up(s) => /\ upSince[s] <= now
             /\ pc[s] = "check" => now <= upSince[s] + MaxProbe[s] + Interval
             /\ pc[s] = "sleeping" => wake[s] <= upSince[s] + MaxProbe[s] + Interval
             /\ pc[s] = "timedOut" => upSince[s] + MaxProbe[s] + Interval > Timeout[s]

IInv ==
    /\ TypeOK
    /\ \A s \in Service : Timing(s)
    /\ \A s \in Service : NextRound(s)

\* The initial states satisfy the invariant.
LEMMA InitInvariant == Init => IInv
  <1> SUFFICES ASSUME Init PROVE IInv
    OBVIOUS
  <1> USE ReadinessAssumption DEF Init, Down
  <1>1. TypeOK
    <2>1. upSince \in [Service -> Nat \cup {Down}]
      OBVIOUS
    <2>2. \A s \in Service : begun[s] <= Timeout[s]
      <3> TAKE s \in Service
      <3>1. begun[s] = 0 /\ Timeout[s] \in Nat
        OBVIOUS
      <3> QED BY <3>1
    <2> QED BY <2>1, <2>2 DEF TypeOK
  <1>2. \A s \in Service : Timing(s)
    <2> TAKE s \in Service
    <2>1. Timeout[s] \in Nat /\ MaxProbe[s] \in Nat /\ Interval \in Nat
      OBVIOUS
    <2>2. pc[s] = "check" /\ now = 0
      OBVIOUS
    <2> QED BY <2>1, <2>2 DEF Timing, Limit
  <1>3. \A s \in Service : NextRound(s)
    BY DEF NextRound, Up
  <1> QED BY <1>1, <1>2, <1>3 DEF IInv

\* A step that leaves the clock and the loop and the life of s alone keeps
\* what the invariant says of s.
LEMMA OtherLoop ==
  ASSUME NEW s \in Service, Timing(s), NextRound(s), now' = now,
         pc'[s] = pc[s], begun'[s] = begun[s], wake'[s] = wake[s],
         upSince'[s] = upSince[s]
  PROVE  Timing(s)' /\ NextRound(s)'
  BY DEF Timing, NextRound, Limit, Up

\* One iteration of the loop of s, and s coming up or going down, keep what the invariant
\* says of s.
LEMMA OwnStep ==
  ASSUME NEW s \in Service, TypeOK, TypeOK', Timing(s), NextRound(s),
         Loop(s) \/ ComesUp(s) \/ GoesDown(s)
  PROVE  Timing(s)' /\ NextRound(s)'
  <1> USE ReadinessAssumption DEF TypeOK, Down, Up, Timing, NextRound, Limit
  <1>1. CASE CheckDeadline(s)
    <2>1. CASE now <= Timeout[s]
      BY <1>1, <2>1 DEF CheckDeadline
    <2>2. CASE ~(now <= Timeout[s])
      BY <1>1, <2>2 DEF CheckDeadline
    <2> QED BY <2>1, <2>2
  <1>2. CASE ProbeSucceeds(s)
    BY <1>2 DEF ProbeSucceeds
  <1>3. CASE ProbeFails(s)
    BY <1>3 DEF ProbeFails
  <1>4. CASE WakeUp(s)
    BY <1>4 DEF WakeUp
  <1>5. CASE ComesUp(s)
    BY <1>5 DEF ComesUp
  <1>6. CASE GoesDown(s)
    BY <1>6 DEF GoesDown
  <1> QED BY <1>1, <1>2, <1>3, <1>4, <1>5, <1>6 DEF Loop

\* Every step keeps the types.
LEMMA TypesKept == ASSUME TypeOK, [Next]_vars PROVE TypeOK'
  <1> USE ReadinessAssumption DEF TypeOK, Down
  <1>1. ASSUME NEW s \in Service, Loop(s) \/ ComesUp(s) \/ GoesDown(s)
        PROVE  TypeOK'
    <2>1. CASE CheckDeadline(s)
      BY <2>1 DEF CheckDeadline
    <2>2. CASE ProbeSucceeds(s)
      BY <2>2 DEF ProbeSucceeds
    <2>3. CASE ProbeFails(s)
      BY <2>3 DEF ProbeFails
    <2>4. CASE WakeUp(s)
      BY <2>4 DEF WakeUp
    <2>5. CASE ComesUp(s)
      BY <2>5 DEF ComesUp
    <2>6. CASE GoesDown(s)
      BY <2>6 DEF GoesDown
    <2> QED BY <1>1, <2>1, <2>2, <2>3, <2>4, <2>5, <2>6 DEF Loop
  <1>2. CASE Conclude
    BY <1>2 DEF Conclude
  <1>3. CASE Tick
    BY <1>3 DEF Tick
  <1>4. CASE Concluded \/ UNCHANGED vars
    BY <1>4 DEF Concluded, vars
  <1> QED BY <1>1, <1>2, <1>3, <1>4 DEF Next

\* The clock moves only while every loop leaves it room.
LEMMA ClockStep ==
  ASSUME NEW s \in Service, TypeOK, Timing(s), NextRound(s), Tick
  PROVE  Timing(s)' /\ NextRound(s)'
  <1> USE ReadinessAssumption DEF TypeOK, Down, Up, Timing, NextRound, Limit
  <1>1. /\ pc[s] # "check"
        /\ pc[s] = "probing" => now < begun[s] + MaxProbe[s]
        /\ pc[s] = "sleeping" => now < wake[s]
        /\ now' = now + 1 /\ pc' = pc /\ begun' = begun
        /\ wake' = wake /\ upSince' = upSince
    BY DEF Tick
  <1>2. pc'[s] # "check" /\ now \in Nat /\ begun[s] \in Nat /\ wake[s] \in Nat
    BY <1>1
  <1>3. Timing(s)'
    BY <1>1, <1>2
  <1>4. NextRound(s)'
    BY <1>1, <1>2
  <1> QED BY <1>3, <1>4

LEMMA StepInvariant == IInv /\ [Next]_vars => IInv'
  <1> SUFFICES ASSUME IInv, [Next]_vars PROVE IInv'
    OBVIOUS
  <1>1. TypeOK'
    BY TypesKept DEF IInv
  <1>2. ASSUME NEW s \in Service PROVE Timing(s)' /\ NextRound(s)'
    <2>0. TypeOK /\ Timing(s) /\ NextRound(s)
      BY DEF IInv
    <2>1. ASSUME NEW r \in Service, Loop(r) \/ ComesUp(r) \/ GoesDown(r)
          PROVE  Timing(s)' /\ NextRound(s)'
      <3>1. CASE r = s
        BY <1>1, <2>0, <2>1, <3>1, OwnStep
      <3>2. CASE r # s
        <4>1. /\ now' = now
              /\ pc'[s] = pc[s] /\ begun'[s] = begun[s]
              /\ wake'[s] = wake[s] /\ upSince'[s] = upSince[s]
          BY <2>0, <2>1, <3>2
             DEF TypeOK, Loop, CheckDeadline, ProbeSucceeds, ProbeFails, WakeUp,
                 ComesUp, GoesDown
        <4> QED BY <2>0, <4>1, OtherLoop
      <3> QED BY <3>1, <3>2
    <2>2. CASE Conclude
      BY <2>0, <2>2, OtherLoop DEF Conclude
    <2>3. CASE Tick
      BY <2>0, <2>3, ClockStep
    <2>4. CASE Concluded \/ UNCHANGED vars
      BY <2>0, <2>4, OtherLoop DEF Concluded, vars
    <2> QED BY <2>1, <2>2, <2>3, <2>4 DEF Next
  <1> QED BY <1>1, <1>2 DEF IInv

\* Every reachable state satisfies the invariant.
THEOREM Invariance == Spec => []IInv
  BY InitInvariant, StepInvariant, PTL DEF Spec

\* The variables keep their types, and no probe begins after its deadline.
THEOREM TypeCorrect == Spec => []TypeOK
  <1>1. IInv => TypeOK
    BY DEF IInv
  <1> QED BY <1>1, Invariance, PTL

\* A loop ends at most one probe and one sleep after its deadline.
THEOREM WaitsAreBounded == Spec => []WaitIsBounded
  <1>1. IInv => WaitIsBounded
    <2> SUFFICES ASSUME IInv, NEW s \in Service, ~Ended(s)
                 PROVE  now <= Timeout[s] + MaxProbe[s] + Interval
      BY DEF WaitIsBounded
    <2>1. pc[s] \in {"check", "probing", "sleeping"}
      BY DEF IInv, TypeOK, Ended
    <2> QED BY <2>1, ReadinessAssumption DEF IInv, TypeOK, Timing, Limit
  <1> QED BY <1>1, Invariance, PTL

\* A service up a probe and a sleep before its deadline is not given up on.
THEOREM UpInTimeIsFound == Spec => []UpInTimeIsReady
  <1>1. IInv => UpInTimeIsReady
    BY DEF IInv, NextRound, UpInTimeIsReady
  <1> QED BY <1>1, Invariance, PTL
=============================================================================
