------------------------ MODULE PrefixDeletionProofs ------------------------
(***************************************************************************)
(* Proofs about PrefixDeletion: for any keys, scope and page length, and   *)
(* whatever others write or delete meanwhile, a call that returns leaves   *)
(* none of the old objects of its prefix.                                  *)
(***************************************************************************)
EXTENDS PrefixDeletion, TLAPS

\* The objects the call still has to delete.
Doomed == old \cap objects \cap Scope

\* Whatever is still to be deleted lies ahead of the listing or on its page,
\* and on its page if that is the last one.
Progress ==
    /\ call = "listing" => \A k \in Doomed : k > startAfter
    /\ call = "deleting" => \A k \in Doomed : k \in keys \/ (truncated /\ k > startAfter)
    /\ call = "done" => Doomed = {}

IInv == TypeOK /\ Progress

\* The initial states satisfy the invariant.
LEMMA InitInvariant == Init => IInv
  <1> SUFFICES ASSUME Init PROVE IInv
    OBVIOUS
  <1>1. TypeOK
    <2>1. calls \in 0 .. MaxCalls
      BY DeletionAssumption DEF Init
    <2> QED BY <2>1, Zenon DEF Init, TypeOK
  <1>2. Progress
    BY DEF Init, Progress
  <1> QED BY <1>1, <1>2 DEF IInv

\* A new call starts over with what is there.
LEMMA CallKeeps ==
  ASSUME IInv, NEW safe \in BOOLEAN, Call(safe)
  PROVE  IInv'
  <1> USE DeletionAssumption
  <1>1. TypeOK'
    <2>1. calls \in 0 .. MaxCalls /\ calls < MaxCalls /\ calls' = calls + 1
      BY DEF IInv, TypeOK, Call
    <2>2. calls' \in 0 .. MaxCalls
      BY <2>1
    <2> QED BY <2>2 DEF IInv, TypeOK, Call
  <1>2. Progress'
    <2>1. \A k \in Keys : k > Beginning
      BY DEF Beginning
    <2> QED BY <2>1 DEF IInv, TypeOK, Progress, Doomed, Call
  <1> QED BY <1>1, <1>2 DEF IInv

\* A page takes the least keys that are left: the rest lies behind its last.
LEMMA ListKeeps ==
  ASSUME IInv, List
  PROVE  IInv'
  <1> USE DeletionAssumption
  <1>1. PICK shown \in SUBSET Listable :
          /\ \A k \in shown, j \in Listable \ shown : k < j
          /\ keys' = shown
          /\ truncated' = (shown # Listable)
          /\ \E last \in shown \cup {startAfter} :
               (\A k \in shown : k <= last) /\ startAfter' = last
    BY DEF List
  <1>2. PICK last \in shown \cup {startAfter} :
          (\A k \in shown : k <= last) /\ startAfter' = last
    BY <1>1
  <1>3. call = "listing" /\ call' = "deleting" /\ UNCHANGED <<objects, old, calls>>
    BY DEF List
  <1>4. shown \subseteq Scope
    BY DEF Listable
  <1>5. TypeOK'
    BY <1>1, <1>2, <1>3, <1>4 DEF IInv, TypeOK
  <1>6. Progress'
    <2>1. SUFFICES ASSUME NEW k \in Doomed PROVE k \in shown \/ (shown # Listable /\ k > last)
      BY <1>1, <1>2, <1>3, <2>1 DEF Progress, Doomed
    <2>2. k \in Listable
      BY <1>3 DEF IInv, Progress, Doomed, Listable
    <2>3. CASE k \in shown
      BY <2>3
    <2>4. CASE k \notin shown
      <3>1. CASE last \in shown
        BY <1>1, <2>2, <2>4, <3>1, <1>4 DEF Listable
      <3>2. CASE last = startAfter
        BY <2>2, <2>4, <3>2 DEF Listable
      <3> QED BY <3>1, <3>2
    <2> QED BY <2>3, <2>4
  <1> QED BY <1>5, <1>6 DEF IInv

\* A deletion takes a key of the page, which is a key of the prefix.
LEMMA DeleteKeeps ==
  ASSUME IInv, Delete
  PROVE  IInv'
  <1>1. PICK key \in keys : objects' = objects \ {key} /\ keys' = keys \ {key}
    BY DEF Delete
  <1>2. /\ call = "deleting"
        /\ UNCHANGED <<call, startAfter, truncated, old, calls>>
    BY DEF Delete
  <1>3. TypeOK'
    BY <1>1, <1>2 DEF IInv, TypeOK
  <1>4. Progress'
    BY <1>1, <1>2 DEF IInv, Progress, Doomed
  <1> QED BY <1>3, <1>4 DEF IInv

\* The last page ends the call only when nothing lies ahead.
LEMMA EndPageKeeps ==
  ASSUME IInv, EndPage
  PROVE  IInv'
  <1>1. TypeOK'
    BY DEF IInv, TypeOK, EndPage
  <1>2. Progress'
    <2>1. /\ call = "deleting" /\ keys = {}
          /\ call' = IF truncated THEN "listing" ELSE "done"
          /\ Doomed' = Doomed /\ startAfter' = startAfter
      BY DEF EndPage, Doomed
    <2>2. \A k \in Doomed : truncated /\ k > startAfter
      BY <2>1 DEF IInv, Progress
    <2>3. CASE truncated
      BY <2>1, <2>2, <2>3 DEF Progress
    <2>4. CASE ~truncated
      BY <2>1, <2>2, <2>4 DEF Progress
    <2> QED BY <2>3, <2>4
  <1> QED BY <1>1, <1>2 DEF IInv

\* A failure and the deeds of others take nothing from what is promised.
LEMMA OthersKeep ==
  ASSUME IInv, Throw \/ \E k \in Keys : Write(k) \/ Remove(k)
  PROVE  IInv'
  <1>1. CASE Throw
    BY <1>1 DEF IInv, TypeOK, Progress, Doomed, Throw
  <1>2. CASE \E k \in Keys : Write(k)
    <2>1. PICK k \in Keys : Write(k)
      BY <1>2
    <2>2. Doomed' \subseteq Doomed
      BY <2>1 DEF Write, Doomed
    <2> QED BY <2>1, <2>2 DEF IInv, TypeOK, Progress, Write
  <1>3. CASE \E k \in Keys : Remove(k)
    <2>1. PICK k \in Keys : Remove(k)
      BY <1>3
    <2>2. Doomed' \subseteq Doomed
      BY <2>1 DEF Remove, Doomed
    <2> QED BY <2>1, <2>2 DEF IInv, TypeOK, Progress, Remove
  <1> QED BY <1>1, <1>2, <1>3

\* The invariant holds in every state, however the calls, the store and the
\* others interleave.
THEOREM Invariance == Spec => []IInv
  <1>1. Init => IInv
    BY InitInvariant
  <1>2. IInv /\ [Next]_vars => IInv'
    <2> SUFFICES ASSUME IInv, [Next]_vars PROVE IInv'
      OBVIOUS
    <2>1. CASE \E safe \in BOOLEAN : Call(safe)
      BY <2>1, CallKeeps
    <2>2. CASE Step
      BY <2>2, ListKeeps, DeleteKeeps, EndPageKeeps DEF Step
    <2>3. CASE Throw \/ \E k \in Keys : Write(k) \/ Remove(k)
      BY <2>3, OthersKeep
    <2>4. CASE UNCHANGED vars
      BY <2>4 DEF vars, IInv, TypeOK, Progress, Doomed
    <2> QED BY <2>1, <2>2, <2>3, <2>4 DEF Next
  <1> QED BY <1>1, <1>2, PTL DEF Spec

\* Every variable keeps its type and no page reaches out of the scope.
THEOREM TypeCorrect == Spec => []TypeOK
  <1>1. IInv => TypeOK
    BY DEF IInv
  <1> QED BY Invariance, <1>1, PTL

\* deletePrefix misses nothing: when it has returned, none of the objects it
\* found under its prefix is left.
THEOREM NothingIsLeft == Spec => []OldObjectsAreGone
  <1>1. IInv => OldObjectsAreGone
    BY DEF IInv, Progress, Doomed, OldObjectsAreGone
  <1> QED BY Invariance, <1>1, PTL
=============================================================================
