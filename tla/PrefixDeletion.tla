--------------------------- MODULE PrefixDeletion ---------------------------
(***************************************************************************)
(* BunS3Storage.deletePrefix (src/storage/bun-s3.ts): the objects under a  *)
(* prefix are listed page by page, each page starting after the last key   *)
(* of the one before, and deleted one by one, while the facade writes      *)
(* results to the same bucket and somebody else deletes.                   *)
(* Keys stand for themselves; their order is the order of the listing.     *)
(***************************************************************************)
EXTENDS Integers, FiniteSets

CONSTANTS
    Keys,           \* the keys of the bucket, as numbers
    Scope,          \* those under the prefix to delete
    MaxKeys,        \* the length of a page of the listing
    MaxCalls        \* a bound on the calls of deletePrefix

ASSUME DeletionAssumption ==
    /\ Keys \subseteq Nat /\ IsFiniteSet(Keys)
    /\ Scope \subseteq Keys
    /\ MaxKeys \in Nat \ {0}
    /\ MaxCalls \in Nat

VARIABLES
    objects,        \* the keys that exist
    call,           \* where the call is
    startAfter,     \* the key its next page starts after, Beginning at first
    keys,           \* what is left to delete of its page
    truncated,      \* the store has more keys than the page shows
    old,            \* the keys there when the call began, untouched since
    calls           \* how many calls there have been

vars == <<objects, call, startAfter, keys, truncated, old, calls>>

Beginning == -1

\* Mutant: lists from the beginning each time.
ListableAgain == objects \cap Scope

Listable == {k \in objects \cap Scope : k > startAfter}

Init ==
    /\ objects \in SUBSET Keys
    /\ call = "idle" /\ startAfter = Beginning
    /\ keys = {} /\ truncated = FALSE
    /\ old = {} /\ calls = 0

\* The bucket and the scope are checked before anything is listed: another
\* bucket, an unsafe prefix or a remote deletion without force throws.
Call(safe) ==
    /\ call \in {"idle", "done", "threw"} /\ calls < MaxCalls
    /\ calls' = calls + 1
    /\ IF safe THEN call' = "listing" /\ old' = objects
               ELSE call' = "threw" /\ UNCHANGED old
    /\ startAfter' = Beginning /\ keys' = {} /\ truncated' = FALSE
    /\ UNCHANGED objects

\* client.list: the first MaxKeys of the prefix behind startAfter.
List ==
    /\ call = "listing"
    /\ \E shown \in SUBSET Listable :
         /\ \A k \in shown, j \in Listable \ shown : k < j
         /\ IF shown = Listable THEN Cardinality(shown) <= MaxKeys
                                ELSE Cardinality(shown) = MaxKeys
         /\ keys' = shown
         /\ truncated' = (shown # Listable)
         /\ \E last \in shown \cup {startAfter} :
              (\A k \in shown : k <= last) /\ startAfter' = last
    /\ call' = "deleting"
    /\ UNCHANGED <<objects, old, calls>>

\* client.delete of the page's next key; a key that is gone is no error.
Delete ==
    /\ call = "deleting"
    /\ \E key \in keys :
         /\ \A k \in keys : key <= k
         /\ objects' = objects \ {key} /\ keys' = keys \ {key}
    /\ UNCHANGED <<call, startAfter, truncated, old, calls>>

\* Mutant: ends with the first page that is not empty.
EndFirstPage ==
    /\ call = "deleting" /\ keys = {}
    /\ call' = IF truncated /\ startAfter = Beginning THEN "listing" ELSE "done"
    /\ UNCHANGED <<objects, startAfter, keys, truncated, old, calls>>

\* The page is done: the next one, or the end.
EndPage ==
    /\ call = "deleting" /\ keys = {}
    /\ call' = IF truncated THEN "listing" ELSE "done"
    /\ UNCHANGED <<objects, startAfter, keys, truncated, old, calls>>

\* A request to the store fails: the rest is left.
Throw ==
    /\ call \in {"listing", "deleting"}
    /\ call' = "threw"
    /\ UNCHANGED <<objects, startAfter, keys, truncated, old, calls>>

\* Somebody else writes an object, or deletes one.
Write(k) ==
    /\ objects' = objects \cup {k} /\ old' = old \ {k}
    /\ UNCHANGED <<call, startAfter, keys, truncated, calls>>

Remove(k) ==
    /\ k \in objects
    /\ objects' = objects \ {k} /\ old' = old \ {k}
    /\ UNCHANGED <<call, startAfter, keys, truncated, calls>>

Step == List \/ Delete \/ EndPage

Next ==
    \/ \E safe \in BOOLEAN : Call(safe)
    \/ Step
    \/ Throw
    \/ \E k \in Keys : Write(k) \/ Remove(k)

Spec == Init /\ [][Next]_vars

\* A call goes on until it returns or throws.
FairSpec == Spec /\ WF_vars(Step)

-----------------------------------------------------------------------------
(* Properties                                                              *)

\* Every variable keeps its type; a page never reaches out of the scope.
TypeOK ==
    /\ objects \subseteq Keys
    /\ call \in {"idle", "listing", "deleting", "done", "threw"}
    /\ startAfter \in Scope \cup {Beginning}
    /\ keys \subseteq Scope
    /\ truncated \in BOOLEAN
    /\ old \subseteq Keys
    /\ calls \in 0 .. MaxCalls

\* When the call has returned, nothing is left under the prefix but what was
\* written while it ran or since: no object slips through between two pages,
\* although the pages shrink and grow under the listing.
OldObjectsAreGone == call = "done" => old \cap objects \cap Scope = {}

\* A call ends, whatever writers do: each page starts behind the one before, and
\* there are finitely many keys (an S3 key has at most 1024 bytes). Writers that
\* write behind the cursor make a call longer, by as many keys as they find.
DeletionEnds == call \in {"listing", "deleting"} ~> call \in {"done", "threw"}
=============================================================================
