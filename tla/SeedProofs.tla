----------------------------- MODULE SeedProofs -----------------------------
(***************************************************************************)
(* Proofs about Seed: for any runs, any number of buckets and whatever     *)
(* earlier runs left, a run that succeeds leaves everything in place, a    *)
(* run that is alone fails only when a service does or a bucket name is    *)
(* none, and of runs that fail only against each other one comes through.  *)
(***************************************************************************)
EXTENDS Seed, WellFoundedInduction, TLAPS

\* Which item a run is at, and how its pages follow its statement.
Place(r) ==
    /\ pc[r] = "idle" => at[r] = 1 /\ r \notin wiped
    /\ pc[r] \in {"head", "put"} => at[r] < Schema
    /\ pc[r] \in {"submit", "wait"} => at[r] \in {Schema, Table}
    /\ pc[r] = "ok" => at[r] = Table + 1
    /\ pc[r] \in {"idle", "head", "put", "submit"} => stmt[r] \notin {"queued", "planned"}
    /\ stmt[r] \in {"queued", "planned"} => at[r] \in {Schema, Table}
    /\ pc[r] = "wait" => stmt[r] # "none" /\ page[r] \in {"more", stmt[r]}

\* What a run has passed is there, unless everything was wiped.
Done(r) ==
    r \notin wiped => /\ \A item \in Item : item < at[r] => item \in there
                      /\ pc[r] = "wait" /\ stmt[r] = "finished" => at[r] \in there

\* A run on its own that no service fails and no kill or bad name stops meets
\* nobody's traces.
Lone(r) ==
    r \in Going /\ r \notin overlapped \cup faulted =>
        /\ r \notin wiped
        /\ AtWork \subseteq {r}
        /\ pc[r] = "put" => at[r] \notin there
        /\ pc[r] = "wait" => stmt[r] # "failed"
        /\ pc[r] = "wait" /\ stmt[r] = "planned" => at[r] \notin there

Blamed(r) == pc[r] = "failed" => r \in overlapped \cup faulted

Each(r) == Place(r) /\ Done(r) /\ Lone(r) /\ Blamed(r)

IInv == TypeOK /\ \A r \in Run : Each(r)

\* A step of r: the others stay where they are, nothing is taken away, and r
\* is at work unless it begins, which marks those at work as overlapped.
OnlyMoves(r) ==
    /\ \A q \in Run \ {r} : /\ pc'[q] = pc[q] /\ at'[q] = at[q]
                            /\ stmt'[q] = stmt[q] /\ page'[q] = page[q]
    /\ there \subseteq there' /\ wiped' = wiped
    /\ overlapped \subseteq overlapped' /\ faulted \subseteq faulted'
    /\ r \in AtWork \/ AtWork \subseteq overlapped'

\* An item needs only what is made before it.
LEMMA NeedsComeFirst ==
  ASSUME NEW item \in Item
  PROVE  Needs(item) \subseteq {i \in Item : i < item}
  <1>1. N \in Nat /\ Schema = N + 1 /\ Table = N + 2 /\ item \in Int
    BY SeedAssumption DEF Schema, Table, Item
  <1>2. CASE item < Schema
    BY <1>2 DEF Needs
  <1>3. CASE ~(item < Schema)
    <2>1. SUFFICES ASSUME NEW i \in Needs(item) PROVE i \in Item /\ i < item
      OBVIOUS
    <2>2. i \in Warehouse \/ (item = Table /\ i = Schema)
      BY <1>3 DEF Needs
    <2>3. CASE i \in Warehouse
      BY <1>1, <1>3, <2>3, SeedAssumption DEF Item
    <2>4. CASE item = Table /\ i = Schema
      BY <1>1, <2>4 DEF Item
    <2> QED BY <2>2, <2>3, <2>4
  <1> QED BY <1>2, <1>3

\* The initial states satisfy the invariant.
LEMMA InitInvariant == Init => IInv
  <1> SUFFICES ASSUME Init PROVE IInv
    OBVIOUS
  <1>1. TypeOK
    <2>1. 1 \in 1 .. Table + 1
      BY SeedAssumption DEF Table
    <2> QED BY <2>1 DEF Init, TypeOK
  <1>2. ASSUME NEW r \in Run PROVE Each(r)
    <2>1. pc[r] = "idle" /\ at[r] = 1 /\ stmt[r] = "none" /\ r \notin Going /\ wiped = {}
      BY <1>2 DEF Init, Going
    <2>2. \A item \in Item : ~(item < 1)
      BY SeedAssumption DEF Item, Table
    <2> QED BY <2>1, <2>2 DEF Each, Place, Done, Lone, Blamed
  <1> QED BY <1>1, <1>2 DEF IInv

\* A step of one run keeps what the invariant says of the others.
LEMMA OthersKeep ==
  ASSUME IInv, NEW r \in Run, OnlyMoves(r), NEW q \in Run \ {r}
  PROVE  Each(q)'
  <1>1. /\ pc'[q] = pc[q] /\ at'[q] = at[q]
        /\ stmt'[q] = stmt[q] /\ page'[q] = page[q]
        /\ there \subseteq there' /\ wiped' = wiped
        /\ overlapped \subseteq overlapped' /\ faulted \subseteq faulted'
    BY DEF OnlyMoves
  <1>2. Each(q)
    BY DEF IInv
  <1>3. Place(q)'
    BY <1>1, <1>2 DEF Each, Place
  <1>4. Done(q)'
    BY <1>1, <1>2 DEF Each, Done
  <1>5. Lone(q)'
    <2>1. SUFFICES ASSUME q \in Going', q \notin overlapped' \cup faulted' PROVE FALSE
      BY <2>1 DEF Lone
    <2>2. q \in Going /\ q \notin overlapped \cup faulted
      BY <1>1, <2>1 DEF Going
    <2>3. AtWork \subseteq {q}
      BY <1>2, <2>2 DEF Each, Lone
    <2>4. q \in AtWork
      BY <2>2 DEF AtWork
    <2> QED BY <2>1, <2>3, <2>4 DEF OnlyMoves
  <1>6. Blamed(q)'
    BY <1>1, <1>2 DEF Each, Blamed
  <1> QED BY <1>3, <1>4, <1>5, <1>6 DEF Each

\* So a step of r keeps the invariant when it keeps types and r's own part.
LEMMA StepKeeps ==
  ASSUME IInv, NEW r \in Run, OnlyMoves(r), TypeOK', Each(r)'
  PROVE  IInv'
  <1>1. ASSUME NEW q \in Run PROVE Each(q)'
    <2>1. CASE q = r
      BY <2>1
    <2>2. CASE q # r
      BY <2>2, OthersKeep
    <2> QED BY <2>1, <2>2
  <1> QED BY <1>1 DEF IInv

\* What the invariant says of a run that is at an item.
LEMMA HereFacts ==
  ASSUME IInv, NEW r \in Run
  PROVE  /\ at[r] \in Int /\ N \in Nat /\ Schema = N + 1 /\ Table = N + 2
         /\ 1 <= at[r] /\ at[r] <= Table + 1
         /\ Each(r)
  BY SeedAssumption DEF IInv, TypeOK, Schema, Table

\* Coming to the next item, once the one before is there.
LEMMA GoToKeeps ==
  ASSUME IInv, NEW r \in Run, r \in Going, GoTo(r, at[r] + 1),
         at[r] <= Table,
         r \notin wiped => at[r] \in there',
         OnlyMoves(r), stmt' = stmt,
         stmt[r] \notin {"queued", "planned"}
  PROVE  at' \in [Run -> 1 .. Table + 1] /\ Each(r)'
  <1>1. /\ at[r] \in Int /\ N \in Nat /\ Schema = N + 1 /\ Table = N + 2
        /\ 1 <= at[r] /\ at[r] <= Table + 1
        /\ Each(r)
    BY HereFacts
  <1>2. /\ at' = [at EXCEPT ![r] = at[r] + 1] /\ at'[r] = at[r] + 1
        /\ pc'[r] = IF at[r] + 1 < Schema THEN "head"
                    ELSE IF at[r] + 1 <= Table THEN "submit" ELSE "ok"
    BY DEF IInv, TypeOK, GoTo
  <1>3. at' \in [Run -> 1 .. Table + 1]
    BY <1>1, <1>2 DEF IInv, TypeOK
  <1>4. Place(r)'
    <2>1. CASE at[r] + 1 < Schema
      BY <1>1, <1>2, <2>1 DEF Place, Schema
    <2>2. CASE ~(at[r] + 1 < Schema) /\ at[r] + 1 <= Table
      BY <1>1, <1>2, <2>2 DEF Place, Schema, Table
    <2>3. CASE ~(at[r] + 1 < Schema) /\ ~(at[r] + 1 <= Table)
      BY <1>1, <1>2, <2>3 DEF Place, Schema, Table
    <2> QED BY <2>1, <2>2, <2>3
  <1>5. Done(r)'
    <2>1. SUFFICES ASSUME r \notin wiped, NEW item \in Item, item < at[r] + 1
                   PROVE  item \in there'
      BY <1>2 DEF Done, OnlyMoves, Item, Table
    <2>2. item < at[r] \/ item = at[r]
      BY <1>1, <2>1 DEF Item
    <2> QED BY <1>1, <2>1, <2>2 DEF Each, Done, OnlyMoves
  <1>6. Lone(r)'
    <2>1. SUFFICES ASSUME r \notin overlapped' \cup faulted'
                   PROVE  r \notin wiped' /\ AtWork' \subseteq {r}
      BY <1>2 DEF Lone
    <2>2. r \notin overlapped \cup faulted
      BY <2>1 DEF OnlyMoves
    <2>3. r \notin wiped /\ AtWork \subseteq {r}
      BY <1>1, <2>2 DEF Each, Lone
    <2> QED BY <2>3 DEF OnlyMoves, AtWork, Going
  <1>7. Blamed(r)'
    BY <1>2 DEF Blamed
  <1> QED BY <1>3, <1>4, <1>5, <1>6, <1>7 DEF Each

\* Each step of a run moves only that run.
LEMMA MovesOne ==
  ASSUME IInv, NEW r \in Run, Begin(r) \/ RunStep(r) \/ RefuseName(r) \/ RequestFails(r)
                              \/ Kill(r) \/ Look(r) \/ Create(r) \/ Break(r)
  PROVE  OnlyMoves(r)
  <1> USE DEF IInv, TypeOK
  <1>1. CASE Begin(r)
    BY <1>1 DEF Begin, GoTo, OnlyMoves
  <1>2. ASSUME RunStep(r) \/ RefuseName(r) \/ RequestFails(r) \/ Kill(r)
        PROVE  r \in AtWork
    BY <1>2 DEF RunStep, HeadBucket, PutBucket, Submit, FetchNext, Complete,
                RefuseName, RequestFails, Kill, AtWork, Going, Ended
  <1>3. ASSUME Look(r) \/ Create(r) \/ Break(r) PROVE r \in AtWork
    BY <1>3 DEF Look, Create, Break, AtWork
  <1>4. CASE HeadBucket(r)
    BY <1>2, <1>4 DEF RunStep, HeadBucket, GoTo, OnlyMoves
  <1>5. CASE PutBucket(r)
    BY <1>2, <1>5 DEF RunStep, PutBucket, GoTo, Fail, OnlyMoves
  <1>6. CASE Submit(r)
    BY <1>2, <1>6 DEF RunStep, Submit, OnlyMoves
  <1>7. CASE FetchNext(r)
    BY <1>2, <1>7 DEF RunStep, FetchNext, OnlyMoves
  <1>8. CASE Complete(r)
    BY <1>2, <1>8 DEF RunStep, Complete, GoTo, Fail, OnlyMoves
  <1>9. CASE RefuseName(r) \/ RequestFails(r) \/ Kill(r)
    BY <1>2, <1>9 DEF RefuseName, RequestFails, Kill, Fail, OnlyMoves
  <1>10. CASE Look(r) \/ Create(r) \/ Break(r)
    BY <1>3, <1>10 DEF Look, Create, Break, OnlyMoves
  <1> QED BY <1>1, <1>4, <1>5, <1>6, <1>7, <1>8, <1>9, <1>10 DEF RunStep

\* A run begins at the first item; beside others it counts as overlapped.
LEMMA BeginKeeps ==
  ASSUME IInv, NEW r \in Run, Begin(r)
  PROVE  IInv'
  <1>1. /\ N \in Nat /\ Schema = N + 1 /\ Table = N + 2
        /\ Each(r)
    BY HereFacts
  <1>2. /\ pc[r] = "idle" /\ at'[r] = 1
        /\ pc'[r] = IF 1 < Schema THEN "head" ELSE "submit"
        /\ UNCHANGED <<there, stmt, page, faulted, wiped>>
    BY <1>1 DEF IInv, TypeOK, Begin, GoTo
  <1>3. OnlyMoves(r)
    BY MovesOne
  <1>4. TypeOK'
    <2>1. 1 \in 1 .. Table + 1
      BY <1>1
    <2>2. overlapped' \subseteq Run
      BY DEF IInv, TypeOK, Begin, AtWork, Going
    <2>3. pc' \in [Run -> {"idle", "head", "put", "submit", "wait"} \cup Ended]
      BY DEF IInv, TypeOK, Begin, GoTo, Ended
    <2> QED BY <1>2, <2>1, <2>2, <2>3 DEF IInv, TypeOK, Begin, GoTo
  <1>5. Place(r)'
    <2>1. CASE 1 < Schema
      BY <1>1, <1>2, <2>1 DEF Each, Place, Schema
    <2>2. CASE ~(1 < Schema)
      BY <1>1, <1>2, <2>2 DEF Each, Place, Schema, Table
    <2> QED BY <2>1, <2>2
  <1>6. Done(r)'
    <2>1. \A item \in Item : ~(item < 1)
      BY <1>1 DEF Item
    <2> QED BY <1>2, <2>1 DEF Done, Item, Table
  <1>7. Lone(r)'
    <2>1. SUFFICES ASSUME r \notin overlapped' PROVE r \notin wiped /\ AtWork' \subseteq {r}
      BY <1>2 DEF Lone
    <2>2. AtWork = {}
      BY <2>1 DEF Begin
    <2>3. r \notin wiped
      BY <1>1, <1>2 DEF Each, Place
    <2> QED BY <2>2, <2>3, <1>3, <1>2 DEF OnlyMoves, AtWork, Going
  <1>8. Blamed(r)'
    BY <1>2 DEF Blamed
  <1> QED BY <1>3, <1>4, <1>5, <1>6, <1>7, <1>8, StepKeeps DEF Each

\* A bucket that is there is passed, one that is not is put.
LEMMA HeadBucketKeeps ==
  ASSUME IInv, NEW r \in Run, HeadBucket(r)
  PROVE  IInv'
  <1>1. /\ at[r] \in Int /\ N \in Nat /\ Schema = N + 1 /\ Table = N + 2
        /\ Each(r)
    BY HereFacts
  <1>2. /\ pc[r] = "head" /\ at[r] < Schema /\ r \in Going
        /\ stmt[r] \notin {"queued", "planned"}
        /\ UNCHANGED <<there, stmt, page, overlapped, faulted, wiped>>
    BY <1>1 DEF HeadBucket, Each, Place, Going, Ended
  <1>3. OnlyMoves(r)
    BY MovesOne DEF RunStep
  <1>4. CASE at[r] \in there
    <2>1. GoTo(r, at[r] + 1) /\ at[r] <= Table
      BY <1>1, <1>2, <1>4 DEF HeadBucket
    <2>2. at' \in [Run -> 1 .. Table + 1] /\ Each(r)'
      BY <1>2, <1>3, <1>4, <2>1, GoToKeeps
    <2>3. TypeOK'
      BY <1>2, <2>1, <2>2 DEF IInv, TypeOK, GoTo, Ended
    <2> QED BY <1>3, <2>2, <2>3, StepKeeps
  <1>5. CASE at[r] \notin there
    <2>1. pc' = [pc EXCEPT ![r] = "put"] /\ pc'[r] = "put" /\ at' = at
      BY <1>5 DEF HeadBucket, IInv, TypeOK
    <2>2. TypeOK'
      BY <1>2, <2>1 DEF IInv, TypeOK
    <2>3. AtWork' \subseteq AtWork
      BY <1>2, <2>1 DEF AtWork, Going, IInv, TypeOK
    <2>4. Each(r)'
      BY <1>1, <1>2, <1>5, <2>1, <2>3 DEF Each, Place, Done, Lone, Blamed
    <2> QED BY <1>3, <2>2, <2>4, StepKeeps
  <1> QED BY <1>4, <1>5

\* A conflict means that somebody else put the bucket.
LEMMA PutBucketKeeps ==
  ASSUME IInv, NEW r \in Run, PutBucket(r)
  PROVE  IInv'
  <1>1. /\ at[r] \in Int /\ N \in Nat /\ Schema = N + 1 /\ Table = N + 2
        /\ 1 <= at[r]
        /\ Each(r)
    BY HereFacts
  <1>2. /\ pc[r] = "put" /\ at[r] < Schema /\ r \in Going
        /\ stmt[r] \notin {"queued", "planned"}
        /\ there' = there \cup {at[r]}
        /\ UNCHANGED <<stmt, page, overlapped, faulted, wiped>>
    BY <1>1 DEF PutBucket, Each, Place, Going, Ended
  <1>3. OnlyMoves(r)
    BY MovesOne DEF RunStep
  <1>4. there' \subseteq Item
    <2>1. at[r] \in Item
      BY <1>1, <1>2 DEF Item
    <2> QED BY <1>2, <2>1 DEF IInv, TypeOK
  <1>5. CASE at[r] \notin there
    <2>1. GoTo(r, at[r] + 1) /\ at[r] <= Table
      BY <1>1, <1>2, <1>5 DEF PutBucket
    <2>2. at' \in [Run -> 1 .. Table + 1] /\ Each(r)'
      BY <1>2, <1>3, <2>1, GoToKeeps
    <2>3. TypeOK'
      BY <1>2, <1>4, <2>1, <2>2 DEF IInv, TypeOK, GoTo, Ended
    <2> QED BY <1>3, <2>2, <2>3, StepKeeps
  <1>6. CASE at[r] \in there
    <2>1. pc' = [pc EXCEPT ![r] = "failed"] /\ pc'[r] = "failed" /\ at' = at
      BY <1>6 DEF PutBucket, Fail, IInv, TypeOK
    <2>2. TypeOK'
      BY <1>2, <1>4, <2>1 DEF IInv, TypeOK, Ended
    <2>3. r \in overlapped \cup faulted
      BY <1>1, <1>2, <1>6 DEF Each, Lone
    <2>4. Each(r)'
      BY <1>1, <1>2, <2>1, <2>3 DEF Each, Place, Done, Lone, Blamed
    <2> QED BY <1>3, <2>2, <2>4, StepKeeps
  <1> QED BY <1>5, <1>6

\* A statement starts out queued, its first page says that there is more.
LEMMA SubmitKeeps ==
  ASSUME IInv, NEW r \in Run, Submit(r)
  PROVE  IInv'
  <1>1. Each(r)
    BY HereFacts
  <1>2. /\ pc[r] = "submit" /\ pc'[r] = "wait" /\ r \in Going
        /\ stmt'[r] = "queued" /\ page'[r] = "more"
        /\ UNCHANGED <<there, at, overlapped, faulted, wiped>>
    BY DEF Submit, IInv, TypeOK, Going, Ended
  <1>3. OnlyMoves(r)
    BY MovesOne DEF RunStep
  <1>4. TypeOK'
    BY <1>2 DEF IInv, TypeOK, Submit
  <1>5. AtWork' \subseteq AtWork
    BY <1>2, <1>3 DEF AtWork, Going, OnlyMoves
  <1>6. Each(r)'
    BY <1>1, <1>2, <1>5 DEF Each, Place, Done, Lone, Blamed
  <1> QED BY <1>3, <1>4, <1>6, StepKeeps

\* A page says where the statement is.
LEMMA FetchNextKeeps ==
  ASSUME IInv, NEW r \in Run, FetchNext(r)
  PROVE  IInv'
  <1>1. Each(r)
    BY HereFacts
  <1>2. /\ pc[r] = "wait"
        /\ page'[r] = IF stmt[r] \in {"finished", "failed"} THEN stmt[r] ELSE "more"
        /\ UNCHANGED <<there, pc, at, stmt, overlapped, faulted, wiped>>
    BY DEF FetchNext, IInv, TypeOK
  <1>3. OnlyMoves(r)
    BY MovesOne DEF RunStep
  <1>4. TypeOK'
    BY <1>2 DEF IInv, TypeOK, FetchNext
  <1>5. AtWork' \subseteq AtWork
    BY <1>2 DEF AtWork, Going
  <1>6. Each(r)'
    BY <1>1, <1>2, <1>5 DEF Each, Place, Done, Lone, Blamed, Going
  <1> QED BY <1>3, <1>4, <1>6, StepKeeps

\* The last page tells whether the item was made.
LEMMA CompleteKeeps ==
  ASSUME IInv, NEW r \in Run, Complete(r)
  PROVE  IInv'
  <1>1. /\ at[r] \in Int /\ N \in Nat /\ Schema = N + 1 /\ Table = N + 2
        /\ Each(r)
    BY HereFacts
  <1>2. /\ pc[r] = "wait" /\ at[r] \in {Schema, Table} /\ r \in Going
        /\ page[r] = stmt[r]
        /\ UNCHANGED <<there, stmt, page, overlapped, faulted, wiped>>
    BY <1>1 DEF Complete, Each, Place, Going, Ended
  <1>3. OnlyMoves(r)
    BY MovesOne DEF RunStep
  <1>4. CASE page[r] = "finished"
    <2>1. GoTo(r, at[r] + 1) /\ at[r] <= Table
      BY <1>1, <1>2, <1>4 DEF Complete
    <2>2. r \notin wiped => at[r] \in there'
      BY <1>1, <1>2, <1>4 DEF Each, Done
    <2>3. at' \in [Run -> 1 .. Table + 1] /\ Each(r)'
      BY <1>2, <1>3, <1>4, <2>1, <2>2, GoToKeeps
    <2>4. TypeOK'
      BY <1>2, <2>1, <2>3 DEF IInv, TypeOK, GoTo, Ended
    <2> QED BY <1>3, <2>3, <2>4, StepKeeps
  <1>5. CASE page[r] # "finished"
    <2>1. pc' = [pc EXCEPT ![r] = "failed"] /\ pc'[r] = "failed" /\ at' = at
      BY <1>5 DEF Complete, Fail, IInv, TypeOK
    <2>2. TypeOK'
      BY <1>2, <2>1 DEF IInv, TypeOK, Ended
    <2>3. page[r] = "failed"
      BY <1>1, <1>2, <1>5 DEF Complete, Each, Place, IInv, TypeOK
    <2>4. r \in overlapped \cup faulted
      BY <1>1, <1>2, <2>3 DEF Each, Lone
    <2>5. Each(r)'
      BY <1>1, <1>2, <2>1, <2>4 DEF Each, Place, Done, Lone, Blamed
    <2> QED BY <1>3, <2>2, <2>5, StepKeeps
  <1> QED BY <1>4, <1>5

\* A run that ends with a fault has one to blame.
LEMMA FaultKeeps ==
  ASSUME IInv, NEW r \in Run, RefuseName(r) \/ RequestFails(r) \/ Kill(r)
  PROVE  IInv'
  <1>1. Each(r)
    BY HereFacts
  <1>2. /\ pc'[r] \in {"failed", "killed"} /\ r \in Going
        /\ faulted' = faulted \cup {r}
        /\ UNCHANGED <<there, at, stmt, page, overlapped, wiped>>
    BY DEF RefuseName, RequestFails, Kill, Fail, IInv, TypeOK, Going, Ended
  <1>3. OnlyMoves(r)
    BY MovesOne
  <1>4. TypeOK'
    BY <1>2 DEF IInv, TypeOK, RefuseName, RequestFails, Kill, Fail, Ended
  <1>5. Each(r)'
    BY <1>1, <1>2 DEF Each, Place, Done, Lone, Blamed
  <1> QED BY <1>3, <1>4, <1>5, StepKeeps

\* Trino works on the statement of a run, whether or not the run is there yet.
LEMMA TrinoKeeps ==
  ASSUME IInv, NEW r \in Run, Look(r) \/ Create(r) \/ Break(r)
  PROVE  IInv'
  <1>1. /\ at[r] \in Int /\ N \in Nat /\ Schema = N + 1 /\ Table = N + 2
        /\ 1 <= at[r] /\ Each(r)
    BY HereFacts
  <1>2. /\ stmt[r] \in {"queued", "planned"}
        /\ stmt'[r] \in {"planned", "finished", "failed"}
        /\ UNCHANGED <<pc, at, page, overlapped, wiped>>
    BY DEF Look, Create, Break, IInv, TypeOK
  <1>3. OnlyMoves(r)
    BY MovesOne
  <1>4. pc[r] \notin {"idle", "head", "put", "submit"}
    BY <1>1, <1>2 DEF Each, Place
  <1>5. stmt'[r] = "finished" => at[r] \in there'
    BY DEF Look, Create, Break, IInv, TypeOK
  <1>6. TypeOK'
    <2>1. faulted' \subseteq Run
      BY DEF Look, Create, Break, IInv, TypeOK
    <2>2. stmt' \in [Run -> {"none", "queued", "planned", "finished", "failed"}]
      BY DEF Look, Create, Break, IInv, TypeOK
    <2>3. there' \subseteq Item
      <3>1. at[r] \in Item
        BY <1>1, <1>2 DEF Each, Place, Item
      <3> QED BY <3>1 DEF Look, Create, Break, IInv, TypeOK
    <2> QED BY <1>2, <2>1, <2>2, <2>3 DEF IInv, TypeOK
  <1>7. Place(r)'
    <2>1. at[r] \in {Schema, Table}
      BY <1>1, <1>2 DEF Each, Place
    <2>2. pc[r] = "wait" => page[r] = "more"
      BY <1>1, <1>2 DEF Each, Place, IInv, TypeOK
    <2>3. pc[r] = "ok" => at[r] = Table + 1
      BY <1>1 DEF Each, Place
    <2> QED BY <1>2, <1>4, <2>1, <2>2, <2>3 DEF Place, Schema, Table
  <1>8. Done(r)'
    BY <1>1, <1>2, <1>3, <1>5 DEF Each, Done, OnlyMoves, Item, Table
  <1>9. Lone(r)'
    <2>1. SUFFICES ASSUME pc[r] = "wait", r \in Going, r \notin overlapped \cup faulted'
                   PROVE  /\ stmt'[r] # "failed"
                          /\ stmt'[r] = "planned" => at[r] \notin there'
      <3>1. r \in Going' => r \in Going /\ pc[r] = "wait"
        BY <1>2, <1>4, <2>1 DEF Going, Ended, IInv, TypeOK
      <3>2. r \notin faulted' => r \notin faulted
        BY <1>3 DEF OnlyMoves
      <3>3. AtWork \subseteq {r} => AtWork' \subseteq {r}
        BY <1>2, <1>3 DEF AtWork, Going, OnlyMoves
      <3> QED BY <1>1, <1>2, <2>1, <3>1, <3>2, <3>3 DEF Each, Lone
    <2>2. r \notin faulted
      BY <1>3, <2>1 DEF OnlyMoves
    <2>3. r \notin wiped /\ (stmt[r] = "planned" => at[r] \notin there)
      BY <1>1, <2>1, <2>2 DEF Each, Lone
    <2>4. Needs(at[r]) \subseteq there
      <3>1. at[r] \in Item
        BY <1>1, <1>2 DEF Each, Place, Item
      <3>2. Needs(at[r]) \subseteq {i \in Item : i < at[r]}
        BY <3>1, NeedsComeFirst
      <3> QED BY <1>1, <2>3, <3>2 DEF Each, Done
    <2>5. CASE Look(r)
      BY <2>4, <2>5 DEF Look, IInv, TypeOK
    <2>6. CASE Create(r)
      BY <2>3, <2>4, <2>6 DEF Create, IInv, TypeOK
    <2>7. CASE Break(r)
      BY <2>1, <2>7 DEF Break
    <2> QED BY <2>5, <2>6, <2>7
  <1>10. Blamed(r)'
    BY <1>1, <1>2, <1>3 DEF Each, Blamed, OnlyMoves
  <1> QED BY <1>3, <1>6, <1>7, <1>8, <1>9, <1>10, StepKeeps DEF Each

\* A wipe takes everything from everybody, and is nobody's own doing.
LEMMA WipeKeeps ==
  ASSUME IInv, Wipe
  PROVE  IInv'
  <1>1. TypeOK'
    BY DEF Wipe, Going, IInv, TypeOK
  <1>2. ASSUME NEW r \in Run PROVE Each(r)'
    <2>1. Each(r) /\ N \in Nat /\ Table = N + 2
      BY HereFacts
    <2>2. /\ stmt'[r] = IF stmt[r] \in {"queued", "planned"} THEN "failed" ELSE stmt[r]
          /\ (r \in wiped' <=> pc[r] # "idle")
          /\ there' = {} /\ faulted' = faulted \cup Going
          /\ UNCHANGED <<pc, at, page, overlapped>>
      BY DEF Wipe
    <2>3. Place(r)'
      <3>1. pc[r] = "wait" /\ stmt[r] \in {"queued", "planned"} => page[r] = "more"
        BY <2>1 DEF Each, Place, IInv, TypeOK
      <3> QED BY <2>1, <2>2, <3>1 DEF Each, Place, Schema, Table
    <2>4. Done(r)'
      <3>1. \A item \in Item : ~(item < 1)
        BY <2>1 DEF Item
      <3> QED BY <2>1, <2>2, <3>1 DEF Each, Place, Done, Item, Table
    <2>5. Lone(r)' /\ Blamed(r)'
      BY <2>1, <2>2 DEF Each, Lone, Blamed, Going
    <2> QED BY <2>3, <2>4, <2>5 DEF Each
  <1> QED BY <1>1, <1>2 DEF IInv

\* The invariant holds in every state, however runs, kills, failures, wipes
\* and Trino's work interleave.
THEOREM Invariance == Spec => []IInv
  <1>1. Init => IInv
    BY InitInvariant
  <1>2. IInv /\ [Next]_vars => IInv'
    <2> SUFFICES ASSUME IInv, [Next]_vars PROVE IInv'
      OBVIOUS
    <2>1. ASSUME NEW r \in Run, Begin(r) PROVE IInv'
      BY <2>1, BeginKeeps
    <2>2. ASSUME NEW r \in Run, RunStep(r) PROVE IInv'
      BY <2>2, HeadBucketKeeps, PutBucketKeeps, SubmitKeeps, FetchNextKeeps, CompleteKeeps
         DEF RunStep
    <2>3. ASSUME NEW r \in Run, RefuseName(r) \/ RequestFails(r) \/ Kill(r) PROVE IInv'
      BY <2>3, FaultKeeps
    <2>4. ASSUME NEW r \in Run, Look(r) \/ Create(r) \/ Break(r) PROVE IInv'
      BY <2>4, TrinoKeeps
    <2>5. CASE Wipe
      BY <2>5, WipeKeeps
    <2>6. CASE UNCHANGED vars
      <3>1. ASSUME NEW r \in Run PROVE Each(r)'
        <4>1. Each(r)
          BY DEF IInv
        <4> QED BY <2>6, <4>1 DEF vars, Each, Place, Done, Lone, Blamed, AtWork, Going
      <3>2. TypeOK'
        BY <2>6 DEF vars, IInv, TypeOK
      <3> QED BY <3>1, <3>2 DEF IInv
    <2> QED BY <2>1, <2>2, <2>3, <2>4, <2>5, <2>6 DEF Next
  <1> QED BY <1>1, <1>2, PTL DEF Spec

\* Every variable keeps its type.
THEOREM TypeCorrect == Spec => []TypeOK
  <1>1. IInv => TypeOK
    BY DEF IInv
  <1> QED BY Invariance, <1>1, PTL

\* A seed that reports success has left everything in place.
THEOREM SuccessIsComplete == Spec => []SeededIsComplete
  <1>1. IInv => SeededIsComplete
    <2> SUFFICES ASSUME IInv, NEW r \in Run, pc[r] = "ok", r \notin wiped PROVE there = Item
      BY DEF SeededIsComplete
    <2>1. Each(r) /\ N \in Nat /\ Table = N + 2
      BY HereFacts
    <2>2. \A item \in Item : item < Table + 1
      BY <2>1 DEF Item
    <2> QED BY <2>1, <2>2 DEF Each, Place, Done, IInv, TypeOK
  <1> QED BY Invariance, <1>1, PTL

\* Seeding can be repeated over whatever earlier runs left.
THEOREM SeedsCanBeRepeated == Spec => []SeedCanBeRepeated
  <1>1. IInv => SeedCanBeRepeated
    BY DEF IInv, Each, Blamed, SeedCanBeRepeated
  <1> QED BY Invariance, <1>1, PTL
-----------------------------------------------------------------------------
(* Runs that overlap do not all lose. While no service fails and no run is *)
(* killed, a run that is beaten to its item was beaten by one that is past *)
(* the item: so the run that came furthest was not beaten.                 *)

\* Run q is past item i, or about to pass it.
Ahead(q, i) == at[q] > i \/ (at[q] = i /\ pc[q] = "wait" /\ stmt[q] = "finished")

\* The run has failed, or is bound to.
Beaten(r) ==
    \/ pc[r] = "failed"
    \/ pc[r] = "put" /\ at[r] \in there
    \/ pc[r] = "wait" /\ stmt[r] = "planned" /\ at[r] \in there
    \/ pc[r] = "wait" /\ stmt[r] = "failed"

Clear(r) ==
    /\ pc[r] # "killed"
    /\ stmt[r] \in {"queued", "planned"} => pc[r] = "wait"
    /\ r \in Going => r \notin wiped
    /\ Beaten(r) => \E q \in Run : Ahead(q, at[r])

\* Nothing has gone wrong but the runs themselves.
Contest == faulted = {} => \A r \in Run : Clear(r)

\* What a run does on its own account, faults aside.
Moves(r) == Begin(r) \/ RunStep(r) \/ Look(r) \/ Create(r)

\* Who is past an item stays past it.
LEMMA AheadStays ==
  ASSUME IInv, NEW r \in Run, Moves(r), NEW q \in Run, NEW i \in Int, Ahead(q, i)
  PROVE  Ahead(q, i)'
  <1>1. OnlyMoves(r)
    BY MovesOne DEF Moves
  <1>2. CASE q # r
    BY <1>1, <1>2 DEF OnlyMoves, Ahead
  <1>3. CASE q = r
    <2>1. at[r] \in Int /\ Each(r) /\ Schema = N + 1 /\ Table = N + 2 /\ N \in Nat
      BY HereFacts
    <2>2. CASE Begin(r)
      <3>1. pc[r] = "idle" /\ at'[r] = 1 /\ at[r] = 1
        BY <2>1, <2>2 DEF Begin, GoTo, Each, Place, IInv, TypeOK
      <3> QED BY <1>3, <3>1 DEF Ahead
    <2>3. CASE RunStep(r) /\ pc[r] # "wait"
      <3>1. at'[r] \in Int /\ at'[r] >= at[r]
        BY <2>1, <2>3 DEF RunStep, HeadBucket, PutBucket, Submit, FetchNext, Complete,
                          GoTo, Fail, IInv, TypeOK, Each, Place
      <3> QED BY <1>3, <2>1, <2>3, <3>1 DEF Ahead
    <2>4. CASE FetchNext(r)
      BY <1>3, <2>4 DEF FetchNext, Ahead
    <2>5. CASE Complete(r) /\ page[r] = "finished"
      <3>1. at'[r] = at[r] + 1
        BY <2>5 DEF Complete, GoTo, IInv, TypeOK
      <3>2. at[r] >= i
        BY <1>3, <2>1 DEF Ahead
      <3>3. at'[r] > i
        BY <2>1, <3>1, <3>2
      <3> QED BY <1>3, <3>3 DEF Ahead
    <2>6. CASE Complete(r) /\ page[r] # "finished"
      <3>1. at' = at /\ stmt[r] # "finished"
        BY <2>1, <2>6 DEF Complete, Fail, Each, Place
      <3> QED BY <1>3, <3>1 DEF Ahead
    <2>7. CASE Look(r) \/ Create(r)
      BY <1>3, <2>7 DEF Look, Create, Ahead
    <2>8. RunStep(r) => pc[r] # "wait" \/ FetchNext(r) \/ Complete(r)
      BY DEF RunStep, HeadBucket, PutBucket, Submit
    <2> QED BY <2>2, <2>3, <2>4, <2>5, <2>6, <2>7, <2>8 DEF Moves
  <1> QED BY <1>2, <1>3

\* What a run makes while it stands at an item puts it past that item.
LEMMA MakerIsAhead ==
  ASSUME IInv, faulted = {}, Contest, NEW r \in Run, Moves(r),
         NEW i \in there' \ there
  PROVE  i = at[r] /\ Ahead(r, i)'
  <1>1. at[r] \in Int /\ Each(r) /\ Clear(r)
    BY HereFacts DEF Contest
  <1> USE DEF IInv, TypeOK
  <1>2. CASE PutBucket(r)
    <2>1. i = at[r] /\ at[r] \notin there
      BY <1>2 DEF PutBucket
    <2>2. at'[r] = at[r] + 1
      BY <1>1, <1>2, <2>1 DEF PutBucket, GoTo
    <2>3. at'[r] > i
      BY <1>1, <2>1, <2>2
    <2> QED BY <2>1, <2>3 DEF Ahead
  <1>3. CASE Create(r)
    <2>1. /\ i = at[r] /\ stmt' = [stmt EXCEPT ![r] = "finished"]
          /\ stmt[r] = "planned" /\ UNCHANGED <<pc, at>>
      BY <1>3 DEF Create
    <2> QED BY <1>1, <2>1 DEF Ahead, Clear
  <1> QED BY <1>2, <1>3 DEF Moves, Begin, RunStep, HeadBucket, Submit, FetchNext, Complete, Look

\* While nothing goes wrong, a statement that is looked at finds what it needs.
LEMMA NeedsAreThere ==
  ASSUME IInv, faulted = {}, Contest, NEW r \in Run, stmt[r] \in {"queued", "planned"}
  PROVE  Needs(at[r]) \subseteq there
  <1>1. at[r] \in Int /\ N \in Nat /\ Schema = N + 1 /\ Table = N + 2 /\ Each(r) /\ Clear(r)
    BY HereFacts DEF Contest
  <1>2. r \notin wiped
    BY <1>1 DEF Clear, Going, Ended
  <1>3. at[r] \in Item
    BY <1>1 DEF Each, Place, Item
  <1>4. Needs(at[r]) \subseteq {i \in Item : i < at[r]}
    BY <1>3, NeedsComeFirst
  <1> QED BY <1>1, <1>2, <1>4 DEF Each, Done

\* A run that is beaten after its own step was beaten before it.
LEMMA OwnDefeat ==
  ASSUME IInv, faulted = {}, Contest, NEW r \in Run, Moves(r), Beaten(r)'
  PROVE  Beaten(r) /\ at'[r] = at[r]
  <1>1. at[r] \in Int /\ N \in Nat /\ Schema = N + 1 /\ Table = N + 2 /\ Each(r) /\ Clear(r)
    BY HereFacts DEF Contest
  <1> USE DEF IInv, TypeOK
  <1>2. CASE Begin(r)
    BY <1>2 DEF Begin, GoTo, Beaten
  <1>3. CASE HeadBucket(r)
    BY <1>3 DEF HeadBucket, GoTo, Beaten
  <1>4. CASE PutBucket(r)
    BY <1>4 DEF PutBucket, GoTo, Fail, Beaten
  <1>5. CASE Submit(r)
    BY <1>5 DEF Submit, Beaten
  <1>6. CASE FetchNext(r)
    BY <1>6 DEF FetchNext, Beaten
  <1>7. CASE Complete(r)
    <2>1. page[r] = stmt[r]
      BY <1>1, <1>7 DEF Complete, Each, Place
    <2>2. page[r] # "finished"
      BY <1>7 DEF Complete, GoTo, Beaten
    <2>3. page[r] = "failed"
      BY <1>7, <2>1, <2>2, <1>1 DEF Complete, Each, Place
    <2> QED BY <1>7, <2>1, <2>2, <2>3 DEF Complete, Fail, Beaten
  <1>8. CASE Look(r)
    <2>1. Needs(at[r]) \subseteq there /\ pc[r] = "wait"
      BY <1>1, <1>8, NeedsAreThere DEF Look, Clear
    <2> QED BY <1>8, <2>1 DEF Look, Beaten
  <1>9. CASE Create(r)
    <2>1. Needs(at[r]) \subseteq there /\ pc[r] = "wait"
      BY <1>1, <1>9, NeedsAreThere DEF Create, Clear
    <2> QED BY <1>9, <2>1 DEF Create, Beaten
  <1> QED BY <1>2, <1>3, <1>4, <1>5, <1>6, <1>7, <1>8, <1>9 DEF Moves, RunStep

\* The moves of the runs keep the contest clear.
LEMMA MovesKeepContest ==
  ASSUME IInv, Contest, NEW r \in Run, Moves(r)
  PROVE  Contest'
  <1>1. SUFFICES ASSUME faulted' = {}, NEW q \in Run PROVE Clear(q)'
    BY DEF Contest
  <1>2. faulted = {} /\ OnlyMoves(r)
    BY <1>1, MovesOne DEF Moves, OnlyMoves
  <1>3. Clear(q) /\ Each(q) /\ Clear(r) /\ Each(r)
    BY <1>2 DEF Contest, IInv
  <1>4. at[q] \in Int
    BY HereFacts
  <1> USE DEF IInv, TypeOK
  <1>5. pc'[q] # "killed"
    BY <1>2, <1>3 DEF OnlyMoves, Clear, Moves, Begin, RunStep, HeadBucket, PutBucket, Submit,
                      FetchNext, Complete, GoTo, Fail, Look, Create
  <1>6. stmt'[q] \in {"queued", "planned"} => pc'[q] = "wait"
    <2>1. CASE q # r
      BY <1>2, <1>3, <2>1 DEF OnlyMoves, Clear
    <2>2. CASE q = r /\ ~Complete(r)
      BY <1>3, <2>2 DEF Each, Place, Clear, Moves, Begin, RunStep, HeadBucket, PutBucket, Submit,
                        FetchNext, GoTo, Fail, Look, Create
    <2>3. CASE q = r /\ Complete(r)
      BY <1>3, <2>3 DEF Each, Place, Complete
    <2> QED BY <2>1, <2>2, <2>3
  <1>7. q \in Going' => q \notin wiped'
    <2>1. CASE q \in Going
      BY <1>2, <1>3, <2>1 DEF Clear, OnlyMoves
    <2>2. CASE q \notin Going /\ q \in Going'
      <3>1. q = r
        BY <1>2, <2>2 DEF Going, OnlyMoves
      <3>2. Begin(r)
        BY <2>2, <3>1 DEF Going, Ended, Moves, RunStep, HeadBucket, PutBucket, Submit,
                          FetchNext, Complete, Look, Create
      <3> QED BY <1>2, <1>3, <3>1, <3>2 DEF Begin, Each, Place, OnlyMoves
    <2> QED BY <2>1, <2>2
  <1>8. ASSUME Beaten(q)' PROVE \E p \in Run : Ahead(p, at[q])'
    <2>1. PICK i \in Int : i = at[q]
      BY <1>4
    <2>2. Beaten(q) => \E p \in Run : Ahead(p, i)'
      <3>1. Beaten(q) => \E p \in Run : Ahead(p, i)
        BY <1>3, <2>1 DEF Clear
      <3> QED BY <3>1, AheadStays
    <2>3. at'[q] = i
      BY <1>2, <1>8, <2>1, OwnDefeat DEF OnlyMoves
    <2>4. Beaten(q) \/ i \in there' \ there
      <3>1. CASE q = r
        BY <1>2, <1>8, <3>1, OwnDefeat
      <3>2. CASE q # r
        BY <1>2, <1>8, <2>1, <3>2 DEF Beaten, OnlyMoves
      <3> QED BY <3>1, <3>2
    <2>5. i \in there' \ there => Ahead(r, i)'
      BY <1>2, MakerIsAhead
    <2>6. PICK p \in Run : Ahead(p, i)'
      BY <2>2, <2>4, <2>5
    <2> QED BY <2>3, <2>6 DEF Ahead
  <1> QED BY <1>5, <1>6, <1>7, <1>8 DEF Clear

\* A fault, and a wipe that meets a run, end the contest; no other wipe is
\* felt by a run.
LEMMA RestKeepsContest ==
  ASSUME IInv, Contest,
         Wipe \/ \E r \in Run : RefuseName(r) \/ RequestFails(r) \/ Kill(r) \/ Break(r)
  PROVE  Contest'
  <1>1. SUFFICES ASSUME faulted' = {}, NEW q \in Run PROVE Clear(q)'
    BY DEF Contest
  <1>2. Wipe /\ Going = {}
    BY <1>1 DEF RefuseName, RequestFails, Kill, Break, Wipe
  <1>3. /\ UNCHANGED <<pc, at>> /\ there' = {}
        /\ stmt'[q] \notin {"queued", "planned"}
        /\ \A p \in Run : stmt[p] = "finished" => stmt'[p] = "finished"
        /\ faulted = {}
    BY <1>1, <1>2 DEF Wipe
  <1>4. Clear(q) /\ Going' = {}
    BY <1>2, <1>3 DEF Contest, Going
  <1>5. pc[q] # "wait"
    BY <1>2 DEF Going, Ended
  <1>6. Beaten(q)' => Beaten(q)
    BY <1>3, <1>5 DEF Beaten
  <1>7. ASSUME NEW p \in Run, Ahead(p, at[q]) PROVE Ahead(p, at[q])'
    BY <1>3, <1>7 DEF Ahead
  <1> QED BY <1>3, <1>4, <1>6, <1>7 DEF Clear

\* While nothing goes wrong but the runs themselves, who is beaten was beaten
\* by one that came further.
THEOREM ContestInvariance == Spec => []Contest
  <1>1. Init => Contest
    <2>1. ASSUME Init, NEW r \in Run PROVE Clear(r)
      BY <2>1 DEF Init, Clear, Beaten, Going
    <2> QED BY <2>1 DEF Contest
  <1>2. IInv /\ Contest /\ [Next]_vars => Contest'
    <2>1. CASE UNCHANGED vars
      BY <2>1 DEF vars, Contest, Clear, Beaten, Ahead, Going
    <2> QED BY <2>1, MovesKeepContest, RestKeepsContest DEF Next, Moves
  <1> QED BY <1>1, <1>2, Invariance, PTL DEF Spec

\* A nonempty set of natural numbers has a least element.
LEMMA HasLeast ==
  ASSUME NEW T, T \subseteq Nat, T # {}
  PROVE  \E x \in T : \A y \in T : x <= y
  <1> DEFINE R == OpToRel(<, Nat)
  <1>1. IsWellFoundedOn(R, Nat)
    BY NatLessThanWellFounded
  <1>2. \A x, y \in Nat : x < y => <<x, y>> \in R
    BY DEF OpToRel
  <1> HIDE DEF R
  <1>3. PICK x \in T : \A y \in T : ~(<<y, x>> \in R)
    BY <1>1, WFMin
  <1>4. ASSUME NEW y \in T PROVE x <= y
    <2>1. x \in Nat /\ y \in Nat
      OBVIOUS
    <2>2. ~(y < x)
      BY <1>2, <1>3, <2>1
    <2> QED BY <2>1, <2>2
  <1> QED BY <1>4

\* Some run came furthest.
LEMMA SomeoneIsFurthest ==
  ASSUME IInv
  PROVE  \E r \in Run : \A q \in Run : at[q] <= at[r]
  <1> DEFINE T == {Table + 1 - at[r] : r \in Run}
  <1>1. ASSUME NEW r \in Run
        PROVE  at[r] \in Int /\ Table \in Int /\ Table + 1 - at[r] \in Nat
    <2>1. at[r] \in Int /\ at[r] <= Table + 1 /\ N \in Nat /\ Table = N + 2
      BY HereFacts
    <2> QED BY <2>1
  <1>2. T \subseteq Nat /\ T # {}
    BY <1>1, SeedAssumption
  <1>3. PICK x \in T : \A y \in T : x <= y
    BY <1>2, HasLeast
  <1>4. PICK r \in Run : x = Table + 1 - at[r]
    BY <1>3
  <1>5. ASSUME NEW q \in Run PROVE at[q] <= at[r]
    <2>1. Table + 1 - at[r] <= Table + 1 - at[q]
      BY <1>3, <1>4
    <2> QED BY <1>1, <2>1
  <1> QED BY <1>5

\* Of runs that failed only against each other, one came through.
THEOREM OneSeedComesThrough == Spec => []OneSeedWins
  <1>1. IInv /\ Contest => OneSeedWins
    <2> SUFFICES ASSUME IInv, Contest, \A r \in Run : pc[r] \in Ended, faulted = {},
                        \A r \in Run : pc[r] # "ok"
                 PROVE  FALSE
      BY DEF OneSeedWins
    <2>1. PICK r \in Run : \A q \in Run : at[q] <= at[r]
      BY SomeoneIsFurthest
    <2>2. pc[r] = "failed" /\ Clear(r)
      BY DEF Contest, Clear, Ended
    <2>3. PICK q \in Run : Ahead(q, at[r])
      BY <2>2 DEF Clear, Beaten
    <2>4. at[q] > at[r]
      BY <2>3 DEF Ahead, Ended
    <2>5. at[q] \in Int /\ at[r] \in Int
      BY HereFacts
    <2> QED BY <2>1, <2>4, <2>5
  <1> QED BY <1>1, Invariance, ContestInvariance, PTL
=============================================================================
