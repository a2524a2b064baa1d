---------------------------- MODULE ListingProofs ----------------------------
(***************************************************************************)
(* Proof that a paged listing misses nothing, for any executions, filter,  *)
(* clock, page sizes and interleaved submissions.                          *)
(*                                                                         *)
(* A submission moves the rows behind it to higher indices and moves no    *)
(* row to a lower one, so what the walk has not given yet stays at or      *)
(* behind its offset.                                                      *)
(***************************************************************************)
EXTENDS Listing, FiniteSetTheorems, TLAPS

\* What has not been given is still ahead of the offset.
RestIsAhead ==
    walk = "walking" =>
        \A id \in there \ listed : indexOf(id, filter) >= offsetOf(token)

\* What the walk began with is still in the list it reads.
ThereMatches ==
    /\ walk = "idle" => there = {} /\ token = NoToken
    /\ walk # "idle" => there \subseteq matching(filter)

LInv == TypeOK /\ ThereMatches /\ RestIsAhead /\ NothingMissed

\* The lists are finite, and their lengths and indices natural numbers.
LEMMA FiniteLists ==
    ASSUME NEW f
    PROVE  /\ IsFiniteSet(matching(f)) /\ Cardinality(matching(f)) \in Nat
           /\ \A id : IsFiniteSet(ahead(id, f)) /\ indexOf(id, f) \in Nat
<1>1. IsFiniteSet(Ids) /\ matching(f) \subseteq Ids
  BY ListingAssumption DEF matching, Table
<1>2. IsFiniteSet(matching(f))
  BY <1>1, FS_Subset
<1>3. \A id : ahead(id, f) \subseteq matching(f)
  BY DEF ahead
<1>4. \A id : IsFiniteSet(ahead(id, f))
  BY <1>2, <1>3, FS_Subset
<1>. QED
  BY <1>2, <1>4, FS_CardinalityType DEF indexOf

\* An index is below the length of its list.
LEMMA IndexInList ==
    ASSUME NEW f, submittedAt \in [Ids -> Times \cup {Absent}], NEW id \in matching(f)
    PROVE  indexOf(id, f) < Cardinality(matching(f))
<1>1. id \in Ids /\ submittedAt[id] \in Int /\ id \in Nat
  BY ListingAssumption DEF matching, Table, Times, Absent
<1>2. id \notin ahead(id, f)
  BY <1>1 DEF ahead, before
<1>3. ahead(id, f) \subseteq matching(f) /\ ahead(id, f) # matching(f)
  BY <1>2 DEF ahead
<1>4. Cardinality(ahead(id, f)) < Cardinality(matching(f))
  BY <1>3, FiniteLists, FS_Subset, FS_CardinalityType
<1>. QED
  BY <1>4 DEF indexOf

\* A submission takes no row out of a list and lowers no index.
LEMMA SubmitMovesBack ==
    ASSUME TypeOK, NEW id \in Ids, Submit(id), NEW f
    PROVE  /\ matching(f) \subseteq matching(f)'
           /\ \A x \in matching(f) : indexOf(x, f)' >= indexOf(x, f)
<1>1. /\ submittedAt[id] = Absent /\ submittedAt' \in [Ids -> Times \cup {Absent}]
      /\ submittedAt'[id] # Absent
      /\ \A x \in Ids \ {id} : submittedAt'[x] = submittedAt[x]
  BY DEF Submit, TypeOK, Times, Absent
<1>2. \A x \in Table : x \in Ids /\ submittedAt'[x] = submittedAt[x] /\ x \in Table'
  BY <1>1 DEF Table
<1>3. matching(f) \subseteq matching(f)'
  BY <1>2 DEF matching
<1>4. ASSUME NEW x \in matching(f)
      PROVE  indexOf(x, f)' >= indexOf(x, f)
  <2>1. ahead(x, f) \subseteq ahead(x, f)'
    BY <1>2, <1>3, <1>4 DEF ahead, before, matching
  <2>2. IsFiniteSet(ahead(x, f)')
    <3>1. ahead(x, f)' \subseteq Ids
      BY DEF ahead, matching, Table
    <3>. QED
      BY <3>1, ListingAssumption, FS_Subset
  <2>3. /\ Cardinality(ahead(x, f)) <= Cardinality(ahead(x, f)')
        /\ Cardinality(ahead(x, f)) \in Nat /\ Cardinality(ahead(x, f)') \in Nat
    BY <2>1, <2>2, FS_Subset, FS_CardinalityType
  <2>. QED
    BY <2>3 DEF indexOf
<1>. QED
  BY <1>3, <1>4

LEMMA SubmitKeeps ==
    ASSUME LInv, NEW id \in Ids, Submit(id)
    PROVE  LInv'
<1>1. /\ UNCHANGED <<filter, token, walk, listed, there, losses>>
      /\ submittedAt' \in [Ids -> Times \cup {Absent}]
  BY DEF Submit, LInv, TypeOK, Times
<1>2. TypeOK' /\ NothingMissed'
  BY <1>1 DEF LInv, TypeOK, NothingMissed
<1>3. /\ matching(filter) \subseteq matching(filter)'
      /\ \A x \in matching(filter) : indexOf(x, filter)' >= indexOf(x, filter)
  <2>1. PICK f : f = filter
    OBVIOUS
  <2>2. /\ matching(f) \subseteq matching(f)'
        /\ \A x \in matching(f) : indexOf(x, f)' >= indexOf(x, f)
    BY SubmitMovesBack DEF LInv
  <2>3. /\ matching(f) = matching(filter) /\ matching(f)' = matching(filter)'
        /\ \A x : indexOf(x, f) = indexOf(x, filter) /\ indexOf(x, f)' = indexOf(x, filter)'
    BY <1>1, <2>1 DEF matching, indexOf, ahead
  <2>. QED
    BY <2>2, <2>3
<1>4. ThereMatches'
  BY <1>1, <1>3 DEF LInv, ThereMatches, matching
<1>5. RestIsAhead'
  <2>. SUFFICES ASSUME walk = "walking", NEW x \in there \ listed
                PROVE  indexOf(x, filter)' >= offsetOf(token)
    BY <1>1 DEF RestIsAhead, offsetOf
  <2>1. x \in matching(filter) /\ indexOf(x, filter) >= offsetOf(token)
    BY DEF LInv, ThereMatches, RestIsAhead
  <2>2. indexOf(x, filter) \in Nat /\ offsetOf(token) \in Nat
    BY FiniteLists DEF LInv, TypeOK, offsetOf
  <2>3. indexOf(x, filter)' \in Nat
    <3>1. ahead(x, filter)' \subseteq Ids
      BY DEF ahead, matching, Table
    <3>2. Cardinality(ahead(x, filter)') \in Nat
      BY <3>1, ListingAssumption, FS_Subset, FS_CardinalityType
    <3>. QED
      BY <3>2 DEF indexOf
  <2>. QED
    BY <1>3, <2>1, <2>2, <2>3
<1>. QED
  BY <1>2, <1>4, <1>5 DEF LInv

\* The arithmetic of a page: its token, if it has one, is no further than the
\* page's end, and if it has none the page reached the end of the list.
LEMMA TokenAfterPage ==
    ASSUME NEW offset \in Nat, NEW maxResults \in Nat, NEW length \in Nat,
           NEW next, next = tokenAfter(offset, sliceSize(offset, maxResults, length), length)
    PROVE  /\ next \in Nat \cup {NoToken}
           /\ next # NoToken => next \in Nat /\ next <= offset + maxResults
           /\ next = NoToken => length <= offset + maxResults
<1>1. sliceSize(offset, maxResults, length) \in Nat
      /\ sliceSize(offset, maxResults, length) <= maxResults
  BY DEF sliceSize
<1>. QED
  BY <1>1, ListingAssumption DEF tokenAfter, nextOffset, isLastPage

LEMMA PageKeeps ==
    ASSUME LInv, ListQueryExecutions
    PROVE  LInv'
<1>. DEFINE offset == offsetOf(token)
            length == Cardinality(matching(filter))
<1>1. PICK maxResults \in 1..MaxPage :
        /\ listed' = listed \cup page(filter, offset, maxResults)
        /\ token' = tokenAfter(offset, sliceSize(offset, maxResults, length), length)
  BY DEF ListQueryExecutions
<1>2. /\ walk = "walking" /\ walk' = IF token' = NoToken THEN "done" ELSE "walking"
      /\ submittedAt' = submittedAt /\ filter' = filter /\ there' = there /\ losses' = losses
  BY DEF ListQueryExecutions
<1>3. offset \in Nat /\ length \in Nat /\ maxResults \in Nat
  BY FiniteLists DEF LInv, TypeOK, offsetOf
<1>4. /\ token' \in Nat \cup {NoToken}
      /\ token' # NoToken => token' \in Nat /\ token' <= offset + maxResults
      /\ token' = NoToken => length <= offset + maxResults
  BY <1>1, <1>3, TokenAfterPage
<1>5. TypeOK'
  BY <1>1, <1>2, <1>4 DEF LInv, TypeOK, page, matching, Table
<1>6. matching(filter)' = matching(filter)
  BY <1>2 DEF matching, Table
<1>7. ThereMatches'
  BY <1>2, <1>6 DEF LInv, ThereMatches
\* What was there and has not been given lies behind the page.
<1>8. \A x \in there \ listed' :
        /\ indexOf(x, filter) >= offset + maxResults
        /\ indexOf(x, filter) < length
  <2>. SUFFICES ASSUME NEW x \in there \ listed'
                PROVE  /\ indexOf(x, filter) >= offset + maxResults
                       /\ indexOf(x, filter) < length
    OBVIOUS
  <2>1. x \in matching(filter) /\ indexOf(x, filter) >= offset /\ x \notin page(filter, offset, maxResults)
    BY <1>1, <1>2 DEF LInv, ThereMatches, RestIsAhead
  <2>2. indexOf(x, filter) \in Nat
    BY FiniteLists
  <2>3. indexOf(x, filter) < length
    BY <2>1, IndexInList DEF LInv, TypeOK
  <2>. QED
    BY <2>1, <2>2, <2>3, <1>3 DEF page
<1>9. \A x : indexOf(x, filter)' = indexOf(x, filter) /\ indexOf(x, filter) \in Nat
  BY <1>2, FiniteLists DEF indexOf, ahead, before, matching, Table
<1>10. RestIsAhead'
  <2>. SUFFICES ASSUME token' # NoToken, NEW x \in there \ listed'
                PROVE  indexOf(x, filter)' >= token'
    BY <1>2 DEF RestIsAhead, offsetOf
  <2>. QED
    BY <1>3, <1>4, <1>8, <1>9
<1>11. NothingMissed'
  <2>. SUFFICES ASSUME token' = NoToken, NEW x \in there \ listed'
                PROVE  FALSE
    BY <1>2 DEF NothingMissed
  <2>. QED
    BY <1>3, <1>4, <1>8, <1>9
<1>. QED
  BY <1>5, <1>7, <1>10, <1>11 DEF LInv

LEMMA BeginKeeps ==
    ASSUME LInv, BeginWalk
    PROVE  LInv'
<1>1. /\ walk = "idle" /\ walk' = "walking" /\ filter' \in Filters /\ there' = matching(filter')
      /\ UNCHANGED <<submittedAt, token, listed, losses>> /\ token = NoToken
  BY DEF BeginWalk, LInv, ThereMatches
<1>2. TypeOK'
  BY <1>1 DEF LInv, TypeOK, matching, Table
<1>3. ThereMatches' /\ NothingMissed'
  BY <1>1 DEF ThereMatches, NothingMissed, matching, Table
<1>4. RestIsAhead'
  <2>1. \A x : indexOf(x, filter)' >= 0
    <3>1. \A x : ahead(x, filter)' \subseteq Ids
      BY DEF ahead, matching, Table
    <3>2. \A x : Cardinality(ahead(x, filter)') \in Nat
      BY <3>1, ListingAssumption, FS_Subset, FS_CardinalityType
    <3>. QED
      BY <3>2 DEF indexOf
  <2>. QED
    BY <2>1, <1>1 DEF RestIsAhead, offsetOf
<1>. QED
  BY <1>2, <1>3, <1>4 DEF LInv

\* In every behavior the invariant holds.
LEMMA ListingInvariance == Spec => []LInv
<1>1. Init => LInv
  BY DEF Init, LInv, TypeOK, ThereMatches, RestIsAhead, NothingMissed, Filters
<1>2. LInv /\ [Next]_listingVars => LInv'
  <2>. SUFFICES ASSUME LInv, [Next]_listingVars PROVE LInv'
    OBVIOUS
  <2>1. CASE LoseTable
    BY <2>1 DEF LoseTable, LInv, TypeOK, ThereMatches, RestIsAhead, NothingMissed
  <2>2. CASE UNCHANGED listingVars
    BY <2>2 DEF listingVars, LInv, TypeOK, ThereMatches, RestIsAhead, NothingMissed,
                indexOf, ahead, before, matching, Table
  <2>. QED
    BY <2>1, <2>2, SubmitKeeps, PageKeeps, BeginKeeps DEF Next
<1>. QED
  BY <1>1, <1>2, PTL DEF Spec

\* A walk through ListQueryExecutions that has ended gave every execution that
\* was in the table when it began and still is, whatever was submitted between
\* its pages.
THEOREM ListingMissesNothing == Spec => []NothingMissed
<1>1. LInv => NothingMissed
  BY DEF LInv
<1>. QED
  BY <1>1, ListingInvariance, PTL

=============================================================================
