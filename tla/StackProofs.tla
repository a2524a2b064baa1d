----------------------------- MODULE StackProofs -----------------------------
(***************************************************************************)
(* Proofs about Stack: for any services, configurations and runs of the    *)
(* command line, killed or not, a run that none overlaps leaves what its   *)
(* command promises.                                                       *)
(*                                                                         *)
(* The plans are first described by where their commands stand: the parts  *)
(* of the services one behind the other, and in each part what removes or  *)
(* creates what.  Then, of a run that is alone, what the commands it has   *)
(* passed have done is still there.                                        *)
(***************************************************************************)
EXTENDS Stack, SequenceTheorems, WellFoundedInduction, TLAPS

(***************************************************************************)
(* Plans built of parts.                                                   *)
(***************************************************************************)

\* A nonempty set of natural numbers has a least element.
LEMMA HasLeast ==
  ASSUME NEW T, T \subseteq Nat, T # {}
  PROVE  \E x \in T : \A y \in T : x <= y
<1> DEFINE R == OpToRel(<, Nat)
<1>1. IsWellFoundedOn(R, Nat)
  BY NatLessThanWellFounded
<1>2. \A x, y \in Nat : x < y => <<x, y>> \in R
  BY DEF OpToRel
<1> HIDE DEF R
<1>3. PICK x \in T : \A y \in T : ~(<<y, x>> \in R)
  BY <1>1, WFMin
<1>4. \A y \in T : ~(y < x) /\ y \in Nat /\ x \in Nat
  BY <1>2, <1>3
<1>. QED
  BY <1>4

\* Induction up to N, over a set.
LEMMA UpTo ==
  ASSUME NEW N \in Nat, NEW G,
         1 \in G, \A n \in 1..N : n \in G /\ n < N => n + 1 \in G
  PROVE  1..N \subseteq G
<1> DEFINE T == 1..N \ G
<1> SUFFICES ASSUME T # {} PROVE FALSE
  OBVIOUS
<1>1. T \subseteq Nat
  OBVIOUS
<1>2. PICK x \in T : \A y \in T : x <= y
  BY <1>1, HasLeast
<1>3. x \in 1..N /\ x \notin G /\ x # 1
  OBVIOUS
<1>4. x - 1 \in 1..N /\ ~(x <= x - 1) /\ x - 1 < N /\ (x - 1) + 1 = x
  BY <1>3
<1>. QED
  BY <1>2, <1>3, <1>4

\* A concatenation has the one's elements and then the other's, and no more.
LEMMA Concatenated ==
  ASSUME NEW S, NEW s \in Seq(S), NEW t \in Seq(S)
  PROVE  /\ s \o t \in Seq(S)
         /\ Len(s \o t) = Len(s) + Len(t)
         /\ \A i \in 1..Len(s) : i \in 1..Len(s \o t) /\ (s \o t)[i] = s[i]
         /\ \A i \in 1..Len(t) : /\ Len(s) + i \in 1..Len(s \o t)
                                 /\ (s \o t)[Len(s) + i] = t[i]
         /\ \A p \in 1..Len(s \o t) : \/ p \in 1..Len(s)
                                      \/ \E i \in 1..Len(t) : p = Len(s) + i
<1>1. PICK a \in Nat, b \in Nat : a = Len(s) /\ b = Len(t)
  OBVIOUS
<1>2. s \o t \in Seq(S) /\ Len(s \o t) = a + b
  BY <1>1, ConcatProperties
<1>3. \A i \in 1..(a + b) : (s \o t)[i] = IF i <= a THEN s[i] ELSE t[i - a]
  BY <1>1, ConcatProperties
<1> DEFINE u == s \o t
<1> HIDE DEF u
<1>4. \A i \in 1..a : i \in 1..(a + b) /\ i <= a
  OBVIOUS
<1>5. \A i \in 1..b : a + i \in 1..(a + b) /\ ~(a + i <= a) /\ (a + i) - a = i
  OBVIOUS
<1>6. \A p \in 1..(a + b) : p \in 1..a \/ (p - a \in 1..b /\ p = a + (p - a))
  OBVIOUS
<1>7. \A i \in 1..a : u[i] = s[i]
  BY <1>3, <1>4 DEF u
<1>8. \A i \in 1..b : u[a + i] = t[i]
  <2> SUFFICES ASSUME NEW i \in 1..b PROVE u[a + i] = t[i]
    OBVIOUS
  <2>1. u[a + i] = t[(a + i) - a]
    BY <1>3, <1>5 DEF u
  <2>. QED
    BY <1>5, <2>1
<1>9. \A p \in 1..(a + b) : p \in 1..a \/ \E i \in 1..b : p = a + i
  BY <1>6
<1>10. u \in Seq(S) /\ Len(u) = a + b
  BY <1>2 DEF u
<1>11. /\ u \in Seq(S)
       /\ Len(u) = Len(s) + Len(t)
       /\ \A i \in 1..Len(s) : i \in 1..Len(u) /\ u[i] = s[i]
       /\ \A i \in 1..Len(t) : /\ Len(s) + i \in 1..Len(u)
                               /\ u[Len(s) + i] = t[i]
       /\ \A p \in 1..Len(u) : p \in 1..Len(s) \/ \E i \in 1..Len(t) : p = Len(s) + i
  BY <1>1, <1>4, <1>5, <1>7, <1>8, <1>9, <1>10
<1>. QED
  BY <1>11 DEF u

\* Parts, the concatenations of the first ones, and where each part begins.
AreParts(S, ss, N) == \A i \in 1..N : ss[i] \in Seq(S)
AreBeginnings(ss, N, f) ==
    \A i \in 1..N : f[i] = IF i = 1 THEN ss[i] ELSE f[i - 1] \o ss[i]
AreOffsets(f, N, off) ==
    \A i \in 1..N : off[i] = IF i = 1 THEN 0 ELSE Len(f[i - 1])

\* The function that FlattenSeq is computed with.
Concatenates(f, ss, N) ==
    f = [i \in 1..N |-> IF i = 1 THEN ss[i] ELSE f[i - 1] \o ss[i]]

\* The recursion behind FlattenSeq has a solution.
LEMMA FlattenIsDefined ==
  ASSUME NEW ss, NEW N \in Nat
  PROVE  \E f : Concatenates(f, ss, N)
<1> DEFINE G == {n \in 1..N : \E f : Concatenates(f, ss, n)}
<1>1. CASE N = 0
  <2>1. Concatenates([i \in 1..0 |-> 0], ss, 0)
    BY DEF Concatenates
  <2>. QED
    BY <1>1, <2>1
<1>2. CASE N # 0
  <2>1. 1 \in G
    <3>1. Concatenates([i \in 1..1 |-> ss[1]], ss, 1)
      BY DEF Concatenates
    <3>2. 1 \in 1..N
      BY <1>2
    <3>. QED
      BY <3>1, <3>2
  <2>2. ASSUME NEW n \in 1..N, n \in G, n < N
        PROVE  n + 1 \in G
    <3>1. PICK g : Concatenates(g, ss, n)
      BY <2>2
    <3> DEFINE f == [i \in 1..(n + 1) |-> IF i = n + 1 THEN g[n] \o ss[n + 1] ELSE g[i]]
    <3>2. ASSUME NEW i \in 1..(n + 1)
          PROVE  f[i] = IF i = 1 THEN ss[i] ELSE f[i - 1] \o ss[i]
      <4>1. CASE i = n + 1
        <5>1. i # 1 /\ i - 1 = n /\ n \in 1..(n + 1) /\ n # n + 1
          BY <4>1
        <5>. QED
          BY <4>1, <5>1
      <4>2. CASE i # n + 1
        <5>1. i \in 1..n /\ (i # 1 => i - 1 \in 1..(n + 1) /\ i - 1 # n + 1)
          BY <4>2
        <5>2. g[i] = IF i = 1 THEN ss[i] ELSE g[i - 1] \o ss[i]
          BY <3>1, <5>1 DEF Concatenates
        <5>. QED
          BY <4>2, <5>1, <5>2
      <4>. QED
        BY <4>1, <4>2
    <3>3. Concatenates(f, ss, n + 1)
      BY <3>2 DEF Concatenates
    <3>4. n + 1 \in 1..N
      BY <2>2
    <3> HIDE DEF f
    <3>. QED
      BY <3>3, <3>4
  <2> HIDE DEF G
  <2>3. 1..N \subseteq G
    BY <2>1, <2>2, UpTo
  <2>4. N \in G
    BY <1>2, <2>3
  <2>. QED
    BY <2>4 DEF G
<1>. QED
  BY <1>1, <1>2

\* The beginnings f of a concatenation of parts: they are sequences, and part
\* i takes the places behind beginning i - 1.
LEMMA Beginnings ==
  ASSUME NEW S, NEW ss, NEW N \in Nat, AreParts(S, ss, N),
         NEW f, AreBeginnings(ss, N, f), NEW off, AreOffsets(f, N, off)
  PROVE  \A n \in 1..N : /\ f[n] \in Seq(S) /\ off[n] \in Nat
                         /\ Len(f[n]) = off[n] + Len(ss[n])
                         /\ \A k \in 1..Len(ss[n]) : f[n][off[n] + k] = ss[n][k]
<1> DEFINE Here(n) == /\ f[n] \in Seq(S) /\ off[n] \in Nat
                      /\ Len(f[n]) = off[n] + Len(ss[n])
                      /\ \A k \in 1..Len(ss[n]) : f[n][off[n] + k] = ss[n][k]
           G == {n \in 1..N : Here(n)}
<1>1. CASE N = 0
  BY <1>1
<1>2. CASE N # 0
  <2>1. 1 \in 1..N
    BY <1>2
  <2>2. f[1] = ss[1] /\ off[1] = 0 /\ ss[1] \in Seq(S)
    BY <2>1 DEF AreParts, AreBeginnings, AreOffsets
  <2>3. Here(1)
    BY <2>2
  <2>4. ASSUME NEW n \in 1..N, n \in G, n < N PROVE n + 1 \in G
    <3>1. n + 1 \in 1..N /\ n + 1 # 1 /\ (n + 1) - 1 = n
      BY <2>4
    <3>2. f[n + 1] = f[n] \o ss[n + 1] /\ off[n + 1] = Len(f[n]) /\ ss[n + 1] \in Seq(S)
      BY <3>1 DEF AreParts, AreBeginnings, AreOffsets
    <3>3. f[n] \in Seq(S)
      BY <2>4
    <3>4. PICK a \in Nat, b \in Nat : a = Len(f[n]) /\ b = Len(ss[n + 1])
      BY <3>2, <3>3
    <3>5. Here(n + 1)
      <4>1. f[n + 1] \in Seq(S) /\ Len(f[n + 1]) = Len(f[n]) + Len(ss[n + 1])
        BY <3>2, <3>3, ConcatProperties
      <4>2. ASSUME NEW k \in 1..Len(ss[n + 1])
            PROVE  f[n + 1][off[n + 1] + k] = ss[n + 1][k]
        <5>1. k \in 1..b
          BY <3>4
        <5>2. a + k \in 1..(a + b) /\ ~(a + k <= a) /\ (a + k) - a = k
          BY <5>1
        <5>3. (f[n] \o ss[n + 1])[a + k] = ss[n + 1][k]
          BY <3>2, <3>3, <3>4, <5>2, ConcatProperties
        <5>. QED
          BY <3>2, <3>4, <5>3
      <4>. QED
        BY <3>2, <3>4, <4>1, <4>2
    <3> HIDE DEF Here
    <3>. QED
      BY <3>1, <3>5
  <2> HIDE DEF Here
  <2>5. 1 \in G
    BY <2>1, <2>3
  <2>6. 1..N \subseteq G
    <3> HIDE DEF G
    <3>. QED
      BY <2>4, <2>5, UpTo
  <2>7. \A n \in 1..N : Here(n)
    BY <2>6
  <2>. QED
    BY <2>7 DEF Here
<1>. QED
  BY <1>1, <1>2

\* What stands in a beginning stands there in the longer ones, and every place
\* of one is a place of a part.
LEMMA BeginningsGrow ==
  ASSUME NEW S, NEW ss, NEW N \in Nat, AreParts(S, ss, N),
         NEW f, AreBeginnings(ss, N, f), NEW off, AreOffsets(f, N, off)
  PROVE  \A n \in 1..N :
           /\ \A i \in 1..n : /\ Len(f[i]) <= Len(f[n])
                              /\ \A p \in 1..Len(f[i]) : f[n][p] = f[i][p]
           /\ \A p \in 1..Len(f[n]) :
                \E i \in 1..n : \E k \in 1..Len(ss[i]) : p = off[i] + k
<1> DEFINE Prefix(n) == \A i \in 1..n : /\ Len(f[i]) <= Len(f[n])
                                        /\ \A p \in 1..Len(f[i]) : f[n][p] = f[i][p]
           Cover(n) == \A p \in 1..Len(f[n]) :
                         \E i \in 1..n : \E k \in 1..Len(ss[i]) : p = off[i] + k
           G == {n \in 1..N : Prefix(n) /\ Cover(n)}
<1>1. CASE N = 0
  BY <1>1
<1>2. CASE N # 0
  <2>1. 1 \in 1..N
    BY <1>2
  <2>2. f[1] = ss[1] /\ off[1] = 0 /\ ss[1] \in Seq(S)
    BY <2>1 DEF AreParts, AreBeginnings, AreOffsets
  <2>3. Prefix(1)
    <3>1. \A i \in 1..1 : i = 1
      OBVIOUS
    <3>2. Len(f[1]) \in Nat
      BY <2>2
    <3>. QED
      BY <3>1, <3>2
  <2>4. Cover(1)
    <3> SUFFICES ASSUME NEW p \in 1..Len(f[1])
                 PROVE  \E i \in 1..1 : \E k \in 1..Len(ss[i]) : p = off[i] + k
      OBVIOUS
    <3>1. p \in 1..Len(ss[1]) /\ p = off[1] + p /\ 1 \in 1..1
      BY <2>2
    <3>. QED
      BY <3>1
  <2>5. ASSUME NEW n \in 1..N, n \in G, n < N PROVE n + 1 \in G
    <3>1. n + 1 \in 1..N /\ n + 1 # 1 /\ (n + 1) - 1 = n
      BY <2>5
    <3>2. f[n + 1] = f[n] \o ss[n + 1] /\ off[n + 1] = Len(f[n]) /\ ss[n + 1] \in Seq(S)
      BY <3>1 DEF AreParts, AreBeginnings, AreOffsets
    <3>3. \A i \in 1..N : f[i] \in Seq(S)
      BY Beginnings
    <3>4. PICK a \in Nat, b \in Nat : a = Len(f[n]) /\ b = Len(ss[n + 1])
      BY <3>2, <3>3
    <3>5. f[n] \in Seq(S) /\ Len(f[n + 1]) = a + b
      BY <3>2, <3>3, <3>4, ConcatProperties
    <3>6. \A p \in 1..Len(f[n]) : f[n + 1][p] = f[n][p]
      <4> TAKE p \in 1..Len(f[n])
      <4>1. p \in 1..a
        BY <3>4
      <4>2. p \in 1..(a + b) /\ p <= a
        BY <4>1
      <4>. QED
        BY <3>2, <3>4, <3>5, <4>2, ConcatProperties
    <3>7. Prefix(n) /\ Cover(n)
      BY <2>5
    <3>8. \A i \in 1..(n + 1) : i \in 1..n \/ i = n + 1
      OBVIOUS
    <3>9. Prefix(n + 1)
      <4> SUFFICES ASSUME NEW i \in 1..(n + 1)
                   PROVE  /\ Len(f[i]) <= Len(f[n + 1])
                          /\ \A p \in 1..Len(f[i]) : f[n + 1][p] = f[i][p]
        OBVIOUS
      <4>1. i \in 1..N /\ f[i] \in Seq(S) /\ Len(f[i]) \in Nat
        BY <3>1, <3>3
      <4>2. CASE i \in 1..n
        <5>1. Len(f[i]) <= Len(f[n]) /\ \A p \in 1..Len(f[i]) : f[n][p] = f[i][p]
          BY <3>7, <4>2
        <5>2. PICK c \in Nat : c = Len(f[i])
          BY <4>1
        <5>3. c <= a
          BY <3>4, <5>1, <5>2
        <5>4. c <= a + b /\ \A p \in 1..c : p \in 1..a
          BY <5>3
        <5>. QED
          BY <3>4, <3>5, <3>6, <5>1, <5>2, <5>4
      <4>3. CASE i = n + 1
        BY <4>1, <4>3
      <4>. QED
        BY <3>8, <4>2, <4>3
    <3>10. Cover(n + 1)
      <4> SUFFICES ASSUME NEW p \in 1..Len(f[n + 1])
                   PROVE  \E i \in 1..(n + 1) : \E k \in 1..Len(ss[i]) : p = off[i] + k
        OBVIOUS
      <4>0. p \in 1..(a + b)
        BY <3>5
      <4>1. CASE p <= a
        <5>1. p \in 1..Len(f[n])
          BY <3>4, <4>0, <4>1
        <5>2. PICK i \in 1..n : \E k \in 1..Len(ss[i]) : p = off[i] + k
          BY <3>7, <5>1
        <5>3. i \in 1..(n + 1)
          OBVIOUS
        <5>. QED
          BY <5>2, <5>3
      <4>2. CASE ~(p <= a)
        <5>1. p - a \in 1..b /\ p = a + (p - a)
          BY <4>0, <4>2
        <5>2. n + 1 \in 1..(n + 1)
          OBVIOUS
        <5>. QED
          BY <3>2, <3>4, <5>1, <5>2
      <4>. QED
        BY <4>1, <4>2
    <3> HIDE DEF Prefix, Cover
    <3>. QED
      BY <3>1, <3>9, <3>10
  <2> HIDE DEF Prefix, Cover
  <2>6. 1 \in G
    BY <2>1, <2>3, <2>4
  <2>7. 1..N \subseteq G
    <3> HIDE DEF G
    <3>. QED
      BY <2>5, <2>6, UpTo
  <2>8. \A n \in 1..N : Prefix(n) /\ Cover(n)
    BY <2>7
  <2>. QED
    BY <2>8 DEF Prefix, Cover
<1>. QED
  BY <1>1, <1>2

\* The parts ss stand in the sequence w one behind the other: part i after the
\* first off[i] elements, and nothing between.
StandAt(w, ss, off) ==
    /\ \A i \in 1..Len(ss) : /\ off[i] + Len(ss[i]) <= Len(w)
                             /\ \A k \in 1..Len(ss[i]) : w[off[i] + k] = ss[i][k]
    /\ \A i, j \in 1..Len(ss) : i < j => off[i] + Len(ss[i]) <= off[j]
    /\ \A p \in 1..Len(w) :
         \E i \in 1..Len(ss) : \E k \in 1..Len(ss[i]) : p = off[i] + k

\* So do the parts of a flattened sequence.
LEMMA FlattenParts ==
  ASSUME NEW S, NEW ss \in Seq(Seq(S)), Len(ss) # 0
  PROVE  /\ FlattenSeq(ss) \in Seq(S)
         /\ \E off \in [1..Len(ss) -> Nat] : StandAt(FlattenSeq(ss), ss, off)
<1> DEFINE N == Len(ss)
           flatten == CHOOSE f : Concatenates(f, ss, N)
<1>1. N \in Nat \ {0} /\ \A i \in 1..N : ss[i] \in Seq(S)
  OBVIOUS
<1>2. FlattenSeq(ss) = flatten[N]
  BY DEF FlattenSeq, Concatenates
<1> HIDE DEF N
<1>3. Concatenates(flatten, ss, N)
  <2>1. N \in Nat
    BY <1>1
  <2>2. \E f : Concatenates(f, ss, N)
    BY <2>1, FlattenIsDefined
  <2>. QED
    BY <2>2
<1>4. PICK f : f = flatten
  OBVIOUS
<1>5. FlattenSeq(ss) = f[N]
  BY <1>2, <1>4
<1> HIDE DEF flatten
<1>6. f = [i \in 1..N |-> IF i = 1 THEN ss[i] ELSE f[i - 1] \o ss[i]]
  <2>1. Concatenates(f, ss, N)
    BY <1>3, <1>4
  <2>. QED
    BY <2>1, Zenon DEF Concatenates
<1>7. AreParts(S, ss, N) /\ AreBeginnings(ss, N, f)
  BY <1>1, <1>6 DEF AreParts, AreBeginnings
<1>8. PICK off : off = [i \in 1..N |-> IF i = 1 THEN 0 ELSE Len(f[i - 1])]
  OBVIOUS
<1>9. AreOffsets(f, N, off)
  BY <1>8 DEF AreOffsets
<1>10. \A n \in 1..N : /\ f[n] \in Seq(S) /\ off[n] \in Nat
                       /\ Len(f[n]) = off[n] + Len(ss[n])
                       /\ \A k \in 1..Len(ss[n]) : f[n][off[n] + k] = ss[n][k]
  BY <1>1, <1>7, <1>9, Beginnings
<1>11. \A n \in 1..N :
           /\ \A i \in 1..n : /\ Len(f[i]) <= Len(f[n])
                              /\ \A p \in 1..Len(f[i]) : f[n][p] = f[i][p]
           /\ \A p \in 1..Len(f[n]) :
                \E i \in 1..n : \E k \in 1..Len(ss[i]) : p = off[i] + k
  BY <1>1, <1>7, <1>9, BeginningsGrow
<1>12. N \in 1..N
  BY <1>1
<1>13. off \in [1..N -> Nat]
  <2>1. \A i \in 1..N : (IF i = 1 THEN 0 ELSE Len(f[i - 1])) \in Nat
    <3> TAKE i \in 1..N
    <3>1. i = 1 \/ i - 1 \in 1..N
      BY <1>1
    <3>. QED
      BY <1>10, <3>1
  <2>. QED
    BY <1>8, <2>1
<1>14. ASSUME NEW i \in 1..N
       PROVE  /\ off[i] + Len(ss[i]) <= Len(f[N])
              /\ \A k \in 1..Len(ss[i]) : f[N][off[i] + k] = ss[i][k]
  <2>1. /\ Len(f[i]) <= Len(f[N])
        /\ \A p \in 1..Len(f[i]) : f[N][p] = f[i][p]
    BY <1>11, <1>12
  <2>2. Len(f[i]) = off[i] + Len(ss[i]) /\ off[i] \in Nat /\ Len(ss[i]) \in Nat
    <3>1. ss[i] \in Seq(S)
      BY <1>1
    <3>. QED
      BY <1>10, <3>1
  <2>3. \A k \in 1..Len(ss[i]) : off[i] + k \in 1..Len(f[i])
    BY <2>2
  <2>. QED
    BY <1>10, <2>1, <2>2, <2>3
<1>15. ASSUME NEW i \in 1..N, NEW j \in 1..N, i < j
       PROVE  off[i] + Len(ss[i]) <= off[j]
  <2>1. j - 1 \in 1..N /\ i \in 1..(j - 1) /\ j # 1
    BY <1>1, <1>15
  <2>2. off[j] = Len(f[j - 1])
    BY <1>9, <2>1 DEF AreOffsets
  <2>3. Len(f[i]) <= Len(f[j - 1])
    BY <1>11, <2>1
  <2>4. Len(f[i]) = off[i] + Len(ss[i])
    BY <1>10
  <2>. QED
    BY <2>2, <2>3, <2>4
<1>16. f[N] \in Seq(S)
  BY <1>10, <1>12
<1>17. \A p \in 1..Len(f[N]) :
           \E i \in 1..N : \E k \in 1..Len(ss[i]) : p = off[i] + k
  BY <1>11, <1>12
<1>18. StandAt(f[N], ss, off)
  BY <1>14, <1>15, <1>17 DEF StandAt, N
<1>. QED
  BY <1>5, <1>13, <1>16, <1>18 DEF N

LEMMA FlattenPlaces ==
  ASSUME NEW S, NEW ss \in Seq(Seq(S))
  PROVE  /\ FlattenSeq(ss) \in Seq(S)
         /\ \E off \in [1..Len(ss) -> Nat] : StandAt(FlattenSeq(ss), ss, off)
<1>1. CASE Len(ss) = 0
  <2>1. FlattenSeq(ss) = ss /\ ss = <<>>
    BY <1>1 DEF FlattenSeq
  <2>2. PICK off : off = [i \in {} |-> 0]
    OBVIOUS
  <2>3. off \in [1..Len(ss) -> Nat] /\ ss \in Seq(S)
    BY <1>1, <2>1, <2>2
  <2>4. StandAt(ss, ss, off)
    BY <1>1 DEF StandAt
  <2>. QED
    BY <2>1, <2>3, <2>4
<1>. QED
  BY <1>1, FlattenParts

(***************************************************************************)
(* The plans.                                                              *)
(***************************************************************************)

Name == Service \cup {Minio}
Op == {"networkCreate", "networkRm", "pull", "volumeCreate", "volumeRm", "initTask",
       "create", "start", "stop", "rm"}
Command == [op : Op, service : Name, allowFailure : BOOLEAN]

\* A sequence of different services.
AreServices(ss) == ss \in Seq(Service) /\ IsInjective(ss)

Removal == {"rm", "volumeRm", "networkRm"}
Creation == {"networkCreate", "volumeCreate", "create"}

\* The command of P with this operation for this service.
Does(P, i, op, s) == i \in 1..Len(P) /\ P[i].op = op /\ P[i].service = s

\* How the commands of a plan follow each other.
Ordered(P) ==
    /\ P \in Seq(Command)
    /\ \A i \in 1..Len(P) : P[i].op = "volumeRm" =>
         \E j \in 1..Len(P) : j < i /\ P[j].op = "rm" /\ P[j].service = P[i].service
    /\ \A i, j \in 1..Len(P) : P[i].op \in Removal /\ P[j].op \in Creation => i < j
    /\ \A i, j \in 1..Len(P) : P[i].op = "rm" /\ P[j].op = "networkRm" => i < j
    /\ \A i \in 1..Len(P) : P[i].op = "create" => ~P[i].allowFailure
    /\ \A i, j \in 1..Len(P) :
         P[i].op = "create" /\ P[j].op = "create" /\ P[i].service = P[j].service => i = j

\* P removes everything of the services ss.
TakesDown(P, ss) ==
    /\ \A s \in Range(ss) : /\ \E i \in 1..Len(P) : Does(P, i, "rm", s)
                            /\ s \in HasVolume => \E i \in 1..Len(P) : Does(P, i, "volumeRm", s)
    /\ \E i \in 1..Len(P) : P[i].op = "networkRm"

OnlyRemoves(P) == \A i \in 1..Len(P) : P[i].op \in Removal /\ P[i].allowFailure

\* P creates the network once, and then the containers of the services ss.
BringsUp(P, ss) ==
    /\ \A s \in Range(ss) : \E i \in 1..Len(P) : Does(P, i, "create", s)
    /\ \A i \in 1..Len(P) : P[i].op = "create" => P[i].service \in Range(ss)
    /\ \A i, j \in 1..Len(P) : P[i].op = "networkCreate" /\ P[j].op = "create" => i < j
    /\ \A i, j \in 1..Len(P) : P[i].op = "networkCreate" /\ P[j].op = "networkCreate" => i = j
    /\ \A i \in 1..Len(P) :
         P[i].op = "networkCreate" => (P[i].allowFailure <=> runtime # "docker")

RemovesNothing(P) == \A i \in 1..Len(P) : P[i].op \notin Removal

LEMMA ServicesAreServices ==
  ASSUME NEW cf PROVE AreServices(createLocalStackServices(cf))
<1>1. AreServices(Services)
  BY StackAssumption DEF AreServices
<1>2. CASE \E i \in 1..Len(Services) : Services[i] = Minio
  <2> DEFINE m == SelectInSeq(Services, LAMBDA v : v = Minio)
             I == {i \in 1..Len(Services) : Services[i] = Minio}
  <2>1. m = Min(I)
    BY <1>2 DEF SelectInSeq
  <2>2. \E x \in I : \A y \in I : x <= y
    <3>1. I # {} /\ I \subseteq Nat
      BY <1>2
    <3> HIDE DEF I
    <3>. QED
      BY <3>1, HasLeast
  <2>3. m \in 1..Len(Services)
    BY <2>1, <2>2 DEF Min
  <2> HIDE DEF m
  <2> DEFINE L == Len(Services)
             a == SubSeq(Services, 1, m - 1)
             b == SubSeq(Services, m + 1, L)
  <2>4. L \in Nat /\ \A i \in 1..L : Services[i] \in Service
    BY <1>1 DEF AreServices
  <2>5. /\ a \in Seq(Service) /\ Len(a) = m - 1
        /\ \A i \in 1..(m - 1) : a[i] = Services[i]
    BY <2>3, <2>4, SubSeqProperties
  <2>6. /\ b \in Seq(Service) /\ Len(b) = L - m
        /\ \A i \in 1..(L - m) : b[i] = Services[m + i]
    BY <2>3, <2>4, SubSeqProperties
  <2> HIDE DEF a, b, L
  <2>7. a \o b \in Seq(Service) /\ Len(a \o b) = L - 1
    <3>1. m \in 1..L /\ (m - 1) + (L - m) = L - 1
      BY <2>3, <2>4 DEF L
    <3>2. a \o b \in Seq(Service) /\ Len(a \o b) = Len(a) + Len(b)
      BY <2>5, <2>6, ConcatProperties
    <3>. QED
      BY <2>5, <2>6, <3>1, <3>2
  <2>8. \A i \in 1..(L - 1) : (a \o b)[i] = Services[IF i < m THEN i ELSE i + 1]
    <3> TAKE i \in 1..(L - 1)
    <3>1. m \in 1..L /\ (m - 1) + (L - m) = L - 1
      BY <2>3, <2>4 DEF L
    <3>2. (a \o b)[i] = IF i <= m - 1 THEN a[i] ELSE b[i - (m - 1)]
      BY <2>4, <2>5, <2>6, <3>1, ConcatProperties
    <3>3. CASE i < m
      <4>1. i \in 1..(m - 1) /\ i <= m - 1
        BY <2>4, <3>1, <3>3
      <4>. QED
        BY <2>5, <3>2, <3>3, <4>1
    <3>4. CASE ~(i < m)
      <4>1. i - (m - 1) \in 1..(L - m) /\ ~(i <= m - 1) /\ m + (i - (m - 1)) = i + 1
        BY <2>4, <3>1, <3>4
      <4>. QED
        BY <2>6, <3>2, <3>4, <4>1
    <3>. QED
      BY <3>3, <3>4
  <2>9. IsInjective(a \o b)
    <3> SUFFICES ASSUME NEW i \in 1..(L - 1), NEW j \in 1..(L - 1), (a \o b)[i] = (a \o b)[j]
                 PROVE  i = j
      BY <2>7 DEF IsInjective
    <3> DEFINE x == IF i < m THEN i ELSE i + 1
               y == IF j < m THEN j ELSE j + 1
    <3>1. m \in 1..L
      BY <2>3 DEF L
    <3>2. x \in 1..L /\ y \in 1..L /\ (x = y => i = j)
      BY <2>4, <3>1
    <3>3. Services[x] = Services[y]
      BY <2>8
    <3>4. x = y
      BY <1>1, <3>2, <3>3 DEF AreServices, IsInjective, L
    <3>. QED
      BY <3>2, <3>4
  <2>10. RemoveFirst(Services, Minio) = a \o b
    BY <1>2 DEF RemoveFirst, RemoveAt, a, b, m, L
  <2>. QED
    BY <1>1, <2>7, <2>9, <2>10 DEF createLocalStackServices, AreServices
<1>3. CASE ~\E i \in 1..Len(Services) : Services[i] = Minio
  BY <1>1, <1>3 DEF createLocalStackServices, RemoveFirst
<1>. QED
  BY <1>2, <1>3

\* One service's part of the plan of destroy.
LEMMA DestroyPart ==
  ASSUME NEW s \in Name
  PROVE  /\ destroyService(s) \in Seq(Command)
         /\ Len(destroyService(s)) = IF s \in HasVolume THEN 2 ELSE 1
         /\ destroyService(s)[1] = AllowFailure("rm", s)
         /\ s \in HasVolume => destroyService(s)[2] = AllowFailure("volumeRm", s)
<1>1. AllowFailure("rm", s) \in Command /\ AllowFailure("volumeRm", s) \in Command
  BY DEF AllowFailure, Command, Op
<1>2. CASE s \in HasVolume
  BY <1>1, <1>2 DEF destroyService
<1>3. CASE s \notin HasVolume
  BY <1>1, <1>3 DEF destroyService
<1>. QED
  BY <1>2, <1>3

\* One service's part of the plan of start.
LEMMA StartPart ==
  ASSUME NEW s \in Name
  PROVE  /\ startService(s) \in Seq(Command)
         /\ \E k \in 1..Len(startService(s)) : startService(s)[k] = Cmd("create", s)
         /\ \A k \in 1..Len(startService(s)) :
              /\ startService(s)[k].service = s
              /\ startService(s)[k].op \in {"pull", "volumeCreate", "initTask", "create", "start"}
              /\ startService(s)[k].op = "create" =>
                   k = Len(startService(s)) - 1 /\ ~startService(s)[k].allowFailure
<1> DEFINE p == Cmd("pull", s)
           v == AllowFailure("volumeCreate", s)
           t == Cmd("initTask", s)
           c == Cmd("create", s)
           g == Cmd("start", s)
<1>1. p \in Command /\ v \in Command /\ t \in Command /\ c \in Command /\ g \in Command
  BY DEF AllowFailure, Cmd, Command, Op
<1>2. /\ p.service = s /\ v.service = s /\ t.service = s /\ c.service = s /\ g.service = s
      /\ p.op = "pull" /\ v.op = "volumeCreate" /\ t.op = "initTask" /\ c.op = "create"
      /\ g.op = "start" /\ ~c.allowFailure /\ c = Cmd("create", s)
  BY DEF AllowFailure, Cmd
<1> HIDE DEF p, v, t, c, g
<1>3. startService(s) = <<p>> \o (IF s \in InitTasks THEN <<p>> ELSE <<>>)
                        \o (IF s \in HasVolume THEN <<v>> ELSE <<>>)
                        \o (IF s \in InitTasks THEN <<t>> ELSE <<>>) \o <<c, g>>
  BY DEF startService, p, v, t, c, g
<1>4. CASE s \in InitTasks /\ s \in HasVolume
  <2>1. /\ startService(s) \in Seq(Command) /\ Len(startService(s)) = 6
        /\ startService(s)[1] = p /\ startService(s)[2] = p /\ startService(s)[3] = v
        /\ startService(s)[4] = t /\ startService(s)[5] = c /\ startService(s)[6] = g
    <3> DEFINE y == <<p>> \o <<p>> \o <<v>>
    <3>1. startService(s) = y \o <<t>> \o <<c, g>>
      BY <1>3, <1>4
    <3>2. y \in Seq(Command) /\ Len(y) = 3 /\ y[1] = p /\ y[2] = p /\ y[3] = v
      BY <1>1
    <3> HIDE DEF y
    <3>3. PICK w, e : w = <<t>> /\ e = <<c, g>>
      OBVIOUS
    <3>4. /\ w \in Seq(Command) /\ Len(w) = 1 /\ w[1] = t
          /\ e \in Seq(Command) /\ Len(e) = 2 /\ e[1] = c /\ e[2] = g
      BY <1>1, <3>3
    <3> DEFINE z == y \o w
    <3>5. startService(s) = z \o e
      BY <3>1, <3>3
    <3>6. z \in Seq(Command) /\ Len(z) = 4 /\ (\A i \in 1..3 : z[i] = y[i]) /\ z[4] = t
      <4>1. /\ z \in Seq(Command) /\ Len(z) = Len(y) + Len(w)
            /\ \A i \in 1..Len(y) : z[i] = y[i]
            /\ \A i \in 1..Len(w) : z[Len(y) + i] = w[i]
        <5>1. y \in Seq(Command) /\ w \in Seq(Command)
          BY <3>2, <3>4
        <5>. QED
          BY <5>1, Concatenated
      <4> HIDE DEF z
      <4>2. z[3 + 1] = t
        BY <3>2, <3>4, <4>1
      <4>. QED
        BY <3>2, <3>4, <4>1, <4>2
    <3> HIDE DEF z
    <3>7. /\ startService(s) \in Seq(Command) /\ Len(startService(s)) = 6
          /\ \A i \in 1..4 : startService(s)[i] = z[i]
          /\ startService(s)[5] = c /\ startService(s)[6] = g
      <4>1. /\ startService(s) \in Seq(Command) /\ Len(startService(s)) = Len(z) + Len(e)
            /\ \A i \in 1..Len(z) : startService(s)[i] = z[i]
            /\ \A i \in 1..Len(e) : startService(s)[Len(z) + i] = e[i]
        <5>1. z \in Seq(Command) /\ e \in Seq(Command)
          BY <3>4, <3>6
        <5>. QED
          BY <3>5, <5>1, Concatenated
      <4>2. startService(s)[4 + 1] = c /\ startService(s)[4 + 2] = g
        BY <3>4, <3>6, <4>1
      <4>. QED
        BY <3>4, <3>6, <4>1, <4>2
    <3>. QED
      BY <3>2, <3>6, <3>7
  <2>2. \A k \in 1..6 : k = 1 \/ k = 2 \/ k = 3 \/ k = 4 \/ k = 5 \/ k = 6
    OBVIOUS
  <2>3. 5 \in 1..6 /\ 5 = 6 - 1
    OBVIOUS
  <2>. QED
    BY <1>2, <2>1, <2>2, <2>3
<1>5. CASE s \in InitTasks /\ s \notin HasVolume
  <2>1. /\ startService(s) \in Seq(Command) /\ Len(startService(s)) = 5
        /\ startService(s)[1] = p /\ startService(s)[2] = p /\ startService(s)[3] = t
        /\ startService(s)[4] = c /\ startService(s)[5] = g
    BY <1>1, <1>3, <1>5
  <2>2. \A k \in 1..5 : k = 1 \/ k = 2 \/ k = 3 \/ k = 4 \/ k = 5
    OBVIOUS
  <2>3. 4 \in 1..5 /\ 4 = 5 - 1
    OBVIOUS
  <2>. QED
    BY <1>2, <2>1, <2>2, <2>3
<1>6. CASE s \notin InitTasks /\ s \in HasVolume
  <2>1. /\ startService(s) \in Seq(Command) /\ Len(startService(s)) = 4
        /\ startService(s)[1] = p /\ startService(s)[2] = v /\ startService(s)[3] = c
        /\ startService(s)[4] = g
    BY <1>1, <1>3, <1>6
  <2>2. \A k \in 1..4 : k = 1 \/ k = 2 \/ k = 3 \/ k = 4
    OBVIOUS
  <2>3. 3 \in 1..4 /\ 3 = 4 - 1
    OBVIOUS
  <2>. QED
    BY <1>2, <2>1, <2>2, <2>3
<1>7. CASE s \notin InitTasks /\ s \notin HasVolume
  <2>1. /\ startService(s) \in Seq(Command) /\ Len(startService(s)) = 3
        /\ startService(s)[1] = p /\ startService(s)[2] = c /\ startService(s)[3] = g
    BY <1>1, <1>3, <1>7
  <2>2. \A k \in 1..3 : k = 1 \/ k = 2 \/ k = 3
    OBVIOUS
  <2>3. 2 \in 1..3 /\ 2 = 3 - 1
    OBVIOUS
  <2>. QED
    BY <1>2, <2>1, <2>2, <2>3
<1>. QED
  BY <1>4, <1>5, <1>6, <1>7

\* The services' parts of the plan of destroy.
LEMMA DestroyParts ==
  ASSUME NEW ss, AreServices(ss)
  PROVE  LET F == ForEach(ss, destroyService)
         IN /\ F \in Seq(Command)
            /\ \A i \in 1..Len(F) : /\ F[i].op \in {"rm", "volumeRm"} /\ F[i].allowFailure
                                    /\ F[i].op = "volumeRm" =>
                                         \E j \in 1..Len(F) : j < i /\ Does(F, j, "rm", F[i].service)
            /\ \A s \in Range(ss) :
                 /\ \E i \in 1..Len(F) : Does(F, i, "rm", s)
                 /\ s \in HasVolume => \E i \in 1..Len(F) : Does(F, i, "volumeRm", s)
<1> DEFINE pp == [i \in DOMAIN ss |-> destroyService(ss[i])]
           F == FlattenSeq(pp)
<1>1. ss \in Seq(Service) /\ DOMAIN ss = 1..Len(ss) /\ Len(ss) \in Nat
  BY DEF AreServices
<1>2. \A i \in 1..Len(ss) : ss[i] \in Name
  BY <1>1 DEF Name
<1>3. /\ pp \in Seq(Seq(Command)) /\ Len(pp) = Len(ss)
      /\ \A i \in 1..Len(ss) : pp[i] = destroyService(ss[i])
  BY <1>1, <1>2, DestroyPart
<1> HIDE DEF pp
<1>4. F \in Seq(Command)
  BY <1>3, FlattenPlaces
<1>5. PICK off \in [1..Len(pp) -> Nat] : StandAt(F, pp, off)
  BY <1>3, FlattenPlaces
<1>6. ForEach(ss, destroyService) = F
  BY DEF ForEach, pp
<1> HIDE DEF F
<1>7. PICK n \in Nat : n = Len(F)
  BY <1>4
<1>8. ASSUME NEW i \in 1..Len(ss)
      PROVE  /\ off[i] + 1 \in 1..n
             /\ Does(F, off[i] + 1, "rm", ss[i]) /\ F[off[i] + 1].allowFailure
             /\ ss[i] \in HasVolume =>
                  /\ off[i] + 2 \in 1..n
                  /\ Does(F, off[i] + 2, "volumeRm", ss[i]) /\ F[off[i] + 2].allowFailure
  <2>1. /\ off[i] \in Nat /\ off[i] + Len(pp[i]) <= n
        /\ \A k \in 1..Len(pp[i]) : F[off[i] + k] = pp[i][k]
    BY <1>3, <1>5, <1>7 DEF StandAt
  <2>2. /\ Len(pp[i]) = IF ss[i] \in HasVolume THEN 2 ELSE 1
        /\ pp[i][1] = AllowFailure("rm", ss[i])
        /\ ss[i] \in HasVolume => pp[i][2] = AllowFailure("volumeRm", ss[i])
    BY <1>2, <1>3, DestroyPart
  <2>3. 1 \in 1..Len(pp[i]) /\ off[i] + 1 \in 1..n
    BY <1>7, <2>1, <2>2
  <2>4. ss[i] \in HasVolume => 2 \in 1..Len(pp[i]) /\ off[i] + 2 \in 1..n
    BY <1>7, <2>1, <2>2
  <2>5. F[off[i] + 1] = AllowFailure("rm", ss[i])
    BY <2>1, <2>2, <2>3
  <2>6. ss[i] \in HasVolume => F[off[i] + 2] = AllowFailure("volumeRm", ss[i])
    BY <2>1, <2>2, <2>4
  <2>. QED
    BY <1>7, <2>3, <2>4, <2>5, <2>6 DEF Does, AllowFailure
<1>9. ASSUME NEW p \in 1..n
      PROVE  \E i \in 1..Len(ss) :
               \/ p = off[i] + 1
               \/ p = off[i] + 2 /\ ss[i] \in HasVolume
  <2>1. PICK i \in 1..Len(ss) : \E k \in 1..Len(pp[i]) : p = off[i] + k
    BY <1>3, <1>5, <1>7 DEF StandAt
  <2>2. Len(pp[i]) = IF ss[i] \in HasVolume THEN 2 ELSE 1
    BY <1>2, <1>3, DestroyPart
  <2>3. \A k \in 1..Len(pp[i]) : k = 1 \/ (k = 2 /\ ss[i] \in HasVolume)
    <3>1. CASE ss[i] \in HasVolume
      BY <2>2, <3>1
    <3>2. CASE ss[i] \notin HasVolume
      <4>1. Len(pp[i]) = 1
        BY <2>2, <3>2
      <4>2. \A k \in 1..1 : k = 1
        OBVIOUS
      <4>. QED
        BY <4>1, <4>2
    <3>. QED
      BY <3>1, <3>2
  <2>. QED
    BY <2>1, <2>3
<1>10. ASSUME NEW p \in 1..n
       PROVE  /\ F[p].op \in {"rm", "volumeRm"} /\ F[p].allowFailure
              /\ F[p].op = "volumeRm" =>
                   \E j \in 1..n : j < p /\ Does(F, j, "rm", F[p].service)
  <2>1. PICK i \in 1..Len(ss) : \/ p = off[i] + 1
                                \/ p = off[i] + 2 /\ ss[i] \in HasVolume
    BY <1>9
  <2>2. off[i] \in Nat
    BY <1>3, <1>5
  <2>3. CASE p = off[i] + 1
    BY <1>8, <2>3 DEF Does
  <2>4. CASE p = off[i] + 2 /\ ss[i] \in HasVolume
    <3>1. /\ F[p].op = "volumeRm" /\ F[p].service = ss[i] /\ F[p].allowFailure
          /\ Does(F, off[i] + 1, "rm", ss[i])
      BY <1>8, <2>4 DEF Does
    <3>2. off[i] + 1 < p /\ off[i] + 1 \in 1..n
      BY <1>8, <2>2, <2>4
    <3>. QED
      BY <3>1, <3>2
  <2>. QED
    BY <2>1, <2>3, <2>4
<1>11. ASSUME NEW s \in Range(ss)
       PROVE  /\ \E i \in 1..n : Does(F, i, "rm", s)
              /\ s \in HasVolume => \E i \in 1..n : Does(F, i, "volumeRm", s)
  <2>1. PICK i \in 1..Len(ss) : s = ss[i]
    BY <1>1 DEF Range
  <2>. QED
    BY <1>8, <2>1
<1>. QED
  BY <1>4, <1>6, <1>7, <1>10, <1>11

LEMMA DestroyPlan ==
  ASSUME NEW ss, AreServices(ss)
  PROVE  Ordered(planDestroy(ss)) /\ TakesDown(planDestroy(ss), ss) /\ OnlyRemoves(planDestroy(ss))
<1> DEFINE F == ForEach(ss, destroyService)
           e == <<AllowFailure("networkRm", Minio)>>
           D == planDestroy(ss)
<1>1. /\ F \in Seq(Command)
      /\ \A i \in 1..Len(F) : /\ F[i].op \in {"rm", "volumeRm"} /\ F[i].allowFailure
                              /\ F[i].op = "volumeRm" =>
                                   \E j \in 1..Len(F) : j < i /\ Does(F, j, "rm", F[i].service)
      /\ \A s \in Range(ss) :
           /\ \E i \in 1..Len(F) : Does(F, i, "rm", s)
           /\ s \in HasVolume => \E i \in 1..Len(F) : Does(F, i, "volumeRm", s)
  BY DestroyParts
<1>2. D = F \o e
  BY DEF planDestroy
<1>3. /\ e \in Seq(Command) /\ Len(e) = 1
      /\ e[1].op = "networkRm" /\ e[1].allowFailure
  BY DEF AllowFailure, Command, Op, Name
<1> HIDE DEF F, e, D
<1>4. PICK n \in Nat : n = Len(F)
  BY <1>1
<1>5. /\ D \in Seq(Command) /\ Len(D) = n + 1
      /\ \A i \in 1..n : D[i] = F[i]
      /\ D[n + 1] = e[1]
  <2>1. /\ F \o e \in Seq(Command) /\ Len(F \o e) = Len(F) + Len(e)
        /\ \A i \in 1..Len(F) : (F \o e)[i] = F[i]
        /\ \A i \in 1..Len(e) : (F \o e)[Len(F) + i] = e[i]
    <3>1. e \in Seq(Command)
      BY <1>3
    <3>. QED
      BY <1>1, <3>1, Concatenated
  <2>. QED
    BY <1>2, <1>3, <1>4, <2>1
<1>6. \A i \in 1..(n + 1) : i \in 1..n \/ i = n + 1
  OBVIOUS
<1>7. \A i \in 1..n : i \in 1..(n + 1) /\ i < n + 1
  OBVIOUS
<1>8. n + 1 \in 1..(n + 1)
  OBVIOUS
<1>9. /\ \A i \in 1..n : D[i].op \in {"rm", "volumeRm"} /\ D[i].allowFailure
      /\ D[n + 1].op = "networkRm" /\ D[n + 1].allowFailure
  BY <1>1, <1>3, <1>4, <1>5
<1>10. OnlyRemoves(D)
  BY <1>5, <1>6, <1>9 DEF OnlyRemoves, Removal
<1>11. \A op, s : \A i \in 1..n : Does(F, i, op, s) => Does(D, i, op, s)
  BY <1>4, <1>5, <1>7 DEF Does
<1>12. TakesDown(D, ss)
  BY <1>1, <1>4, <1>5, <1>7, <1>8, <1>9, <1>11 DEF TakesDown
<1>13. \A i \in 1..(n + 1) : D[i].op = "volumeRm" =>
         \E j \in 1..(n + 1) : j < i /\ D[j].op = "rm" /\ D[j].service = D[i].service
  <2> SUFFICES ASSUME NEW i \in 1..(n + 1), D[i].op = "volumeRm"
               PROVE  \E j \in 1..(n + 1) : j < i /\ D[j].op = "rm" /\ D[j].service = D[i].service
    OBVIOUS
  <2>1. i \in 1..n /\ D[i] = F[i]
    BY <1>5, <1>6, <1>9
  <2>2. PICK j \in 1..n : j < i /\ Does(F, j, "rm", F[i].service)
    BY <1>1, <1>4, <2>1
  <2>. QED
    BY <1>5, <1>7, <2>1, <2>2 DEF Does
<1>14. Ordered(D)
  <2>1. \A i \in 1..(n + 1) : D[i].op \in Removal
    BY <1>6, <1>9 DEF Removal
  <2>2. \A i \in 1..(n + 1) : D[i].op \notin Creation /\ D[i].op # "create"
    BY <2>1 DEF Removal, Creation
  <2>3. \A i, j \in 1..(n + 1) : D[i].op = "rm" /\ D[j].op = "networkRm" => i < j
    BY <1>6, <1>7, <1>9
  <2>. QED
    BY <1>5, <1>13, <2>2, <2>3 DEF Ordered
<1>. QED
  BY <1>10, <1>12, <1>14 DEF D

\* The services' parts of the plan of start.
LEMMA StartParts ==
  ASSUME NEW ss, AreServices(ss)
  PROVE  LET F == ForEach(ss, startService)
         IN /\ F \in Seq(Command)
            /\ \A i \in 1..Len(F) :
                 /\ F[i].op \in {"pull", "volumeCreate", "initTask", "create", "start"}
                 /\ F[i].service \in Range(ss)
                 /\ F[i].op = "create" => ~F[i].allowFailure
            /\ \A i, j \in 1..Len(F) :
                 F[i].op = "create" /\ F[j].op = "create" /\ F[i].service = F[j].service => i = j
            /\ \A s \in Range(ss) : \E i \in 1..Len(F) : Does(F, i, "create", s)
<1> DEFINE pp == [i \in DOMAIN ss |-> startService(ss[i])]
           F == FlattenSeq(pp)
<1>1. /\ ss \in Seq(Service) /\ DOMAIN ss = 1..Len(ss) /\ Len(ss) \in Nat
      /\ \A i, j \in 1..Len(ss) : ss[i] = ss[j] => i = j
  BY DEF AreServices, IsInjective
<1>2. \A i \in 1..Len(ss) : ss[i] \in Name
  BY <1>1 DEF Name
<1>3. /\ pp \in Seq(Seq(Command)) /\ Len(pp) = Len(ss)
      /\ \A i \in 1..Len(ss) : pp[i] = startService(ss[i])
  BY <1>1, <1>2, StartPart
<1> HIDE DEF pp
<1>4. F \in Seq(Command)
  BY <1>3, FlattenPlaces
<1>5. PICK off \in [1..Len(pp) -> Nat] : StandAt(F, pp, off)
  BY <1>3, FlattenPlaces
<1>6. ForEach(ss, startService) = F
  BY DEF ForEach, pp
<1> HIDE DEF F
<1>7. PICK n \in Nat : n = Len(F)
  BY <1>4
<1>8. ASSUME NEW i \in 1..Len(ss), NEW k \in 1..Len(pp[i])
      PROVE  /\ off[i] + k \in 1..n
             /\ F[off[i] + k].op \in {"pull", "volumeCreate", "initTask", "create", "start"}
             /\ F[off[i] + k].service = ss[i]
             /\ F[off[i] + k].op = "create" =>
                  k = Len(pp[i]) - 1 /\ ~F[off[i] + k].allowFailure
  <2>1. /\ off[i] \in Nat /\ off[i] + Len(pp[i]) <= n
        /\ F[off[i] + k] = pp[i][k] /\ Len(pp[i]) \in Nat
    BY <1>3, <1>5, <1>7 DEF StandAt
  <2>2. /\ pp[i][k].service = ss[i]
        /\ pp[i][k].op \in {"pull", "volumeCreate", "initTask", "create", "start"}
        /\ pp[i][k].op = "create" => k = Len(pp[i]) - 1 /\ ~pp[i][k].allowFailure
    <3>1. pp[i] = startService(ss[i]) /\ ss[i] \in Name
      BY <1>2, <1>3
    <3>. QED
      BY <3>1, StartPart
  <2>3. off[i] + k \in 1..n
    BY <1>7, <2>1
  <2>. QED
    BY <2>1, <2>2, <2>3
<1>9. \A p \in 1..n : \E i \in 1..Len(ss) : \E k \in 1..Len(pp[i]) : p = off[i] + k
  BY <1>3, <1>5, <1>7 DEF StandAt
<1>10. ASSUME NEW p \in 1..n
       PROVE  /\ F[p].op \in {"pull", "volumeCreate", "initTask", "create", "start"}
              /\ F[p].service \in Range(ss)
              /\ F[p].op = "create" => ~F[p].allowFailure
  <2>1. PICK i \in 1..Len(ss) : \E k \in 1..Len(pp[i]) : p = off[i] + k
    BY <1>9
  <2>2. ss[i] \in Range(ss)
    BY <1>1 DEF Range
  <2>. QED
    BY <1>8, <2>1, <2>2
<1>11. ASSUME NEW p \in 1..n, NEW q \in 1..n,
              F[p].op = "create", F[q].op = "create", F[p].service = F[q].service
       PROVE  p = q
  <2>1. PICK i \in 1..Len(ss) : \E k \in 1..Len(pp[i]) : p = off[i] + k
    BY <1>9
  <2>2. PICK j \in 1..Len(ss) : \E k \in 1..Len(pp[j]) : q = off[j] + k
    BY <1>9
  <2>3. i = j
    <3>1. F[p].service = ss[i] /\ F[q].service = ss[j]
      BY <1>8, <2>1, <2>2
    <3>. QED
      BY <1>1, <1>11, <3>1
  <2>4. p = off[i] + (Len(pp[i]) - 1) /\ q = off[j] + (Len(pp[j]) - 1)
    BY <1>8, <1>11, <2>1, <2>2
  <2>. QED
    BY <2>3, <2>4
<1>12. ASSUME NEW s \in Range(ss)
       PROVE  \E i \in 1..n : Does(F, i, "create", s)
  <2>1. PICK i \in 1..Len(ss) : s = ss[i]
    BY <1>1 DEF Range
  <2>2. PICK k \in 1..Len(pp[i]) : pp[i][k] = Cmd("create", s)
    <3>1. pp[i] = startService(s) /\ s \in Name
      BY <1>2, <1>3, <2>1
    <3>. QED
      BY <3>1, StartPart
  <2>3. F[off[i] + k] = pp[i][k]
    BY <1>3, <1>5 DEF StandAt
  <2>. QED
    BY <1>7, <1>8, <2>2, <2>3 DEF Does, Cmd
<1>. QED
  BY <1>4, <1>6, <1>7, <1>10, <1>11, <1>12

\* Nothing in the plan of start is removed, and the network comes first.
LEMMA StartPlan ==
  ASSUME NEW ss, AreServices(ss)
  PROVE  Ordered(planStart(ss)) /\ BringsUp(planStart(ss), ss) /\ RemovesNothing(planStart(ss))
<1> DEFINE F == ForEach(ss, startService)
           e == <<networkCreate>>
           T == planStart(ss)
<1>1. /\ F \in Seq(Command)
      /\ \A i \in 1..Len(F) :
           /\ F[i].op \in {"pull", "volumeCreate", "initTask", "create", "start"}
           /\ F[i].service \in Range(ss)
           /\ F[i].op = "create" => ~F[i].allowFailure
      /\ \A i, j \in 1..Len(F) :
           F[i].op = "create" /\ F[j].op = "create" /\ F[i].service = F[j].service => i = j
      /\ \A s \in Range(ss) : \E i \in 1..Len(F) : Does(F, i, "create", s)
  BY StartParts
<1>2. T = e \o F
  BY DEF planStart
<1>3. /\ e \in Seq(Command) /\ Len(e) = 1 /\ e[1].op = "networkCreate"
      /\ e[1].allowFailure <=> runtime # "docker"
  BY DEF networkCreate, Cmd, AllowFailure, Command, Op, Name
<1> HIDE DEF F, e, T
<1>4. PICK n \in Nat : n = Len(F)
  BY <1>1
<1>5. /\ T \in Seq(Command) /\ Len(T) = 1 + n
      /\ T[1] = e[1]
      /\ \A i \in 1..n : T[1 + i] = F[i]
  <2>1. /\ e \o F \in Seq(Command) /\ Len(e \o F) = Len(e) + Len(F)
        /\ \A i \in 1..Len(e) : (e \o F)[i] = e[i]
        /\ \A i \in 1..Len(F) : (e \o F)[Len(e) + i] = F[i]
    <3>1. e \in Seq(Command) /\ F \in Seq(Command)
      BY <1>1, <1>3
    <3>. QED
      BY <3>1, Concatenated, SMTT(20)
  <2>. QED
    BY <1>2, <1>3, <1>4, <2>1
<1>6. \A i \in 1..(1 + n) : i = 1 \/ (i - 1 \in 1..n /\ i = 1 + (i - 1) /\ 1 < i)
  OBVIOUS
<1>7. 1 \in 1..(1 + n) /\ \A i \in 1..n : 1 + i \in 1..(1 + n)
  OBVIOUS
<1>8. /\ T[1].op = "networkCreate" /\ (T[1].allowFailure <=> runtime # "docker")
      /\ \A i \in 1..(1 + n) : i # 1 =>
           /\ T[i].op \in {"pull", "volumeCreate", "initTask", "create", "start"}
           /\ T[i].service \in Range(ss)
           /\ T[i].op = "create" => ~T[i].allowFailure
  <2>1. \A i \in 1..(1 + n) : i # 1 => i - 1 \in 1..n /\ T[i] = F[i - 1]
    BY <1>5, <1>6
  <2>. QED
    BY <1>1, <1>3, <1>4, <1>5, <2>1
<1>9. ASSUME NEW i \in 1..(1 + n), NEW j \in 1..(1 + n),
             T[i].op = "create", T[j].op = "create", T[i].service = T[j].service
      PROVE  i = j
  <2>1. i # 1 /\ j # 1
    BY <1>8, <1>9
  <2>2. /\ i - 1 \in 1..n /\ T[i] = F[i - 1] /\ j - 1 \in 1..n /\ T[j] = F[j - 1]
    BY <1>5, <1>6, <2>1
  <2>3. i - 1 = j - 1
    BY <1>1, <1>4, <1>9, <2>2
  <2>. QED
    BY <2>3
<1>10. \A s \in Range(ss) : \E i \in 1..(1 + n) : Does(T, i, "create", s)
  <2> TAKE s \in Range(ss)
  <2>1. PICK i \in 1..n : Does(F, i, "create", s)
    BY <1>1, <1>4
  <2>2. Does(T, 1 + i, "create", s)
    BY <1>5, <1>7, <2>1 DEF Does
  <2>. QED
    BY <1>7, <2>2
<1>11. \A i \in 1..(1 + n) : T[i].op \notin Removal
  BY <1>8 DEF Removal
<1>12. Ordered(T)
  BY <1>5, <1>8, <1>9, <1>11 DEF Ordered, Removal
<1>13. BringsUp(T, ss)
  BY <1>5, <1>6, <1>8, <1>10 DEF BringsUp
<1>14. RemovesNothing(T)
  BY <1>5, <1>11 DEF RemovesNothing
<1>. QED
  BY <1>12, <1>13, <1>14 DEF T

LEMMA StopPlan ==
  ASSUME NEW ss, AreServices(ss)
  PROVE  /\ Ordered(planStop(ss))
         /\ \A i \in 1..Len(planStop(ss)) : /\ planStop(ss)[i].op = "stop"
                                            /\ planStop(ss)[i].allowFailure
<1> DEFINE pp == [i \in DOMAIN ss |-> <<AllowFailure("stop", ss[i])>>]
           F == FlattenSeq(pp)
<1>1. ss \in Seq(Service) /\ DOMAIN ss = 1..Len(ss) /\ Len(ss) \in Nat
  BY DEF AreServices
<1>2. \A s \in Service : /\ <<AllowFailure("stop", s)>> \in Seq(Command)
                         /\ Len(<<AllowFailure("stop", s)>>) = 1
                         /\ <<AllowFailure("stop", s)>>[1].op = "stop"
                         /\ <<AllowFailure("stop", s)>>[1].allowFailure
  BY DEF AllowFailure, Command, Op, Name
<1>3. /\ pp \in Seq(Seq(Command)) /\ Len(pp) = Len(ss)
      /\ \A i \in 1..Len(ss) : /\ Len(pp[i]) = 1
                               /\ pp[i][1].op = "stop" /\ pp[i][1].allowFailure
  BY <1>1, <1>2
<1> HIDE DEF pp
<1>4. F \in Seq(Command)
  BY <1>3, FlattenPlaces
<1>5. PICK off \in [1..Len(pp) -> Nat] : StandAt(F, pp, off)
  BY <1>3, FlattenPlaces
<1>6. planStop(ss) = F
  BY DEF planStop, ForEach, pp
<1> HIDE DEF F
<1>7. \A p \in 1..Len(F) : F[p].op = "stop" /\ F[p].allowFailure
  <2> TAKE p \in 1..Len(F)
  <2>1. PICK i \in 1..Len(pp) : \E k \in 1..Len(pp[i]) : p = off[i] + k
    BY <1>5 DEF StandAt
  <2>2. \A k \in 1..1 : k = 1
    OBVIOUS
  <2>3. Len(pp[i]) = 1 /\ 1 \in 1..1
    BY <1>3
  <2>4. p = off[i] + 1
    BY <2>1, <2>2, <2>3
  <2>5. F[off[i] + 1] = pp[i][1]
    BY <1>5, <2>3 DEF StandAt
  <2>. QED
    BY <1>3, <2>4, <2>5
<1>8. Ordered(F)
  BY <1>4, <1>7 DEF Ordered, Removal
<1>. QED
  BY <1>6, <1>7, <1>8

\* What a plan of destroy and a plan of start do is done by one after the
\* other, all of the first before any of the second.
LEMMA DownThenUp ==
  ASSUME NEW ss, NEW P, Ordered(P), TakesDown(P, ss), OnlyRemoves(P),
         NEW Q, Ordered(Q), BringsUp(Q, ss), RemovesNothing(Q)
  PROVE  Ordered(P \o Q) /\ TakesDown(P \o Q, ss) /\ BringsUp(P \o Q, ss)
<1>1. P \in Seq(Command) /\ Q \in Seq(Command)
  BY DEF Ordered
<1>2. PICK m \in Nat, n \in Nat : m = Len(P) /\ n = Len(Q)
  BY <1>1
<1>3. PICK R : R = P \o Q
  OBVIOUS
<1>4. /\ R \in Seq(Command) /\ Len(R) = m + n
      /\ \A i \in 1..m : R[i] = P[i]
      /\ \A i \in 1..n : R[m + i] = Q[i]
  <2>1. /\ P \o Q \in Seq(Command) /\ Len(P \o Q) = Len(P) + Len(Q)
        /\ \A i \in 1..Len(P) : (P \o Q)[i] = P[i]
        /\ \A i \in 1..Len(Q) : (P \o Q)[Len(P) + i] = Q[i]
    BY <1>1, Concatenated
  <2>. QED
    BY <1>2, <1>3, <2>1
<1>5. \A i \in 1..(m + n) : i \in 1..m \/ (i - m \in 1..n /\ i = m + (i - m) /\ m < i)
  OBVIOUS
<1>6. /\ \A i \in 1..m : i \in 1..(m + n) /\ i <= m
      /\ \A i \in 1..n : m + i \in 1..(m + n) /\ m < m + i
  OBVIOUS
<1>7. \A i \in 1..m : R[i].op \in Removal
  BY <1>2, <1>4 DEF OnlyRemoves
<1>8. \A i \in 1..(m + n) : i \notin 1..m => /\ R[i].op \notin Removal
                                           /\ i - m \in 1..n /\ R[i] = Q[i - m] /\ m < i
  BY <1>2, <1>4, <1>5 DEF RemovesNothing
<1>9. Removal \cap Creation = {} /\ "create" \in Creation /\ "networkCreate" \in Creation
  BY DEF Removal, Creation
<1>10. \A i \in 1..(m + n) : R[i].op \in Creation => i \notin 1..m
  BY <1>7, <1>9
<1>11. Ordered(R)
  <2>1. ASSUME NEW i \in 1..(m + n), R[i].op = "volumeRm"
        PROVE  \E j \in 1..(m + n) : j < i /\ R[j].op = "rm" /\ R[j].service = R[i].service
    <3>1. i \in 1..m
      BY <1>8, <2>1 DEF Removal
    <3>2. PICK j \in 1..m : j < i /\ P[j].op = "rm" /\ P[j].service = P[i].service
      BY <1>2, <1>4, <2>1, <3>1 DEF Ordered
    <3>. QED
      BY <1>4, <1>6, <3>1, <3>2
  <2>2. ASSUME NEW i \in 1..(m + n), NEW j \in 1..(m + n), R[i].op \in Removal, R[j].op \in Creation
        PROVE  i < j
    <3>1. i \in 1..m /\ m < j
      BY <1>8, <1>10, <2>2
    <3>. QED
      BY <1>6, <3>1
  <2>3. ASSUME NEW i \in 1..(m + n), NEW j \in 1..(m + n), R[i].op = "rm", R[j].op = "networkRm"
        PROVE  i < j
    <3>1. i \in 1..m /\ j \in 1..m
      BY <1>8, <2>3 DEF Removal
    <3>. QED
      BY <1>2, <1>4, <2>3, <3>1 DEF Ordered
  <2>4. ASSUME NEW i \in 1..(m + n), R[i].op = "create" PROVE ~R[i].allowFailure
    <3>1. i - m \in 1..n /\ R[i] = Q[i - m]
      BY <1>8, <1>9, <1>10, <2>4
    <3>. QED
      BY <1>2, <2>4, <3>1 DEF Ordered
  <2>5. ASSUME NEW i \in 1..(m + n), NEW j \in 1..(m + n),
               R[i].op = "create", R[j].op = "create", R[i].service = R[j].service
        PROVE  i = j
    <3>1. i - m \in 1..n /\ R[i] = Q[i - m] /\ j - m \in 1..n /\ R[j] = Q[j - m]
      BY <1>8, <1>9, <1>10, <2>5
    <3>2. i - m = j - m
      BY <1>2, <2>5, <3>1 DEF Ordered
    <3>. QED
      BY <3>2
  <2>. QED
    BY <1>4, <2>1, <2>2, <2>3, <2>4, <2>5 DEF Ordered
<1>12. TakesDown(R, ss)
  <2>1. \A op, s : \A i \in 1..m : Does(P, i, op, s) => Does(R, i, op, s) /\ i \in 1..(m + n)
    BY <1>2, <1>4, <1>6 DEF Does
  <2>. QED
    BY <1>2, <1>4, <1>6, <2>1 DEF TakesDown
<1>13. BringsUp(R, ss)
  <2>1. \A s \in Range(ss) : \E i \in 1..(m + n) : Does(R, i, "create", s)
    <3> TAKE s \in Range(ss)
    <3>1. PICK i \in 1..n : Does(Q, i, "create", s)
      BY <1>2 DEF BringsUp
    <3>2. Does(R, m + i, "create", s) /\ m + i \in 1..(m + n)
      BY <1>2, <1>4, <1>6, <3>1 DEF Does
    <3>. QED
      BY <3>2
  <2>2. \A i \in 1..(m + n) : R[i].op \in {"create", "networkCreate"} =>
          i - m \in 1..n /\ R[i] = Q[i - m]
    BY <1>8, <1>9, <1>10
  <2>3. ASSUME NEW i \in 1..(m + n), NEW j \in 1..(m + n), R[i].op = "networkCreate", R[j].op = "create"
        PROVE  i < j
    <3>1. i - m \in 1..n /\ R[i] = Q[i - m] /\ j - m \in 1..n /\ R[j] = Q[j - m]
      BY <2>2, <2>3
    <3>2. i - m < j - m
      BY <1>2, <2>3, <3>1 DEF BringsUp
    <3>. QED
      BY <3>2
  <2>4. \A i \in 1..(m + n) : R[i].op = "create" => R[i].service \in Range(ss)
    BY <1>2, <2>2 DEF BringsUp
  <2>5. \A i \in 1..(m + n) :
          R[i].op = "networkCreate" => (R[i].allowFailure <=> runtime # "docker")
    BY <1>2, <2>2 DEF BringsUp
  <2>6. ASSUME NEW i \in 1..(m + n), NEW j \in 1..(m + n),
               R[i].op = "networkCreate", R[j].op = "networkCreate"
        PROVE  i = j
    <3>1. i - m \in 1..n /\ R[i] = Q[i - m] /\ j - m \in 1..n /\ R[j] = Q[j - m]
      BY <2>2, <2>6
    <3>2. i - m = j - m
      BY <1>2, <2>6, <3>1 DEF BringsUp
    <3>. QED
      BY <3>2
  <2>. QED
    BY <1>4, <2>1, <2>3, <2>4, <2>5, <2>6 DEF BringsUp
<1>. QED
  BY <1>3, <1>11, <1>12, <1>13

(***************************************************************************)
(* The inductive invariant.                                                *)
(***************************************************************************)

\* The commands a run is working through, and those it has passed.
runs(c) == IF phase[c] = "plan" THEN plan(c)
           ELSE IF phase[c] = "rollback" THEN rollbackPlan(c) ELSE <<>>
Behind(c) == {i \in DOMAIN runs(c) : i < at[c]}
Passed(c, op, s) ==
    \E i \in Behind(c) : runs(c)[i].op = op /\ runs(c)[i].service = s
PassedAny(c, op) == \E i \in Behind(c) : runs(c)[i].op = op

\* A run that is alone is the only one under way.
Solo(c) ==
    phase[c] \in Active /\ alone[c] => \A d \in Cli \ {c} : phase[d] \notin Active

\* Only a start or a reset prepares, waits and rolls back.
Route(c) ==
    /\ phase[c] \in {"idle", "config"} => at[c] = 1
    /\ phase[c] \in {"config", "waiting", "rollback"} => Starts(cmd[c])

\* What a run has removed is gone until the run makes it anew, and what it has
\* made is there and its own.
ContainersOf(c) ==
    \A s \in Service : /\ Passed(c, "rm", s) /\ ~Passed(c, "create", s) => ~HasContainer(s)
                       /\ Passed(c, "create", s) => HasContainer(s) /\ madeBy[s] = c
VolumesOf(c) ==
    \A s \in HasVolume :
      /\ Passed(c, "volumeRm", s) =>
           \/ volume[s] = NoCli
           \/ volume[s] = c /\ (Passed(c, "volumeCreate", s) \/ Passed(c, "create", s))
      /\ Passed(c, "create", s) => volume[s] # NoCli
NetworkOf(c) ==
    PassedAny(c, "networkRm") /\ ~PassedAny(c, "networkCreate") /\ network =>
        \E s \in Service : HasContainer(s)

Clean(c) == ContainersOf(c) /\ VolumesOf(c) /\ NetworkOf(c)

\* After its plan a reset or a destroy has what it promises.
Fresh(c) ==
    \A s \in Range(servicesOf(c)) : madeBy[s] = c /\ (s \in HasVolume => volume[s] = c)
Settled(c) ==
    /\ phase[c] \in {"waiting", "recording"} /\ cmd[c] = "reset" => Fresh(c)
    /\ phase[c] = "recording" /\ cmd[c] = "destroy" => NothingLeft(c)

IInv ==
    /\ TypeOK
    /\ \A c \in Cli : /\ Solo(c) /\ Route(c)
                      /\ phase[c] \in Active /\ alone[c] => Clean(c) /\ Settled(c)

(***************************************************************************)
(* One command.                                                            *)
(***************************************************************************)

\* What one command does to containers, volumes and the network.
Effect(c, k, ok) ==
    /\ \A s \in Service :
         LET removed == k.op = "rm" /\ k.service = s
             created == k.op = "create" /\ k.service = s /\ ok
         IN /\ HasContainer(s)' <=> ~removed /\ (created \/ HasContainer(s))
            /\ madeBy'[s] = IF removed THEN NoCli ELSE IF created THEN c ELSE madeBy[s]
    /\ \A s \in HasVolume :
         LET removed == k.op = "volumeRm" /\ k.service = s /\ ~HasContainer(s)
             created == /\ k.service = s /\ volume[s] = NoCli
                        /\ k.op = "volumeCreate" \/ (k.op = "create" /\ ok)
         IN volume'[s] = IF removed THEN NoCli ELSE IF created THEN c ELSE volume[s]
    /\ k.op \notin {"networkCreate", "networkRm"} => network' = network
    /\ k.op = "networkRm" /\ network' => \E s \in Service : HasContainer(s)

RuntimeTypes ==
    /\ network \in BOOLEAN
    /\ container \in [Service -> {"missing", "created", "running", "stopped"}]
    /\ madeBy \in [Service -> Cli \cup {NoCli}]
    /\ volume \in [HasVolume -> Cli \cup {NoCli}]

LEMMA CommandHasEffect ==
  ASSUME RuntimeTypes, NEW c \in Cli, NEW k, NEW ok \in BOOLEAN, runCommand(c, k, ok)
  PROVE  Effect(c, k, ok) /\ RuntimeTypes'
<1>1. CASE k.op = "networkCreate" /\ NetworkCreate(ok)
  BY <1>1 DEF NetworkCreate, Effect, RuntimeTypes, HasContainer
<1>2. CASE k.op = "networkRm" /\ NetworkRemove(ok)
  BY <1>2 DEF NetworkRemove, Effect, RuntimeTypes, HasContainer
<1>3. CASE k.op \in {"pull", "initTask"} /\ FetchOrTask(ok)
  BY <1>3 DEF FetchOrTask, runtimeVars, Effect, RuntimeTypes, HasContainer
<1>4. CASE k.op = "volumeCreate" /\ VolumeCreate(c, k.service, ok)
  BY <1>4 DEF VolumeCreate, Effect, RuntimeTypes, HasContainer
<1>5. CASE k.op = "volumeRm" /\ VolumeRemove(k.service, ok)
  BY <1>5 DEF VolumeRemove, Effect, RuntimeTypes, HasContainer
<1>6. CASE k.op = "create" /\ ContainerCreate(c, k.service, ok)
  BY <1>6, ServiceAssumption DEF ContainerCreate, Effect, RuntimeTypes, HasContainer
<1>7. CASE k.op = "start" /\ ContainerStart(k.service, ok)
  BY <1>7 DEF ContainerStart, Effect, RuntimeTypes, HasContainer
<1>8. CASE k.op = "stop" /\ ContainerStop(k.service, ok)
  BY <1>8 DEF ContainerStop, Effect, RuntimeTypes, HasContainer
<1>9. CASE k.op = "rm" /\ ContainerRemove(k.service, ok)
  BY <1>9 DEF ContainerRemove, Effect, RuntimeTypes, HasContainer
<1>. QED
  BY <1>1, <1>2, <1>3, <1>4, <1>5, <1>6, <1>7, <1>8, <1>9 DEF runCommand

\* A run that goes on to the next command of an ordered plan stays clean.
LEMMA CommandKeepsClean ==
  ASSUME RuntimeTypes, NEW c \in Cli, NEW P, Ordered(P), NEW n \in 1..Len(P), NEW ok \in BOOLEAN,
         runs(c) = P, runs(c)' = P, at[c] = n, at'[c] = n + 1,
         Clean(c), Effect(c, P[n], ok), ok \/ P[n].allowFailure
  PROVE  Clean(c)'
<1>1. P \in Seq(Command) /\ DOMAIN P = 1..Len(P) /\ Len(P) \in Nat
  BY DEF Ordered
<1>2. Behind(c) = {i \in 1..Len(P) : i < n}
  BY <1>1 DEF Behind
<1>3. Behind(c)' = Behind(c) \cup {n}
  <2>1. Behind(c)' = {i \in 1..Len(P) : i < n + 1}
    BY <1>1 DEF Behind
  <2>. QED
    BY <1>1, <1>2, <2>1
<1>4. \A op, s : Passed(c, op, s)' <=> Passed(c, op, s) \/ (P[n].op = op /\ P[n].service = s)
  BY <1>3 DEF Passed
<1>5. \A op : PassedAny(c, op)' <=> PassedAny(c, op) \/ P[n].op = op
  BY <1>3 DEF PassedAny
<1>6. ASSUME NEW op \in Creation, NEW s, Passed(c, op, s)
      PROVE  P[n].op \notin Removal
  <2> SUFFICES ASSUME P[n].op \in Removal PROVE FALSE
    OBVIOUS
  <2>1. PICK i \in 1..Len(P) : i < n /\ P[i].op = op
    BY <1>2, <1>6 DEF Passed
  <2>2. n < i
    BY <1>6, <2>1 DEF Ordered
  <2>. QED
    BY <1>1, <2>1, <2>2
<1>7. P[n].op = "create" => ok
  BY DEF Ordered
<1>8. ASSUME P[n].op = "volumeRm"
      PROVE  Passed(c, "rm", P[n].service) /\ ~Passed(c, "create", P[n].service)
  <2>1. Passed(c, "rm", P[n].service)
    BY <1>2, <1>8 DEF Ordered, Passed
  <2>. QED
    BY <1>6, <1>8, <2>1 DEF Creation, Removal
<1>9. P[n].op = "rm" => ~PassedAny(c, "networkRm")
  <2> SUFFICES ASSUME P[n].op = "rm", PassedAny(c, "networkRm") PROVE FALSE
    OBVIOUS
  <2>1. PICK i \in 1..Len(P) : i < n /\ P[i].op = "networkRm"
    BY <1>2 DEF PassedAny
  <2>2. n < i
    BY <2>1 DEF Ordered
  <2>. QED
    BY <1>1, <2>1, <2>2
<1>10. ContainersOf(c)'
  <2> SUFFICES ASSUME NEW s \in Service
               PROVE  /\ Passed(c, "rm", s)' /\ ~Passed(c, "create", s)' => ~HasContainer(s)'
                      /\ Passed(c, "create", s)' => HasContainer(s)' /\ madeBy'[s] = c
    BY DEF ContainersOf
  <2>1. /\ Passed(c, "rm", s) /\ ~Passed(c, "create", s) => ~HasContainer(s)
        /\ Passed(c, "create", s) => HasContainer(s) /\ madeBy[s] = c
    BY DEF Clean, ContainersOf
  <2>2. LET removed == P[n].op = "rm" /\ P[n].service = s
            created == P[n].op = "create" /\ P[n].service = s /\ ok
        IN /\ HasContainer(s)' <=> ~removed /\ (created \/ HasContainer(s))
           /\ madeBy'[s] = IF removed THEN NoCli ELSE IF created THEN c ELSE madeBy[s]
    BY DEF Effect
  <2>3. Passed(c, "create", s) => P[n].op # "rm"
    BY <1>6 DEF Creation, Removal
  <2>. QED
    BY <1>4, <1>7, <2>1, <2>2, <2>3
<1>11. VolumesOf(c)'
  <2> SUFFICES ASSUME NEW s \in HasVolume
               PROVE  /\ Passed(c, "volumeRm", s)' =>
                           \/ volume'[s] = NoCli
                           \/ /\ volume'[s] = c
                              /\ Passed(c, "volumeCreate", s)' \/ Passed(c, "create", s)'
                      /\ Passed(c, "create", s)' => volume'[s] # NoCli
    BY DEF VolumesOf
  <2>1. /\ Passed(c, "volumeRm", s) =>
             \/ volume[s] = NoCli
             \/ volume[s] = c /\ (Passed(c, "volumeCreate", s) \/ Passed(c, "create", s))
        /\ Passed(c, "create", s) => volume[s] # NoCli
    BY DEF Clean, VolumesOf
  <2>2. LET removed == P[n].op = "volumeRm" /\ P[n].service = s /\ ~HasContainer(s)
            created == /\ P[n].service = s /\ volume[s] = NoCli
                       /\ P[n].op = "volumeCreate" \/ (P[n].op = "create" /\ ok)
        IN volume'[s] = IF removed THEN NoCli ELSE IF created THEN c ELSE volume[s]
    BY DEF Effect
  <2>3. Passed(c, "create", s) => P[n].op # "volumeRm"
    BY <1>6 DEF Creation, Removal
  <2>4. P[n].op = "volumeRm" /\ P[n].service = s => ~HasContainer(s)
    BY <1>8, ServiceAssumption DEF Clean, ContainersOf
  <2>5. c # NoCli
    BY ServiceAssumption
  <2>. QED
    BY <1>4, <1>7, <2>1, <2>2, <2>3, <2>4, <2>5
<1>12. NetworkOf(c)'
  <2> SUFFICES ASSUME PassedAny(c, "networkRm")', ~PassedAny(c, "networkCreate")', network'
               PROVE  \E s \in Service : HasContainer(s)'
    BY DEF NetworkOf
  <2>1. P[n].op # "networkCreate" /\ ~PassedAny(c, "networkCreate")
    BY <1>5
  <2>2. CASE P[n].op = "networkRm"
    <3>1. PICK s \in Service : HasContainer(s)
      BY <2>2 DEF Effect
    <3>. QED
      BY <2>2, <3>1 DEF Effect
  <2>3. CASE P[n].op # "networkRm"
    <3>1. PassedAny(c, "networkRm") /\ P[n].op # "rm"
      BY <1>5, <1>9, <2>3
    <3>2. network
      BY <2>1, <2>3 DEF Effect
    <3>3. PICK s \in Service : HasContainer(s)
      BY <2>1, <3>1, <3>2 DEF Clean, NetworkOf
    <3>. QED
      BY <3>1, <3>3 DEF Effect
  <2>. QED
    BY <2>2, <2>3
<1>. QED
  BY <1>10, <1>11, <1>12 DEF Clean

(***************************************************************************)
(* What a run works through.                                               *)
(***************************************************************************)

LEMMA CommandPlans ==
  ASSUME NEW command \in Commands, NEW cf
  PROVE  LET ss == createLocalStackServices(cf)
             P == commandPlan(command, ss)
         IN /\ AreServices(ss) /\ Ordered(P)
            /\ command = "destroy" => TakesDown(P, ss) /\ OnlyRemoves(P)
            /\ command = "reset" => TakesDown(P, ss) /\ BringsUp(P, ss)
            /\ ~Starts(command) => \A i \in 1..Len(P) : P[i].allowFailure
<1> DEFINE ss == createLocalStackServices(cf)
           P == commandPlan(command, ss)
<1>1. AreServices(ss)
  BY ServicesAreServices
<1> HIDE DEF ss
<1>2. CASE command = "start"
  <2>1. P = planStart(ss) /\ Starts(command)
    BY <1>2 DEF commandPlan, Starts
  <2>. QED
    BY <1>1, <1>2, <2>1, StartPlan DEF ss
<1>3. CASE command = "stop"
  <2>1. P = planStop(ss)
    BY <1>3 DEF commandPlan
  <2>. QED
    BY <1>1, <1>3, <2>1, StopPlan DEF ss
<1>4. CASE command = "destroy"
  <2>1. P = planDestroy(ss)
    BY <1>4 DEF commandPlan
  <2>2. Ordered(P) /\ TakesDown(P, ss) /\ OnlyRemoves(P)
    BY <1>1, <2>1, DestroyPlan
  <2>. QED
    BY <1>1, <1>4, <2>2 DEF ss, OnlyRemoves
<1>5. CASE command = "reset"
  <2>1. P = planDestroy(ss) \o planStart(ss) /\ Starts(command)
    BY <1>5 DEF commandPlan, Starts
  <2>2. Ordered(P) /\ TakesDown(P, ss) /\ BringsUp(P, ss)
    BY <1>1, <2>1, DestroyPlan, StartPlan, DownThenUp
  <2>. QED
    BY <1>1, <1>5, <2>1, <2>2 DEF ss
<1>. QED
  BY <1>2, <1>3, <1>4, <1>5 DEF Commands

LEMMA RunsOf ==
  ASSUME TypeOK, NEW c \in Cli, Route(c)
  PROVE  /\ runs(c) = <<>> \/ Ordered(runs(c))
         /\ phase[c] \in {"plan", "rollback"} => Ordered(runs(c))
         /\ \/ phase[c] = "rollback"
            \/ phase[c] = "plan" /\ cmd[c] = "destroy"
            => TakesDown(runs(c), servicesOf(c)) /\ OnlyRemoves(runs(c))
         /\ phase[c] = "plan" /\ cmd[c] = "reset" =>
              TakesDown(runs(c), servicesOf(c)) /\ BringsUp(runs(c), servicesOf(c))
         /\ phase[c] = "plan" /\ ~Starts(cmd[c]) =>
              \A i \in 1..Len(runs(c)) : runs(c)[i].allowFailure
<1>1. cmd[c] \in Commands
  BY DEF TypeOK
<1>2. CASE phase[c] = "plan"
  <2>1. runs(c) = commandPlan(cmd[c], createLocalStackServices(conf[c]))
    BY <1>2 DEF runs, plan, servicesOf
  <2>. QED
    BY <1>1, <1>2, <2>1, CommandPlans DEF servicesOf
<1>3. CASE phase[c] = "rollback"
  <2>1. runs(c) = planDestroy(servicesOf(c))
    BY <1>3 DEF runs, rollbackPlan, Route
  <2>2. AreServices(servicesOf(c))
    BY ServicesAreServices DEF servicesOf
  <2>. QED
    BY <1>3, <2>1, <2>2, DestroyPlan
<1>4. CASE phase[c] \notin {"plan", "rollback"}
  BY <1>4 DEF runs
<1>. QED
  BY <1>2, <1>3, <1>4

LEMMA RunsAreCommands ==
  TypeOK => \A c \in Cli : runs(c) \in Seq(Command)
<1> SUFFICES ASSUME TypeOK, NEW c \in Cli PROVE runs(c) \in Seq(Command)
  OBVIOUS
<1>1. cmd[c] \in Commands
  BY DEF TypeOK
<1>2. CASE phase[c] = "plan"
  <2>1. runs(c) = commandPlan(cmd[c], createLocalStackServices(conf[c]))
    BY <1>2 DEF runs, plan, servicesOf
  <2>. QED
    BY <1>1, <2>1, CommandPlans DEF Ordered
<1>3. CASE phase[c] = "rollback" /\ Starts(cmd[c])
  <2>1. runs(c) = planDestroy(servicesOf(c))
    BY <1>3 DEF runs, rollbackPlan
  <2>2. AreServices(servicesOf(c))
    BY ServicesAreServices DEF servicesOf
  <2>. QED
    BY <2>1, <2>2, DestroyPlan DEF Ordered
<1>4. CASE phase[c] # "plan" /\ ~(phase[c] = "rollback" /\ Starts(cmd[c]))
  <2>1. runs(c) = <<>>
    BY <1>4 DEF runs, rollbackPlan
  <2>. QED
    BY <2>1
<1>. QED
  BY <1>2, <1>3, <1>4

LEMMA RunsStayCommands ==
  (TypeOK => \A c \in Cli : runs(c) \in Seq(Command))'
BY RunsAreCommands, PTL

\* A run that has not begun with its plan has nothing behind it.
LEMMA AtTheStart ==
  ASSUME TypeOK', NEW c \in Cli, at'[c] = 1 \/ phase'[c] \notin {"plan", "rollback"}
  PROVE  Clean(c)'
<1>1. (runs(c) \in Seq(Command))'
  BY RunsStayCommands
<1>2. PICK P : P = runs(c)'
  OBVIOUS
<1>3. P \in Seq(Command) /\ DOMAIN P = 1..Len(P)
  BY <1>1, <1>2
<1>4. phase'[c] \notin {"plan", "rollback"} => Len(P) = 0
  BY <1>2 DEF runs
<1>5. \A i \in DOMAIN P : ~(i < at'[c])
  BY <1>3, <1>4
<1>6. Behind(c)' = {}
  BY <1>2, <1>5 DEF Behind
<1>. QED
  BY <1>6 DEF Clean, ContainersOf, VolumesOf, NetworkOf, Passed, PassedAny

(***************************************************************************)
(* What nobody disturbs.                                                   *)
(***************************************************************************)

LEMMA SameRuns ==
  ASSUME NEW c \in Cli, runtime' = runtime, phase'[c] = phase[c], cmd'[c] = cmd[c],
         conf'[c] = conf[c]
  PROVE  runs(c)' = runs(c)
<1>1. servicesOf(c)' = servicesOf(c)
  BY DEF servicesOf
<1>2. networkCreate' = networkCreate
  BY DEF networkCreate
<1>3. plan(c)' = plan(c)
  BY <1>1, <1>2 DEF plan, commandPlan, planStart
<1>4. rollbackPlan(c)' = rollbackPlan(c)
  BY <1>1 DEF rollbackPlan
<1>. QED
  BY <1>3, <1>4 DEF runs

\* Containers come and go with the runs' commands only.
SameStock ==
    /\ network' = network /\ madeBy' = madeBy /\ volume' = volume
    /\ \A s \in Service : HasContainer(s)' <=> HasContainer(s)

LEMMA SameClean ==
  ASSUME TypeOK, SameStock, NEW c \in Cli, runtime' = runtime, phase'[c] = phase[c],
         cmd'[c] = cmd[c], conf'[c] = conf[c], at'[c] = at[c], Clean(c)
  PROVE  Clean(c)'
<1>1. runs(c)' = runs(c)
  BY SameRuns
<1>2. Behind(c)' = Behind(c)
  BY <1>1 DEF Behind
<1>3. /\ \A op, s : Passed(c, op, s)' <=> Passed(c, op, s)
      /\ \A op : PassedAny(c, op)' <=> PassedAny(c, op)
  BY <1>1, <1>2 DEF Passed, PassedAny
<1>4. ContainersOf(c)'
  BY <1>3 DEF SameStock, Clean, ContainersOf
<1>5. VolumesOf(c)'
  BY <1>3 DEF SameStock, Clean, VolumesOf
<1>6. NetworkOf(c)'
  BY <1>3 DEF SameStock, Clean, NetworkOf
<1>. QED
  BY <1>4, <1>5, <1>6 DEF Clean

LEMMA SameEnd ==
  ASSUME SameStock, NEW c \in Cli, cmd'[c] = cmd[c], conf'[c] = conf[c],
         Range(servicesOf(c)) \subseteq Service
  PROVE  /\ Fresh(c) => Fresh(c)'
         /\ NothingLeft(c) => NothingLeft(c)'
<1>1. servicesOf(c)' = servicesOf(c)
  BY DEF servicesOf
<1>2. Fresh(c) => Fresh(c)'
  BY <1>1 DEF Fresh, SameStock
<1>3. ASSUME NothingLeft(c) PROVE NothingLeft(c)'
  BY <1>1, <1>3 DEF NothingLeft, SameStock
<1>. QED
  BY <1>2, <1>3

LEMMA ServicesInRange ==
  ASSUME NEW c \in Cli
  PROVE  Range(servicesOf(c)) \subseteq Service
<1>1. AreServices(servicesOf(c))
  BY ServicesAreServices DEF servicesOf
<1>2. servicesOf(c) \in Seq(Service)
  BY <1>1 DEF AreServices
<1>. QED
  BY <1>2 DEF Range

(***************************************************************************)
(* At the end of a plan.                                                   *)
(***************************************************************************)

LEMMA AllDown ==
  ASSUME NEW c \in Cli, NEW P, P = runs(c), P \in Seq(Command), at[c] \in Nat, at[c] > Len(P),
         TakesDown(P, servicesOf(c)), OnlyRemoves(P), Clean(c)
  PROVE  NothingLeft(c)
<1>1. Behind(c) = 1..Len(P) /\ Len(P) \in Nat
  BY DEF Behind
<1>2. \A op : PassedAny(c, op) => op \in Removal
  BY <1>1 DEF PassedAny, OnlyRemoves
<1>3. \A op, s : Passed(c, op, s) => op \in Removal
  BY <1>1 DEF Passed, OnlyRemoves
<1>4. ASSUME NEW s \in Range(servicesOf(c))
      PROVE  ~HasContainer(s) /\ (s \in HasVolume => volume[s] = NoCli)
  <2>1. s \in Service
    BY ServicesInRange
  <2>2. Passed(c, "rm", s) /\ (s \in HasVolume => Passed(c, "volumeRm", s))
    BY <1>1 DEF TakesDown, Does, Passed
  <2>3. ~Passed(c, "create", s) /\ ~Passed(c, "volumeCreate", s)
    BY <1>3 DEF Removal
  <2>4. ~HasContainer(s)
    BY <2>1, <2>2, <2>3 DEF Clean, ContainersOf
  <2>5. s \in HasVolume => volume[s] = NoCli
    BY <2>2, <2>3 DEF Clean, VolumesOf
  <2>. QED
    BY <2>4, <2>5
<1>5. PassedAny(c, "networkRm") /\ ~PassedAny(c, "networkCreate")
  BY <1>1, <1>2 DEF TakesDown, PassedAny, Removal
<1>6. network => \E s \in Service : HasContainer(s)
  BY <1>5 DEF Clean, NetworkOf
<1>. QED
  BY <1>4, <1>6 DEF NothingLeft

LEMMA AllUp ==
  ASSUME NEW c \in Cli, NEW P, P = runs(c), P \in Seq(Command), at[c] \in Nat, at[c] > Len(P),
         TakesDown(P, servicesOf(c)), BringsUp(P, servicesOf(c)), Clean(c)
  PROVE  Fresh(c)
<1>1. Behind(c) = 1..Len(P) /\ Len(P) \in Nat
  BY DEF Behind
<1>. SUFFICES ASSUME NEW s \in Range(servicesOf(c))
              PROVE  madeBy[s] = c /\ (s \in HasVolume => volume[s] = c)
  BY DEF Fresh
<1>2. s \in Service
  BY ServicesInRange
<1>3. Passed(c, "create", s)
  BY <1>1 DEF BringsUp, Does, Passed
<1>4. s \in HasVolume => Passed(c, "volumeRm", s)
  BY <1>1 DEF TakesDown, Does, Passed
<1>5. madeBy[s] = c
  BY <1>2, <1>3 DEF Clean, ContainersOf
<1>6. s \in HasVolume => volume[s] = c
  BY <1>3, <1>4 DEF Clean, VolumesOf
<1>. QED
  BY <1>5, <1>6

(***************************************************************************)
(* What a step of one run leaves to the others, and the types.             *)
(***************************************************************************)

\* A step under way changes its own run only.
OwnStep(c) ==
    /\ phase[c] \in Active
    /\ cmd' = cmd /\ conf' = conf /\ alone' = alone
    /\ \A d \in Cli \ {c} : phase'[d] = phase[d] /\ at'[d] = at[d]

LEMMA RunStepIsOwn ==
  ASSUME TypeOK, NEW c \in Cli, RunStep(c)
  PROVE  OwnStep(c) /\ phase'[c] # "idle" /\ phase'[c] # "config"
<1>. USE DEF TypeOK, OwnStep, Active, Go
<1>1. CASE PrepareConfig(c)
  BY <1>1 DEF PrepareConfig
<1>2. CASE ExecuteCommand(c)
  <2>1. PICK ok \in BOOLEAN : \/ at' = [at EXCEPT ![c] = @ + 1] /\ UNCHANGED phase
                              \/ Go(c, "rollback")
    BY <1>2 DEF ExecuteCommand
  <2>. QED
    BY <1>2, <2>1 DEF ExecuteCommand
<1>3. CASE PlanDone(c)
  BY <1>3 DEF PlanDone
<1>4. CASE RollBack(c)
  BY <1>4 DEF RollBack
<1>5. CASE RolledBack(c)
  BY <1>5 DEF RolledBack
<1>6. CASE \E s \in Service : ServiceReady(c, s)
  BY <1>6 DEF ServiceReady
<1>7. CASE ServicesReady(c)
  BY <1>7 DEF ServicesReady
<1>8. CASE ReadinessTimesOut(c)
  BY <1>8 DEF ReadinessTimesOut
<1>9. CASE RecordRunningConfig(c)
  BY <1>9 DEF RecordRunningConfig
<1>. QED
  BY <1>1, <1>2, <1>3, <1>4, <1>5, <1>6, <1>7, <1>8, <1>9 DEF RunStep

LEMMA RunStepTypes ==
  ASSUME TypeOK, NEW c \in Cli, RunStep(c), runtime' = runtime
  PROVE  TypeOK'
<1>1. RuntimeTypes
  BY DEF TypeOK, RuntimeTypes
<1>2. ASSUME RuntimeTypes' PROVE
      /\ network' \in BOOLEAN
      /\ container' \in [Service -> {"missing", "created", "running", "stopped"}]
      /\ madeBy' \in [Service -> Cli \cup {NoCli}]
      /\ volume' \in [HasVolume -> Cli \cup {NoCli}]
  BY <1>2 DEF RuntimeTypes
<1>3. CASE PrepareConfig(c)
  <2>1. RuntimeTypes'
    BY <1>1, <1>3 DEF PrepareConfig, NetworkCreate, RuntimeTypes, runtimeVars
  <2>. QED
    BY <1>2, <1>3, <2>1 DEF TypeOK, PrepareConfig, Go, Active, Ended
<1>4. CASE ExecuteCommand(c)
  <2>1. PICK ok \in BOOLEAN : /\ runCommand(c, plan(c)[at[c]], ok)
                              /\ \/ at' = [at EXCEPT ![c] = @ + 1] /\ UNCHANGED phase
                                 \/ Go(c, "rollback")
    BY <1>4 DEF ExecuteCommand
  <2>2. RuntimeTypes'
    BY <1>1, <2>1, CommandHasEffect
  <2>3. UNCHANGED <<snapshot, cmd, conf, ready, alone>>
    BY <1>4 DEF ExecuteCommand
  <2>4. /\ at' \in [Cli -> Nat \ {0}]
        /\ phase' \in [Cli -> {"idle"} \cup Active \cup Ended]
    BY <2>1 DEF TypeOK, Go, Active
  <2>. QED
    BY <1>2, <2>2, <2>3, <2>4 DEF TypeOK
<1>5. CASE RollBack(c)
  <2>1. PICK ok \in BOOLEAN : runCommand(c, rollbackPlan(c)[at[c]], ok)
    BY <1>5 DEF RollBack
  <2>2. RuntimeTypes'
    BY <1>1, <2>1, CommandHasEffect
  <2>3. UNCHANGED <<snapshot, phase, cmd, conf, ready, alone>> /\ at' \in [Cli -> Nat \ {0}]
    BY <1>5 DEF RollBack, TypeOK
  <2>. QED
    BY <1>2, <2>2, <2>3 DEF TypeOK
<1>6. ASSUME UNCHANGED runtimeVars PROVE RuntimeTypes'
  BY <1>1, <1>6 DEF runtimeVars, RuntimeTypes
<1>7. CASE PlanDone(c)
  BY <1>2, <1>6, <1>7 DEF TypeOK, PlanDone, Go, Active
<1>8. CASE RolledBack(c)
  BY <1>2, <1>6, <1>8 DEF TypeOK, RolledBack, Go, Ended
<1>9. CASE \E s \in Service : ServiceReady(c, s)
  BY <1>2, <1>6, <1>9 DEF TypeOK, ServiceReady
<1>10. CASE ServicesReady(c)
  BY <1>2, <1>6, <1>10 DEF TypeOK, ServicesReady, Go, Active
<1>11. CASE ReadinessTimesOut(c)
  BY <1>2, <1>6, <1>11 DEF TypeOK, ReadinessTimesOut, Go, Active
<1>12. CASE RecordRunningConfig(c)
  BY <1>2, <1>6, <1>12 DEF TypeOK, RecordRunningConfig, Go, Ended
<1>. QED
  BY <1>3, <1>4, <1>5, <1>7, <1>8, <1>9, <1>10, <1>11, <1>12 DEF RunStep

LEMMA TypesStart ==
  Init => TypeOK
<1> SUFFICES ASSUME Init PROVE TypeOK
  OBVIOUS
<1>1. (CHOOSE cf \in Configs : TRUE) \in Configs
  BY StackAssumption
<1>2. PICK cf \in Configs : cf = CHOOSE x \in Configs : TRUE
  BY <1>1
<1>3. /\ conf = [c \in Cli |-> cf]
      /\ at = [c \in Cli |-> 1] /\ ready = [c \in Cli |-> {}] /\ alone = [c \in Cli |-> TRUE]
      /\ phase = [c \in Cli |-> "idle"] /\ cmd = [c \in Cli |-> "stop"]
      /\ runtime \in Runtimes /\ snapshot = NoCli
  BY <1>2 DEF Init
<1>4. /\ network = FALSE /\ container = [s \in Service |-> "missing"]
      /\ madeBy = [s \in Service |-> NoCli] /\ volume = [s \in HasVolume |-> NoCli]
  BY DEF Init, RuntimeInit
<1>5. /\ network \in BOOLEAN
      /\ container \in [Service -> {"missing", "created", "running", "stopped"}]
      /\ madeBy \in [Service -> Cli \cup {NoCli}]
      /\ volume \in [HasVolume -> Cli \cup {NoCli}]
  BY <1>4
<1>6. phase \in [Cli -> {"idle"} \cup Active \cup Ended] /\ cmd \in [Cli -> Commands]
  BY <1>3 DEF Commands
<1>7. conf \in [Cli -> Configs] /\ at \in [Cli -> Nat \ {0}]
  BY <1>3
<1>8. ready \in [Cli -> SUBSET Service] /\ alone \in [Cli -> BOOLEAN]
  BY <1>3
<1>. QED
  BY <1>3, <1>5, <1>6, <1>7, <1>8 DEF TypeOK

LEMMA TypesKept ==
  ASSUME TypeOK, [Next]_vars
  PROVE  TypeOK'
<1>1. CASE \E c \in Cli : (Invoke(c) \/ RunStep(c) \/ Kill(c)) /\ UNCHANGED runtime
  <2>1. PICK c \in Cli : (Invoke(c) \/ RunStep(c) \/ Kill(c)) /\ runtime' = runtime
    BY <1>1
  <2>2. CASE Invoke(c)
    <3>1. PICK command \in Commands, cf \in Configs, next \in {"plan", "refused", "config"} :
            /\ cmd' = [cmd EXCEPT ![c] = command]
            /\ conf' = [conf EXCEPT ![c] = cf]
            /\ phase' = [phase EXCEPT ![c] = next]
      BY <2>2 DEF Invoke
    <3>2. PICK others : alone' = [d \in Cli |-> IF d = c THEN others = {} ELSE d \notin others]
      BY <2>2 DEF Invoke
    <3>3. alone' \in [Cli -> BOOLEAN]
      BY <3>2
    <3>4. /\ phase' \in [Cli -> {"idle"} \cup Active \cup Ended]
          /\ cmd' \in [Cli -> Commands] /\ conf' \in [Cli -> Configs]
      BY <3>1 DEF TypeOK, Active, Ended
    <3>5. UNCHANGED <<runtimeVars, snapshot, at, ready>>
      BY <2>2 DEF Invoke
    <3>. QED
      BY <2>1, <3>3, <3>4, <3>5 DEF TypeOK, runtimeVars
  <2>3. CASE RunStep(c)
    BY <2>1, <2>3, RunStepTypes
  <2>4. CASE Kill(c)
    BY <2>1, <2>4 DEF Kill, TypeOK, Go, runtimeVars, Ended
  <2>. QED
    BY <2>1, <2>2, <2>3, <2>4
<1>2. CASE HostGoesDown
  <2>1. container' \in [Service -> {"missing", "created", "running", "stopped"}]
    BY <1>2 DEF HostGoesDown, HostStops, TypeOK
  <2>. QED
    BY <1>2, <2>1 DEF HostGoesDown, HostStops, TypeOK, cliVars
<1>3. CASE UNCHANGED vars
  BY <1>3 DEF vars, cliVars, runtimeVars, TypeOK
<1>. QED
  BY <1>1, <1>2, <1>3 DEF Next, AllEnded

(***************************************************************************)
(* The invariant is kept by a step of the run itself.                      *)
(***************************************************************************)

\* What the invariant says of one run.
Holds(c) == Route(c) /\ (phase[c] \in Active /\ alone[c] => Clean(c) /\ Settled(c))

LEMMA UnsettledPhases ==
  ASSUME NEW c \in Cli, phase'[c] \notin {"waiting", "recording"}
  PROVE  Settled(c)'
BY DEF Settled

LEMMA StockStays ==
  ASSUME UNCHANGED runtimeVars
  PROVE  SameStock
BY DEF runtimeVars, SameStock, HasContainer

LEMMA InvokeHolds ==
  ASSUME TypeOK, TypeOK', NEW c \in Cli, Invoke(c), Route(c)
  PROVE  Holds(c)'
<1>1. PICK command \in Commands, next \in {"plan", "refused", "config"} :
        /\ cmd' = [cmd EXCEPT ![c] = command] /\ phase' = [phase EXCEPT ![c] = next]
        /\ next = "config" => Starts(command)
  BY DEF Invoke
<1>2. cmd'[c] = command /\ phase'[c] = next
  BY <1>1 DEF TypeOK
<1>3. at'[c] = 1
  BY DEF Invoke, Route
<1>4. Route(c)'
  BY <1>1, <1>2, <1>3 DEF Route, Starts
<1>5. Clean(c)' /\ Settled(c)'
  BY <1>2, <1>3, AtTheStart, UnsettledPhases
<1>. QED
  BY <1>4, <1>5 DEF Holds

\* The next command of the run's plan, or of its rollback.
LEMMA CommandHolds ==
  ASSUME TypeOK, NEW c \in Cli, Route(c), phase[c] \in {"plan", "rollback"}, Clean(c),
         at[c] <= Len(runs(c)), NEW ok \in BOOLEAN, runCommand(c, runs(c)[at[c]], ok),
         ok \/ runs(c)[at[c]].allowFailure, at'[c] = at[c] + 1, runtime' = runtime,
         phase' = phase, cmd' = cmd, conf' = conf
  PROVE  Clean(c)' /\ Settled(c)'
<1>1. runs(c)' = runs(c)
  BY SameRuns
<1>2. PICK P : P = runs(c)
  OBVIOUS
<1>3. Ordered(P)
  BY <1>2, RunsOf
<1>4. at[c] \in 1..Len(P)
  BY <1>2, <1>3 DEF TypeOK, Ordered
<1>5. RuntimeTypes
  BY DEF TypeOK, RuntimeTypes
<1>6. PICK n : n = at[c]
  OBVIOUS
<1>7. Effect(c, P[n], ok)
  BY <1>2, <1>5, <1>6, CommandHasEffect
<1>8. Clean(c)'
  BY <1>1, <1>2, <1>3, <1>4, <1>5, <1>6, <1>7, CommandKeepsClean
<1>. QED
  BY <1>8, UnsettledPhases

LEMMA ExecuteCommandHolds ==
  ASSUME TypeOK, TypeOK', NEW c \in Cli, ExecuteCommand(c), runtime' = runtime, Holds(c)
  PROVE  Holds(c)'
<1>1. phase[c] = "plan" /\ plan(c) = runs(c) /\ Route(c)
  BY DEF ExecuteCommand, runs, Holds
<1>2. PICK ok \in BOOLEAN :
        /\ runCommand(c, runs(c)[at[c]], ok)
        /\ IF ok \/ runs(c)[at[c]].allowFailure
             THEN at' = [at EXCEPT ![c] = @ + 1] /\ UNCHANGED phase
             ELSE Go(c, "rollback")
  BY <1>1 DEF ExecuteCommand
<1>3. cmd' = cmd /\ conf' = conf /\ alone' = alone /\ at[c] <= Len(runs(c))
  BY <1>1 DEF ExecuteCommand
<1>4. CASE ok \/ runs(c)[at[c]].allowFailure
  <2>1. at'[c] = at[c] + 1 /\ phase' = phase
    BY <1>2, <1>4 DEF TypeOK
  <2>2. Clean(c) => Clean(c)' /\ Settled(c)'
    BY <1>1, <1>2, <1>3, <1>4, <2>1, CommandHolds
  <2>3. Route(c)'
    BY <1>1, <1>3, <2>1 DEF Route
  <2>. QED
    BY <1>1, <1>3, <2>1, <2>2, <2>3 DEF Holds
<1>5. CASE ~(ok \/ runs(c)[at[c]].allowFailure)
  <2>1. at'[c] = 1 /\ phase'[c] = "rollback"
    BY <1>2, <1>5 DEF TypeOK, Go
  <2>2. Clean(c)' /\ Settled(c)'
    BY <2>1, AtTheStart, UnsettledPhases
  <2>3. at[c] \in 1..Len(runs(c))
    <3>1. Ordered(runs(c))
      BY <1>1, RunsOf
    <3>. QED
      BY <1>3, <3>1 DEF TypeOK, Ordered
  <2>4. Starts(cmd[c])
    BY <1>1, <1>5, <2>3, RunsOf
  <2>5. Route(c)'
    BY <1>3, <2>1, <2>4 DEF Route, Starts
  <2>. QED
    BY <2>2, <2>5 DEF Holds
<1>. QED
  BY <1>4, <1>5

LEMMA RollBackHolds ==
  ASSUME TypeOK, TypeOK', NEW c \in Cli, RollBack(c), runtime' = runtime, Holds(c)
  PROVE  Holds(c)'
<1>1. phase[c] = "rollback" /\ rollbackPlan(c) = runs(c) /\ Route(c)
  BY DEF RollBack, runs, Holds
<1>2. PICK ok \in BOOLEAN : runCommand(c, runs(c)[at[c]], ok)
  BY <1>1 DEF RollBack
<1>3. /\ cmd' = cmd /\ conf' = conf /\ alone' = alone /\ phase' = phase
      /\ at'[c] = at[c] + 1 /\ at[c] <= Len(runs(c))
  BY <1>1 DEF RollBack, TypeOK
<1>4. at[c] \in 1..Len(runs(c))
  <2>1. Ordered(runs(c))
    BY <1>1, RunsOf
  <2>. QED
    BY <1>3, <2>1 DEF TypeOK, Ordered
<1>5. OnlyRemoves(runs(c))
  BY <1>1, RunsOf
<1>6. runs(c)[at[c]].allowFailure
  BY <1>4, <1>5 DEF OnlyRemoves
<1>7. Clean(c) => Clean(c)' /\ Settled(c)'
  BY <1>1, <1>2, <1>3, <1>6, CommandHolds
<1>8. Route(c)'
  BY <1>1, <1>3 DEF Route
<1>. QED
  BY <1>3, <1>7, <1>8 DEF Holds

LEMMA PlanDoneHolds ==
  ASSUME TypeOK, TypeOK', NEW c \in Cli, PlanDone(c), Holds(c)
  PROVE  Holds(c)'
<1>1. phase[c] = "plan" /\ plan(c) = runs(c) /\ at[c] > Len(runs(c)) /\ Route(c)
  BY DEF PlanDone, runs, Holds
<1>2. PICK next : next = IF Starts(cmd[c]) THEN "waiting" ELSE "recording"
  OBVIOUS
<1>3. phase'[c] = next /\ at'[c] = 1 /\ cmd' = cmd /\ conf' = conf /\ alone' = alone
  BY <1>2 DEF PlanDone, Go, TypeOK
<1>4. Route(c)'
  BY <1>2, <1>3 DEF Route
<1>5. Clean(c)'
  BY <1>3, AtTheStart
<1>6. PICK P : P = runs(c)
  OBVIOUS
<1>7. P \in Seq(Command) /\ at[c] \in Nat /\ cmd[c] \in Commands
  BY <1>6, RunsAreCommands DEF TypeOK
<1>8. ASSUME Clean(c)
      PROVE  /\ cmd[c] = "reset" => Fresh(c)
             /\ cmd[c] = "destroy" => NothingLeft(c)
  <2>1. CASE cmd[c] = "reset"
    <3>1. TakesDown(P, servicesOf(c)) /\ BringsUp(P, servicesOf(c))
      BY <1>1, <1>6, <2>1, RunsOf
    <3>. QED
      BY <1>1, <1>6, <1>7, <1>8, <2>1, <3>1, AllUp
  <2>2. CASE cmd[c] = "destroy"
    <3>1. TakesDown(P, servicesOf(c)) /\ OnlyRemoves(P)
      BY <1>1, <1>6, <2>2, RunsOf
    <3>. QED
      BY <1>1, <1>6, <1>7, <1>8, <2>2, <3>1, AllDown
  <2>. QED
    BY <2>1, <2>2
<1>9. SameStock
  BY StockStays DEF PlanDone
<1>10. ASSUME Clean(c) PROVE Settled(c)'
  <2>1. /\ cmd[c] = "reset" => Fresh(c)'
        /\ cmd[c] = "destroy" => NothingLeft(c)'
    BY <1>3, <1>8, <1>9, <1>10, SameEnd, ServicesInRange
  <2>. QED
    BY <1>3, <2>1 DEF Settled
<1>. QED
  BY <1>1, <1>3, <1>4, <1>5, <1>10 DEF Holds, Active

\* Waiting for the services and writing running.json change nothing of them.
LEMMA WaitingHolds ==
  ASSUME TypeOK, TypeOK', NEW c \in Cli, Holds(c), phase[c] = "waiting",
         phase'[c] \in {"waiting", "recording", "rollback"},
         phase'[c] = "rollback" => at'[c] = 1,
         cmd' = cmd, conf' = conf, alone' = alone, UNCHANGED runtimeVars
  PROVE  Holds(c)'
<1>1. Route(c)'
  BY DEF Holds, Route
<1>2. Clean(c)'
  BY AtTheStart
<1>3. SameStock
  BY StockStays
<1>4. ASSUME Settled(c) PROVE Settled(c)'
  <2>1. cmd[c] # "destroy"
    BY DEF Holds, Route, Starts
  <2>2. cmd[c] = "reset" => Fresh(c)'
    BY <1>3, <1>4, SameEnd, ServicesInRange DEF Settled
  <2>. QED
    BY <2>1, <2>2 DEF Settled
<1>. QED
  BY <1>1, <1>2, <1>4 DEF Holds, Active

LEMMA EndHolds ==
  ASSUME NEW c \in Cli, phase'[c] \in Ended
  PROVE  Holds(c)'
BY DEF Ended, Active, Holds, Route

LEMMA RunStepHolds ==
  ASSUME TypeOK, TypeOK', NEW c \in Cli, RunStep(c), runtime' = runtime, Holds(c)
  PROVE  Holds(c)'
<1>1. CASE PrepareConfig(c)
  <2>1. /\ phase[c] = "config" /\ phase'[c] \in {"plan", "threw"}
        /\ at'[c] = 1 /\ alone' = alone
    BY <1>1 DEF PrepareConfig, Go, TypeOK
  <2>2. Clean(c)' /\ Settled(c)'
    BY <2>1, AtTheStart, UnsettledPhases
  <2>. QED
    BY <2>1, <2>2 DEF Holds, Route
<1>2. CASE ExecuteCommand(c)
  BY <1>2, ExecuteCommandHolds
<1>3. CASE PlanDone(c)
  BY <1>3, PlanDoneHolds
<1>4. CASE RollBack(c)
  BY <1>4, RollBackHolds
<1>5. CASE RolledBack(c)
  <2>1. phase'[c] = "failed"
    BY <1>5 DEF RolledBack, Go, TypeOK
  <2>. QED
    BY <2>1, EndHolds DEF Ended
<1>6. CASE \E s \in Service : ServiceReady(c, s)
  <2>1. /\ phase[c] = "waiting" /\ phase' = phase /\ cmd' = cmd /\ conf' = conf
        /\ alone' = alone /\ UNCHANGED runtimeVars
    BY <1>6 DEF ServiceReady
  <2>. QED
    BY <2>1, WaitingHolds
<1>7. CASE ServicesReady(c)
  <2>1. /\ phase[c] = "waiting" /\ phase'[c] = "recording" /\ cmd' = cmd /\ conf' = conf
        /\ alone' = alone /\ UNCHANGED runtimeVars
    BY <1>7 DEF ServicesReady, Go, TypeOK
  <2>. QED
    BY <2>1, WaitingHolds
<1>8. CASE ReadinessTimesOut(c)
  <2>1. /\ phase[c] = "waiting" /\ phase'[c] = "rollback" /\ at'[c] = 1 /\ cmd' = cmd
        /\ conf' = conf /\ alone' = alone /\ UNCHANGED runtimeVars
    BY <1>8 DEF ReadinessTimesOut, Go, TypeOK
  <2>. QED
    BY <2>1, WaitingHolds
<1>9. CASE RecordRunningConfig(c)
  <2>1. phase'[c] \in {"serving", "done"}
    BY <1>9 DEF RecordRunningConfig, Go, TypeOK
  <2>. QED
    BY <2>1, EndHolds DEF Ended
<1>. QED
  BY <1>1, <1>2, <1>3, <1>4, <1>5, <1>6, <1>7, <1>8, <1>9 DEF RunStep

(***************************************************************************)
(* The invariant is kept by every step.                                    *)
(***************************************************************************)

LEMMA Start ==
  Init => IInv
<1> SUFFICES ASSUME Init PROVE IInv
  OBVIOUS
<1>1. TypeOK
  BY TypesStart
<1>2. \A c \in Cli : phase[c] = "idle" /\ at[c] = 1
  BY DEF Init
<1>. QED
  BY <1>1, <1>2 DEF IInv, Solo, Route, Active

\* A step of one run, seen by another.
LEMMA OthersHold ==
  ASSUME IInv, NEW c \in Cli, Invoke(c) \/ RunStep(c) \/ Kill(c), runtime' = runtime,
         NEW d \in Cli, d # c
  PROVE  Holds(d)'
<1>1. TypeOK /\ Solo(d) /\ Route(d) /\ (phase[d] \in Active /\ alone[d] => Clean(d) /\ Settled(d))
  BY DEF IInv
<1>2. CASE Invoke(c)
  <2>1. phase'[d] = phase[d] /\ cmd'[d] = cmd[d] /\ at'[d] = at[d]
    BY <1>1, <1>2 DEF Invoke, TypeOK
  <2>2. phase[d] \in Active => ~alone'[d]
    BY <1>2 DEF Invoke
  <2>. QED
    BY <1>1, <2>1, <2>2 DEF Holds, Route
<1>3. CASE RunStep(c)
  <2>1. OwnStep(c)
    BY <1>1, <1>3, RunStepIsOwn
  <2>2. phase[d] \in Active => ~alone[d]
    BY <1>1, <2>1 DEF OwnStep, Solo
  <2>. QED
    BY <1>1, <2>1, <2>2 DEF OwnStep, Holds, Route
<1>4. CASE Kill(c)
  <2>1. /\ phase'[d] = phase[d] /\ at'[d] = at[d] /\ cmd' = cmd /\ conf' = conf
        /\ alone' = alone /\ UNCHANGED runtimeVars
    BY <1>1, <1>4 DEF Kill, Go, TypeOK
  <2>2. SameStock
    BY <2>1, StockStays
  <2>3. Clean(d) => Clean(d)'
    BY <1>1, <2>1, <2>2, SameClean
  <2>4. Settled(d) => Settled(d)'
    BY <2>1, <2>2, SameEnd, ServicesInRange DEF Settled
  <2>. QED
    BY <1>1, <2>1, <2>3, <2>4 DEF Holds, Route
<1>. QED
  BY <1>2, <1>3, <1>4

LEMMA SoloKept ==
  ASSUME IInv, NEW c \in Cli, Invoke(c) \/ RunStep(c) \/ Kill(c), NEW d \in Cli
  PROVE  Solo(d)'
<1>1. TypeOK /\ \A e \in Cli : Solo(e)
  BY DEF IInv
<1>2. CASE Invoke(c)
  <2>1. \A e \in Cli \ {c} : phase'[e] = phase[e]
    BY <1>1, <1>2 DEF Invoke, TypeOK
  <2>2. \A e \in Cli : alone'[e] =>
          IF e = c THEN \A f \in Cli \ {c} : phase[f] \notin Active ELSE phase[e] \notin Active
    BY <1>2 DEF Invoke
  <2>. QED
    BY <2>1, <2>2 DEF Solo
<1>3. CASE RunStep(c)
  <2>1. OwnStep(c)
    BY <1>1, <1>3, RunStepIsOwn
  <2>. QED
    BY <1>1, <2>1 DEF OwnStep, Solo
<1>4. CASE Kill(c)
  <2>1. /\ \A e \in Cli \ {c} : phase'[e] = phase[e]
        /\ phase'[c] = "killed" /\ alone' = alone
    BY <1>1, <1>4 DEF Kill, Go, TypeOK
  <2>2. phase'[c] \notin Active
    BY <2>1 DEF Active
  <2>. QED
    BY <1>1, <2>1, <2>2 DEF Solo
<1>. QED
  BY <1>2, <1>3, <1>4

LEMMA Kept ==
  ASSUME IInv, [Next]_vars
  PROVE  IInv'
<1>1. TypeOK /\ TypeOK'
  BY TypesKept DEF IInv
<1>2. \A c \in Cli : Holds(c) /\ Solo(c)
  BY DEF IInv, Holds
<1>. SUFFICES ASSUME NEW d \in Cli PROVE Holds(d)' /\ Solo(d)'
  BY <1>1 DEF IInv, Holds
<1>3. CASE \E c \in Cli : (Invoke(c) \/ RunStep(c) \/ Kill(c)) /\ UNCHANGED runtime
  <2>1. PICK c \in Cli : (Invoke(c) \/ RunStep(c) \/ Kill(c)) /\ runtime' = runtime
    BY <1>3
  <2>2. Solo(d)'
    BY <2>1, SoloKept
  <2>3. CASE d # c
    BY <2>1, <2>2, <2>3, OthersHold
  <2>4. CASE d = c /\ Invoke(c)
    BY <1>1, <1>2, <2>2, <2>4, InvokeHolds DEF Holds
  <2>5. CASE d = c /\ RunStep(c)
    BY <1>1, <1>2, <2>1, <2>2, <2>5, RunStepHolds
  <2>6. CASE d = c /\ Kill(c)
    <3>1. phase'[c] = "killed"
      BY <1>1, <2>6 DEF Kill, Go, TypeOK
    <3>. QED
      BY <2>2, <2>6, <3>1, EndHolds DEF Ended
  <2>. QED
    BY <2>1, <2>3, <2>4, <2>5, <2>6
<1>4. CASE HostGoesDown \/ UNCHANGED vars
  <2>1. UNCHANGED cliVars
    BY <1>4 DEF HostGoesDown, vars
  <2>2. SameStock
    <3>1. CASE HostGoesDown
      BY <3>1, <1>1 DEF HostGoesDown, HostStops, SameStock, HasContainer, TypeOK
    <3>2. CASE UNCHANGED vars
      BY <3>2, StockStays DEF vars
    <3>. QED
      BY <1>4, <3>1, <3>2
  <2>3. /\ runtime' = runtime /\ phase' = phase /\ cmd' = cmd /\ conf' = conf /\ at' = at
        /\ alone' = alone
    BY <2>1 DEF cliVars
  <2>4. Clean(d) => Clean(d)'
    BY <1>1, <2>2, <2>3, SameClean
  <2>5. Settled(d) => Settled(d)'
    BY <2>2, <2>3, SameEnd, ServicesInRange DEF Settled
  <2>6. Solo(d)' /\ Route(d)'
    BY <1>2, <2>3 DEF Solo, Route, Holds
  <2>. QED
    BY <1>2, <2>3, <2>4, <2>5, <2>6 DEF Holds
<1>. QED
  BY <1>3, <1>4 DEF Next, AllEnded

\* The types of the variables, and what a run that is alone has done so far is
\* still there, in every state of the system.
THEOREM StackInvariance == Spec => []IInv
BY Start, Kept, PTL DEF Spec

\* The variables keep their types, for any services, configurations and runs
\* (executeRuntimeCommand).
THEOREM TypeCorrect == Spec => []TypeOK
<1>1. IInv => TypeOK
  BY DEF IInv
<1>. QED
  BY <1>1, StackInvariance, PTL

(***************************************************************************)
(* What the commands promise.                                              *)
(***************************************************************************)

\* A reset that none overlaps never trips over what earlier runs left: the
\* name of a network or of a container it may not fail to create is free,
\* whatever the services and whoever was killed before (planDestroy before
\* planStart in commandPlan).
THEOREM ResetGoesThrough == Spec => []ResetIsNotBlocked
<1>1. IInv => ResetIsNotBlocked
  <2> SUFFICES ASSUME IInv, NEW c \in Cli, cmd[c] = "reset", alone[c], phase[c] = "plan",
                      at[c] <= Len(plan(c)),
                      \A s \in Service \ Range(servicesOf(c)) : ~HasContainer(s)
               PROVE  NameIsFree(plan(c)[at[c]])
    BY DEF ResetIsNotBlocked
  <2>1. TypeOK /\ Route(c) /\ Clean(c) /\ Range(servicesOf(c)) \subseteq Service
    BY ServicesInRange DEF IInv, Active
  <2>2. PICK P : P = runs(c) /\ P = plan(c)
    BY DEF runs
  <2>3. Ordered(P) /\ TakesDown(P, servicesOf(c)) /\ BringsUp(P, servicesOf(c))
    BY <2>1, <2>2, RunsOf
  <2>4. PICK n : n = at[c]
    OBVIOUS
  <2>5. n \in 1..Len(P) /\ DOMAIN P = 1..Len(P) /\ Len(P) \in Nat
    BY <2>1, <2>2, <2>3, <2>4 DEF TypeOK, Ordered
  <2>6. Behind(c) = {i \in 1..Len(P) : i < n}
    BY <2>2, <2>4, <2>5 DEF Behind
  \* The removals stand before the creations, so at one of these they are all behind.
  <2>7. ASSUME P[n].op \in Creation, NEW i \in 1..Len(P), P[i].op \in Removal
        PROVE  i \in Behind(c)
    <3>1. i < n
      BY <2>3, <2>5, <2>7 DEF Ordered
    <3>. QED
      BY <2>6, <3>1
  <2>8. ASSUME P[n].op \in Creation, NEW s \in Range(servicesOf(c))
        PROVE  Passed(c, "rm", s)
    <3>1. PICK i \in 1..Len(P) : Does(P, i, "rm", s)
      BY <2>3 DEF TakesDown
    <3>. QED
      BY <2>2, <2>7, <2>8, <3>1 DEF Passed, Does, Removal
  <2>9. ASSUME P[n].op = "create" PROVE ~HasContainer(P[n].service)
    <3>1. P[n].service \in Range(servicesOf(c))
      BY <2>3, <2>5, <2>9 DEF BringsUp
    <3>2. Passed(c, "rm", P[n].service)
      BY <2>8, <2>9, <3>1 DEF Creation
    <3>3. ~Passed(c, "create", P[n].service)
      <4> SUFFICES ASSUME Passed(c, "create", P[n].service) PROVE FALSE
        OBVIOUS
      <4>1. PICK i \in 1..Len(P) : i < n /\ P[i].op = "create" /\ P[i].service = P[n].service
        BY <2>2, <2>6 DEF Passed
      <4>2. i = n
        BY <2>3, <2>5, <2>9, <4>1 DEF Ordered
      <4>. QED
        BY <2>5, <4>1, <4>2
    <3>. QED
      BY <2>1, <3>1, <3>2, <3>3 DEF Clean, ContainersOf
  <2>10. ASSUME P[n].op = "networkCreate", network PROVE P[n].allowFailure
    <3>1. ASSUME NEW s \in Service PROVE ~HasContainer(s)
      <4>1. CASE s \in Range(servicesOf(c))
        <5>1. Passed(c, "rm", s)
          BY <2>8, <2>10, <4>1 DEF Creation
        <5>2. ~Passed(c, "create", s)
          <6> SUFFICES ASSUME Passed(c, "create", s) PROVE FALSE
            OBVIOUS
          <6>1. PICK i \in 1..Len(P) : i < n /\ P[i].op = "create"
            BY <2>2, <2>6 DEF Passed
          <6>2. n < i
            BY <2>3, <2>5, <2>10, <6>1 DEF BringsUp
          <6>. QED
            BY <2>5, <6>1, <6>2
        <5>. QED
          BY <2>1, <5>1, <5>2 DEF Clean, ContainersOf
      <4>. QED
        BY <4>1
    <3>2. PassedAny(c, "networkRm")
      <4>1. PICK i \in 1..Len(P) : P[i].op = "networkRm"
        BY <2>3 DEF TakesDown
      <4>. QED
        BY <2>2, <2>7, <2>10, <4>1 DEF PassedAny, Removal, Creation
    <3>3. PassedAny(c, "networkCreate")
      BY <2>1, <2>10, <3>1, <3>2 DEF Clean, NetworkOf
    <3>. QED
      BY <2>2, <2>3, <2>5, <2>6, <2>10, <3>3 DEF PassedAny, BringsUp
  <2>. QED
    BY <2>2, <2>4, <2>9, <2>10 DEF NameIsFree
<1>. QED
  BY <1>1, StackInvariance, PTL

\* A run ends by itself in one of two ways.
LEMMA LastStep ==
  ASSUME TypeOK, [Next]_vars, NEW c \in Cli,
         phase'[c] # phase[c], phase'[c] \in {"failed", "done"}
  PROVE  \/ phase'[c] = "failed" /\ RolledBack(c)
         \/ phase'[c] = "done" /\ RecordRunningConfig(c)
<1>1. PICK d \in Cli : Invoke(d) \/ RunStep(d) \/ Kill(d)
  BY DEF Next, HostGoesDown, AllEnded, vars, cliVars
<1>2. CASE Invoke(d)
  BY <1>2 DEF Invoke, TypeOK
<1>3. CASE Kill(d)
  BY <1>3 DEF Kill, Go, TypeOK
<1>4. CASE RunStep(d)
  <2>1. d = c
    BY <1>4, RunStepIsOwn DEF OwnStep
  <2>2. ~PrepareConfig(c) /\ ~PlanDone(c)
    BY DEF PrepareConfig, PlanDone, Go, TypeOK
  <2>3. ~ExecuteCommand(c) /\ ~RollBack(c)
    BY DEF ExecuteCommand, RollBack, Go, TypeOK
  <2>4. /\ ~(\E s \in Service : ServiceReady(c, s))
        /\ ~ServicesReady(c) /\ ~ReadinessTimesOut(c)
    BY DEF ServiceReady, ServicesReady, ReadinessTimesOut, Go, TypeOK
  <2>5. RolledBack(c) => phase'[c] = "failed"
    BY DEF RolledBack, Go, TypeOK
  <2>6. RecordRunningConfig(c) => phase'[c] # "failed"
    BY DEF RecordRunningConfig, Go, TypeOK
  <2>. QED
    BY <1>4, <2>1, <2>2, <2>3, <2>4, <2>5, <2>6 DEF RunStep
<1>. QED
  BY <1>1, <1>2, <1>3, <1>4

\* A start or a reset that none overlaps and that reports a failure has left
\* no container, no volume and no network of its configuration, at whichever
\* command or readiness check it failed (executeRollback over planDestroy).
THEOREM FailureIsRolledBack == Spec => FailureLeavesNothing
<1>1. ASSUME IInv, [Next]_vars, NEW c \in Cli, alone[c], phase[c] # "failed",
             phase'[c] = "failed"
      PROVE  NothingLeft(c)'
  <2>1. TypeOK
    BY <1>1 DEF IInv
  <2>2. RolledBack(c)
    BY <1>1, <2>1, LastStep
  <2>3. phase[c] = "rollback" /\ at[c] > Len(rollbackPlan(c))
    BY <2>2 DEF RolledBack
  <2>4. Clean(c) /\ Route(c)
    BY <1>1, <2>3 DEF IInv, Active
  <2>5. PICK P : P = runs(c)
    OBVIOUS
  <2>6. TakesDown(P, servicesOf(c)) /\ OnlyRemoves(P)
    BY <2>1, <2>3, <2>4, <2>5, RunsOf
  <2>7. P \in Seq(Command) /\ at[c] \in Nat /\ at[c] > Len(P)
    BY <2>1, <2>3, <2>5, RunsAreCommands DEF TypeOK, runs
  <2>8. NothingLeft(c)
    BY <2>4, <2>5, <2>6, <2>7, AllDown
  <2>9. SameStock /\ cmd' = cmd /\ conf' = conf
    BY <2>2, StockStays DEF RolledBack
  <2>. QED
    BY <2>8, <2>9, SameEnd, ServicesInRange
<1>2. IInv /\ [Next]_vars =>
        [\A c \in Cli : alone[c] /\ phase[c] # "failed" /\ phase'[c] = "failed"
                        => NothingLeft(c)']_vars
  BY <1>1
<1>. QED
  BY <1>2, StackInvariance, PTL DEF Spec, FailureLeavesNothing

\* A destroy that none overlaps and that reports success has removed the
\* containers, the volumes and the network, whatever it found, although every
\* one of its commands may fail unseen (planDestroy).
THEOREM DestroyIsThorough == Spec => DestroyLeavesNothing
<1>1. ASSUME IInv, [Next]_vars, NEW c \in Cli, alone[c], cmd[c] = "destroy",
             phase[c] # "done", phase'[c] = "done"
      PROVE  NothingLeft(c)'
  <2>1. RecordRunningConfig(c)
    BY <1>1, LastStep DEF IInv
  <2>2. phase[c] = "recording"
    BY <2>1 DEF RecordRunningConfig
  <2>3. NothingLeft(c)
    BY <1>1, <2>2 DEF IInv, Active, Settled
  <2>4. SameStock /\ cmd' = cmd /\ conf' = conf
    BY <2>1, StockStays DEF RecordRunningConfig
  <2>. QED
    BY <2>3, <2>4, SameEnd, ServicesInRange
<1>2. IInv /\ [Next]_vars =>
        [\A c \in Cli : /\ alone[c] /\ cmd[c] = "destroy"
                        /\ phase[c] # "done" /\ phase'[c] = "done"
                        => NothingLeft(c)']_vars
  BY <1>1
<1>. QED
  BY <1>2, StackInvariance, PTL DEF Spec, DestroyLeavesNothing

\* A reset that none overlaps and that reports success has given every service
\* of its configuration a container and a volume of its own making: no data of
\* before shows through (commandPlan "reset").
THEOREM ResetStartsAnew == Spec => ResetIsFresh
<1>1. ASSUME IInv, [Next]_vars, NEW c \in Cli, alone[c], cmd[c] = "reset",
             phase[c] # "done", phase'[c] = "done"
      PROVE  \A s \in Range(servicesOf(c)) :
               madeBy'[s] = c /\ (s \in HasVolume => volume'[s] = c)
  <2>1. RecordRunningConfig(c)
    BY <1>1, LastStep DEF IInv
  <2>2. phase[c] = "recording" /\ UNCHANGED runtimeVars
    BY <2>1 DEF RecordRunningConfig
  <2>3. Fresh(c)
    BY <1>1, <2>2 DEF IInv, Active, Settled
  <2>. QED
    BY <2>2, <2>3 DEF Fresh, runtimeVars
<1>2. IInv /\ [Next]_vars =>
        [\A c \in Cli : /\ alone[c] /\ cmd[c] = "reset"
                        /\ phase[c] # "done" /\ phase'[c] = "done"
                        => \A s \in Range(servicesOf(c)) :
                             madeBy'[s] = c /\ (s \in HasVolume => volume'[s] = c)]_vars
  BY <1>1
<1>. QED
  BY <1>2, StackInvariance, PTL DEF Spec, ResetIsFresh

\* What a stop kept goes away in a reset, in a destroy, or in the rollback of a
\* start or a reset that failed, and in no other step: neither a start that
\* goes on nor a stop removes a volume, whoever else is at work (planStart and
\* planStop).
VolumesGoInRemovals ==
    [][\A s \in HasVolume :
         volume[s] # NoCli /\ volume'[s] = NoCli =>
           \E c \in Cli : \/ phase[c] = "plan" /\ cmd[c] \in {"reset", "destroy"}
                          \/ phase[c] = "rollback" /\ cmd[c] \in {"start", "reset"}]_vars

THEOREM VolumesOutliveStops == Spec => VolumesGoInRemovals
<1>1. ASSUME IInv, [Next]_vars, NEW s \in HasVolume, volume[s] # NoCli, volume'[s] = NoCli
      PROVE  \E c \in Cli : \/ phase[c] = "plan" /\ cmd[c] \in {"reset", "destroy"}
                            \/ phase[c] = "rollback" /\ cmd[c] \in {"start", "reset"}
  <2>1. volume' # volume
    BY <1>1
  <2>2. PICK c \in Cli : Invoke(c) \/ RunStep(c) \/ Kill(c)
    BY <1>1, <2>1 DEF Next, HostGoesDown, HostStops, AllEnded, vars, runtimeVars
  <2>3. PrepareConfig(c) \/ ExecuteCommand(c) \/ RollBack(c)
    <3>1. PrepareConfig(c) \/ ExecuteCommand(c) \/ RollBack(c) \/ UNCHANGED runtimeVars
      BY <2>2 DEF RunStep, Invoke, Kill, PlanDone, RolledBack, ServiceReady, ServicesReady,
                  ReadinessTimesOut, RecordRunningConfig
    <3>. QED
      BY <2>1, <3>1 DEF runtimeVars
  <2>4. TypeOK /\ RuntimeTypes /\ Route(c)
    BY <1>1 DEF IInv, TypeOK, RuntimeTypes
  <2>5. CASE PrepareConfig(c)
    BY <2>1, <2>5 DEF PrepareConfig, NetworkCreate, runtimeVars
  <2>6. CASE ExecuteCommand(c)
    <3>1. phase[c] = "plan" /\ cmd[c] \in Commands /\ plan(c) = runs(c)
      BY <2>4, <2>6 DEF ExecuteCommand, TypeOK, runs
    <3>2. PICK P : P = plan(c)
      OBVIOUS
    <3>3. PICK ok \in BOOLEAN : runCommand(c, P[at[c]], ok)
      BY <2>6, <3>2 DEF ExecuteCommand
    <3>4. Effect(c, P[at[c]], ok)
      BY <2>4, <3>3, CommandHasEffect
    <3>5. P[at[c]].op = "volumeRm"
      BY <1>1, <2>4, <3>4, ServiceAssumption DEF Effect, RuntimeTypes
    <3>6. at[c] \in 1..Len(P)
      <4>1. P \in Seq(Command)
        BY <2>4, <3>1, <3>2, RunsAreCommands
      <4>. QED
        BY <2>4, <2>6, <3>2, <4>1 DEF ExecuteCommand, TypeOK
    <3>7. AreServices(servicesOf(c))
      BY ServicesAreServices DEF servicesOf
    <3>8. cmd[c] # "start"
      <4> SUFFICES ASSUME cmd[c] = "start" PROVE FALSE
        OBVIOUS
      <4>1. P = planStart(servicesOf(c))
        BY <3>2 DEF plan, commandPlan
      <4>2. RemovesNothing(P)
        BY <3>7, <4>1, StartPlan
      <4>. QED
        BY <3>5, <3>6, <4>2 DEF RemovesNothing, Removal
    <3>9. cmd[c] # "stop"
      <4> SUFFICES ASSUME cmd[c] = "stop" PROVE FALSE
        OBVIOUS
      <4>1. P = planStop(servicesOf(c))
        BY <3>2 DEF plan, commandPlan
      <4>2. P[at[c]].op = "stop"
        BY <3>6, <3>7, <4>1, StopPlan
      <4>. QED
        BY <3>5, <4>2
    <3>. QED
      BY <3>1, <3>8, <3>9 DEF Commands
  <2>7. CASE RollBack(c)
    BY <2>4, <2>7 DEF RollBack, Route, Starts
  <2>. QED
    BY <2>3, <2>5, <2>6, <2>7
<1>2. IInv /\ [Next]_vars =>
        [\A s \in HasVolume :
           volume[s] # NoCli /\ volume'[s] = NoCli =>
             \E c \in Cli : \/ phase[c] = "plan" /\ cmd[c] \in {"reset", "destroy"}
                            \/ phase[c] = "rollback" /\ cmd[c] \in {"start", "reset"}]_vars
  BY <1>1
<1>. QED
  BY <1>2, StackInvariance, PTL DEF Spec, VolumesGoInRemovals

=============================================================================
