----------------------------- MODULE FeedProofs -----------------------------
(***************************************************************************)
(* The projection, the ranking and the pages of Feed for any animals,      *)
(* consumers, viewers, rates and sizes.                                    *)
(***************************************************************************)
EXTENDS Feed, FiniteSetTheorems, SequenceTheorems, TLAPS

-----------------------------------------------------------------------------
(* The projection.                                                         *)

ProjectionTyped ==
    /\ row \in [Animals -> Candidates \cup {None}]
    /\ ideal \in [Animals -> Candidates \cup {None}]
    /\ pending \in [Consumers -> Handlings \cup {None}]

\* While the handlers of an animal do not overlap, there is one at most and its
\* copy is the row.
CopyIsCurrent ==
    \A a \in Animals \ raced :
        /\ \A c, d \in PendingOn(a) : c = d
        /\ \A c \in PendingOn(a) : pending[c].copy = row[a]

IInv == ProjectionTyped /\ ProjectionIsSerial /\ CopyIsCurrent

\* A message that leaves the rows alone.
LEMMA ProjectionKept == IInv /\ UNCHANGED projection => IInv'
BY DEF projection, IInv, ProjectionTyped, ProjectionIsSerial, CopyIsCurrent, PendingOn

\* A row is set, at once and for good, to what the message says.
LEMMA SetKeeps ==
    ASSUME IInv, NEW a \in Animals, NEW candidate \in Candidates \cup {None},
           row' = [row EXCEPT ![a] = candidate], ideal' = [ideal EXCEPT ![a] = candidate],
           UNCHANGED pending,
           raced' = IF PendingOn(a) = {} THEN raced ELSE raced \cup {a}
    PROVE  IInv'
<1> USE DEF IInv, ProjectionTyped
<1>1. ProjectionTyped'
    OBVIOUS
<1>2. \A b \in Animals : PendingOn(b)' = PendingOn(b)
    BY DEF PendingOn
<1>3. \A b \in Animals \ raced' : /\ b \notin raced
                                  /\ b = a => PendingOn(b) = {} /\ row'[b] = ideal'[b]
                                  /\ b # a => row'[b] = row[b] /\ ideal'[b] = ideal[b]
    OBVIOUS
<1>4. ProjectionIsSerial'
    BY <1>3 DEF ProjectionIsSerial
<1>5. CopyIsCurrent'
    BY <1>2, <1>3 DEF CopyIsCurrent
<1> QED BY <1>1, <1>4, <1>5

LEMMA ReadKeeps ==
    ASSUME IInv, NEW c \in Consumers, NEW a \in Animals, NEW u \in Updates, GetCandidate(c, a, u)
    PROVE  IInv'
<1> USE DEF IInv, ProjectionTyped
<1> DEFINE read == [animal |-> a, update |-> u, copy |-> row[a]]
<1>1. /\ pending[c] = None /\ row[a] \in Candidates /\ pending' = [pending EXCEPT ![c] = read]
      /\ raced' = IF PendingOn(a) = {} THEN raced ELSE raced \cup {a}
      /\ UNCHANGED <<row, ideal>>
    BY DEF GetCandidate, Receive
<1>2. read \in Handlings /\ read # None /\ read.animal = a /\ read.copy = row[a]
    BY <1>1, NoneAssumption DEF Handlings
<1> HIDE DEF read
<1>3. ProjectionTyped'
    BY <1>1, <1>2
<1>4. ProjectionIsSerial'
    BY <1>1 DEF ProjectionIsSerial
<1>5. ASSUME NEW b \in Animals \ raced'
      PROVE  (\A d, e \in PendingOn(b)' : d = e) /\ (\A d \in PendingOn(b)' : pending'[d].copy = row'[b])
  <2>1. b \notin raced
    BY <1>1
  <2>2. CASE b # a
    <3>1. PendingOn(b)' = PendingOn(b) /\ \A d \in PendingOn(b) : pending'[d] = pending[d]
      BY <1>1, <1>2, <2>2 DEF PendingOn
    <3> QED BY <1>1, <2>1, <3>1 DEF CopyIsCurrent
  <2>3. CASE b = a
    <3>1. PendingOn(a) = {}
      BY <1>1, <1>5, <2>3
    <3>2. PendingOn(b)' = {c} /\ pending'[c] = read
      BY <1>1, <1>2, <2>3, <3>1 DEF PendingOn
    <3> QED BY <1>1, <1>2, <2>3, <3>2
  <2> QED BY <2>2, <2>3
<1>6. CopyIsCurrent'
    BY <1>5 DEF CopyIsCurrent
<1> QED BY <1>3, <1>4, <1>6

LEMMA UpdateOfCandidate ==
    ASSUME NEW u \in Updates, NEW x \in Candidates
    PROVE  Update(u, x) \in Candidates
<1>1. x # None
    BY NoneAssumption
<1>2. /\ x \in [boosted: BOOLEAN, lifted: BOOLEAN, ctr: Rates] /\ (x.lifted => x.boosted)
      /\ u.kind = "boost" => u.active \in BOOLEAN
      /\ u.kind # "boost" => u.ctr \in Rates
    BY DEF Candidates, Updates
<1>3. CASE u.kind = "boost"
  <2>1. Update(u, x) = [x EXCEPT !.boosted = u.active, !.lifted = u.active]
    BY <1>1, <1>3 DEF Update
  <2> QED BY <1>2, <1>3, <2>1 DEF Candidates
<1>4. CASE u.kind # "boost"
  <2>1. Update(u, x) = [x EXCEPT !.ctr = u.ctr]
    BY <1>1, <1>4 DEF Update
  <2> QED BY <1>2, <1>4, <2>1 DEF Candidates
<1> QED BY <1>3, <1>4

\* The upsert of a copy, and the end of a handler that lost its message.
LEMMA UpsertKeeps ==
    ASSUME IInv, NEW c \in Consumers, UpsertCandidate(c)
    PROVE  IInv'
<1> USE DEF IInv, ProjectionTyped
<1> DEFINE p == pending[c]
<1>1. /\ p \in Handlings /\ c \in PendingOn(p.animal)
      /\ p.animal \in Animals /\ p.update \in Updates /\ p.copy \in Candidates
    BY DEF UpsertCandidate, Handlings, PendingOn
<1>2. /\ row' = [row EXCEPT ![p.animal] = Update(p.update, p.copy)]
      /\ ideal' = [ideal EXCEPT ![p.animal] = Update(p.update, ideal[p.animal])]
      /\ pending' = [pending EXCEPT ![c] = None] /\ raced' = raced
    BY DEF UpsertCandidate
<1>3. \A x \in Candidates \cup {None} : Update(p.update, x) \in Candidates \cup {None}
  <2>1. Update(p.update, None) = None
    BY DEF Update
  <2>2. \A x \in Candidates : Update(p.update, x) \in Candidates
    BY <1>1, UpdateOfCandidate
  <2> QED BY <2>1, <2>2
<1> HIDE DEF p
<1>4. ProjectionTyped'
    BY <1>1, <1>2, <1>3
<1>5. ASSUME NEW b \in Animals \ raced
      PROVE  /\ row'[b] = ideal'[b]
             /\ \A d, e \in PendingOn(b)' : d = e
             /\ \A d \in PendingOn(b)' : pending'[d].copy = row'[b]
  <2>1. row[b] = ideal[b] /\ \A d, e \in PendingOn(b) : d = e
    BY DEF ProjectionIsSerial, CopyIsCurrent
  <2>2. PendingOn(b)' = PendingOn(b) \ {c} /\ \A d \in PendingOn(b)' : pending'[d] = pending[d]
    BY <1>2 DEF PendingOn
  <2>3. CASE b = p.animal
    <3>1. p.copy = row[b] /\ PendingOn(b)' = {}
      BY <1>1, <2>1, <2>2, <2>3 DEF p, CopyIsCurrent
    <3> QED BY <1>2, <2>1, <2>3, <3>1
  <2>4. CASE b # p.animal
    <3>1. row'[b] = row[b] /\ ideal'[b] = ideal[b]
      BY <1>2, <2>4
    <3> QED BY <2>1, <2>2, <3>1 DEF CopyIsCurrent
  <2> QED BY <2>3, <2>4
<1> QED BY <1>2, <1>4, <1>5 DEF ProjectionIsSerial, CopyIsCurrent

LEMMA LoseKeeps ==
    ASSUME IInv, NEW c \in Consumers, LoseMessage(c)
    PROVE  IInv'
<1> USE DEF IInv, ProjectionTyped
<1>1. pending' = [pending EXCEPT ![c] = None] /\ UNCHANGED <<row, ideal, raced>>
    BY DEF LoseMessage
<1>2. \A b \in Animals : PendingOn(b)' \subseteq PendingOn(b) /\ \A d \in PendingOn(b)' : pending'[d] = pending[d]
    BY <1>1 DEF PendingOn
<1>3. ProjectionTyped' /\ ProjectionIsSerial'
    BY <1>1 DEF ProjectionIsSerial
<1>4. CopyIsCurrent'
    BY <1>1, <1>2 DEF CopyIsCurrent
<1> QED BY <1>3, <1>4

LEMMA ProjectionSteps == IInv /\ [Next]_vars => IInv'
<1> SUFFICES ASSUME IInv, [Next]_vars PROVE IInv'
    OBVIOUS
<1>1. ASSUME NEW v \in Viewers, GetFeed(v) PROVE UNCHANGED projection
    BY <1>1 DEF GetFeed, ListCandidates, RankPage, SaveServedCards, GetFeedFails
<1>2. ASSUME NEW c \in Consumers, NEW a \in Animals, NEW boosted \in BOOLEAN, UpsertAnimalProfile(c, a, boosted)
      PROVE  IInv'
  <2>1. Published(boosted) \in Candidates
    BY RatesAssumption DEF Published, Candidates
  <2> QED BY <1>2, <2>1, SetKeeps DEF UpsertAnimalProfile
<1>3. ASSUME NEW c \in Consumers, NEW a \in Animals, ArchiveAnimal(c, a) PROVE IInv'
    BY <1>3, SetKeeps DEF ArchiveAnimal
<1>4. ASSUME NEW c \in Consumers, NEW a \in Animals, NEW v \in Viewers, RecordSwipe(c, v, a)
      PROVE  UNCHANGED projection
    BY <1>4 DEF RecordSwipe
<1>5. ASSUME UNCHANGED vars PROVE UNCHANGED projection
    BY <1>5 DEF vars, projection
<1> QED
    BY <1>1, <1>2, <1>3, <1>4, <1>5, ProjectionKept, ReadKeeps, UpsertKeeps, LoseKeeps
       DEF Next, Handle, vars

\* Boosts, statistics, snapshots and removals may come in any order and get
\* lost: an animal whose handlers never overlapped has the row they make of it
\* one at a time.
THEOREM SpecProjectionIsSerial == Spec => []ProjectionIsSerial
<1>1. Init => IInv
    BY RestoredAssumption DEF Init, IInv, ProjectionTyped, ProjectionIsSerial, CopyIsCurrent, PendingOn
<1>2. IInv /\ [Next]_vars => IInv'
    BY ProjectionSteps
<1>3. IInv => ProjectionIsSerial
    BY DEF IInv
<1> QED BY <1>1, <1>2, <1>3, PTL DEF Spec

-----------------------------------------------------------------------------
(* Induction, without an operator as a parameter.                          *)

\* A set with 0 and all successors that missed n would have its members below n
\* mapped by + 1 into themselves less 0: there are too few places for them.
LEMMA SetInduction ==
    ASSUME NEW T, 0 \in T, \A n \in Nat : n \in T => n + 1 \in T
    PROVE  Nat \subseteq T
<1> SUFFICES ASSUME NEW n \in Nat, n \notin T PROVE FALSE
    OBVIOUS
<1> DEFINE below == {m \in 0..n : m \in T}
           next == [m \in below |-> m + 1]
<1>1. IsFiniteSet(below) /\ 0 \in below
  <2>1. IsFiniteSet(0..n) /\ below \in SUBSET (0..n)
    BY FS_Interval
  <2> QED BY <2>1, FS_Subset
<1>2. /\ IsFiniteSet(below \ {0})
      /\ Cardinality(below \ {0}) = Cardinality(below) - 1
      /\ Cardinality(below) \in Nat
    BY <1>1, FS_RemoveElement, FS_CardinalityType
<1>3. next \in [below -> below \ {0}]
    OBVIOUS
<1>4. \E x, y \in below : x # y /\ next[x] = next[y]
  <2> HIDE DEF next, below
  <2> QED BY <1>1, <1>2, <1>3, FS_PigeonHole
<1> QED BY <1>4

-----------------------------------------------------------------------------
(* Sorting.                                                                *)

LEMMA SumsTyped ==
    ASSUME NEW candidate \in Candidates
    PROVE  /\ Low(candidate) \in Nat /\ High(candidate) \in Nat
           /\ Low(candidate) <= High(candidate)
<1>1. candidate \in [boosted: BOOLEAN, lifted: BOOLEAN, ctr: Rates]
    BY DEF Candidates
<1>2. candidate.ctr \in Nat /\ Point \in Nat
    BY <1>1, RatesAssumption
<1>3. Low(candidate) \in Nat
  <2>1. CASE candidate.lifted
    BY <1>2, <2>1 DEF Low
  <2>2. CASE ~ candidate.lifted
    BY <1>2, <2>2 DEF Low
  <2> QED BY <2>1, <2>2
<1> QED BY <1>3 DEF High

\* The order of the lowest sums, and of the list query among equal ones.
Precedes(rows, a, b) ==
    \/ Low(rows[a]) > Low(rows[b])
    \/ Low(rows[a]) = Low(rows[b]) /\ a < b

LEMMA PrecedesOrders ==
    ASSUME NEW rows, NEW S \in SUBSET Animals, \A a \in S : rows[a] \in Candidates
    PROVE  \A a, b, c \in S :
              /\ ~ Precedes(rows, a, a)
              /\ a # b => Precedes(rows, a, b) \/ Precedes(rows, b, a)
              /\ Precedes(rows, a, b) /\ Precedes(rows, b, c) => Precedes(rows, a, c)
<1>1. \A a \in S : a \in Nat /\ Low(rows[a]) \in Nat
    BY AnimalsAssumption, SumsTyped
<1> QED BY <1>1 DEF Precedes

\* What the sort surely does agrees with that order.
LEMMA SurelyPrecedes ==
    ASSUME NEW rows, NEW S \in SUBSET Animals, \A a \in S : rows[a] \in Candidates,
           NEW a \in S, NEW b \in S, Surely(rows, S, a, b)
    PROVE  Precedes(rows, a, b)
<1>1. \A c \in S : /\ Low(rows[c]) \in Nat /\ High(rows[c]) \in Nat
                   /\ Low(rows[c]) <= High(rows[c])
    BY SumsTyped
<1>2. CASE \E c \in S : Low(rows[a]) >= Low(rows[c]) /\ High(rows[b]) < Low(rows[c])
    BY <1>1, <1>2 DEF Precedes
<1>3. CASE a < b /\ Low(rows[a]) = Low(rows[b])
    BY <1>3 DEF Precedes
<1> QED BY <1>2, <1>3 DEF Surely

\* Counting who is before a candidate gives each a place of its own.
LEMMA PlacesExist ==
    ASSUME NEW rows, NEW S \in SUBSET Animals, \A a \in S : rows[a] \in Candidates
    PROVE  /\ IsFiniteSet(S) /\ Cardinality(S) \in Nat
           /\ \E place \in Surjection(S, 1..Cardinality(S)) :
                \A a, b \in S : Precedes(rows, a, b) => place[a] < place[b]
<1> DEFINE n == Cardinality(S)
           Before(a) == {b \in S : Precedes(rows, b, a)}
           place == [a \in S |-> Cardinality(Before(a)) + 1]
<1>1. IsFiniteSet(S) /\ n \in Nat
    BY AnimalsAssumption, FS_Subset, FS_CardinalityType
<1>2. ASSUME NEW a \in S
      PROVE  /\ IsFiniteSet(Before(a)) /\ Cardinality(Before(a)) \in Nat
             /\ IsFiniteSet(Before(a) \cup {a})
             /\ Cardinality(Before(a) \cup {a}) = Cardinality(Before(a)) + 1
             /\ Cardinality(Before(a) \cup {a}) <= n
  <2>1. Before(a) \in SUBSET S /\ Before(a) \cup {a} \in SUBSET S /\ a \notin Before(a)
    BY PrecedesOrders
  <2>2. IsFiniteSet(Before(a)) /\ Cardinality(Before(a)) \in Nat
    BY <1>1, <2>1, FS_Subset, FS_CardinalityType
  <2> HIDE DEF Before
  <2>3. IsFiniteSet(Before(a) \cup {a}) /\ Cardinality(Before(a) \cup {a}) = Cardinality(Before(a)) + 1
    BY <2>1, <2>2, FS_AddElement
  <2>4. Cardinality(Before(a) \cup {a}) <= n
    BY <1>1, <2>1, FS_Subset
  <2> QED BY <2>2, <2>3, <2>4
<1>3. \A a \in S : place[a] \in 1..n /\ place[a] = Cardinality(Before(a)) + 1
  <2> HIDE DEF Before
  <2>1. ASSUME NEW a \in S PROVE Cardinality(Before(a)) + 1 \in 1..n
    <3> DEFINE m == Cardinality(Before(a))
    <3>1. m \in Nat /\ m + 1 <= n
      BY <1>2
    <3> HIDE DEF m
    <3>2. n \in Nat
      BY <1>1
    <3> HIDE DEF n
    <3>3. m + 1 \in 1..n
      BY <3>1, <3>2
    <3> QED BY <3>3 DEF m
  <2> QED BY <2>1
<1>4. ASSUME NEW a \in S, NEW b \in S, Precedes(rows, a, b) PROVE place[a] < place[b]
  <2>1. Before(a) \cup {a} \in SUBSET Before(b)
    BY <1>4, PrecedesOrders
  <2>2. Cardinality(Before(a) \cup {a}) <= Cardinality(Before(b))
    <3> HIDE DEF Before
    <3> QED BY <1>2, <2>1, FS_Subset
  <2>3. place[a] = Cardinality(Before(a)) + 1 /\ place[b] = Cardinality(Before(b)) + 1
    BY <1>3
  <2> DEFINE m == Cardinality(Before(a))
             k == Cardinality(Before(b))
  <2>4. m \in Nat /\ k \in Nat /\ m + 1 <= k
    <3> HIDE DEF Before
    <3> QED BY <1>2, <2>2
  <2> HIDE DEF m, k
  <2>5. m + 1 < k + 1
    BY <2>4
  <2> QED BY <2>3, <2>5 DEF m, k
<1>5. place \in Injection(S, 1..n)
  <2>1. ASSUME NEW a \in S, NEW b \in S, a # b PROVE place[a] # place[b]
    <3>1. place[a] \in Nat /\ place[b] \in Nat
      BY <1>3
    <3>2. Precedes(rows, a, b) \/ Precedes(rows, b, a)
      BY <2>1, PrecedesOrders
    <3> HIDE DEF place
    <3> QED BY <1>4, <3>1, <3>2
  <2>2. place \in [S -> 1..n]
    BY <1>3
  <2> HIDE DEF place
  <2> QED BY <2>1, <2>2 DEF Injection, IsInjective
<1>6. IsFiniteSet(1..n) /\ Cardinality(1..n) = n
    BY <1>1, FS_Interval
<1>7. place \in Surjection(S, 1..n)
  <2> HIDE DEF place
  <2> QED BY <1>1, <1>5, <1>6, FS_Injection
<1> HIDE DEF place
<1> QED BY <1>1, <1>4, <1>7

\* The sort has an outcome.
LEMMA OrdersExist ==
    ASSUME NEW rows, NEW S \in SUBSET Animals, \A a \in S : rows[a] \in Candidates
    PROVE  Orders(rows, S) # {}
<1> DEFINE n == Cardinality(S)
<1>1. IsFiniteSet(S) /\ n \in Nat
    BY PlacesExist
<1>2. PICK place \in Surjection(S, 1..n) : \A a, b \in S : Precedes(rows, a, b) => place[a] < place[b]
    BY PlacesExist
<1> DEFINE t == [i \in 1..n |-> CHOOSE a \in S : place[a] = i]
<1>3. place \in [S -> 1..n] /\ \A i \in 1..n : \E a \in S : place[a] = i
    BY <1>2 DEF Surjection
<1>4. \A i \in 1..n : t[i] \in S /\ place[t[i]] = i
    BY <1>3
<1>5. t \in [1..n -> S] /\ DOMAIN t = 1..n
    BY <1>4
<1> HIDE DEF t
<1>6. ASSUME NEW i \in 1..n, NEW j \in 1..n, i < j PROVE ~ Surely(rows, S, t[j], t[i])
  <2>1. ~ Precedes(rows, t[j], t[i])
    BY <1>1, <1>2, <1>4, <1>6
  <2>2. t[i] \in S /\ t[j] \in S
    BY <1>4
  <2> QED BY <2>1, <2>2, SurelyPrecedes
<1>7. \A i, j \in 1..n : i # j => t[i] # t[j]
    BY <1>4
<1>8. t \in SetToSeqs(S)
    BY <1>5, <1>7 DEF SetToSeqs
<1>9. t \in Orders(rows, S)
    BY <1>5, <1>6, <1>8 DEF Orders
<1> QED BY <1>9

\* Each outcome has every candidate at one place.
LEMMA OrderProperties ==
    ASSUME NEW rows, NEW S \in SUBSET Animals, NEW s \in Orders(rows, S)
    PROVE  /\ IsFiniteSet(S) /\ Cardinality(S) \in Nat
           /\ s \in Seq(S) /\ Len(s) = Cardinality(S) /\ DOMAIN s = 1..Cardinality(S)
           /\ \A i \in 1..Cardinality(S) : s[i] \in S
           /\ \A i, j \in 1..Cardinality(S) : i # j => s[i] # s[j]
           /\ \A i, j \in 1..Cardinality(S) : i < j => ~ Surely(rows, S, s[j], s[i])
           /\ \A a \in S : \E i \in 1..Cardinality(S) : s[i] = a
<1> DEFINE n == Cardinality(S)
<1>1. IsFiniteSet(S) /\ n \in Nat
    BY AnimalsAssumption, FS_Subset, FS_CardinalityType
<1>2. s \in [1..n -> S] /\ \A i, j \in 1..n : i # j => s[i] # s[j]
    BY DEF Orders, SetToSeqs
<1>3. \A i, j \in 1..n : i < j => ~ Surely(rows, S, s[j], s[i])
    BY <1>2 DEF Orders
<1>4. s \in Injection(1..n, S)
    BY <1>2 DEF Injection, IsInjective
<1>5. \A a \in S : \E i \in 1..n : s[i] = a
  <2>1. IsFiniteSet(1..n) /\ Cardinality(1..n) = n
    BY <1>1, FS_Interval
  <2>2. s \in Surjection(1..n, S)
    BY <1>1, <1>4, <2>1, FS_Injection
  <2> QED BY <2>2 DEF Surjection
<1>6. s \in Seq(S) /\ Len(s) = n
  <2>1. s \in UNION {[1..m -> S] : m \in Nat} /\ DOMAIN s = 1..n
    BY <1>1, <1>2
  <2>2. s \in Seq(S)
    BY <2>1, SeqDef
  <2>3. DOMAIN s = 1..Len(s) /\ Len(s) \in Nat
    BY <2>2, LenProperties
  <2> QED BY <1>1, <2>1, <2>2, <2>3
<1> QED BY <1>1, <1>2, <1>3, <1>5, <1>6

\* Where a candidate comes is the number of those that surely come before it,
\* when any two are surely in one order.
LEMMA PlaceCounts ==
    ASSUME NEW rows, NEW S \in SUBSET Animals, \A a \in S : rows[a] \in Candidates,
           \A a, b \in S : a # b => Surely(rows, S, a, b) \/ Surely(rows, S, b, a),
           NEW s \in Orders(rows, S), NEW i \in 1..Cardinality(S)
    PROVE  Cardinality({a \in S : Surely(rows, S, a, s[i])}) = i - 1
<1> DEFINE n == Cardinality(S)
           Before == {a \in S : Surely(rows, S, a, s[i])}
           first == [j \in 1..i - 1 |-> s[j]]
<1>1. /\ n \in Nat
      /\ \A j \in 1..n : s[j] \in S
      /\ \A j, k \in 1..n : j # k => s[j] # s[k]
      /\ \A j, k \in 1..n : j < k => ~ Surely(rows, S, s[k], s[j])
      /\ \A a \in S : \E j \in 1..n : s[j] = a
    BY OrderProperties
<1>2. i \in 1..n /\ i - 1 \in Nat /\ \A j \in 1..i - 1 : j \in 1..n /\ j < i
    BY <1>1
<1>3. ASSUME NEW j \in 1..i - 1 PROVE s[j] \in Before
  <2>1. s[j] \in S /\ s[i] \in S /\ s[j] # s[i] /\ ~ Surely(rows, S, s[i], s[j])
    BY <1>1, <1>2
  <2> QED BY <2>1
<1>4. ASSUME NEW a \in Before PROVE \E j \in 1..i - 1 : s[j] = a
  <2>1. PICK j \in 1..n : s[j] = a
    BY <1>1
  <2>2. Surely(rows, S, s[j], s[i]) /\ s[j] \in S /\ s[i] \in S
    BY <1>1, <1>2, <2>1
  <2>3. j # i
    BY <2>2, SurelyPrecedes, PrecedesOrders
  <2>4. ~ i < j
    BY <1>1, <1>2, <2>2
  <2>5. j \in 1..i - 1
    BY <1>1, <1>2, <2>3, <2>4
  <2> QED BY <2>1, <2>5
<1> HIDE DEF Before
<1>5. first \in [1..i - 1 -> Before] /\ \A a \in Before : \E j \in 1..i - 1 : first[j] = a
    BY <1>3, <1>4
<1>6. \A j, k \in 1..i - 1 : first[j] = first[k] => j = k
    BY <1>1, <1>2
<1> HIDE DEF first
<1>7. first \in Bijection(1..i - 1, Before)
    BY <1>5, <1>6 DEF Bijection, Injection, Surjection, IsInjective
<1>8. IsFiniteSet(1..i - 1) /\ Cardinality(1..i - 1) = i - 1
    BY <1>2, FS_Interval
<1>9. Cardinality(Before) = i - 1
    BY <1>7, <1>8, FS_Bijection DEF ExistsBijection
<1> QED BY <1>9 DEF Before

\* Then the sort has one outcome only.
LEMMA OneOrder ==
    ASSUME NEW rows, NEW S \in SUBSET Animals, \A a \in S : rows[a] \in Candidates,
           \A a, b \in S : a # b => Surely(rows, S, a, b) \/ Surely(rows, S, b, a),
           NEW s \in Orders(rows, S), NEW t \in Orders(rows, S)
    PROVE  s = t
<1> DEFINE n == Cardinality(S)
<1>1. /\ n \in Nat /\ s \in [1..n -> S] /\ t \in [1..n -> S]
      /\ \A a \in S : \E j \in 1..n : s[j] = a
    BY OrderProperties DEF Orders, SetToSeqs
<1>2. ASSUME NEW i \in 1..n PROVE s[i] = t[i]
  <2>1. PICK j \in 1..n : s[j] = t[i]
    BY <1>1
  <2>2. Cardinality({a \in S : Surely(rows, S, a, s[j])}) = j - 1
    BY PlaceCounts
  <2>3. Cardinality({a \in S : Surely(rows, S, a, t[i])}) = i - 1
    BY PlaceCounts
  <2>4. j = i
    BY <1>1, <2>1, <2>2, <2>3
  <2> QED BY <2>1, <2>4
<1> QED BY <1>1, <1>2

-----------------------------------------------------------------------------
(* Interleaving.                                                           *)

\* The recursive definition of the loop defines a function.
LEMMA LoopExists ==
    ASSUME NEW boosted, NEW organic, NEW n \in Nat
    PROVE  \E g : g = [r \in 0..n |-> IF r = 0 THEN << >> ELSE g[r - 1] \o Turn(boosted, organic, r)]
<1> DEFINE Step(g, r) == IF r = 0 THEN << >> ELSE g[r - 1] \o Turn(boosted, organic, r)
           Loop(g, m) == g = [r \in 0..m |-> Step(g, r)]
           T == {m \in Nat : \E g : Loop(g, m)}
<1>1. 0 \in T
  <2>1. Loop([r \in 0..0 |-> << >>], 0)
    OBVIOUS
  <2> QED BY <2>1
<1>2. ASSUME NEW m \in Nat, m \in T PROVE m + 1 \in T
  <2>1. PICK g : Loop(g, m)
    BY <1>2
  <2> DEFINE h == [r \in 0..m + 1 |-> IF r = m + 1 THEN g[m] \o Turn(boosted, organic, m + 1) ELSE g[r]]
  <2>2. ASSUME NEW r \in 0..m + 1
        PROVE  h[r] = Step(h, r)
    <3>1. CASE r = m + 1
      <4>1. h[r] = g[m] \o Turn(boosted, organic, r)
        BY <3>1
      <4>2. r # 0 /\ r - 1 = m /\ m \in 0..m + 1 /\ m # m + 1
        BY <3>1
      <4>3. h[m] = g[m]
        BY <4>2
      <4> HIDE DEF h
      <4> QED BY <4>1, <4>2, <4>3
    <3>2. CASE r # m + 1
      <4>1. h[r] = g[r] /\ r \in 0..m
        BY <3>2
      <4>2. r # 0 => r - 1 \in 0..m /\ h[r - 1] = g[r - 1]
        BY <3>2
      <4>3. g[r] = Step(g, r)
        BY <2>1, <4>1
      <4> HIDE DEF h
      <4> QED BY <4>1, <4>2, <4>3
    <3> QED BY <3>1, <3>2
  <2>3. Loop(h, m + 1)
    <3> DEFINE k == [r \in 0..m + 1 |-> Step(h, r)]
    <3>1. h = k
      BY <2>2
    <3> QED BY <3>1
  <2> HIDE DEF Loop
  <2> QED BY <2>3
<1>3. n \in T
  <2> HIDE DEF T
  <2> QED BY <1>1, <1>2, SetInduction
<1> QED BY <1>3

LEMMA InterleaveDef ==
    ASSUME NEW boosted, NEW organic, Len(boosted) + Len(organic) \in Nat
    PROVE  \E g :
              /\ InterleaveBoosted(boosted, organic) = g[Len(boosted) + Len(organic)]
              /\ g = [r \in 0..Len(boosted) + Len(organic) |->
                         IF r = 0 THEN << >> ELSE g[r - 1] \o Turn(boosted, organic, r)]
<1> DEFINE n == Len(boosted) + Len(organic)
           Loop(g) == g = [r \in 0..n |-> IF r = 0 THEN << >> ELSE g[r - 1] \o Turn(boosted, organic, r)]
           f == CHOOSE g : Loop(g)
<1>1. InterleaveBoosted(boosted, organic) = f[n]
    BY DEF InterleaveBoosted
<1>2. Loop(f)
  <2>1. \E g : Loop(g)
    BY LoopExists
  <2> HIDE DEF Loop
  <2> QED BY <2>1
<1> QED BY <1>1, <1>2

\* How many of m organic candidates the first r turns take.
Drawn(r, m) == Least(r * OrganicAfterBoost, m)

LEMMA DrawnFacts ==
    ASSUME NEW m \in Nat, NEW q \in Nat, NEW r \in Nat
    PROVE  /\ Drawn(r, m) \in 0..m
           /\ Drawn(0, m) = 0
           /\ q <= r => Drawn(q, m) <= Drawn(r, m)
           /\ r >= m => Drawn(r, m) = m
           /\ r * OrganicAfterBoost \in Nat
           /\ Drawn(r, m) < m => Drawn(r, m) = r * OrganicAfterBoost
           /\ Drawn(r + 1, m) < m => Drawn(r + 1, m) = Drawn(r, m) + OrganicAfterBoost
<1> DEFINE N == OrganicAfterBoost
           x == q * N
           y == r * N
           z == (r + 1) * N
<1>1. N \in Nat /\ N > 0
    BY BoundsAssumption
<1>2. x \in Nat /\ y \in Nat /\ z \in Nat /\ 0 * N = 0
    BY <1>1
<1>3. z = y + N
    BY <1>1
<1>4. r <= y
    BY <1>1
<1>5. q <= r => x <= y
    BY <1>1
<1> HIDE DEF x, y, z
<1>6. /\ Drawn(q, m) = IF x < m THEN x ELSE m
      /\ Drawn(r, m) = IF y < m THEN y ELSE m
      /\ Drawn(r + 1, m) = IF z < m THEN z ELSE m
      /\ Drawn(0, m) = 0
    BY <1>2 DEF Drawn, Least, x, y, z
<1> QED BY <1>1, <1>2, <1>3, <1>4, <1>5, <1>6 DEF y

\* A turn takes the boosted candidate whose turn it is and the organic ones up
\* to the bound of that turn.
LEMMA TurnTakes ==
    ASSUME NEW boosted \in Seq(Animals), NEW organic \in Seq(Animals), NEW r \in Nat
    PROVE  LET B == Len(boosted)
               O == Len(organic)
               t == Turn(boosted, organic, r + 1)
               b == Least(r + 1, B) - Least(r, B)
           IN  /\ t \in Seq(Animals)
               /\ Len(t) = b + (Drawn(r + 1, O) - Drawn(r, O))
               /\ r < B => t[1] = boosted[r + 1]
               /\ \A k \in 1..Drawn(r + 1, O) - Drawn(r, O) : t[b + k] = organic[Drawn(r, O) + k]
<1> DEFINE B == Len(boosted)
           O == Len(organic)
           d == Drawn(r, O)
           e == Drawn(r + 1, O)
           b == Least(r + 1, B) - Least(r, B)
           first == SubSeq(boosted, r + 1, Least(r + 1, B))
           rest == SubSeq(organic, r * OrganicAfterBoost + 1, e)
<1>1. B \in Nat /\ O \in Nat /\ \A i \in 1..B : boosted[i] \in Animals
    BY LenProperties, ElementOfSeq
<1>2. \A i \in 1..O : organic[i] \in Animals
    BY LenProperties, ElementOfSeq
<1>3. /\ d \in 0..O /\ e \in 0..O /\ d <= e /\ r * OrganicAfterBoost \in Nat
      /\ d < O => d = r * OrganicAfterBoost
  <2> HIDE DEF O
  <2>1. d \in 0..O /\ r * OrganicAfterBoost \in Nat /\ (d < O => d = r * OrganicAfterBoost)
    BY <1>1, DrawnFacts
  <2>2. r + 1 \in Nat /\ r <= r + 1
    OBVIOUS
  <2>3. e \in 0..O /\ d <= e
    BY <1>1, <2>2, DrawnFacts
  <2> QED BY <2>1, <2>3
<1>4. b = IF r < B THEN 1 ELSE 0
    BY <1>1 DEF Least
<1>5. first \in Seq(Animals) /\ Len(first) = b /\ (r < B => first[1] = boosted[r + 1])
  <2>1. CASE r < B
    <3>1. Least(r + 1, B) = r + 1 /\ r + 1 \in 1..B
      BY <1>1, <2>1 DEF Least
    <3>2. first \in Seq(Animals) /\ Len(first) = 1 /\ first[1] = boosted[r + 1]
      BY <1>1, <3>1, SubSeqProperties
    <3> QED BY <1>4, <2>1, <3>2
  <2>2. CASE ~ r < B
    <3>1. Least(r + 1, B) = B /\ B < r + 1
      BY <1>1, <2>2 DEF Least
    <3>2. first = << >>
      BY <1>1, <3>1, SubSeqEmpty
    <3> QED BY <1>4, <2>2, <3>2, EmptySeq
  <2> QED BY <2>1, <2>2
<1>6. /\ rest \in Seq(Animals) /\ Len(rest) = e - d
      /\ \A k \in 1..e - d : rest[k] = organic[d + k]
  <2>1. CASE d = O
    <3>1. e = O /\ r * OrganicAfterBoost + 1 > O
      BY <1>1, <1>3, <2>1 DEF Drawn, Least
    <3>2. rest = << >>
      BY <1>1, <1>3, <3>1, SubSeqEmpty
    <3>3. e - d = 0 /\ 1..e - d = {}
      BY <1>1, <2>1, <3>1
    <3> QED BY <3>2, <3>3, EmptySeq
  <2>2. CASE d # O
    <3>1. d = r * OrganicAfterBoost /\ d \in Nat /\ e \in Nat
      BY <1>1, <1>3, <2>2
    <3> DEFINE low == d + 1
    <3>2. low \in Int /\ e \in Int /\ rest = SubSeq(organic, low, e)
      BY <3>1
    <3>3. \A i \in low..e : organic[i] \in Animals
      BY <1>1, <1>2, <1>3, <3>1
    <3> HIDE DEF low
    <3>4. /\ rest \in Seq(Animals)
          /\ Len(rest) = IF low <= e THEN e - low + 1 ELSE 0
          /\ \A k \in 1..e - low + 1 : rest[k] = organic[low + k - 1]
      <4> HIDE DEF rest, e
      <4>1. /\ SubSeq(organic, low, e) \in Seq(Animals)
            /\ Len(SubSeq(organic, low, e)) = IF low <= e THEN e - low + 1 ELSE 0
            /\ \A k \in 1..e - low + 1 : SubSeq(organic, low, e)[k] = organic[low + k - 1]
        BY <3>2, <3>3, SubSeqProperties
      <4> QED BY <3>2, <4>1
    <3> HIDE DEF rest, d, e
    <3>5. e - low + 1 = e - d /\ (low <= e <=> d < e) /\ \A k \in 1..e - d : low + k - 1 = d + k
      <4>1. e - (d + 1) + 1 = e - d /\ (d + 1 <= e <=> d < e)
        BY <3>1
      <4>2. \A k \in 1..e - d : d + 1 + k - 1 = d + k
        BY <3>1
      <4> QED BY <4>1, <4>2 DEF low
    <3> QED BY <1>3, <3>1, <3>4, <3>5
  <2> QED BY <2>1, <2>2
<1>7. Turn(boosted, organic, r + 1) = first \o rest
  <2>1. (r + 1) - 1 = r
    OBVIOUS
  <2> QED BY <2>1 DEF Turn, Drawn
<1> HIDE DEF first, rest, d, e, b
<1>8. /\ first \o rest \in Seq(Animals)
      /\ Len(first \o rest) = b + (e - d)
      /\ \A i \in 1..b + (e - d) : (first \o rest)[i] = IF i <= b THEN first[i] ELSE rest[i - b]
  <2>1. /\ first \o rest \in Seq(Animals)
        /\ Len(first \o rest) = Len(first) + Len(rest)
        /\ \A i \in 1..Len(first) + Len(rest) :
              (first \o rest)[i] = IF i <= Len(first) THEN first[i] ELSE rest[i - Len(first)]
    BY <1>5, <1>6, ConcatProperties
  <2> QED BY <1>5, <1>6, <2>1
<1>9. b \in {0, 1} /\ d \in Nat /\ e \in Nat /\ d <= e /\ (r < B => b = 1)
    BY <1>1, <1>3, <1>4
<1>10. r < B => (first \o rest)[1] = boosted[r + 1]
    BY <1>5, <1>8, <1>9
<1>11. ASSUME NEW k \in 1..e - d PROVE (first \o rest)[b + k] = organic[d + k]
  <2>1. b + k \in 1..b + (e - d) /\ ~ b + k <= b /\ (b + k) - b = k
    BY <1>9
  <2> QED BY <1>6, <1>8, <2>1
<1> QED BY <1>7, <1>8, <1>10, <1>11 DEF b, d, e

\* The organic candidates the q-th turn takes from m of them.
Took(q, m) == Drawn(q - 1, m) + 1..Drawn(q, m)

\* What r turns make: where each candidate they took stands, and that no place
\* holds anything else.
Laid(boosted, organic, s, r) ==
    LET B == Len(boosted)
        O == Len(organic)
    IN  /\ s \in Seq(Animals)
        /\ Len(s) = Least(r, B) + Drawn(r, O)
        /\ \A q \in 1..Least(r, B) :
              /\ q + Drawn(q - 1, O) \in 1..Len(s)
              /\ s[q + Drawn(q - 1, O)] = boosted[q]
        /\ \A q \in 1..r : \A o \in Took(q, O) :
              /\ Least(q, B) + o \in 1..Len(s)
              /\ s[Least(q, B) + o] = organic[o]
        /\ \A i \in 1..Len(s) :
              \/ \E q \in 1..Least(r, B) : i = q + Drawn(q - 1, O)
              \/ \E q \in 1..r : \E o \in Took(q, O) : i = Least(q, B) + o
        /\ \A o \in 1..Drawn(r, O) : \E q \in 1..r : o \in Took(q, O)

LEMMA LaidStarts ==
    ASSUME NEW boosted \in Seq(Animals), NEW organic \in Seq(Animals)
    PROVE  Laid(boosted, organic, << >>, 0)
<1>1. Len(boosted) \in Nat /\ Len(organic) \in Nat
    BY LenProperties
<1>2. Drawn(0, Len(organic)) = 0 /\ Least(0, Len(boosted)) = 0
    BY <1>1, DrawnFacts DEF Least
<1>3. << >> \in Seq(Animals) /\ Len(<< >>) = 0 /\ 1..0 = {}
    BY EmptySeq
<1> QED BY <1>2, <1>3 DEF Laid

LEMMA LaidGrows ==
    ASSUME NEW boosted \in Seq(Animals), NEW organic \in Seq(Animals), NEW s, NEW r \in Nat,
           Laid(boosted, organic, s, r)
    PROVE  Laid(boosted, organic, s \o Turn(boosted, organic, r + 1), r + 1)
<1> DEFINE B == Len(boosted)
           O == Len(organic)
           t == Turn(boosted, organic, r + 1)
           l == Least(r, B)
           m == Least(r + 1, B)
           d == Drawn(r, O)
           e == Drawn(r + 1, O)
           u == s \o t
<1>1. B \in Nat /\ O \in Nat
    BY LenProperties
<1>2. /\ l \in Nat /\ l <= r
      /\ r < B => m = l + 1 /\ l = r
      /\ ~ r < B => m = l
    BY <1>1 DEF Least
<1>3. d \in Nat /\ e \in Nat /\ d <= e
  <2> HIDE DEF O
  <2>1. d \in 0..O
    BY <1>1, DrawnFacts
  <2>2. r + 1 \in Nat /\ r <= r + 1
    OBVIOUS
  <2>3. e \in 0..O /\ d <= e
    BY <1>1, <2>2, DrawnFacts
  <2> QED BY <1>1, <2>1, <2>3
<1>4. /\ t \in Seq(Animals) /\ Len(t) = (m - l) + (e - d)
      /\ r < B => t[1] = boosted[r + 1]
      /\ \A k \in 1..e - d : t[(m - l) + k] = organic[d + k]
    BY TurnTakes
<1>5. /\ s \in Seq(Animals) /\ Len(s) = l + d
      /\ \A q \in 1..l : q + Drawn(q - 1, O) \in 1..l + d /\ s[q + Drawn(q - 1, O)] = boosted[q]
      /\ \A q \in 1..r : \A o \in Took(q, O) : Least(q, B) + o \in 1..l + d /\ s[Least(q, B) + o] = organic[o]
      /\ \A i \in 1..l + d :
            \/ \E q \in 1..l : i = q + Drawn(q - 1, O)
            \/ \E q \in 1..r : \E o \in Took(q, O) : i = Least(q, B) + o
      /\ \A o \in 1..d : \E q \in 1..r : o \in Took(q, O)
    BY DEF Laid
<1>6. Took(r + 1, O) = d + 1..e /\ (r + 1) - 1 = r
    BY DEF Took
<1> HIDE DEF t, l, m, d, e
<1>7. /\ u \in Seq(Animals) /\ Len(u) = m + e
      /\ \A i \in 1..l + d : u[i] = s[i]
      /\ \A i \in 1..(m - l) + (e - d) : u[l + d + i] = t[i]
  <2>1. /\ u \in Seq(Animals) /\ Len(u) = Len(s) + Len(t)
        /\ \A i \in 1..Len(s) + Len(t) : u[i] = IF i <= Len(s) THEN s[i] ELSE t[i - Len(s)]
    <3>1. s \in Seq(Animals) /\ t \in Seq(Animals)
      BY <1>4, <1>5
    <3> QED BY <3>1, ConcatProperties
  <2> HIDE DEF u
  <2>2. m \in Nat /\ l <= m /\ Len(s) + Len(t) = m + e
    <3> HIDE DEF B
    <3>1. m \in Nat /\ l <= m
      BY <1>1, <1>2
    <3> QED BY <1>2, <1>3, <1>4, <1>5, <3>1
  <2>3. ASSUME NEW i \in 1..l + d PROVE u[i] = s[i]
    <3>1. i \in 1..m + e /\ i <= l + d
      BY <1>2, <1>3, <2>2
    <3> QED BY <1>5, <2>1, <2>2, <3>1
  <2>4. ASSUME NEW i \in 1..(m - l) + (e - d) PROVE u[l + d + i] = t[i]
    <3>1. l + d + i \in 1..m + e /\ ~ l + d + i <= l + d /\ (l + d + i) - (l + d) = i
      BY <1>2, <1>3, <2>2
    <3> QED BY <1>5, <2>1, <2>2, <3>1
  <2> QED BY <2>1, <2>2, <2>3, <2>4
<1> HIDE DEF u
<1>8. m \in Nat /\ l <= m /\ l + d <= m + e /\ l + d \in Nat /\ m + e \in Nat
    BY <1>2, <1>3
<1>9. ASSUME NEW q \in 1..m
      PROVE  q + Drawn(q - 1, O) \in 1..m + e /\ u[q + Drawn(q - 1, O)] = boosted[q]
  <2>1. CASE q \in 1..l
    BY <1>5, <1>7, <1>8, <2>1
  <2>2. CASE q \notin 1..l
    <3>1. r < B /\ q = r + 1 /\ l = r /\ m = l + 1 /\ Drawn(q - 1, O) = d
      BY <1>2, <1>6, <2>2 DEF d
    <3>2. q + d = l + d + 1 /\ 1 \in 1..(m - l) + (e - d) /\ l + d + 1 \in 1..m + e
      BY <1>2, <1>3, <3>1
    <3> QED BY <1>4, <1>7, <3>1, <3>2
  <2> QED BY <2>1, <2>2
<1>10. ASSUME NEW q \in 1..r + 1, NEW o \in Took(q, O)
       PROVE  Least(q, B) + o \in 1..m + e /\ u[Least(q, B) + o] = organic[o]
  <2>1. CASE q \in 1..r
    BY <1>5, <1>7, <1>8, <2>1
  <2>2. CASE q \notin 1..r
    <3>1. q = r + 1 /\ Least(q, B) = m /\ o \in d + 1..e
      <4>1. q = r + 1
        BY <2>2
      <4> QED BY <1>6, <4>1 DEF m
    <3> DEFINE k == o - d
    <3>2. /\ k \in 1..e - d /\ d + k = o
          /\ (m - l) + k \in 1..(m - l) + (e - d) /\ l + d + ((m - l) + k) = m + o
          /\ m + o \in 1..m + e
      BY <1>2, <1>3, <1>8, <3>1
    <3> QED BY <1>4, <1>7, <3>1, <3>2
  <2> QED BY <2>1, <2>2
<1>11. ASSUME NEW i \in 1..m + e
       PROVE  \/ \E q \in 1..m : i = q + Drawn(q - 1, O)
              \/ \E q \in 1..r + 1 : \E o \in Took(q, O) : i = Least(q, B) + o
  <2>1. CASE i \in 1..l + d
    <3>1. CASE \E q \in 1..l : i = q + Drawn(q - 1, O)
      <4>1. 1..l \subseteq 1..m
        BY <1>2, <1>8
      <4> QED BY <3>1, <4>1
    <3>2. CASE \E q \in 1..r : \E o \in Took(q, O) : i = Least(q, B) + o
      <4>1. 1..r \subseteq 1..r + 1
        OBVIOUS
      <4> QED BY <3>2, <4>1
    <3> QED BY <1>5, <2>1, <3>1, <3>2
  <2>2. CASE i \notin 1..l + d /\ i <= m + d
    <3>1. r < B /\ l = r /\ m = r + 1 /\ i = (r + 1) + d
      BY <1>2, <1>3, <1>8, <2>2
    <3>2. Drawn((r + 1) - 1, O) = d /\ r + 1 \in 1..m
      BY <1>6, <3>1 DEF d
    <3> QED BY <3>1, <3>2
  <2>3. CASE i > m + d
    <3>1. i - m \in d + 1..e /\ i = m + (i - m)
      BY <1>3, <1>8, <2>3
    <3>2. r + 1 \in 1..r + 1 /\ Least(r + 1, B) = m
      BY DEF m
    <3> QED BY <1>6, <3>1, <3>2
  <2> QED BY <1>3, <1>8, <2>1, <2>2, <2>3
<1>12. ASSUME NEW o \in 1..e PROVE \E q \in 1..r + 1 : o \in Took(q, O)
  <2>1. CASE o \in 1..d
    <3>1. 1..r \subseteq 1..r + 1
      OBVIOUS
    <3> QED BY <1>5, <2>1, <3>1
  <2>2. CASE o \notin 1..d
    <3>1. o \in d + 1..e /\ r + 1 \in 1..r + 1
      BY <1>3, <2>2
    <3> QED BY <1>6, <3>1
  <2> QED BY <2>1, <2>2
<1>13. u \in Seq(Animals) /\ Len(u) = m + e
    BY <1>7
<1>14. Laid(boosted, organic, u, r + 1)
  <2>1. \A q \in 1..Least(r + 1, B) : q + Drawn(q - 1, O) \in 1..Len(u) /\ u[q + Drawn(q - 1, O)] = boosted[q]
    BY <1>9, <1>13 DEF m
  <2>2. \A q \in 1..r + 1 : \A o \in Took(q, O) : Least(q, B) + o \in 1..Len(u) /\ u[Least(q, B) + o] = organic[o]
    BY <1>10, <1>13
  <2>3. \A i \in 1..Len(u) :
           \/ \E q \in 1..Least(r + 1, B) : i = q + Drawn(q - 1, O)
           \/ \E q \in 1..r + 1 : \E o \in Took(q, O) : i = Least(q, B) + o
    BY <1>11, <1>13 DEF m
  <2>4. Len(u) = Least(r + 1, B) + Drawn(r + 1, O)
    BY <1>13 DEF m, e
  <2>5. \A o \in 1..Drawn(r + 1, O) : \E q \in 1..r + 1 : o \in Took(q, O)
    BY <1>12 DEF e
  <2> QED BY <1>13, <2>1, <2>2, <2>3, <2>4, <2>5 DEF Laid
<1> QED BY <1>14 DEF u, t

\* The whole loop.
LEMMA InterleaveLays ==
    ASSUME NEW boosted \in Seq(Animals), NEW organic \in Seq(Animals)
    PROVE  Laid(boosted, organic, InterleaveBoosted(boosted, organic), Len(boosted) + Len(organic))
<1> DEFINE n == Len(boosted) + Len(organic)
<1>1. n \in Nat
    BY LenProperties
<1>2. PICK g : /\ InterleaveBoosted(boosted, organic) = g[n]
               /\ g = [r \in 0..n |-> IF r = 0 THEN << >> ELSE g[r - 1] \o Turn(boosted, organic, r)]
    BY <1>1, InterleaveDef
<1> HIDE DEF n
<1> DEFINE T == {r \in Nat : r <= n => Laid(boosted, organic, g[r], r)}
<1>3. 0 \in T
  <2>1. g[0] = << >>
    BY <1>1, <1>2
  <2> QED BY <2>1, LaidStarts
<1>4. ASSUME NEW r \in Nat, r \in T PROVE r + 1 \in T
  <2> SUFFICES ASSUME r + 1 <= n PROVE Laid(boosted, organic, g[r + 1], r + 1)
    OBVIOUS
  <2>1. Laid(boosted, organic, g[r], r)
    BY <1>1, <1>4
  <2>2. r + 1 \in 0..n /\ r + 1 # 0 /\ (r + 1) - 1 = r
    BY <1>1
  <2>3. g[r + 1] = g[r] \o Turn(boosted, organic, r + 1)
    BY <1>2, <2>2
  <2> QED BY <2>1, <2>3, LaidGrows
<1>5. n \in T
  <2> HIDE DEF T
  <2> QED BY <1>1, <1>3, <1>4, SetInduction
<1> QED BY <1>1, <1>2, <1>5 DEF n

-----------------------------------------------------------------------------
(* Ranking.                                                                *)

LEMMA RankingsAre ==
    ASSUME NEW rows, NEW S, NEW ranked
    PROVE  ranked \in Rankings(rows, S) <=>
              \E b \in Orders(rows, Boosts(rows, S)), o \in Orders(rows, Organic(rows, S)) :
                  ranked = InterleaveBoosted(b, o)
<1> DEFINE X == Orders(rows, Boosts(rows, S))
           Y == Orders(rows, Organic(rows, S))
<1>1. Rankings(rows, S) = {InterleaveBoosted(b, o) : b \in X, o \in Y}
    BY DEF Rankings
<1> HIDE DEF X, Y
<1>2. ranked \in {InterleaveBoosted(b, o) : b \in X, o \in Y} <=>
          \E b \in X, o \in Y : ranked = InterleaveBoosted(b, o)
    OBVIOUS
<1> QED BY <1>1, <1>2 DEF X, Y

\* A ranking is laid out of an order of the boosted candidates and one of the
\* organic ones.
LaidOutOf(rows, S, boosted, organic, ranked) ==
    /\ Len(boosted) + Len(organic) = Cardinality(S)
    /\ \A q \in 1..Len(boosted) : boosted[q] \in S /\ rows[boosted[q]].boosted
    /\ \A o \in 1..Len(organic) : organic[o] \in S /\ ~ rows[organic[o]].boosted
    /\ \A q, r \in 1..Len(boosted) : q < r => ~ Surely(rows, Boosts(rows, S), boosted[r], boosted[q])
    /\ \A o, r \in 1..Len(organic) : o < r => ~ Surely(rows, Organic(rows, S), organic[r], organic[o])
    /\ \A a \in S : \/ \E q \in 1..Len(boosted) : boosted[q] = a
                    \/ \E o \in 1..Len(organic) : organic[o] = a
    /\ Laid(boosted, organic, ranked, Len(boosted) + Len(organic))

LEMMA RankLays ==
    ASSUME NEW rows, NEW S \in SUBSET Animals, NEW ranked \in Rankings(rows, S)
    PROVE  \E boosted \in Seq(Animals), organic \in Seq(Animals) :
              LaidOutOf(rows, S, boosted, organic, ranked)
<1> DEFINE X == Boosts(rows, S)
           Y == Organic(rows, S)
<1>1. PICK boosted \in Orders(rows, X), organic \in Orders(rows, Y) :
          ranked = InterleaveBoosted(boosted, organic)
    BY RankingsAre
<1>2. /\ X \in SUBSET Animals /\ \A a \in X : a \in S /\ rows[a].boosted
      /\ Y \in SUBSET Animals /\ \A a \in Y : a \in S /\ ~ rows[a].boosted
      /\ X \cup Y = S /\ X \cap Y = {}
    BY DEF Boosts, Organic
<1> HIDE DEF X, Y
<1>3. /\ IsFiniteSet(X) /\ Cardinality(X) \in Nat /\ boosted \in Seq(X) /\ Len(boosted) = Cardinality(X)
      /\ \A i \in 1..Len(boosted) : boosted[i] \in X
      /\ \A i, j \in 1..Len(boosted) : i < j => ~ Surely(rows, X, boosted[j], boosted[i])
      /\ \A a \in X : \E i \in 1..Len(boosted) : boosted[i] = a
    BY <1>2, OrderProperties
<1>4. /\ IsFiniteSet(Y) /\ Cardinality(Y) \in Nat /\ organic \in Seq(Y) /\ Len(organic) = Cardinality(Y)
      /\ \A i \in 1..Len(organic) : organic[i] \in Y
      /\ \A i, j \in 1..Len(organic) : i < j => ~ Surely(rows, Y, organic[j], organic[i])
      /\ \A a \in Y : \E i \in 1..Len(organic) : organic[i] = a
    BY <1>2, OrderProperties
<1>5. boosted \in Seq(Animals) /\ organic \in Seq(Animals)
    BY <1>2, <1>3, <1>4, SeqMonotonic
<1>6. Len(boosted) + Len(organic) = Cardinality(S)
  <2>1. Cardinality(X \cup Y) = Cardinality(X) + Cardinality(Y) - Cardinality(X \cap Y)
    BY <1>3, <1>4, FS_Union
  <2>2. Cardinality(X \cap Y) = 0
    BY <1>2, FS_EmptySet
  <2>3. Cardinality(S) = Cardinality(X) + Cardinality(Y) - 0
    BY <1>2, <2>1, <2>2
  <2> QED BY <1>3, <1>4, <2>3
<1>7. Laid(boosted, organic, ranked, Len(boosted) + Len(organic))
    BY <1>1, <1>5, InterleaveLays
<1>8. \A a \in S : \/ \E q \in 1..Len(boosted) : boosted[q] = a
                   \/ \E o \in 1..Len(organic) : organic[o] = a
    BY <1>2, <1>3, <1>4
<1>9. /\ \A q \in 1..Len(boosted) : boosted[q] \in S /\ rows[boosted[q]].boosted
      /\ \A o \in 1..Len(organic) : organic[o] \in S /\ ~ rows[organic[o]].boosted
    BY <1>2, <1>3, <1>4
<1>10. /\ \A q, r \in 1..Len(boosted) :
             q < r => ~ Surely(rows, Boosts(rows, S), boosted[r], boosted[q])
       /\ \A o, r \in 1..Len(organic) :
             o < r => ~ Surely(rows, Organic(rows, S), organic[r], organic[o])
    BY <1>3, <1>4 DEF X, Y
<1> QED BY <1>5, <1>6, <1>7, <1>8, <1>9, <1>10 DEF LaidOutOf

\* The rules of the feed hold of every ranking.
LEMMA RankSpreads ==
    ASSUME NEW rows, NEW S \in SUBSET Animals, \A a \in S : rows[a] \in Candidates,
           NEW ranked \in Rankings(rows, S)
    PROVE  LET Boosted(i) == rows[ranked[i]].boosted
               places == DOMAIN ranked
           IN  /\ ranked \in Seq(Animals)
               /\ \A i \in places : ranked[i] \in S
               /\ Len(ranked) = Cardinality(S)
               /\ \A a \in S : \E i \in places : ranked[i] = a
               /\ \A i, j \in places :
                     i < j /\ Boosted(i) = Boosted(j)
                     => ~ Surely(rows, Lane(rows, S, ranked[i]), ranked[j], ranked[i])
               /\ (\E i \in places : Boosted(i)) => Boosted(1)
               /\ \A i, j, k \in places :
                     /\ i < j /\ j < k
                     /\ Boosted(i) /\ Boosted(j) /\ ~ Boosted(k)
                     => j - i > OrganicAfterBoost
<1> DEFINE Boosted(i) == rows[ranked[i]].boosted
           N == OrganicAfterBoost
<1>0. PICK boosted \in Seq(Animals), organic \in Seq(Animals) :
          LaidOutOf(rows, S, boosted, organic, ranked)
    BY RankLays
<1>1. /\ Len(boosted) + Len(organic) = Cardinality(S)
      /\ \A q \in 1..Len(boosted) : boosted[q] \in S /\ rows[boosted[q]].boosted
      /\ \A o \in 1..Len(organic) : organic[o] \in S /\ ~ rows[organic[o]].boosted
      /\ \A q, r \in 1..Len(boosted) : q < r => ~ Surely(rows, Boosts(rows, S), boosted[r], boosted[q])
      /\ \A o, r \in 1..Len(organic) : o < r => ~ Surely(rows, Organic(rows, S), organic[r], organic[o])
      /\ \A a \in S : \/ \E q \in 1..Len(boosted) : boosted[q] = a
                      \/ \E o \in 1..Len(organic) : organic[o] = a
      /\ Laid(boosted, organic, ranked, Len(boosted) + Len(organic))
    BY <1>0 DEF LaidOutOf
<1> DEFINE B == Len(boosted)
           O == Len(organic)
           D(q) == Drawn(q, O)
           BoostedAt(i, q) == q \in 1..B /\ i = q + D(q - 1)
           OrganicAt(i, q, o) == q \in Nat \ {0} /\ o \in 1..O /\ D(q - 1) < o /\ o <= D(q) /\ i = Least(q, B) + o
<1>2. B \in Nat /\ O \in Nat
    BY LenProperties
<1> HIDE DEF B, O
<1>3. Least(B + O, B) = B /\ D(B + O) = O /\ B + O \in Nat
  <2>1. B + O \in Nat /\ B + O >= O /\ ~ B + O < B
    BY <1>2
  <2> QED BY <1>2, <2>1, DrawnFacts DEF Least
<1>4. /\ \A q \in Nat : D(q) \in Nat /\ D(q) <= O
      /\ \A q, r \in Nat : q <= r => D(q) <= D(r)
  <2>1. \A q \in Nat : D(q) \in 0..O
    BY <1>2, DrawnFacts
  <2>2. \A q, r \in Nat : q <= r => D(q) <= D(r)
    BY <1>2, DrawnFacts
  <2> QED BY <1>2, <2>1, <2>2
<1>5. /\ ranked \in Seq(Animals) /\ Len(ranked) = B + O /\ DOMAIN ranked = 1..B + O
      /\ \A q \in 1..B : q + D(q - 1) \in 1..B + O /\ ranked[q + D(q - 1)] = boosted[q]
      /\ \A q \in 1..B + O : \A o \in Took(q, O) : Least(q, B) + o \in 1..B + O /\ ranked[Least(q, B) + o] = organic[o]
      /\ \A i \in 1..B + O :
            \/ \E q \in 1..B : i = q + D(q - 1)
            \/ \E q \in 1..B + O : \E o \in Took(q, O) : i = Least(q, B) + o
      /\ \A o \in 1..O : \E q \in 1..B + O : o \in Took(q, O)
  <2>1. Laid(boosted, organic, ranked, B + O)
    BY <1>1 DEF B, O
  <2>2. ranked \in Seq(Animals) /\ Len(ranked) = B + O
    BY <1>3, <2>1 DEF Laid, B, O
  <2>3. DOMAIN ranked = 1..B + O
    BY <2>2, LenProperties
  <2>4. \A q \in 1..B : q + D(q - 1) \in 1..B + O /\ ranked[q + D(q - 1)] = boosted[q]
    BY <1>3, <2>1, <2>2 DEF Laid, B, O
  <2>5. \A q \in 1..B + O : \A o \in Took(q, O) : Least(q, B) + o \in 1..B + O /\ ranked[Least(q, B) + o] = organic[o]
    BY <1>3, <2>1, <2>2 DEF Laid, B, O
  <2>6. \A i \in 1..B + O :
            \/ \E q \in 1..B : i = q + D(q - 1)
            \/ \E q \in 1..B + O : \E o \in Took(q, O) : i = Least(q, B) + o
    <3>1. \A i \in 1..Len(ranked) :
            \/ \E q \in 1..Least(B + O, B) : i = q + D(q - 1)
            \/ \E q \in 1..B + O : \E o \in Took(q, O) : i = Least(q, B) + o
      BY <2>1 DEF Laid, B, O
    <3>2. \A i \in 1..B + O : i \in 1..Len(ranked)
      BY <2>2
    <3>3. Least(B + O, B) = B
      BY <1>3
    <3> QED BY <3>1, <3>2, <3>3
  <2>7. \A o \in 1..O : \E q \in 1..B + O : o \in Took(q, O)
    BY <1>3, <2>1 DEF Laid, B, O
  <2> QED BY <2>2, <2>3, <2>4, <2>5, <2>6, <2>7
<1>6. \A q \in 1..B + O : \A o \in Took(q, O) :
         q \in Nat \ {0} /\ o \in 1..O /\ D(q - 1) < o /\ o <= D(q)
  <2> SUFFICES ASSUME NEW q \in 1..B + O, NEW o \in Took(q, O)
               PROVE  q \in Nat \ {0} /\ o \in 1..O /\ D(q - 1) < o /\ o <= D(q)
    OBVIOUS
  <2>1. q \in Nat \ {0} /\ q - 1 \in Nat
    BY <1>2
  <2>2. D(q) \in Nat /\ D(q) <= O /\ D(q - 1) \in Nat
    BY <1>4, <2>1
  <2>3. o \in D(q - 1) + 1..D(q)
    BY DEF Took
  <2> QED BY <1>2, <2>1, <2>2, <2>3
<1> HIDE DEF D
<1>7. ASSUME NEW i \in 1..B + O
      PROVE  \/ \E q \in 1..B : BoostedAt(i, q) /\ ranked[i] = boosted[q] /\ Boosted(i) /\ ranked[i] \in S
             \/ \E q, o \in Nat : OrganicAt(i, q, o) /\ ranked[i] = organic[o] /\ ~ Boosted(i) /\ ranked[i] \in S
  <2>1. CASE \E q \in 1..B : i = q + D(q - 1)
    <3>1. PICK q \in 1..B : i = q + D(q - 1)
      BY <2>1
    <3>2. ranked[i] = boosted[q] /\ boosted[q] \in S /\ rows[boosted[q]].boosted
      BY <1>1, <1>5, <3>1 DEF B
    <3> QED BY <3>1, <3>2
  <2>2. CASE \E q \in 1..B + O : \E o \in Took(q, O) : i = Least(q, B) + o
    <3>1. PICK q \in 1..B + O : \E o \in Took(q, O) : i = Least(q, B) + o
      BY <2>2
    <3>2. PICK o \in Took(q, O) : i = Least(q, B) + o
      BY <3>1
    <3>3. OrganicAt(i, q, o) /\ o \in 1..O /\ q \in Nat /\ o \in Nat
      BY <1>6, <3>2
    <3>4. ranked[i] = organic[o]
      BY <1>5, <3>2
    <3>5. organic[o] \in S /\ ~ rows[organic[o]].boosted
      BY <1>1, <3>3 DEF O
    <3> HIDE DEF OrganicAt
    <3> QED BY <3>3, <3>4, <3>5
  <2>3. (\E q \in 1..B : i = q + D(q - 1)) \/ (\E q \in 1..B + O : \E o \in Took(q, O) : i = Least(q, B) + o)
    BY <1>5
  <2> HIDE DEF BoostedAt, OrganicAt, Boosted
  <2> QED BY <2>1, <2>2, <2>3
\* Later turns take later candidates.
<1>8. ASSUME NEW i \in 1..B + O, NEW j \in 1..B + O, NEW q \in 1..B, NEW r \in 1..B,
             i < j, BoostedAt(i, q), BoostedAt(j, r)
      PROVE  q < r
  <2> SUFFICES ASSUME r <= q PROVE FALSE
    BY <1>2
  <2>1. r - 1 \in Nat /\ q - 1 \in Nat /\ r - 1 <= q - 1
    BY <1>2
  <2>2. D(r - 1) <= D(q - 1) /\ D(r - 1) \in Nat /\ D(q - 1) \in Nat
    BY <1>2, <1>4, <2>1
  <2> QED BY <1>2, <1>8, <2>2
<1>9. ASSUME NEW i \in 1..B + O, NEW j \in 1..B + O, NEW q \in Nat, NEW r \in Nat,
             NEW o \in Nat, NEW p \in Nat, i < j, OrganicAt(i, q, o), OrganicAt(j, r, p)
      PROVE  o < p
  <2> SUFFICES ASSUME p <= o PROVE FALSE
    OBVIOUS
  <2>1. q - 1 \in Nat /\ r - 1 \in Nat /\ D(r - 1) < p /\ o <= D(q)
    BY <1>9
  <2>2. D(r - 1) \in Nat /\ D(q) \in Nat /\ (q <= r - 1 => D(q) <= D(r - 1))
    BY <1>2, <1>4, <2>1
  <2>3. r <= q
    BY <2>1, <2>2
  <2>4. Least(r, B) <= Least(q, B) /\ Least(r, B) \in Nat /\ Least(q, B) \in Nat
    BY <1>2, <2>3 DEF Least
  <2> QED BY <1>9, <2>4
<1>10. \A i, j \in 1..B + O :
          i < j /\ Boosted(i) = Boosted(j)
          => ~ Surely(rows, Lane(rows, S, ranked[i]), ranked[j], ranked[i])
  <2> SUFFICES ASSUME NEW i \in 1..B + O, NEW j \in 1..B + O, i < j, Boosted(i) = Boosted(j)
               PROVE  ~ Surely(rows, Lane(rows, S, ranked[i]), ranked[j], ranked[i])
    OBVIOUS
  <2> HIDE DEF Boosted, BoostedAt, OrganicAt
  <2>1. CASE Boosted(i)
    <3>1. PICK q \in 1..B : BoostedAt(i, q) /\ ranked[i] = boosted[q]
      BY <1>7, <2>1
    <3>2. PICK r \in 1..B : BoostedAt(j, r) /\ ranked[j] = boosted[r]
      BY <1>7, <2>1
    <3>3. q < r
      BY <1>8, <3>1, <3>2
    <3>4. Lane(rows, S, ranked[i]) = Boosts(rows, S)
      BY <2>1 DEF Lane, Boosted
    <3> QED BY <1>1, <3>1, <3>2, <3>3, <3>4 DEF B
  <2>2. CASE ~ Boosted(i)
    <3>1. PICK q \in Nat, o \in Nat : OrganicAt(i, q, o) /\ ranked[i] = organic[o]
      BY <1>7, <2>2
    <3>2. PICK r \in Nat, p \in Nat : OrganicAt(j, r, p) /\ ranked[j] = organic[p]
      BY <1>7, <2>2
    <3>3. o < p
      BY <1>9, <3>1, <3>2
    <3>4. o \in 1..O /\ p \in 1..O
      BY <3>1, <3>2 DEF OrganicAt
    <3>5. Lane(rows, S, ranked[i]) = Organic(rows, S)
      BY <2>2 DEF Lane, Boosted
    <3> QED BY <1>1, <3>1, <3>2, <3>3, <3>4, <3>5 DEF O
  <2> QED BY <2>1, <2>2
<1>11. (\E i \in 1..B + O : Boosted(i)) => Boosted(1)
  <2> SUFFICES ASSUME NEW i \in 1..B + O, Boosted(i), ~ Boosted(1) PROVE FALSE
    OBVIOUS
  <2> HIDE DEF Boosted
  <2>1. B >= 1 /\ 1 \in 1..B + O
    <3>1. PICK q \in 1..B : TRUE
      BY <1>7
    <3> QED BY <1>2, <3>1
  <2>2. PICK q \in Nat, o \in Nat : OrganicAt(1, q, o)
    BY <1>7, <2>1
  <2>3. q >= 1 /\ o >= 1 /\ 1 = Least(q, B) + o
    BY <1>2, <2>2
  <2> QED BY <1>2, <2>1, <2>3 DEF Least
<1>12. \A i, j, k \in 1..B + O :
          i < j /\ j < k /\ Boosted(i) /\ Boosted(j) /\ ~ Boosted(k) => j - i > N
  <2> SUFFICES ASSUME NEW i \in 1..B + O, NEW j \in 1..B + O, NEW k \in 1..B + O,
                      i < j, j < k, Boosted(i), Boosted(j), ~ Boosted(k)
               PROVE  j - i > N
    OBVIOUS
  <2> HIDE DEF Boosted
  <2>1. PICK q \in 1..B : BoostedAt(i, q)
    BY <1>7
  <2>2. PICK r \in 1..B : BoostedAt(j, r)
    BY <1>7
  <2>3. PICK p \in Nat, o \in Nat : OrganicAt(k, p, o)
    BY <1>7
  <2>4. q < r
    BY <1>8, <2>1, <2>2
  <2> DEFINE x == D(q - 1)
             y == D(q)
             z == D(r - 1)
             w == D(p - 1)
  <2>5. q - 1 \in Nat /\ q \in Nat /\ r - 1 \in Nat /\ p - 1 \in Nat /\ q <= r - 1 /\ (q - 1) + 1 = q
    BY <1>2, <2>3, <2>4
  <2>6. /\ x \in Nat /\ y \in Nat /\ z \in Nat /\ w \in Nat /\ y <= z
        /\ r - 1 <= p - 1 => z <= w
    BY <1>2, <1>4, <2>5
  <2>7. i = q + x /\ j = r + z /\ w < o /\ o <= O /\ k = Least(p, B) + o
    BY <2>1, <2>2, <2>3
  <2>8. y < O => y = x + N
    BY <1>2, <2>5, DrawnFacts DEF D
  <2> HIDE DEF x, y, z, w
  \* The organic candidate is one that a later turn takes.
  <2>9. z < o
    <3> SUFFICES ASSUME o <= z PROVE FALSE
      BY <2>6
    <3>1. p <= r - 1
      BY <2>5, <2>6, <2>7
    <3>2. Least(p, B) <= p
      BY <1>2 DEF Least
    <3>3. Least(p, B) \in Nat
      BY <1>2 DEF Least
    <3> QED BY <1>2, <2>2, <2>6, <2>7, <3>1, <3>2, <3>3
  <2>10. y < O
    BY <1>2, <2>6, <2>7, <2>9
  <2>11. N \in Nat
    BY BoundsAssumption
  <2> QED BY <1>2, <2>4, <2>5, <2>6, <2>7, <2>8, <2>10, <2>11
<1>13. ASSUME NEW a \in S PROVE \E i \in 1..B + O : ranked[i] = a
  <2>1. CASE \E q \in 1..B : boosted[q] = a
    BY <1>5, <2>1
  <2>2. CASE \E o \in 1..O : organic[o] = a
    BY <1>5, <2>2
  <2> QED BY <1>1, <2>1, <2>2 DEF B, O
<1>14. B + O = Cardinality(S)
    BY <1>1 DEF B, O
<1>15. \A i \in 1..B + O : ranked[i] \in S
    BY <1>7
<1> QED BY <1>5, <1>10, <1>11, <1>12, <1>13, <1>14, <1>15

\* The rules hold whatever rows were listed.
LEMMA SpreadOfTypedRows ==
    ASSUME listing \in [Viewers -> [Animals -> Candidates \cup {None}]]
    PROVE  BoostsAreSpread
<1> SUFFICES ASSUME NEW v \in Viewers,
                    NEW ranked \in Rankings(listing[v], Visible(listing[v], seen[v]))
             PROVE  LET rows == listing[v]
                        visible == Visible(rows, seen[v])
                        Boosted(i) == rows[ranked[i]].boosted
                        places == DOMAIN ranked
                    IN  /\ Len(ranked) = Cardinality(visible)
                        /\ {ranked[i] : i \in places} = visible
                        /\ \A i, j \in places :
                            i < j /\ Boosted(i) = Boosted(j)
                            => ~ Surely(rows, Lane(rows, visible, ranked[i]), ranked[j], ranked[i])
                        /\ (\E i \in places : Boosted(i)) => Boosted(1)
                        /\ \A i, j, k \in places :
                            /\ i < j /\ j < k
                            /\ Boosted(i) /\ Boosted(j) /\ ~ Boosted(k)
                            => j - i > OrganicAfterBoost
    BY DEF BoostsAreSpread
<1> DEFINE rows == listing[v]
           S == Visible(rows, seen[v])
           Boosted(i) == rows[ranked[i]].boosted
<1>1. S \in SUBSET Animals /\ (\A a \in S : rows[a] \in Candidates) /\ ranked \in Rankings(rows, S)
    BY DEF Visible
<1> HIDE DEF S, rows
<1>2. /\ Len(ranked) = Cardinality(S)
      /\ {ranked[i] : i \in DOMAIN ranked} = S
  <2>1. /\ Len(ranked) = Cardinality(S)
        /\ \A i \in DOMAIN ranked : ranked[i] \in S
        /\ \A a \in S : \E i \in DOMAIN ranked : ranked[i] = a
    BY <1>1, RankSpreads
  <2> QED BY <2>1
<1>3. \A i, j \in DOMAIN ranked :
          i < j /\ Boosted(i) = Boosted(j)
          => ~ Surely(rows, Lane(rows, S, ranked[i]), ranked[j], ranked[i])
    BY <1>1, RankSpreads
<1>4. (\E i \in DOMAIN ranked : Boosted(i)) => Boosted(1)
    BY <1>1, RankSpreads
<1>5. \A i, j, k \in DOMAIN ranked :
          /\ i < j /\ j < k
          /\ Boosted(i) /\ Boosted(j) /\ ~ Boosted(k)
          => j - i > OrganicAfterBoost
    BY <1>1, RankSpreads
<1> QED BY <1>2, <1>3, <1>4, <1>5 DEF S, rows

\* There is always a ranking to cut a page from, and one only when the sums leave
\* no choice.
LEMMA RankingsExist ==
    ASSUME NEW rows, NEW S \in SUBSET Animals, \A a \in S : rows[a] \in Candidates
    PROVE  Rankings(rows, S) # {}
<1>1. /\ Boosts(rows, S) \in SUBSET Animals /\ \A a \in Boosts(rows, S) : rows[a] \in Candidates
      /\ Organic(rows, S) \in SUBSET Animals /\ \A a \in Organic(rows, S) : rows[a] \in Candidates
    BY DEF Boosts, Organic
<1>2. PICK b \in Orders(rows, Boosts(rows, S)), o \in Orders(rows, Organic(rows, S)) : TRUE
    BY <1>1, OrdersExist
<1>3. InterleaveBoosted(b, o) \in Rankings(rows, S)
    BY <1>2, RankingsAre
<1> QED BY <1>3

LEMMA OneRanking ==
    ASSUME NEW rows, NEW S \in SUBSET Animals, \A a \in S : rows[a] \in Candidates,
           Decided(rows, S), NEW p \in Rankings(rows, S), NEW q \in Rankings(rows, S)
    PROVE  p = q
<1>1. ASSUME NEW lane \in {Boosts(rows, S), Organic(rows, S)},
             NEW s \in Orders(rows, lane), NEW t \in Orders(rows, lane)
      PROVE  s = t
  <2>1. lane \in SUBSET Animals /\ \A a \in lane : rows[a] \in Candidates
    BY DEF Boosts, Organic
  <2>2. ASSUME NEW a \in lane, NEW b \in lane, a # b
        PROVE  Surely(rows, lane, a, b) \/ Surely(rows, lane, b, a)
    <3>1. a \in S /\ b \in S /\ Lane(rows, S, a) = lane
      BY DEF Lane, Boosts, Organic
    <3> QED BY <2>2, <3>1 DEF Decided
  <2> QED BY <2>1, <2>2, OneOrder
<1>2. PICK b \in Orders(rows, Boosts(rows, S)), o \in Orders(rows, Organic(rows, S)) :
          p = InterleaveBoosted(b, o)
    BY RankingsAre
<1>3. PICK c \in Orders(rows, Boosts(rows, S)), u \in Orders(rows, Organic(rows, S)) :
          q = InterleaveBoosted(c, u)
    BY RankingsAre
<1>4. b = c /\ o = u
    BY <1>1
<1> QED BY <1>2, <1>3, <1>4

-----------------------------------------------------------------------------
(* The pages.                                                              *)

\* What a page holds of a ranking: the part from its offset up to the next one.
LEMMA PaginateCuts ==
    ASSUME NEW ranked \in Seq(Animals), NEW offset \in Nat
    PROVE  LET p == Paginate(ranked, offset)
               end == IF p.next = 0 THEN Len(ranked) ELSE p.next
           IN  /\ p \in [ids: Seq(Animals), next: Nat]
               /\ \A i \in DOMAIN p.ids : \E j \in DOMAIN ranked : p.ids[i] = ranked[j]
               /\ offset >= Len(ranked) => p = NoPage
               /\ offset < Len(ranked) =>
                     /\ p.ids = SubSeq(ranked, offset + 1, end)
                     /\ end \in offset..Len(ranked)
                     /\ p.next < Len(ranked)
<1> DEFINE p == Paginate(ranked, offset)
           l == Len(ranked)
           end == Least(offset + PageSize, l)
           ids == SubSeq(ranked, offset + 1, end)
<1>1. l \in Nat /\ PageSize \in Nat \ {0} /\ DOMAIN ranked = 1..l /\ \A i \in 1..l : ranked[i] \in Animals
    BY LenProperties, ElementOfSeq, BoundsAssumption
<1>2. CASE offset >= l
  <2>1. p = NoPage
    BY <1>2 DEF Paginate
  <2>2. NoPage \in [ids: Seq(Animals), next: Nat] /\ DOMAIN NoPage.ids = {}
    BY EmptySeq DEF NoPage
  <2> QED BY <1>1, <1>2, <2>1, <2>2
<1>3. CASE ~ offset >= l
  <2>1. p = [ids |-> ids, next |-> IF end < l THEN end ELSE 0]
    BY <1>3 DEF Paginate
  <2>2. end \in Nat /\ end > offset /\ end <= l
    BY <1>1, <1>3 DEF Least
  <2> HIDE DEF p, end, l
  <2>3. \A i \in offset + 1..end : ranked[i] \in Animals
    BY <1>1, <2>2
  <2>4. /\ ids \in Seq(Animals) /\ Len(ids) = end - offset
        /\ \A i \in 1..end - offset : ids[i] = ranked[offset + i]
    <3> DEFINE low == offset + 1
    <3>1. low \in Int /\ end \in Int /\ \A i \in low..end : ranked[i] \in Animals
      BY <2>2, <2>3
    <3> HIDE DEF low
    <3>2. /\ SubSeq(ranked, low, end) \in Seq(Animals)
          /\ Len(SubSeq(ranked, low, end)) = IF low <= end THEN end - low + 1 ELSE 0
          /\ \A i \in 1..end - low + 1 : SubSeq(ranked, low, end)[i] = ranked[low + i - 1]
      BY <3>1, SubSeqProperties
    <3>3. /\ low <= end /\ end - low + 1 = end - offset
          /\ \A i \in 1..end - offset : low + i - 1 = offset + i
      BY <2>2 DEF low
    <3>4. ids = SubSeq(ranked, low, end)
      BY DEF low
    <3> HIDE DEF ids
    <3> QED BY <3>2, <3>3, <3>4
  <2> HIDE DEF ids
  <2>5. DOMAIN ids = 1..end - offset
    BY <2>4, LenProperties
  <2>6. \A i \in DOMAIN ids : offset + i \in DOMAIN ranked /\ ids[i] = ranked[offset + i]
    BY <1>1, <2>2, <2>4, <2>5
  <2>7. /\ p.ids = ids
        /\ p.next = IF end < l THEN end ELSE 0
        /\ p.next \in Nat /\ p.next < l
        /\ (IF p.next = 0 THEN l ELSE p.next) = end
    BY <1>1, <2>1, <2>2
  <2>8. p \in [ids: Seq(Animals), next: Nat]
    BY <2>1, <2>2, <2>4
  <2>9. ids = SubSeq(ranked, offset + 1, end) /\ end \in offset..l
    BY <2>2 DEF ids
  <2> QED BY <1>1, <1>3, <2>6, <2>7, <2>8, <2>9 DEF p, l
<1> QED BY <1>2, <1>3

PagingTyped ==
    /\ cards \subseteq Animals
    /\ seen \in [Viewers -> SUBSET Animals]
    /\ stage \in [Viewers -> {"idle", "listed", "ranked"}]
    /\ listing \in [Viewers -> [Animals -> Candidates \cup {None}]]
    /\ page \in [Viewers -> [ids: Seq(Animals), next: Nat]]
    /\ token \in [Viewers -> Nat]
    /\ handled \in 0..MaxMessages
    /\ raced \subseteq Animals
    /\ gone \in [Viewers -> SUBSET Animals]
    /\ late \subseteq cards
    /\ shown \in [Viewers -> Seq(Animals)]
    /\ calm \subseteq Viewers

\* A listing and a page are there only in the stage that uses them.
StagesHold ==
    \A v \in Viewers : /\ stage[v] # "listed" => listing[v] = Empty
                       /\ stage[v] # "ranked" => page[v] = NoPage

\* An animal GetFeed has listed, or is about to save a card of, has its
\* candidate or was removed since.
RemovalsNoticed ==
    /\ \A v \in Viewers : \A a \in Animals : listing[v][a] # None => row[a] # None \/ a \in gone[v]
    /\ \A v \in Viewers : \A i \in DOMAIN page[v].ids :
          row[page[v].ids[i]] # None \/ page[v].ids[i] \in gone[v]

RankingsOf(v) == Rankings(row, Visible(row, seen[v]))
Count(v) == Cardinality(Visible(row, seen[v]))

\* Where a viewer stands in the rankings while the feed stands still.
PagesCut ==
    \A v \in calm :
        /\ stage[v] = "listed" => listing[v] = row
        /\ stage[v] = "ranked" => \E ranked \in RankingsOf(v) : page[v] = Paginate(ranked, token[v])
        /\ token[v] # 0 => token[v] < Count(v) /\ Len(shown[v]) = token[v]
        /\ token[v] = 0 => shown[v] = << >> \/ (Len(shown[v]) = Count(v) /\ stage[v] = "idle")
        /\ \A i \in 1..Len(shown[v]) : \E ranked \in RankingsOf(v) : shown[v][i] = ranked[i]

FeedInv == IInv /\ PagingTyped /\ StagesHold /\ CardsGoWithCandidate /\ RemovalsNoticed /\ PagesCut

LEMMA RankingOf ==
    ASSUME NEW rows \in [Animals -> Candidates \cup {None}], NEW swiped,
           NEW ranked \in Rankings(rows, Visible(rows, swiped))
    PROVE  /\ ranked \in Seq(Animals) /\ Len(ranked) = Cardinality(Visible(rows, swiped))
           /\ \A i \in DOMAIN ranked : ranked[i] \in Animals /\ rows[ranked[i]] # None
<1> DEFINE S == Visible(rows, swiped)
<1>1. S \in SUBSET Animals /\ \A a \in S : rows[a] \in Candidates /\ rows[a] # None
    BY NoneAssumption DEF Visible
<1>2. ranked \in Rankings(rows, S)
    OBVIOUS
<1> HIDE DEF S
<1>3. \A a \in S : rows[a] \in Candidates
    BY <1>1
<1>4. ranked \in Seq(Animals) /\ Len(ranked) = Cardinality(S) /\ \A i \in DOMAIN ranked : ranked[i] \in S
    BY <1>1, <1>2, <1>3, RankSpreads
<1> QED BY <1>1, <1>4 DEF S

\* Messages leave the pages alone; those that move a row end the calm.
LEMMA MessageKeeps ==
    ASSUME FeedInv, IInv', UNCHANGED <<paging, cards, gone, late>>,
           \A a \in Animals : row[a] # None => row'[a] # None,
           seen' \in [Viewers -> SUBSET Animals], handled' \in 0..MaxMessages, raced' \subseteq Animals,
           \/ calm' = {}
           \/ row' = row /\ calm' \subseteq calm /\ \A v \in calm' : seen'[v] = seen[v]
    PROVE  FeedInv'
<1> USE DEF FeedInv
<1>1. UNCHANGED <<stage, listing, page, token, shown, cards, gone, late>>
    BY DEF paging
<1>2. PagingTyped'
    BY <1>1 DEF PagingTyped
<1>3. StagesHold'
    BY <1>1 DEF StagesHold, Empty, NoPage
<1>4. CardsGoWithCandidate'
    BY <1>1 DEF CardsGoWithCandidate, PagingTyped
<1>5. RemovalsNoticed'
  <2>1. \A v \in Viewers : \A i \in DOMAIN page[v].ids : page[v].ids[i] \in Animals
    <3> SUFFICES ASSUME NEW v \in Viewers, NEW i \in DOMAIN page[v].ids PROVE page[v].ids[i] \in Animals
      OBVIOUS
    <3>1. page[v].ids \in Seq(Animals)
      BY DEF PagingTyped
    <3> QED BY <3>1, ElementOfSeq, LenProperties
  <2> QED BY <1>1, <2>1 DEF RemovalsNoticed
<1>6. PagesCut'
  <2>1. CASE calm' = {}
    BY <2>1 DEF PagesCut
  <2>2. CASE row' = row /\ calm' \subseteq calm /\ \A v \in calm' : seen'[v] = seen[v]
    <3>1. \A v \in calm' : RankingsOf(v)' = RankingsOf(v) /\ Count(v)' = Count(v)
      BY <2>2 DEF RankingsOf, Count
    <3> QED BY <1>1, <2>2, <3>1 DEF PagesCut
  <2> QED BY <2>1, <2>2
<1> QED BY <1>2, <1>3, <1>4, <1>5, <1>6

LEMMA HandleKeeps ==
    ASSUME FeedInv, IInv', NEW c \in Consumers, Handle(c)
    PROVE  FeedInv'
<1> USE DEF FeedInv, PagingTyped
<1>1. row \in [Animals -> Candidates \cup {None}]
    BY DEF IInv, ProjectionTyped
<1>2. ASSUME NEW a \in Animals, NEW boosted \in BOOLEAN, UpsertAnimalProfile(c, a, boosted) PROVE FeedInv'
  <2>1. Published(boosted) \in Candidates /\ Published(boosted) # None
    <3>1. Published(boosted) \in Candidates
      BY RatesAssumption DEF Published, Candidates
    <3> QED BY <3>1, NoneAssumption
  <2>2. handled' \in 0..MaxMessages /\ raced' \subseteq Animals
    BY <1>2, BoundsAssumption DEF UpsertAnimalProfile, Receive
  <2> QED BY <1>1, <1>2, <2>1, <2>2, MessageKeeps DEF UpsertAnimalProfile
<1>3. ASSUME NEW a \in Animals, NEW u \in Updates, GetCandidate(c, a, u) PROVE FeedInv'
  <2>1. handled' \in 0..MaxMessages /\ raced' \subseteq Animals
    BY <1>3, BoundsAssumption DEF GetCandidate, Receive
  <2> QED BY <1>3, <2>1, MessageKeeps DEF GetCandidate
<1>4. ASSUME NEW a \in Animals, NEW v \in Viewers, RecordSwipe(c, v, a) PROVE FeedInv'
  <2>1. handled' \in 0..MaxMessages /\ UNCHANGED <<row, raced>>
    BY <1>4, BoundsAssumption DEF RecordSwipe, Receive, projection
  <2>2. seen' \in [Viewers -> SUBSET Animals] /\ \A w \in Viewers \ {v} : seen'[w] = seen[w]
    BY <1>4 DEF RecordSwipe
  <2> QED BY <1>4, <2>1, <2>2, MessageKeeps DEF RecordSwipe
<1>5. ASSUME UpsertCandidate(c) PROVE FeedInv'
  <2> DEFINE p == pending[c]
  <2>1. p \in Handlings
    BY <1>5 DEF UpsertCandidate, IInv, ProjectionTyped
  <2>2. Update(p.update, p.copy) # None
    <3>1. Update(p.update, p.copy) \in Candidates
      BY <2>1, UpdateOfCandidate DEF Handlings
    <3> QED BY <3>1, NoneAssumption
  <2> QED BY <1>1, <1>5, <2>2, MessageKeeps DEF UpsertCandidate
<1>6. ASSUME LoseMessage(c) PROVE FeedInv'
    BY <1>6, MessageKeeps DEF LoseMessage
<1>7. ASSUME NEW a \in Animals, ArchiveAnimal(c, a) PROVE FeedInv'
  <2>1. /\ row' = [row EXCEPT ![a] = None] /\ cards' = cards \ {a} /\ late' = late \ {a}
        /\ gone' = [v \in Viewers |-> gone[v] \cup {a}] /\ calm' = {}
        /\ UNCHANGED <<seen, stage, listing, page, token, shown>>
    BY <1>7 DEF ArchiveAnimal, paging
  <2>2. PagingTyped'
    <3>1. handled' \in 0..MaxMessages /\ raced' \subseteq Animals
      BY <1>7, BoundsAssumption DEF ArchiveAnimal, Receive
    <3> QED BY <2>1, <3>1
  <2>3. StagesHold' /\ PagesCut'
    BY <2>1 DEF StagesHold, PagesCut, Empty, NoPage
  <2>4. CardsGoWithCandidate'
    BY <1>1, <2>1 DEF CardsGoWithCandidate
  <2>5. RemovalsNoticed'
    <3>1. \A b \in Animals : b # a => row'[b] = row[b]
      BY <1>1, <2>1
    <3>2. \A v \in Viewers : a \in gone'[v] /\ gone[v] \subseteq gone'[v]
      BY <2>1
    <3>3. \A v \in Viewers : \A i \in DOMAIN page[v].ids : page[v].ids[i] \in Animals
      <4> SUFFICES ASSUME NEW v \in Viewers, NEW i \in DOMAIN page[v].ids PROVE page[v].ids[i] \in Animals
        OBVIOUS
      <4>1. page[v].ids \in Seq(Animals)
        OBVIOUS
      <4> QED BY <4>1, ElementOfSeq, LenProperties
    <3> QED BY <2>1, <3>1, <3>2, <3>3 DEF RemovalsNoticed
  <2> QED BY <2>2, <2>3, <2>4, <2>5
<1> QED BY <1>2, <1>3, <1>4, <1>5, <1>6, <1>7 DEF Handle

-----------------------------------------------------------------------------
(* GetFeed.                                                                *)

LEMMA ListKeeps ==
    ASSUME FeedInv, IInv', NEW v \in Viewers, NEW first \in BOOLEAN, ListCandidates(v, first)
    PROVE  FeedInv'
<1> USE DEF FeedInv, PagingTyped
<1>1. row \in [Animals -> Candidates \cup {None}]
    BY DEF IInv, ProjectionTyped
<1>2. /\ stage[v] = "idle" /\ page[v] = NoPage
      /\ first \/ token[v] # 0
      /\ stage' = [stage EXCEPT ![v] = "listed"]
      /\ listing' = [listing EXCEPT ![v] = row]
      /\ gone' = [gone EXCEPT ![v] = {}]
      /\ UNCHANGED <<row, raced, cards, seen, page, handled, late>>
    BY DEF ListCandidates, StagesHold, projection
<1>3. \/ /\ shown' = [shown EXCEPT ![v] = << >>]
         /\ token' = [token EXCEPT ![v] = 0]
         /\ calm' = calm \cup {v}
      \/ token[v] # 0 /\ UNCHANGED <<shown, token, calm>>
    BY DEF ListCandidates
<1>4. PagingTyped'
  <2>1. << >> \in Seq(Animals)
    BY EmptySeq
  <2>2. /\ shown' \in [Viewers -> Seq(Animals)] /\ token' \in [Viewers -> Nat]
        /\ calm' \subseteq Viewers
    <3>1. CASE UNCHANGED <<shown, token, calm>>
      BY <3>1
    <3>2. CASE /\ shown' = [shown EXCEPT ![v] = << >>]
               /\ token' = [token EXCEPT ![v] = 0]
               /\ calm' = calm \cup {v}
      BY <2>1, <3>2
    <3> QED BY <1>3, <3>1, <3>2
  <2> QED BY <1>1, <1>2, <2>2
<1>5. StagesHold'
    BY <1>2 DEF StagesHold, Empty, NoPage
<1>6. CardsGoWithCandidate'
    BY <1>2 DEF CardsGoWithCandidate
<1>7. RemovalsNoticed'
  <2>1. DOMAIN page[v].ids = {}
    BY <1>2, EmptySeq DEF NoPage
  <2> QED BY <1>2, <2>1 DEF RemovalsNoticed
<1>8. PagesCut'
  <2>1. ASSUME NEW w \in calm'
        PROVE  /\ stage'[w] = "listed" => listing'[w] = row
               /\ stage'[w] = "ranked" => \E ranked \in RankingsOf(w) : page[w] = Paginate(ranked, token'[w])
               /\ token'[w] # 0 => token'[w] < Count(w) /\ Len(shown'[w]) = token'[w]
               /\ token'[w] = 0 => shown'[w] = << >> \/ (Len(shown'[w]) = Count(w) /\ stage'[w] = "idle")
               /\ \A i \in 1..Len(shown'[w]) : \E ranked \in RankingsOf(w) : shown'[w][i] = ranked[i]
    <3>1. CASE w = v
      <4>1. stage'[v] = "listed" /\ listing'[v] = row
        BY <1>2
      <4>2. CASE shown'[v] = << >> /\ token'[v] = 0
        <5>1. 1..Len(<< >>) = {}
          BY EmptySeq
        <5> QED BY <3>1, <4>1, <4>2, <5>1
      <4>3. CASE token[v] # 0 /\ UNCHANGED <<shown, token, calm>>
        BY <3>1, <4>1, <4>3 DEF PagesCut
      <4> QED BY <1>3, <4>2, <4>3
    <3>2. CASE w # v
      <4>1. /\ w \in calm /\ shown'[w] = shown[w] /\ token'[w] = token[w]
            /\ stage'[w] = stage[w] /\ listing'[w] = listing[w]
        BY <1>2, <1>3, <3>2
      <4> QED BY <4>1 DEF PagesCut
    <3> QED BY <3>1, <3>2
  <2>2. \A w \in calm' : RankingsOf(w)' = RankingsOf(w) /\ Count(w)' = Count(w)
    BY <1>2 DEF RankingsOf, Count
  <2> HIDE DEF FeedInv, PagingTyped
  <2> QED BY <1>2, <2>1, <2>2 DEF PagesCut
<1> QED BY <1>4, <1>5, <1>6, <1>7, <1>8

LEMMA RankPageKeeps ==
    ASSUME FeedInv, IInv', NEW v \in Viewers, RankPage(v)
    PROVE  FeedInv'
<1> USE DEF FeedInv, PagingTyped
<1>0. PICK ranked \in Rankings(listing[v], Visible(listing[v], seen[v])) :
          page' = [page EXCEPT ![v] = Paginate(ranked, token[v])]
    BY DEF RankPage
<1> DEFINE p == Paginate(ranked, token[v])
<1>1. /\ stage[v] = "listed"
      /\ page' = [page EXCEPT ![v] = p]
      /\ listing' = [listing EXCEPT ![v] = Empty]
      /\ stage' = [stage EXCEPT ![v] = "ranked"]
      /\ UNCHANGED <<row, raced, cards, seen, token, handled, gone, late, shown, calm>>
    BY <1>0 DEF RankPage, projection
<1>2. ranked \in Seq(Animals) /\ \A i \in DOMAIN ranked : ranked[i] \in Animals /\ listing[v][ranked[i]] # None
    BY RankingOf
<1>3. token[v] \in Nat
    OBVIOUS
<1>4. p \in [ids: Seq(Animals), next: Nat] /\ \A i \in DOMAIN p.ids : \E j \in DOMAIN ranked : p.ids[i] = ranked[j]
    BY <1>2, <1>3, PaginateCuts
<1>5. v \in calm => ranked \in RankingsOf(v)
    BY <1>1 DEF PagesCut, RankingsOf
<1> HIDE DEF p
<1>6. PagingTyped'
  <2>1. Empty \in [Animals -> Candidates \cup {None}]
    BY DEF Empty
  <2> QED BY <1>1, <1>4, <2>1
<1>7. StagesHold'
    BY <1>1 DEF StagesHold, Empty, NoPage
<1>8. CardsGoWithCandidate'
    BY <1>1 DEF CardsGoWithCandidate
<1>9. RemovalsNoticed'
  <2>1. \A i \in DOMAIN p.ids : row[p.ids[i]] # None \/ p.ids[i] \in gone[v]
    BY <1>2, <1>4 DEF RemovalsNoticed
  <2>2. /\ page'[v] = p /\ \A a \in Animals : listing'[v][a] = None
        /\ \A w \in Viewers \ {v} : page'[w] = page[w] /\ listing'[w] = listing[w]
    BY <1>1 DEF Empty
  <2> QED BY <1>1, <2>1, <2>2 DEF RemovalsNoticed
<1>10. PagesCut'
  <2>1. ASSUME NEW w \in calm
        PROVE  /\ stage'[w] = "listed" => listing'[w] = row
               /\ stage'[w] = "ranked" => \E r \in RankingsOf(w) : page'[w] = Paginate(r, token[w])
               /\ token[w] # 0 => token[w] < Count(w) /\ Len(shown[w]) = token[w]
               /\ token[w] = 0 => shown[w] = << >> \/ (Len(shown[w]) = Count(w) /\ stage'[w] = "idle")
               /\ \A i \in 1..Len(shown[w]) : \E r \in RankingsOf(w) : shown[w][i] = r[i]
    <3>1. CASE w = v
      <4>1. stage'[v] = "ranked" /\ page'[v] = Paginate(ranked, token[v]) /\ ranked \in RankingsOf(v)
        BY <1>1, <1>5, <2>1, <3>1 DEF p
      <4>2. /\ token[v] # 0 => token[v] < Count(v) /\ Len(shown[v]) = token[v]
            /\ token[v] = 0 => shown[v] = << >>
            /\ \A i \in 1..Len(shown[v]) : \E r \in RankingsOf(v) : shown[v][i] = r[i]
        BY <1>1, <2>1, <3>1 DEF PagesCut
      <4> HIDE DEF FeedInv, PagingTyped
      <4> QED BY <3>1, <4>1, <4>2
    <3>2. CASE w # v
      <4>1. page'[w] = page[w] /\ stage'[w] = stage[w] /\ listing'[w] = listing[w]
        BY <1>1, <3>2
      <4> QED BY <4>1 DEF PagesCut
    <3> QED BY <3>1, <3>2
  <2>2. \A w \in calm : RankingsOf(w)' = RankingsOf(w) /\ Count(w)' = Count(w)
    BY <1>1 DEF RankingsOf, Count
  <2> HIDE DEF FeedInv, PagingTyped
  <2> QED BY <1>1, <2>1, <2>2 DEF PagesCut
<1> QED BY <1>6, <1>7, <1>8, <1>9, <1>10

\* A page in order of a ranking extends what was shown, up to the next offset.
LEMMA PageExtends ==
    ASSUME FeedInv, NEW v \in calm, stage[v] = "ranked"
    PROVE  LET next == page[v].next
               s == shown[v] \o page[v].ids
           IN  /\ next # 0 => next < Count(v) /\ Len(s) = next
               /\ next = 0 => s = << >> \/ Len(s) = Count(v)
               /\ \A i \in 1..Len(s) : \E ranked \in RankingsOf(v) : s[i] = ranked[i]
<1> DEFINE n == Count(v)
           t == token[v]
           next == page[v].next
           ids == page[v].ids
           s == shown[v] \o ids
           end == IF next = 0 THEN n ELSE next
<1>1. v \in Viewers /\ shown[v] \in Seq(Animals) /\ ids \in Seq(Animals) /\ t \in Nat /\ next \in Nat
  <2>1. v \in Viewers
    BY DEF FeedInv, PagingTyped
  <2> QED BY <2>1 DEF FeedInv, PagingTyped
<1>2. /\ t # 0 => t < n /\ Len(shown[v]) = t
      /\ t = 0 => shown[v] = << >>
      /\ \A i \in 1..Len(shown[v]) : \E ranked \in RankingsOf(v) : shown[v][i] = ranked[i]
    BY DEF FeedInv, PagesCut
<1>3. PICK R \in RankingsOf(v) : page[v] = Paginate(R, t)
    BY DEF FeedInv, PagesCut
<1>4. R \in Seq(Animals) /\ Len(R) = n /\ n \in Nat
  <2>1. row \in [Animals -> Candidates \cup {None}]
    BY DEF FeedInv, IInv, ProjectionTyped
  <2>2. R \in Seq(Animals) /\ Len(R) = n
    BY <2>1, RankingOf DEF RankingsOf, Count
  <2> QED BY <2>2, LenProperties
<1> HIDE DEF n, t
<1>5. /\ t >= n => page[v] = NoPage
      /\ t < n => ids = SubSeq(R, t + 1, end) /\ end \in t..n /\ next < n
  <2> DEFINE p == Paginate(R, t)
             last == IF p.next = 0 THEN Len(R) ELSE p.next
  <2>1. /\ t >= Len(R) => p = NoPage
        /\ t < Len(R) => p.ids = SubSeq(R, t + 1, last) /\ last \in t..Len(R) /\ p.next < Len(R)
    BY <1>1, <1>4, PaginateCuts
  <2>2. p = page[v]
    BY <1>3
  <2> HIDE DEF p
  <2> QED BY <1>4, <2>1, <2>2
<1>6. Len(shown[v]) = t
    BY <1>2, EmptySeq
<1>7. /\ s \in Seq(Animals) /\ Len(s) = t + Len(ids)
      /\ \A i \in 1..t + Len(ids) : s[i] = IF i <= t THEN shown[v][i] ELSE ids[i - t]
    BY <1>1, <1>6, ConcatProperties
<1> HIDE DEF ids, s, next
<1>8. CASE t >= n
  <2>1. t = 0 /\ shown[v] = << >> /\ ids = << >> /\ next = 0
    BY <1>1, <1>2, <1>4, <1>5, <1>8 DEF NoPage, ids, next
  <2>2. s = << >>
    BY <2>1, ConcatEmptySeq, EmptySeq DEF s
  <2>3. 1..Len(s) = {}
    BY <2>2, EmptySeq
  <2> QED BY <2>1, <2>2, <2>3 DEF s, ids, next
<1>9. CASE t < n
  <2>1. end \in Nat /\ t <= end /\ end <= n /\ next < n
    BY <1>1, <1>4, <1>5, <1>9
  <2> HIDE DEF end
  <2>2. /\ Len(ids) = end - t
        /\ \A i \in 1..end - t : ids[i] = R[t + i]
    <3> DEFINE low == t + 1
    <3>1. low \in Int /\ end \in Int /\ \A i \in low..end : R[i] \in Animals
      <4>1. \A i \in low..end : i \in 1..Len(R)
        BY <1>1, <1>4, <2>1
      <4> QED BY <1>1, <1>4, <2>1, <4>1, ElementOfSeq
    <3> HIDE DEF low
    <3>2. /\ Len(SubSeq(R, low, end)) = IF low <= end THEN end - low + 1 ELSE 0
          /\ \A i \in 1..end - low + 1 : SubSeq(R, low, end)[i] = R[low + i - 1]
      BY <3>1, SubSeqProperties
    <3>3. /\ (IF low <= end THEN end - low + 1 ELSE 0) = end - t
          /\ end - low + 1 = end - t
          /\ \A i \in 1..end - t : low + i - 1 = t + i
      BY <1>1, <2>1 DEF low
    <3>4. ids = SubSeq(R, low, end)
      BY <1>5, <1>9 DEF low
    <3> QED BY <3>2, <3>3, <3>4
  <2>3. Len(s) = end
    BY <1>1, <1>7, <2>1, <2>2
  <2>4. ASSUME NEW i \in 1..end PROVE \E ranked \in RankingsOf(v) : s[i] = ranked[i]
    <3>1. CASE i <= t
      <4>1. i \in 1..t /\ s[i] = shown[v][i]
        BY <1>1, <1>7, <2>1, <2>2, <3>1
      <4> QED BY <1>2, <1>6, <4>1
    <3>2. CASE ~ i <= t
      <4>1. i - t \in 1..end - t /\ t + (i - t) = i
        BY <1>1, <2>1, <3>2
      <4>2. s[i] = ids[i - t]
        BY <1>1, <1>7, <2>1, <2>2, <3>2
      <4>3. s[i] = R[i]
        BY <2>2, <4>1, <4>2
      <4> QED BY <1>3, <4>3
    <3> QED BY <3>1, <3>2
  <2> QED BY <2>1, <2>3, <2>4 DEF end, n, s, ids, next
<1>10. t >= n \/ t < n
    BY <1>1, <1>4
<1> QED BY <1>8, <1>9, <1>10

LEMMA SaveKeeps ==
    ASSUME FeedInv, IInv', NEW v \in Viewers, SaveServedCards(v)
    PROVE  FeedInv'
<1> USE DEF FeedInv, PagingTyped
<1> DEFINE ids == {page[v].ids[i] : i \in DOMAIN page[v].ids}
<1>1. /\ stage[v] = "ranked" /\ listing[v] = Empty
      /\ cards' = cards \cup ids
      /\ late' = late \cup (ids \cap gone[v])
      /\ shown' = [shown EXCEPT ![v] = shown[v] \o page[v].ids]
      /\ token' = [token EXCEPT ![v] = page[v].next]
      /\ page' = [page EXCEPT ![v] = NoPage]
      /\ gone' = [gone EXCEPT ![v] = {}]
      /\ stage' = [stage EXCEPT ![v] = "idle"]
      /\ UNCHANGED <<row, raced, listing, seen, handled, calm>>
    BY DEF SaveServedCards, StagesHold, projection
<1>2. page[v].ids \in Seq(Animals) /\ page[v].next \in Nat /\ ids \subseteq Animals
  <2>1. page[v].ids \in Seq(Animals) /\ page[v].next \in Nat
    OBVIOUS
  <2> QED BY <2>1, ElementOfSeq, LenProperties
<1>3. \A a \in ids : row[a] # None \/ a \in gone[v]
    BY DEF RemovalsNoticed
<1> HIDE DEF ids
<1>4. NoPage \in [ids: Seq(Animals), next: Nat] /\ DOMAIN NoPage.ids = {}
    BY EmptySeq DEF NoPage
<1>5. PagingTyped'
  <2>1. shown[v] \o page[v].ids \in Seq(Animals)
    BY <1>2, ConcatProperties
  <2> QED BY <1>1, <1>2, <1>4, <2>1
<1>6. StagesHold'
    BY <1>1 DEF StagesHold, Empty, NoPage
<1>7. CardsGoWithCandidate'
    BY <1>1, <1>3 DEF CardsGoWithCandidate
<1>8. RemovalsNoticed'
  <2>1. \A a \in Animals : listing[v][a] = None
    BY <1>1 DEF Empty
  <2>2. page'[v] = NoPage /\ \A w \in Viewers \ {v} : page'[w] = page[w] /\ gone'[w] = gone[w]
    BY <1>1
  <2> QED BY <1>1, <1>4, <2>1, <2>2 DEF RemovalsNoticed
<1>9. PagesCut'
  <2>1. ASSUME NEW w \in calm
        PROVE  /\ stage'[w] = "listed" => listing[w] = row
               /\ stage'[w] = "ranked" => \E ranked \in RankingsOf(w) : page'[w] = Paginate(ranked, token'[w])
               /\ token'[w] # 0 => token'[w] < Count(w) /\ Len(shown'[w]) = token'[w]
               /\ token'[w] = 0 => shown'[w] = << >> \/ (Len(shown'[w]) = Count(w) /\ stage'[w] = "idle")
               /\ \A i \in 1..Len(shown'[w]) : \E ranked \in RankingsOf(w) : shown'[w][i] = ranked[i]
    <3>1. CASE w = v
      <4>1. /\ stage'[v] = "idle" /\ token'[v] = page[v].next
            /\ shown'[v] = shown[v] \o page[v].ids
        BY <1>1
      <4>2. v \in calm /\ stage[v] = "ranked"
        BY <1>1, <2>1, <3>1
      <4> DEFINE next == page[v].next
                 t == shown[v] \o page[v].ids
      <4> HIDE DEF FeedInv, PagingTyped
      <4>3. /\ next # 0 => next < Count(v) /\ Len(t) = next
            /\ next = 0 => t = << >> \/ Len(t) = Count(v)
            /\ \A i \in 1..Len(t) : \E ranked \in RankingsOf(v) : t[i] = ranked[i]
        BY <4>2, PageExtends
      <4>4. stage'[v] = "idle" /\ token'[v] = next /\ shown'[v] = t
        BY <4>1
      <4> HIDE DEF next, t
      <4> QED BY <3>1, <4>3, <4>4
    <3>2. CASE w # v
      <4>1. /\ page'[w] = page[w] /\ stage'[w] = stage[w]
            /\ token'[w] = token[w] /\ shown'[w] = shown[w]
        BY <1>1, <3>2
      <4> QED BY <4>1 DEF PagesCut
    <3> QED BY <3>1, <3>2
  <2>2. \A w \in calm : RankingsOf(w)' = RankingsOf(w) /\ Count(w)' = Count(w)
    BY <1>1 DEF RankingsOf, Count
  <2> HIDE DEF FeedInv, PagingTyped
  <2>3. ASSUME NEW w \in calm
        PROVE  /\ stage'[w] = "listed" => listing'[w] = row'
               /\ stage'[w] = "ranked" => \E ranked \in RankingsOf(w)' : page'[w] = Paginate(ranked, token'[w])
               /\ token'[w] # 0 => token'[w] < Count(w)' /\ Len(shown'[w]) = token'[w]
               /\ token'[w] = 0 => shown'[w] = << >> \/ (Len(shown'[w]) = Count(w)' /\ stage'[w] = "idle")
               /\ \A i \in 1..Len(shown'[w]) : \E ranked \in RankingsOf(w)' : shown'[w][i] = ranked[i]
    <3>1. RankingsOf(w)' = RankingsOf(w) /\ Count(w)' = Count(w) /\ row' = row /\ listing' = listing
      BY <1>1, <2>2
    <3> QED BY <2>1, <3>1
  <2>4. calm' = calm
    BY <1>1
  <2> QED BY <2>3, <2>4 DEF PagesCut
<1> QED BY <1>5, <1>6, <1>7, <1>8, <1>9

LEMMA FailKeeps ==
    ASSUME FeedInv, IInv', NEW v \in Viewers, GetFeedFails(v)
    PROVE  FeedInv'
<1> USE DEF FeedInv, PagingTyped
<1>1. /\ stage[v] # "idle"
      /\ stage' = [stage EXCEPT ![v] = "idle"]
      /\ listing' = [listing EXCEPT ![v] = Empty]
      /\ page' = [page EXCEPT ![v] = NoPage]
      /\ gone' = [gone EXCEPT ![v] = {}]
      /\ UNCHANGED <<row, raced, cards, seen, token, handled, late, shown, calm>>
    BY DEF GetFeedFails, projection
<1>2. NoPage \in [ids: Seq(Animals), next: Nat] /\ DOMAIN NoPage.ids = {}
    BY EmptySeq DEF NoPage
<1>3. PagingTyped'
  <2>1. Empty \in [Animals -> Candidates \cup {None}]
    BY DEF Empty
  <2> QED BY <1>1, <1>2, <2>1
<1>4. StagesHold'
    BY <1>1 DEF StagesHold, Empty, NoPage
<1>5. CardsGoWithCandidate'
    BY <1>1 DEF CardsGoWithCandidate
<1>6. RemovalsNoticed'
  <2>1. /\ \A a \in Animals : listing'[v][a] = None
        /\ page'[v] = NoPage
        /\ \A w \in Viewers \ {v} : page'[w] = page[w] /\ gone'[w] = gone[w] /\ listing'[w] = listing[w]
    BY <1>1 DEF Empty
  <2> QED BY <1>1, <1>2, <2>1 DEF RemovalsNoticed
<1>7. PagesCut'
  <2>1. \A w \in calm : RankingsOf(w)' = RankingsOf(w) /\ Count(w)' = Count(w)
    BY <1>1 DEF RankingsOf, Count
  <2>2. \A w \in calm : \/ stage'[w] = "idle"
                        \/ stage'[w] = stage[w] /\ listing'[w] = listing[w] /\ page'[w] = page[w]
    BY <1>1
  <2> QED BY <1>1, <2>1, <2>2 DEF PagesCut
<1> QED BY <1>3, <1>4, <1>5, <1>6, <1>7

-----------------------------------------------------------------------------
LEMMA FeedSteps == FeedInv /\ [Next]_vars => FeedInv'
<1> SUFFICES ASSUME FeedInv, [Next]_vars PROVE FeedInv'
    OBVIOUS
<1>1. IInv'
    BY ProjectionSteps DEF FeedInv
<1>2. ASSUME UNCHANGED vars PROVE FeedInv'
  <2>1. handled \in 0..MaxMessages /\ raced \subseteq Animals /\ seen \in [Viewers -> SUBSET Animals]
    BY DEF FeedInv, PagingTyped
  <2> QED BY <1>1, <1>2, <2>1, MessageKeeps DEF vars, projection
<1>3. ASSUME NEW v \in Viewers, GetFeed(v) PROVE FeedInv'
    BY <1>1, <1>3, ListKeeps, RankPageKeeps, SaveKeeps, FailKeeps DEF GetFeed
<1> QED BY <1>1, <1>2, <1>3, HandleKeeps DEF Next

LEMMA FeedStarts == Init => FeedInv
<1> SUFFICES ASSUME Init PROVE FeedInv
    OBVIOUS
<1>1. IInv
    BY RestoredAssumption DEF Init, IInv, ProjectionTyped, ProjectionIsSerial, CopyIsCurrent, PendingOn
<1>2. PagingTyped
  <2>1. Empty \in [Animals -> Candidates \cup {None}] /\ << >> \in Seq(Animals) /\ NoPage \in [ids: Seq(Animals), next: Nat]
    BY EmptySeq DEF Empty, NoPage
  <2> QED BY <2>1, BoundsAssumption DEF Init, PagingTyped
<1>3. StagesHold /\ CardsGoWithCandidate /\ PagesCut
    BY DEF Init, StagesHold, CardsGoWithCandidate, PagesCut
<1>4. RemovalsNoticed
  <2>1. DOMAIN NoPage.ids = {}
    BY EmptySeq DEF NoPage
  <2> QED BY <2>1 DEF Init, RemovalsNoticed, Empty
<1> QED BY <1>1, <1>2, <1>3, <1>4 DEF FeedInv

\* Every variable of feed-service has its type.
THEOREM SpecTypeOK == Spec => []TypeOK
<1>1. FeedInv => TypeOK
    BY DEF FeedInv, IInv, ProjectionTyped, PagingTyped, TypeOK
<1> QED BY <1>1, FeedStarts, FeedSteps, PTL DEF Spec

\* Cards go with their candidates: only a page listed before the removal of an
\* animal can save a card of it afterwards.
THEOREM SpecCardsGoWithCandidate == Spec => []CardsGoWithCandidate
<1>1. FeedInv => CardsGoWithCandidate
    BY DEF FeedInv
<1> QED BY <1>1, FeedStarts, FeedSteps, PTL DEF Spec

\* Whatever the page size and whichever sums the sorts draw, the pages served
\* while the feed stands still have a card for each visible candidate in the end,
\* each at a place of a ranking; and when no sums are within a rounding of each
\* other, they are the ranking, cut in order.
THEOREM SpecPagesAreTheRanking == Spec => []PagesAreTheRanking
<1>1. FeedInv => PagesAreTheRanking
  <2> SUFFICES ASSUME FeedInv, NEW v \in calm
               PROVE  /\ \A i \in DOMAIN shown[v] :
                            \E ranked \in RankingsOf(v) : i \in DOMAIN ranked /\ shown[v][i] = ranked[i]
                      /\ shown[v] # << >> /\ token[v] = 0 => Len(shown[v]) = Count(v)
                      /\ Decided(row, Visible(row, seen[v])) =>
                            \A ranked \in RankingsOf(v) : IsPrefix(shown[v], ranked)
    BY DEF PagesAreTheRanking, RankingsOf, Count
  <2> DEFINE n == Count(v)
             t == token[v]
             m == Len(shown[v])
  <2>1. row \in [Animals -> Candidates \cup {None}]
    BY DEF FeedInv, IInv, ProjectionTyped
  <2>2. ASSUME NEW R \in RankingsOf(v)
        PROVE  R \in Seq(Animals) /\ Len(R) = n /\ DOMAIN R = 1..n
    <3>1. R \in Seq(Animals) /\ Len(R) = n
      BY <2>1, RankingOf DEF RankingsOf, Count
    <3> QED BY <3>1, LenProperties
  <2>3. t \in Nat /\ shown[v] \in Seq(Animals)
    <3>1. v \in Viewers
      BY DEF FeedInv, PagingTyped
    <3> QED BY <3>1 DEF FeedInv, PagingTyped
  <2>4. m \in Nat /\ DOMAIN shown[v] = 1..m
    BY <2>3, LenProperties
  <2>5. n \in Nat
    <3>1. IsFiniteSet(Visible(row, seen[v]))
      BY AnimalsAssumption, FS_Subset DEF Visible
    <3> QED BY <3>1, FS_CardinalityType DEF Count
  <2>6. /\ t # 0 => t < n /\ m = t
        /\ t = 0 => shown[v] = << >> \/ m = n
        /\ \A i \in 1..m : \E ranked \in RankingsOf(v) : shown[v][i] = ranked[i]
    BY DEF FeedInv, PagesCut
  <2>7. m <= n
    <3>1. shown[v] = << >> => m = 0
      BY EmptySeq
    <3> QED BY <2>3, <2>4, <2>5, <2>6, <3>1
  <2> HIDE DEF n, t, m
  <2>8. ASSUME NEW i \in 1..m
        PROVE  \E ranked \in RankingsOf(v) : i \in DOMAIN ranked /\ shown[v][i] = ranked[i]
    <3>1. PICK ranked \in RankingsOf(v) : shown[v][i] = ranked[i]
      BY <2>6
    <3>2. i \in DOMAIN ranked
      BY <2>2, <2>4, <2>5, <2>7
    <3> QED BY <3>1, <3>2
  <2>9. ASSUME Decided(row, Visible(row, seen[v])), NEW R \in RankingsOf(v)
        PROVE  IsPrefix(shown[v], R)
    <3>1. \A ranked \in RankingsOf(v) : ranked = R
      <4> DEFINE S == Visible(row, seen[v])
      <4>1. S \in SUBSET Animals /\ \A a \in S : row[a] \in Candidates
        BY <2>1 DEF Visible
      <4>2. Decided(row, S) /\ RankingsOf(v) = Rankings(row, S)
        BY <2>9 DEF RankingsOf
      <4> HIDE DEF S
      <4> QED BY <2>9, <4>1, <4>2, OneRanking
    <3>2. \A i \in 1..m : shown[v][i] = R[i]
      BY <2>6, <3>1
    <3>3. R \in Seq(Animals) /\ Len(R) = n
      BY <2>2
    <3>4. \A i \in 1..m : R[i] \in Animals
      BY <2>3, <2>4, <3>2, ElementOfSeq DEF m
    <3>5. /\ SubSeq(R, 1, m) \in Seq(Animals) /\ Len(SubSeq(R, 1, m)) = m
          /\ \A i \in 1..m : SubSeq(R, 1, m)[i] = R[i]
      <4>1. /\ SubSeq(R, 1, m) \in Seq(Animals)
            /\ Len(SubSeq(R, 1, m)) = IF 1 <= m THEN m - 1 + 1 ELSE 0
            /\ \A i \in 1..m - 1 + 1 : SubSeq(R, 1, m)[i] = R[1 + i - 1]
        BY <2>4, <3>4, SubSeqProperties
      <4>2. (IF 1 <= m THEN m - 1 + 1 ELSE 0) = m /\ m - 1 + 1 = m /\ \A i \in 1..m : 1 + i - 1 = i
        BY <2>4
      <4> QED BY <4>1, <4>2
    <3>6. shown[v] = SubSeq(R, 1, m)
      BY <2>3, <3>2, <3>5, SeqEqual DEF m
    <3>7. SubSeq(shown[v], 1, m) = shown[v]
      BY <2>3, SubSeqFull DEF m
    <3> QED BY <2>7, <3>3, <3>6, <3>7 DEF IsPrefix, m
  <2>10. shown[v] # << >> /\ token[v] = 0 => Len(shown[v]) = Count(v)
    BY <2>6 DEF m, n, t
  <2> QED BY <2>4, <2>8, <2>9, <2>10
<1> QED BY <1>1, FeedStarts, FeedSteps, PTL DEF Spec

\* Whatever the candidates, whichever sums the sorts draw and however many organic
\* ones follow a boosted one, boosted candidates are spread over the ranking by
\* the rule of the feed.
THEOREM SpecBoostsAreSpread == Spec => []BoostsAreSpread
<1>1. FeedInv => BoostsAreSpread
    BY SpreadOfTypedRows DEF FeedInv, IInv, ProjectionTyped, PagingTyped
<1> QED BY <1>1, FeedStarts, FeedSteps, PTL DEF Spec
=============================================================================
