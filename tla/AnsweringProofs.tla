-------------------------- MODULE AnsweringProofs ---------------------------
(***************************************************************************)
(* A question ranked twice and answered, over any number of passages at any *)
(* distances and with any question, depth and top_k.  Whatever the table    *)
(* does with its rows in between, the two runs agree; what the stages agree *)
(* on stands in the result; and the answer is its quotes, found where it    *)
(* says.  What is assumed of the scales can be had for any number of        *)
(* passages (ScalesExist).                                                  *)
(***************************************************************************)
EXTENDS Answering, FiniteSetTheorems, SequenceTheorems, TLAPS

\* A relation that tells any two elements apart, and never leads back.
IsOrder(before, S) ==
    /\ \A x \in S : <<x, x>> \notin before
    /\ \A x, y \in S : x # y => <<x, y>> \in before \/ <<y, x>> \in before
    /\ \A x, y, z \in S : <<x, y>> \in before /\ <<y, z>> \in before => <<x, z>> \in before

\* How many come before.
Place(x, S, before) == Cardinality({y \in S : <<y, x>> \in before})

-----------------------------------------------------------------------------
(* Sorting *)

\* Places grow along the order, and there is one for every element.
LEMMA PlacesGrow ==
    ASSUME NEW S, IsFiniteSet(S), NEW before, IsOrder(before, S)
    PROVE  /\ \A x \in S : Place(x, S, before) \in 0..(Cardinality(S) - 1)
           /\ \A x, y \in S : <<x, y>> \in before => Place(x, S, before) < Place(y, S, before)
           /\ \A x, y \in S : Place(x, S, before) = Place(y, S, before) => x = y
<1> DEFINE earlier(x) == {y \in S : <<y, x>> \in before}
<1>1. ASSUME NEW x \in S
      PROVE  IsFiniteSet(earlier(x)) /\ Cardinality(earlier(x)) \in Nat
  BY FS_Subset, FS_CardinalityType
<1>2. Cardinality(S) \in Nat
  BY FS_CardinalityType
<1>3. ASSUME NEW x \in S
      PROVE  Cardinality(earlier(x)) \in 0..(Cardinality(S) - 1)
  <2>1. earlier(x) \in SUBSET S /\ x \notin earlier(x)
    BY DEF IsOrder
  <2> HIDE DEF earlier
  <2>2. Cardinality(earlier(x)) <= Cardinality(S) /\ Cardinality(earlier(x)) # Cardinality(S)
    BY <2>1, FS_Subset
  <2> QED
    BY <1>1, <1>2, <2>2
<1>4. ASSUME NEW x \in S, NEW y \in S, <<x, y>> \in before
      PROVE  Cardinality(earlier(x)) < Cardinality(earlier(y))
  <2>1. earlier(x) \in SUBSET earlier(y) /\ x \in earlier(y) /\ x \notin earlier(x)
    BY <1>4 DEF IsOrder
  <2> HIDE DEF earlier
  <2>2. /\ Cardinality(earlier(x)) <= Cardinality(earlier(y))
        /\ Cardinality(earlier(x)) # Cardinality(earlier(y))
    BY <1>1, <2>1, FS_Subset
  <2> QED
    BY <1>1, <2>2
<1>5. \A x \in S : Place(x, S, before) = Cardinality(earlier(x))
  BY DEF Place
<1> HIDE DEF earlier
<1>6. ASSUME NEW x \in S, NEW y \in S, Cardinality(earlier(x)) = Cardinality(earlier(y))
      PROVE  x = y
  <2>1. CASE <<x, y>> \in before
    BY <1>1, <1>4, <1>6, <2>1
  <2>2. CASE <<y, x>> \in before
    BY <1>1, <1>4, <1>6, <2>2
  <2> QED
    BY <2>1, <2>2 DEF IsOrder
<1> QED
  BY <1>3, <1>4, <1>5, <1>6

\* Every place is taken, since there are as many as elements.
LEMMA PlacesAreTaken ==
    ASSUME NEW S, IsFiniteSet(S), NEW before, IsOrder(before, S), NEW n \in 1..Cardinality(S)
    PROVE  \E x \in S : Place(x, S, before) = n - 1
<1> DEFINE N == Cardinality(S)
           place == [x \in S |-> Place(x, S, before)]
<1>1. N \in Nat
  BY FS_CardinalityType
<1>2. IsFiniteSet(0..(N - 1)) /\ Cardinality(0..(N - 1)) = N
  <2>1. 0 \in Int /\ N - 1 \in Int
    BY <1>1
  <2> HIDE DEF N
  <2>2. /\ IsFiniteSet(0..(N - 1))
        /\ Cardinality(0..(N - 1)) = IF 0 > N - 1 THEN 0 ELSE (N - 1) - 0 + 1
    BY <2>1, FS_Interval
  <2> QED
    BY <1>1, <2>2
<1>3. place \in Injection(S, 0..(N - 1))
  <2>1. place \in [S -> 0..(N - 1)]
    BY PlacesGrow
  <2>2. \A x, y \in S : place[x] = place[y] => x = y
    BY PlacesGrow
  <2> QED
    BY <2>1, <2>2 DEF Injection, IsInjective
<1>4. place \in Surjection(S, 0..(N - 1))
  <2> HIDE DEF place
  <2> QED
    BY <1>2, <1>3, FS_Injection
<1>5. n - 1 \in 0..(N - 1)
  BY <1>1
<1>6. PICK x \in S : place[x] = n - 1
  <2> HIDE DEF place, N
  <2> QED
    BY <1>4, <1>5 DEF Surjection
<1> QED
  BY <1>6

\* A sorted set is a list of it without repetition, and each element is at its place.
LEMMA SortedIsAList ==
    ASSUME NEW S, IsFiniteSet(S), NEW before, IsOrder(before, S)
    PROVE  LET list == Sorted(S, before)
           IN  /\ Cardinality(S) \in Nat
               /\ list \in [1..Cardinality(S) -> S]
               /\ \A n \in 1..Cardinality(S) : Place(list[n], S, before) = n - 1
               /\ \A m, n \in 1..Cardinality(S) : list[m] = list[n] => m = n
               /\ \A x \in S : \E n \in 1..Cardinality(S) : list[n] = x
<1> DEFINE N == Cardinality(S)
           list == Sorted(S, before)
<1>1. N \in Nat
  BY FS_CardinalityType
<1>2. ASSUME NEW n \in 1..N
      PROVE  list[n] \in S /\ Place(list[n], S, before) = n - 1
  <2>1. \E x \in S : Cardinality({y \in S : <<y, x>> \in before}) = n - 1
    BY PlacesAreTaken DEF Place
  <2>2. list[n] = CHOOSE x \in S : Cardinality({y \in S : <<y, x>> \in before}) = n - 1
    BY DEF Sorted
  <2> QED
    BY <2>1, <2>2 DEF Place
<1>3. list \in [1..N -> S]
  BY <1>2 DEF Sorted
<1>4. \A m, n \in 1..N : list[m] = list[n] => m = n
  <2> SUFFICES ASSUME NEW m \in 1..N, NEW n \in 1..N, list[m] = list[n]
               PROVE  m = n
    OBVIOUS
  <2>1. m - 1 = n - 1
    BY <1>2
  <2> QED
    BY <1>1, <2>1
<1>5. ASSUME NEW x \in S
      PROVE  \E n \in 1..N : list[n] = x
  <2> DEFINE n == Place(x, S, before) + 1
  <2>1. Place(x, S, before) \in 0..(N - 1)
    BY PlacesGrow
  <2>2. n \in 1..N /\ n - 1 = Place(x, S, before)
    BY <1>1, <2>1
  <2> HIDE DEF n
  <2>3. list[n] \in S /\ Place(list[n], S, before) = Place(x, S, before)
    BY <1>2, <2>2
  <2> HIDE DEF list
  <2> QED
    BY <2>2, <2>3, PlacesGrow
<1> QED
  BY <1>1, <1>2, <1>3, <1>4, <1>5

-----------------------------------------------------------------------------
(* The rankings *)

\* Passages of the table, any two of which their ids tell apart.
AreKeyed(S) ==
    /\ IsFiniteSet(S)
    /\ \A r \in S : r.chunk_id \in Nat
    /\ \A r, s \in S : r.chunk_id = s.chunk_id => r = s

\* The relation of BestFirst.
Better(score) ==
    {p \in (DOMAIN score) \X (DOMAIN score) :
       \/ score[p[1]] > score[p[2]]
       \/ score[p[1]] = score[p[2]] /\ p[1].chunk_id < p[2].chunk_id}

LEMMA BetterIsAnOrder ==
    ASSUME NEW score, AreKeyed(DOMAIN score), \A r \in DOMAIN score : score[r] \in Int
    PROVE  IsOrder(Better(score), DOMAIN score)
<1> DEFINE S == DOMAIN score
<1>1. ASSUME NEW r \in S, NEW s \in S
      PROVE  <<r, s>> \in Better(score)
               <=> (score[r] > score[s] \/ (score[r] = score[s] /\ r.chunk_id < s.chunk_id))
  <2> DEFINE p == <<r, s>>
  <2>1. p \in S \X S /\ p[1] = r /\ p[2] = s
    OBVIOUS
  <2> HIDE DEF p
  <2>2. p \in Better(score)
           <=> (score[p[1]] > score[p[2]] \/ (score[p[1]] = score[p[2]] /\ p[1].chunk_id < p[2].chunk_id))
    BY <2>1 DEF Better
  <2> QED
    BY <2>1, <2>2 DEF p
<1> HIDE DEF S
<1>2. ASSUME NEW r \in S, NEW s \in S, r # s
      PROVE  <<r, s>> \in Better(score) \/ <<s, r>> \in Better(score)
  <2>1. score[r] \in Int /\ score[s] \in Int /\ r.chunk_id \in Nat /\ s.chunk_id \in Nat
    BY DEF AreKeyed, S
  <2>2. r.chunk_id # s.chunk_id
    BY <1>2 DEF AreKeyed, S
  <2> QED
    BY <1>1, <2>1, <2>2
<1>3. ASSUME NEW r \in S
      PROVE  <<r, r>> \notin Better(score)
  <2>1. score[r] \in Int /\ r.chunk_id \in Nat
    BY DEF AreKeyed, S
  <2> QED
    BY <1>1, <2>1
<1>4. ASSUME NEW r \in S, NEW s \in S, NEW t \in S,
             <<r, s>> \in Better(score), <<s, t>> \in Better(score)
      PROVE  <<r, t>> \in Better(score)
  <2>1. /\ score[r] \in Int /\ score[s] \in Int /\ score[t] \in Int
        /\ r.chunk_id \in Nat /\ s.chunk_id \in Nat /\ t.chunk_id \in Nat
    BY DEF AreKeyed, S
  <2> QED
    BY <1>1, <1>4, <2>1
<1>5. IsOrder(Better(score), S)
  BY <1>2, <1>3, <1>4 DEF IsOrder
<1> QED
  BY <1>5 DEF S

\* The best first is a list of what was scored, and a higher score comes earlier.
LEMMA BestFirstIsAList ==
    ASSUME NEW score, AreKeyed(DOMAIN score), \A r \in DOMAIN score : score[r] \in Int
    PROVE  LET N == Cardinality(DOMAIN score)
               list == BestFirst(score)
           IN  /\ N \in Nat
               /\ list \in [1..N -> DOMAIN score]
               /\ \A m, n \in 1..N : list[m] = list[n] => m = n
               /\ \A r \in DOMAIN score : \E n \in 1..N : list[n] = r
               /\ \A m, n \in 1..N : score[list[m]] > score[list[n]] => m < n
<1> DEFINE S == DOMAIN score
           N == Cardinality(S)
           list == BestFirst(score)
<1>1. list = Sorted(S, Better(score))
  BY DEF BestFirst, Better
<1>2. IsFiniteSet(S) /\ IsOrder(Better(score), S)
  BY BetterIsAnOrder DEF AreKeyed
<1> HIDE DEF S, list
<1>3. /\ N \in Nat
      /\ list \in [1..N -> S]
      /\ \A n \in 1..N : Place(list[n], S, Better(score)) = n - 1
      /\ \A m, n \in 1..N : list[m] = list[n] => m = n
      /\ \A r \in S : \E n \in 1..N : list[n] = r
  BY <1>1, <1>2, SortedIsAList
<1>4. ASSUME NEW m \in 1..N, NEW n \in 1..N, score[list[m]] > score[list[n]]
      PROVE  m < n
  <2> DEFINE p == <<list[m], list[n]>>
  <2>1. p \in S \X S /\ p[1] = list[m] /\ p[2] = list[n]
    BY <1>3
  <2>2. p \in Better(score)
    <3> HIDE DEF p
    <3> QED
      BY <1>4, <2>1 DEF Better, S
  <2>3. Place(list[m], S, Better(score)) < Place(list[n], S, Better(score))
    BY <1>2, <1>3, <2>2, PlacesGrow
  <2>4. m - 1 < n - 1
    BY <1>3, <2>3
  <2> QED
    BY <1>3, <2>4
<1> QED
  BY <1>3, <1>4 DEF S, list

Agree(short, list, k) == \A i \in 1..k : short[i] = list[i]

\* What FirstOf keeps of a list.
LEMMA FirstOfAList ==
    ASSUME NEW S, NEW N \in Nat, NEW list \in [1..N -> S], NEW n \in Nat
    PROVE  \E kept \in 0..N : /\ kept <= n
                              /\ FirstOf(list, n) \in [1..kept -> S]
                              /\ Agree(FirstOf(list, n), list, kept)
<1> DEFINE kept == IF n < N THEN n ELSE N
<1>1. Len(list) = N
  OBVIOUS
<1>2. kept \in 0..N /\ kept <= n
  OBVIOUS
<1>3. FirstOf(list, n) = SubSeq(list, 1, kept)
  BY <1>1 DEF FirstOf
<1> HIDE DEF kept
<1>4. SubSeq(list, 1, kept) = [i \in 1..kept |-> list[i]]
  <2>1. list \in Seq(S)
    OBVIOUS
  <2> QED
    BY <1>1, <1>2, <2>1
<1>5. /\ FirstOf(list, n) \in [1..kept -> S]
      /\ Agree(FirstOf(list, n), list, kept)
  <2>1. \A i \in 1..kept : i \in 1..N /\ list[i] \in S
    BY <1>2
  <2> QED
    BY <1>3, <1>4, <2>1 DEF Agree
<1> QED
  BY <1>2, <1>5

-----------------------------------------------------------------------------
(* The rows in another order *)

\* The table holds each admitted passage once.
IsTable(list, S) ==
    /\ list \in [1..Cardinality(S) -> S]
    /\ \A m, n \in 1..Cardinality(S) : list[m] = list[n] => m = n
    /\ \A x \in S : \E n \in 1..Cardinality(S) : list[n] = x

\* Nearness with ids to break ties does not depend on where the rows are.
LEMMA NearnessIsAnOrder ==
    ASSUME NEW S, AreKeyed(S), NEW near, \A r \in S : near[r.chunk_id] \in Int
    PROVE  IsOrder({p \in S \X S : Nearer(near, p[1], p[2])}, S)
<1> DEFINE before == {p \in S \X S : Nearer(near, p[1], p[2])}
<1>1. \A r, s \in S : <<r, s>> \in before
         <=> \/ near[r.chunk_id] < near[s.chunk_id]
             \/ near[r.chunk_id] = near[s.chunk_id] /\ r.chunk_id < s.chunk_id
  BY DEF Nearer
<1> HIDE DEF before
<1>2. ASSUME NEW r \in S, NEW s \in S, r # s
      PROVE  <<r, s>> \in before \/ <<s, r>> \in before
  <2>1. near[r.chunk_id] \in Int /\ near[s.chunk_id] \in Int /\ r.chunk_id \in Nat /\ s.chunk_id \in Nat
    BY DEF AreKeyed
  <2>2. r.chunk_id # s.chunk_id
    BY <1>2 DEF AreKeyed
  <2> QED
    BY <1>1, <2>1, <2>2
<1>3. ASSUME NEW r \in S
      PROVE  <<r, r>> \notin before
  <2>1. near[r.chunk_id] \in Int /\ r.chunk_id \in Nat
    BY DEF AreKeyed
  <2> QED
    BY <1>1, <2>1
<1>4. ASSUME NEW r \in S, NEW s \in S, NEW t \in S, <<r, s>> \in before, <<s, t>> \in before
      PROVE  <<r, t>> \in before
  <2>1. /\ near[r.chunk_id] \in Int /\ near[s.chunk_id] \in Int /\ near[t.chunk_id] \in Int
        /\ r.chunk_id \in Nat /\ s.chunk_id \in Nat /\ t.chunk_id \in Nat
    BY DEF AreKeyed
  <2> QED
    BY <1>1, <1>4, <2>1
<1>5. IsOrder(before, S)
  BY <1>2, <1>3, <1>4 DEF IsOrder
<1> QED
  BY <1>5 DEF before

\* The relation of DenseRanking, over places of the table.
NearerRow(list, near) ==
    {p \in (DOMAIN list) \X (DOMAIN list) :
       \/ Nearer(near, list[p[1]], list[p[2]])
       \/ ~Nearer(near, list[p[2]], list[p[1]]) /\ p[1] < p[2]}

NearerPassage(S, near) == {p \in S \X S : Nearer(near, p[1], p[2])}

\* Two rows are never level, so where they are tells nothing.
LEMMA RowsAsPassages ==
    ASSUME NEW S, AreKeyed(S), NEW near, \A r \in S : near[r.chunk_id] \in Int,
           NEW list, IsTable(list, S)
    PROVE  /\ DOMAIN list = 1..Cardinality(S)
           /\ \A m, n \in DOMAIN list :
                <<m, n>> \in NearerRow(list, near) <=> <<list[m], list[n]>> \in NearerPassage(S, near)
<1> DEFINE D == DOMAIN list
<1>1. D = 1..Cardinality(S) /\ \A n \in D : list[n] \in S
  BY DEF IsTable
<1>2. ASSUME NEW m \in D, NEW n \in D
      PROVE  <<m, n>> \in NearerRow(list, near)
               <=> \/ Nearer(near, list[m], list[n])
                   \/ ~Nearer(near, list[n], list[m]) /\ m < n
  <2> DEFINE p == <<m, n>>
  <2>1. p \in D \X D /\ p[1] = m /\ p[2] = n
    OBVIOUS
  <2> HIDE DEF p
  <2>2. p \in NearerRow(list, near)
          <=> \/ Nearer(near, list[p[1]], list[p[2]])
              \/ ~Nearer(near, list[p[2]], list[p[1]]) /\ p[1] < p[2]
    BY <2>1 DEF NearerRow
  <2> QED
    BY <2>1, <2>2 DEF p
<1>3. ASSUME NEW m \in D, NEW n \in D
      PROVE  <<list[m], list[n]>> \in NearerPassage(S, near) <=> Nearer(near, list[m], list[n])
  <2>1. list[m] \in S /\ list[n] \in S
    BY <1>1
  <2> QED
    BY <2>1 DEF NearerPassage
<1>4. ASSUME NEW m \in D, NEW n \in D, m # n
      PROVE  ~Nearer(near, list[n], list[m]) => Nearer(near, list[m], list[n])
  <2>1. list[m] \in S /\ list[n] \in S /\ list[m] # list[n]
    BY <1>1, <1>4 DEF IsTable
  <2>2. <<list[m], list[n]>> \in NearerPassage(S, near) \/ <<list[n], list[m]>> \in NearerPassage(S, near)
    BY <2>1, NearnessIsAnOrder DEF IsOrder, NearerPassage
  <2> QED
    BY <1>3, <2>2
<1>5. ASSUME NEW m \in D, NEW n \in D
      PROVE  <<m, n>> \in NearerRow(list, near) <=> <<list[m], list[n]>> \in NearerPassage(S, near)
  <2>1. CASE m = n
    <3>1. m \in Nat
      BY <1>1, FS_CardinalityType DEF AreKeyed
    <3> QED
      BY <1>2, <1>3, <2>1, <3>1
  <2>2. CASE m # n
    BY <1>2, <1>3, <1>4, <2>2
  <2> QED
    BY <2>1, <2>2
<1> QED
  BY <1>1, <1>5

\* A row has the place of its passage: the rows nearer are the passages nearer.
LEMMA PlaceOfARow ==
    ASSUME NEW S, AreKeyed(S), NEW near, \A r \in S : near[r.chunk_id] \in Int,
           NEW list, IsTable(list, S), NEW n \in DOMAIN list
    PROVE  Place(n, DOMAIN list, NearerRow(list, near)) = Place(list[n], S, NearerPassage(S, near))
<1> DEFINE D == DOMAIN list
           places == {m \in D : <<m, n>> \in NearerRow(list, near)}
           passages == {y \in S : <<y, list[n]>> \in NearerPassage(S, near)}
           f == [m \in places |-> list[m]]
<1>1. D = 1..Cardinality(S)
  BY RowsAsPassages
<1>2. \A m \in D : m \in places <=> list[m] \in passages
  <2>1. \A m \in D : list[m] \in S
    BY DEF IsTable
  <2> QED
    BY <2>1, RowsAsPassages
<1>3. \A m \in places : m \in D
  OBVIOUS
<1>4. \A y \in passages : y \in S
  OBVIOUS
<1> HIDE DEF places, passages
<1>5. f \in [places -> passages]
  BY <1>2, <1>3
<1>6. \A l, m \in places : f[l] = f[m] => l = m
  BY <1>1, <1>3 DEF IsTable
<1>7. \A y \in passages : \E m \in places : f[m] = y
  <2> SUFFICES ASSUME NEW y \in passages
               PROVE  \E m \in places : f[m] = y
    OBVIOUS
  <2>1. PICK m \in D : list[m] = y
    BY <1>1, <1>4 DEF IsTable
  <2> QED
    BY <1>2, <2>1
<1>8. f \in Bijection(places, passages)
  <2> HIDE DEF f
  <2> QED
    BY <1>5, <1>6, <1>7 DEF Bijection, Injection, Surjection, IsInjective
<1>9. IsFiniteSet(passages)
  <2>1. passages \in SUBSET S
    BY <1>4
  <2> QED
    BY <2>1, FS_Subset DEF AreKeyed
<1>10. IsFiniteSet(places)
  <2>1. places \in SUBSET (1..Cardinality(S)) /\ Cardinality(S) \in Nat
    BY <1>1, <1>3, FS_CardinalityType DEF AreKeyed
  <2>2. IsFiniteSet(1..Cardinality(S))
    BY <2>1, FS_Interval
  <2> QED
    BY <2>1, <2>2, FS_Subset
<1>11. ExistsBijection(places, passages)
  BY <1>8 DEF ExistsBijection
<1>12. Cardinality(places) = Cardinality(passages)
  BY <1>10, <1>11, FS_Bijection
<1> QED
  BY <1>12 DEF Place, places, passages

\* The nearest first, as the table would return its passages were it always in one order.
NearestFirst(S, near) == Sorted(S, NearerPassage(S, near))

\* The dense stage returns the same ids in the same order whatever order the rows are in.
LEMMA DenseIgnoresTheTable ==
    ASSUME NEW S, AreKeyed(S), NEW near, \A r \in S : near[r.chunk_id] \in Int,
           NEW list, IsTable(list, S)
    PROVE  DenseRanking(list, near)
             = FirstOf([n \in 1..Cardinality(S) |-> NearestFirst(S, near)[n].chunk_id], StageDepth)
<1> DEFINE D == DOMAIN list
           N == Cardinality(S)
           order == Sorted(D, NearerRow(list, near))
           nearest == NearestFirst(S, near)
<1>1. N \in Nat /\ IsFiniteSet(S)
  BY FS_CardinalityType DEF AreKeyed
<1>2. D = 1..N
  BY RowsAsPassages
<1>3. IsFiniteSet(D) /\ Cardinality(D) = N
  <2> HIDE DEF N
  <2>1. IsFiniteSet(1..N) /\ Cardinality(1..N) = IF 1 > N THEN 0 ELSE N - 1 + 1
    BY <1>1, FS_Interval
  <2> QED
    BY <1>1, <1>2, <2>1
<1>4. IsOrder(NearerPassage(S, near), S)
  BY NearnessIsAnOrder DEF NearerPassage
<1>5. IsOrder(NearerRow(list, near), D)
  <2>1. \A m \in D : list[m] \in S
    BY DEF IsTable
  <2>2. \A m, n \in D : m # n => list[m] # list[n]
    BY <1>2 DEF IsTable
  <2> QED
    BY <1>4, <2>1, <2>2, RowsAsPassages DEF IsOrder
<1>6. ASSUME NEW n \in 1..N
      PROVE  list[order[n]] = nearest[n]
  <2>1. order[n] \in D /\ Place(order[n], D, NearerRow(list, near)) = n - 1
    BY <1>3, <1>5, SortedIsAList
  <2>2. nearest[n] \in S /\ Place(nearest[n], S, NearerPassage(S, near)) = n - 1
    BY <1>1, <1>4, SortedIsAList DEF NearestFirst
  <2> HIDE DEF order, nearest, N
  <2>3. list[order[n]] \in S
    BY <2>1 DEF IsTable
  <2>4. Place(list[order[n]], S, NearerPassage(S, near)) = n - 1
    BY <2>1, PlaceOfARow
  <2> QED
    BY <1>1, <1>4, <2>2, <2>3, <2>4, PlacesGrow
<1>7. DenseRanking(list, near) = FirstOf([n \in D |-> list[order[n]].chunk_id], StageDepth)
  BY DEF DenseRanking, NearerRow
<1>8. [n \in D |-> list[order[n]].chunk_id] = [n \in 1..N |-> nearest[n].chunk_id]
  <2> HIDE DEF order, nearest, N
  <2> QED
    BY <1>2, <1>6
<1> QED
  BY <1>7, <1>8

-----------------------------------------------------------------------------
(* Going down and going up *)

\* A finite set in some order has a first element.
LEMMA AnOrderHasAFirst ==
    ASSUME NEW T, IsFiniteSet(T), T # {}, NEW before, IsOrder(before, T)
    PROVE  \E x \in T : \A y \in T : <<y, x>> \notin before
<1>1. 1 \in 1..Cardinality(T)
  BY FS_CardinalityType, FS_EmptySet
<1>2. PICK x \in T : Place(x, T, before) = 1 - 1
  BY <1>1, PlacesAreTaken
<1> DEFINE earlier == {y \in T : <<y, x>> \in before}
<1>3. IsFiniteSet(earlier) /\ Cardinality(earlier) = 0
  <2>1. earlier \in SUBSET T /\ Cardinality(earlier) = 0
    BY <1>2 DEF Place
  <2> HIDE DEF earlier
  <2> QED
    BY <2>1, FS_Subset
<1>4. earlier = {}
  <2> HIDE DEF earlier
  <2> QED
    BY <1>3, FS_EmptySet
<1> QED
  BY <1>4

\* A finite set of integers has a lowest and a highest: the first and the last of it in order.
LEMMA Extremes ==
    ASSUME NEW T, T \subseteq Int, IsFiniteSet(T), T # {}
    PROVE  /\ \E low \in T : \A t \in T : low <= t
           /\ \E high \in T : \A t \in T : t <= high
<1> DEFINE up == {p \in T \X T : p[1] < p[2]}
           down == {p \in T \X T : p[1] > p[2]}
<1>1. \A x, y \in T : (<<x, y>> \in up <=> x < y) /\ (<<x, y>> \in down <=> x > y)
  OBVIOUS
<1> HIDE DEF up, down
<1>2. IsOrder(up, T) /\ IsOrder(down, T)
  BY <1>1 DEF IsOrder
<1>3. PICK low \in T : \A y \in T : <<y, low>> \notin up
  BY <1>2, AnOrderHasAFirst
<1>4. PICK high \in T : \A y \in T : <<y, high>> \notin down
  BY <1>2, AnOrderHasAFirst
<1>5. \A t \in T : ~(t < low) /\ ~(t > high) /\ t \in Int /\ low \in Int /\ high \in Int
  BY <1>1, <1>3, <1>4
<1>6. \A t \in T : low <= t /\ t <= high
  BY <1>5
<1> QED
  BY <1>6

\* What holds at an offset when it holds at every later one holds at all of them.
LEMMA DownFromTheEnd ==
    ASSUME NEW n \in Nat, NEW good,
           \A m \in 0..n : (\A k \in (m + 1)..n : k \in good) => m \in good
    PROVE  0..n \subseteq good
<1> DEFINE bad == (0..n) \ good
<1>1. SUFFICES ASSUME bad # {}
               PROVE  FALSE
  OBVIOUS
<1>2. IsFiniteSet(bad) /\ bad \subseteq Int
  <2>1. IsFiniteSet(0..n) /\ bad \in SUBSET (0..n) /\ bad \subseteq Int
    BY FS_Interval
  <2> HIDE DEF bad
  <2>2. IsFiniteSet(bad)
    BY <2>1, FS_Subset
  <2> QED
    BY <2>1, <2>2
<1>3. PICK high \in bad : \A t \in bad : t <= high
  <2> HIDE DEF bad
  <2> QED
    BY <1>1, <1>2, Extremes
<1>4. \A k \in (high + 1)..n : k \in good
  BY <1>3
<1> QED
  BY <1>3, <1>4

\* What holds at the start and at the place after any place where it holds, holds at all of them.
LEMMA UpFromTheStart ==
    ASSUME NEW n \in Nat, NEW good, 0 \in good, \A m \in 1..n : m - 1 \in good => m \in good
    PROVE  0..n \subseteq good
<1> DEFINE bad == (0..n) \ good
<1>1. SUFFICES ASSUME bad # {}
               PROVE  FALSE
  OBVIOUS
<1>2. IsFiniteSet(bad) /\ bad \subseteq Int
  <2>1. IsFiniteSet(0..n) /\ bad \in SUBSET (0..n) /\ bad \subseteq Int
    BY FS_Interval
  <2> HIDE DEF bad
  <2>2. IsFiniteSet(bad)
    BY <2>1, FS_Subset
  <2> QED
    BY <2>1, <2>2
<1>3. PICK low \in bad : \A t \in bad : low <= t
  <2> HIDE DEF bad
  <2> QED
    BY <1>1, <1>2, Extremes
<1>4. low \in 1..n /\ low - 1 \notin bad
  BY <1>3
<1> QED
  BY <1>3, <1>4

-----------------------------------------------------------------------------
(* Sums *)

\* A sum over a set from what it is over the set without an element.
SumStep(f, iter, s) ==
    IF s = {} THEN 0 ELSE f[CHOOSE x \in s : TRUE] + iter[s \ {CHOOSE x \in s : TRUE}]

IsSum(f, iter) == iter = [s \in SUBSET DOMAIN f |-> SumStep(f, iter, s)]

\* The sets of at most so many elements.
UpToSize(D, m) == {s \in SUBSET D : Cardinality(s) <= m}

\* Without an element a set is smaller.
LEMMA OneLess ==
    ASSUME NEW D, IsFiniteSet(D), NEW m \in Nat \ {0}, NEW s \in UpToSize(D, m), s # {}
    PROVE  /\ (CHOOSE x \in s : TRUE) \in s
           /\ s \ {CHOOSE x \in s : TRUE} \in UpToSize(D, m - 1)
<1> DEFINE x == CHOOSE y \in s : TRUE
<1>1. x \in s
  OBVIOUS
<1> HIDE DEF x
<1>2. s \in SUBSET D /\ Cardinality(s) <= m
  BY DEF UpToSize
<1>3. IsFiniteSet(s)
  BY <1>2, FS_Subset
<1>4. Cardinality(s) \in Nat /\ Cardinality(s \ {x}) = Cardinality(s) - 1
  BY <1>1, <1>3, FS_CardinalityType, FS_RemoveElement
<1>5. s \ {x} \in UpToSize(D, m - 1)
  BY <1>2, <1>4 DEF UpToSize
<1> QED
  BY <1>1, <1>5 DEF x

\* Only the empty set has no element, and a set has no more than it is part of.
LEMMA Sizes ==
    ASSUME NEW D, IsFiniteSet(D)
    PROVE  UpToSize(D, 0) = {{}} /\ UpToSize(D, Cardinality(D)) = SUBSET D
<1>1. \A s \in SUBSET D : /\ IsFiniteSet(s) /\ Cardinality(s) \in Nat
                          /\ Cardinality(s) <= Cardinality(D)
                          /\ Cardinality(s) = 0 <=> s = {}
  BY FS_Subset, FS_CardinalityType, FS_EmptySet
<1> QED
  BY <1>1 DEF UpToSize

\* The recursion of a sum has a solution: from the small sets up.
LEMMA SumEquation ==
    ASSUME NEW f, IsFiniteSet(DOMAIN f)
    PROVE  \E iter : IsSum(f, iter) /\ SumFunction(f) = iter[DOMAIN f]
<1> DEFINE D == DOMAIN f
           n == Cardinality(D)
           Solves(iter, m) == iter = [s \in UpToSize(D, m) |-> SumStep(f, iter, s)]
           good == {m \in 0..n : \E iter : Solves(iter, m)}
<1>1. n \in Nat /\ IsFiniteSet(D)
  BY FS_CardinalityType
<1> HIDE DEF n, D
<1>2. 0 \in good
  <2> DEFINE iter == [s \in {{}} |-> 0]
  <2>1. iter = [s \in UpToSize(D, 0) |-> SumStep(f, iter, s)]
    BY <1>1, Sizes DEF SumStep
  <2> HIDE DEF iter
  <2>2. \E g : Solves(g, 0)
    BY <2>1
  <2> HIDE DEF Solves
  <2> QED
    BY <1>1, <2>2
<1>3. ASSUME NEW m \in 1..n, m - 1 \in good
      PROVE  m \in good
  <2>1. PICK iter : Solves(iter, m - 1)
    BY <1>3
  <2>2. \A s \in UpToSize(D, m - 1) : iter[s] = SumStep(f, iter, s)
    BY Zenon, <2>1
  <2> DEFINE more == [s \in UpToSize(D, m) |-> SumStep(f, iter, s)]
  <2>3. \A s \in UpToSize(D, m - 1) : s \in UpToSize(D, m) /\ more[s] = iter[s]
    <3>1. ASSUME NEW s \in UpToSize(D, m - 1)
          PROVE  s \in UpToSize(D, m)
      <4>1. s \in SUBSET D /\ Cardinality(s) <= m - 1
        BY DEF UpToSize
      <4>2. Cardinality(s) \in Nat
        BY <1>1, <4>1, FS_Subset, FS_CardinalityType
      <4>3. Cardinality(s) <= m
        BY <4>1, <4>2
      <4> QED
        BY <4>1, <4>3 DEF UpToSize
    <3> QED
      BY <2>2, <3>1
  <2>4. ASSUME NEW s \in UpToSize(D, m)
        PROVE  more[s] = SumStep(f, more, s)
    <3>1. more[s] = SumStep(f, iter, s)
      OBVIOUS
    <3> HIDE DEF more
    <3>2. s # {} => s \ {CHOOSE x \in s : TRUE} \in UpToSize(D, m - 1)
      BY <1>1, OneLess
    <3> QED
      BY <2>3, <3>1, <3>2 DEF SumStep
  <2>5. more = [s \in UpToSize(D, m) |-> more[s]]
    OBVIOUS
  <2> HIDE DEF more
  <2>6. Solves(more, m)
    BY <2>4, <2>5
  <2> HIDE DEF Solves
  <2>7. m \in 0..n
    BY <1>1
  <2> QED
    BY <2>6, <2>7
<1>4. 0..n \subseteq good
  <2> HIDE DEF good
  <2> QED
    BY <1>1, <1>2, <1>3, UpFromTheStart
<1>5. PICK iter : Solves(iter, n)
  <2>1. n \in 0..n
    BY <1>1
  <2> HIDE DEF Solves
  <2> QED
    BY <1>4, <2>1
<1>6. IsSum(f, iter)
  <2>1. UpToSize(D, n) = SUBSET D
    BY <1>1, Sizes DEF n
  <2> QED
    BY <1>5, <2>1 DEF IsSum, D
<1>7. SumFunction(f) = (CHOOSE sum : IsSum(f, sum))[DOMAIN f]
  BY DEF SumFunction, SumFunctionOnSet, FoldFunctionOnSet, MapThenFoldSet, IsSum, SumStep
<1> QED
  BY <1>6, <1>7

\* A sum is of the kind its parts are of, if that kind has zero and all its sums.
LEMMA SumIsOfAKind ==
    ASSUME NEW Kind, 0 \in Kind, \A a, b \in Kind : a + b \in Kind,
           NEW f, IsFiniteSet(DOMAIN f), \A x \in DOMAIN f : f[x] \in Kind
    PROVE  SumFunction(f) \in Kind
<1> DEFINE D == DOMAIN f
           n == Cardinality(D)
<1>1. n \in Nat /\ IsFiniteSet(D)
  BY FS_CardinalityType
<1>2. PICK iter : IsSum(f, iter) /\ SumFunction(f) = iter[D]
  BY SumEquation
<1>3. \A s \in SUBSET D : iter[s] = SumStep(f, iter, s)
  BY Zenon, <1>2 DEF IsSum
<1>4. \A x \in D : f[x] \in Kind
  OBVIOUS
<1> HIDE DEF n, D
<1> DEFINE good == {m \in 0..n : \A s \in UpToSize(D, m) : iter[s] \in Kind}
<1>5. 0 \in good
  <2>1. \A s \in UpToSize(D, 0) : s = {} /\ s \in SUBSET D
    BY <1>1, Sizes
  <2>2. \A s \in UpToSize(D, 0) : iter[s] \in Kind
    BY <1>3, <2>1 DEF SumStep
  <2> QED
    BY <1>1, <2>2
<1>6. ASSUME NEW m \in 1..n, m - 1 \in good
      PROVE  m \in good
  <2>1. ASSUME NEW s \in UpToSize(D, m)
        PROVE  iter[s] \in Kind
    <3>1. s \in SUBSET D
      BY DEF UpToSize
    <3>2. CASE s = {}
      BY <1>3, <3>1, <3>2 DEF SumStep
    <3>3. CASE s # {}
      <4> DEFINE x == CHOOSE y \in s : TRUE
      <4>1. m \in Nat \ {0}
        BY <1>1
      <4>2. x \in s /\ s \ {x} \in UpToSize(D, m - 1)
        BY <1>1, <3>3, <4>1, OneLess
      <4>3. iter[s] = f[x] + iter[s \ {x}]
        BY <1>3, <3>1, <3>3 DEF SumStep
      <4> HIDE DEF x
      <4>4. f[x] \in Kind /\ iter[s \ {x}] \in Kind
        BY <1>4, <1>6, <3>1, <4>2
      <4> QED
        BY <4>3, <4>4
    <3> QED
      BY <3>2, <3>3
  <2>2. m \in 0..n
    BY <1>1
  <2> QED
    BY <2>1, <2>2
<1>7. n \in good
  <2> HIDE DEF good
  <2>1. 0..n \subseteq good
    BY <1>1, <1>5, <1>6, UpFromTheStart
  <2> QED
    BY <1>1, <2>1
<1>8. D \in UpToSize(D, n)
  BY <1>1, Sizes DEF n
<1> QED
  BY <1>2, <1>7, <1>8

-----------------------------------------------------------------------------
(* What a stage says *)

\* A ranking names the first of a list of passages.
Begins(ranking, list, k) ==
    DOMAIN ranking = 1..k /\ \A i \in 1..k : ranking[i] = list[i].chunk_id

Named(list, n) == {list[i].chunk_id : i \in 1..n}

\* It has no more places than there can be candidates, and no id has two.
IsShort(ranking) ==
    /\ DOMAIN ranking \subseteq 1..MaxCandidates
    /\ \A m, n \in DOMAIN ranking : ranking[m] = ranking[n] => m = n

\* Where the second is ranked, the first is, and earlier.
Precedes(ranking, r, s) ==
    s.chunk_id \in Members(ranking) =>
        \E m, n \in DOMAIN ranking : /\ m < n
                                     /\ ranking[m] = r.chunk_id
                                     /\ ranking[n] = s.chunk_id

\* The order of a list is the order of its ids, cut short or not.
LEMMA OrderOfIds ==
    ASSUME NEW S, AreKeyed(S), NEW N \in 0..MaxCandidates, NEW list \in [1..N -> S],
           \A m, n \in 1..N : list[m] = list[n] => m = n,
           NEW k \in 0..N, NEW ranking, Begins(ranking, list, k)
    PROVE  /\ IsShort(ranking)
           /\ \A m, n \in 1..N : m < n => Precedes(ranking, list[m], list[n])
           /\ Members(ranking) \subseteq Named(list, N)
<1>1. \A i \in 1..k : i \in 1..N /\ i \in 1..MaxCandidates /\ list[i] \in S
  BY RankingAssumption
<1>2. DOMAIN ranking = 1..k /\ \A i \in 1..k : ranking[i] = list[i].chunk_id
  BY DEF Begins
<1>3. \A m, n \in 1..N : list[m].chunk_id = list[n].chunk_id => m = n
  BY DEF AreKeyed
<1>4. IsShort(ranking)
  BY <1>1, <1>2, <1>3 DEF IsShort
<1>5. ASSUME NEW m \in 1..N, NEW n \in 1..N, m < n, list[n].chunk_id \in Members(ranking)
      PROVE  \E i, j \in DOMAIN ranking : /\ i < j
                                          /\ ranking[i] = list[m].chunk_id
                                          /\ ranking[j] = list[n].chunk_id
  <2>1. PICK j \in 1..k : list[j].chunk_id = list[n].chunk_id
    BY <1>2, <1>5 DEF Members
  <2>2. j = n /\ m \in 1..k
    BY <1>1, <1>3, <1>5, <2>1
  <2> QED
    BY <1>2, <1>5, <2>1, <2>2
<1>6. \A m, n \in 1..N : m < n => Precedes(ranking, list[m], list[n])
  BY <1>5 DEF Precedes
<1>7. Members(ranking) \subseteq Named(list, N)
  BY <1>1, <1>2 DEF Members, Named
<1> QED
  BY <1>4, <1>6, <1>7

\* A ranking by score has what scores more earlier, and nothing that was not scored.
LEMMA OrderOfScores ==
    ASSUME NEW S, AreKeyed(S), Cardinality(S) \in 0..MaxCandidates,
           NEW score, DOMAIN score \subseteq S, \A r \in DOMAIN score : score[r] \in Int,
           NEW k \in 0..Cardinality(DOMAIN score), NEW ranking, Begins(ranking, BestFirst(score), k)
    PROVE  /\ IsShort(ranking)
           /\ \A r, s \in DOMAIN score : score[r] > score[s] => Precedes(ranking, r, s)
           /\ \A s \in S : s \notin DOMAIN score => s.chunk_id \notin Members(ranking)
<1> DEFINE D == DOMAIN score
           N == Cardinality(D)
           list == BestFirst(score)
<1>1. D \in SUBSET S /\ IsFiniteSet(S)
  BY DEF AreKeyed
<1>2. N \in 0..MaxCandidates
  <2> HIDE DEF D
  <2>1. N \in Nat /\ N <= Cardinality(S)
    BY <1>1, FS_Subset, FS_CardinalityType
  <2> HIDE DEF N
  <2> QED
    BY <2>1, RankingAssumption
<1>3. AreKeyed(D)
  BY <1>1, FS_Subset DEF AreKeyed
<1>4. /\ list \in [1..N -> D]
      /\ \A m, n \in 1..N : list[m] = list[n] => m = n
      /\ \A r \in D : \E n \in 1..N : list[n] = r
      /\ \A m, n \in 1..N : score[list[m]] > score[list[n]] => m < n
  BY <1>3, BestFirstIsAList
<1> HIDE DEF list
<1>5. k \in 0..N /\ Begins(ranking, list, k)
  BY DEF list
<1> HIDE DEF D, N
<1>6. /\ IsShort(ranking)
      /\ \A m, n \in 1..N : m < n => Precedes(ranking, list[m], list[n])
      /\ Members(ranking) \subseteq Named(list, N)
  <2>1. list \in [1..N -> D] /\ \A m, n \in 1..N : list[m] = list[n] => m = n
    BY <1>4
  <2> QED
    BY <1>2, <1>3, <1>5, <2>1, OrderOfIds
<1>7. ASSUME NEW r \in D, NEW s \in D, score[r] > score[s]
      PROVE  Precedes(ranking, r, s)
  <2>1. PICK m \in 1..N, n \in 1..N : list[m] = r /\ list[n] = s
    BY <1>4
  <2> QED
    BY <1>4, <1>6, <1>7, <2>1
<1>8. ASSUME NEW s \in S, s.chunk_id \in Members(ranking)
      PROVE  s \in D
  <2>1. PICK n \in 1..N : list[n].chunk_id = s.chunk_id
    BY <1>6, <1>8 DEF Named
  <2>2. list[n] \in D /\ list[n] \in S
    BY <1>1, <1>4, <2>1
  <2> QED
    BY <2>1, <2>2 DEF AreKeyed
<1> QED
  BY <1>6, <1>7, <1>8 DEF D

\* The ids of a list begin like it, and so does what is kept of them.
LEMMA KeptIds ==
    ASSUME NEW N \in Nat, NEW list, DOMAIN list = 1..N
    PROVE  /\ Begins(IdsOf(list), list, N)
           /\ \E k \in 0..N : Begins(FirstOf(IdsOf(list), StageDepth), list, k)
<1> DEFINE ids == IdsOf(list)
<1>1. ids = [i \in 1..N |-> list[i].chunk_id]
  BY DEF IdsOf
<1> HIDE DEF ids
<1>2. DOMAIN ids = 1..N /\ \A i \in 1..N : ids[i] = list[i].chunk_id
  BY <1>1
<1>3. ids \in [1..N -> Members(ids)]
  BY <1>1, <1>2 DEF Members
<1>4. PICK k \in 0..N : /\ FirstOf(ids, StageDepth) \in [1..k -> Members(ids)]
                        /\ Agree(FirstOf(ids, StageDepth), ids, k)
  BY <1>3, FirstOfAList, RankingAssumption
<1>5. Begins(FirstOf(ids, StageDepth), list, k)
  <2>1. \A i \in 1..k : i \in 1..N
    OBVIOUS
  <2> QED
    BY <1>2, <1>4, <2>1 DEF Agree, Begins
<1> QED
  BY <1>2, <1>5 DEF Begins, ids

\* The passages of a question: no more than a filter admits, each a sequence of letters.
AreCandidates(S) ==
    /\ AreKeyed(S)
    /\ Cardinality(S) \in 1..MaxCandidates
    /\ S \subseteq Passages

LEMMA PassagesAreTexts ==
    ASSUME NEW r \in Passages
    PROVE  r.text \in Seq(STRING)
<1> DEFINE text == DocumentText[r.document_id]
<1>1. /\ text \in Seq(STRING)
      /\ r.end_offset \in 0..Len(text)
      /\ r.start_offset \in 0..r.end_offset
      /\ r.text = SubSeq(text, r.start_offset + 1, r.end_offset)
  BY AnsweringAssumption DEF Slice
<1> HIDE DEF text
<1>2. Len(text) \in Nat
  BY <1>1
<1>3. SubSeq(text, r.start_offset + 1, r.end_offset) \in Seq(STRING)
  BY <1>1, <1>2
<1> QED
  BY <1>1, <1>3

\* The words of a text are finitely many.
LEMMA TokensAreFinite ==
    ASSUME NEW text \in Seq(STRING)
    PROVE  IsFiniteSet(TokensIn(text))
<1> DEFINE letters == {text[i] : i \in DOMAIN text}
<1>1. DOMAIN text = 1..Len(text) /\ Len(text) \in Nat
  OBVIOUS
<1>2. IsFiniteSet(DOMAIN text)
  BY <1>1, FS_Interval
<1>3. IsFiniteSet(letters)
  <2> DEFINE f == [i \in DOMAIN text |-> text[i]]
  <2>1. f \in Surjection(DOMAIN text, letters)
    BY DEF Surjection
  <2> HIDE DEF f, letters
  <2> QED
    BY <1>2, <2>1, FS_Surjection
<1>4. TokensIn(text) \in SUBSET letters
  BY DEF TokensIn
<1> QED
  BY <1>3, <1>4, FS_Subset

\* A word of a text is somewhere in it.
LEMMA WordsAreSomewhere ==
    ASSUME NEW text \in Seq(STRING)
    PROVE  /\ Cardinality(WordsAt(text)) \in Nat
           /\ TokensIn(text) # {} => Cardinality(WordsAt(text)) # 0
           /\ \A word : Cardinality({i \in WordsAt(text) : text[i] = word}) \in Nat
<1> DEFINE at == WordsAt(text)
<1>1. IsFiniteSet(at)
  <2>1. DOMAIN text = 1..Len(text) /\ Len(text) \in Nat /\ at \in SUBSET (DOMAIN text)
    BY DEF WordsAt
  <2> HIDE DEF at
  <2>2. IsFiniteSet(DOMAIN text)
    BY <2>1, FS_Interval
  <2> QED
    BY <2>1, <2>2, FS_Subset
<1>2. TokensIn(text) # {} => at # {}
  BY DEF TokensIn, WordsAt
<1>3. \A word : {i \in at : text[i] = word} \in SUBSET at
  OBVIOUS
<1> HIDE DEF at
<1>4. \A word : Cardinality({i \in at : text[i] = word}) \in Nat
  BY <1>1, <1>3, FS_Subset, FS_CardinalityType
<1>5. Cardinality(at) \in Nat /\ (at # {} => Cardinality(at) # 0)
  BY <1>1, FS_CardinalityType, FS_EmptySet
<1> QED
  BY <1>2, <1>4, <1>5 DEF at

\* The words of some passages are finitely many, too.
LEMMA VocabularyIsFinite ==
    ASSUME NEW S, AreCandidates(S)
    PROVE  IsFiniteSet(UNION {TokensIn(r.text) : r \in S})
<1> DEFINE tokens == {TokensIn(r.text) : r \in S}
           f == [r \in S |-> TokensIn(r.text)]
<1>1. \A T \in tokens : IsFiniteSet(T)
  BY PassagesAreTexts, TokensAreFinite DEF AreCandidates
<1>2. f \in Surjection(S, tokens)
  BY DEF Surjection
<1>3. IsFiniteSet(tokens)
  <2> HIDE DEF f, tokens
  <2> QED
    BY <1>2, FS_Surjection DEF AreCandidates, AreKeyed
<1> HIDE DEF tokens
<1>4. IsFiniteSet(UNION tokens)
  BY <1>1, <1>3, FS_UNION
<1> QED
  BY <1>4 DEF tokens

\* A quotient of whole numbers, rounded down, is one.
LEMMA Quotients ==
    ASSUME NEW weight \in Int, NEW total \in Nat, NEW count \in Nat, NEW n \in Nat \ {0},
           NEW length \in Nat \ {0}
    PROVE  (weight * 20 * total * count) \div (8 * total * count + 3 * total + 9 * n * length) \in Int
<1> DEFINE above == weight * 20 * total * count
           below == 8 * total * count + 3 * total + 9 * n * length
<1>1. above \in Int
  OBVIOUS
<1>2. below \in Nat \ {0}
  <2>1. total * count \in Nat /\ n * length \in Nat \ {0}
    OBVIOUS
  <2>2. 8 * (total * count) + 3 * total + 9 * (n * length) \in Nat \ {0}
    BY <2>1
  <2>3. below = 8 * (total * count) + 3 * total + 9 * (n * length)
    OBVIOUS
  <2> QED
    BY <2>2, <2>3
<1> HIDE DEF above, below
<1>3. above \div below \in Int
  BY <1>1, <1>2
<1> QED
  BY <1>3 DEF above, below

\* The scores of BM25 are whole numbers, whatever passages there are and however a word weighs.
LEMMA LexicalScoresAreWhole ==
    ASSUME NEW q \in Questions, NEW S, AreCandidates(S)
    PROVE  /\ DOMAIN Bm25Scores(q, S) = S
           /\ \A r \in S : Bm25Scores(q, S)[r] \in Int
<1> DEFINE n == Cardinality(S)
           vocabulary == UNION {TokensIn(r.text) : r \in S}
           idf == [word \in vocabulary |->
                     Idf[n][Cardinality({r \in S : word \in TokensIn(r.text)})]]
           weight == [word \in vocabulary |->
                        IF idf[word] < 0 THEN SumFunction(idf)
                                         ELSE 4 * Cardinality(vocabulary) * idf[word]]
           length == [r \in S |-> Cardinality(WordsAt(r.text))]
           total == SumFunction(length)
           count(r, word) == Cardinality({i \in WordsAt(r.text) : r.text[i] = word})
           added(r, word, times) == (weight[word] * 20 * total * times)
                                        \div (8 * total * times + 3 * total + 9 * n * length[r])
           parts(r) == [word \in q.terms \intersect TokensIn(r.text) |-> added(r, word, count(r, word))]
<1>1. /\ IsFiniteSet(S) /\ n \in 1..MaxCandidates /\ n \in Nat \ {0}
      /\ \A r \in S : r.text \in Seq(STRING)
  BY PassagesAreTexts, RankingAssumption DEF AreCandidates, AreKeyed
<1>2. IsFiniteSet(vocabulary) /\ Cardinality(vocabulary) \in Nat
  BY VocabularyIsFinite, FS_CardinalityType
<1>3. ASSUME NEW word \in vocabulary
      PROVE  idf[word] \in Int
  <2> DEFINE having == {r \in S : word \in TokensIn(r.text)}
  <2>1. having \in SUBSET S /\ having # {}
    OBVIOUS
  <2>2. idf[word] = Idf[n][Cardinality(having)]
    OBVIOUS
  <2> HIDE DEF having, idf, n
  <2>3. IsFiniteSet(having) /\ Cardinality(having) <= n
    BY <1>1, <2>1, FS_Subset DEF n
  <2>4. Cardinality(having) \in 1..n
    BY <1>1, <2>1, <2>3, FS_CardinalityType, FS_EmptySet
  <2> QED
    BY <1>1, <2>2, <2>4, RankingAssumption
<1>4. DOMAIN idf = vocabulary /\ DOMAIN length = S
  OBVIOUS
<1>5. \A r \in S : length[r] = Cardinality(WordsAt(r.text)) /\ length[r] \in Nat
  BY <1>1, WordsAreSomewhere
<1>6. SumFunction(idf) \in Int
  <2> HIDE DEF idf, vocabulary
  <2> QED
    BY <1>2, <1>3, <1>4, SumIsOfAKind
<1>7. total \in Nat
  <2> HIDE DEF length
  <2>1. IsFiniteSet(DOMAIN length) /\ \A x \in DOMAIN length : length[x] \in Nat
    BY <1>1, <1>4, <1>5
  <2>2. 0 \in Nat /\ \A a, b \in Nat : a + b \in Nat
    OBVIOUS
  <2> QED
    BY <2>1, <2>2, SumIsOfAKind
<1>8. \A word \in vocabulary : weight[word] \in Int
  <2> HIDE DEF idf, vocabulary
  <2> QED
    BY <1>2, <1>3, <1>6
<1>9. \A r \in S : TokensIn(r.text) \subseteq vocabulary
  OBVIOUS
<1>10. Bm25Scores(q, S) = [r \in S |-> SumFunction(parts(r))]
  BY DEF Bm25Scores
<1> HIDE DEF n, vocabulary, idf, weight, length, total
<1>11. ASSUME NEW r \in S
       PROVE  SumFunction(parts(r)) \in Int
  <2> DEFINE words == q.terms \intersect TokensIn(r.text)
  <2>1. IsFiniteSet(words)
    <3>1. words \in SUBSET TokensIn(r.text)
      OBVIOUS
    <3> QED
      BY <1>1, <3>1, TokensAreFinite, FS_Subset
  <2>2. ASSUME NEW word \in words
        PROVE  parts(r)[word] \in Int
    <3>1. /\ weight[word] \in Int
          /\ count(r, word) \in Nat
          /\ length[r] \in Nat \ {0}
      BY <1>1, <1>5, <1>8, <1>9, WordsAreSomewhere
    <3> HIDE DEF count
    <3>2. added(r, word, count(r, word)) \in Int
      BY <1>1, <1>7, <3>1, Quotients
    <3>3. parts(r)[word] = added(r, word, count(r, word))
      OBVIOUS
    <3> QED
      BY <3>2, <3>3
  <2>3. DOMAIN parts(r) = words
    OBVIOUS
  <2> HIDE DEF parts, words
  <2> QED
    BY <2>1, <2>2, <2>3, SumIsOfAKind
<1> QED
  BY <1>10, <1>11

\* How many identifiers a passage has is a number.
LEMMA SharedIsWhole ==
    ASSUME NEW q \in Questions, NEW r
    PROVE  Shared(q, r) \in Nat
<1>1. q.identifiers \intersect PartNumbersIn(r.text) \in SUBSET q.identifiers
  OBVIOUS
<1> QED
  BY <1>1, AnsweringAssumption, FS_Subset, FS_CardinalityType DEF Shared

\* The identifier lookup has the passage with more of them earlier, and none without.
LEMMA WhatExactSays ==
    ASSUME NEW q \in Questions, NEW list, AreCandidates(Members(list))
    PROVE  LET ranking == ExactRanking(q, list)
           IN  /\ IsShort(ranking)
               /\ \A r, s \in Members(list) :
                    /\ Shared(q, r) > Shared(q, s) => Precedes(ranking, r, s)
                    /\ Shared(q, s) = 0 => s.chunk_id \notin Members(ranking)
<1> DEFINE S == Members(list)
           score == [r \in {c \in S : Shared(q, c) > 0} |-> Shared(q, r)]
           D == {c \in S : Shared(q, c) > 0}
           ranking == ExactRanking(q, list)
<1>1. /\ DOMAIN score = D /\ D \subseteq S
      /\ \A r \in S : r \in D <=> Shared(q, r) > 0
      /\ \A r \in D : score[r] = Shared(q, r)
  OBVIOUS
<1>2. ranking = IdsOf(BestFirst(score))
  BY DEF ExactRanking
<1> HIDE DEF score, D, ranking
<1>3. \A r \in S : Shared(q, r) \in Nat
  BY SharedIsWhole
<1>4. AreKeyed(S) /\ Cardinality(S) \in 0..MaxCandidates
  BY DEF AreCandidates
<1> HIDE DEF S
<1>5. Cardinality(D) \in Nat /\ DOMAIN BestFirst(score) = 1..Cardinality(D)
  <2>1. Cardinality(D) \in Nat
    BY <1>1, <1>4, FS_Subset, FS_CardinalityType DEF AreKeyed
  <2> QED
    BY <1>1, <2>1 DEF BestFirst, Sorted
<1>6. Begins(ranking, BestFirst(score), Cardinality(D)) /\ Cardinality(D) \in 0..Cardinality(DOMAIN score)
  BY <1>1, <1>2, <1>5, KeptIds
<1>7. /\ IsShort(ranking)
      /\ \A r, s \in DOMAIN score : score[r] > score[s] => Precedes(ranking, r, s)
      /\ \A s \in S : s \notin DOMAIN score => s.chunk_id \notin Members(ranking)
  <2>1. \A r \in DOMAIN score : score[r] \in Int
    BY <1>1, <1>3
  <2> QED
    BY <1>1, <1>4, <1>6, <2>1, OrderOfScores
<1>8. ASSUME NEW r \in S, NEW s \in S, Shared(q, r) > Shared(q, s)
      PROVE  Precedes(ranking, r, s)
  <2>1. CASE s \in D
    <3>1. r \in D
      BY <1>1, <1>3, <1>8, <2>1
    <3> QED
      BY <1>1, <1>7, <1>8, <2>1, <3>1
  <2>2. CASE s \notin D
    BY <1>1, <1>7, <2>2 DEF Precedes
  <2> QED
    BY <2>1, <2>2
<1>9. \A s \in S : Shared(q, s) = 0 => s.chunk_id \notin Members(ranking)
  BY <1>1, <1>7
<1> QED
  BY <1>7, <1>8, <1>9 DEF S, ranking

\* BM25 has the passage with the higher score earlier, and none that has no positive one.
LEMMA WhatLexicalSays ==
    ASSUME NEW q \in Questions, NEW list, AreCandidates(Members(list))
    PROVE  LET bm25 == Bm25Scores(q, Members(list))
               ranking == LexicalRanking(q, list)
           IN  /\ IsShort(ranking)
               /\ \A r, s \in Members(list) :
                    /\ bm25[r] > 0 /\ bm25[r] > bm25[s] => Precedes(ranking, r, s)
                    /\ bm25[s] <= 0 => s.chunk_id \notin Members(ranking)
<1> DEFINE S == Members(list)
           bm25 == Bm25Scores(q, S)
           score == [r \in {c \in DOMAIN bm25 : bm25[c] > 0} |-> bm25[r]]
           D == DOMAIN score
           ranking == LexicalRanking(q, list)
<1>1. DOMAIN bm25 = S /\ \A r \in S : bm25[r] \in Int
  BY LexicalScoresAreWhole
<1>2. ranking = FirstOf(IdsOf(BestFirst(score)), StageDepth)
  BY DEF LexicalRanking, OrderByScore
<1> HIDE DEF bm25, ranking
<1>3. /\ D \subseteq S
      /\ \A r \in S : r \in D <=> bm25[r] > 0
      /\ \A r \in D : score[r] = bm25[r]
  BY <1>1
<1>4. AreKeyed(S) /\ Cardinality(S) \in 0..MaxCandidates
  BY DEF AreCandidates
<1> HIDE DEF S, score
<1>5. Cardinality(D) \in Nat /\ DOMAIN BestFirst(score) = 1..Cardinality(D)
  <2>1. Cardinality(D) \in Nat
    BY <1>3, <1>4, FS_Subset, FS_CardinalityType DEF AreKeyed
  <2> QED
    BY <2>1 DEF BestFirst, Sorted
<1>6. PICK k \in 0..Cardinality(D) : Begins(ranking, BestFirst(score), k)
  BY <1>2, <1>5, KeptIds
<1>7. /\ IsShort(ranking)
      /\ \A r, s \in D : score[r] > score[s] => Precedes(ranking, r, s)
      /\ \A s \in S : s \notin D => s.chunk_id \notin Members(ranking)
  <2>1. \A r \in D : score[r] \in Int
    BY <1>1, <1>3
  <2> QED
    BY <1>3, <1>4, <1>6, <2>1, OrderOfScores
<1>8. ASSUME NEW r \in S, NEW s \in S, bm25[r] > 0, bm25[r] > bm25[s]
      PROVE  Precedes(ranking, r, s)
  <2>1. CASE s \in D
    <3>1. r \in D
      BY <1>3, <1>8
    <3> QED
      BY <1>3, <1>7, <1>8, <2>1, <3>1
  <2>2. CASE s \notin D
    BY <1>7, <2>2 DEF Precedes
  <2> QED
    BY <2>1, <2>2
<1>9. \A s \in S : bm25[s] <= 0 => s.chunk_id \notin Members(ranking)
  <2> SUFFICES ASSUME NEW s \in S, bm25[s] <= 0
               PROVE  s.chunk_id \notin Members(ranking)
    OBVIOUS
  <2>1. s \notin D
    BY <1>1, <1>3
  <2> QED
    BY <1>7, <2>1
<1> QED
  BY <1>7, <1>8, <1>9 DEF S, ranking, bm25

\* The dense stage has the nearer passage earlier.
LEMMA WhatDenseSays ==
    ASSUME NEW list, AreCandidates(Members(list)), IsTable(list, Members(list)),
           NEW near, \A r \in Members(list) : near[r.chunk_id] \in Int
    PROVE  LET ranking == DenseRanking(list, near)
           IN  /\ IsShort(ranking)
               /\ \A r, s \in Members(list) :
                    near[r.chunk_id] < near[s.chunk_id] => Precedes(ranking, r, s)
<1> DEFINE S == Members(list)
           N == Cardinality(S)
           before == NearerPassage(S, near)
           nearest == NearestFirst(S, near)
           ids == [n \in 1..N |-> nearest[n].chunk_id]
           ranking == DenseRanking(list, near)
<1>1. AreKeyed(S) /\ N \in 0..MaxCandidates /\ N \in Nat /\ IsFiniteSet(S)
  BY DEF AreCandidates, AreKeyed
<1>2. ranking = FirstOf(ids, StageDepth)
  BY <1>1, DenseIgnoresTheTable
<1>3. \A r \in S : near[r.chunk_id] \in Int
  OBVIOUS
<1> HIDE DEF S, ranking
<1>4. IsOrder(before, S)
  BY <1>1, <1>3, NearnessIsAnOrder DEF NearerPassage
<1>5. /\ nearest \in [1..N -> S]
      /\ \A n \in 1..N : Place(nearest[n], S, before) = n - 1
      /\ \A m, n \in 1..N : nearest[m] = nearest[n] => m = n
      /\ \A x \in S : \E n \in 1..N : nearest[n] = x
  <2>1. nearest = Sorted(S, before)
    BY DEF NearestFirst
  <2> HIDE DEF nearest, before
  <2> QED
    BY <1>1, <1>4, <2>1, SortedIsAList
<1>6. ids = IdsOf(nearest)
  BY <1>5 DEF IdsOf
<1>7. PICK k \in 0..N : Begins(ranking, nearest, k)
  <2>1. DOMAIN nearest = 1..N
    BY <1>5
  <2> HIDE DEF nearest, ids, N
  <2> QED
    BY <1>1, <1>2, <1>6, <2>1, KeptIds
<1>8. IsShort(ranking) /\ \A m, n \in 1..N : m < n => Precedes(ranking, nearest[m], nearest[n])
  <2> HIDE DEF nearest, N
  <2> QED
    BY <1>1, <1>5, <1>7, OrderOfIds
<1>9. ASSUME NEW r \in S, NEW s \in S, near[r.chunk_id] < near[s.chunk_id]
      PROVE  Precedes(ranking, r, s)
  <2>1. PICK m \in 1..N, n \in 1..N : nearest[m] = r /\ nearest[n] = s
    BY <1>5
  <2>2. <<r, s>> \in before
    BY <1>9 DEF NearerPassage, Nearer
  <2>3. Place(r, S, before) < Place(s, S, before)
    BY <1>1, <1>4, <2>2, PlacesGrow
  <2> HIDE DEF nearest, before
  <2>4. m - 1 < n - 1
    BY <1>5, <2>1, <2>3
  <2> HIDE DEF N
  <2>5. m < n
    BY <1>1, <2>1, <2>4
  <2> QED
    BY <1>8, <2>1, <2>5
<1> QED
  BY <1>8, <1>9 DEF S, ranking

-----------------------------------------------------------------------------
(* Scores are whole numbers *)

\* A share of a weight is no more than the weight.
LEMMA Shares ==
    ASSUME NEW weight \in Nat, NEW n \in Nat \ {0}, NEW k \in 0..n
    PROVE  (weight * k) \div n \in 0..weight
<1>1. 0 <= weight * k /\ weight * k <= weight * n
  OBVIOUS
<1> DEFINE share == (weight * k) \div n
           rest == (weight * k) % n
<1>2. /\ share \in Int /\ rest \in 0..(n - 1)
      /\ weight * k = n * share + rest
  OBVIOUS
<1> HIDE DEF share, rest
<1>3. share >= 0
  <2>1. SUFFICES ASSUME share <= -1
                 PROVE  FALSE
    BY <1>2
  <2>2. n * share <= -n
    BY <1>2, <2>1
  <2> QED
    BY <1>1, <1>2, <2>2
<1>4. share <= weight
  <2>1. SUFFICES ASSUME share >= weight + 1
                 PROVE  FALSE
    BY <1>2
  <2>2. n * share >= n * weight + n
    BY <1>2, <2>1
  <2> QED
    BY <1>1, <1>2, <2>2
<1> QED
  BY <1>2, <1>3, <1>4 DEF share

LEMMA CoverageIsAShare ==
    ASSUME NEW wanted, IsFiniteSet(wanted), NEW present
    PROVE  Coverage(wanted, present) \in 0..ShareScale
<1>1. CASE wanted = {}
  BY <1>1, RankingAssumption DEF Coverage
<1>2. CASE wanted # {}
  <2> DEFINE n == Cardinality(wanted)
             k == Cardinality(wanted \intersect present)
  <2>1. n \in Nat \ {0}
    BY <1>2, FS_CardinalityType, FS_EmptySet
  <2>2. k \in 0..n
    <3>1. wanted \intersect present \in SUBSET wanted
      OBVIOUS
    <3> QED
      BY <3>1, <2>1, FS_Subset, FS_CardinalityType
  <2> HIDE DEF n, k
  <2>3. (ShareScale * k) \div n \in 0..ShareScale
    BY <2>1, <2>2, Shares, RankingAssumption
  <2> QED
    BY <1>2, <2>3 DEF Coverage, n, k
<1> QED
  BY <1>1, <1>2

\* The four features together never reach the scale the fused score is put to.
LEMMA FeaturesAreSmall ==
    ASSUME NEW q \in Questions, NEW r, NEW ids
    PROVE  FeaturesOf(q, r, ids) \in 0..(180 * ShareScale)
<1> DEFINE hit == IF r.chunk_id \in ids THEN ShareScale ELSE 0
           identifiers == Coverage(q.identifiers, PartNumbersIn(r.text))
           terms == Coverage(q.terms, TokensIn(r.text))
           language == IF r.language = q.language THEN ShareScale ELSE 0
<1>1. /\ ShareScale \in Nat
      /\ hit \in 0..ShareScale /\ identifiers \in 0..ShareScale
      /\ terms \in 0..ShareScale /\ language \in 0..ShareScale
  BY AnsweringAssumption, RankingAssumption, CoverageIsAShare
<1>2. FeaturesOf(q, r, ids) = 100 * hit + 40 * identifiers + 30 * terms + 10 * language
  BY DEF FeaturesOf, RERANK_WEIGHTS
<1> HIDE DEF hit, identifiers, terms, language
<1> QED
  BY <1>1, <1>2

\* The weights of an arm are numbers.
LEMMA WeightsAreWhole ==
    ASSUME NEW a \in DOMAIN StageWeights
    PROVE  /\ StageWeights[a]["exact_identifier"] \in Nat
           /\ StageWeights[a]["lexical"] \in Nat
           /\ StageWeights[a]["dense"] \in Nat
           /\ DOMAIN StageWeights[a] = {"exact_identifier", "lexical", "dense"}
<1> DEFINE weights == StageWeights[a]
<1>1. a = "system" \/ a = "bm25_only" \/ a = "dense_only"
  BY DEF StageWeights
<1>2. \/ weights = ShippedWeights
      \/ weights = [ShippedWeights EXCEPT !.dense = 0]
      \/ weights = [ShippedWeights EXCEPT !.exact_identifier = 0, !.lexical = 0]
  BY <1>1 DEF StageWeights
<1> HIDE DEF weights
<1>3. /\ weights["exact_identifier"] \in Nat
      /\ weights["lexical"] \in Nat
      /\ weights["dense"] \in Nat
      /\ DOMAIN weights = {"exact_identifier", "lexical", "dense"}
  <2>1. CASE weights = ShippedWeights
    BY <2>1 DEF ShippedWeights
  <2>2. CASE weights = [ShippedWeights EXCEPT !.dense = 0]
    BY <2>2 DEF ShippedWeights
  <2>3. CASE weights = [ShippedWeights EXCEPT !.exact_identifier = 0, !.lexical = 0]
    BY <2>3 DEF ShippedWeights
  <2> QED
    BY <1>2, <2>1, <2>2, <2>3
<1> QED
  BY <1>3 DEF weights

\* A multiple of a number stays one when it is multiplied.
LEMMA MultiplesOfMultiples ==
    ASSUME NEW a \in Nat, NEW b \in Nat \ {0}, NEW k \in Nat \ {0}, a % k = 0
    PROVE  (a * b) % k = 0 /\ (k * b) % k = 0
<1>1. PICK c \in Nat : a = k * c
  <2> DEFINE d == a \div k
  <2>1. a = k * d + (a % k) /\ d \in Int
    OBVIOUS
  <2> HIDE DEF d
  <2>2. a = k * d
    BY <2>1
  <2>3. d >= 0
    <3>1. SUFFICES ASSUME d <= -1
                   PROVE  FALSE
      BY <2>1
    <3>2. -1 - d \in Nat
      BY <2>1, <3>1
    <3>3. k * (-1 - d) >= 0
      BY <3>2
    <3>4. k * (-1 - d) = -k - k * d
      BY <2>1
    <3> QED
      BY <2>2, <3>3, <3>4
  <2> QED
    BY <2>1, <2>2, <2>3
<1>2. ASSUME NEW m \in Nat
      PROVE  (k * m) % k = 0
  <2> DEFINE x == k * m
             d == x \div k
             e == x % k
  <2>1. x \in Nat /\ d \in Int /\ e \in 0..(k - 1) /\ x = k * d + e
    OBVIOUS
  <2>2. k * m = k * d + e
    BY <2>1
  <2> HIDE DEF x, d, e
  <2>3. e = k * (m - d)
    BY <2>1, <2>2
  <2>4. m - d = 0
    <3>1. CASE m - d >= 1
      BY <2>1, <2>3, <3>1
    <3>2. CASE m - d <= -1
      BY <2>1, <2>3, <3>2
    <3> QED
      BY <2>1, <3>1, <3>2
  <2>5. e = 0
    BY <2>1, <2>3, <2>4
  <2> QED
    BY <2>5 DEF x, e
<1>3. a * b = k * (c * b) /\ c * b \in Nat
  BY <1>1
<1> QED
  BY <1>2, <1>3

\* The assumption about the fused scores can be met for any number of candidates.
LEMMA ScalesExist ==
    ASSUME NEW N \in Nat
    PROVE  \E scale \in Nat \ {0} : \A position \in 1..N : scale % (RRF_K + position) = 0
<1> DEFINE Divides(scale, n) == \A position \in 1..n : scale % (RRF_K + position) = 0
           good == {n \in 0..N : \E scale \in Nat \ {0} : Divides(scale, n)}
<1>1. 0 \in good
  <2>1. Divides(1, 0)
    OBVIOUS
  <2> HIDE DEF Divides
  <2>2. 1 \in Nat \ {0} /\ 0 \in 0..N
    OBVIOUS
  <2> QED
    BY <2>1, <2>2
<1>2. ASSUME NEW n \in 1..N, n - 1 \in good
      PROVE  n \in good
  <2>1. PICK scale \in Nat \ {0} : Divides(scale, n - 1)
    BY <1>2
  <2> DEFINE k == RRF_K + n
  <2>2. k \in Nat \ {0} /\ scale * k \in Nat \ {0}
    BY DEF RRF_K
  <2>3. ASSUME NEW position \in 1..n
        PROVE  (scale * k) % (RRF_K + position) = 0
    <3>1. RRF_K + position \in Nat \ {0}
      BY DEF RRF_K
    <3>2. CASE position = n
      <4>1. k % k = 0 /\ scale * k = k * scale
        BY <2>2
      <4>2. (k * scale) % k = 0
        BY <2>2, <4>1, MultiplesOfMultiples
      <4> QED
        BY <3>2, <4>1, <4>2
    <3>3. CASE position # n
      <4>1. scale % (RRF_K + position) = 0
        <5>1. position \in 1..(n - 1)
          BY <3>3
        <5> QED
          BY <2>1, <5>1
      <4> HIDE DEF k
      <4> QED
        BY <2>2, <3>1, <4>1, MultiplesOfMultiples
    <3> QED
      BY <3>2, <3>3
  <2>4. Divides(scale * k, n)
    BY <2>3
  <2> HIDE DEF Divides, k
  <2>5. n \in 0..N
    OBVIOUS
  <2> QED
    BY <2>2, <2>4, <2>5
<1>3. N \in good
  <2> HIDE DEF good
  <2>1. 0..N \subseteq good
    BY <1>1, <1>2, UpFromTheStart
  <2> QED
    BY <2>1
<1> QED
  BY <1>3

\* What is divided by a higher position is less.
LEMMA SharesOfOne ==
    /\ \A n \in 1..MaxCandidates : FusionScale \div (RRF_K + n) \in Nat
    /\ \A m, n \in 1..MaxCandidates :
          m < n => FusionScale \div (RRF_K + m) > FusionScale \div (RRF_K + n)
<1> DEFINE share(n) == FusionScale \div (RRF_K + n)
<1>1. ASSUME NEW n \in 1..MaxCandidates
      PROVE  share(n) \in Nat \ {0} /\ FusionScale = (60 + n) * share(n)
  <2> DEFINE k == 60 + n
  <2>1. k \in Nat \ {0} /\ FusionScale \in Nat \ {0} /\ FusionScale % k = 0 /\ share(n) = FusionScale \div k
    BY RankingAssumption DEF RRF_K
  <2> HIDE DEF k, share
  <2>2. FusionScale = k * share(n) /\ share(n) \in Int
    BY <2>1
  <2>3. share(n) > 0
    <3>1. SUFFICES ASSUME share(n) <= 0
                   PROVE  FALSE
      BY <2>2
    <3>2. k * share(n) <= 0
      BY <2>1, <2>2, <3>1
    <3> QED
      BY <2>1, <2>2, <3>2
  <2> QED
    BY <2>2, <2>3 DEF k
<1> HIDE DEF share
<1>2. ASSUME NEW m \in 1..MaxCandidates, NEW n \in 1..MaxCandidates, m < n
      PROVE  share(m) > share(n)
  <2> DEFINE a == share(m)
             b == share(n)
  <2>1. a \in Nat \ {0} /\ b \in Nat \ {0} /\ (60 + m) * a = (60 + n) * b
    BY <1>1
  <2>2. m \in Nat /\ n \in Nat
    BY RankingAssumption
  <2> HIDE DEF a, b
  <2>3. SUFFICES ASSUME a <= b
                 PROVE  FALSE
    BY <2>1 DEF a, b
  <2>4. (60 + m) * a <= (60 + m) * b
    BY <2>1, <2>2, <2>3
  <2>5. (60 + m) * b < (60 + n) * b
    <3>1. n - m \in Nat \ {0}
      BY <1>2, <2>2
    <3>2. (n - m) * b > 0
      BY <2>1, <3>1
    <3> QED
      BY <2>1, <2>2, <3>2
  <2>6. (60 + m) * a \in Int /\ (60 + m) * b \in Int /\ (60 + n) * b \in Int
    BY <2>1, <2>2
  <2> QED
    BY <2>1, <2>4, <2>5, <2>6
<1> QED
  BY <1>1, <1>2 DEF share

\* What one stage adds to the fused score of an id.
Vote(weight, ranking, id) ==
    IF id \in Members(ranking)
      THEN weight * (FusionScale \div (RRF_K + (CHOOSE i \in DOMAIN ranking : ranking[i] = id)))
      ELSE 0

\* A vote is a number, and more of one at an earlier place.
LEMMA VotesFollowTheOrder ==
    ASSUME NEW weight \in Nat, NEW ranking, IsShort(ranking)
    PROVE  /\ \A id : Vote(weight, ranking, id) \in Nat
           /\ weight = 0 => \A id : Vote(weight, ranking, id) = 0
           /\ \A m, n \in DOMAIN ranking :
                m < n /\ weight # 0 =>
                    Vote(weight, ranking, ranking[m]) > Vote(weight, ranking, ranking[n])
<1> DEFINE share(n) == FusionScale \div (RRF_K + n)
<1>1. \A n \in DOMAIN ranking : n \in 1..MaxCandidates
  BY DEF IsShort
<1>2. /\ \A n \in 1..MaxCandidates : share(n) \in Nat
      /\ \A m, n \in 1..MaxCandidates : m < n => share(m) > share(n)
  <2>1. ASSUME NEW n \in 1..MaxCandidates
        PROVE  share(n) \in Nat
    BY SharesOfOne
  <2>2. ASSUME NEW m \in 1..MaxCandidates, NEW n \in 1..MaxCandidates, m < n
        PROVE  share(m) > share(n)
    BY <2>2, SharesOfOne
  <2> HIDE DEF share
  <2> QED
    BY <2>1, <2>2
<1>3. ASSUME NEW n \in DOMAIN ranking
      PROVE  Vote(weight, ranking, ranking[n]) = weight * share(n)
  <2>1. ranking[n] \in Members(ranking)
    BY DEF Members
  <2>2. (CHOOSE i \in DOMAIN ranking : ranking[i] = ranking[n]) = n
    BY DEF IsShort
  <2> QED
    BY <2>1, <2>2 DEF Vote
<1>4. \A n \in DOMAIN ranking : share(n) \in Nat
  BY <1>1, <1>2
<1>5. \A m, n \in DOMAIN ranking : m < n => share(m) > share(n)
  BY <1>1, <1>2
<1> HIDE DEF share
<1>6. ASSUME NEW id
      PROVE  Vote(weight, ranking, id) \in Nat /\ (weight = 0 => Vote(weight, ranking, id) = 0)
  <2>1. CASE id \in Members(ranking)
    <3>1. PICK n \in DOMAIN ranking : ranking[n] = id
      BY <2>1 DEF Members
    <3> QED
      BY <1>3, <1>4, <3>1
  <2>2. CASE id \notin Members(ranking)
    BY <2>2 DEF Vote
  <2> QED
    BY <2>1, <2>2
<1>7. ASSUME NEW m \in DOMAIN ranking, NEW n \in DOMAIN ranking, m < n, weight # 0
      PROVE  Vote(weight, ranking, ranking[m]) > Vote(weight, ranking, ranking[n])
  <2> DEFINE more == share(m)
             less == share(n)
  <2>1. more \in Nat /\ less \in Nat /\ more > less
    BY <1>4, <1>5, <1>7
  <2> HIDE DEF more, less
  <2>2. weight * more > weight * less
    <3>1. more - less \in Nat \ {0} /\ weight \in Nat \ {0}
      BY <1>7, <2>1
    <3>2. weight * (more - less) > 0
      BY <3>1
    <3> QED
      BY <2>1, <3>2
  <2> QED
    BY <1>3, <2>2 DEF more, less
<1> QED
  BY <1>6, <1>7

ThreeStages(ranked) == DOMAIN ranked = {"exact_identifier", "lexical", "dense"}

\* A fused score is the votes of the three stages.
LEMMA FusedIsVotes ==
    ASSUME NEW ranked, ThreeStages(ranked), NEW a \in DOMAIN StageWeights
    PROVE  LET weights == StageWeights[a]
               scores == ReciprocalRankFusion(ranked, weights)
           IN  /\ \A id \in DOMAIN scores :
                    scores[id] =   Vote(weights["exact_identifier"], ranked["exact_identifier"], id)
                                 + Vote(weights["lexical"], ranked["lexical"], id)
                                 + Vote(weights["dense"], ranked["dense"], id)
               /\ \A id : id \in DOMAIN scores <=>
                    \E name \in DOMAIN ranked : weights[name] # 0 /\ id \in Members(ranked[name])
<1> DEFINE weights == StageWeights[a]
           scores == ReciprocalRankFusion(ranked, weights)
           voting == {name \in DOMAIN ranked : weights[name] # 0}
           named == UNION {Members(ranked[name]) : name \in voting}
<1> HIDE DEF weights
<1>1. scores = [id \in named |->   Vote(weights["exact_identifier"], ranked["exact_identifier"], id)
                                 + Vote(weights["lexical"], ranked["lexical"], id)
                                 + Vote(weights["dense"], ranked["dense"], id)]
  BY Zenon DEF ReciprocalRankFusion, Vote
<1>2. \A id : id \in named <=> \E name \in DOMAIN ranked : weights[name] # 0 /\ id \in Members(ranked[name])
  OBVIOUS
<1> HIDE DEF scores, named
<1> QED
  BY <1>1, <1>2 DEF scores, weights

\* Whatever the stages ranked, the fused scores are integers.
LEMMA FusedIsWhole ==
    ASSUME NEW ranked, ThreeStages(ranked), \A name \in DOMAIN ranked : IsShort(ranked[name]),
           NEW a \in DOMAIN StageWeights
    PROVE  LET scores == ReciprocalRankFusion(ranked, StageWeights[a])
           IN  \A id \in DOMAIN scores : scores[id] \in Int
<1> DEFINE weights == StageWeights[a]
           scores == ReciprocalRankFusion(ranked, weights)
           vote(name, id) == Vote(weights[name], ranked[name], id)
<1>1. \A name \in DOMAIN ranked : weights[name] \in Nat /\ IsShort(ranked[name])
  BY WeightsAreWhole DEF ThreeStages
<1>2. \A name \in DOMAIN ranked : \A id : vote(name, id) \in Nat
  BY <1>1, VotesFollowTheOrder
<1>3. \A id \in DOMAIN scores :
        scores[id] = vote("exact_identifier", id) + vote("lexical", id) + vote("dense", id)
  BY FusedIsVotes
<1> HIDE DEF vote, scores
<1>4. \A id \in DOMAIN scores : scores[id] \in Int
  BY <1>2, <1>3 DEF ThreeStages
<1> QED
  BY <1>4 DEF scores

\* A passage that every stage with a weight has ahead of another, if it has the other, is fused
\* ahead of it.
LEMMA FusionFollowsTheStages ==
    ASSUME NEW ranked, ThreeStages(ranked), \A name \in DOMAIN ranked : IsShort(ranked[name]),
           NEW a \in DOMAIN StageWeights, NEW r, NEW s,
           \A name \in DOMAIN ranked :
               StageWeights[a][name] # 0 => Precedes(ranked[name], r, s),
           s.chunk_id \in DOMAIN ReciprocalRankFusion(ranked, StageWeights[a])
    PROVE  LET scores == ReciprocalRankFusion(ranked, StageWeights[a])
           IN  r.chunk_id \in DOMAIN scores /\ scores[r.chunk_id] > scores[s.chunk_id]
<1> DEFINE weights == StageWeights[a]
           scores == ReciprocalRankFusion(ranked, weights)
           vote(name, id) == Vote(weights[name], ranked[name], id)
<1>1. \A name \in DOMAIN ranked : weights[name] \in Nat /\ IsShort(ranked[name])
  BY WeightsAreWhole DEF ThreeStages
<1>2. \A name \in DOMAIN ranked : \A id : vote(name, id) \in Nat
  BY <1>1, VotesFollowTheOrder
<1>3. /\ \A id \in DOMAIN scores :
           scores[id] = vote("exact_identifier", id) + vote("lexical", id) + vote("dense", id)
      /\ \A id : id \in DOMAIN scores <=>
           \E name \in DOMAIN ranked : weights[name] # 0 /\ id \in Members(ranked[name])
  BY FusedIsVotes
<1> HIDE DEF scores
<1>4. PICK heard \in DOMAIN ranked : weights[heard] # 0 /\ s.chunk_id \in Members(ranked[heard])
  BY <1>3 DEF scores
<1>5. ASSUME NEW name \in DOMAIN ranked, weights[name] # 0, s.chunk_id \in Members(ranked[name])
      PROVE  r.chunk_id \in Members(ranked[name]) /\ vote(name, r.chunk_id) > vote(name, s.chunk_id)
  <2> DEFINE weight == weights[name]
             ranking == ranked[name]
  <2>1. weight \in Nat /\ weight # 0 /\ IsShort(ranking)
    BY <1>1, <1>5
  <2>2. Precedes(ranking, r, s) /\ s.chunk_id \in Members(ranking)
    BY <1>5
  <2> HIDE DEF weight, ranking
  <2>3. PICK m \in DOMAIN ranking, n \in DOMAIN ranking :
                  m < n /\ ranking[m] = r.chunk_id /\ ranking[n] = s.chunk_id
    BY <2>2 DEF Precedes
  <2>4. Vote(weight, ranking, ranking[m]) > Vote(weight, ranking, ranking[n])
    BY <2>1, <2>3, VotesFollowTheOrder
  <2> QED
    BY <2>3, <2>4 DEF Members, weight, ranking
<1>6. ASSUME NEW name \in DOMAIN ranked
      PROVE  vote(name, r.chunk_id) >= vote(name, s.chunk_id)
  <2>1. CASE weights[name] # 0 /\ s.chunk_id \in Members(ranked[name])
    <3>1. vote(name, r.chunk_id) > vote(name, s.chunk_id)
      BY <1>5, <2>1
    <3> HIDE DEF vote
    <3> QED
      BY <1>2, <3>1
  <2>2. CASE weights[name] = 0
    <3>1. vote(name, s.chunk_id) = 0
      BY <1>1, <2>2, VotesFollowTheOrder
    <3> HIDE DEF vote
    <3> QED
      BY <1>2, <3>1
  <2>3. CASE s.chunk_id \notin Members(ranked[name])
    <3>1. vote(name, s.chunk_id) = 0
      BY <2>3 DEF Vote
    <3> HIDE DEF vote
    <3> QED
      BY <1>2, <3>1
  <2> QED
    BY <2>1, <2>2, <2>3
<1>7. r.chunk_id \in DOMAIN scores /\ vote(heard, r.chunk_id) > vote(heard, s.chunk_id)
  BY <1>3, <1>4, <1>5
<1> HIDE DEF vote
<1>8. scores[r.chunk_id] > scores[s.chunk_id]
  <2>1. /\ vote("exact_identifier", r.chunk_id) >= vote("exact_identifier", s.chunk_id)
        /\ vote("lexical", r.chunk_id) >= vote("lexical", s.chunk_id)
        /\ vote("dense", r.chunk_id) >= vote("dense", s.chunk_id)
    BY <1>6 DEF ThreeStages
  <2>2. \/ vote("exact_identifier", r.chunk_id) > vote("exact_identifier", s.chunk_id)
        \/ vote("lexical", r.chunk_id) > vote("lexical", s.chunk_id)
        \/ vote("dense", r.chunk_id) > vote("dense", s.chunk_id)
    BY <1>4, <1>7 DEF ThreeStages
  <2>3. \A id \in {r.chunk_id, s.chunk_id} : /\ vote("exact_identifier", id) \in Nat
                                             /\ vote("lexical", id) \in Nat
                                             /\ vote("dense", id) \in Nat
    BY <1>2 DEF ThreeStages
  <2>4. s.chunk_id \in DOMAIN scores
    BY DEF scores
  <2> QED
    BY <1>3, <1>7, <2>1, <2>2, <2>3, <2>4
<1> QED
  BY <1>7, <1>8 DEF scores

-----------------------------------------------------------------------------
(* The result of a ranking *)

PoolOf(list, scores) == {r \in Members(list) : r.chunk_id \in DOMAIN scores}

\* The lowest and the highest fused score of the pool, as RerankScore has them.
Low(pool, scores) ==
    LET fusedScores == {scores[r.chunk_id] : r \in pool}
    IN  CHOOSE s \in fusedScores : \A t \in fusedScores : s <= t

High(pool, scores) ==
    LET fusedScores == {scores[r.chunk_id] : r \in pool}
    IN  CHOOSE s \in fusedScores : \A t \in fusedScores : t <= s

LEMMA PoolHasExtremes ==
    ASSUME NEW pool, IsFiniteSet(pool), pool # {}, NEW scores, \A r \in pool : scores[r.chunk_id] \in Int
    PROVE  /\ Low(pool, scores) \in Int /\ High(pool, scores) \in Int
           /\ \A r \in pool : /\ Low(pool, scores) <= scores[r.chunk_id]
                              /\ scores[r.chunk_id] <= High(pool, scores)
           /\ \E r \in pool : Low(pool, scores) = scores[r.chunk_id]
           /\ \E r \in pool : High(pool, scores) = scores[r.chunk_id]
<1> DEFINE T == {scores[r.chunk_id] : r \in pool}
           f == [r \in pool |-> scores[r.chunk_id]]
<1>1. T \subseteq Int /\ T # {}
  OBVIOUS
<1>2. IsFiniteSet(T)
  <2>1. f \in Surjection(pool, T)
    BY DEF Surjection
  <2> HIDE DEF f, T
  <2> QED
    BY <2>1, FS_Surjection
<1>3. /\ \A r \in pool : scores[r.chunk_id] \in T
      /\ \A t \in T : \E r \in pool : t = scores[r.chunk_id]
  OBVIOUS
<1>4. /\ Low(pool, scores) = CHOOSE s \in T : \A t \in T : s <= t
      /\ High(pool, scores) = CHOOSE s \in T : \A t \in T : t <= s
  BY DEF Low, High
<1> HIDE DEF T
<1>5. (\E s \in T : \A t \in T : s <= t) /\ (\E s \in T : \A t \in T : t <= s)
  BY <1>1, <1>2, Extremes
<1>6. /\ Low(pool, scores) \in T /\ \A t \in T : Low(pool, scores) <= t
      /\ High(pool, scores) \in T /\ \A t \in T : t <= High(pool, scores)
  BY <1>4, <1>5
<1> QED
  BY <1>1, <1>3, <1>6

\* What a passage scores at the end.
LEMMA RerankScoreOf ==
    ASSUME NEW q \in Questions, NEW pool, IsFiniteSet(pool), NEW scores, NEW ids,
           \A r \in pool : scores[r.chunk_id] \in Int, NEW r \in pool
    PROVE  LET low == Low(pool, scores)
               high == High(pool, scores)
               score == RerankScore(q, pool, scores, ids)
           IN  /\ DOMAIN score = pool
               /\ score[r] \in Int
               /\ score[r] = IF high = low
                               THEN RerankScale + FeaturesOf(q, r, ids)
                               ELSE   RerankScale * (scores[r.chunk_id] - low)
                                    + FeaturesOf(q, r, ids) * (high - low)
<1> DEFINE low == Low(pool, scores)
           high == High(pool, scores)
           score == RerankScore(q, pool, scores, ids)
<1>1. low \in Int /\ high \in Int
  BY PoolHasExtremes
<1>2. DOMAIN score = pool
  BY DEF RerankScore
<1>3. score[r] = IF high = low
                   THEN RerankScale + FeaturesOf(q, r, ids)
                   ELSE   RerankScale * (scores[r.chunk_id] - low)
                        + FeaturesOf(q, r, ids) * (high - low)
  BY DEF RerankScore, Low, High
<1>4. FeaturesOf(q, r, ids) \in Int /\ scores[r.chunk_id] \in Int
  BY FeaturesAreSmall
<1> HIDE DEF low, high, score
<1>5. score[r] \in Int
  <2>1. RerankScale \in Nat
    BY RankingAssumption DEF RerankScale
  <2> QED
    BY <1>1, <1>3, <1>4, <2>1
<1> QED
  BY <1>2, <1>3, <1>5 DEF low, high, score

\* Passages of the pool, none twice, and whatever scores more than one of them is one, and earlier.
IsResult(ranked, pool, score, k) ==
    /\ ranked \in [1..k -> pool]
    /\ \A m, n \in 1..k : ranked[m] = ranked[n] => m = n
    /\ \A n \in 1..k : \A r \in pool :
         score[r] > score[ranked[n]] => \E m \in 1..k : m < n /\ ranked[m] = r

\* A result is the best of the pool, no more than top_k.
LEMMA RerankIsAList ==
    ASSUME NEW q \in Questions, NEW list, AreKeyed(Members(list)), NEW scores, NEW ids,
           \A id \in DOMAIN scores : scores[id] \in Int
    PROVE  LET pool == PoolOf(list, scores)
               score == RerankScore(q, pool, scores, ids)
               ranked == Rerank(q, list, scores, ids)
           IN  \E k \in 0..TopK : IsResult(ranked, pool, score, k)
<1> DEFINE pool == PoolOf(list, scores)
           score == RerankScore(q, pool, scores, ids)
           best == BestFirst(score)
           size == Cardinality(pool)
           ranked == Rerank(q, list, scores, ids)
<1>1. AreKeyed(pool) /\ \A r \in pool : scores[r.chunk_id] \in Int
  <2>1. pool \in SUBSET Members(list)
    BY DEF PoolOf
  <2>2. IsFiniteSet(pool)
    BY <2>1, FS_Subset DEF AreKeyed
  <2> QED
    BY <2>1, <2>2 DEF AreKeyed, PoolOf
<1>2. ranked = FirstOf(best, TopK)
  BY DEF Rerank, PoolOf
<1> HIDE DEF pool, ranked
<1>3. DOMAIN score = pool
  BY DEF RerankScore
<1>4. \A r \in pool : score[r] \in Int
  BY <1>1, RerankScoreOf DEF AreKeyed
<1> HIDE DEF score
<1>5. /\ size \in Nat
      /\ best \in [1..size -> pool]
      /\ \A m, n \in 1..size : best[m] = best[n] => m = n
      /\ \A r \in pool : \E n \in 1..size : best[n] = r
      /\ \A m, n \in 1..size : score[best[m]] > score[best[n]] => m < n
  BY <1>1, <1>3, <1>4, BestFirstIsAList
<1> HIDE DEF best, size
<1>6. PICK k \in 0..size : k <= TopK /\ ranked \in [1..k -> pool] /\ \A i \in 1..k : ranked[i] = best[i]
  <2>1. TopK \in Nat /\ size \in Nat /\ best \in [1..size -> pool]
    BY <1>5, RankingAssumption
  <2>2. \E k \in 0..size : /\ k <= TopK
                         /\ FirstOf(best, TopK) \in [1..k -> pool]
                         /\ Agree(FirstOf(best, TopK), best, k)
    BY <2>1, FirstOfAList
  <2> QED
    BY <1>2, <2>2 DEF Agree
<1>7. k \in 0..TopK /\ \A i \in 1..k : i \in 1..size
  BY <1>5, <1>6, RankingAssumption
<1>8. \A m, n \in 1..k : ranked[m] = ranked[n] => m = n
  BY <1>5, <1>6, <1>7
<1>9. ASSUME NEW n \in 1..k, NEW r \in pool, score[r] > score[ranked[n]]
      PROVE  \E m \in 1..k : m < n /\ ranked[m] = r
  <2>1. PICK m \in 1..size : best[m] = r
    BY <1>5
  <2>2. n \in 1..size /\ best[n] = ranked[n]
    BY <1>6, <1>7
  <2>3. m < n
    BY <1>5, <1>9, <2>1, <2>2
  <2>4. m \in 1..k
    BY <1>5, <1>6, <2>1, <2>2, <2>3
  <2> QED
    BY <1>6, <2>1, <2>3, <2>4
<1>10. IsResult(ranked, pool, score, k)
  BY <1>6, <1>8, <1>9 DEF IsResult
<1> QED
  BY <1>7, <1>10 DEF pool, ranked, score

-----------------------------------------------------------------------------
(* Slices *)

\* A slice has the letters between its ends.
LEMMA SliceOf ==
    ASSUME NEW text \in Seq(STRING), NEW span, span.end \in 0..Len(text), span.start \in 0..span.end
    PROVE  /\ Slice(text, span) \in Seq(STRING)
           /\ Len(Slice(text, span)) = span.end - span.start
           /\ \A i \in 1..(span.end - span.start) : Slice(text, span)[i] = text[span.start + i]
<1> DEFINE m == span.start
           n == span.end
<1>1. Len(text) \in Nat /\ m \in Nat /\ n \in Nat /\ m <= n /\ n <= Len(text)
  OBVIOUS
<1>2. Slice(text, span) = SubSeq(text, m + 1, n)
  BY DEF Slice
<1> HIDE DEF m, n
<1>3. /\ SubSeq(text, m + 1, n) \in Seq(STRING)
      /\ Len(SubSeq(text, m + 1, n)) = n - m
      /\ \A i \in 1..(n - m) : SubSeq(text, m + 1, n)[i] = text[m + i]
  <2>1. SubSeq(text, m + 1, n) = [i \in 1..(n - m) |-> text[m + i]]
    BY <1>1
  <2>2. \A i \in 1..(n - m) : m + i \in 1..Len(text)
    BY <1>1
  <2>3. \A i \in 1..(n - m) : text[m + i] \in STRING
    BY <2>2
  <2> DEFINE k == n - m
             f == [i \in 1..k |-> text[m + i]]
  <2>4. k \in Nat
    BY <1>1
  <2> HIDE DEF k
  <2>5. f \in [1..k -> STRING]
    BY <2>3 DEF k
  <2>6. f \in Seq(STRING) /\ Len(f) = k /\ \A i \in 1..k : f[i] = text[m + i]
    BY <2>4, <2>5
  <2> QED
    BY <2>1, <2>6 DEF k
<1> QED
  BY <1>2, <1>3 DEF m, n

\* A slice of a slice is a slice.
LEMMA SliceOfSlice ==
    ASSUME NEW text \in Seq(STRING),
           NEW outer, outer.end \in 0..Len(text), outer.start \in 0..outer.end,
           NEW inner, inner.end \in 0..(outer.end - outer.start), inner.start \in 0..inner.end
    PROVE  Slice(Slice(text, outer), inner)
             = Slice(text, [start |-> outer.start + inner.start, end |-> outer.start + inner.end])
<1> DEFINE once == Slice(text, outer)
           both == [start |-> outer.start + inner.start, end |-> outer.start + inner.end]
           n == inner.end - inner.start
<1>1. /\ once \in Seq(STRING) /\ Len(once) = outer.end - outer.start
      /\ \A i \in 1..(outer.end - outer.start) : once[i] = text[outer.start + i]
  BY SliceOf
<1>2. both.end \in 0..Len(text) /\ both.start \in 0..both.end /\ both.end - both.start = n /\ n \in Nat
  OBVIOUS
<1>3. /\ Slice(text, both) \in Seq(STRING) /\ Len(Slice(text, both)) = n
      /\ \A i \in 1..n : Slice(text, both)[i] = text[both.start + i]
  <2> HIDE DEF both, n
  <2> QED
    BY <1>2, SliceOf
<1> HIDE DEF once
<1>4. /\ Slice(once, inner) \in Seq(STRING) /\ Len(Slice(once, inner)) = n
      /\ \A i \in 1..n : Slice(once, inner)[i] = once[inner.start + i]
  BY <1>1, SliceOf
<1>5. \A i \in 1..n : once[inner.start + i] = text[both.start + i]
  <2> SUFFICES ASSUME NEW i \in 1..n
               PROVE  once[inner.start + i] = text[both.start + i]
    OBVIOUS
  <2>1. inner.start + i \in 1..(outer.end - outer.start)
    OBVIOUS
  <2>2. outer.start + (inner.start + i) = both.start + i
    OBVIOUS
  <2> QED
    BY <1>1, <2>1, <2>2
<1> HIDE DEF both, n
<1>6. Slice(once, inner) = Slice(text, both)
  BY <1>3, <1>4, <1>5, SeqEqual
<1> QED
  BY <1>6 DEF once, both

-----------------------------------------------------------------------------
(* Sentences *)

\* Where a sentence that begins at an offset may end.
Ends(text, start) ==
    {end \in (start + 1)..Len(text) :
       \/ end = Len(text) \/ text[end + 1] = LineEnd
       \/ end > start + 1 /\ text[end] = "." /\ text[end + 1] \in Blank}

\* It ends at the first of them.
LEMMA SentenceEndIsFirst ==
    ASSUME NEW text \in Seq(STRING), NEW start \in 0..(Len(text) - 1)
    PROVE  /\ SentenceEnd(text, start) \in Ends(text, start)
           /\ SentenceEnd(text, start) \in (start + 1)..Len(text)
           /\ \A end \in Ends(text, start) : SentenceEnd(text, start) <= end
<1> DEFINE ends == Ends(text, start)
<1>1. /\ ends \subseteq (start + 1)..Len(text) /\ Len(text) \in ends
      /\ Len(text) \in Nat /\ start \in Nat
  BY DEF Ends
<1>2. SentenceEnd(text, start) = CHOOSE end \in ends : \A other \in ends : end <= other
  BY DEF SentenceEnd, Ends
<1> HIDE DEF ends
<1>3. IsFiniteSet(ends) /\ ends \subseteq Int /\ ends # {}
  <2>1. IsFiniteSet((start + 1)..Len(text)) /\ ends \in SUBSET ((start + 1)..Len(text))
    BY <1>1, FS_Interval
  <2>2. IsFiniteSet(ends)
    BY <2>1, FS_Subset
  <2> QED
    BY <1>1, <2>2
<1>4. \E end \in ends : \A other \in ends : end <= other
  BY <1>3, Extremes
<1> QED
  BY <1>1, <1>2, <1>4 DEF ends

\* One sentence of a text.
IsSentence(text, sentence) ==
    /\ sentence.start \in 0..(Len(text) - 1)
    /\ text[sentence.start + 1] \notin Blank
    /\ sentence.end = SentenceEnd(text, sentence.start)

\* The next sentence is one, and nothing visible is left out.
LEMMA NextIsASentence ==
    ASSUME NEW text \in Seq(STRING), NEW from \in 0..Len(text), Visible(text, from) # {}
    PROVE  /\ IsSentence(text, NextSentence(text, from))
           /\ NextSentence(text, from) \in [start : Nat, end : Nat]
           /\ from <= NextSentence(text, from).start
           /\ NextSentence(text, from).end \in (from + 1)..Len(text)
<1> DEFINE seen == Visible(text, from)
           first == CHOOSE at \in seen : \A other \in seen : at <= other
<1>1. /\ seen \subseteq from..(Len(text) - 1) /\ \A at \in seen : text[at + 1] \notin Blank
      /\ Len(text) \in Nat
  BY DEF Visible
<1>2. NextSentence(text, from) = [start |-> first, end |-> SentenceEnd(text, first)]
  BY DEF NextSentence
<1> HIDE DEF seen
<1>3. IsFiniteSet(seen) /\ seen \subseteq Int
  <2> DEFINE last == Len(text) - 1
  <2>1. from \in Int /\ last \in Int /\ seen \in SUBSET (from..last)
    BY <1>1
  <2> HIDE DEF last
  <2>2. IsFiniteSet(from..last)
    BY <2>1, FS_Interval
  <2>3. IsFiniteSet(seen)
    BY <2>1, <2>2, FS_Subset
  <2> QED
    BY <1>1, <2>3
<1>4. first \in seen
  <2>1. \E at \in seen : \A other \in seen : at <= other
    BY <1>3, Extremes DEF seen
  <2> QED
    BY <2>1
<1> HIDE DEF first
<1>5. first \in 0..(Len(text) - 1) /\ from <= first /\ text[first + 1] \notin Blank
  BY <1>1, <1>4
<1>6. SentenceEnd(text, first) \in (first + 1)..Len(text)
  BY <1>5, SentenceEndIsFirst
<1> QED
  BY <1>2, <1>5, <1>6 DEF IsSentence

\* The sentences left, by those left after the next.
SpansLeft(text, spans, from) ==
    IF Visible(text, from) = {}
      THEN <<>>
      ELSE <<NextSentence(text, from)>> \o spans[NextSentence(text, from).end]

IsSpans(text, spans) == spans = [from \in 0..Len(text) |-> SpansLeft(text, spans, from)]

\* The recursion has a solution: from the end of the text backwards.
LEMMA SpansEquation ==
    ASSUME NEW text \in Seq(STRING)
    PROVE  IsSpans(text, SpansFrom(text))
<1> DEFINE n == Len(text)
           Solves(f, m) == f = [from \in m..n |-> SpansLeft(text, f, from)]
           good == {m \in 0..n : \E f : Solves(f, m)}
<1>1. n \in Nat
  OBVIOUS
<1>2. ASSUME NEW m \in 0..n, \A k \in (m + 1)..n : k \in good
      PROVE  m \in good
  <2>1. \E f : DOMAIN f = (m + 1)..n /\ \A from \in (m + 1)..n : f[from] = SpansLeft(text, f, from)
    <3>1. CASE m = n
      <4> DEFINE f == [from \in (m + 1)..n |-> <<>>]
      <4>1. (m + 1)..n = {}
        BY <1>1, <3>1
      <4>2. DOMAIN f = (m + 1)..n
        OBVIOUS
      <4> HIDE DEF f
      <4> QED
        BY <4>1, <4>2
    <3>2. CASE m # n
      <4>1. m + 1 \in (m + 1)..n
        BY <1>1, <3>2
      <4>2. PICK f : Solves(f, m + 1)
        BY <1>2, <4>1
      <4>3. DOMAIN f = (m + 1)..n /\ \A from \in (m + 1)..n : f[from] = SpansLeft(text, f, from)
        BY Zenon, <4>2
      <4> QED
        BY <4>3
    <3> QED
      BY <3>1, <3>2
  <2>2. PICK f : DOMAIN f = (m + 1)..n /\ \A from \in (m + 1)..n : f[from] = SpansLeft(text, f, from)
    BY <2>1
  <2> DEFINE g == [from \in m..n |-> SpansLeft(text, f, from)]
  <2>3. \A from \in (m + 1)..n : from \in m..n /\ g[from] = f[from]
    BY <1>1, <2>2
  <2>4. ASSUME NEW from \in m..n
        PROVE  g[from] = SpansLeft(text, g, from)
    <3>1. g[from] = SpansLeft(text, f, from)
      OBVIOUS
    <3> HIDE DEF g
    <3>2. CASE Visible(text, from) = {}
      BY <3>1, <3>2 DEF SpansLeft
    <3>3. CASE Visible(text, from) # {}
      <4>1. from \in 0..Len(text)
        BY <1>1
      <4>2. NextSentence(text, from).end \in (from + 1)..Len(text)
        BY <3>3, <4>1, NextIsASentence
      <4>3. NextSentence(text, from).end \in (m + 1)..n
        BY <1>1, <4>2
      <4>4. g[NextSentence(text, from).end] = f[NextSentence(text, from).end]
        BY <2>3, <4>3
      <4> QED
        BY <3>1, <4>4 DEF SpansLeft
    <3> QED
      BY <3>2, <3>3
  <2>5. DOMAIN g = m..n /\ g = [from \in m..n |-> g[from]]
    OBVIOUS
  <2> HIDE DEF g
  <2>6. g = [from \in m..n |-> SpansLeft(text, g, from)]
    BY <2>4, <2>5
  <2> QED
    BY <2>6
<1>3. 0..n \subseteq good
  <2> HIDE DEF good, n
  <2> QED
    BY <1>1, <1>2, DownFromTheEnd
<1>4. PICK f : Solves(f, 0)
  <2>1. 0 \in 0..n
    BY <1>1
  <2> HIDE DEF n
  <2>2. 0 \in good
    BY <1>3, <2>1
  <2> QED
    BY <2>2
<1>5. IsSpans(text, f)
  BY <1>4 DEF IsSpans
<1>6. SpansFrom(text) = CHOOSE spans : IsSpans(text, spans)
  BY DEF SpansFrom, IsSpans, SpansLeft
<1> QED
  BY <1>5, <1>6

\* Sentences of a text from an offset on, one after another, and some if there is any to see.
InOrder(text, spans, from) ==
    /\ spans \in Seq([start : Nat, end : Nat])
    /\ \A i \in 1..Len(spans) : IsSentence(text, spans[i]) /\ from <= spans[i].start
    /\ \A i, j \in 1..Len(spans) : i < j => spans[i].end <= spans[j].start
    /\ Len(spans) = 0 <=> Visible(text, from) = {}

\* One more in front.
LEMMA OneMoreInFront ==
    ASSUME NEW text \in Seq(STRING), NEW from \in 0..Len(text), NEW spans,
           NEW next \in [start : Nat, end : Nat], IsSentence(text, next), from <= next.start,
           next.start <= next.end, InOrder(text, spans, next.end), Visible(text, from) # {}
    PROVE  InOrder(text, <<next>> \o spans, from)
<1> DEFINE n == Len(spans)
           all == <<next>> \o spans
<1>1. /\ spans \in Seq([start : Nat, end : Nat]) /\ n \in Nat
      /\ \A i \in 1..n : spans[i] \in [start : Nat, end : Nat]
  <2> DEFINE spansOf == [start : Nat, end : Nat]
  <2> HIDE DEF spansOf
  <2>1. spans \in Seq(spansOf)
    BY DEF InOrder, spansOf
  <2>2. Len(spans) \in Nat /\ \A i \in 1..Len(spans) : spans[i] \in spansOf
    BY <2>1
  <2> QED
    BY <2>1, <2>2 DEF spansOf
<1>2. /\ all \in Seq([start : Nat, end : Nat])
      /\ Len(all) = n + 1
      /\ all[1] = next
      /\ \A i \in 2..(n + 1) : all[i] = spans[i - 1]
  <2>1. <<next>> \in Seq([start : Nat, end : Nat]) /\ Len(<<next>>) = 1 /\ <<next>>[1] = next
    OBVIOUS
  <2> DEFINE front == <<next>>
  <2> HIDE DEF front
  <2>2. /\ front \o spans \in Seq([start : Nat, end : Nat])
        /\ Len(front \o spans) = n + 1
        /\ (front \o spans)[1] = front[1]
        /\ \A i \in 2..(n + 1) : (front \o spans)[i] = spans[i - 1]
    BY <1>1, <2>1 DEF front
  <2> QED
    BY <2>1, <2>2 DEF front
<1> HIDE DEF all, n
<1>3. /\ \A i \in 1..n : IsSentence(text, spans[i]) /\ next.end <= spans[i].start
      /\ \A i, j \in 1..n : i < j => spans[i].end <= spans[j].start
  BY DEF InOrder, n
<1>4. \A i \in 1..(n + 1) : i = 1 \/ (i \in 2..(n + 1) /\ i - 1 \in 1..n)
  BY <1>1
<1>5. ASSUME NEW i \in 1..(n + 1)
      PROVE  IsSentence(text, all[i]) /\ from <= all[i].start
  <2>1. CASE i = 1
    BY <1>2, <2>1
  <2>2. CASE i \in 2..(n + 1) /\ i - 1 \in 1..n
    <3>1. IsSentence(text, spans[i - 1]) /\ next.end <= spans[i - 1].start /\ spans[i - 1].start \in Nat
      BY <1>1, <1>3, <2>2
    <3>2. from \in Nat /\ next.start \in Nat /\ next.end \in Nat
      OBVIOUS
    <3> QED
      BY <1>2, <2>2, <3>1, <3>2
  <2> QED
    BY <1>4, <2>1, <2>2
<1>6. ASSUME NEW i \in 1..(n + 1), NEW j \in 1..(n + 1), i < j
      PROVE  all[i].end <= all[j].start
  <2>1. j \in 2..(n + 1) /\ j - 1 \in 1..n
    BY <1>1, <1>6
  <2>2. CASE i = 1
    BY <1>2, <1>3, <2>1, <2>2
  <2>3. CASE i \in 2..(n + 1) /\ i - 1 \in 1..n
    <3>1. i - 1 < j - 1
      BY <1>1, <1>6, <2>1, <2>3
    <3>2. spans[i - 1].end <= spans[j - 1].start
      BY <1>3, <2>1, <2>3, <3>1
    <3> QED
      BY <1>2, <2>1, <2>3, <3>2
  <2> QED
    BY <1>4, <2>2, <2>3
<1>7. Len(all) # 0
  BY <1>1, <1>2
<1>8. InOrder(text, all, from)
  BY <1>2, <1>5, <1>6, <1>7 DEF InOrder
<1> QED
  BY <1>8 DEF all

\* The spans of a text are its sentences, in order.
LEMMA SpansAreInOrder ==
    ASSUME NEW text \in Seq(STRING)
    PROVE  \A from \in 0..Len(text) : InOrder(text, SpansFrom(text)[from], from)
<1> DEFINE n == Len(text)
           spans == SpansFrom(text)
           good == {m \in 0..n : InOrder(text, spans[m], m)}
<1>1. n \in Nat /\ IsSpans(text, spans)
  BY SpansEquation
<1>2. ASSUME NEW m \in 0..n, \A k \in (m + 1)..n : k \in good
      PROVE  InOrder(text, spans[m], m)
  <2>1. spans[m] = SpansLeft(text, spans, m)
    BY <1>1 DEF IsSpans
  <2> HIDE DEF spans
  <2>2. CASE Visible(text, m) = {}
    <3>1. spans[m] = <<>>
      BY <2>1, <2>2 DEF SpansLeft
    <3> QED
      BY <2>2, <3>1 DEF InOrder
  <2>3. CASE Visible(text, m) # {}
    <3> DEFINE next == NextSentence(text, m)
    <3>1. /\ IsSentence(text, next) /\ next \in [start : Nat, end : Nat]
          /\ m <= next.start /\ next.end \in (m + 1)..n
      BY <2>3, NextIsASentence
    <3>2. next.start <= next.end
      <4> HIDE DEF next
      <4>1. next.end \in (next.start + 1)..n
        BY <3>1, SentenceEndIsFirst DEF IsSentence
      <4> QED
        BY <3>1, <4>1
    <3>3. InOrder(text, spans[next.end], next.end)
      BY <1>2, <3>1
    <3>4. spans[m] = <<next>> \o spans[next.end]
      BY <2>1, <2>3 DEF SpansLeft
    <3> HIDE DEF next
    <3> QED
      BY <2>3, <3>1, <3>2, <3>3, <3>4, OneMoreInFront
  <2> QED
    BY <2>2, <2>3
<1>3. 0..n \subseteq good
  <2>1. \A m \in 0..n : (\A k \in (m + 1)..n : k \in good) => m \in good
    BY <1>2
  <2> HIDE DEF good, n
  <2> QED
    BY <1>1, <2>1, DownFromTheEnd
<1> QED
  BY <1>3

\* A sentence is one of its own.
LEMMA OneSentence ==
    ASSUME NEW text \in Seq(STRING), NEW sentence, IsSentence(text, sentence)
    PROVE  Len(SentenceSpans(Slice(text, sentence))) = 1
<1> DEFINE at == sentence.start
           quote == Slice(text, sentence)
           n == sentence.end - sentence.start
<1>1. /\ at \in 0..(Len(text) - 1) /\ text[at + 1] \notin Blank
      /\ sentence.end \in (at + 1)..Len(text)
      /\ sentence.end \in Ends(text, at)
      /\ \A end \in Ends(text, at) : sentence.end <= end
  BY SentenceEndIsFirst DEF IsSentence
<1>2. n \in Nat \ {0} /\ sentence.end = at + n /\ Len(text) \in Nat
  BY <1>1
<1>3. /\ quote \in Seq(STRING) /\ Len(quote) = n
      /\ \A i \in 1..n : quote[i] = text[at + i]
  <2>1. sentence.end \in 0..Len(text) /\ sentence.start \in 0..sentence.end
    BY <1>1, <1>2
  <2> QED
    BY <2>1, SliceOf
<1> HIDE DEF quote, n
<1>4. quote[1] \notin Blank
  BY <1>1, <1>2, <1>3
<1>5. SentenceEnd(quote, 0) = n
  <2>1. /\ SentenceEnd(quote, 0) \in Ends(quote, 0)
        /\ SentenceEnd(quote, 0) \in 1..n
    <3>1. 0 \in 0..(Len(quote) - 1)
      BY <1>2, <1>3
    <3> QED
      BY <1>3, <3>1, SentenceEndIsFirst
  <2> DEFINE e == SentenceEnd(quote, 0)
  <2>2. SUFFICES ASSUME e # n
                 PROVE  FALSE
    OBVIOUS
  <2>3. \/ quote[e + 1] = LineEnd
        \/ e > 1 /\ quote[e] = "." /\ quote[e + 1] \in Blank
    BY <1>3, <2>1, <2>2 DEF Ends
  <2> HIDE DEF e
  <2>4. e \in 1..n /\ e + 1 \in 1..n
    BY <1>2, <2>1, <2>2 DEF e
  <2>5. quote[e] = text[at + e] /\ quote[e + 1] = text[(at + e) + 1]
    BY <1>1, <1>3, <2>4
  <2>6. at + e \in (at + 1)..Len(text) /\ (e > 1 => at + e > at + 1) /\ at + e < at + n
    BY <1>1, <1>2, <2>4
  <2>7. at + e \in Ends(text, at)
    BY <2>3, <2>5, <2>6 DEF Ends
  <2> QED
    BY <1>1, <1>2, <2>6, <2>7
<1> DEFINE next == NextSentence(quote, 0)
<1>6. 0 \in Visible(quote, 0)
  BY <1>2, <1>3, <1>4 DEF Visible
<1>7. next.start = 0 /\ next.end = n
  <2>1. \A other \in Visible(quote, 0) : 0 <= other /\ other \in Nat
    BY DEF Visible
  <2>2. (CHOOSE first \in Visible(quote, 0) : \A other \in Visible(quote, 0) : first <= other) = 0
    BY <1>6, <2>1
  <2> QED
    BY <1>5, <2>2 DEF NextSentence
<1>8. Visible(quote, n) = {}
  BY <1>2, <1>3 DEF Visible
<1>9. IsSpans(quote, SpansFrom(quote))
  BY <1>3, SpansEquation
<1>10. SpansFrom(quote)[n] = <<>>
  <2>1. n \in 0..Len(quote)
    BY <1>2, <1>3
  <2>2. SpansFrom(quote)[n] = SpansLeft(quote, SpansFrom(quote), n)
    BY <1>9, <2>1 DEF IsSpans
  <2> QED
    BY <1>8, <2>2 DEF SpansLeft
<1>11. SpansFrom(quote)[0] = <<next>> \o <<>>
  <2>1. 0 \in 0..Len(quote)
    BY <1>2, <1>3
  <2>2. SpansFrom(quote)[0] = SpansLeft(quote, SpansFrom(quote), 0)
    BY <1>9, <2>1 DEF IsSpans
  <2> QED
    BY <1>6, <1>7, <1>10, <2>2 DEF SpansLeft
<1> HIDE DEF next
<1>12. Len(<<next>> \o <<>>) = 1
  OBVIOUS
<1> QED
  BY <1>11, <1>12 DEF SentenceSpans, quote

-----------------------------------------------------------------------------
(* Quotes *)

\* A sentence lies in its text.
LEMMA SentenceIsInside ==
    ASSUME NEW text \in Seq(STRING), NEW sentence, IsSentence(text, sentence)
    PROVE  /\ sentence.start \in 0..(Len(text) - 1)
           /\ sentence.end \in (sentence.start + 1)..Len(text)
BY SentenceEndIsFirst DEF IsSentence

\* Something to quote: it begins with what can be seen, and is a sentence or under the cap.
IsWindow(text, w) ==
    /\ w \in [start : Nat, end : Nat]
    /\ w.end \in (w.start + 1)..Len(text)
    /\ text[w.start + 1] \notin Blank
    /\ IsSentence(text, w) \/ w.end - w.start <= MaxQuoteChars

\* The windows, by the sentences they begin and end with.
WindowOf(spans, p) == [start |-> spans[p[1]].start, end |-> spans[p[2]].end]

Windowed(spans) ==
    {w \in (DOMAIN spans) \X (DOMAIN spans) :
       /\ w[1] <= w[2] /\ w[2] < w[1] + MaxQuoteSentences
       /\ w[1] = w[2] \/ spans[w[2]].end - spans[w[1]].start <= MaxQuoteChars}

\* A text has finitely many windows, and one if there is anything to see in it.
LEMMA WindowsOfAText ==
    ASSUME NEW text \in Seq(STRING)
    PROVE  /\ \A w \in QuoteWindows(text) : IsWindow(text, w)
           /\ IsFiniteSet(QuoteWindows(text))
           /\ QuoteWindows(text) = {} => Visible(text, 0) = {}
<1> DEFINE spans == SentenceSpans(text)
           n == Len(spans)
           windows == QuoteWindows(text)
           pairs == Windowed(spans)
<1>1. InOrder(text, spans, 0)
  <2>1. 0 \in 0..Len(text)
    OBVIOUS
  <2> QED
    BY <2>1, SpansAreInOrder DEF SentenceSpans
<1>2. windows = {WindowOf(spans, p) : p \in pairs}
  BY DEF QuoteWindows, WindowOf, Windowed
<1> HIDE DEF spans, windows
<1>3. n \in Nat /\ DOMAIN spans = 1..n
  <2> DEFINE spansOf == [start : Nat, end : Nat]
  <2> HIDE DEF spansOf
  <2>1. spans \in Seq(spansOf)
    BY <1>1 DEF InOrder, spansOf
  <2> QED
    BY <2>1
<1>4. \A i \in 1..n : IsSentence(text, spans[i])
  BY <1>1 DEF InOrder
<1>5. \A i, j \in 1..n : i < j => spans[i].end <= spans[j].start
  BY <1>1 DEF InOrder
<1> HIDE DEF n
<1>6. ASSUME NEW p \in pairs
      PROVE  IsWindow(text, WindowOf(spans, p))
  <2> DEFINE i == p[1]
             j == p[2]
  <2>1. /\ i \in 1..n /\ j \in 1..n /\ i <= j
        /\ i = j \/ spans[j].end - spans[i].start <= MaxQuoteChars
    BY <1>3 DEF Windowed
  <2> HIDE DEF i, j
  <2>2. IsSentence(text, spans[i]) /\ IsSentence(text, spans[j])
    BY <1>4, <2>1
  <2>3. /\ spans[i].start \in 0..(Len(text) - 1) /\ spans[i].end \in (spans[i].start + 1)..Len(text)
        /\ spans[j].start \in 0..(Len(text) - 1) /\ spans[j].end \in (spans[j].start + 1)..Len(text)
        /\ Len(text) \in Nat
    BY <2>2, SentenceIsInside
  <2> DEFINE w == WindowOf(spans, p)
  <2>4. w = [start |-> spans[i].start, end |-> spans[j].end]
    BY DEF WindowOf, i, j
  <2> HIDE DEF w
  <2>5. w.start = spans[i].start /\ w.end = spans[j].end
    BY <2>4
  <2>6. w \in [start : Nat, end : Nat]
    BY <2>3, <2>4
  <2>7. spans[i].end <= spans[j].end
    <3>1. CASE i = j
      BY <2>3, <3>1
    <3>2. CASE i < j
      BY <1>5, <2>1, <2>3, <3>2
    <3> QED
      BY <1>3, <2>1, <3>1, <3>2
  <2>8. w.end \in (w.start + 1)..Len(text)
    BY <2>3, <2>5, <2>7
  <2>9. text[w.start + 1] \notin Blank
    BY <2>2, <2>5 DEF IsSentence
  <2>10. IsSentence(text, w) \/ w.end - w.start <= MaxQuoteChars
    <3>1. CASE i = j
      BY <2>2, <2>5, <3>1 DEF IsSentence
    <3>2. CASE i # j
      BY <2>1, <2>5, <3>2
    <3> QED
      BY <3>1, <3>2
  <2> QED
    BY <2>6, <2>8, <2>9, <2>10 DEF IsWindow, w
<1>7. IsFiniteSet(windows)
  <2>1. IsFiniteSet(1..n)
    BY <1>3, FS_Interval
  <2>2. IsFiniteSet((1..n) \X (1..n))
    BY <2>1, FS_Product
  <2>3. pairs \in SUBSET ((1..n) \X (1..n))
    BY <1>3 DEF Windowed
  <2>4. IsFiniteSet(pairs)
    BY <2>2, <2>3, FS_Subset
  <2> DEFINE f == [p \in pairs |-> WindowOf(spans, p)]
  <2> HIDE DEF pairs
  <2>5. f \in Surjection(pairs, windows)
    BY <1>2 DEF Surjection
  <2> HIDE DEF f
  <2> QED
    BY <2>4, <2>5, FS_Surjection
<1>8. windows = {} => Visible(text, 0) = {}
  <2>1. SUFFICES ASSUME Visible(text, 0) # {}
                 PROVE  windows # {}
    OBVIOUS
  <2>2. n # 0
    BY <1>1, <2>1 DEF InOrder, n
  <2>3. 1 \in 1..n
    BY <1>3, <2>2
  <2> DEFINE p == <<1, 1>>
  <2>4. p \in pairs
    <3>1. p \in (1..n) \X (1..n) /\ p[1] = 1 /\ p[2] = 1
      BY <2>3
    <3> HIDE DEF p
    <3>2. MaxQuoteSentences \in Nat \ {0}
      BY QuotingAssumption
    <3> QED
      BY <1>3, <3>1, <3>2 DEF Windowed
  <2> HIDE DEF p, pairs
  <2> QED
    BY <1>2, <2>4
<1>9. \A w \in windows : IsWindow(text, w)
  BY <1>2, <1>6
<1> QED
  BY <1>7, <1>8, <1>9 DEF windows

\* The windows in the order they are preferred.
Preferred(text, terms) ==
    LET covered(w) == CoveredTerms(Slice(text, w), terms)
        length(w) == w.end - w.start
    IN  {p \in QuoteWindows(text) \X QuoteWindows(text) :
           \/ covered(p[1]) > covered(p[2])
           \/ covered(p[1]) = covered(p[2]) /\ length(p[1]) < length(p[2])
           \/ covered(p[1]) = covered(p[2]) /\ length(p[1]) = length(p[2]) /\ p[1].start < p[2].start}

\* What is quoted is a window, if there is one: no two are preferred alike.
LEMMA QuoteIsAWindow ==
    ASSUME NEW text \in Seq(STRING), NEW terms, IsFiniteSet(terms), QuoteWindows(text) # {}
    PROVE  SelectQuoteSpan(text, terms) \in QuoteWindows(text)
<1> DEFINE T == QuoteWindows(text)
           before == Preferred(text, terms)
           covered(w) == CoveredTerms(Slice(text, w), terms)
           length(w) == w.end - w.start
           better(v, w) == \/ covered(v) > covered(w)
                           \/ covered(v) = covered(w) /\ length(v) < length(w)
                           \/ covered(v) = covered(w) /\ length(v) = length(w) /\ v.start < w.start
<1>1. /\ IsFiniteSet(T)
      /\ \A w \in T : w \in [start : Nat, end : Nat]
  BY WindowsOfAText DEF IsWindow
<1>2. \A w : covered(w) \in Nat
  <2> SUFFICES ASSUME NEW w
               PROVE  covered(w) \in Nat
    OBVIOUS
  <2>1. terms \intersect TokensIn(Slice(text, w)) \in SUBSET terms
    OBVIOUS
  <2>2. IsFiniteSet(terms \intersect TokensIn(Slice(text, w)))
    BY <2>1, FS_Subset
  <2> QED
    BY <2>2, FS_CardinalityType DEF CoveredTerms
<1>3. \A v, w \in T : <<v, w>> \in before <=> better(v, w)
  BY DEF Preferred
<1>4. SelectQuoteSpan(text, terms) = CHOOSE w \in T : \A v \in T : ~better(v, w)
  BY DEF SelectQuoteSpan
<1> HIDE DEF T, before, covered
<1>5. IsOrder(before, T)
  <2>1. \A w \in T : w.start \in Nat /\ length(w) \in Int /\ covered(w) \in Nat
    BY <1>1, <1>2
  <2>2. \A v, w \in T : v.start = w.start /\ length(v) = length(w) => v = w
    <3> SUFFICES ASSUME NEW v \in T, NEW w \in T, v.start = w.start, length(v) = length(w)
                 PROVE  v = w
      OBVIOUS
    <3>1. v \in [start : Nat, end : Nat] /\ w \in [start : Nat, end : Nat]
      BY <1>1
    <3>2. v.end = w.end
      BY <3>1
    <3> QED
      BY <3>1, <3>2
  <2> HIDE DEF length
  <2>3. \A w \in T : ~better(w, w)
    BY <2>1
  <2>4. \A v, w \in T : v # w => better(v, w) \/ better(w, v)
    BY <2>1, <2>2
  <2>5. \A u, v, w \in T : better(u, v) /\ better(v, w) => better(u, w)
    BY <2>1
  <2> HIDE DEF better
  <2> QED
    BY <1>3, <2>3, <2>4, <2>5 DEF IsOrder
<1>6. \E w \in T : \A v \in T : <<v, w>> \notin before
  BY <1>1, <1>5, AnOrderHasAFirst DEF T
<1> HIDE DEF better
<1>7. \E w \in T : \A v \in T : ~better(v, w)
  BY <1>3, <1>6
<1> QED
  BY <1>4, <1>7 DEF T

AllBlank(text) == \A i \in DOMAIN text : text[i] \in Blank

\* What is quoted of a text lies in it, shows something if the text does, and is one sentence when
\* it is past the cap.
LEMMA QuoteOfAText ==
    ASSUME NEW text \in Seq(STRING), NEW terms, IsFiniteSet(terms)
    PROVE  LET span == SelectQuoteSpan(text, terms)
               quote == Slice(text, span)
           IN  /\ span.end \in 0..Len(text) /\ span.start \in 0..span.end
               /\ quote \in Seq(STRING)
               /\ AllBlank(quote) => AllBlank(text)
               /\ Len(quote) > MaxQuoteChars => Len(SentenceSpans(quote)) = 1
<1> DEFINE span == SelectQuoteSpan(text, terms)
           quote == Slice(text, span)
<1>1. Len(text) \in Nat /\ DOMAIN text = 1..Len(text) /\ MaxQuoteChars \in Nat
  BY QuotingAssumption
<1>2. CASE QuoteWindows(text) = {}
  <2>1. span = [start |-> 0, end |-> 0]
    BY <1>2 DEF SelectQuoteSpan
  <2>2. span.end = 0 /\ span.start = 0
    BY <2>1
  <2> HIDE DEF span
  <2>3. quote \in Seq(STRING) /\ Len(quote) = 0
    BY <1>1, <2>2, SliceOf
  <2>4. AllBlank(text)
    <3>1. Visible(text, 0) = {}
      BY <1>2, WindowsOfAText
    <3>2. SUFFICES ASSUME NEW i \in 1..Len(text), text[i] \notin Blank
                   PROVE  FALSE
      BY <1>1 DEF AllBlank
    <3> DEFINE at == i - 1
    <3>3. at \in 0..(Len(text) - 1) /\ at + 1 = i
      BY <1>1
    <3> HIDE DEF at
    <3> QED
      BY <3>1, <3>2, <3>3 DEF Visible
  <2> HIDE DEF quote
  <2>5. ~(Len(quote) > MaxQuoteChars)
    BY <1>1, <2>3
  <2>6. span.end \in 0..Len(text) /\ span.start \in 0..span.end
    BY <1>1, <2>2
  <2> QED
    BY <2>3, <2>4, <2>5, <2>6 DEF quote, span
<1>3. CASE QuoteWindows(text) # {}
  <2>1. IsWindow(text, span)
    BY <1>3, QuoteIsAWindow, WindowsOfAText
  <2> HIDE DEF span
  <2>2. /\ span.start \in Nat /\ span.end \in Nat
        /\ span.end \in (span.start + 1)..Len(text)
        /\ text[span.start + 1] \notin Blank
        /\ IsSentence(text, span) \/ span.end - span.start <= MaxQuoteChars
    BY <2>1 DEF IsWindow
  <2>3. span.end \in 0..Len(text) /\ span.start \in 0..span.end
    BY <1>1, <2>2
  <2>4. /\ quote \in Seq(STRING) /\ Len(quote) = span.end - span.start
        /\ \A i \in 1..(span.end - span.start) : quote[i] = text[span.start + i]
    BY <2>3, SliceOf
  <2>5. Len(quote) > MaxQuoteChars => Len(SentenceSpans(quote)) = 1
    <3>1. SUFFICES ASSUME Len(quote) > MaxQuoteChars
                   PROVE  Len(SentenceSpans(quote)) = 1
      OBVIOUS
    <3>2. IsSentence(text, span)
      BY <1>1, <2>2, <2>4, <3>1
    <3> QED
      BY <3>2, OneSentence
  <2> HIDE DEF quote
  <2>6. ~AllBlank(quote)
    <3>1. 1 \in 1..(span.end - span.start)
      BY <1>1, <2>2
    <3>2. quote[1] \notin Blank
      BY <2>2, <2>4, <3>1
    <3>3. 1 \in DOMAIN quote
      BY <2>4, <3>1
    <3> QED
      BY <3>2, <3>3 DEF AllBlank
  <2> QED
    BY <2>3, <2>4, <2>5, <2>6 DEF quote, span
<1> QED
  BY <1>2, <1>3

\* A citation that holds: it is found in its document, and past the cap it is one sentence.
Holds(c) ==
    /\ c.quote \in Seq(STRING)
    /\ c.document_id \in DOMAIN DocumentText
    /\ VerifyCitation(c, DocumentText[c.document_id])
    /\ Len(c.quote) > MaxQuoteChars => Len(SentenceSpans(c.quote)) = 1

\* The citation of a passage holds, and shows something if the passage does.
LEMMA CitationHolds ==
    ASSUME NEW r \in Passages, NEW terms, IsFiniteSet(terms)
    PROVE  /\ Holds(BuildCitation(r, terms))
           /\ AllBlank(BuildCitation(r, terms).quote) => AllBlank(r.text)
           /\ Located(r)
<1> DEFINE document == DocumentText[r.document_id]
           outer == [start |-> r.start_offset, end |-> r.end_offset]
           inner == SelectQuoteSpan(r.text, terms)
           both == [start |-> outer.start + inner.start, end |-> outer.start + inner.end]
           c == BuildCitation(r, terms)
<1>1. /\ r.document_id \in DOMAIN DocumentText
      /\ document \in Seq(STRING)
      /\ outer.end \in 0..Len(document) /\ outer.start \in 0..outer.end
      /\ r.text = Slice(document, outer)
  BY AnsweringAssumption
<1>2. c = [chunk_id |-> r.chunk_id, document_id |-> r.document_id, quote |-> Slice(r.text, inner),
           start_offset |-> r.start_offset + inner.start, end_offset |-> r.start_offset + inner.end]
  BY DEF BuildCitation
<1>3. /\ c.document_id = r.document_id /\ c.quote = Slice(r.text, inner)
      /\ c.start_offset = both.start /\ c.end_offset = both.end
  BY <1>2
<1> HIDE DEF document, inner, c
<1>4. r.text \in Seq(STRING) /\ Len(r.text) = outer.end - outer.start
  <2> HIDE DEF outer
  <2> QED
    BY <1>1, SliceOf
<1>5. /\ inner.end \in 0..Len(r.text) /\ inner.start \in 0..inner.end
      /\ Slice(r.text, inner) \in Seq(STRING)
      /\ AllBlank(Slice(r.text, inner)) => AllBlank(r.text)
      /\ Len(Slice(r.text, inner)) > MaxQuoteChars => Len(SentenceSpans(Slice(r.text, inner))) = 1
  BY <1>4, QuoteOfAText DEF inner
<1>6. Slice(r.text, inner) = Slice(document, both)
  <2>1. inner.end \in 0..(outer.end - outer.start)
    BY <1>4, <1>5
  <2> HIDE DEF outer
  <2> QED
    BY <1>1, <1>5, <2>1, SliceOfSlice
<1>7. VerifyCitation(c, document)
  <2>1. Len(document) \in Nat /\ Len(r.text) \in Nat
    BY <1>1, <1>4
  <2> DEFINE long == Len(document)
             part == Len(r.text)
  <2>2. 0 <= both.start /\ both.start <= both.end /\ both.end <= long
    <3>1. /\ long \in Nat /\ part \in Nat /\ part = outer.end - outer.start
          /\ outer.end \in 0..long /\ outer.start \in 0..outer.end
          /\ inner.end \in 0..part /\ inner.start \in 0..inner.end
      BY <1>1, <1>4, <1>5, <2>1
    <3> HIDE DEF long, part
    <3> QED
      BY <3>1
  <2> HIDE DEF both
  <2>3. Slice(document, [start |-> c.start_offset, end |-> c.end_offset]) = c.quote
    BY <1>3, <1>6 DEF both
  <2> QED
    BY <1>3, <2>2, <2>3 DEF VerifyCitation
<1>8. Holds(c)
  BY <1>1, <1>3, <1>5, <1>7 DEF Holds, document
<1>9. Located(r)
  BY <1>4 DEF Located
<1> QED
  BY <1>3, <1>5, <1>8, <1>9 DEF c

-----------------------------------------------------------------------------
(* Part numbers *)

\* Where a part number begins.
NumberAt(text, i) ==
    /\ i \in 1..(Len(text) - 1)
    /\ text[i] = "P" /\ text[i + 1] \in Tails
    /\ Boundary(text, i - 1) \/ text[i - 1] = "P"
    /\ Boundary(text, i + 2)

LEMMA NumbersOfAText ==
    ASSUME NEW text
    PROVE  \A number : number \in PartNumbersIn(text)
                         <=> \E i : NumberAt(text, i) /\ number = <<text[i], text[i + 1]>>
BY DEF PartNumbersIn, NumberAt

\* What a joined answer is made of.
Letters == STRING \union {LineEnd}

\* Between two quotes no part number arises.
LEMMA NoNumberArises ==
    ASSUME NEW a \in Seq(Letters), NEW b \in Seq(Letters)
    PROVE  /\ a \o (AnswerSeparator \o b) \in Seq(Letters)
           /\ PartNumbersIn(a \o (AnswerSeparator \o b)) \subseteq PartNumbersIn(a) \union PartNumbersIn(b)
<1> DEFINE t == a \o (AnswerSeparator \o b)
           m == Len(a)
           n == Len(b)
<1>1. m \in Nat /\ n \in Nat /\ DOMAIN a = 1..m /\ DOMAIN b = 1..n
  OBVIOUS
<1>2. /\ t \in Seq(Letters) /\ Len(t) = m + 2 + n
      /\ \A i \in 1..m : t[i] = a[i]
      /\ t[m + 1] = LineEnd /\ t[m + 2] = LineEnd
      /\ \A i \in 1..n : t[m + 2 + i] = b[i]
  <2> DEFINE sep == AnswerSeparator
             rest == sep \o b
  <2>1. sep \in Seq(Letters) /\ Len(sep) = 2 /\ sep[1] = LineEnd /\ sep[2] = LineEnd
    <3>1. LineEnd \in Letters
      BY DEF Letters
    <3>2. sep = <<LineEnd, LineEnd>>
      BY DEF AnswerSeparator
    <3> HIDE DEF sep
    <3>3. sep \in Seq(Letters)
      BY <3>1, <3>2
    <3>4. Len(sep) = 2 /\ sep[1] = LineEnd /\ sep[2] = LineEnd
      BY <3>2
    <3> QED
      BY <3>3, <3>4
  <2> HIDE DEF sep
  <2>2. /\ rest \in Seq(Letters) /\ Len(rest) = 2 + n
        /\ \A i \in 1..(2 + n) : rest[i] = IF i <= 2 THEN sep[i] ELSE b[i - 2]
    <3>1. /\ rest \in Seq(Letters) /\ Len(rest) = Len(sep) + Len(b)
          /\ \A i \in 1..(Len(sep) + Len(b)) : rest[i] = IF i <= Len(sep) THEN sep[i] ELSE b[i - Len(sep)]
      BY <2>1, ConcatProperties
    <3> HIDE DEF rest
    <3> QED
      BY <2>1, <3>1
  <2> HIDE DEF rest
  <2>3. /\ a \o rest \in Seq(Letters) /\ Len(a \o rest) = m + (2 + n)
        /\ \A i \in 1..(m + (2 + n)) : (a \o rest)[i] = IF i <= m THEN a[i] ELSE rest[i - m]
    <3> DEFINE whole == a \o rest
    <3>1. /\ whole \in Seq(Letters) /\ Len(whole) = Len(a) + Len(rest)
          /\ \A i \in 1..(Len(a) + Len(rest)) : whole[i] = IF i <= Len(a) THEN a[i] ELSE rest[i - Len(a)]
      BY <2>2, ConcatProperties
    <3> HIDE DEF whole
    <3>2. /\ whole \in Seq(Letters) /\ Len(whole) = m + (2 + n)
          /\ \A i \in 1..(m + (2 + n)) : whole[i] = IF i <= m THEN a[i] ELSE rest[i - m]
      BY <2>2, <3>1
    <3> QED
      BY <3>2 DEF whole
  <2>4. t = a \o rest
    BY DEF rest, sep
  <2> HIDE DEF t, m, n
  <2>5. \A i \in 1..m : t[i] = a[i]
    BY <1>1, <2>3, <2>4
  <2>6. t[m + 1] = rest[1] /\ t[m + 2] = rest[2]
    BY <1>1, <2>3, <2>4
  <2>7. rest[1] = LineEnd /\ rest[2] = LineEnd
    BY <1>1, <2>1, <2>2
  <2>8. \A i \in 1..n : t[m + 2 + i] = b[i]
    <3> SUFFICES ASSUME NEW i \in 1..n
                 PROVE  t[m + 2 + i] = b[i]
      OBVIOUS
    <3>1. t[m + 2 + i] = rest[2 + i]
      BY <1>1, <2>3, <2>4
    <3>2. rest[2 + i] = b[i]
      BY <1>1, <2>2
    <3> QED
      BY <3>1, <3>2
  <2> QED
    BY <1>1, <2>3, <2>4, <2>5, <2>6, <2>7, <2>8
<1>3. DOMAIN t = 1..(m + 2 + n)
  BY <1>2
<1> HIDE DEF t, m, n
<1>4. /\ LineEnd # "P" /\ LineEnd \notin Tails
      /\ \A x : x \in Blank \union {"."} => x # "P"
  BY DEF LineEnd, Tails, Blank
<1>5. ASSUME NEW i, NumberAt(t, i)
      PROVE  \/ NumberAt(a, i) /\ t[i] = a[i] /\ t[i + 1] = a[i + 1]
             \/ \E j : NumberAt(b, j) /\ t[i] = b[j] /\ t[i + 1] = b[j + 1]
  <2>1. /\ i \in 1..(m + 1 + n) /\ t[i] = "P" /\ t[i + 1] \in Tails
        /\ Boundary(t, i - 1) \/ t[i - 1] = "P"
        /\ Boundary(t, i + 2)
    BY <1>1, <1>2, <1>5 DEF NumberAt
  <2>2. i + 1 <= m \/ i >= m + 3
    <3>1. i # m /\ i # m + 1 /\ i # m + 2
      BY <1>1, <1>2, <1>4, <2>1
    <3> QED
      BY <1>1, <2>1, <3>1
  <2>3. CASE i + 1 <= m
    <3>1. i \in 1..(m - 1) /\ t[i] = a[i] /\ t[i + 1] = a[i + 1]
      BY <1>1, <1>2, <2>1, <2>3
    <3>2. Boundary(a, i - 1) \/ a[i - 1] = "P"
      <4>1. CASE i = 1
        BY <1>1, <4>1 DEF Boundary
      <4>2. CASE i # 1
        <5>1. i - 1 \in 1..m /\ t[i - 1] = a[i - 1] /\ i - 1 \in DOMAIN t
          BY <1>1, <1>2, <1>3, <3>1, <4>2
        <5> QED
          BY <1>1, <2>1, <5>1 DEF Boundary
      <4> QED
        BY <4>1, <4>2
    <3>3. Boundary(a, i + 2)
      <4>1. CASE i + 2 <= m
        <5>1. i + 2 \in 1..m /\ t[i + 2] = a[i + 2] /\ i + 2 \in DOMAIN t
          BY <1>1, <1>2, <1>3, <3>1, <4>1
        <5> QED
          BY <1>1, <2>1, <5>1 DEF Boundary
      <4>2. CASE ~(i + 2 <= m)
        BY <1>1, <3>1, <4>2 DEF Boundary
      <4> QED
        BY <4>1, <4>2
    <3> QED
      BY <2>1, <3>1, <3>2, <3>3 DEF NumberAt, m
  <2>4. CASE i >= m + 3
    <3> DEFINE j == i - (m + 2)
    <3>1. j \in 1..(n - 1) /\ m + 2 + j = i /\ i \in Int
      BY <1>1, <2>1, <2>4
    <3> HIDE DEF j
    <3>2. t[i] = b[j] /\ t[i + 1] = b[j + 1]
      <4>1. j \in 1..n /\ j + 1 \in 1..n /\ m + 2 + (j + 1) = i + 1
        BY <1>1, <3>1
      <4> QED
        BY <1>2, <3>1, <4>1
    <3>3. Boundary(b, j - 1) \/ b[j - 1] = "P"
      <4>1. CASE j = 1
        BY <1>1, <4>1 DEF Boundary
      <4>2. CASE j # 1
        <5>1. j - 1 \in 1..n /\ m + 2 + (j - 1) = i - 1 /\ i - 1 \in DOMAIN t
          BY <1>1, <1>3, <3>1, <4>2
        <5>2. t[i - 1] = b[j - 1]
          BY <1>2, <5>1
        <5> QED
          BY <1>1, <2>1, <5>1, <5>2 DEF Boundary
      <4> QED
        BY <4>1, <4>2
    <3>4. Boundary(b, j + 2)
      <4>1. CASE j + 2 <= n
        <5>1. j + 2 \in 1..n /\ m + 2 + (j + 2) = i + 2 /\ i + 2 \in DOMAIN t
          BY <1>1, <1>3, <3>1, <4>1
        <5>2. t[i + 2] = b[j + 2]
          BY <1>2, <5>1
        <5> QED
          BY <1>1, <2>1, <5>1, <5>2 DEF Boundary
      <4>2. CASE ~(j + 2 <= n)
        BY <1>1, <3>1, <4>2 DEF Boundary
      <4> QED
        BY <4>1, <4>2
    <3> QED
      BY <2>1, <3>1, <3>2, <3>3, <3>4 DEF NumberAt, n
  <2> QED
    BY <2>2, <2>3, <2>4
<1>6. PartNumbersIn(t) \subseteq PartNumbersIn(a) \union PartNumbersIn(b)
  <2> SUFFICES ASSUME NEW number \in PartNumbersIn(t)
               PROVE  number \in PartNumbersIn(a) \union PartNumbersIn(b)
    OBVIOUS
  <2>1. PICK i : NumberAt(t, i) /\ number = <<t[i], t[i + 1]>>
    BY NumbersOfAText
  <2> QED
    BY <1>5, <2>1, NumbersOfAText
<1> QED
  BY <1>2, <1>6 DEF t

\* What is kept of a list is a list of what is in it and to be kept.
LEMMA KeptIsAList ==
    ASSUME NEW S, NEW list \in Seq(S), NEW kept
    PROVE  /\ Among(list, kept) \in Seq(S)
           /\ Members(Among(list, kept)) = Members(list) \intersect kept
<1> DEFINE n == Len(list)
           places == {i \in DOMAIN list : list[i] \in kept}
           up == {p \in places \X places : p[1] < p[2]}
           order == Sorted(places, up)
           k == Cardinality(places)
           short == Among(list, kept)
<1>1. n \in Nat /\ DOMAIN list = 1..n /\ \A i \in 1..n : list[i] \in S
  OBVIOUS
<1>2. IsFiniteSet(places) /\ places \subseteq 1..n
  <2>1. IsFiniteSet(1..n) /\ places \in SUBSET (1..n)
    BY <1>1, FS_Interval
  <2> HIDE DEF places
  <2>2. IsFiniteSet(places)
    BY <2>1, FS_Subset
  <2> QED
    BY <2>1, <2>2
<1>3. \A i \in 1..n : i \in places <=> list[i] \in kept
  BY <1>1
<1> HIDE DEF places
<1>4. \A i, j \in places : <<i, j>> \in up <=> i < j
  OBVIOUS
<1> HIDE DEF up
<1>5. IsOrder(up, places)
  <2>1. \A i \in places : i \in Nat
    BY <1>1, <1>2
  <2> QED
    BY <1>4, <2>1 DEF IsOrder
<1>6. /\ k \in Nat
      /\ order \in [1..k -> places]
      /\ \A x \in places : \E m \in 1..k : order[m] = x
  BY <1>2, <1>5, SortedIsAList
<1>7. short = [m \in DOMAIN order |-> list[order[m]]]
  BY DEF Among, places, up
<1> HIDE DEF order, k, n, short
<1>8. DOMAIN order = 1..k /\ \A m \in 1..k : order[m] \in 1..n /\ list[order[m]] \in S \intersect kept
  BY <1>1, <1>2, <1>3, <1>6
<1>9. short \in [1..k -> S] /\ \A m \in 1..k : short[m] = list[order[m]]
  BY <1>7, <1>8
<1>10. Members(short) = Members(list) \intersect kept
  <2>1. DOMAIN short = 1..k
    BY <1>9
  <2>2. \A x \in Members(short) : x \in Members(list) \intersect kept
    BY <1>1, <1>8, <1>9, <2>1 DEF Members
  <2>3. ASSUME NEW x \in Members(list), x \in kept
        PROVE  x \in Members(short)
    <3>1. PICK i \in 1..n : list[i] = x
      BY <1>1 DEF Members
    <3>2. PICK m \in 1..k : order[m] = i
      BY <1>3, <1>6, <2>3, <3>1
    <3> QED
      BY <1>9, <2>1, <3>1, <3>2 DEF Members
  <2> QED
    BY <2>2, <2>3
<1>11. short \in Seq(S)
  BY <1>6, <1>9
<1> QED
  BY <1>10, <1>11 DEF short

\* The list put together so far.
FlatLeft(seqs, flat, i) == IF i = 1 THEN seqs[i] ELSE flat[i - 1] \o seqs[i]

IsFlat(seqs, flat) == flat = [i \in 1..Len(seqs) |-> FlatLeft(seqs, flat, i)]

\* That recursion has a solution, too: from the first list on.
LEMMA FlatEquation ==
    ASSUME NEW seqs, Len(seqs) \in Nat \ {0}
    PROVE  \E flat : IsFlat(seqs, flat) /\ FlattenSeq(seqs) = flat[Len(seqs)]
<1> DEFINE n == Len(seqs)
           Solves(f, m) == f = [i \in 1..m |-> FlatLeft(seqs, f, i)]
           good == {m \in 0..n : \E f : Solves(f, m)}
<1> HIDE DEF n
<1>1. n \in Nat \ {0}
  BY DEF n
<1>2. 0 \in good
  <2> DEFINE f == [i \in {} |-> <<>>]
  <2>1. 1..0 = {}
    OBVIOUS
  <2>2. Solves(f, 0)
    BY <2>1
  <2> HIDE DEF f, Solves
  <2>3. \E g : Solves(g, 0)
    BY <2>2
  <2> QED
    BY <1>1, <2>3
<1>3. ASSUME NEW m \in 1..n, m - 1 \in good
      PROVE  m \in good
  <2>1. PICK f : Solves(f, m - 1)
    BY <1>3
  <2>2. DOMAIN f = 1..(m - 1) /\ \A i \in 1..(m - 1) : f[i] = FlatLeft(seqs, f, i)
    BY Zenon, <2>1
  <2> DEFINE g == [i \in 1..m |-> FlatLeft(seqs, f, i)]
  <2>3. \A i \in 1..(m - 1) : i \in 1..m /\ g[i] = f[i]
    BY <1>1, <2>2
  <2>4. ASSUME NEW i \in 1..m
        PROVE  g[i] = FlatLeft(seqs, g, i)
    <3>1. g[i] = FlatLeft(seqs, f, i)
      OBVIOUS
    <3> HIDE DEF g
    <3>2. i # 1 => g[i - 1] = f[i - 1]
      <4>1. i # 1 => i - 1 \in 1..(m - 1)
        BY <1>1
      <4> QED
        BY <2>3, <4>1
    <3> QED
      BY <3>1, <3>2 DEF FlatLeft
  <2>5. g = [i \in 1..m |-> g[i]]
    OBVIOUS
  <2> HIDE DEF g
  <2>6. Solves(g, m)
    BY <2>4, <2>5
  <2> HIDE DEF Solves
  <2>7. m \in 0..n
    BY <1>1
  <2> QED
    BY <2>6, <2>7
<1>4. 0..n \subseteq good
  <2> HIDE DEF good
  <2> QED
    BY <1>1, <1>2, <1>3, UpFromTheStart
<1>5. PICK f : Solves(f, n)
  <2>1. n \in 0..n
    BY <1>1
  <2> HIDE DEF Solves
  <2> QED
    BY <1>4, <2>1
<1>6. IsFlat(seqs, f)
  BY <1>5 DEF IsFlat, n
<1>7. FlattenSeq(seqs) = (CHOOSE flat : IsFlat(seqs, flat))[Len(seqs)]
  <2>1. Len(seqs) # 0
    BY <1>1 DEF n
  <2> QED
    BY <2>1 DEF FlattenSeq, IsFlat, FlatLeft
<1> QED
  BY <1>6, <1>7

\* What is joined has the part numbers of the quotes and no other.
LEMMA JoinedIsGrounded ==
    ASSUME NEW S, NEW citations \in Seq(S), \A c \in Members(citations) : c.quote \in Seq(STRING)
    PROVE  UngroundedPartNumbers(JoinedQuotes(citations), citations) = {}
<1> DEFINE n == Len(citations)
           pieces == [i \in DOMAIN citations |->
                        IF i = 1 THEN citations[i].quote ELSE AnswerSeparator \o citations[i].quote]
           grounded == UNION {PartNumbersIn(c.quote) : c \in Members(citations)}
<1>1. n \in Nat /\ DOMAIN citations = 1..n
  OBVIOUS
<1>2. ASSUME NEW i \in 1..n
      PROVE  /\ citations[i].quote \in Seq(Letters)
             /\ PartNumbersIn(citations[i].quote) \subseteq grounded
  <2>1. citations[i] \in Members(citations)
    BY <1>1 DEF Members
  <2>2. citations[i].quote \in Seq(STRING)
    BY <2>1
  <2>3. citations[i].quote \in Seq(Letters)
    <3>1. STRING \subseteq Letters
      BY DEF Letters
    <3> QED
      BY <2>2, <3>1, SeqMonotonic
  <2> QED
    BY <2>1, <2>3
<1>3. JoinedQuotes(citations) = FlattenSeq(pieces)
  BY DEF JoinedQuotes
<1>4. /\ DOMAIN pieces = 1..n
      /\ \A i \in 1..n : pieces[i] = IF i = 1 THEN citations[i].quote
                                              ELSE AnswerSeparator \o citations[i].quote
  BY <1>1
<1> HIDE DEF grounded, n, pieces
<1>5. Len(pieces) = n
  <2>1. pieces = [i \in 1..n |-> pieces[i]]
    BY <1>4 DEF pieces
  <2>2. pieces \in [1..n -> Members(pieces)]
    BY <1>4, <2>1 DEF Members
  <2> QED
    BY <1>1, <2>2
<1>6. CASE n = 0
  <2>1. JoinedQuotes(citations) = pieces
    BY <1>3, <1>5, <1>6 DEF FlattenSeq
  <2>2. PartNumbersIn(pieces) = {}
    BY <1>5, <1>6 DEF PartNumbersIn
  <2> QED
    BY <2>1, <2>2 DEF UngroundedPartNumbers
<1>7. CASE n # 0
  <2>1. PICK flat : IsFlat(pieces, flat) /\ FlattenSeq(pieces) = flat[n]
    BY <1>1, <1>5, <1>7, FlatEquation
  <2>2. \A i \in 1..n : flat[i] = IF i = 1 THEN pieces[i] ELSE flat[i - 1] \o pieces[i]
    BY <1>5, <2>1 DEF IsFlat, FlatLeft
  <2> DEFINE Fine(m) == flat[m] \in Seq(Letters) /\ PartNumbersIn(flat[m]) \subseteq grounded
             good == {m \in 0..n : m # 0 => Fine(m)}
  <2>3. 0 \in good
    BY <1>1
  <2>4. ASSUME NEW m \in 1..n, m - 1 \in good
        PROVE  m \in good
    <3>1. CASE m = 1
      <4>1. flat[m] = citations[m].quote
        BY <1>4, <2>2, <3>1
      <4>2. Fine(m)
        BY <1>2, <4>1
      <4> QED
        BY <1>1, <4>2
    <3>2. CASE m # 1
      <4> DEFINE a == flat[m - 1]
                 b == citations[m].quote
      <4>1. m - 1 # 0
        BY <1>1, <3>2
      <4>2. a \in Seq(Letters) /\ PartNumbersIn(a) \subseteq grounded
        BY <2>4, <4>1
      <4>3. b \in Seq(Letters) /\ PartNumbersIn(b) \subseteq grounded
        BY <1>2
      <4>4. flat[m] = a \o (AnswerSeparator \o b)
        BY <1>4, <2>2, <3>2
      <4> HIDE DEF a, b
      <4>5. Fine(m)
        BY <4>2, <4>3, <4>4, NoNumberArises
      <4> QED
        BY <1>1, <4>5
    <3> QED
      BY <3>1, <3>2
  <2>5. 0..n \subseteq good
    <3> HIDE DEF good
    <3> QED
      BY <1>1, <2>3, <2>4, UpFromTheStart
  <2>6. Fine(n)
    <3>1. n \in good
      BY <1>1, <2>5
    <3> QED
      BY <1>7, <3>1
  <2>7. PartNumbersIn(JoinedQuotes(citations)) \subseteq grounded
    BY <1>3, <2>1, <2>6
  <2> QED
    BY <2>7 DEF UngroundedPartNumbers, grounded
<1> QED
  BY <1>6, <1>7

-----------------------------------------------------------------------------
(* An answer *)

\* What a reply promises of the passages it was retrieved from.
ReplyHolds(answer, list) ==
    /\ answer.kind \in {"ANSWER", "REVIEW", "ABSTAIN", "ERROR"}
    /\ \A c \in Members(answer.citations) : Holds(c)
    /\ UngroundedPartNumbers(answer.text, answer.citations) = {}
    /\ answer.kind # "ANSWER" => answer.text = <<>>
    /\ answer.kind = "ERROR" => \E r \in Members(list) : AllBlank(r.text)

\* An empty text contains nothing.
LEMMA NothingInNothing ==
    ASSUME NEW citations
    PROVE  UngroundedPartNumbers(<<>>, citations) = {}
BY DEF UngroundedPartNumbers, PartNumbersIn

\* The citations of passages, those that show nothing left out.
LEMMA CitationsOfPassages ==
    ASSUME NEW chunks \in Seq(Passages), NEW terms, IsFiniteSet(terms)
    PROVE  LET citations == Quotable(BuildCitations(chunks, terms))
           IN  /\ \A c \in Members(citations) : Holds(c)
               /\ UngroundedPartNumbers(JoinedQuotes(citations), citations) = {}
               /\ citations = <<>> => \A r \in Members(chunks) : AllBlank(r.text)
<1> DEFINE all == BuildCitations(chunks, terms)
           S == Members(all)
           showing == {c \in S : \E i \in DOMAIN c.quote : c.quote[i] \notin Blank}
           citations == Quotable(all)
           n == Len(chunks)
<1>1. n \in Nat /\ DOMAIN chunks = 1..n /\ \A i \in 1..n : chunks[i] \in Passages
  OBVIOUS
<1>2. DOMAIN all = 1..n /\ \A i \in 1..n : all[i] = BuildCitation(chunks[i], terms)
  BY <1>1 DEF BuildCitations
<1>3. all \in Seq(S)
  <2>1. all = [i \in 1..n |-> all[i]]
    BY <1>1, <1>2 DEF BuildCitations
  <2> HIDE DEF all, n
  <2>2. all \in [1..n -> S]
    BY <1>2, <2>1 DEF Members
  <2> HIDE DEF S
  <2> QED
    BY <1>1, <2>2
<1>4. \A c \in S : Holds(c)
  <2>1. \A i \in 1..n : Holds(all[i])
    BY <1>1, <1>2, CitationHolds
  <2> HIDE DEF all
  <2> QED
    BY <1>2, <2>1 DEF Members
<1> HIDE DEF all, n
<1>5. citations \in Seq(S) /\ Members(citations) = S \intersect showing
  <2>1. citations = Among(all, showing)
    BY DEF Quotable
  <2> HIDE DEF S, showing, citations
  <2>2. Among(all, showing) \in Seq(S) /\ Members(Among(all, showing)) = Members(all) \intersect showing
    BY <1>3, KeptIsAList
  <2> QED
    BY <2>1, <2>2 DEF S
<1> HIDE DEF citations
<1>6. \A c \in Members(citations) : Holds(c)
  BY <1>4, <1>5
<1>7. UngroundedPartNumbers(JoinedQuotes(citations), citations) = {}
  <2>1. \A c \in Members(citations) : c.quote \in Seq(STRING)
    BY <1>6 DEF Holds
  <2> HIDE DEF S
  <2> QED
    BY <1>5, <2>1, JoinedIsGrounded
<1>8. ASSUME citations = <<>>, NEW r \in Members(chunks)
      PROVE  AllBlank(r.text)
  <2>1. PICK i \in 1..n : chunks[i] = r
    BY <1>1 DEF Members
  <2>2. all[i] \in S /\ all[i] = BuildCitation(r, terms)
    BY <1>2, <2>1 DEF Members
  <2>3. Members(citations) = {}
    BY <1>8 DEF Members
  <2>4. all[i] \notin showing
    BY <1>5, <2>2, <2>3
  <2>5. AllBlank(all[i].quote)
    BY <2>2, <2>4 DEF AllBlank
  <2> QED
    BY <1>1, <2>1, <2>2, <2>5, CitationHolds
<1> QED
  BY <1>6, <1>7, <1>8 DEF citations, all

\* Whatever is approved of what was retrieved, the reply keeps its promise.
LEMMA AnswerHolds ==
    ASSUME question \in Questions, NEW list \in Seq(Passages), NEW approved \in SUBSET Members(list),
           NEW outcome \in {"ANSWER", "REVIEW", "ABSTAIN"}, approved = {} => outcome # "ANSWER"
    PROVE  ReplyHolds(ExtractiveAnswer(outcome, Among(list, approved)), list)
<1> DEFINE chunks == Among(list, approved)
           citations == Quotable(BuildCitations(chunks, question.terms))
           text == IF outcome = "ANSWER" THEN JoinedQuotes(citations) ELSE <<>>
           answer == ExtractiveAnswer(outcome, chunks)
           fails == \/ \E r \in Members(chunks) : ~Located(r)
                    \/ outcome = "ANSWER" /\ citations = <<>>
                    \/ UngroundedPartNumbers(text, citations) # {}
<1>1. chunks \in Seq(Passages) /\ Members(chunks) = approved
  <2>1. chunks \in Seq(Passages) /\ Members(chunks) = Members(list) \intersect approved
    BY KeptIsAList
  <2> HIDE DEF chunks
  <2> QED
    BY <2>1
<1>2. IsFiniteSet(question.terms)
  BY AnsweringAssumption
<1>3. answer = IF fails THEN [kind |-> "ERROR", text |-> <<>>, citations |-> <<>>]
                        ELSE [kind |-> outcome, text |-> text, citations |-> citations]
  BY DEF ExtractiveAnswer
<1> HIDE DEF chunks
<1>4. /\ \A c \in Members(citations) : Holds(c)
      /\ UngroundedPartNumbers(JoinedQuotes(citations), citations) = {}
      /\ citations = <<>> => \A r \in Members(chunks) : AllBlank(r.text)
  BY <1>1, <1>2, CitationsOfPassages
<1> HIDE DEF answer, citations
<1>5. UngroundedPartNumbers(text, citations) = {}
  BY <1>4, NothingInNothing
<1>6. \A r \in Members(chunks) : Located(r)
  <2>1. Members(chunks) \subseteq Passages
    BY <1>1 DEF Members
  <2> QED
    BY <1>2, <2>1, CitationHolds
<1> HIDE DEF text
<1>7. CASE fails
  <2>1. outcome = "ANSWER" /\ citations = <<>>
    BY <1>5, <1>6, <1>7
  <2>2. PICK r \in Members(chunks) : AllBlank(r.text)
    BY <1>1, <1>4, <2>1
  <2>3. \E s \in Members(list) : AllBlank(s.text)
    BY <1>1, <2>2
  <2>4. answer.kind = "ERROR" /\ answer.text = <<>> /\ answer.citations = <<>>
    BY <1>3, <1>7
  <2>5. Members(<<>>) = {}
    BY DEF Members
  <2>6. ReplyHolds(answer, list)
    BY <2>3, <2>4, <2>5, NothingInNothing DEF ReplyHolds
  <2> QED
    BY <2>6 DEF answer, chunks
<1>8. CASE ~fails
  <2>1. answer.kind = outcome /\ answer.text = text /\ answer.citations = citations
    BY <1>3, <1>8
  <2>2. outcome # "ANSWER" => text = <<>>
    BY DEF text
  <2> HIDE DEF fails
  <2>3. ReplyHolds(answer, list)
    BY <1>4, <1>5, <2>1, <2>2 DEF ReplyHolds
  <2> QED
    BY <2>3 DEF answer, chunks
<1> QED
  BY <1>7, <1>8

-----------------------------------------------------------------------------
(* The invariant *)

\* What a run is of: a known question, and a table of passages with their distances.
TableInv ==
    /\ question \in Questions
    /\ arm \in DOMAIN StageWeights
    /\ AreCandidates(Members(rows))
    /\ IsTable(rows, Members(rows))
    /\ \A r \in Members(rows) : distance[r.chunk_id] \in Int

Upto(exact, lexical, dense) == [exact_identifier |-> exact, lexical |-> lexical, dense |-> dense]

\* A stage writes its own ranking.
LEMMA StageByStage ==
    ASSUME NEW exact, NEW lexical, NEW dense
    PROVE  /\ [NoStages EXCEPT !.exact_identifier = exact] = Upto(exact, <<>>, <<>>)
           /\ [Upto(exact, <<>>, <<>>) EXCEPT !.lexical = lexical] = Upto(exact, lexical, <<>>)
           /\ [Upto(exact, lexical, <<>>) EXCEPT !.dense = dense] = Upto(exact, lexical, dense)
           /\ Upto(exact, lexical, dense).exact_identifier = exact
           /\ Upto(exact, lexical, dense).lexical = lexical
           /\ DOMAIN Upto(exact, lexical, dense) = {"exact_identifier", "lexical", "dense"}
BY DEF Upto, NoStages

\* What a run comes to, worked out at once over the rows as they are now.
AllStages ==
    Upto(ExactRanking(question, rows), LexicalRanking(question, rows), DenseRanking(rows, distance))

Scores == ReciprocalRankFusion(AllStages, StageWeights[arm])

Ranked == Rerank(question, rows, Scores, Members(AllStages.exact_identifier))

\* What has been worked out so far is what would be now, though the rows may have moved since.
StagesInv ==
    /\ pc = "lexical" => stages = Upto(AllStages.exact_identifier, <<>>, <<>>)
    /\ pc = "dense" => stages = Upto(AllStages.exact_identifier, AllStages.lexical, <<>>)
    /\ pc \in {"fuse", "rerank", "answer", "done"} => stages = AllStages
    /\ pc \in {"rerank", "answer", "done"} => fused = Scores

RunsInv ==
    /\ runs \in Seq({IdsOf(Ranked)})
    /\ pc \in {"exact", "lexical", "dense", "fuse", "rerank"} => Len(runs) \in 0..1
    /\ pc \in {"answer", "done"} => Len(runs) = 2 /\ retrieved = Ranked

ControlInv == pc \in {"exact", "lexical", "dense", "fuse", "rerank", "answer", "done"}

\* There is no reply until there is one, and it keeps its promise.
ReplyInv ==
    /\ pc # "done" => reply = NoAnswer
    /\ pc = "done" => ReplyHolds(reply, retrieved)

IInv == TableInv /\ StagesInv /\ RunsInv /\ ControlInv /\ ReplyInv

\* Rows written again are the same passages in another order.
LEMMA RewrittenIsATable ==
    ASSUME NEW S, IsFiniteSet(S), NEW list \in SetToSeqs(S)
    PROVE  IsTable(list, S) /\ Members(list) = S
<1> DEFINE N == Cardinality(S)
           D == 1..N
<1>1. N \in Nat
  BY FS_CardinalityType
<1>2. list \in [D -> S] /\ \A m, n \in D : m # n => list[m] # list[n]
  BY DEF SetToSeqs
<1>3. IsFiniteSet(D) /\ Cardinality(D) = N
  <2> HIDE DEF N
  <2>1. IsFiniteSet(1..N) /\ Cardinality(1..N) = IF 1 > N THEN 0 ELSE N - 1 + 1
    BY <1>1, FS_Interval
  <2> QED
    BY <1>1, <2>1
<1> HIDE DEF D
<1>4. list \in Injection(D, S)
  BY <1>2 DEF Injection, IsInjective
<1>5. list \in Surjection(D, S)
  BY <1>3, <1>4, FS_Injection
<1>6. \A x \in S : \E n \in D : list[n] = x
  BY <1>5 DEF Surjection
<1>7. Members(list) = S
  BY <1>2, <1>6 DEF Members
<1>8. IsTable(list, S)
  BY <1>2, <1>6 DEF IsTable, D
<1> QED
  BY <1>7, <1>8

\* What a run comes to is the same before and after.
LEMMA SameResult ==
    ASSUME TableInv, TableInv', Members(rows') = Members(rows), UNCHANGED asked
    PROVE  AllStages' = AllStages /\ Scores' = Scores /\ Ranked' = Ranked
<1> DEFINE S == Members(rows)
<1>1. question' = question /\ arm' = arm /\ distance' = distance
  BY DEF asked
<1>2. ExactRanking(question, rows)' = ExactRanking(question, rows)
  BY <1>1 DEF ExactRanking
<1>3. LexicalRanking(question, rows)' = LexicalRanking(question, rows)
  BY <1>1 DEF LexicalRanking
<1>4. DenseRanking(rows, distance)' = DenseRanking(rows, distance)
  <2>1. /\ AreKeyed(S) /\ \A r \in S : distance[r.chunk_id] \in Int
        /\ IsTable(rows, S) /\ IsTable(rows', S)
    BY DEF TableInv, AreCandidates
  <2> DEFINE now == FirstOf([n \in 1..Cardinality(S) |-> NearestFirst(S, distance)[n].chunk_id], StageDepth)
  <2> HIDE DEF S
  <2>2. DenseRanking(rows, distance) = now
    BY <2>1, DenseIgnoresTheTable
  <2>3. DenseRanking(rows', distance) = now
    BY <2>1, DenseIgnoresTheTable
  <2> QED
    BY <1>1, <2>2, <2>3
<1>5. AllStages' = AllStages
  BY <1>2, <1>3, <1>4 DEF AllStages
<1>6. Scores' = Scores
  BY <1>1, <1>5 DEF Scores
<1>7. Ranked' = Ranked
  BY <1>1, <1>5, <1>6 DEF Ranked, Rerank
<1> QED
  BY <1>5, <1>6, <1>7

\* The table starts as the admitted passages in the order of their ids.
LEMMA InitEstablishes == Init => IInv
<1> SUFFICES ASSUME Init
             PROVE  IInv
  OBVIOUS
<1>1. PICK admitted \in Admitted : rows = BestFirst([c \in admitted |-> 0])
  BY DEF Init
<1>2. AreKeyed(admitted)
  <2>1. admitted \in SUBSET Passages
    BY DEF Admitted
  <2>2. IsFiniteSet(admitted)
    BY <2>1, FS_Subset, AnsweringAssumption
  <2> QED
    BY <2>1, <2>2, AnsweringAssumption DEF AreKeyed
<1>3. IsTable(rows, admitted) /\ Members(rows) = admitted
  <2> DEFINE score == [c \in admitted |-> 0]
  <2>1. DOMAIN score = admitted /\ \A c \in DOMAIN score : score[c] \in Int
    OBVIOUS
  <2> HIDE DEF score
  <2>2. /\ rows \in [1..Cardinality(admitted) -> admitted]
        /\ \A m, n \in 1..Cardinality(admitted) : rows[m] = rows[n] => m = n
        /\ \A r \in admitted : \E n \in 1..Cardinality(admitted) : rows[n] = r
    BY <1>1, <1>2, <2>1, BestFirstIsAList DEF score
  <2>3. Members(rows) = admitted
    BY <2>2 DEF Members
  <2> QED
    BY <2>2, <2>3 DEF IsTable
<1>4. \A r \in admitted : distance[r.chunk_id] \in Int
  <2>1. distance \in [{r.chunk_id : r \in admitted} -> Distances]
    BY <1>3 DEF Init
  <2> QED
    BY <2>1, AnsweringAssumption
<1>5. AreCandidates(admitted)
  <2>1. admitted # {} /\ Cardinality(admitted) <= MaxCandidates /\ admitted \subseteq Passages
    BY DEF Admitted
  <2>2. Cardinality(admitted) \in Nat \ {0}
    BY <1>2, <2>1, FS_CardinalityType, FS_EmptySet DEF AreKeyed
  <2>3. MaxCandidates \in Nat \ {0}
    BY RankingAssumption
  <2> QED
    BY <1>2, <2>1, <2>2, <2>3 DEF AreCandidates
<1>6. TableInv
  BY <1>3, <1>4, <1>5 DEF Init, TableInv
<1>7. StagesInv /\ RunsInv /\ ControlInv /\ ReplyInv
  BY DEF Init, StagesInv, RunsInv, ControlInv, ReplyInv
<1> QED
  BY <1>6, <1>7 DEF IInv

\* What each stage has ahead, it ranks earlier, and what it is silent about, it does not rank.
LEMMA StagesAreShort ==
    ASSUME TableInv
    PROVE  /\ ThreeStages(AllStages)
           /\ \A name \in DOMAIN AllStages :
                /\ IsShort(AllStages[name])
                /\ \A r, s \in Members(rows) :
                     Ahead(name, r, s) \/ Silent(name, r, s) => Precedes(AllStages[name], r, s)
<1> DEFINE S == Members(rows)
           Right(name) == /\ IsShort(AllStages[name])
                          /\ \A r, s \in S : Ahead(name, r, s) => Precedes(AllStages[name], r, s)
                          /\ \A r, s \in S : Silent(name, r, s) => s.chunk_id \notin Members(AllStages[name])
<1>1. /\ DOMAIN AllStages = {"exact_identifier", "lexical", "dense"}
      /\ AllStages["exact_identifier"] = ExactRanking(question, rows)
      /\ AllStages["lexical"] = LexicalRanking(question, rows)
      /\ AllStages["dense"] = DenseRanking(rows, distance)
  BY DEF AllStages, Upto
<1>2. /\ question \in Questions /\ AreCandidates(Members(rows)) /\ IsTable(rows, Members(rows))
      /\ \A r \in S : distance[r.chunk_id] \in Int
  BY DEF TableInv
<1>3. Right("exact_identifier")
  BY <1>1, <1>2, WhatExactSays DEF Ahead, Silent
<1>4. Right("lexical")
  BY <1>1, <1>2, WhatLexicalSays DEF Ahead, Silent
<1>5. Right("dense")
  BY <1>1, <1>2, WhatDenseSays DEF Ahead, Silent
<1> HIDE DEF S
<1>6. \A name \in DOMAIN AllStages : Right(name)
  <2> HIDE DEF Right
  <2> QED
    BY <1>1, <1>3, <1>4, <1>5
<1> QED
  BY <1>1, <1>6 DEF ThreeStages, Precedes, S

\* What a run comes to is the best of the pool.
LEMMA ResultIsAList ==
    ASSUME TableInv
    PROVE  LET pool == PoolOf(rows, Scores)
               score == RerankScore(question, pool, Scores, Members(AllStages.exact_identifier))
           IN  /\ \A id \in DOMAIN Scores : Scores[id] \in Int
               /\ \E k \in 0..TopK : IsResult(Ranked, pool, score, k)
<1>1. \A id \in DOMAIN Scores : Scores[id] \in Int
  BY StagesAreShort, FusedIsWhole DEF Scores, TableInv
<1> QED
  BY <1>1, RerankIsAList DEF Ranked, TableInv, AreCandidates

\* What was retrieved is a list of passages.
LEMMA RetrievedArePassages ==
    ASSUME TableInv
    PROVE  Ranked \in Seq(Passages)
<1>1. PICK k \in 0..TopK : Ranked \in [1..k -> PoolOf(rows, Scores)]
  BY ResultIsAList DEF IsResult
<1>2. PoolOf(rows, Scores) \subseteq Passages
  BY DEF PoolOf, TableInv, AreCandidates
<1>3. k \in Nat
  BY <1>1, RankingAssumption
<1>4. Ranked \in [1..k -> Passages]
  BY <1>1, <1>2
<1> QED
  BY <1>3, <1>4

\* Every step keeps the invariant.
LEMMA StepKeeps == IInv /\ [Next]_avars => IInv'
<1> SUFFICES ASSUME IInv, [Next]_avars
             PROVE  IInv'
  OBVIOUS
<1> USE DEF IInv
<1>1. CASE RewriteRows
  <2>1. UNCHANGED <<asked, pc, stages, fused, retrieved, runs, reply>>
    BY <1>1 DEF RewriteRows
  <2>2. IsFiniteSet(Members(rows)) /\ rows' \in SetToSeqs(Members(rows))
    BY <1>1 DEF RewriteRows, TableInv, AreCandidates, AreKeyed
  <2>3. IsTable(rows', Members(rows)) /\ Members(rows') = Members(rows)
    BY <2>2, RewrittenIsATable
  <2>4. TableInv'
    BY <2>1, <2>3 DEF TableInv, asked
  <2>5. AllStages' = AllStages /\ Scores' = Scores /\ Ranked' = Ranked
    BY <2>1, <2>3, <2>4, SameResult
  <2>6. StagesInv' /\ RunsInv' /\ ControlInv' /\ ReplyInv'
    BY <2>1, <2>5 DEF StagesInv, RunsInv, ControlInv, ReplyInv
  <2> QED
    BY <2>4, <2>6
<1>2. ASSUME UNCHANGED <<asked, rows>>
      PROVE  TableInv' /\ AllStages' = AllStages /\ Scores' = Scores /\ Ranked' = Ranked
  <2>1. TableInv'
    BY <1>2 DEF TableInv, asked
  <2> QED
    BY <1>2, <2>1, SameResult
<1>3. CASE ExactStage
  <2>1. UNCHANGED <<asked, rows, fused, retrieved, runs, reply>> /\ pc = "exact" /\ pc' = "lexical"
    BY <1>3 DEF ExactStage
  <2>2. stages' = Upto(AllStages.exact_identifier, <<>>, <<>>)
    BY <1>3, StageByStage DEF ExactStage, AllStages
  <2> QED
    BY <1>2, <2>1, <2>2 DEF StagesInv, RunsInv, ControlInv, ReplyInv
<1>4. CASE LexicalStage
  <2>1. UNCHANGED <<asked, rows, fused, retrieved, runs, reply>> /\ pc = "lexical" /\ pc' = "dense"
    BY <1>4 DEF LexicalStage
  <2>2. stages' = Upto(AllStages.exact_identifier, AllStages.lexical, <<>>)
    BY <1>4, StageByStage DEF LexicalStage, AllStages, StagesInv
  <2> QED
    BY <1>2, <2>1, <2>2 DEF StagesInv, RunsInv, ControlInv, ReplyInv
<1>5. CASE DenseStage
  <2>1. UNCHANGED <<asked, rows, fused, retrieved, runs, reply>> /\ pc = "dense" /\ pc' = "fuse"
    BY <1>5 DEF DenseStage
  <2>2. stages' = AllStages
    BY <1>5, StageByStage DEF DenseStage, AllStages, StagesInv
  <2> QED
    BY <1>2, <2>1, <2>2 DEF StagesInv, RunsInv, ControlInv, ReplyInv
<1>6. CASE Fuse
  <2>1. UNCHANGED <<asked, rows, stages, retrieved, runs, reply>> /\ pc = "fuse" /\ pc' = "rerank"
    BY <1>6 DEF Fuse
  <2>2. fused' = Scores
    BY <1>6 DEF Fuse, Scores, StagesInv
  <2> QED
    BY <1>2, <2>1, <2>2 DEF StagesInv, RunsInv, ControlInv, ReplyInv
<1>7. CASE RerankAndRecord
  <2>1. /\ UNCHANGED <<asked, rows, stages, fused, reply>>
        /\ pc = "rerank" /\ pc' = IF Len(runs) = 0 THEN "exact" ELSE "answer"
        /\ retrieved' = Ranked /\ runs' = Append(runs, IdsOf(Ranked))
    BY <1>7 DEF RerankAndRecord, Ranked, StagesInv
  <2>2. Len(runs) \in 0..1 /\ runs \in Seq({IdsOf(Ranked)})
    BY <2>1 DEF RunsInv
  <2>3. runs' \in Seq({IdsOf(Ranked)}) /\ Len(runs') = Len(runs) + 1
    BY <2>1, <2>2, AppendProperties
  <2>4. RunsInv'
    BY <1>2, <2>1, <2>2, <2>3 DEF RunsInv
  <2> QED
    BY <1>2, <2>1, <2>4 DEF StagesInv, ControlInv, ReplyInv
<1>8. CASE AnswerQuestion
  <2>1. UNCHANGED <<asked, rows, stages, fused, retrieved, runs>> /\ pc = "answer" /\ pc' = "done"
    BY <1>8 DEF AnswerQuestion
  <2>2. PICK approved \in SUBSET Members(retrieved) :
               \E outcome \in IF approved = {} THEN {"ABSTAIN"} ELSE {"ANSWER", "REVIEW"} :
                 reply' = ExtractiveAnswer(outcome, Among(retrieved, approved))
    BY <1>8 DEF AnswerQuestion
  <2>3. PICK outcome \in {"ANSWER", "REVIEW", "ABSTAIN"} :
               /\ approved = {} => outcome # "ANSWER"
               /\ reply' = ExtractiveAnswer(outcome, Among(retrieved, approved))
    BY <2>2
  <2>4. retrieved = Ranked /\ Ranked \in Seq(Passages) /\ question \in Questions
    BY <2>1, RetrievedArePassages DEF RunsInv, TableInv
  <2>5. ReplyHolds(reply', retrieved)
    BY <2>3, <2>4, AnswerHolds
  <2> QED
    BY <1>2, <2>1, <2>5 DEF StagesInv, RunsInv, ControlInv, ReplyInv
<1>9. CASE UNCHANGED avars
  BY <1>2, <1>9 DEF avars, asked, StagesInv, RunsInv, ControlInv, ReplyInv
<1> QED
  BY <1>1, <1>3, <1>4, <1>5, <1>6, <1>7, <1>8, <1>9 DEF Next

LEMMA Inductive == Spec => []IInv
BY InitEstablishes, StepKeeps, PTL DEF Spec

-----------------------------------------------------------------------------
(* What follows *)

\* Whatever the table does with its rows between the stages of one run and the next, the two runs
\* return the same ids in the same order.
THEOREM RunsAgree == Spec => []TwoRunsAgree
<1>1. IInv => TwoRunsAgree
  <2> SUFFICES ASSUME IInv, Len(runs) = 2
               PROVE  runs[1] = runs[2]
    BY DEF TwoRunsAgree, RetrievalDigestStable
  <2>1. \A i \in 1..Len(runs) : runs[i] \in {IdsOf(Ranked)}
    BY DEF IInv, RunsInv
  <2> QED
    BY <2>1
<1> QED
  BY <1>1, Inductive, PTL

\* Every run is of candidates, none twice, never more than top_k.
THEOREM TypeCorrect == Spec => []TypeOK
<1>1. ASSUME IInv
      PROVE  /\ Members(IdsOf(Ranked)) \subseteq {r.chunk_id : r \in Members(rows)}
             /\ Cardinality(Members(IdsOf(Ranked))) = Len(IdsOf(Ranked))
             /\ Len(IdsOf(Ranked)) <= TopK
  <2> DEFINE ids == IdsOf(Ranked)
  <2>1. PICK k \in 0..TopK :
               /\ Ranked \in [1..k -> PoolOf(rows, Scores)]
               /\ \A m, n \in 1..k : Ranked[m] = Ranked[n] => m = n
    BY <1>1, ResultIsAList DEF IInv, IsResult
  <2>2. k \in Nat /\ k <= TopK
    BY <2>1, RankingAssumption
  <2>3. \A n \in 1..k : Ranked[n] \in Members(rows)
    BY <2>1 DEF PoolOf
  <2>4. DOMAIN ids = 1..k /\ \A n \in 1..k : ids[n] = Ranked[n].chunk_id
    BY <2>1 DEF IdsOf
  <2>5. \A m, n \in 1..k : ids[m] = ids[n] => m = n
    BY <1>1, <2>1, <2>3, <2>4 DEF IInv, TableInv, AreCandidates, AreKeyed
  <2>6. ids = [n \in 1..k |-> ids[n]]
    BY <2>4 DEF IdsOf
  <2> HIDE DEF ids
  <2>7. ids \in [1..k -> Members(ids)]
    BY <2>4, <2>6 DEF Members
  <2>8. ids \in Bijection(1..k, Members(ids))
    <3>1. \A x \in Members(ids) : \E n \in 1..k : ids[n] = x
      BY <2>4 DEF Members
    <3> QED
      BY <2>5, <2>7, <3>1 DEF Bijection, Injection, Surjection, IsInjective
  <2>9. IsFiniteSet(1..k) /\ Cardinality(1..k) = k
    <3>1. IsFiniteSet(1..k) /\ Cardinality(1..k) = IF 1 > k THEN 0 ELSE k - 1 + 1
      BY <2>2, FS_Interval
    <3> QED
      BY <2>2, <3>1
  <2>10. Cardinality(Members(ids)) = k
    BY <2>8, <2>9, FS_Bijection DEF ExistsBijection
  <2>11. Len(ids) = k
    BY <2>2, <2>7
  <2>12. Members(ids) \subseteq {r.chunk_id : r \in Members(rows)}
    BY <2>3, <2>4 DEF Members
  <2> QED
    BY <2>2, <2>10, <2>11, <2>12 DEF ids
<1>2. ASSUME IInv
      PROVE  TypeOK
  <2>1. \A run \in Members(runs) : run = IdsOf(Ranked)
    <3>1. \A i \in DOMAIN runs : runs[i] \in {IdsOf(Ranked)}
      BY <1>2 DEF IInv, RunsInv
    <3> QED
      BY <3>1 DEF Members
  <2>2. Len(runs) <= 2
    <3> DEFINE many == Len(runs)
    <3>1. many \in 0..1 \/ many = 2
      BY <1>2 DEF IInv, RunsInv, ControlInv
    <3> HIDE DEF many
    <3>2. many <= 2
      BY <3>1
    <3> QED
      BY <3>2 DEF many
  <2> QED
    BY <1>1, <1>2, <2>1, <2>2 DEF TypeOK, IInv, ControlInv, ReplyInv, ReplyHolds, NoAnswer
<1> QED
  BY <1>2, Inductive, PTL

\* Reranking is a tie-break: the four features together weigh less than the whole width of the
\* fused scores, so the lowest of a fusion never comes ahead of its highest.
LEMMA FeaturesBreakTies == IInv => FeaturesOnlyBreakTies
<1>1. ASSUME IInv, pc \in {"answer", "done"}, NEW i \in DOMAIN retrieved, NEW j \in DOMAIN retrieved,
             fused[retrieved[i].chunk_id] # fused[retrieved[j].chunk_id],
             \A id \in DOMAIN fused : /\ fused[id] <= fused[retrieved[i].chunk_id]
                                      /\ fused[retrieved[j].chunk_id] <= fused[id]
      PROVE  i < j
  <2> DEFINE pool == PoolOf(rows, Scores)
             ids == Members(AllStages.exact_identifier)
             score == RerankScore(question, pool, Scores, ids)
             low == Low(pool, Scores)
             high == High(pool, Scores)
             r == Ranked[i]
             s == Ranked[j]
  <2>1. retrieved = Ranked /\ fused = Scores /\ TableInv
    BY <1>1 DEF IInv, RunsInv, StagesInv
  <2>2. PICK k \in 0..TopK : /\ Ranked \in [1..k -> pool]
                             /\ \A m, n \in 1..k : score[Ranked[m]] > score[Ranked[n]] => m < n
    <3>1. PICK k \in 0..TopK : IsResult(Ranked, pool, score, k)
      BY <2>1, ResultIsAList
    <3>2. Ranked \in [1..k -> pool]
      BY <3>1 DEF IsResult
    <3>3. \A m, n \in 1..k : score[Ranked[m]] > score[Ranked[n]] => m < n
      BY <3>1, <3>2 DEF IsResult
    <3> QED
      BY <3>2, <3>3
  <2>3. i \in 1..k /\ j \in 1..k /\ r \in pool /\ s \in pool
    BY <1>1, <2>1, <2>2
  <2>4. \A t \in pool : t.chunk_id \in DOMAIN Scores
    BY DEF PoolOf
  <2>5. IsFiniteSet(pool)
    <3>1. pool \in SUBSET Members(rows)
      BY DEF PoolOf
    <3> QED
      BY <2>1, <3>1, FS_Subset DEF TableInv, AreCandidates, AreKeyed
  <2>6. \A t \in pool : Scores[t.chunk_id] \in Int
    BY <2>1, <2>4, ResultIsAList
  <2> HIDE DEF pool
  <2>7. /\ low \in Int /\ high \in Int
        /\ \A t \in pool : low <= Scores[t.chunk_id] /\ Scores[t.chunk_id] <= high
        /\ \E t \in pool : low = Scores[t.chunk_id]
        /\ \E t \in pool : high = Scores[t.chunk_id]
    BY <2>3, <2>5, <2>6, PoolHasExtremes
  <2>8. \A t \in pool : Scores[t.chunk_id] <= Scores[r.chunk_id] /\ Scores[s.chunk_id] <= Scores[t.chunk_id]
    BY <1>1, <2>1, <2>4
  <2>9. high = Scores[r.chunk_id] /\ low = Scores[s.chunk_id] /\ low < high
    <3>1. Scores[r.chunk_id] # Scores[s.chunk_id]
      BY <1>1, <2>1
    <3> HIDE DEF low, high, r, s
    <3> QED
      BY <2>3, <2>6, <2>7, <2>8, <3>1
  <2>10. /\ score[r] = RerankScale * (Scores[r.chunk_id] - low) + FeaturesOf(question, r, ids) * (high - low)
         /\ score[s] = RerankScale * (Scores[s.chunk_id] - low) + FeaturesOf(question, s, ids) * (high - low)
    <3>1. high # low
      BY <2>7, <2>9
    <3> QED
      BY <2>1, <2>3, <2>5, <2>6, <3>1, RerankScoreOf DEF TableInv
  <2>11. /\ FeaturesOf(question, r, ids) \in 0..(180 * ShareScale)
         /\ FeaturesOf(question, s, ids) \in 0..(180 * ShareScale)
    BY <2>1, FeaturesAreSmall DEF TableInv
  <2>12. score[r] > score[s]
    <3> DEFINE width == high - low
               fr == FeaturesOf(question, r, ids)
               fs == FeaturesOf(question, s, ids)
    <3>1. width \in Nat \ {0}
      BY <2>7, <2>9
    <3>2. score[r] = RerankScale * width + fr * width /\ score[s] = RerankScale * 0 + fs * width
      BY <2>7, <2>9, <2>10
    <3> HIDE DEF width, fr, fs, score, r, s
    <3>3. fr \in 0..(180 * ShareScale) /\ fs \in 0..(180 * ShareScale) /\ ShareScale \in Nat \ {0}
      BY <2>11, RankingAssumption DEF fr, fs
    <3>4. fr * width >= 0 /\ fr * width \in Int
      BY <3>1, <3>3
    <3>5. fs * width < RerankScale * width /\ fs * width \in Int /\ RerankScale * width \in Int
      <4>1. fs < RerankScale /\ fs \in Nat /\ RerankScale \in Nat
        BY <3>3 DEF RerankScale
      <4>2. RerankScale - fs \in Nat \ {0}
        BY <4>1
      <4>3. (RerankScale - fs) * width > 0
        BY <3>1, <4>2
      <4> QED
        BY <3>1, <4>1, <4>3
    <3>6. RerankScale * 0 = 0
      BY <3>3 DEF RerankScale
    <3> QED
      BY <3>2, <3>4, <3>5, <3>6
  <2> QED
    BY <2>2, <2>3, <2>12
<1> QED
  BY <1>1 DEF FeaturesOnlyBreakTies

\* A higher fused score and no worse features are a higher score.
LEMMA HigherAndNoWorse ==
    ASSUME NEW f \in Int, NEW g \in Int, NEW low \in Int, NEW high \in Int, low <= g, g < f, f <= high,
           NEW scale \in Nat \ {0}, NEW a \in Nat, NEW b \in Nat, a >= b
    PROVE  scale * (f - low) + a * (high - low) > scale * (g - low) + b * (high - low)
<1> DEFINE width == high - low
           more == a - b
<1>1. width \in Nat /\ more \in Nat
  OBVIOUS
<1>2. a * width - b * width = more * width
  <2>1. a = b + more
    OBVIOUS
  <2> HIDE DEF width, more
  <2> QED
    BY <1>1, <2>1
<1> HIDE DEF width, more
<1>3. more * width >= 0 /\ a * width \in Int /\ b * width \in Int
  BY <1>1
<1>4. scale * (f - low) > scale * (g - low) /\ scale * (f - low) \in Int /\ scale * (g - low) \in Int
  <2> DEFINE x == f - low
             y == g - low
  <2>1. x \in Nat /\ y \in Nat /\ x - y \in Nat \ {0}
    OBVIOUS
  <2> HIDE DEF x, y
  <2>2. scale * (x - y) > 0
    BY <2>1
  <2>3. scale * x > scale * y /\ scale * x \in Int /\ scale * y \in Int
    BY <2>1, <2>2
  <2> QED
    BY <2>3 DEF x, y
<1>5. scale * (f - low) + a * width > scale * (g - low) + b * width
  BY <1>2, <1>3, <1>4
<1> QED
  BY <1>5 DEF width

\* What every stage with a weight has ahead, with features no worse, scores more: it is kept
\* whenever the other is, and earlier.
LEMMA UnanimityStands == IInv => UnanimousOrderStands
<1> DEFINE ids == Members(AllStages.exact_identifier)
           pool == PoolOf(rows, Scores)
           score == RerankScore(question, pool, Scores, ids)
           low == Low(pool, Scores)
           high == High(pool, Scores)
           features(r) == FeaturesOf(question, r, ids)
           place(r) == CHOOSE i \in DOMAIN Ranked : Ranked[i] = r
<1>1. ASSUME TableInv, NEW r \in Members(rows), NEW s \in Members(Ranked), r # s,
             \A name \in DOMAIN AllStages : StageWeights[arm][name] # 0 =>
                 Ahead(name, r, s) \/ Silent(name, r, s),
             features(r) >= features(s)
      PROVE  r \in Members(Ranked) /\ place(r) < place(s)
  <2>1. PICK k \in 0..TopK : IsResult(Ranked, pool, score, k)
    BY <1>1, ResultIsAList
  <2>2. /\ Ranked \in [1..k -> pool]
        /\ \A m, n \in 1..k : Ranked[m] = Ranked[n] => m = n
        /\ \A n \in 1..k : \A t \in pool :
             score[t] > score[Ranked[n]] => \E m \in 1..k : m < n /\ Ranked[m] = t
    BY <2>1 DEF IsResult
  <2>3. PICK n \in 1..k : Ranked[n] = s
    BY <2>2 DEF Members
  <2>4. s \in pool
    BY <2>2, <2>3
  <2>5. s \in Members(rows) /\ s.chunk_id \in DOMAIN Scores
    BY <2>4 DEF PoolOf
  <2>6. \A name \in DOMAIN AllStages : StageWeights[arm][name] # 0 => Precedes(AllStages[name], r, s)
    BY <1>1, <2>5, StagesAreShort
  <2>7. r.chunk_id \in DOMAIN Scores /\ Scores[r.chunk_id] > Scores[s.chunk_id]
    <3>1. /\ ThreeStages(AllStages)
          /\ \A name \in DOMAIN AllStages : IsShort(AllStages[name])
          /\ arm \in DOMAIN StageWeights
      BY <1>1, StagesAreShort DEF TableInv
    <3> QED
      BY <2>5, <2>6, <3>1, FusionFollowsTheStages DEF Scores
  <2>8. r \in pool
    BY <1>1, <2>7 DEF PoolOf
  <2>9. IsFiniteSet(pool) /\ \A t \in pool : Scores[t.chunk_id] \in Int
    <3>1. pool \in SUBSET Members(rows) /\ \A t \in pool : t.chunk_id \in DOMAIN Scores
      BY DEF PoolOf
    <3> QED
      BY <1>1, <3>1, ResultIsAList, FS_Subset DEF TableInv, AreCandidates, AreKeyed
  <2> HIDE DEF pool
  <2>10. /\ low \in Int /\ high \in Int
         /\ low <= Scores[s.chunk_id] /\ Scores[r.chunk_id] <= high
         /\ Scores[r.chunk_id] \in Int /\ Scores[s.chunk_id] \in Int
    BY <2>4, <2>8, <2>9, PoolHasExtremes
  <2>11. features(r) \in Nat /\ features(s) \in Nat
    BY <1>1, FeaturesAreSmall DEF TableInv
  <2>12. /\ score[r] = RerankScale * (Scores[r.chunk_id] - low) + features(r) * (high - low)
         /\ score[s] = RerankScale * (Scores[s.chunk_id] - low) + features(s) * (high - low)
    <3>1. high # low
      <4> HIDE DEF low, high
      <4> QED
        BY <2>7, <2>10
    <3> QED
      BY <1>1, <2>4, <2>8, <2>9, <3>1, RerankScoreOf DEF TableInv
  <2> HIDE DEF low, high, features, score
  <2>13. score[r] > score[s]
    <3> DEFINE f == Scores[r.chunk_id]
               g == Scores[s.chunk_id]
               a == features(r)
               b == features(s)
    <3>1. f \in Int /\ g \in Int /\ low <= g /\ g < f /\ f <= high /\ a \in Nat /\ b \in Nat /\ a >= b
      BY <1>1, <2>7, <2>10, <2>11 DEF features
    <3>2. /\ score[r] = RerankScale * (f - low) + a * (high - low)
          /\ score[s] = RerankScale * (g - low) + b * (high - low)
          /\ RerankScale \in Nat \ {0}
      BY <2>12, RankingAssumption DEF RerankScale
    <3> HIDE DEF f, g, a, b
    <3> QED
      BY <2>10, <3>1, <3>2, HigherAndNoWorse
  <2>14. PICK m \in 1..k : m < n /\ Ranked[m] = r
    BY <2>2, <2>3, <2>8, <2>13
  <2>15. DOMAIN Ranked = 1..k
    BY <2>2
  <2>16. place(r) = m /\ place(s) = n
    BY <2>2, <2>3, <2>14, <2>15
  <2> QED
    BY <2>14, <2>15, <2>16 DEF Members
<1>2. SUFFICES ASSUME IInv, pc \in {"answer", "done"}
               PROVE  UnanimousOrderStands
  BY DEF UnanimousOrderStands
<1>3. TableInv /\ retrieved = Ranked /\ stages = AllStages
  BY <1>2 DEF IInv, RunsInv, StagesInv
<1> QED
  BY <1>1, <1>3 DEF UnanimousOrderStands

\* What the stages agree on stands, for any number of passages, any distances, questions, table of
\* logarithms and arm: a passage that every stage with a weight has ahead of another, or has no
\* opinion of, and whose features are no worse, is not behind it in the result, nor cut off from it;
\* and the features never turn a fusion over.
THEOREM StagesDecide == Spec => []StagesDecideTheOrder
<1>1. IInv => StagesDecideTheOrder
  BY FeaturesBreakTies, UnanimityStands DEF StagesDecideTheOrder
<1> QED
  BY <1>1, Inductive, PTL

\* An answer is its quotes, whatever was approved of what was ranked: each is found in its document
\* where its citation says, no part number arises between two, one past the cap is a sentence, and
\* an error means a passage with nothing to see in it.
THEOREM AnswersAreQuotes == Spec => []AnswerIsItsQuotes
<1>1. ASSUME IInv
      PROVE  AnswerIsItsQuotes
  <2>1. /\ \A c \in Members(reply.citations) : Holds(c)
        /\ UngroundedPartNumbers(reply.text, reply.citations) = {}
        /\ reply.kind # "ANSWER" => reply.text = <<>>
        /\ reply.kind = "ERROR" => \E r \in Members(retrieved) : AllBlank(r.text)
    <3>1. CASE pc = "done"
      BY <1>1, <3>1 DEF IInv, ReplyInv, ReplyHolds
    <3>2. CASE pc # "done"
      <4>1. reply.kind = "none" /\ reply.text = <<>> /\ reply.citations = <<>>
        BY <1>1, <3>2 DEF IInv, ReplyInv, NoAnswer
      <4>2. Members(<<>>) = {}
        BY DEF Members
      <4> QED
        BY <4>1, <4>2, NothingInNothing
    <3> QED
      BY <3>1, <3>2
  <2>2. UnfaithfulCitations(Members(reply.citations), DocumentText) = {}
    BY <2>1 DEF UnfaithfulCitations, Holds
  <2>3. Groundedness = [ungrounded_part_numbers |-> {}, unfaithful_citations |-> {}]
    <3>1. CASE reply.kind = "ANSWER"
      BY <2>1, <2>2, <3>1 DEF Groundedness
    <3>2. CASE reply.kind # "ANSWER"
      <4>1. UngroundedPartNumbers(reply.text, <<>>) = {}
        BY <2>1, <3>2, NothingInNothing
      <4>2. UnfaithfulCitations(Members(<<>>), DocumentText) = {}
        BY DEF UnfaithfulCitations, Members
      <4> QED
        BY <3>2, <4>1, <4>2 DEF Groundedness
    <3> QED
      BY <3>1, <3>2
  <2>4. \A i \in DOMAIN reply.citations : Holds(reply.citations[i])
    BY <2>1 DEF Members
  <2>5. \A i \in DOMAIN reply.citations :
          LET quote == reply.citations[i].quote
          IN  Len(quote) > MaxQuoteChars => Len(SentenceSpans(quote)) = 1
    BY <2>4 DEF Holds
  <2> QED
    BY <2>1, <2>2, <2>3, <2>5 DEF AnswerIsItsQuotes, AllBlank
<1> QED
  BY <1>1, Inductive, PTL
=============================================================================
