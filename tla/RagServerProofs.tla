-------------------------- MODULE RagServerProofs --------------------------
(***************************************************************************)
(* Proofs about RagServer for every number of calls, threads, queries and  *)
(* documents and every score: the type invariant, that a reranked answer   *)
(* is the best of what matched, why an answer is empty, and what the       *)
(* shared attributes tell.                                                 *)
(***************************************************************************)
EXTENDS RagServer, Integers, FiniteSetTheorems, SequenceTheorems, TLAPS

-----------------------------------------------------------------------------
(* The pure steps of a search.                                             *)

\* A list without repetitions.
Distinct(s) == \A i, j \in DOMAIN s : i # j => s[i] # s[j]

\* An enumeration of a finite set is a list of all its elements.
LEMMA Enumeration ==
  ASSUME NEW S, IsFiniteSet(S), NEW s \in SetToSeqs(S)
  PROVE  /\ s \in Seq(S) /\ Len(s) = Cardinality(S) /\ Distinct(s)
         /\ ToSet(s) = S
  <1>1. Cardinality(S) \in Nat
    BY FS_CardinalityType
  <1>2. /\ s \in [1..Cardinality(S) -> S]
        /\ \A i, j \in 1..Cardinality(S) : i # j => s[i] # s[j]
    BY DEF SetToSeqs
  <1>3. s \in Seq(S) /\ Len(s) = Cardinality(S) /\ DOMAIN s = 1..Cardinality(S)
    BY <1>1, <1>2
  <1>4. s \in Injection(1..Cardinality(S), S)
    BY <1>2 DEF Injection, IsInjective
  <1>5. IsFiniteSet(1..Cardinality(S)) /\ Cardinality(1..Cardinality(S)) = Cardinality(S)
    BY <1>1, FS_Interval
  <1>6. s \in Surjection(1..Cardinality(S), S)
    BY <1>4, <1>5, FS_Injection
  <1>7. ToSet(s) = S
    BY <1>2, <1>6 DEF Surjection, ToSet
  <1> QED
    BY <1>2, <1>3, <1>7 DEF Distinct

\* First cuts a list: it is a beginning of it.
LEMMA FirstIs ==
  ASSUME NEW S, NEW s \in Seq(S), NEW k \in Nat
  PROVE  /\ First(s, k) \in Seq(S)
         /\ Len(First(s, k)) = IF k < Len(s) THEN k ELSE Len(s)
         /\ \A i \in 1..Len(First(s, k)) : First(s, k)[i] = s[i]
         /\ Len(s) <= k => First(s, k) = s
  <1>1. Len(s) \in Nat /\ \A i \in 1..Len(s) : s[i] \in S
    BY LenProperties, ElementOfSeq
  <1> DEFINE n == IF k < Len(s) THEN k ELSE Len(s)
  <1>2. n \in 0..Len(s) /\ \A i \in 1..n : s[i] \in S
    BY <1>1
  <1>3. /\ First(s, k) \in Seq(S) /\ Len(First(s, k)) = n
        /\ \A i \in 1..n : First(s, k)[i] = s[i]
    BY <1>2, SubSeqProperties DEF First
  <1>4. Len(s) <= k => First(s, k) = s
    BY <1>1, SubSeqFull DEF First
  <1> QED
    BY <1>3, <1>4

\* Some element of a set of naturals is the least.
LEMMA Least ==
  ASSUME NEW T \in SUBSET Nat, T # {}
  PROVE  \E n \in T : \A m \in T : n <= m
  <1>1. IsWellFoundedOn(OpToRel(<, Nat), Nat)
    BY NatLessThanWellFounded
  <1>2. PICK n \in T : \A m \in T : ~ (<<m, n>> \in OpToRel(<, Nat))
    BY <1>1, WFMin
  <1>3. ASSUME NEW m \in T, m < n PROVE FALSE
    <2>1. <<m, n>> \in OpToRel(<, Nat)
      BY <1>3 DEF OpToRel
    <2> QED
      BY <1>2, <2>1
  <1>4. \A m \in T : m \in Nat /\ n \in Nat
    OBVIOUS
  <1> QED
    BY <1>3, <1>4

\* Both limits leave room for a whole set of k documents, and the first of
\* any list is always fetched.
LEMMA HybridSound ==
  ASSUME NEW S \in SUBSET Docs, NEW k \in Nat \ {0}, NEW s \in Hybrid(S, k)
  PROVE  /\ s \in Seq(S) /\ Distinct(s)
         /\ S # {} => s # <<>>
         /\ Cardinality(S) <= k => ToSet(s) = S /\ Len(s) = Cardinality(S)
  <1> DEFINE Limit == 2 * k
             PosIn(e) == CHOOSE i \in DOMAIN Dense : Dense[i] = e
             Upto(d) == {e \in S : PosIn(e) <= PosIn(d)}
             P == {d \in S : Place(Dense, S, Limit, d) <= Limit
                                \/ Place(Sparse, S, Limit, d) <= Limit}
  <1>1. IsFiniteSet(Docs) /\ IsFiniteSet(S) /\ Cardinality(S) \in Nat
    BY RagServerAssumption, FS_Subset, FS_CardinalityType
  <1>2. ASSUME NEW d \in S
        PROVE  /\ IsFiniteSet(Upto(d)) /\ Cardinality(Upto(d)) \in Nat
               /\ Cardinality(Upto(d)) <= Cardinality(S)
    BY <1>1, FS_Subset, FS_CardinalityType
  <1>3. ASSUME NEW d \in S, Cardinality(Upto(d)) <= Limit PROVE d \in P
    BY <1>3 DEF Place
  <1>4. Cardinality(S) <= k => P = S
    <2> HAVE Cardinality(S) <= k
    <2> HIDE DEF PosIn, Upto
    <2>1. ASSUME NEW d \in S PROVE Cardinality(Upto(d)) <= Limit
      BY <1>1, <1>2
    <2> QED
      BY <2>1, <1>3
  <1>5. S # {} => P # {}
    <2> HAVE S # {}
    <2>1. Dense \in Seq(Docs) /\ ToSet(Dense) = Docs
      BY <1>1, Enumeration, RagServerAssumption
    <2>2. ASSUME NEW e \in Docs PROVE PosIn(e) \in Nat /\ Dense[PosIn(e)] = e
      <3>1. \E i \in DOMAIN Dense : Dense[i] = e
        BY <2>1 DEF ToSet
      <3>2. PosIn(e) \in DOMAIN Dense /\ Dense[PosIn(e)] = e
        BY <3>1
      <3> QED
        BY <3>2, <2>1, LenProperties
    <2> HIDE DEF PosIn
    <2>3. {PosIn(e) : e \in S} \in SUBSET Nat /\ {PosIn(e) : e \in S} # {}
      BY <2>2
    <2>4. PICK d \in S : \A e \in S : PosIn(d) <= PosIn(e)
      <3>1. PICK n \in {PosIn(e) : e \in S} : \A m \in {PosIn(e) : e \in S} : n <= m
        BY <2>3, Least
      <3> QED
        BY <3>1
    <2>5. Upto(d) = {d}
      <3>1. ASSUME NEW e \in Upto(d) PROVE e = d
        <4>1. PosIn(e) \in Nat /\ PosIn(d) \in Nat /\ PosIn(e) <= PosIn(d) /\ PosIn(d) <= PosIn(e)
          BY <2>2, <2>4
        <4>2. PosIn(e) = PosIn(d)
          BY <4>1
        <4> QED
          BY <4>2, <2>2
      <3>2. d \in Upto(d)
        BY <2>2
      <3> QED
        BY <3>1, <3>2
    <2>6. Cardinality(Upto(d)) = 1
      BY <2>5, FS_Singleton
    <2>7. Cardinality(Upto(d)) <= Limit
      BY <2>6
    <2> QED
      BY <2>7, <1>3 DEF PosIn
  <1> HIDE DEF PosIn
  <1>6. PICK t \in SetToSeqs(P) : s = First(t, k)
    BY DEF Hybrid
  <1>7. IsFiniteSet(P) /\ P \subseteq S /\ Cardinality(P) \in Nat
    BY <1>1, FS_Subset, FS_CardinalityType
  <1> HIDE DEF P
  <1>8. /\ t \in Seq(P) /\ Len(t) = Cardinality(P) /\ Distinct(t)
        /\ ToSet(t) = P
    BY <1>7, Enumeration
  <1>9. /\ s \in Seq(P)
        /\ Len(s) = IF k < Len(t) THEN k ELSE Len(t)
        /\ \A i \in 1..Len(s) : s[i] = t[i]
        /\ Len(t) <= k => s = t
    BY <1>6, <1>8, FirstIs
  <1>a. s \in Seq(S) /\ DOMAIN s = 1..Len(s) /\ DOMAIN t = 1..Len(t)
    BY <1>7, <1>8, <1>9, SeqMonotonic, LenProperties
  <1>b. Distinct(s)
    BY <1>7, <1>8, <1>9, <1>a DEF Distinct
  <1>c. S # {} => s # <<>>
    <2> HAVE S # {}
    <2>1. Len(t) # 0
      BY <1>5, <1>7, <1>8, FS_EmptySet
    <2> QED
      BY <2>1, <1>7, <1>8, <1>9
  <1>d. Cardinality(S) <= k => ToSet(s) = S /\ Len(s) = Cardinality(S)
    BY <1>4, <1>8, <1>9
  <1> QED
    BY <1>a, <1>b, <1>c, <1>d

\* Reranking permutes a list: counting what comes before each position is a
\* bijection of the positions, since the order is total and strict.
LEMMA RerankSorts ==
  ASSUME NEW s \in Seq(Docs)
  PROVE  \E p \in Bijection(1..Len(s), 1..Len(s)) :
           /\ Rerank(s) = [n \in 1..Len(s) |-> s[p[n]]]
           /\ \A i, j \in 1..Len(s) : i < j => Cross[s[p[i]]] >= Cross[s[p[j]]]
  <1> DEFINE D == 1..Len(s)
             Before(i, j) == \/ Cross[s[i]] > Cross[s[j]]
                             \/ Cross[s[i]] = Cross[s[j]] /\ i < j
             Ahead(i) == {j \in D : Before(j, i)}
             rank == [i \in D |-> Cardinality(Ahead(i)) + 1]
  <1>1. Len(s) \in Nat /\ DOMAIN s = D
    BY LenProperties
  <1>2. \A i \in D : i \in Nat /\ Cross[s[i]] \in Nat
    BY <1>1, ElementOfSeq, RagServerAssumption
  <1>3. IsFiniteSet(D) /\ Cardinality(D) = Len(s)
    BY <1>1, FS_Interval
  <1>4. ASSUME NEW i \in D PROVE ~ Before(i, i)
    BY <1>2
  <1>5. ASSUME NEW i \in D, NEW j \in D, i # j PROVE Before(i, j) \/ Before(j, i)
    BY <1>2, <1>5
  <1>6. ASSUME NEW i \in D, NEW j \in D, NEW l \in D, Before(i, j), Before(j, l)
        PROVE  Before(i, l)
    BY <1>2, <1>6
  <1> HIDE DEF Before, D
  <1>7. ASSUME NEW i \in D
        PROVE  /\ IsFiniteSet(Ahead(i)) /\ Cardinality(Ahead(i)) \in Nat
               /\ Cardinality(Ahead(i)) < Len(s)
    <2>1. Ahead(i) \subseteq D \ {i}
      BY <1>4
    <2>2. IsFiniteSet(D \ {i}) /\ Cardinality(D \ {i}) = Len(s) - 1
      BY <1>3, FS_RemoveElement
    <2>3. IsFiniteSet(Ahead(i)) /\ Cardinality(Ahead(i)) <= Len(s) - 1
      BY <2>1, <2>2, FS_Subset
    <2>4. Cardinality(Ahead(i)) \in Nat
      BY <2>3, FS_CardinalityType
    <2> QED
      BY <2>3, <2>4, <1>1
  <1>8. ASSUME NEW i \in D, NEW j \in D, Before(i, j)
        PROVE  Cardinality(Ahead(i)) < Cardinality(Ahead(j))
    <2>1. Ahead(i) \subseteq Ahead(j) \ {i} /\ i \in Ahead(j)
      BY <1>4, <1>6, <1>8
    <2>2. /\ IsFiniteSet(Ahead(j) \ {i})
          /\ Cardinality(Ahead(j) \ {i}) = Cardinality(Ahead(j)) - 1
      BY <2>1, <1>7, FS_RemoveElement
    <2>3. Cardinality(Ahead(i)) <= Cardinality(Ahead(j)) - 1
      BY <2>1, <2>2, FS_Subset
    <2> QED
      BY <2>3, <1>7
  <1> HIDE DEF Ahead
  <1>9. rank \in [D -> D] /\ \A i \in D : rank[i] = Cardinality(Ahead(i)) + 1
    BY <1>1, <1>7 DEF D
  <1> HIDE DEF rank
  <1>10. ASSUME NEW i \in D, NEW j \in D, rank[i] = rank[j] PROVE i = j
    <2>1. CASE Before(i, j)
      BY <2>1, <1>7, <1>8, <1>9, <1>10
    <2>2. CASE Before(j, i)
      BY <2>2, <1>7, <1>8, <1>9, <1>10
    <2> QED
      BY <2>1, <2>2, <1>5
  <1>11. rank \in Injection(D, D)
    BY <1>9, <1>10 DEF Injection, IsInjective
  <1>12. rank \in Surjection(D, D)
    BY <1>11, <1>3, FS_Injection
  <1> DEFINE p == [n \in D |-> CHOOSE i \in D : rank[i] = n]
  <1>13. ASSUME NEW n \in D PROVE p[n] \in D /\ rank[p[n]] = n
    <2>1. \E i \in D : rank[i] = n
      BY <1>12 DEF Surjection
    <2> QED
      BY <2>1
  <1>14. Rerank(s) = [n \in D |-> s[p[n]]]
    <2>1. Rerank(s) = [n \in D |-> s[CHOOSE i \in D : Cardinality(Ahead(i)) = n - 1]]
      BY <1>1 DEF Rerank, Sorted, Ahead, Before
    <2>2. ASSUME NEW n \in D
          PROVE  (CHOOSE i \in D : Cardinality(Ahead(i)) = n - 1) = p[n]
      <3> HIDE DEF p
      <3>1. ASSUME NEW i \in D PROVE Cardinality(Ahead(i)) = n - 1 <=> rank[i] = n
        <4>1. n \in Nat /\ Cardinality(Ahead(i)) \in Nat
          BY <1>1, <1>7 DEF D
        <4>2. rank[i] = Cardinality(Ahead(i)) + 1
          BY <1>9
        <4> QED
          BY <4>1, <4>2
      <3>2. p[n] = CHOOSE i \in D : rank[i] = n
        BY DEF p
      <3>3. (CHOOSE i \in D : Cardinality(Ahead(i)) = n - 1) = CHOOSE i \in D : rank[i] = n
        BY <3>1
      <3> QED
        BY <3>2, <3>3
    <2> QED
      BY <2>1, <2>2
  <1> HIDE DEF p
  <1>15. p \in [D -> D]
    BY <1>13 DEF p
  <1>16. p \in Bijection(D, D)
    <2>1. p \in Injection(D, D)
      BY <1>13, <1>15 DEF Injection, IsInjective
    <2>2. p \in Surjection(D, D)
      BY <2>1, <1>3, FS_Injection
    <2> QED
      BY <2>1, <2>2 DEF Bijection
  <1>17. ASSUME NEW i \in D, NEW j \in D, i < j
         PROVE  Cross[s[p[i]]] >= Cross[s[p[j]]]
    <2>1. p[i] \in D /\ p[j] \in D /\ rank[p[i]] = i /\ rank[p[j]] = j
      BY <1>13
    <2>2. ~ Before(p[j], p[i])
      <3> SUFFICES ASSUME Before(p[j], p[i]) PROVE FALSE
        OBVIOUS
      <3>1. Cardinality(Ahead(p[j])) < Cardinality(Ahead(p[i]))
        BY <2>1, <1>8
      <3>2. Cardinality(Ahead(p[j])) \in Nat /\ Cardinality(Ahead(p[i])) \in Nat
        BY <2>1, <1>7
      <3>3. j = Cardinality(Ahead(p[j])) + 1 /\ i = Cardinality(Ahead(p[i])) + 1
        BY <2>1, <1>9
      <3> QED
        BY <3>1, <3>2, <3>3, <1>17
    <2> QED
      BY <2>1, <2>2, <1>2 DEF Before
  <1> QED
    BY <1>14, <1>16, <1>17 DEF D

\* What the cut of a reranked list of all of S holds is the best of S.
LEMMA BestOfAll ==
  ASSUME NEW S \in SUBSET Docs, NEW s \in Seq(S), Distinct(s), ToSet(s) = S,
         Len(s) = Cardinality(S)
  PROVE  IsBest(First(Rerank(s), TopK), S)
  <1> DEFINE D == 1..Len(s)
             t == Rerank(s)
             a == First(t, TopK)
  <1>1. s \in Seq(Docs) /\ Len(s) \in Nat /\ DOMAIN s = D
    BY SeqMonotonic, LenProperties
  <1>2. PICK p \in Bijection(D, D) :
          /\ t = [n \in D |-> s[p[n]]]
          /\ \A i, j \in D : i < j => Cross[s[p[i]]] >= Cross[s[p[j]]]
    BY <1>1, RerankSorts
  <1>3. /\ p \in [D -> D] /\ \A i, j \in D : p[i] = p[j] => i = j
        /\ \A i \in D : \E n \in D : p[n] = i
    BY <1>2 DEF Bijection, Injection, Surjection, IsInjective
  <1>4. \A i \in D : s[i] \in S
    BY <1>1, ElementOfSeq
  <1>5. t \in Seq(S) /\ Len(t) = Len(s)
    <2> DEFINE u == [n \in D |-> s[p[n]]]
    <2>1. \A n \in D : s[p[n]] \in S
      BY <1>3, <1>4
    <2>2. u \in [D -> S]
      BY <2>1
    <2>3. u \in Seq(S) /\ Len(u) = Len(s)
      BY <2>2, <1>1
    <2> QED
      BY <2>3, <1>2
  <1> HIDE DEF t
  <1>6. TopK \in Nat \ {0}
    BY RagServerAssumption
  <1>7. /\ a \in Seq(S) /\ DOMAIN a = 1..Len(a) /\ Len(a) \in 0..Len(s)
        /\ Len(a) = IF TopK < Len(s) THEN TopK ELSE Len(s)
        /\ \A i \in 1..Len(a) : a[i] = t[i]
    BY <1>1, <1>5, <1>6, FirstIs, LenProperties
  <1> HIDE DEF a
  <1>8. ASSUME NEW i \in DOMAIN a
        PROVE  i \in D /\ a[i] = s[p[i]] /\ p[i] \in D
    <2>1. i \in D /\ a[i] = t[i]
      BY <1>1, <1>7
    <2> QED
      BY <2>1, <1>2, <1>3
  <1>9. ToSet(a) \subseteq S
    BY <1>4, <1>8 DEF ToSet
  <1>10. ASSUME NEW i \in DOMAIN a, NEW j \in DOMAIN a, i < j
         PROVE  a[i] # a[j] /\ Cross[a[i]] >= Cross[a[j]]
    <2>1. i # j
      BY <1>8, <1>10, <1>1
    <2>2. p[i] # p[j]
      BY <1>3, <1>8, <2>1
    <2> QED
      BY <1>1, <1>2, <1>8, <1>10, <2>2 DEF Distinct
  <1>11. ASSUME NEW i \in DOMAIN a, NEW d \in S \ ToSet(a)
         PROVE  Cross[a[i]] >= Cross[d]
    <2>1. PICK m \in D : s[m] = d
      BY <1>1 DEF ToSet
    <2>2. PICK n \in D : p[n] = m
      BY <1>3
    <2>3. n \notin DOMAIN a
      BY <1>8, <2>1, <2>2 DEF ToSet
    <2>4. i < n
      BY <1>1, <1>7, <2>3
    <2> QED
      BY <1>2, <1>8, <2>1, <2>2, <2>4
  <1>12. Len(a) = IF TopK < Cardinality(S) THEN TopK ELSE Cardinality(S)
    BY <1>7
  <1>13. IsBest(a, S)
    BY <1>9, <1>10, <1>11, <1>12 DEF IsBest
  <1> QED
    BY <1>13 DEF a, t
-----------------------------------------------------------------------------
(* The inductive invariant.                                                *)

Busy == {"count", "encode", "search", "bm25", "rerank"}

\* Calls are served only by a stack that is loaded, and it stays as it is.
ServerOK ==
  /\ \A r \in Requests : call[r].pc # "idle" => server = "serving"
  /\ server = "serving" => loader = "done"
  /\ loader = "done" => ml \in {"plain", "reranking"}

\* The lists of a call whose first n - 1 are sorted anew.
Sofar(c, n) == [q \in 1..Queries |-> IF q < n THEN Rerank(c.found[q]) ELSE c.found[q]]

\* A call that has not searched yet has nothing.
FreshOK(c) ==
  /\ c.pc \in {"idle", "queued", "count", "encode"} => c.timed = {}
  /\ c.pc \in {"search", "bm25"} => c.timed = {"encode"}
  /\ c.pc \in {"idle", "queued", "count", "encode", "search", "bm25"} =>
       c.degraded = {} /\ c.cur = 1 /\ c.results = Nothing /\ c.found = Nothing

Searched(c) == c.pc = "rerank" \/ (c.pc = "done" /\ c.timed # {})

\* A search that did not fail found what Qdrant answers on the documents seen.
FoundOK(c) ==
  Searched(c) /\ "search" \notin c.degraded =>
    /\ "sparse" \notin c.timed
    /\ \A q \in 1..Queries : c.found[q] \in Hybrid(c.seen, FetchK)

\* What became of the candidates.
RerankOK(c) ==
  /\ c.pc = "rerank" =>
       /\ c.timed # {} /\ "rerank" \notin c.timed
       /\ "rerank" \notin c.degraded
       /\ c.results = Sofar(c, c.cur)
       /\ ml = "plain" => c.cur = 1
  /\ c.pc = "done" /\ c.timed # {} =>
       \/ /\ c.results = c.found
          /\ "rerank" \notin c.timed /\ "rerank" \notin c.degraded
       \/ \E n \in 1..Queries + 1 :
            /\ ml = "reranking"
            /\ c.results = Cut(Sofar(c, n))
            /\ "rerank" \in c.timed => n = Queries + 1
            /\ "rerank" \in c.degraded => n <= Queries
  /\ c.pc = "done" /\ c.timed = {} => c.degraded = {}

CallOK(c) == FreshOK(c) /\ FoundOK(c) /\ RerankOK(c)

\* A call that no other overlapped owns the shared attributes.
AloneOK(r) ==
  call[r].alone /\ call[r].pc \in Busy \cup {"done"} =>
    /\ \A c \in Requests \ {r} : call[c].pc \notin Busy
    /\ report = call[r].degraded
    /\ call[r].pc = "done" => timing = call[r].timed

RagInv ==
  /\ TypeOK
  /\ ServerOK
  /\ \A r \in Requests : CallOK(call[r]) /\ AloneOK(r)
-----------------------------------------------------------------------------
(* Steps of the process: nobody is being served.                           *)

\* A call that has not arrived has nothing, and says nothing untrue of itself.
LEMMA IdleCallOK ==
  /\ IdleCall \in Calls /\ IdleCall.pc = "idle"
  /\ FreshOK(IdleCall) /\ ~ Searched(IdleCall)
  <1>1. {Queries, TopK, RerankFactor} \subseteq Nat \ {0}
    BY RagServerAssumption
  <1>2. Nothing \in [1..Queries -> Seq(Docs)]
    BY EmptySeq DEF Nothing
  <1>3. 1 \in 1..Queries + 1
    BY <1>1
  <1> QED
    BY <1>2, <1>3 DEF IdleCall, Calls, FreshOK, Searched

\* What no call of the retriever depends on.
LEMMA NobodyServed ==
  ASSUME call' \in [Requests -> Calls],
         \A r \in Requests : call'[r].pc = "idle" /\ FreshOK(call'[r]),
         threads' \in Threads
  PROVE  /\ Cardinality(Running') <= threads'
         /\ \A r \in Requests : CallOK(call[r])' /\ AloneOK(r)'
  <1>1. Running' = {}
    BY DEF Running
  <1>2. Cardinality(Running') = 0
    BY <1>1, FS_EmptySet
  <1>3. threads' \in Nat \ {0}
    BY RagServerAssumption
  <1>4. ASSUME NEW r \in Requests PROVE CallOK(call[r])' /\ AloneOK(r)'
    <2>1. call'[r].pc = "idle" /\ FreshOK(call'[r])
      OBVIOUS
    <2>2. FreshOK(call[r])'
      BY <2>1 DEF FreshOK, Nothing
    <2>3. FoundOK(call[r])' /\ RerankOK(call[r])'
      BY <2>1 DEF FoundOK, RerankOK, Searched
    <2>4. AloneOK(r)'
      BY <2>1 DEF AloneOK, Busy
    <2> QED
      BY <2>2, <2>3, <2>4 DEF CallOK
  <1> QED
    BY <1>2, <1>3, <1>4

\* The invariant holds when the process starts.
LEMMA InitRag == Init => RagInv
  <1> HAVE Init
  <1>1. /\ call \in [Requests -> Calls]
        /\ \A r \in Requests : call[r].pc = "idle" /\ FreshOK(call[r])
    BY IdleCallOK DEF Init
  <1>2. /\ Running = {} /\ Cardinality(Running) = 0
        /\ threads \in Threads /\ threads \in Nat \ {0}
    BY <1>1, FS_EmptySet, RagServerAssumption DEF Running, Init
  <1>3. TypeOK
    BY <1>1, <1>2 DEF TypeOK, Init
  <1>4. ServerOK
    BY <1>1 DEF ServerOK, Init
  <1>5. ASSUME NEW r \in Requests PROVE CallOK(call[r]) /\ AloneOK(r)
    BY <1>1 DEF CallOK, FoundOK, RerankOK, Searched, AloneOK, Busy
  <1> QED
    BY <1>3, <1>4, <1>5 DEF RagInv

\* The loader and the event loop move on only while nobody is served.
LEMMA StartupKeeps ==
  ASSUME RagInv, LoadModels \/ Connect \/ Create \/ Publish \/ Serve \/ Refuse \/ Exit
  PROVE  RagInv'
  <1>1. TypeOK /\ ServerOK /\ \A r \in Requests : CallOK(call[r])
    BY DEF RagInv
  <1>2. server # "serving" /\ UNCHANGED <<call, report, timing, store>>
    BY <1>1 DEF ServerOK, LoadModels, Connect, Create, Publish, Serve, Refuse, Exit, Load,
       process, shared, collection
  <1>3. /\ call' \in [Requests -> Calls]
        /\ \A r \in Requests : call'[r].pc = "idle" /\ FreshOK(call'[r])
    BY <1>1, <1>2 DEF ServerOK, CallOK, TypeOK
  <1>4. /\ server' \in {"starting", "serving", "refused", "gone"}
        /\ loader' \in {"models", "connect", "create", "reranker", "done", "failed"}
        /\ ml' \in {"none", "plain", "reranking"}
        /\ threads' \in Threads
        /\ exists' \in BOOLEAN /\ (exists => exists')
    BY <1>1 DEF TypeOK, LoadModels, Connect, Create, Publish, Serve, Refuse, Exit, Load,
       process, shared, collection
  <1>5. /\ server' = "serving" => loader' = "done"
        /\ loader' = "done" => ml' \in {"plain", "reranking"}
    BY <1>1, <1>2 DEF ServerOK, LoadModels, Connect, Create, Publish, Serve, Refuse, Exit, Load,
       process, shared, collection
  <1>6. ServerOK'
    BY <1>3, <1>5 DEF ServerOK
  <1>7. /\ Cardinality(Running') <= threads'
        /\ \A r \in Requests : CallOK(call[r])' /\ AloneOK(r)'
    BY <1>3, <1>4, NobodyServed
  <1>8. TypeOK'
    BY <1>1, <1>2, <1>3, <1>4, <1>7 DEF TypeOK
  <1> QED
    BY <1>6, <1>7, <1>8 DEF RagInv

\* A process that ends takes its calls with it.
LEMMA KillKeeps ==
  ASSUME RagInv, Kill \/ Restart
  PROVE  RagInv'
  <1>1. TypeOK /\ ServerOK
    BY DEF RagInv
  <1>2. call' = [r \in Requests |-> IdleCall]
    BY DEF Kill, Restart
  <1>3. /\ call' \in [Requests -> Calls]
        /\ \A r \in Requests : call'[r].pc = "idle" /\ FreshOK(call'[r])
    BY <1>2, IdleCallOK
  <1>4. threads' \in Threads
    BY <1>1 DEF TypeOK, Kill, Restart
  <1>8. /\ Cardinality(Running') <= threads'
        /\ \A r \in Requests : CallOK(call[r])' /\ AloneOK(r)'
    BY <1>3, <1>4, NobodyServed
  <1>5. ServerOK'
    BY <1>1, <1>3 DEF ServerOK, Kill, Restart
  <1>6. /\ server' \in {"starting", "gone"} /\ loader' \in {loader, "models"}
        /\ ml' \in {ml, "none"} /\ UNCHANGED <<exists, store>>
        /\ report' \in {report, {}} /\ timing' \in {timing, {}}
    BY DEF Kill, Restart, collection, shared
  <1>7. TypeOK'
    BY <1>1, <1>3, <1>4, <1>6, <1>8 DEF TypeOK
  <1> QED
    BY <1>5, <1>7, <1>8 DEF RagInv

\* Index runs change the collection only.
LEMMA IndexKeeps ==
  ASSUME RagInv, Index
  PROVE  RagInv'
  <1>1. TypeOK /\ ServerOK /\ \A r \in Requests : CallOK(call[r]) /\ AloneOK(r)
    BY DEF RagInv
  <1>2. UNCHANGED <<server, loader, ml, threads, call, report, timing>>
    BY DEF Index, process, shared
  <1>3. exists' = TRUE /\ store' \subseteq Docs
    BY <1>1 DEF Index, TypeOK
  <1>4. Running' = Running
    BY <1>2 DEF Running
  <1>5. TypeOK'
    BY <1>1, <1>2, <1>3, <1>4 DEF TypeOK
  <1>6. ServerOK'
    BY <1>1, <1>2 DEF ServerOK
  <1>7. ASSUME NEW r \in Requests PROVE CallOK(call[r])' /\ AloneOK(r)'
    <2>1. CallOK(call[r]) /\ AloneOK(r)
      BY <1>1
    <2>2. CallOK(call[r])'
      BY <2>1, <1>2 DEF CallOK, FreshOK, FoundOK, RerankOK, Searched, FetchK, Nothing, Sofar, Cut
    <2>3. AloneOK(r)'
      BY <2>1, <1>2 DEF AloneOK
    <2> QED
      BY <2>2, <2>3
  <1> QED
    BY <1>5, <1>6, <1>7 DEF RagInv
-----------------------------------------------------------------------------
(* Steps of one call.                                                      *)

\* A step in which call r becomes c.
Becomes(r, c) == call' = [call EXCEPT ![r] = c] /\ UNCHANGED <<process, collection>>

\* What remains to be shown of a step in which a call in a thread, or one that
\* does not touch the attributes, becomes c.
LEMMA Becoming ==
  ASSUME RagInv, NEW r \in Requests, NEW c \in Calls, Becomes(r, c),
         server = "serving", CallOK(c),
         report' \subseteq {"search", "rerank"},
         timing' \subseteq {"encode", "search", "dense", "sparse", "rerank", "rerank_failed"},
         c.pc \in Busy => call[r].pc \in Busy,
         call[r].pc \notin Busy => UNCHANGED shared /\ c.pc # "done",
         call[r].pc \in Busy /\ c.alone /\ report = call[r].degraded
           => /\ call[r].alone /\ report' = c.degraded
              /\ c.pc = "done" => timing' = c.timed,
         call[r].pc \in Busy => c.alone = call[r].alone
  PROVE  RagInv'
  <1>1. TypeOK /\ ServerOK /\ \A s \in Requests : CallOK(call[s]) /\ AloneOK(s)
    BY DEF RagInv
  <1>2. /\ call' = [call EXCEPT ![r] = c]
        /\ UNCHANGED <<server, loader, ml, threads, exists, store>>
    BY DEF Becomes, process, collection
  <1>3. /\ call' \in [Requests -> Calls] /\ call'[r] = c
        /\ \A s \in Requests \ {r} : call'[s] = call[s]
    BY <1>1, <1>2 DEF TypeOK
  <1>4. /\ Running = {s \in Requests : call[s].pc \in Busy}
        /\ Running' = {s \in Requests : call'[s].pc \in Busy}
    BY <1>1, <1>3 DEF TypeOK, Calls, Running, Busy
  <1>5. Running' \subseteq Running
    BY <1>3, <1>4
  <1>6. IsFiniteSet(Running) /\ Cardinality(Running) <= threads /\ threads \in Nat
    BY <1>1, FS_Subset, RagServerAssumption DEF TypeOK, Running
  <1>7. Cardinality(Running') <= threads'
    BY <1>2, <1>5, <1>6, FS_Subset, FS_CardinalityType
  <1>8. TypeOK'
    BY <1>1, <1>2, <1>3, <1>7 DEF TypeOK
  <1>9. ServerOK'
    BY <1>1, <1>2, <1>3 DEF ServerOK
  <1>10. ASSUME NEW s \in Requests PROVE CallOK(call[s])'
    <2>1. CallOK(call'[s])
      BY <1>1, <1>3
    <2>2. CallOK(call[s])'
      BY <2>1, <1>2 DEF CallOK, FreshOK, FoundOK, RerankOK, Searched, FetchK, Nothing, Sofar, Cut
    <2> QED
      BY <2>2
  <1>11. AloneOK(r)'
    <2>1. AloneOK(r)
      BY <1>1
    <2>2. CASE call[r].pc \in Busy
      BY <2>1, <2>2, <1>3 DEF AloneOK
    <2>3. CASE call[r].pc \notin Busy
      BY <2>3, <1>3 DEF AloneOK
    <2> QED
      BY <2>2, <2>3
  <1>12. ASSUME NEW s \in Requests \ {r} PROVE AloneOK(s)'
    <2>1. AloneOK(s)
      BY <1>1
    <2>2. CASE call[r].pc \in Busy
      BY <2>1, <2>2, <1>3 DEF AloneOK
    <2>3. CASE call[r].pc \notin Busy
      BY <2>1, <2>3, <1>3 DEF AloneOK, shared
    <2> QED
      BY <2>2, <2>3
  <1> QED
    BY <1>8, <1>9, <1>10, <1>11, <1>12 DEF RagInv

\* The facts about one call that its steps use.
LEMMA OfCall ==
  ASSUME RagInv, NEW r \in Requests
  PROVE  /\ call \in [Requests -> Calls] /\ call[r] \in Calls /\ CallOK(call[r])
         /\ report \subseteq {"search", "rerank"}
         /\ timing \subseteq {"encode", "search", "dense", "sparse", "rerank", "rerank_failed"}
         /\ call[r].pc # "idle" => server = "serving"
  BY DEF RagInv, TypeOK, ServerOK

\* The endpoint queues a call without touching the retriever.
LEMMA ArriveKeeps ==
  ASSUME RagInv, NEW r \in Requests, NEW match \in Matches, Arrive(r, match)
  PROVE  RagInv'
  <1> DEFINE c == [call[r] EXCEPT !.pc = "queued", !.match = match]
  <1>1. /\ call \in [Requests -> Calls] /\ call[r] \in Calls /\ CallOK(call[r])
        /\ report \subseteq {"search", "rerank"}
        /\ timing \subseteq {"encode", "search", "dense", "sparse", "rerank", "rerank_failed"}
    BY OfCall
  <1>2. call[r].pc = "idle" /\ server = "serving" /\ match \in SUBSET Docs
    BY RagServerAssumption DEF Arrive, At
  <1>3. Becomes(r, c) /\ UNCHANGED shared
    BY <1>1 DEF Arrive, Becomes
  <1>4. c \in Calls /\ c.pc = "queued"
    BY <1>1, <1>2 DEF Calls
  <1>5. CallOK(c)
    BY <1>1, <1>2 DEF Calls, CallOK, FreshOK, FoundOK, RerankOK, Searched
  <1> HIDE DEF c
  <1> QED
    BY <1>1, <1>2, <1>3, <1>4, <1>5, Becoming DEF Busy, shared

\* A call that raises leaves its thread and claims nothing any more.
LEMMA RaiseKeeps ==
  ASSUME RagInv, NEW r \in Requests, Raise(r)
  PROVE  RagInv'
  <1> DEFINE c == [call[r] EXCEPT !.pc = "raised"]
  <1>1. /\ call \in [Requests -> Calls] /\ call[r] \in Calls /\ CallOK(call[r])
        /\ report \subseteq {"search", "rerank"}
        /\ timing \subseteq {"encode", "search", "dense", "sparse", "rerank", "rerank_failed"}
        /\ call[r].pc # "idle" => server = "serving"
    BY OfCall
  <1>2. call[r].pc \in {"count", "encode"}
    BY DEF Raise, At
  <1>3. Becomes(r, c) /\ UNCHANGED shared
    BY <1>1 DEF Raise, Becomes
  <1>4. c \in Calls /\ c.pc = "raised" /\ c.alone = call[r].alone /\ c.degraded = call[r].degraded
    BY <1>1, <1>2 DEF Calls
  <1>5. CallOK(c)
    BY <1>4 DEF CallOK, FreshOK, FoundOK, RerankOK, Searched
  <1> HIDE DEF c
  <1> QED
    BY <1>1, <1>2, <1>3, <1>4, <1>5, Becoming DEF Busy, shared

\* Answering forgets the call.
LEMMA RespondKeeps ==
  ASSUME RagInv, NEW r \in Requests, Respond(r)
  PROVE  RagInv'
  <1>1. /\ call \in [Requests -> Calls]
        /\ report \subseteq {"search", "rerank"}
        /\ timing \subseteq {"encode", "search", "dense", "sparse", "rerank", "rerank_failed"}
        /\ call[r].pc # "idle" => server = "serving"
    BY OfCall
  <1>2. call[r].pc \in {"done", "raised"}
    BY DEF Respond, At
  <1>3. Becomes(r, IdleCall) /\ UNCHANGED shared
    BY DEF Respond, Becomes
  <1>4. CallOK(IdleCall)
    BY IdleCallOK DEF CallOK, FoundOK, RerankOK, Searched
  <1> QED
    BY <1>1, <1>2, <1>3, <1>4, IdleCallOK, Becoming DEF Busy, shared

\* An empty collection ends the call with an empty timing.
LEMMA CountKeeps ==
  ASSUME RagInv, NEW r \in Requests, Count(r)
  PROVE  RagInv'
  <1>1. /\ call \in [Requests -> Calls] /\ call[r] \in Calls /\ CallOK(call[r])
        /\ report \subseteq {"search", "rerank"}
        /\ timing \subseteq {"encode", "search", "dense", "sparse", "rerank", "rerank_failed"}
        /\ call[r].pc # "idle" => server = "serving"
    BY OfCall
  <1>2. call[r].pc = "count" /\ call[r].timed = {} /\ call[r].degraded = {}
    BY <1>1 DEF Count, At, CallOK, FreshOK
  <1>3. PICK pc \in {"done", "encode"} :
          /\ call' = [call EXCEPT ![r].pc = pc]
          /\ timing' = IF pc = "done" THEN {} ELSE timing
    BY DEF Count
  <1> DEFINE c == [call[r] EXCEPT !.pc = pc]
  <1>4. Becomes(r, c) /\ UNCHANGED report
    BY <1>1, <1>3 DEF Count, Becomes
  <1>5. /\ c \in Calls /\ c.pc = pc /\ c.alone = call[r].alone
        /\ c.degraded = {} /\ c.timed = {}
    BY <1>1, <1>2 DEF Calls
  <1>6. CallOK(c)
    BY <1>1, <1>2, <1>5 DEF Calls, CallOK, FreshOK, FoundOK, RerankOK, Searched
  <1> HIDE DEF c
  <1> QED
    BY <1>1, <1>2, <1>3, <1>4, <1>5, <1>6, Becoming DEF Busy

\* With or without vectors, only the encoding was timed.
LEMMA EncodeKeeps ==
  ASSUME RagInv, NEW r \in Requests, Encode(r)
  PROVE  RagInv'
  <1>1. /\ call \in [Requests -> Calls] /\ call[r] \in Calls /\ CallOK(call[r])
        /\ report \subseteq {"search", "rerank"}
        /\ timing \subseteq {"encode", "search", "dense", "sparse", "rerank", "rerank_failed"}
        /\ call[r].pc # "idle" => server = "serving"
    BY OfCall
  <1>2. call[r].pc = "encode"
    BY DEF Encode, At
  <1>3. PICK pc \in {"search", "bm25"} :
          call' = [call EXCEPT ![r].pc = pc, ![r].timed = {"encode"}]
    BY DEF Encode
  <1> DEFINE c == [call[r] EXCEPT !.pc = pc, !.timed = {"encode"}]
  <1>4. Becomes(r, c) /\ UNCHANGED shared
    BY <1>1, <1>3 DEF Encode, Becomes
  <1>5. /\ c \in Calls /\ c.pc = pc /\ c.alone = call[r].alone
        /\ c.degraded = call[r].degraded
    BY <1>1 DEF Calls
  <1>6. CallOK(c)
    BY <1>1, <1>2, <1>5 DEF Calls, CallOK, FreshOK, FoundOK, RerankOK, Searched
  <1> HIDE DEF c
  <1> QED
    BY <1>1, <1>2, <1>4, <1>5, <1>6, Becoming DEF Busy, shared

\* Reranking and cutting keep a list a list of documents.
LEMMA Lists ==
  ASSUME NEW s \in Seq(Docs)
  PROVE  /\ Rerank(s) \in Seq(Docs) /\ Len(Rerank(s)) = Len(s)
         /\ First(s, TopK) \in Seq(Docs)
         /\ First(s, TopK) = <<>> => s = <<>>
  <1>1. Len(s) \in Nat /\ \A i \in 1..Len(s) : s[i] \in Docs
    BY LenProperties, ElementOfSeq
  <1>2. PICK p \in [1..Len(s) -> 1..Len(s)] : Rerank(s) = [n \in 1..Len(s) |-> s[p[n]]]
    BY RerankSorts DEF Bijection, Injection
  <1> DEFINE u == [n \in 1..Len(s) |-> s[p[n]]]
  <1>3. u \in [1..Len(s) -> Docs]
    BY <1>1
  <1>4. u \in Seq(Docs) /\ Len(u) = Len(s)
    BY <1>1, <1>3
  <1>5. TopK \in Nat \ {0}
    BY RagServerAssumption
  <1>6. First(s, TopK) \in Seq(Docs) /\ Len(First(s, TopK)) = IF TopK < Len(s) THEN TopK ELSE Len(s)
    BY <1>5, FirstIs
  <1>7. First(s, TopK) = <<>> => s = <<>>
    BY <1>1, <1>5, <1>6, EmptySeq
  <1> QED
    BY <1>2, <1>4, <1>6, <1>7

\* Half reranked candidates are lists of documents, also when they are cut.
LEMMA SofarLists ==
  ASSUME NEW c \in Calls, NEW n \in Nat
  PROVE  Sofar(c, n) \in [1..Queries -> Seq(Docs)] /\ Cut(Sofar(c, n)) \in [1..Queries -> Seq(Docs)]
  <1>1. \A q \in 1..Queries : c.found[q] \in Seq(Docs)
    BY DEF Calls
  <1>2. \A q \in 1..Queries : Sofar(c, n)[q] \in Seq(Docs)
    BY <1>1, Lists DEF Sofar
  <1>3. \A q \in 1..Queries : Cut(Sofar(c, n))[q] \in Seq(Docs)
    BY <1>2, Lists DEF Cut
  <1> QED
    BY <1>2, <1>3 DEF Sofar, Cut

\* What a search finds are answers of Qdrant on the documents of that moment.
LEMMA SearchHybridKeeps ==
  ASSUME RagInv, NEW r \in Requests, SearchHybrid(r)
  PROVE  RagInv'
  <1>1. /\ call \in [Requests -> Calls] /\ call[r] \in Calls /\ CallOK(call[r])
        /\ report \subseteq {"search", "rerank"}
        /\ timing \subseteq {"encode", "search", "dense", "sparse", "rerank", "rerank_failed"}
        /\ call[r].pc # "idle" => server = "serving"
    BY OfCall
  <1>2. call[r].pc = "search" /\ call[r].timed = {"encode"} /\ call[r].cur = 1
        /\ call[r].degraded = {}
    BY <1>1 DEF SearchHybrid, At, CallOK, FreshOK
  <1> DEFINE S == store \cap call[r].match
  <1>3. PICK results \in [1..Queries -> Hybrid(S, FetchK)] : Found(r, results)
    BY DEF SearchHybrid
  <1> DEFINE c == [call[r] EXCEPT !.pc = "rerank", !.results = results, !.found = results,
                                  !.seen = S, !.timed = @ \cup {"search"}]
  <1>4. Becomes(r, c) /\ UNCHANGED shared
    BY <1>1, <1>3 DEF SearchHybrid, Becomes, Found
  <1>5. S \in SUBSET Docs /\ FetchK \in Nat \ {0}
    <2>1. call[r].match \in SUBSET Docs
      BY <1>1 DEF Calls
    <2>2. {TopK, RerankFactor} \subseteq Nat \ {0}
      BY RagServerAssumption
    <2>3. TopK * RerankFactor \in Nat \ {0}
      BY <2>2
    <2> QED
      BY <2>1, <2>2, <2>3 DEF FetchK
  <1>6. results \in [1..Queries -> Seq(Docs)]
    <2>1. \A q \in 1..Queries : results[q] \in Hybrid(S, FetchK)
      BY <1>3
    <2> HIDE DEF S
    <2>2. ASSUME NEW q \in 1..Queries PROVE results[q] \in Seq(Docs)
      <3>1. results[q] \in Seq(S)
        BY <2>1, <1>5, HybridSound
      <3> QED
        BY <3>1, <1>5, SeqMonotonic
    <2> QED
      BY <2>2, <1>3
  <1>7. c \in Calls
    BY <1>1, <1>2, <1>5, <1>6 DEF Calls
  <1>8. /\ c.pc = "rerank" /\ c.alone = call[r].alone /\ c.degraded = {} /\ c.cur = 1
        /\ c.results = results /\ c.found = results /\ c.seen = S
        /\ c.timed = {"encode", "search"}
    BY <1>1, <1>2 DEF Calls
  <1> HIDE DEF c, S
  <1>9. Sofar(c, 1) = results
    BY <1>8, <1>6 DEF Sofar
  <1>10. CallOK(c)
    BY <1>3, <1>8, <1>9 DEF CallOK, FreshOK, FoundOK, RerankOK, Searched
  <1> QED
    BY <1>1, <1>2, <1>4, <1>7, <1>8, <1>10, Becoming DEF Busy, shared

\* A failed search is reported, and leaves nothing to rerank.
LEMMA SearchFailsKeeps ==
  ASSUME RagInv, NEW r \in Requests, SearchFails(r)
  PROVE  RagInv'
  <1>1. /\ call \in [Requests -> Calls] /\ call[r] \in Calls /\ CallOK(call[r])
        /\ report \subseteq {"search", "rerank"}
        /\ timing \subseteq {"encode", "search", "dense", "sparse", "rerank", "rerank_failed"}
        /\ call[r].pc # "idle" => server = "serving"
    BY OfCall
  <1>2. /\ call[r].pc \in {"search", "bm25"} /\ call[r].timed = {"encode"} /\ call[r].cur = 1
        /\ call[r].degraded = {} /\ call[r].results = Nothing /\ call[r].found = Nothing
    BY <1>1 DEF SearchFails, At, CallOK, FreshOK
  <1> DEFINE tried == (IF At(r, "search") THEN {"search", "dense"} ELSE {}) \cup {"sparse"}
             c == [call[r] EXCEPT !.pc = "rerank", !.timed = @ \cup tried,
                                  !.degraded = {"search"}]
  <1>3. Becomes(r, c) /\ report' = report \cup {"search"} /\ UNCHANGED timing
    BY <1>1 DEF SearchFails, Becomes
  <1>4. tried \subseteq {"search", "dense", "sparse"}
    OBVIOUS
  <1> HIDE DEF tried
  <1>5. c \in Calls
    BY <1>1, <1>2, <1>4 DEF Calls
  <1>6. /\ c.pc = "rerank" /\ c.alone = call[r].alone /\ c.degraded = {"search"} /\ c.cur = 1
        /\ c.results = Nothing /\ c.found = Nothing
        /\ c.timed = {"encode"} \cup tried
    BY <1>1, <1>2 DEF Calls
  <1> HIDE DEF c
  <1>7. Sofar(c, 1) = Nothing
    BY <1>6 DEF Sofar, Nothing
  <1>8. CallOK(c)
    BY <1>4, <1>6, <1>7 DEF CallOK, FreshOK, FoundOK, RerankOK, Searched
  <1> QED
    BY <1>1, <1>2, <1>3, <1>5, <1>6, <1>8, Becoming DEF Busy

\* Without a reranker the call returns what it found.
LEMMA NoRerankerKeeps ==
  ASSUME RagInv, NEW r \in Requests, NoReranker(r)
  PROVE  RagInv'
  <1>1. /\ call \in [Requests -> Calls] /\ call[r] \in Calls /\ CallOK(call[r])
        /\ report \subseteq {"search", "rerank"}
        /\ timing \subseteq {"encode", "search", "dense", "sparse", "rerank", "rerank_failed"}
        /\ call[r].pc # "idle" => server = "serving"
    BY OfCall
  <1>2. call[r].pc = "rerank" /\ ml = "plain"
    BY DEF NoReranker, At
  <1> DEFINE c == [call[r] EXCEPT !.pc = "done"]
  <1>3. Becomes(r, c) /\ timing' = call[r].timed /\ UNCHANGED report
    BY <1>1 DEF NoReranker, Becomes, Return, Calls
  <1>4. c \in Calls
    BY <1>1 DEF Calls
  <1>5. /\ c.pc = "done" /\ c.alone = call[r].alone /\ c.degraded = call[r].degraded
        /\ c.results = call[r].results /\ c.found = call[r].found /\ c.timed = call[r].timed
        /\ c.seen = call[r].seen /\ c.timed \subseteq
               {"encode", "search", "dense", "sparse", "rerank", "rerank_failed"}
    BY <1>1 DEF Calls
  <1>6. FoundOK(c) /\ FreshOK(c)
    BY <1>1, <1>2, <1>5 DEF CallOK, FoundOK, FreshOK, Searched
  <1>7. RerankOK(c)
    <2>1. call[r].results = Sofar(call[r], 1)
      BY <1>1, <1>2 DEF CallOK, RerankOK
    <2>2. Sofar(call[r], 1) = call[r].found
      <3>1. call[r].found \in [1..Queries -> Seq(Docs)]
        BY <1>1 DEF Calls
      <3>2. \A q \in 1..Queries : ~ (q < 1)
        OBVIOUS
      <3> QED
        BY <3>1, <3>2 DEF Sofar
    <2>3. "rerank" \notin call[r].timed /\ "rerank" \notin call[r].degraded /\ call[r].timed # {}
      BY <1>1, <1>2 DEF CallOK, RerankOK
    <2> QED
      BY <2>1, <2>2, <2>3, <1>5 DEF RerankOK
  <1> HIDE DEF c
  <1> QED
    BY <1>1, <1>2, <1>3, <1>4, <1>5, <1>6, <1>7, Becoming DEF Busy, CallOK

\* One more query of the call is sorted, the others stay as they are.
LEMMA RerankNextKeeps ==
  ASSUME RagInv, NEW r \in Requests, RerankNext(r)
  PROVE  RagInv'
  <1>1. /\ call \in [Requests -> Calls] /\ call[r] \in Calls /\ CallOK(call[r])
        /\ report \subseteq {"search", "rerank"}
        /\ timing \subseteq {"encode", "search", "dense", "sparse", "rerank", "rerank_failed"}
        /\ call[r].pc # "idle" => server = "serving"
    BY OfCall
  <1>2. /\ call[r].pc = "rerank" /\ ml = "reranking" /\ call[r].cur \in 1..Queries
        /\ call[r].results \in [1..Queries -> Seq(Docs)] /\ Queries \in Nat
    BY <1>1, RagServerAssumption DEF RerankNext, At, Calls
  <1> DEFINE k == call[r].cur
             results == [call[r].results EXCEPT ![k] = Rerank(@)]
             c == [call[r] EXCEPT !.results = results, !.cur = k + 1]
  <1>3. Becomes(r, c) /\ UNCHANGED shared
    BY <1>1 DEF RerankNext, Becomes, Calls
  <1>4. results \in [1..Queries -> Seq(Docs)]
    BY <1>2, Lists
  <1>5. call[r].results = Sofar(call[r], k)
    BY <1>1, <1>2 DEF CallOK, RerankOK
  <1>6. results = Sofar(call[r], k + 1)
    <2>1. ASSUME NEW q \in 1..Queries PROVE results[q] = Sofar(call[r], k + 1)[q]
      <3>1. CASE q = k
        BY <3>1, <1>2, <1>5 DEF Sofar
      <3>2. CASE q # k
        BY <3>2, <1>2, <1>5 DEF Sofar
      <3> QED
        BY <3>1, <3>2
    <2> QED
      BY <2>1, <1>4 DEF Sofar
  <1> HIDE DEF results
  <1>7. c \in Calls
    <2>1. k + 1 \in 1..Queries + 1
      BY <1>2
    <2> QED
      BY <1>1, <1>4, <2>1 DEF Calls
  <1>8. /\ c.pc = "rerank" /\ c.alone = call[r].alone /\ c.degraded = call[r].degraded
        /\ c.cur = k + 1 /\ c.results = results /\ c.found = call[r].found
        /\ c.seen = call[r].seen /\ c.timed = call[r].timed
    BY <1>1, <1>2 DEF Calls
  <1> HIDE DEF c
  <1>9. Sofar(c, k + 1) = Sofar(call[r], k + 1)
    BY <1>8 DEF Sofar
  <1>10. FoundOK(c) /\ FreshOK(c)
    BY <1>1, <1>2, <1>8 DEF CallOK, FoundOK, FreshOK, Searched
  <1>11. RerankOK(c)
    BY <1>1, <1>2, <1>6, <1>8, <1>9 DEF CallOK, RerankOK
  <1> QED
    BY <1>1, <1>2, <1>3, <1>7, <1>8, <1>10, <1>11, Becoming DEF Busy, CallOK, shared

\* The last query was sorted: all are cut.
LEMMA RerankedKeeps ==
  ASSUME RagInv, NEW r \in Requests, Reranked(r)
  PROVE  RagInv'
  <1>1. /\ call \in [Requests -> Calls] /\ call[r] \in Calls /\ CallOK(call[r])
        /\ report \subseteq {"search", "rerank"}
        /\ timing \subseteq {"encode", "search", "dense", "sparse", "rerank", "rerank_failed"}
        /\ call[r].pc # "idle" => server = "serving"
    BY OfCall
  <1>2. /\ call[r].pc = "rerank" /\ ml = "reranking" /\ call[r].cur = Queries + 1
        /\ Queries \in Nat \ {0}
    BY <1>1, RagServerAssumption DEF Reranked, At, Calls
  <1> DEFINE results == Cut(call[r].results)
             timed == call[r].timed \cup {"rerank"}
             c == [call[r] EXCEPT !.pc = "done", !.results = results, !.timed = timed]
  <1>3. Becomes(r, c) /\ timing' = timed /\ UNCHANGED report
    BY <1>1 DEF Reranked, Return, Becomes, Calls
  <1>4. results = Cut(Sofar(call[r], Queries + 1))
    BY <1>1, <1>2 DEF CallOK, RerankOK
  <1>5. results \in [1..Queries -> Seq(Docs)]
    BY <1>1, <1>2, <1>4, SofarLists
  <1> HIDE DEF results
  <1>6. c \in Calls
    BY <1>1, <1>2, <1>5 DEF Calls
  <1>7. /\ c.pc = "done" /\ c.alone = call[r].alone /\ c.degraded = call[r].degraded
        /\ c.results = results /\ c.found = call[r].found
        /\ c.seen = call[r].seen /\ c.timed = timed
        /\ timed \subseteq {"encode", "search", "dense", "sparse", "rerank", "rerank_failed"}
    BY <1>1, <1>2 DEF Calls
  <1> HIDE DEF c
  <1>8. Sofar(c, Queries + 1) = Sofar(call[r], Queries + 1)
    BY <1>7 DEF Sofar
  <1>9. FoundOK(c) /\ FreshOK(c)
    BY <1>1, <1>2, <1>7 DEF CallOK, FoundOK, FreshOK, Searched
  <1>10. "rerank" \notin c.degraded
    BY <1>1, <1>2, <1>7 DEF CallOK, RerankOK
  <1>11. RerankOK(c)
    <2>1. Queries + 1 \in 1..Queries + 1
      BY <1>2
    <2> QED
      BY <2>1, <1>2, <1>4, <1>7, <1>8, <1>10 DEF RerankOK
  <1> QED
    BY <1>1, <1>2, <1>3, <1>6, <1>7, <1>9, <1>11, Becoming DEF Busy, CallOK

\* The queries before the failing one are cut as sorted, the others as found.
LEMMA RerankFailsKeeps ==
  ASSUME RagInv, NEW r \in Requests, RerankFails(r)
  PROVE  RagInv'
  <1>1. /\ call \in [Requests -> Calls] /\ call[r] \in Calls /\ CallOK(call[r])
        /\ report \subseteq {"search", "rerank"}
        /\ timing \subseteq {"encode", "search", "dense", "sparse", "rerank", "rerank_failed"}
        /\ call[r].pc # "idle" => server = "serving"
    BY OfCall
  <1>2. /\ call[r].pc = "rerank" /\ ml = "reranking" /\ call[r].cur \in 1..Queries
        /\ Queries \in Nat \ {0}
    BY <1>1, RagServerAssumption DEF RerankFails, At, Calls
  <1> DEFINE k == call[r].cur
             results == Cut(call[r].results)
             timed == call[r].timed \cup {"rerank_failed"}
             degraded == call[r].degraded \cup {"rerank"}
             c == [call[r] EXCEPT !.pc = "done", !.degraded = degraded,
                                  !.results = results, !.timed = timed]
  <1>3. call' = [call EXCEPT ![r] = c]
    BY <1>1 DEF RerankFails, Calls
  <1>4. results = Cut(Sofar(call[r], k))
    BY <1>1, <1>2 DEF CallOK, RerankOK
  <1>5. results \in [1..Queries -> Seq(Docs)]
    BY <1>1, <1>2, <1>4, SofarLists
  <1> HIDE DEF results
  <1>6. c \in Calls
    BY <1>1, <1>2, <1>5 DEF Calls
  <1>7. /\ c.pc = "done" /\ c.alone = call[r].alone /\ c.degraded = degraded
        /\ c.results = results /\ c.found = call[r].found
        /\ c.seen = call[r].seen /\ c.timed = timed
        /\ timed \subseteq {"encode", "search", "dense", "sparse", "rerank", "rerank_failed"}
    BY <1>1, <1>2 DEF Calls
  <1> HIDE DEF c
  <1>8. Becomes(r, c) /\ timing' = timed /\ report' = report \cup {"rerank"}
    BY <1>1, <1>3, <1>7 DEF RerankFails, Becomes
  <1>9. Sofar(c, k) = Sofar(call[r], k)
    BY <1>7 DEF Sofar
  <1>10. FoundOK(c) /\ FreshOK(c)
    BY <1>1, <1>2, <1>7 DEF CallOK, FoundOK, FreshOK, Searched
  <1>11. "rerank" \notin c.timed
    BY <1>1, <1>2, <1>7 DEF CallOK, RerankOK
  <1>12. RerankOK(c)
    <2>1. k \in 1..Queries + 1 /\ k <= Queries
      BY <1>2
    <2> QED
      BY <2>1, <1>2, <1>4, <1>7, <1>9, <1>11 DEF RerankOK
  <1> QED
    BY <1>1, <1>2, <1>6, <1>7, <1>8, <1>10, <1>12, Becoming DEF Busy, CallOK

\* A call that gets a thread clears the attributes; nobody is alone beside it.
LEMMA BeginClears ==
  ASSUME RagInv, NEW r \in Requests, Begin(r)
  PROVE  RagInv'
  <1>1. TypeOK /\ ServerOK /\ \A s \in Requests : CallOK(call[s]) /\ AloneOK(s)
    BY DEF RagInv
  <1>2. /\ call \in [Requests -> Calls] /\ \A s \in Requests : call[s] \in Calls
        /\ call[r].pc = "queued" /\ Cardinality(Running) < threads
        /\ report' = {} /\ UNCHANGED <<server, loader, ml, threads, exists, store, timing>>
    BY <1>1 DEF TypeOK, Begin, At, process, collection
  <1>3. ASSUME NEW s \in Requests
        PROVE  call'[s] = IF s = r THEN [call[r] EXCEPT !.pc = "count", !.alone = Running = {}]
                          ELSE [call[s] EXCEPT !.alone = FALSE]
    BY DEF Begin
  <1>4. ASSUME NEW s \in Requests
        PROVE  /\ call'[s] \in Calls
               /\ call'[s].pc = IF s = r THEN "count" ELSE call[s].pc
               /\ call'[s].alone = IF s = r THEN Running = {} ELSE FALSE
               /\ call'[s].results = call[s].results /\ call'[s].cur = call[s].cur
               /\ call'[s].degraded = call[s].degraded /\ call'[s].timed = call[s].timed
               /\ call'[s].found = call[s].found /\ call'[s].seen = call[s].seen
    <2>1. call[s] \in Calls
      BY <1>2
    <2>2. (Running = {}) \in BOOLEAN
      OBVIOUS
    <2>3. CASE s = r
      <3>1. call'[s] = [call[s] EXCEPT !.pc = "count", !.alone = Running = {}]
        BY <2>3, <1>3
      <3>2. ASSUME NEW b \in BOOLEAN, NEW c, c = [call[s] EXCEPT !.pc = "count", !.alone = b]
            PROVE  /\ c \in Calls /\ c.pc = "count" /\ c.alone = b
                   /\ c.results = call[s].results /\ c.cur = call[s].cur
                   /\ c.degraded = call[s].degraded /\ c.timed = call[s].timed
                   /\ c.found = call[s].found /\ c.seen = call[s].seen
        BY <2>1, <3>2 DEF Calls
      <3> DEFINE b == Running = {}
      <3>3. b \in BOOLEAN /\ call'[s] = [call[s] EXCEPT !.pc = "count", !.alone = b]
        BY <3>1
      <3> HIDE DEF b
      <3>4. /\ call'[s] \in Calls /\ call'[s].pc = "count" /\ call'[s].alone = b
            /\ call'[s].results = call[s].results /\ call'[s].cur = call[s].cur
            /\ call'[s].degraded = call[s].degraded /\ call'[s].timed = call[s].timed
            /\ call'[s].found = call[s].found /\ call'[s].seen = call[s].seen
        BY <3>2, <3>3
      <3> QED
        BY <3>4, <2>3, Zenon DEF b
    <2>4. CASE s # r
      <3>1. call'[s] = [call[s] EXCEPT !.alone = FALSE]
        BY <2>4, <1>3
      <3>2. /\ call'[s] \in Calls /\ call'[s].pc = call[s].pc /\ call'[s].alone = FALSE
            /\ call'[s].results = call[s].results /\ call'[s].cur = call[s].cur
            /\ call'[s].degraded = call[s].degraded /\ call'[s].timed = call[s].timed
            /\ call'[s].found = call[s].found /\ call'[s].seen = call[s].seen
        BY <2>1, <3>1 DEF Calls
      <3> QED
        BY <3>2, <2>4
    <2> QED
      BY <2>3, <2>4
  <1>5. call' \in [Requests -> Calls]
    <2>1. call' = [s \in Requests |-> call'[s]]
      BY DEF Begin
    <2> QED
      BY <2>1, <1>4
  <1>6. Running' = Running \cup {r} /\ IsFiniteSet(Running) /\ r \notin Running
    <2>1. Running' = Running \cup {r} /\ r \notin Running
      BY <1>2, <1>4 DEF Running
    <2> QED
      BY <2>1, FS_Subset, RagServerAssumption DEF Running
  <1>7. Cardinality(Running') <= threads'
    <2>1. Cardinality(Running') = Cardinality(Running) + 1
      BY <1>6, FS_AddElement
    <2>2. Cardinality(Running) \in Nat /\ threads \in Nat
      BY <1>1, <1>6, FS_CardinalityType, RagServerAssumption DEF TypeOK
    <2> QED
      BY <2>1, <2>2, <1>2
  <1>8. TypeOK'
    BY <1>1, <1>2, <1>5, <1>7 DEF TypeOK
  <1>9. ServerOK'
    BY <1>1, <1>2, <1>4 DEF ServerOK
  <1>10. ASSUME NEW s \in Requests PROVE CallOK(call[s])'
    <2>1. CallOK(call[s])
      BY <1>1
    <2>2. \A n : Sofar(call'[s], n) = Sofar(call[s], n)
      BY <1>4 DEF Sofar
    <2>3. CASE s = r
      <3>1. FreshOK(call'[s]) /\ call'[s].pc = "count"
        BY <2>1, <2>3, <1>2, <1>4 DEF CallOK, FreshOK
      <3> QED
        BY <3>1, <1>2 DEF CallOK, FreshOK, FoundOK, RerankOK, Searched, Nothing
    <2>4. CASE s # r
      <3>1. /\ call'[s].pc = call[s].pc
            /\ call'[s].results = call[s].results /\ call'[s].cur = call[s].cur
            /\ call'[s].degraded = call[s].degraded /\ call'[s].timed = call[s].timed
            /\ call'[s].found = call[s].found /\ call'[s].seen = call[s].seen
        BY <2>4, <1>4
      <3>2. FreshOK(call[s])'
        BY <2>1, <3>1 DEF CallOK, FreshOK, Nothing
      <3>3. FoundOK(call[s])'
        BY <2>1, <3>1, <1>2 DEF CallOK, FoundOK, Searched, FetchK
      <3>4. RerankOK(call[s])'
        BY <2>1, <3>1, <1>2 DEF CallOK, RerankOK, Sofar, Cut
      <3> QED
        BY <3>2, <3>3, <3>4 DEF CallOK
    <2> QED
      BY <2>3, <2>4
  <1>11. ASSUME NEW s \in Requests PROVE AloneOK(s)'
    <2>1. CASE s # r
      BY <2>1, <1>4 DEF AloneOK
    <2>2. CASE s = r
      <3>1. call[r].degraded = {}
        BY <1>1, <1>2 DEF CallOK, FreshOK
      <3>2. Running = {} => \A c \in Requests \ {r} : call[c].pc \notin Busy
        BY DEF Running, Busy
      <3> QED
        BY <2>2, <3>1, <3>2, <1>2, <1>4 DEF AloneOK
    <2> QED
      BY <2>1, <2>2
  <1> QED
    BY <1>8, <1>9, <1>10, <1>11 DEF RagInv

\* A step of somebody else.
LEMMA StutterKeeps ==
  ASSUME RagInv, UNCHANGED vars
  PROVE  RagInv'
  <1>1. UNCHANGED <<server, loader, ml, threads, exists, store, call, report, timing>>
    BY DEF vars
  <1>2. TypeOK' /\ ServerOK'
    BY <1>1 DEF RagInv, TypeOK, ServerOK, Running
  <1>3. ASSUME NEW r \in Requests PROVE CallOK(call[r])' /\ AloneOK(r)'
    <2>1. CallOK(call[r]) /\ AloneOK(r)
      BY DEF RagInv
    <2>2. CallOK(call[r])'
      BY <2>1, <1>1 DEF CallOK, FreshOK, FoundOK, RerankOK, Searched, FetchK, Nothing, Sofar, Cut
    <2>3. AloneOK(r)'
      BY <2>1, <1>1 DEF AloneOK
    <2> QED
      BY <2>2, <2>3
  <1> QED
    BY <1>2, <1>3 DEF RagInv

\* RagInv holds in every state: one case for each action.
LEMMA RagInvariant == Spec => []RagInv
  <1>1. ASSUME RagInv, [Next]_vars PROVE RagInv'
    <2>1. CASE Startup
      BY <2>1, <1>1, StartupKeeps, KillKeeps DEF Startup
    <2>2. CASE Kill
      BY <2>2, <1>1, KillKeeps
    <2>3. CASE Index
      BY <2>3, <1>1, IndexKeeps
    <2>4. ASSUME NEW r \in Requests, Retrieve(r) PROVE RagInv'
      BY <2>4, <1>1, BeginClears, CountKeeps, EncodeKeeps, SearchHybridKeeps, SearchFailsKeeps,
         NoRerankerKeeps, RerankNextKeeps, RerankedKeeps, RerankFailsKeeps, RaiseKeeps,
         RespondKeeps DEF Retrieve
    <2>5. ASSUME NEW r \in Requests, NEW match \in Matches, Arrive(r, match) PROVE RagInv'
      BY <2>5, <1>1, ArriveKeeps
    <2>6. CASE UNCHANGED vars
      BY <2>6, <1>1, StutterKeeps
    <2> QED
      BY <2>1, <2>2, <2>3, <2>4, <2>5, <2>6, <1>1 DEF Next
  <1> QED
    BY <1>1, InitRag, PTL DEF Spec
-----------------------------------------------------------------------------

\* Every variable keeps its type, and no more calls run than there are threads,
\* whatever startups time out, calls fail and processes are killed.
THEOREM RagServerTypeCorrect == Spec => []TypeOK
  <1>1. RagInv => TypeOK
    BY DEF RagInv
  <1> QED
    BY <1>1, RagInvariant, PTL

\* batch_search: where the candidates can hold all that matched, a reranked
\* answer is the best of it, for any scores, any fusion and any overlap.
THEOREM AnswersAreBest == Spec => []BestAnswered
  <1>1. ASSUME RagInv, NEW r \in Requests, NEW q \in 1..Queries,
               call[r].pc = "done", "rerank" \in call[r].timed, call[r].degraded = {},
               Cardinality(call[r].seen) <= TopK * RerankFactor
        PROVE  IsBest(call[r].results[q], call[r].seen)
    <2> DEFINE c == call[r]
               S == c.seen
               s == c.found[q]
    <2>1. CallOK(c) /\ c \in Calls
      BY <1>1 DEF RagInv, TypeOK
    <2>2. S \in SUBSET Docs
      BY <2>1 DEF Calls
    <2>3. /\ ml = "reranking" /\ c.results = Cut(Sofar(c, Queries + 1))
      BY <1>1, <2>1 DEF CallOK, RerankOK
    <2>4. s \in Hybrid(S, TopK * RerankFactor)
      BY <1>1, <2>1, <2>3 DEF CallOK, FoundOK, Searched, FetchK
    <2>5. TopK * RerankFactor \in Nat \ {0} /\ Queries \in Nat
      BY RagServerAssumption
    <2>6. c.results[q] = First(Rerank(s), TopK)
      BY <2>3, <2>5 DEF Cut, Sofar
    <2> HIDE DEF S, s
    <2>7. s \in Seq(S) /\ Distinct(s) /\ ToSet(s) = S /\ Len(s) = Cardinality(S)
      <3>1. Cardinality(S) <= TopK * RerankFactor
        BY <1>1 DEF S
      <3> QED
        BY <3>1, <2>2, <2>4, <2>5, HybridSound
    <2>8. IsBest(First(Rerank(s), TopK), S)
      BY <2>2, <2>7, BestOfAll
    <2> QED
      BY <2>6, <2>8 DEF S
  <1>2. RagInv => BestAnswered
    BY <1>1 DEF BestAnswered, At
  <1> QED
    BY <1>2, RagInvariant, PTL

\* The two attributes of the shared retriever tell what happened to a call
\* that no other call overlapped.
THEOREM LoneCallsReported == Spec => []LoneCallReported
  <1>1. RagInv => LoneCallReported
    BY DEF RagInv, AloneOK, LoneCallReported, At
  <1> QED
    BY <1>1, RagInvariant, PTL

\* An empty answer has a reason: an empty collection, a filter that left
\* nothing, or a failure that is reported.
THEOREM EmptyHasReason == Spec => []EmptyExplained
  <1>1. ASSUME RagInv, NEW r \in Requests, NEW q \in 1..Queries,
               call[r].pc = "done", call[r].results[q] = <<>>,
               call[r].timed # {}, call[r].degraded = {}
        PROVE  "sparse" \notin call[r].timed /\ call[r].seen = {}
    <2> DEFINE c == call[r]
               s == c.found[q]
    <2>1. CallOK(c) /\ c \in Calls
      BY <1>1 DEF RagInv, TypeOK
    <2>2. "sparse" \notin c.timed /\ s \in Hybrid(c.seen, FetchK)
      BY <1>1, <2>1 DEF CallOK, FoundOK, Searched
    <2>3. c.seen \in SUBSET Docs /\ s \in Seq(Docs)
      BY <2>1 DEF Calls
    <2>4. FetchK \in Nat \ {0}
      <3>1. {TopK, RerankFactor} \subseteq Nat \ {0}
        BY RagServerAssumption
      <3>2. TopK * RerankFactor \in Nat \ {0}
        BY <3>1
      <3> QED
        BY <3>1, <3>2 DEF FetchK
    <2>5. s = <<>>
      <3>1. CASE c.results = c.found
        BY <3>1, <1>1
      <3>2. ASSUME NEW n \in 1..Queries + 1, c.results = Cut(Sofar(c, n)) PROVE s = <<>>
        <4>1. c.results[q] = First(IF q < n THEN Rerank(s) ELSE s, TopK)
          BY <3>2 DEF Cut, Sofar
        <4>2. (IF q < n THEN Rerank(s) ELSE s) = <<>>
          BY <4>1, <1>1, <2>3, Lists
        <4>3. Len(s) = 0
          BY <4>2, <2>3, Lists, EmptySeq
        <4> QED
          BY <4>3, <2>3, EmptySeq
      <3> QED
        BY <3>1, <3>2, <1>1, <2>1 DEF CallOK, RerankOK
    <2> HIDE DEF s
    <2>6. c.seen = {}
      BY <2>2, <2>3, <2>4, <2>5, HybridSound
    <2> QED
      BY <2>2, <2>6
  <1>2. RagInv => EmptyExplained
    BY <1>1 DEF EmptyExplained, At
  <1> QED
    BY <1>2, RagInvariant, PTL

\* With one query, as search_endpoint asks, a call whose reranking failed
\* answers in the order of the search.
THEOREM SkippedInOrder ==
  ASSUME Queries = 1
  PROVE  Spec => []SkippedKeepsOrder
  <1>1. ASSUME RagInv, NEW r \in Requests, call[r].pc = "done", "rerank" \in call[r].degraded
        PROVE  call[r].results = Cut(call[r].found)
    <2> DEFINE c == call[r]
    <2>1. CallOK(c) /\ c \in Calls
      BY <1>1 DEF RagInv, TypeOK
    <2>2. c.timed # {}
      BY <1>1, <2>1 DEF CallOK, RerankOK
    <2>3. PICK n \in 1..Queries + 1 : c.results = Cut(Sofar(c, n)) /\ n <= Queries
      BY <1>1, <2>1, <2>2 DEF CallOK, RerankOK
    <2>4. n = 1
      BY <2>3
    <2>5. Sofar(c, 1) = c.found
      <3>1. c.found \in [1..Queries -> Seq(Docs)]
        BY <2>1 DEF Calls
      <3>2. \A q \in 1..Queries : ~ (q < 1)
        OBVIOUS
      <3> QED
        BY <3>1, <3>2 DEF Sofar
    <2> QED
      BY <2>3, <2>4, <2>5
  <1>2. RagInv => SkippedKeepsOrder
    BY <1>1 DEF SkippedKeepsOrder, At
  <1> QED
    BY <1>2, RagInvariant, PTL
=============================================================================
