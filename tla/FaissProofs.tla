---------------------------- MODULE FaissProofs ----------------------------
(***************************************************************************)
(* Proofs about FaissStore and FaissSearch for every corpus, number of     *)
(* readers, batch and scores: the type invariant, and with one index run   *)
(* at a time, that no store pairs a vector with the metadata of another    *)
(* document, that what is published is only extended, and that searches    *)
(* find what their definition says.                                        *)
(***************************************************************************)
EXTENDS FaissSearch, FiniteSetTheorems, SequenceTheorems, NaturalsInduction,
        WellFoundedInduction, TLAPS

\* What the type of a downloaded store rests on: once the manifest names the
\* database, both objects exist.
TypeInv ==
  /\ TypeOK
  /\ uri => remote \in [Files -> Seq(Docs)]
  /\ \A c \in Clients :
       /\ client[c].pc = "download" => uri
       /\ client[c].pc = "upload" => \A f \in client[c].moved : remote[f] \in Seq(Docs)
       /\ client[c].pc \in {"idle", "index"} => client[c].moved = {}

\* A step that changes one client's record only, and perhaps adds to remote.
LEMMA TypeStep ==
  ASSUME TypeInv, NEW c \in Clients, NEW r \in Client, client' = [client EXCEPT ![c] = r],
         uri' \in BOOLEAN, uri => uri', uri' => remote' \in [Files -> Seq(Docs)],
         remote' \in [Files -> Seq(Docs) \cup {NoObject}],
         \A f \in Files : remote[f] \in Seq(Docs) => remote'[f] \in Seq(Docs),
         r.pc = "download" => uri',
         r.pc = "upload" => \A f \in r.moved : remote'[f] \in Seq(Docs),
         r.pc \in {"idle", "index"} => r.moved = {}
  PROVE  TypeInv'
  <1>1. client' \in [Clients -> Client] /\ client'[c] = r
    BY DEF TypeInv, TypeOK
  <1>2. ASSUME NEW e \in Clients
        PROVE  /\ client'[e].pc = "download" => uri'
               /\ client'[e].pc = "upload" => \A f \in client'[e].moved : remote'[f] \in Seq(Docs)
               /\ client'[e].pc \in {"idle", "index"} => client'[e].moved = {}
    <2>1. CASE e = c
      BY <1>1, <2>1
    <2>2. CASE e # c
      <3>1. client'[e] = client[e] /\ client[e].moved \subseteq Files
        BY <2>2 DEF TypeInv, TypeOK, Client
      <3> QED
        BY <3>1 DEF TypeInv
    <2> QED
      BY <2>1, <2>2
  <1> QED
    BY <1>1, <1>2 DEF TypeInv, TypeOK

\* Everybody's first record.
LEMMA IdleClient == Idle \in Client
  BY DEF Idle, Client, EmptyStore, Files

\* Nothing is stored yet.
LEMMA TypeInit == Init => TypeInv
  <1> SUFFICES ASSUME Init PROVE TypeInv
    OBVIOUS
  <1>1. \A c \in Clients : client[c] = Idle
    BY DEF Init
  <1>2. TypeOK
    BY IdleClient DEF Init, TypeOK
  <1> QED
    BY <1>1, <1>2 DEF Init, TypeInv, Idle

\* The steps that leave the storage alone.
LEMMA TypeLocal ==
  ASSUME TypeInv, NEW c \in Clients,
         \/ \E data \in Datasets : Start(c, data)
         \/ \E f \in Files : Get(c, f)
         \/ \E d \in Docs : Insert(c, d)
         \/ Load(c) \/ Save(c) \/ Stop(c)
  PROVE  TypeInv'
  <1>1. client[c] \in Client /\ client \in [Clients -> Client]
    BY DEF TypeInv, TypeOK
  <1>2. UNCHANGED <<remote, uri>>
    BY DEF Start, Get, Insert, Load, Save, Stop
  <1>3. ASSUME NEW r \in Client, client' = [client EXCEPT ![c] = r],
               r.pc = "download" => uri, r.pc \in {"idle", "index", "upload"} => r.moved = {}
        PROVE  TypeInv'
    BY <1>2, <1>3, TypeStep DEF TypeInv, TypeOK
  <1>4. ASSUME NEW data \in Datasets, Start(c, data) PROVE TypeInv'
    <2>1. PICK r : r = [client[c] EXCEPT !.pc = IF uri THEN "download" ELSE "index",
                                         !.todo = IF c \in Runs THEN data ELSE {}]
      OBVIOUS
    <2>2. r \in Client /\ client' = [client EXCEPT ![c] = r]
      BY <1>1, <1>4, <2>1, FaissAssumption DEF Start, Client
    <2>3. (r.pc = "download" => uri) /\ r.pc # "upload" /\ r.moved = {}
      BY <1>1, <1>4, <2>1 DEF Start, TypeInv, Client
    <2> QED
      BY <1>3, <2>2, <2>3
  <1>5. ASSUME NEW f \in Files, Get(c, f) PROVE TypeInv'
    <2>1. remote[f] \in Seq(Docs)
      BY <1>5 DEF Get, TypeInv
    <2>2. PICK r : r = [client[c] EXCEPT !.moved = @ \cup {f}, !.store[f] = remote[f]]
      OBVIOUS
    <2>3. r \in Client /\ client' = [client EXCEPT ![c] = r]
      BY <1>1, <1>5, <2>1, <2>2 DEF Get, Client
    <2> QED
      BY <1>1, <1>3, <1>5, <2>2, <2>3 DEF Client, Get, TypeInv
  <1>6. ASSUME NEW d \in Docs, Insert(c, d) PROVE TypeInv'
    <2>1. PICK s : s = IF d \in client[c].known THEN client[c].store
                       ELSE [f \in Files |-> Append(client[c].store[f], d)]
      OBVIOUS
    <2>2. s \in [Files -> Seq(Docs)]
      BY <1>1, <2>1 DEF Client
    <2>3. PICK r : r = [client[c] EXCEPT !.todo = @ \ {d}, !.store = s]
      OBVIOUS
    <2>4. r \in Client /\ client' = [client EXCEPT ![c] = r]
      BY <1>1, <1>6, <2>1, <2>2, <2>3 DEF Insert, Client
    <2>5. r.pc = "index" /\ r.moved = {}
      BY <1>1, <1>6, <2>3 DEF Insert, TypeInv, Client
    <2> QED
      BY <1>3, <2>4, <2>5
  <1>7. CASE Load(c)
    <2>1. Ids(client[c].store) \subseteq Docs
      BY <1>1 DEF Ids, Client, Files
    <2>2. PICK r : r = [client[c] EXCEPT !.pc = IF c \in Runs THEN "index" ELSE "serve",
                                         !.moved = {},
                                         !.known = IF c \in Runs THEN Ids(client[c].store) ELSE {}]
      OBVIOUS
    <2>3. r \in Client /\ client' = [client EXCEPT ![c] = r]
      BY <1>1, <1>7, <2>1, <2>2 DEF Load, Client
    <2> QED
      BY <1>1, <1>3, <2>2, <2>3 DEF Client
  <1>8. CASE Save(c)
    <2>1. PICK r : r = [client[c] EXCEPT !.pc = "upload"]
      OBVIOUS
    <2>2. r \in Client /\ client' = [client EXCEPT ![c] = r]
      BY <1>1, <1>8, <2>1 DEF Save, Client
    <2>3. r.pc = "upload" /\ r.moved = {}
      BY <1>1, <1>8, <2>1 DEF Save, TypeInv, Client
    <2> QED
      BY <1>3, <2>2, <2>3
  <1>9. CASE Stop(c)
    BY <1>3, <1>9, IdleClient DEF Stop, Idle
  <1> QED
    BY <1>4, <1>5, <1>6, <1>7, <1>8, <1>9

\* An object is uploaded: it is there, and stays there.
LEMMA TypePut ==
  ASSUME TypeInv, NEW c \in Clients, NEW f \in Files, Put(c, f)
  PROVE  TypeInv'
  <1>1. client[c] \in Client /\ client \in [Clients -> Client]
    BY DEF TypeInv, TypeOK
  <1>2. client[c].store[f] \in Seq(Docs)
    BY <1>1 DEF Client
  <1>3. PICK r : r = [client[c] EXCEPT !.moved = @ \cup {f}]
    OBVIOUS
  <1>4. r \in Client /\ client' = [client EXCEPT ![c] = r]
    BY <1>1, <1>3 DEF Put, Client
  <1>5. /\ remote' \in [Files -> Seq(Docs) \cup {NoObject}]
        /\ remote'[f] \in Seq(Docs)
        /\ \A g \in Files : remote[g] \in Seq(Docs) => remote'[g] \in Seq(Docs)
        /\ uri => remote' \in [Files -> Seq(Docs)]
    BY <1>2 DEF Put, TypeInv, TypeOK
  <1>6. r.pc = "upload" /\ r.moved = client[c].moved \cup {f} /\ client[c].moved \subseteq Files
    BY <1>1, <1>3 DEF Put, Client
  <1>7. \A g \in r.moved : remote'[g] \in Seq(Docs)
    BY <1>1, <1>5, <1>6 DEF TypeInv, Put
  <1>8. uri' = uri /\ uri \in BOOLEAN
    BY DEF Put, TypeInv, TypeOK
  <1> QED
    BY <1>4, <1>5, <1>6, <1>7, <1>8, TypeStep

\* The manifest names the database when both objects have been uploaded.
LEMMA TypeManifest ==
  ASSUME TypeInv, NEW c \in Clients, WriteManifest(c)
  PROVE  TypeInv'
  <1>1. remote \in [Files -> Seq(Docs)]
    BY DEF WriteManifest, TypeInv, TypeOK
  <1> QED
    BY <1>1, IdleClient, TypeStep DEF WriteManifest, TypeInv, TypeOK, Idle

\* Every step keeps the type.
LEMMA TypeNext == TypeInv /\ [Next]_vars => TypeInv'
  <1> SUFFICES ASSUME TypeInv, [Next]_vars PROVE TypeInv'
    OBVIOUS
  <1>1. CASE Next
    BY <1>1, TypeLocal, TypePut, TypeManifest DEF Next
  <1>2. CASE UNCHANGED vars
    BY <1>2 DEF vars, TypeInv, TypeOK
  <1> QED
    BY <1>1, <1>2

\* Types are kept, and a downloaded store has both its objects, however many
\* index runs overlap: the manifest is written after the uploads.
THEOREM FaissTypeCorrect == Spec => []TypeOK
  <1>1. TypeInv => TypeOK
    BY DEF TypeInv
  <1> QED
    BY <1>1, TypeInit, TypeNext, PTL DEF Spec
-----------------------------------------------------------------------------
(* Prefixes.                                                               *)

\* Extends is an order: it is reflexive,
LEMMA ExtendsItself == \A s \in Seq(Docs) : Extends(s, s)
  BY DEF Extends

\* transitive,
LEMMA ExtendsFurther ==
  ASSUME NEW s \in Seq(Docs), NEW t \in Seq(Docs), NEW u \in Seq(Docs),
         Extends(s, t), Extends(t, u)
  PROVE  Extends(s, u)
  BY DEF Extends

\* and holds of what is appended to.
LEMMA ExtendsAppended ==
  ASSUME NEW s \in Seq(Docs), NEW t \in Seq(Docs), NEW d \in Docs, Extends(s, t)
  PROVE  Extends(s, Append(t, d))
  BY DEF Extends

\* One of two lists is the beginning of the other.
Comparable(s, t) == Extends(s, t) \/ Extends(t, s)

\* What makes the comparison of lengths in load enough: copies of equal length,
\* taken at any time from two lists of which one begins the other, are equal.
LEMMA SameBeginning ==
  ASSUME NEW s \in Seq(Docs), NEW t \in Seq(Docs), NEW u \in Seq(Docs), NEW v \in Seq(Docs),
         Extends(s, u), Extends(t, v), Comparable(u, v), Len(s) = Len(t)
  PROVE  s = t
  <1>1. \A i \in 1..Len(s) : s[i] = t[i]
    BY DEF Extends, Comparable
  <1> QED
    BY <1>1, SeqEqual
-----------------------------------------------------------------------------
(* With one index run at a time, vectors keep their metadata.              *)

RunsExclude == \A a, b \in Runs : a = b

\* What client c knows, with its record k: a copy is the beginning of what is
\* stored; a run's copy is what is stored, and its store begins with it.
ClientOK(c, k) ==
  /\ k.pc = "idle" => k.store = EmptyStore
  /\ k.pc \in {"index", "upload"} => c \in Runs
  /\ k.pc = "download" => \A f \in k.moved : Extends(k.store[f], remote[f])
  /\ k.pc \in {"index", "upload", "serve"} => k.store["index"] = k.store["metadata"]
  /\ c \in Runs /\ k.pc = "download" => \A f \in k.moved : k.store[f] = remote[f]
  /\ k.pc \in {"index", "upload"} /\ uri => \A f \in Files : Extends(remote[f], k.store[f])
  /\ k.pc = "upload" => \A f \in k.moved : remote[f] = k.store[f]

\* The inductive invariant.
PairInv ==
  /\ TypeInv
  /\ uri => Comparable(remote["index"], remote["metadata"])
  /\ \A c \in Clients : ClientOK(c, client[c])

\* Who is idle knows nothing.
LEMMA IdleOK == \A c \in Clients : ClientOK(c, Idle) /\ ClientOK(c, Idle)'
  BY DEF ClientOK, Idle, EmptyStore

\* Nothing is paired yet.
LEMMA PairInit == Init => PairInv
  <1> SUFFICES ASSUME Init PROVE PairInv
    OBVIOUS
  <1>1. \A c \in Clients : client[c] = Idle
    BY DEF Init
  <1> QED
    BY <1>1, TypeInit, IdleOK DEF Init, PairInv

\* A step that changes one client's record only.
LEMMA PairStep ==
  ASSUME PairInv, TypeInv', NEW c \in Clients, NEW r, client' = [client EXCEPT ![c] = r],
         UNCHANGED <<remote, uri>>, ClientOK(c, r)
  PROVE  PairInv'
  <1>1. ASSUME NEW e \in Clients PROVE ClientOK(e, client[e])'
    <2>1. CASE e = c
      <3>1. client'[e] = r
        BY <2>1 DEF PairInv, TypeInv, TypeOK
      <3> QED
        BY <2>1, <3>1 DEF ClientOK
    <2>2. CASE e # c
      <3>1. client'[e] = client[e] /\ ClientOK(e, client[e])
        BY <2>2 DEF PairInv, TypeInv, TypeOK
      <3> QED
        BY <3>1 DEF ClientOK
    <2> QED
      BY <2>1, <2>2
  <1> QED
    BY <1>1 DEF PairInv

\* A run that starts anew has an empty store.
LEMMA PairStart ==
  ASSUME PairInv, TypeInv', NEW c \in Clients, NEW data \in Datasets, Start(c, data)
  PROVE  PairInv'
  <1>1. client[c] \in Client /\ client \in [Clients -> Client]
    BY DEF PairInv, TypeInv, TypeOK
  <1>2. PICK r : r = [client[c] EXCEPT !.pc = IF uri THEN "download" ELSE "index",
                                       !.todo = IF c \in Runs THEN data ELSE {}]
    OBVIOUS
  <1>3. client' = [client EXCEPT ![c] = r]
    BY <1>1, <1>2 DEF Start, Client
  <1>4. /\ r.pc = IF uri THEN "download" ELSE "index"
        /\ r.moved = {} /\ r.store = EmptyStore
    BY <1>1, <1>2 DEF Start, Client, PairInv, TypeInv, ClientOK
  <1>5. ClientOK(c, r)
    BY <1>4 DEF ClientOK, Start, EmptyStore, Files
  <1> QED
    BY <1>3, <1>5, PairStep DEF Start

\* A copy begins what is stored now; a run's copy is what is stored.
LEMMA PairGet ==
  ASSUME PairInv, TypeInv', NEW c \in Clients, NEW f \in Files, Get(c, f)
  PROVE  PairInv'
  <1>1. client[c] \in Client /\ client \in [Clients -> Client] /\ ClientOK(c, client[c])
    BY DEF PairInv, TypeInv, TypeOK
  <1>2. remote[f] \in Seq(Docs)
    BY DEF Get, PairInv, TypeInv
  <1>3. PICK r : r = [client[c] EXCEPT !.moved = @ \cup {f}, !.store[f] = remote[f]]
    OBVIOUS
  <1>4. client' = [client EXCEPT ![c] = r]
    BY <1>1, <1>3 DEF Get, Client
  <1>5. /\ r.pc = "download" /\ r.moved = client[c].moved \cup {f} /\ r.store[f] = remote[f]
        /\ \A g \in Files : g # f => r.store[g] = client[c].store[g]
    BY <1>1, <1>3 DEF Get, Client
  <1>6. client[c].moved \subseteq Files /\ Extends(remote[f], remote[f])
    BY <1>1, <1>2, ExtendsItself DEF Client
  <1>7. \A g \in r.moved : /\ Extends(r.store[g], remote[g])
                           /\ c \in Runs => r.store[g] = remote[g]
    BY <1>1, <1>5, <1>6 DEF ClientOK, Get
  <1>8. ClientOK(c, r)
    BY <1>5, <1>7 DEF ClientOK
  <1> QED
    BY <1>4, <1>8, PairStep DEF Get

\* Two copies of the same length belong together.
LEMMA PairLoad ==
  ASSUME PairInv, TypeInv', NEW c \in Clients, Load(c)
  PROVE  PairInv'
  <1>1. client[c] \in Client /\ client \in [Clients -> Client] /\ ClientOK(c, client[c])
    BY DEF PairInv, TypeInv, TypeOK
  <1>2. uri /\ remote \in [Files -> Seq(Docs)] /\ client[c].store \in [Files -> Seq(Docs)]
    BY <1>1 DEF Load, PairInv, TypeInv, Client
  <1>3. \A f \in Files : /\ Extends(client[c].store[f], remote[f])
                         /\ c \in Runs => client[c].store[f] = remote[f]
    BY <1>1 DEF Load, ClientOK
  <1>4. client[c].store["index"] = client[c].store["metadata"]
    <2>1. Len(client[c].store["index"]) = Len(client[c].store["metadata"])
      BY DEF Load, Consistent
    <2>2. Comparable(remote["index"], remote["metadata"])
      BY <1>2 DEF PairInv
    <2> QED
      BY <1>2, <1>3, <2>1, <2>2, SameBeginning DEF Files
  <1>5. PICK r : r = [client[c] EXCEPT !.pc = IF c \in Runs THEN "index" ELSE "serve",
                                       !.moved = {},
                                       !.known = IF c \in Runs THEN Ids(client[c].store) ELSE {}]
    OBVIOUS
  <1>6. client' = [client EXCEPT ![c] = r]
    BY <1>1, <1>5 DEF Load, Client
  <1>7. /\ r.pc = IF c \in Runs THEN "index" ELSE "serve"
        /\ r.moved = {} /\ r.store = client[c].store
    BY <1>1, <1>5 DEF Client
  <1>8. c \in Runs => \A f \in Files : Extends(remote[f], r.store[f])
    BY <1>2, <1>3, <1>7, ExtendsItself
  <1>9. ClientOK(c, r)
    BY <1>4, <1>7, <1>8 DEF ClientOK
  <1> QED
    BY <1>6, <1>9, PairStep DEF Load

\* A document is appended to both lists or to none.
LEMMA PairInsert ==
  ASSUME PairInv, TypeInv', NEW c \in Clients, NEW d \in Docs, Insert(c, d)
  PROVE  PairInv'
  <1>1. client[c] \in Client /\ client \in [Clients -> Client] /\ ClientOK(c, client[c])
    BY DEF PairInv, TypeInv, TypeOK
  <1>2. PICK s : s = IF d \in client[c].known THEN client[c].store
                     ELSE [f \in Files |-> Append(client[c].store[f], d)]
    OBVIOUS
  <1>3. PICK r : r = [client[c] EXCEPT !.todo = @ \ {d}, !.store = s]
    OBVIOUS
  <1>4. client' = [client EXCEPT ![c] = r]
    BY <1>1, <1>2, <1>3 DEF Insert, Client
  <1>5. r.pc = "index" /\ r.store = s /\ c \in Runs
    BY <1>1, <1>3 DEF Insert, Client, ClientOK
  <1>6. s["index"] = s["metadata"]
    BY <1>1, <1>2 DEF ClientOK, Insert, Files
  <1>7. ASSUME uri, NEW f \in Files PROVE Extends(remote[f], s[f])
    <2>1. /\ remote[f] \in Seq(Docs) /\ client[c].store[f] \in Seq(Docs)
          /\ Extends(remote[f], client[c].store[f])
      BY <1>1, <1>7 DEF PairInv, TypeInv, Client, ClientOK, Insert
    <2> QED
      BY <1>2, <2>1, ExtendsAppended
  <1>8. ClientOK(c, r)
    BY <1>5, <1>6, <1>7 DEF ClientOK
  <1> QED
    BY <1>4, <1>8, PairStep DEF Insert

\* Saving changes nothing.
LEMMA PairSave ==
  ASSUME PairInv, TypeInv', NEW c \in Clients, Save(c)
  PROVE  PairInv'
  <1>1. client[c] \in Client /\ client \in [Clients -> Client] /\ ClientOK(c, client[c])
    BY DEF PairInv, TypeInv, TypeOK
  <1>2. PICK r : r = [client[c] EXCEPT !.pc = "upload"]
    OBVIOUS
  <1>3. client' = [client EXCEPT ![c] = r]
    BY <1>1, <1>2 DEF Save, Client
  <1>4. r.pc = "upload" /\ r.store = client[c].store /\ r.moved = {}
    BY <1>1, <1>2 DEF Save, Client, PairInv, TypeInv
  <1>5. ClientOK(c, r)
    BY <1>1, <1>4 DEF Save, ClientOK
  <1> QED
    BY <1>3, <1>5, PairStep DEF Save

\* What an upload replaces begins what replaces it, and what nobody else uploads.
LEMMA PairPut ==
  ASSUME RunsExclude, PairInv, TypeInv', NEW c \in Clients, NEW f \in Files, Put(c, f)
  PROVE  PairInv'
  <1>1. client[c] \in Client /\ client \in [Clients -> Client] /\ ClientOK(c, client[c])
    BY DEF PairInv, TypeInv, TypeOK
  <1> DEFINE s == client[c].store
  <1>2. c \in Runs /\ s \in [Files -> Seq(Docs)] /\ s["index"] = s["metadata"]
    BY <1>1 DEF Put, ClientOK, Client
  <1>3. /\ remote'[f] = s[f] /\ uri' = uri
        /\ \A g \in Files : g # f => remote'[g] = remote[g]
    BY DEF Put, PairInv, TypeInv, TypeOK
  <1>4. ASSUME uri PROVE \A g \in Files : Extends(remote[g], s[g]) /\ remote[g] \in Seq(Docs)
    BY <1>1, <1>4 DEF Put, ClientOK, PairInv, TypeInv
  <1>5. uri => \A g \in Files : Extends(remote'[g], s[g])
    BY <1>2, <1>3, <1>4, ExtendsItself
  <1>6. uri' => Comparable(remote'["index"], remote'["metadata"])
    BY <1>2, <1>3, <1>5 DEF Comparable, Files
  <1>7. ASSUME NEW e \in Clients PROVE ClientOK(e, client[e])'
    <2>1. CASE e = c
      <3>1. PICK r : r = [client[c] EXCEPT !.moved = @ \cup {f}]
        OBVIOUS
      <3>2. client'[c] = r
        BY <1>1, <3>1 DEF Put, Client
      <3>3. /\ r.pc = "upload" /\ r.store = s /\ r.moved = client[c].moved \cup {f}
            /\ client[c].moved \subseteq Files
        BY <1>1, <3>1 DEF Put, Client
      <3>4. \A g \in r.moved : remote'[g] = r.store[g]
        BY <1>1, <1>3, <3>3 DEF ClientOK, Put
      <3> QED
        BY <1>2, <1>3, <1>5, <2>1, <3>2, <3>3, <3>4 DEF ClientOK
    <2>2. CASE e # c
      <3>1. /\ client'[e] = client[e] /\ ClientOK(e, client[e]) /\ e \notin Runs
            /\ client[e] \in Client
        BY <1>1, <1>2, <2>2 DEF Put, PairInv, RunsExclude
      <3>2. ASSUME client[e].pc = "download", NEW g \in client[e].moved
            PROVE  Extends(client[e].store[g], remote'[g])
        <4>1. /\ uri /\ g \in Files /\ client[e].store[g] \in Seq(Docs)
              /\ Extends(client[e].store[g], remote[g])
          BY <3>1, <3>2 DEF PairInv, TypeInv, Client, ClientOK
        <4>2. CASE g = f
          BY <1>2, <1>3, <1>4, <4>1, <4>2, ExtendsFurther
        <4>3. CASE g # f
          BY <1>3, <4>1, <4>3
        <4> QED
          BY <4>2, <4>3
      <3> QED
        BY <3>1, <3>2 DEF ClientOK
    <2> QED
      BY <2>1, <2>2
  <1> QED
    BY <1>6, <1>7 DEF PairInv

\* Both objects are those of the run's store.
LEMMA PairManifest ==
  ASSUME RunsExclude, PairInv, TypeInv', NEW c \in Clients, WriteManifest(c)
  PROVE  PairInv'
  <1>1. client[c] \in Client /\ client \in [Clients -> Client] /\ ClientOK(c, client[c])
    BY DEF PairInv, TypeInv, TypeOK
  <1>2. c \in Runs /\ remote["index"] = remote["metadata"]
    BY <1>1 DEF WriteManifest, ClientOK, Files
  <1>3. remote["index"] \in Seq(Docs)
    BY DEF WriteManifest, PairInv, TypeInv, Files
  <1>4. Comparable(remote["index"], remote["metadata"])'
    BY <1>2, <1>3, ExtendsItself DEF WriteManifest, Comparable
  <1>5. ASSUME NEW e \in Clients PROVE ClientOK(e, client[e])'
    <2>1. CASE e = c
      BY <1>1, <2>1, IdleOK DEF WriteManifest
    <2>2. CASE e # c
      <3>1. /\ client'[e] = client[e] /\ ClientOK(e, client[e]) /\ e \notin Runs
            /\ remote' = remote
        BY <1>1, <1>2, <2>2 DEF WriteManifest, PairInv, RunsExclude
      <3> QED
        BY <3>1 DEF ClientOK
    <2> QED
      BY <2>1, <2>2
  <1> QED
    BY <1>4, <1>5 DEF PairInv

\* Every step keeps the pairs.
LEMMA PairNext == RunsExclude /\ PairInv /\ [Next]_vars => PairInv'
  <1> SUFFICES ASSUME RunsExclude, PairInv, [Next]_vars PROVE PairInv'
    OBVIOUS
  <1>1. TypeInv'
    BY TypeNext DEF PairInv
  <1>2. ASSUME NEW c \in Clients, Stop(c) PROVE PairInv'
    BY <1>1, <1>2, IdleOK, PairStep DEF Stop
  <1>3. CASE Next
    BY <1>1, <1>2, <1>3, PairStart, PairGet, PairLoad, PairInsert, PairSave, PairPut,
       PairManifest DEF Next
  <1>4. CASE UNCHANGED vars
    BY <1>1, <1>4 DEF vars, PairInv, ClientOK
  <1> QED
    BY <1>3, <1>4

\* With one index run at a time, no client answers with, or saves, the metadata
\* of another document.
THEOREM MetadataMatch == RunsExclude => (Spec => []PairsMatch)
  <1> SUFFICES ASSUME RunsExclude PROVE Spec => []PairsMatch
    OBVIOUS
  <1>1. PairInv => PairsMatch
    BY DEF PairInv, PairsMatch, Paired, ClientOK
  <1>2. PairInv /\ [Next]_vars => PairInv'
    BY PairNext
  <1> QED
    BY <1>1, <1>2, PairInit, PTL DEF Spec

\* With one index run at a time, a published database is only extended.
THEOREM OnlyExtended == RunsExclude => (Spec => PublishedKept)
  <1> SUFFICES ASSUME RunsExclude PROVE Spec => PublishedKept
    OBVIOUS
  <1> DEFINE Extended == \A f \in Files :
                       uri /\ remote[f] # NoObject => Extends(remote[f], remote'[f])
  <1>1. PairInv /\ [Next]_vars => [Extended]_vars
    <2> SUFFICES ASSUME PairInv, Next, NEW f \in Files, uri
                 PROVE  Extends(remote[f], remote'[f])
      BY DEF vars
    <2>1. remote \in [Files -> Seq(Docs)]
      BY DEF PairInv, TypeInv
    <2>2. ASSUME NEW c \in Clients, NEW g \in Files, Put(c, g)
          PROVE  Extends(remote[f], remote'[f])
      <3>1. ClientOK(c, client[c])
        BY DEF PairInv
      <3>2. Extends(remote[g], client[c].store[g])
        BY <2>2, <3>1 DEF Put, ClientOK
      <3> QED
        BY <2>1, <2>2, <3>2, ExtendsItself DEF Put
    <2>3. CASE UNCHANGED remote
      BY <2>1, <2>3, ExtendsItself
    <2> QED
      BY <2>2, <2>3 DEF Next, Start, Get, Insert, Load, Save, WriteManifest, Stop
  <1>2. PairInv /\ [Next]_vars => PairInv'
    BY PairNext
  <1> QED
    BY <1>1, <1>2, PairInit, PTL DEF Spec, PublishedKept
-----------------------------------------------------------------------------
(* The pure steps of a search.                                             *)

\* The elements of S that have a greater value than x.
Above(S, value, x) == {y \in S : value[y] > value[x]}

Valued(S, value) ==
  /\ IsFiniteSet(S)
  /\ \A x \in S : value[x] \in Int
  /\ \A x, y \in S : value[x] = value[y] => x = y

\* The counts of the greater ones number the elements from 0.
LEMMA Ranked ==
  ASSUME NEW S, NEW value, Valued(S, value)
  PROVE  /\ Cardinality(S) \in Nat
         /\ \A x \in S : Cardinality(Above(S, value, x)) \in 0..Cardinality(S) - 1
         /\ \A x, y \in S : value[x] > value[y] =>
              Cardinality(Above(S, value, x)) < Cardinality(Above(S, value, y))
         /\ \A x, y \in S :
              Cardinality(Above(S, value, x)) = Cardinality(Above(S, value, y)) => x = y
         /\ \A n \in 1..Cardinality(S) : \E x \in S : Cardinality(Above(S, value, x)) = n - 1
  <1> DEFINE N == Cardinality(S)
             A(x) == Above(S, value, x)
             rank == [x \in S |-> Cardinality(A(x)) + 1]
  <1>1. IsFiniteSet(S) /\ N \in Nat
    BY FS_CardinalityType DEF Valued
  <1>2. ASSUME NEW x \in S
        PROVE  /\ IsFiniteSet(A(x)) /\ Cardinality(A(x)) \in Nat /\ Cardinality(A(x)) < N
    <2>1. A(x) \subseteq S \ {x}
      BY DEF Above, Valued
    <2>2. IsFiniteSet(S \ {x}) /\ Cardinality(S \ {x}) = N - 1
      BY <1>1, FS_RemoveElement
    <2>3. IsFiniteSet(A(x)) /\ Cardinality(A(x)) <= N - 1
      BY <2>1, <2>2, FS_Subset
    <2>4. Cardinality(A(x)) \in Nat
      BY <2>3, FS_CardinalityType
    <2> QED
      BY <2>3, <2>4, <1>1
  <1>3. ASSUME NEW x \in S, NEW y \in S, value[x] > value[y]
        PROVE  Cardinality(A(x)) < Cardinality(A(y))
    <2>1. A(x) \subseteq A(y) \ {x} /\ x \in A(y)
      BY <1>3 DEF Above, Valued
    <2>2. IsFiniteSet(A(y) \ {x}) /\ Cardinality(A(y) \ {x}) = Cardinality(A(y)) - 1
      BY <2>1, <1>2, FS_RemoveElement
    <2>3. Cardinality(A(x)) <= Cardinality(A(y)) - 1
      BY <2>1, <2>2, FS_Subset
    <2> QED
      BY <2>3, <1>2
  <1> HIDE DEF A
  <1>4. ASSUME NEW x \in S, NEW y \in S, Cardinality(A(x)) = Cardinality(A(y))
        PROVE  x = y
    <2>1. value[x] \in Int /\ value[y] \in Int /\ (value[x] = value[y] => x = y)
      BY DEF Valued
    <2>2. ~ (value[x] > value[y]) /\ ~ (value[y] > value[x])
      BY <1>2, <1>3, <1>4
    <2> QED
      BY <2>1, <2>2
  <1>5. rank \in [S -> 1..N] /\ \A x \in S : rank[x] = Cardinality(A(x)) + 1
    BY <1>1, <1>2
  <1> HIDE DEF rank, N
  <1>6. rank \in Injection(S, 1..N)
    <2>1. ASSUME NEW x \in S, NEW y \in S, rank[x] = rank[y] PROVE x = y
      BY <2>1, <1>2, <1>4, <1>5
    <2> QED
      BY <1>5, <2>1 DEF Injection, IsInjective
  <1>7. IsFiniteSet(1..N) /\ Cardinality(1..N) = N
    BY <1>1, FS_Interval
  <1>8. rank \in Surjection(S, 1..N)
    BY <1>6, <1>7, FS_Injection DEF N
  <1>9. ASSUME NEW n \in 1..N PROVE \E x \in S : Cardinality(A(x)) = n - 1
    <2>1. PICK x \in S : rank[x] = n
      BY <1>8 DEF Surjection
    <2> QED
      BY <2>1, <1>1, <1>2, <1>5
  <1>10. \A x \in S : Cardinality(A(x)) \in 0..N - 1
    BY <1>1, <1>2
  <1> QED
    BY <1>1, <1>3, <1>4, <1>9, <1>10 DEF N, A

\* The n-th element of the descending list is the one with n - 1 above it.
LEMMA DescendingSound ==
  ASSUME NEW S, NEW value, Valued(S, value)
  PROVE  /\ Cardinality(S) \in Nat
         /\ Descending(S, value) \in [1..Cardinality(S) -> S]
         /\ Descending(S, value) \in Seq(S) /\ Len(Descending(S, value)) = Cardinality(S)
         /\ \A n \in 1..Cardinality(S) :
              Cardinality(Above(S, value, Descending(S, value)[n])) = n - 1
         /\ \A n \in 1..Cardinality(S) : \A x \in S :
              Cardinality(Above(S, value, x)) = n - 1 => Descending(S, value)[n] = x
         /\ \A x \in S : \E n \in 1..Cardinality(S) : Descending(S, value)[n] = x
         /\ \A m, n \in 1..Cardinality(S) :
              Descending(S, value)[m] = Descending(S, value)[n] => m = n
         /\ \A m, n \in 1..Cardinality(S) :
              m < n => value[Descending(S, value)[m]] > value[Descending(S, value)[n]]
  <1> DEFINE N == Cardinality(S)
             D == Descending(S, value)
             C(x) == Cardinality(Above(S, value, x))
  <1>1. N \in Nat /\ \A x \in S : C(x) \in 0..N - 1
    BY Ranked
  <1>2. D = [n \in 1..N |-> CHOOSE x \in S : C(x) = n - 1]
    BY DEF Descending, Above
  <1>3. \A n \in 1..N : \E x \in S : C(x) = n - 1
    BY Ranked
  <1>4. \A x, y \in S : C(x) = C(y) => x = y
    BY Ranked
  <1>5. \A x, y \in S : value[x] > value[y] => C(x) < C(y)
    BY Ranked
  <1>5a. \A x, y \in S : value[x] \in Int /\ value[y] \in Int /\ (value[x] = value[y] => x = y)
    BY DEF Valued
  <1> HIDE DEF C, D, N
  <1>6. ASSUME NEW n \in 1..N PROVE D[n] \in S /\ C(D[n]) = n - 1
    BY <1>2, <1>3
  <1>7. D \in [1..N -> S]
    BY <1>2, <1>6
  <1>8. D \in Seq(S) /\ Len(D) = N
    BY <1>1, <1>7
  <1>9. ASSUME NEW n \in 1..N, NEW x \in S, C(x) = n - 1 PROVE D[n] = x
    BY <1>4, <1>6, <1>9
  <1>10. ASSUME NEW x \in S PROVE \E n \in 1..N : D[n] = x
    <2>1. C(x) + 1 \in 1..N /\ C(x) = (C(x) + 1) - 1
      BY <1>1
    <2> QED
      BY <2>1, <1>9
  <1>11. ASSUME NEW m \in 1..N, NEW n \in 1..N, D[m] = D[n] PROVE m = n
    <2>1. m - 1 = n - 1
      BY <1>6, <1>11
    <2> QED
      BY <2>1, <1>1
  <1>12. ASSUME NEW m \in 1..N, NEW n \in 1..N, m < n PROVE value[D[m]] > value[D[n]]
    <2>1. C(D[m]) < C(D[n]) /\ D[m] \in S /\ D[n] \in S
      BY <1>1, <1>6, <1>12
    <2>2. ~ (value[D[n]] > value[D[m]])
      BY <2>1, <1>1, <1>5
    <2>3. D[m] # D[n]
      BY <1>11, <1>12
    <2> QED
      BY <2>1, <2>2, <2>3, <1>5a
  <1> QED
    BY <1>1, <1>6, <1>7, <1>8, <1>9, <1>10, <1>11, <1>12 DEF C, D, N

\* A list of the positions of other elements with the same values is descending
\* when they are: the elements are those at the positions.
LEMMA DescendingImage ==
  ASSUME NEW S, NEW value, NEW I, NEW at, NEW weight, Valued(S, value), IsFiniteSet(I),
         at \in Bijection(I, S), \A i \in I : weight[i] = value[at[i]]
  PROVE  /\ Valued(I, weight) /\ Cardinality(I) = Cardinality(S)
         /\ \A n \in 1..Cardinality(S) :
              Descending(S, value)[n] = at[Descending(I, weight)[n]]
  <1>1. /\ at \in [I -> S] /\ \A i, j \in I : at[i] = at[j] => i = j
        /\ \A x \in S : \E i \in I : at[i] = x
    BY DEF Bijection, Injection, Surjection, IsInjective
  <1>2. Valued(I, weight)
    BY <1>1 DEF Valued
  <1>3. Cardinality(I) = Cardinality(S)
    BY FS_Bijection DEF ExistsBijection
  <1>4. ASSUME NEW i \in I
        PROVE  Cardinality(Above(S, value, at[i])) = Cardinality(Above(I, weight, i))
    <2> DEFINE J == Above(I, weight, i)
               T == Above(S, value, at[i])
               f == [j \in J |-> at[j]]
    <2>1. J \subseteq I /\ T \subseteq S /\ IsFiniteSet(J)
      BY FS_Subset DEF Above
    <2>2. \A j \in I : j \in J <=> at[j] \in T
      BY <1>1 DEF Above
    <2> HIDE DEF J, T
    <2>3. f \in [J -> T] /\ \A j \in J : f[j] = at[j]
      BY <2>1, <2>2
    <2> HIDE DEF f
    <2>4. f \in Bijection(J, T)
      <3>1. f \in Injection(J, T)
        <4>1. \A j, k \in J : f[j] = f[k] => j = k
          BY <1>1, <2>1, <2>3
        <4> QED
          BY <2>3, <4>1 DEF Injection, IsInjective
      <3>2. f \in Surjection(J, T)
        <4>1. ASSUME NEW x \in T PROVE \E j \in J : f[j] = x
          BY <1>1, <2>1, <2>2, <2>3
        <4> QED
          BY <2>3, <4>1 DEF Surjection
      <3> QED
        BY <3>1, <3>2 DEF Bijection
    <2>5. Cardinality(T) = Cardinality(J)
      BY <2>1, <2>4, FS_Bijection DEF ExistsBijection
    <2> QED
      BY <2>5 DEF J, T
  <1>5. ASSUME NEW n \in 1..Cardinality(S)
        PROVE  Descending(S, value)[n] = at[Descending(I, weight)[n]]
    <2> DEFINE i == Descending(I, weight)[n]
    <2>1. i \in I /\ Cardinality(Above(I, weight, i)) = n - 1
      BY <1>2, <1>3, DescendingSound
    <2> HIDE DEF i
    <2>2. at[i] \in S /\ Cardinality(Above(S, value, at[i])) = n - 1
      BY <1>1, <1>4, <2>1
    <2>3. Descending(S, value)[n] = at[i]
      BY <2>2, DescendingSound
    <2> QED
      BY <2>3 DEF i
  <1> QED
    BY <1>2, <1>3, <1>5

\* Take cuts a list: it is a beginning of it.
LEMMA TakeIs ==
  ASSUME NEW S, NEW s \in Seq(S), NEW k \in Nat
  PROVE  /\ Take(s, k) \in Seq(S)
         /\ Len(Take(s, k)) = IF k < Len(s) THEN k ELSE Len(s)
         /\ \A i \in 1..Len(Take(s, k)) : Take(s, k)[i] = s[i]
         /\ Len(s) <= k => Take(s, k) = s
  <1>1. Len(s) \in Nat /\ \A i \in 1..Len(s) : s[i] \in S
    BY LenProperties, ElementOfSeq
  <1> DEFINE n == IF k < Len(s) THEN k ELSE Len(s)
  <1>2. n \in 0..Len(s) /\ \A i \in 1..n : s[i] \in S
    BY <1>1
  <1>3. /\ Take(s, k) \in Seq(S) /\ Len(Take(s, k)) = n
        /\ \A i \in 1..n : Take(s, k)[i] = s[i]
    BY <1>2, SubSeqProperties DEF Take
  <1>4. Len(s) <= k => Take(s, k) = s
    BY <1>1, SubSeqFull DEF Take
  <1> QED
    BY <1>3, <1>4

\* Two lists with the same beginning are cut to the same.
LEMMA SameTake ==
  ASSUME NEW S, NEW s \in Seq(S), NEW t \in Seq(S), NEW k \in Nat,
         k <= Len(s) \/ Len(s) = Len(t), Len(s) <= Len(t),
         \A i \in 1..Len(s) : s[i] = t[i]
  PROVE  Take(s, k) = Take(t, k)
  <1>1. Len(s) \in Nat /\ Len(t) \in Nat
    BY LenProperties
  <1>2. Take(s, k) \in Seq(S) /\ Take(t, k) \in Seq(S)
    BY TakeIs
  <1>3. Len(Take(s, k)) = (IF k < Len(s) THEN k ELSE Len(s))
        /\ \A i \in 1..Len(Take(s, k)) : Take(s, k)[i] = s[i]
    BY TakeIs
  <1>4. Len(Take(t, k)) = (IF k < Len(t) THEN k ELSE Len(t))
        /\ \A i \in 1..Len(Take(t, k)) : Take(t, k)[i] = t[i]
    BY TakeIs
  <1>5. Len(Take(s, k)) = Len(Take(t, k)) /\ Len(Take(s, k)) <= Len(s)
    BY <1>1, <1>3, <1>4
  <1>6. \A i \in 1..Len(Take(s, k)) : Take(s, k)[i] = Take(t, k)[i]
    BY <1>1, <1>3, <1>4, <1>5
  <1> HIDE DEF Take
  <1> QED
    BY <1>2, <1>5, <1>6, SeqEqual

\* Positions count for less the further they are.
Places(I) == [i \in I |-> -i]

\* What is kept of a list is the elements at the positions, and no others.
LEMMA KeptIs ==
  ASSUME NEW S, NEW s \in Seq(S), NEW I \in SUBSET DOMAIN s
  PROVE  /\ Valued(I, Places(I)) /\ Cardinality(I) \in Nat
         /\ Kept(s, I) \in Seq(S) /\ Len(Kept(s, I)) = Cardinality(I)
         /\ Descending(I, Places(I)) \in [1..Cardinality(I) -> I]
         /\ \A n \in 1..Cardinality(I) : Kept(s, I)[n] = s[Descending(I, Places(I))[n]]
         /\ \A i \in I : \E n \in 1..Cardinality(I) : Descending(I, Places(I))[n] = i
  <1> DEFINE value == Places(I)
             order == Descending(I, value)
             N == Cardinality(I)
  <1>1. Len(s) \in Nat /\ DOMAIN s = 1..Len(s) /\ \A i \in 1..Len(s) : s[i] \in S
    BY LenProperties, ElementOfSeq
  <1>2. IsFiniteSet(I)
    <2>1. IsFiniteSet(1..Len(s))
      BY <1>1, FS_Interval
    <2>2. I \in SUBSET (1..Len(s))
      BY <1>1
    <2> QED
      BY <2>1, <2>2, FS_Subset
  <1>3. Valued(I, value)
    <2>1. \A i \in I : i \in Int /\ value[i] = -i
      BY <1>1 DEF Places
    <2> HIDE DEF value
    <2> QED
      BY <2>1, <1>2 DEF Valued
  <1> HIDE DEF value
  <1>4. N \in Nat /\ order \in [1..N -> I] /\ \A i \in I : \E n \in 1..N : order[n] = i
    <2>1. N \in Nat /\ order \in [1..N -> I]
      BY ONLY <1>3, DescendingSound
    <2>2. \A i \in I : \E n \in 1..N : order[n] = i
      BY ONLY <1>3, DescendingSound
    <2> QED
      BY <2>1, <2>2
  <1> HIDE DEF order, N
  <1>5. Kept(s, I) = [n \in 1..N |-> s[order[n]]]
    BY DEF Kept, Places, order, value, N
  <1>6. \A n \in 1..N : s[order[n]] \in S
    BY <1>1, <1>4
  <1>7. Kept(s, I) \in Seq(S) /\ Len(Kept(s, I)) = N
    BY <1>4, <1>5, <1>6
  <1> QED
    BY <1>3, <1>4, <1>5, <1>7 DEF order, value, N

\* What matches in a longer beginning of a list goes on where what matches in a
\* shorter one ends.
LEMMA FilteredPrefix ==
  ASSUME NEW r \in Seq(Docs), NEW a \in Nat, NEW b \in Nat, a <= b
  PROVE  LET A == Filtered(Take(r, a))
             B == Filtered(Take(r, b))
         IN  /\ A \in Seq(Docs) /\ B \in Seq(Docs) /\ Len(A) <= Len(B)
             /\ \A n \in 1..Len(A) : A[n] = B[n]
  <1> DEFINE s == Take(r, a)
             t == Take(r, b)
             I == {i \in DOMAIN s : s[i] \in Matching}
             J == {i \in DOMAIN t : t[i] \in Matching}
             v == Places(I)
             w == Places(J)
             p == Descending(I, v)
             o == Descending(J, w)
  <1>1. /\ s \in Seq(Docs) /\ t \in Seq(Docs) /\ Len(s) \in Nat /\ Len(t) \in Nat
        /\ Len(s) <= Len(t) /\ DOMAIN s = 1..Len(s) /\ DOMAIN t = 1..Len(t)
        /\ \A i \in 1..Len(s) : s[i] = t[i]
    <2>1. /\ s \in Seq(Docs) /\ Len(s) = (IF a < Len(r) THEN a ELSE Len(r))
          /\ \A i \in 1..Len(s) : s[i] = r[i]
      BY TakeIs
    <2>2. /\ t \in Seq(Docs) /\ Len(t) = (IF b < Len(r) THEN b ELSE Len(r))
          /\ \A i \in 1..Len(t) : t[i] = r[i]
      BY TakeIs
    <2> HIDE DEF s, t
    <2>3. Len(r) \in Nat /\ Len(s) \in Nat /\ Len(t) \in Nat
          /\ DOMAIN s = 1..Len(s) /\ DOMAIN t = 1..Len(t)
      BY <2>1, <2>2, LenProperties
    <2> QED
      BY <2>1, <2>2, <2>3
  <1> HIDE DEF s, t
  <1>2. I \subseteq DOMAIN s /\ J \subseteq DOMAIN t /\ I \subseteq J
    BY <1>1
  <1>3. \A i \in J : i \in I <=> i <= Len(s)
    BY <1>1
  <1>4. \A i \in J : i \in Int
    BY <1>1
  <1>5. /\ Valued(I, v) /\ Cardinality(I) \in Nat /\ p \in [1..Cardinality(I) -> I]
        /\ Kept(s, I) \in Seq(Docs) /\ Len(Kept(s, I)) = Cardinality(I)
        /\ \A n \in 1..Cardinality(I) : Kept(s, I)[n] = s[p[n]]
    <2> HIDE DEF I
    <2>1. s \in Seq(Docs) /\ I \in SUBSET DOMAIN s
      BY <1>1, <1>2
    <2> QED
      BY <2>1, KeptIs
  <1>6. /\ Valued(J, w) /\ Cardinality(J) \in Nat
        /\ Kept(t, J) \in Seq(Docs) /\ Len(Kept(t, J)) = Cardinality(J)
        /\ \A n \in 1..Cardinality(J) : Kept(t, J)[n] = t[o[n]]
    <2> HIDE DEF J
    <2>1. t \in Seq(Docs) /\ J \in SUBSET DOMAIN t
      BY <1>1, <1>2
    <2> QED
      BY <2>1, KeptIs
  <1>7. Cardinality(I) <= Cardinality(J)
    BY <1>2, <1>6, FS_Subset DEF Valued
  <1>8. ASSUME NEW i \in I PROVE Above(I, v, i) = Above(J, w, i)
    <2>1. \A j \in I : v[j] = -j
      BY DEF Places
    <2>2. \A j \in J : w[j] = -j
      BY DEF Places
    <2> HIDE DEF v, w
    <2>3. ASSUME NEW j \in J PROVE (j \in I /\ v[j] > v[i]) <=> w[j] > w[i]
      <3> HIDE DEF I, J
      <3>1. i \in J /\ j \in Int /\ i \in Int /\ i <= Len(s)
        BY <1>2, <1>3, <1>4
      <3> QED
        BY <3>1, <2>1, <2>2, <1>1, <1>3
    <2> HIDE DEF I, J
    <2> QED
      BY <2>3, <1>2 DEF Above
  <1> HIDE DEF I, J, v, w, p, o
  <1>9. ASSUME NEW n \in 1..Cardinality(I) PROVE Kept(s, I)[n] = Kept(t, J)[n]
    <2>1. p[n] \in I /\ Cardinality(Above(I, v, p[n])) = n - 1
      BY <1>5, DescendingSound DEF p
    <2>2. p[n] \in J /\ Cardinality(Above(J, w, p[n])) = n - 1 /\ n \in 1..Cardinality(J)
      BY <2>1, <1>2, <1>5, <1>6, <1>7, <1>8
    <2>3. o[n] = p[n]
      BY <2>2, <1>6, DescendingSound DEF o
    <2>4. s[p[n]] = t[p[n]]
      BY <2>1, <1>1, <1>2
    <2> QED
      BY <2>2, <2>3, <2>4, <1>5, <1>6
  <1>10. Filtered(s) = Kept(s, I) /\ Filtered(t) = Kept(t, J)
    BY DEF Filtered, I, J
  <1> QED
    BY <1>5, <1>6, <1>7, <1>9, <1>10 DEF s, t

\* A store to answer from: a vector and its metadata for each document, once.
Once(s) == \A i, j \in DOMAIN s : s[i] = s[j] => i = j

Sound(store) ==
  store \in [Files -> Seq(Docs)] /\ store["index"] = store["metadata"] /\ Once(store["index"])

\* What is answered for the nearest vectors is the beginning of the ranking of
\* the documents.
LEMMA NearestAnswered ==
  ASSUME NEW store, Sound(store), NEW q \in DOMAIN Score, NEW k \in Nat
  PROVE  /\ Ranking(store, q) \in Seq(Docs) /\ Len(Ranking(store, q)) = Len(store["index"])
         /\ Answer(store, Neighbours(store, q, k)) = Take(Ranking(store, q), k)
  <1> DEFINE s == store["index"]
             N == Len(s)
             I == DOMAIN s
             S == Ids(store)
             v == Score[q]
             w == [i \in I |-> v[s[i]]]
             D == Descending(I, w)
             R == Ranking(store, q)
  <1>1. s \in Seq(Docs) /\ N \in Nat /\ I = 1..N /\ store["metadata"] = s /\ Once(s)
    BY LenProperties DEF Sound, Files
  <1>2. \A i \in I : s[i] \in Docs
    BY <1>1, ElementOfSeq
  <1>3. S = {s[i] : i \in I}
    BY <1>1 DEF Ids
  <1>4. v \in [Docs -> Int] /\ \A d, e \in Docs : v[d] = v[e] => d = e
    BY SearchAssumption
  <1> HIDE DEF v
  <1>5. \A i \in I : w[i] = v[s[i]]
    OBVIOUS
  <1> HIDE DEF w
  <1>6. IsFiniteSet(I) /\ Cardinality(I) = N
    BY <1>1, FS_Interval
  <1> HIDE DEF I, N, S
  <1>7. s \in Bijection(I, S)
    <2>1. s \in [I -> S]
      BY <1>1, <1>3 DEF I
    <2>2. \A i, j \in I : s[i] = s[j] => i = j
      BY <1>1 DEF Once, I
    <2>3. \A d \in S : \E i \in I : s[i] = d
      BY <1>3
    <2> HIDE DEF s
    <2> QED
      BY <2>1, <2>2, <2>3 DEF Bijection, Injection, Surjection, IsInjective
  <1>8. IsFiniteSet(S) /\ Cardinality(S) = N
    BY <1>6, <1>7, FS_Bijection DEF ExistsBijection
  <1>9. S \subseteq Docs
    BY <1>2, <1>3
  <1>10. Valued(S, v)
    BY <1>4, <1>8, <1>9 DEF Valued
  <1> HIDE DEF s
  <1>11. /\ Valued(I, w)
         /\ \A n \in 1..N : Descending(S, v)[n] = s[D[n]]
    BY <1>5, <1>6, <1>7, <1>8, <1>10, DescendingImage
  <1>12. D \in Seq(I) /\ Len(D) = N /\ D \in [1..N -> I]
    BY <1>6, <1>11, DescendingSound
  <1>13. R = Descending(S, v)
    BY DEF Ranking, v, S
  <1>14. R \in Seq(S) /\ Len(R) = N
    BY <1>8, <1>10, <1>13, DescendingSound
  <1>15. R \in Seq(Docs)
    BY <1>9, <1>14
  <1> HIDE DEF D, R
  <1> DEFINE T == Take(D, k)
             A == Answer(store, T)
  <1>16. /\ T \in Seq(I) /\ Len(T) = IF k < N THEN k ELSE N
         /\ \A i \in 1..Len(T) : T[i] = D[i]
    BY <1>12, TakeIs
  <1>17. /\ Take(R, k) \in Seq(Docs) /\ Len(Take(R, k)) = IF k < N THEN k ELSE N
         /\ \A i \in 1..Len(Take(R, k)) : Take(R, k)[i] = R[i]
    BY <1>14, <1>15, TakeIs
  <1> HIDE DEF T
  <1>18. Len(T) \in Nat /\ Len(T) <= N /\ DOMAIN T = 1..Len(T)
         /\ \A i \in 1..Len(T) : T[i] \in I
    BY <1>1, <1>16, LenProperties, ElementOfSeq
  <1>19. A = [i \in 1..Len(T) |-> s[T[i]]]
    BY <1>1, <1>18 DEF Answer
  <1>20. \A i \in 1..Len(T) : s[T[i]] = R[i] /\ s[T[i]] \in Docs
    <2> SUFFICES ASSUME NEW i \in 1..Len(T) PROVE s[T[i]] = R[i] /\ s[T[i]] \in Docs
      OBVIOUS
    <2>1. i \in 1..N /\ T[i] = D[i] /\ T[i] \in I
      BY <1>1, <1>16, <1>18
    <2> QED
      BY <2>1, <1>2, <1>11, <1>13
  <1>21. A \in Seq(Docs) /\ Len(A) = Len(T) /\ \A i \in 1..Len(T) : A[i] = R[i]
    BY <1>18, <1>19, <1>20
  <1> HIDE DEF A
  <1>22. A = Take(R, k)
    BY <1>16, <1>17, <1>18, <1>21, SeqEqual
  <1>23. Neighbours(store, q, k) = T
    BY DEF Neighbours, T, D, I, w, s, v
  <1> QED
    BY <1>14, <1>15, <1>22, <1>23 DEF A, R, N, s

-----------------------------------------------------------------------------
(* The rounds of a search with a filter.                                   *)

\* A set of numbers that holds 0 and with each number the next holds them all.
LEMMA NatSetInduction ==
  ASSUME NEW T, 0 \in T, \A n \in Nat : n \in T => n + 1 \in T
  PROVE  Nat \subseteq T
  <1> SUFFICES ASSUME Nat \ T # {} PROVE FALSE
    OBVIOUS
  <1>1. IsWellFoundedOn(OpToRel(<, Nat), Nat)
    BY NatLessThanWellFounded
  <1>2. PICK n \in Nat \ T : \A m \in Nat \ T : ~ (<<m, n>> \in OpToRel(<, Nat))
    BY <1>1, WFMin
  <1>3. n \in Nat /\ n # 0
    BY <1>2
  <1>4. n - 1 \in Nat /\ (n - 1) + 1 = n
    BY <1>3
  <1>5. n - 1 \notin T
    BY <1>2, <1>4
  <1>6. <<n - 1, n>> \in OpToRel(<, Nat)
    BY <1>2, <1>3, <1>4 DEF OpToRel
  <1> QED
    BY <1>2, <1>4, <1>5, <1>6

\* A nonempty set of numbers has a least one.
LEMMA Least ==
  ASSUME NEW T \in SUBSET Nat, T # {}
  PROVE  \E n \in T : \A m \in T : n <= m
  <1>1. IsWellFoundedOn(OpToRel(<, Nat), Nat)
    BY NatLessThanWellFounded
  <1>2. PICK n \in T : \A m \in T : ~ (<<m, n>> \in OpToRel(<, Nat))
    BY <1>1, WFMin
  <1>3. ASSUME NEW m \in T, m < n PROVE FALSE
    <2>1. <<m, n>> \in OpToRel(<, Nat)
      BY <1>3 DEF OpToRel
    <2> QED
      BY <1>2, <2>1
  <1>4. \A m \in T : m \in Nat /\ n \in Nat
    OBVIOUS
  <1> QED
    BY <1>3, <1>4

\* A function that starts with start and goes on by step, up to M.
Goes(f, start, step, M) == f[0] = start /\ \A k \in 1..M : f[k] = step[f[k - 1]]

Iterates(X, start, step, M) == \E f \in [0..M -> X] : Goes(f, start, step, M)

\* There is one wherever a step leads from X to X.
LEMMA Iterated ==
  ASSUME NEW X, NEW start \in X, NEW step \in [X -> X], NEW M \in Nat
  PROVE  Iterates(X, start, step, M)
  <1> DEFINE Good(f, n) == f[0] = start /\ \A k \in 1..n : f[k] = step[f[k - 1]]
             T == {n \in Nat : \E f \in [0..n -> X] : Good(f, n)}
  <1>1. 0 \in T
    <2>1. [k \in 0..0 |-> start] \in [0..0 -> X] /\ Good([k \in 0..0 |-> start], 0)
      OBVIOUS
    <2> QED
      BY <2>1
  <1>2. ASSUME NEW n \in Nat, n \in T PROVE n + 1 \in T
    <2>1. PICK f \in [0..n -> X] : Good(f, n)
      BY <1>2
    <2> DEFINE g == [k \in 0..n + 1 |-> IF k <= n THEN f[k] ELSE step[f[n]]]
    <2>2. g \in [0..n + 1 -> X]
      <3>1. \A k \in 0..n + 1 : k <= n => f[k] \in X
        OBVIOUS
      <3>2. step[f[n]] \in X
        OBVIOUS
      <3> QED
        BY <3>1, <3>2
    <2>3. g[0] = start
      BY <2>1
    <2>4. ASSUME NEW k \in 1..n + 1 PROVE g[k] = step[g[k - 1]]
      <3>1. CASE k <= n
        <4>1. k \in 1..n /\ k \in 0..n + 1 /\ k - 1 \in 0..n + 1 /\ k - 1 <= n
          BY <3>1
        <4>2. g[k] = f[k] /\ g[k - 1] = f[k - 1]
          BY <4>1, <3>1
        <4> QED
          BY <4>1, <4>2, <2>1
      <3>2. CASE k = n + 1
        <4>1. k - 1 = n /\ k \in 0..n + 1 /\ k - 1 \in 0..n + 1 /\ ~ (k <= n)
          BY <3>2
        <4>2. g[k] = step[f[n]] /\ g[k - 1] = f[n]
          BY <4>1
        <4> QED
          BY <4>2
      <3> QED
        BY <3>1, <3>2
    <2> HIDE DEF g
    <2> QED
      BY <2>2, <2>3, <2>4
  <1> HIDE DEF T
  <1>3. M \in T
    BY <1>1, <1>2, NatSetInduction
  <1> QED
    BY <1>3 DEF T, Iterates, Goes

\* The multipliers double, and the last of them is larger than any that is tried.
LEMMA Multipliers ==
  /\ Multiplier \in [0..MaxFetchMultiplier -> Nat] /\ Multiplier[0] = FetchMultiplier
  /\ \A k \in 1..MaxFetchMultiplier : Multiplier[k] = 2 * Multiplier[k - 1]
  /\ \A k \in 0..MaxFetchMultiplier : Multiplier[k] >= k + 1
  /\ \A j, k \in 0..MaxFetchMultiplier : j < k => Multiplier[j] < Multiplier[k]
  <1> DEFINE M == MaxFetchMultiplier
             step == [m \in Nat |-> 2 * m]
             Next1(f) == [k \in 0..M |-> IF k = 0 THEN FetchMultiplier ELSE 2 * f[k - 1]]
  <1>1. M \in Nat /\ FetchMultiplier \in Nat /\ FetchMultiplier >= 1
    BY SearchAssumption
  <1>2. step \in [Nat -> Nat] /\ \A m \in Nat : step[m] = 2 * m
    OBVIOUS
  <1> HIDE DEF step
  <1>3. PICK f \in [0..M -> Nat] : f[0] = FetchMultiplier /\ \A k \in 1..M : f[k] = step[f[k - 1]]
    <2> HIDE DEF M
    <2>1. Iterates(Nat, FetchMultiplier, step, M)
      BY <1>1, <1>2, Iterated
    <2> QED
      BY <2>1 DEF Iterates, Goes
  <1>6. Multiplier = CHOOSE g : g = Next1(g)
    BY DEF Multiplier
  <1> HIDE DEF M
  <1>4. \A k \in 0..M : k # 0 => k \in 1..M /\ k - 1 \in 0..M /\ f[k - 1] \in Nat
    BY <1>1
  <1>5. f = Next1(f)
    <2>1. \A k \in 0..M : f[k] = IF k = 0 THEN FetchMultiplier ELSE 2 * f[k - 1]
      BY <1>2, <1>3, <1>4
    <2> QED
      BY <2>1
  <1>7. Multiplier = Next1(Multiplier)
    BY <1>5, <1>6
  <1> DEFINE w == Multiplier
  <1> HIDE DEF w
  <1>8. /\ \A k \in 0..M : w[k] = IF k = 0 THEN FetchMultiplier ELSE 2 * w[k - 1]
        /\ w = [k \in 0..M |-> w[k]]
    BY <1>7 DEF w
  <1>9. w[0] = FetchMultiplier /\ \A k \in 1..M : w[k] = 2 * w[k - 1]
    <2>1. 0 \in 0..M /\ \A k \in 1..M : k \in 0..M /\ k # 0
      BY <1>1
    <2> QED
      BY <2>1, <1>8
  <1> DEFINE T == {n \in Nat : n <= M => /\ w[n] \in Nat /\ w[n] >= n + 1
                                        /\ \A j \in 0..n : w[j] \in Nat /\ (j < n => w[j] < w[n])}
  <1>10. 0 \in T
    BY <1>1, <1>9
  <1>11. ASSUME NEW n \in Nat, n \in T PROVE n + 1 \in T
    <2> SUFFICES ASSUME n + 1 <= M
                 PROVE  /\ w[n + 1] \in Nat /\ w[n + 1] >= (n + 1) + 1
                        /\ \A j \in 0..n + 1 : w[j] \in Nat /\ (j < n + 1 => w[j] < w[n + 1])
      OBVIOUS
    <2>1. w[n] \in Nat /\ w[n] >= n + 1 /\ \A j \in 0..n : w[j] \in Nat /\ (j < n => w[j] < w[n])
      BY <1>11, <1>1
    <2>2. n + 1 \in 1..M /\ (n + 1) - 1 = n
      BY <1>1
    <2>3. w[n + 1] = 2 * w[n]
      BY <2>2, <1>9
    <2>4. w[n] < w[n + 1] /\ w[n + 1] \in Nat
      BY <2>1, <2>3
    <2>5. ASSUME NEW j \in 0..n + 1 PROVE w[j] \in Nat /\ (j < n + 1 => w[j] < w[n + 1])
      <3>1. CASE j = n + 1
        BY <3>1, <2>4
      <3>2. CASE j = n
        BY <3>2, <2>1, <2>4
      <3>3. CASE j # n /\ j # n + 1
        <4>1. j \in 0..n /\ j < n
          BY <3>3
        <4> QED
          BY <4>1, <2>1, <2>4
      <3> QED
        BY <3>1, <3>2, <3>3
    <2> QED
      BY <2>1, <2>3, <2>4, <2>5
  <1> HIDE DEF T
  <1>12. \A n \in Nat : n \in T
    BY <1>10, <1>11, NatSetInduction
  <1>13. \A k \in 0..M : w[k] \in Nat /\ w[k] >= k + 1 /\ \A j \in 0..k : j < k => w[j] < w[k]
    BY <1>1, <1>12 DEF T
  <1>14. w \in [0..M -> Nat]
    BY <1>8, <1>13
  <1>15. \A j, k \in 0..M : j < k => w[j] < w[k]
    <2> SUFFICES ASSUME NEW j \in 0..M, NEW k \in 0..M, j < k PROVE w[j] < w[k]
      OBVIOUS
    <2>1. j \in 0..k
      BY <1>1
    <2> QED
      BY <2>1, <1>13
  <1>16. \A k \in 0..M : w[k] >= k + 1
    BY <1>13
  <1> QED
    BY <1>9, <1>14, <1>15, <1>16 DEF w, M

\* The rounds that are allowed to run are the first few, and LastMultiplier is
\* the multiplier of the last of them.
LEMMA LastIs ==
  \E j \in 0..MaxFetchMultiplier :
    /\ \A i \in 0..MaxFetchMultiplier : Multiplier[i] <= MaxFetchMultiplier <=> i < j
    /\ LastMultiplier = IF j = 0 THEN 0 ELSE Multiplier[j - 1]
  <1> DEFINE M == MaxFetchMultiplier
             w == Multiplier
             L == {i \in 0..M : w[i] > M}
             tried == {w[k] : k \in 0..M} \cap 0..M
  <1>1. M \in Nat
    BY SearchAssumption
  <1>2. /\ \A k \in 0..M : w[k] \in Nat /\ w[k] >= k + 1
        /\ \A i, k \in 0..M : i < k => w[i] < w[k]
    BY Multipliers
  <1> HIDE DEF w, M
  <1>3. M \in L /\ L \in SUBSET Nat
    BY <1>1, <1>2
  <1>4. PICK j \in L : \A m \in L : j <= m
    BY <1>3, Least
  <1>5. j \in 0..M /\ w[j] > M
    BY <1>4
  <1>6. ASSUME NEW i \in 0..M PROVE w[i] <= M <=> i < j
    <2>1. CASE i < j
      BY <2>1, <1>1, <1>2, <1>4, <1>5
    <2>2. CASE i = j
      BY <2>2, <1>1, <1>2, <1>5
    <2>3. CASE i > j
      BY <2>3, <1>1, <1>2, <1>5
    <2> QED
      BY <2>1, <2>2, <2>3, <1>5
  <1>7. CASE j = 0
    <2>1. tried = {}
      BY <1>1, <1>2, <1>6, <1>7
    <2>2. LastMultiplier = 0
      BY <2>1 DEF LastMultiplier, w, M
    <2> QED
      BY <1>5, <1>6, <1>7, <2>2 DEF w, M
  <1>8. CASE j # 0
    <2>1. j - 1 \in 0..M /\ w[j - 1] <= M /\ w[j - 1] \in Nat
      BY <1>1, <1>2, <1>5, <1>6, <1>8
    <2>2. w[j - 1] \in tried
      BY <2>1, <1>1
    <2>3. ASSUME NEW n \in tried PROVE n <= w[j - 1] /\ n \in Nat
      <3>1. PICK k \in 0..M : w[k] = n /\ n <= M
        BY <1>1
      <3>2. k < j
        BY <3>1, <1>6
      <3>3. k = j - 1 \/ k < j - 1
        BY <3>2, <1>5
      <3> QED
        BY <3>1, <3>3, <2>1, <1>2
    <2>4. ASSUME NEW m \in tried, \A n \in tried : n <= m PROVE m = w[j - 1]
      BY <2>1, <2>2, <2>3, <2>4
    <2>5. LastMultiplier = CHOOSE m \in tried : \A n \in tried : n <= m
      BY <2>2 DEF LastMultiplier, w, M
    <2> HIDE DEF tried
    <2>6. LastMultiplier = w[j - 1]
      BY <2>2, <2>3, <2>4, <2>5
    <2> QED
      BY <1>5, <1>6, <1>8, <2>6 DEF w, M
  <1> QED
    BY <1>7, <1>8

\* What a round with the multiplier m finds for a query.
Best(store, n, m) ==
  Take(Filtered(Take(Ranking(store, Queries[n]), TopK * m)), TopK)

\* Every query has its scores.
LEMMA QueryScored ==
  /\ DOMAIN Queries = 1..Len(Queries) /\ Len(Queries) \in Nat
  /\ \A n \in DOMAIN Queries : Queries[n] \in DOMAIN Score
  BY SearchAssumption, ElementOfSeq, LenProperties

\* Nothing is found among no documents.
LEMMA FilteredNone == Filtered(<<>>) = <<>> /\ Take(<<>>, TopK) = <<>>
  <1>1. <<>> \in Seq(Docs) /\ Len(<<>>) = 0 /\ TopK \in Nat
    BY SearchAssumption
  <1>2. {i \in DOMAIN <<>> : <<>>[i] \in Matching} = {}
    OBVIOUS
  <1>3. Filtered(<<>>) = Kept(<<>>, {})
    BY <1>2 DEF Filtered
  <1>4. Kept(<<>>, {}) \in Seq(Docs) /\ Len(Kept(<<>>, {})) = Cardinality({})
    BY <1>1, KeptIs
  <1>5. Cardinality({}) = 0
    BY FS_EmptySet
  <1>6. Kept(<<>>, {}) = <<>>
    BY <1>4, <1>5, EmptySeq
  <1>7. Take(<<>>, TopK) = <<>>
    <2>1. PICK e : e = <<>>
      OBVIOUS
    <2>2. e \in Seq(Docs) /\ Len(e) <= TopK
      BY <2>1, <1>1
    <2>3. Take(e, TopK) = e
      BY <2>2, <1>1, TakeIs
    <2> QED
      BY <2>1, <2>3
  <1> QED
    BY <1>3, <1>6, <1>7

\* Nothing is found when nothing is fetched.
LEMMA BestEmpty ==
  ASSUME NEW store, Sound(store), NEW n \in DOMAIN Queries, NEW m \in Nat,
         m = 0 \/ Len(store["index"]) = 0
  PROVE  Best(store, n, m) = <<>>
  <1> DEFINE R == Ranking(store, Queries[n])
  <1>1. R \in Seq(Docs) /\ Len(R) = Len(store["index"]) /\ TopK \in Nat
    BY QueryScored, NearestAnswered, SearchAssumption
  <1>2. TopK * m \in Nat /\ (m = 0 => TopK * m = 0)
    BY <1>1
  <1> HIDE DEF R
  <1>3. /\ Take(R, TopK * m) \in Seq(Docs)
        /\ Len(Take(R, TopK * m)) = IF TopK * m < Len(R) THEN TopK * m ELSE Len(R)
    BY <1>1, <1>2, TakeIs
  <1>4. Len(R) \in Nat
    BY <1>1, LenProperties
  <1>5. Len(Take(R, TopK * m)) = 0
    BY <1>1, <1>2, <1>3, <1>4
  <1>6. Take(R, TopK * m) = <<>>
    BY <1>3, <1>5, EmptySeq
  <1> QED
    BY <1>6, FilteredNone DEF Best, R

\* A query that is not asked again would find the same in every later round.
LEMMA BestStays ==
  ASSUME NEW store, Sound(store), NEW n \in DOMAIN Queries, NEW a \in Nat, NEW b \in Nat,
         a <= b, ~ (Len(Best(store, n, a)) < TopK /\ TopK * a < Len(store["index"]))
  PROVE  Best(store, n, a) = Best(store, n, b)
  <1> DEFINE R == Ranking(store, Queries[n])
             x == TopK * a
             y == TopK * b
             A == Filtered(Take(R, x))
             B == Filtered(Take(R, y))
  <1>1. R \in Seq(Docs) /\ Len(R) = Len(store["index"]) /\ TopK \in Nat
    BY QueryScored, NearestAnswered, SearchAssumption
  <1>2. x \in Nat /\ y \in Nat /\ x <= y
    <2>1. b - a \in Nat /\ b = a + (b - a)
      OBVIOUS
    <2>2. TopK * b = TopK * a + TopK * (b - a) /\ TopK * (b - a) \in Nat
      BY <2>1, <1>1
    <2>3. TopK * a \in Nat
      BY <1>1
    <2> QED
      BY <2>2, <2>3
  <1>3. Best(store, n, a) = Take(A, TopK) /\ Best(store, n, b) = Take(B, TopK)
    BY DEF Best
  <1> HIDE DEF x, y, R
  <1>4. /\ A \in Seq(Docs) /\ B \in Seq(Docs) /\ Len(A) <= Len(B)
        /\ \A i \in 1..Len(A) : A[i] = B[i]
    BY <1>1, <1>2, FilteredPrefix
  <1>5. Len(R) \in Nat
    BY <1>1, LenProperties
  <1>6. CASE Len(R) <= x
    <2>1. Take(R, x) = R /\ Take(R, y) = R
      BY <1>1, <1>2, <1>5, <1>6, TakeIs
    <2> QED
      BY <2>1, <1>3
  <1>7. CASE ~ (Len(R) <= x)
    <2>1. ~ (Len(Take(A, TopK)) < TopK)
      BY <1>1, <1>2, <1>3, <1>5, <1>7 DEF x
    <2> HIDE DEF A, B
    <2>2. Len(Take(A, TopK)) = (IF TopK < Len(A) THEN TopK ELSE Len(A)) /\ Len(A) \in Nat
      BY <1>1, <1>4, TakeIs, LenProperties
    <2>3. TopK <= Len(A)
      BY <2>1, <2>2, <1>1
    <2>4. Take(A, TopK) = Take(B, TopK)
      BY <2>3, <1>1, <1>4, SameTake
    <2> QED
      BY <2>4, <1>3
  <1> QED
    BY <1>6, <1>7

RoundState ==
  [multiplier : Nat, results : [DOMAIN Queries -> Seq(Docs)], pending : Seq(DOMAIN Queries)]

Pending(s) == {s.pending[l] : l \in DOMAIN s.pending}

\* A round asks for the pending queries, each of which gets its own result, and
\* those that found too little stay pending while there is more to fetch.
LEMMA RoundIs ==
  ASSUME NEW store, Sound(store), NEW s \in RoundState
  PROVE  /\ Round(store, s) \in RoundState /\ Round(store, s).multiplier = 2 * s.multiplier
         /\ \A n \in DOMAIN Queries :
              Round(store, s).results[n] =
                IF n \in Pending(s) THEN Best(store, n, s.multiplier) ELSE s.results[n]
         /\ Pending(Round(store, s)) =
              {n \in Pending(s) : /\ Len(Best(store, n, s.multiplier)) < TopK
                                  /\ TopK * s.multiplier < Len(store["index"])}
  <1> DEFINE m == s.multiplier
             p == s.pending
             fetch == TopK * m
             rows == [l \in DOMAIN p |-> Neighbours(store, Queries[p[l]], fetch)]
             Row(n) == rows[CHOOSE l \in DOMAIN rows : p[l] = n]
             results == [n \in DOMAIN Queries |->
                           IF \E l \in DOMAIN rows : p[l] = n THEN Found(store, Row(n))
                           ELSE s.results[n]]
             short == {l \in DOMAIN p :
                         Len(results[p[l]]) < TopK /\ fetch < Len(store["index"])}
  <1>1. /\ m \in Nat /\ p \in Seq(DOMAIN Queries) /\ s.results \in [DOMAIN Queries -> Seq(Docs)]
        /\ TopK \in Nat
    BY SearchAssumption DEF RoundState
  <1>2. Round(store, s) =
          [multiplier |-> 2 * m, results |-> results, pending |-> Kept(p, short)]
    BY DEF Round
  <1>3. fetch \in Nat
    BY <1>1
  <1>4. DOMAIN p = 1..Len(p) /\ \A l \in DOMAIN p : p[l] \in DOMAIN Queries
    BY <1>1, LenProperties, ElementOfSeq
  <1>5. Pending(s) = {p[l] : l \in DOMAIN p}
    BY DEF Pending
  <1> HIDE DEF p, m
  <1>6. ASSUME NEW n \in DOMAIN Queries
        PROVE  /\ Best(store, n, m) \in Seq(Docs)
               /\ Found(store, Neighbours(store, Queries[n], fetch)) = Best(store, n, m)
    <2>1. Queries[n] \in DOMAIN Score
      BY QueryScored
    <2>2. /\ Ranking(store, Queries[n]) \in Seq(Docs)
          /\ Answer(store, Neighbours(store, Queries[n], fetch)) =
               Take(Ranking(store, Queries[n]), fetch)
      BY <2>1, <1>3, NearestAnswered
    <2>3. Filtered(Take(Ranking(store, Queries[n]), fetch)) \in Seq(Docs)
      <3> HIDE DEF fetch
      <3>1. fetch <= fetch
        BY <1>3
      <3> QED
        BY <2>2, <1>3, <3>1, FilteredPrefix
    <2>4. Best(store, n, m) \in Seq(Docs)
      BY <2>3, <1>1, TakeIs DEF Best
    <2> QED
      BY <2>2, <2>4 DEF Found, Best
  <1>7. ASSUME NEW n \in DOMAIN Queries
        PROVE  results[n] = IF n \in Pending(s) THEN Best(store, n, m) ELSE s.results[n]
    <2>1. CASE n \in Pending(s)
      <3> DEFINE l == CHOOSE l \in DOMAIN rows : p[l] = n
      <3>1. \E k \in DOMAIN rows : p[k] = n
        BY <2>1, <1>5
      <3>2. l \in DOMAIN p /\ p[l] = n
        BY <3>1
      <3>3. results[n] = Found(store, rows[l])
        BY <3>1
      <3> HIDE DEF l
      <3>4. rows[l] = Neighbours(store, Queries[n], fetch)
        BY <3>2
      <3> QED
        BY <3>3, <3>4, <2>1, <1>6
    <2>2. CASE n \notin Pending(s)
      <3>1. ~ \E k \in DOMAIN rows : p[k] = n
        BY <2>2, <1>5
      <3> QED
        BY <3>1, <2>2
    <2> QED
      BY <2>1, <2>2
  <1>8. results \in [DOMAIN Queries -> Seq(Docs)]
    <2>1. \A n \in DOMAIN Queries : results[n] \in Seq(Docs)
      BY <1>1, <1>6, <1>7
    <2> QED
      BY <2>1
  <1> HIDE DEF results
  <1>9. \A l \in DOMAIN p : p[l] \in Pending(s) /\ results[p[l]] = Best(store, p[l], m)
    <2> SUFFICES ASSUME NEW l \in DOMAIN p
                 PROVE  p[l] \in Pending(s) /\ results[p[l]] = Best(store, p[l], m)
      OBVIOUS
    <2>1. p[l] \in DOMAIN Queries /\ p[l] \in Pending(s)
      BY <1>4, <1>5
    <2> QED
      BY <2>1, <1>7
  <1>10. short = {l \in DOMAIN p : Len(Best(store, p[l], m)) < TopK /\ fetch < Len(store["index"])}
    BY <1>9
  <1> HIDE DEF short, fetch
  <1>11. /\ Kept(p, short) \in Seq(DOMAIN Queries)
         /\ Len(Kept(p, short)) = Cardinality(short) /\ Cardinality(short) \in Nat
         /\ Descending(short, Places(short)) \in [1..Cardinality(short) -> short]
         /\ \A n \in 1..Cardinality(short) :
              Kept(p, short)[n] = p[Descending(short, Places(short))[n]]
         /\ \A i \in short : \E n \in 1..Cardinality(short) :
              Descending(short, Places(short))[n] = i
    <2>1. short \in SUBSET DOMAIN p
      BY <1>10
    <2> QED
      BY <2>1, <1>1, KeptIs DEF p
  <1>12. {Kept(p, short)[n] : n \in DOMAIN Kept(p, short)} = {p[l] : l \in short}
    <2>1. DOMAIN Kept(p, short) = 1..Cardinality(short)
      BY <1>11, LenProperties
    <2>2. ASSUME NEW n \in 1..Cardinality(short) PROVE Kept(p, short)[n] \in {p[l] : l \in short}
      BY <1>11
    <2>3. ASSUME NEW l \in short PROVE \E n \in 1..Cardinality(short) : Kept(p, short)[n] = p[l]
      BY <1>11
    <2> QED
      BY <2>1, <2>2, <2>3
  <1>13. {p[l] : l \in short} =
           {n \in Pending(s) : Len(Best(store, n, m)) < TopK /\ fetch < Len(store["index"])}
    BY <1>5, <1>10
  <1>14. Round(store, s) \in RoundState
    BY <1>1, <1>2, <1>8, <1>11 DEF RoundState, m
  <1>15. /\ Round(store, s).multiplier = 2 * m /\ Round(store, s).results = results
         /\ Round(store, s).pending = Kept(p, short)
    BY <1>2
  <1>16. Pending(Round(store, s)) = {p[l] : l \in short}
    BY <1>12, <1>15 DEF Pending
  <1> QED
    BY <1>7, <1>13, <1>14, <1>15, <1>16 DEF m, fetch, results

\* At first every query is pending and nothing is found.
LEMMA FirstRoundIs ==
  /\ FirstRound \in RoundState /\ FirstRound.multiplier = FetchMultiplier
  /\ \A n \in DOMAIN Queries : FirstRound.results[n] = <<>>
  /\ Pending(FirstRound) = DOMAIN Queries
  <1>1. DOMAIN Queries = 1..Len(Queries) /\ Len(Queries) \in Nat
    BY QueryScored
  <1> DEFINE all == [n \in DOMAIN Queries |-> n]
             none == [n \in DOMAIN Queries |-> <<>>]
  <1>2. all \in Seq(DOMAIN Queries) /\ DOMAIN all = DOMAIN Queries
        /\ \A n \in DOMAIN Queries : all[n] = n
    BY <1>1
  <1>3. none \in [DOMAIN Queries -> Seq(Docs)] /\ \A n \in DOMAIN Queries : none[n] = <<>>
    BY EmptySeq
  <1>4. FirstRound = [multiplier |-> FetchMultiplier, results |-> none, pending |-> all]
    BY DEF FirstRound
  <1> HIDE DEF all, none
  <1>5. FirstRound.multiplier = FetchMultiplier /\ FirstRound.results = none
        /\ FirstRound.pending = all /\ FetchMultiplier \in Nat
    BY <1>4, SearchAssumption
  <1>6. FirstRound \in RoundState
    BY <1>2, <1>3, <1>4, <1>5 DEF RoundState
  <1>7. Pending(FirstRound) = DOMAIN Queries
    BY <1>2, <1>5 DEF Pending
  <1> QED
    BY <1>3, <1>5, <1>6, <1>7

\* Each round follows from the one before.
LEMMA RoundsAre ==
  ASSUME NEW store, Sound(store)
  PROVE  /\ Rounds(store)[0] = FirstRound
         /\ \A k \in 0..MaxFetchMultiplier : Rounds(store)[k] \in RoundState
         /\ \A k \in 1..MaxFetchMultiplier :
              Rounds(store)[k] = IF More(Rounds(store)[k - 1])
                                   THEN Round(store, Rounds(store)[k - 1])
                                   ELSE Rounds(store)[k - 1]
  <1> DEFINE M == MaxFetchMultiplier
             After(s) == IF More(s) THEN Round(store, s) ELSE s
             step == [s \in RoundState |-> After(s)]
             Next1(f) == [k \in 0..M |-> IF k = 0 THEN FirstRound ELSE After(f[k - 1])]
  <1>1. M \in Nat /\ FirstRound \in RoundState
    BY SearchAssumption, FirstRoundIs
  <1>2. \A s \in RoundState : After(s) \in RoundState
    BY RoundIs
  <1>3. step \in [RoundState -> RoundState] /\ \A s \in RoundState : step[s] = After(s)
    BY <1>2
  <1>4. Rounds(store) = CHOOSE f : f = Next1(f)
    BY DEF Rounds
  <1> HIDE DEF step, After, M
  <1>5. Iterates(RoundState, FirstRound, step, M)
    BY <1>1, <1>3, Iterated
  <1>6. PICK f \in [0..M -> RoundState] : f[0] = FirstRound /\ \A k \in 1..M : f[k] = step[f[k - 1]]
    BY <1>5 DEF Iterates, Goes
  <1>7. f = Next1(f)
    <2>1. \A k \in 0..M : k # 0 => k \in 1..M /\ k - 1 \in 0..M /\ f[k - 1] \in RoundState
      BY <1>1
    <2>2. \A k \in 0..M : f[k] = IF k = 0 THEN FirstRound ELSE After(f[k - 1])
      BY <2>1, <1>3, <1>6
    <2> QED
      BY <2>2
  <1> DEFINE w == Rounds(store)
  <1>8. w = Next1(w)
    BY <1>4, <1>7
  <1> HIDE DEF w
  <1>9. \A k \in 0..M : w[k] = IF k = 0 THEN FirstRound ELSE After(w[k - 1])
    BY <1>8
  <1>10. w[0] = FirstRound /\ \A k \in 1..M : w[k] = After(w[k - 1])
    <2>1. 0 \in 0..M /\ \A k \in 1..M : k \in 0..M /\ k # 0
      BY <1>1
    <2> QED
      BY <2>1, <1>9
  <1> DEFINE T == {n \in Nat : n <= M => w[n] \in RoundState}
  <1>11. 0 \in T
    BY <1>1, <1>10
  <1>12. ASSUME NEW n \in Nat, n \in T PROVE n + 1 \in T
    <2> SUFFICES ASSUME n + 1 <= M PROVE w[n + 1] \in RoundState
      OBVIOUS
    <2>1. w[n] \in RoundState /\ n + 1 \in 1..M /\ (n + 1) - 1 = n
      BY <1>1, <1>12
    <2>2. w[n + 1] = After(w[n])
      BY <2>1, <1>10
    <2> QED
      BY <2>1, <2>2, <1>2 DEF After
  <1> HIDE DEF T
  <1>13. \A n \in Nat : n \in T
    BY <1>11, <1>12, NatSetInduction
  <1>14. \A k \in 0..M : w[k] \in RoundState
    BY <1>1, <1>13 DEF T
  <1> QED
    BY <1>10, <1>14 DEF w, M, After

\* After k rounds, of which j found something pending and its multiplier not too
\* large: what is no longer pending has its final result, and the rest has what
\* the last of them found.
RoundOK(store, s, k) ==
  \E j \in 0..k :
    /\ s.multiplier = Multiplier[j]
    /\ j > 0 => Multiplier[j - 1] <= MaxFetchMultiplier
    /\ More(s) => j = k
    /\ \A n \in DOMAIN Queries :
         s.results[n] = IF n \notin Pending(s) THEN Best(store, n, LastMultiplier)
                        ELSE IF j = 0 THEN <<>> ELSE Best(store, n, Multiplier[j - 1])

\* One more round.
LEMMA RoundKeeps ==
  ASSUME NEW store, Sound(store), NEW s \in RoundState, NEW k \in Nat,
         k + 1 <= MaxFetchMultiplier, RoundOK(store, s, k)
  PROVE  RoundOK(store, IF More(s) THEN Round(store, s) ELSE s, k + 1)
  <1> DEFINE M == MaxFetchMultiplier
  <1>1. PICK j \in 0..k :
          /\ s.multiplier = Multiplier[j]
          /\ j > 0 => Multiplier[j - 1] <= M
          /\ More(s) => j = k
          /\ \A n \in DOMAIN Queries :
               s.results[n] = IF n \notin Pending(s) THEN Best(store, n, LastMultiplier)
                              ELSE IF j = 0 THEN <<>> ELSE Best(store, n, Multiplier[j - 1])
    BY DEF RoundOK
  <1>2. M \in Nat
    BY SearchAssumption
  <1>3. CASE ~ More(s)
    <2>1. j \in 0..k + 1
      BY <1>1
    <2> QED
      BY <2>1, <1>1, <1>3 DEF RoundOK
  <1>4. CASE More(s)
    <2> DEFINE t == Round(store, s)
               m == Multiplier[k]
    <2>1. j = k /\ s.multiplier = m /\ m <= M
      BY <1>1, <1>4 DEF More
    <2>2. k \in 0..M /\ k + 1 \in 1..M /\ (k + 1) - 1 = k /\ k + 1 \in 0..k + 1 /\ k + 1 > 0
      BY <1>2
    <2>3. m \in Nat /\ Multiplier[k + 1] = 2 * m
      BY <2>2, Multipliers
    <2>4. /\ t \in RoundState /\ t.multiplier = 2 * m
          /\ \A n \in DOMAIN Queries :
               t.results[n] = IF n \in Pending(s) THEN Best(store, n, m) ELSE s.results[n]
          /\ Pending(t) = {n \in Pending(s) : /\ Len(Best(store, n, m)) < TopK
                                              /\ TopK * m < Len(store["index"])}
      BY <2>1, RoundIs
    <2>5. m <= LastMultiplier /\ LastMultiplier \in Nat
      <3>1. PICK i \in 0..M :
              /\ \A l \in 0..M : Multiplier[l] <= M <=> l < i
              /\ LastMultiplier = IF i = 0 THEN 0 ELSE Multiplier[i - 1]
        BY LastIs
      <3>2. k < i /\ i - 1 \in 0..M
        <4>1. k < i
          BY <3>1, <2>1, <2>2
        <4> QED
          BY <4>1, <1>2, <2>2
      <3>3. LastMultiplier = Multiplier[i - 1]
        BY <3>1, <3>2, <2>2
      <3>4. Multiplier[i - 1] \in Nat /\ (k < i - 1 => m < Multiplier[i - 1])
        BY <3>2, <2>2, Multipliers
      <3>5. k = i - 1 \/ k < i - 1
        BY <3>2, <2>2
      <3> QED
        BY <3>3, <3>4, <3>5, <2>3
    <2> HIDE DEF t, m
    <2>6. ASSUME NEW n \in DOMAIN Queries
          PROVE  t.results[n] = IF n \notin Pending(t) THEN Best(store, n, LastMultiplier)
                                ELSE Best(store, n, m)
      <3>1. CASE n \in Pending(t)
        BY <3>1, <2>4
      <3>2. CASE n \in Pending(s) /\ n \notin Pending(t)
        <4>1. ~ (Len(Best(store, n, m)) < TopK /\ TopK * m < Len(store["index"]))
          BY <3>2, <2>4
        <4>2. Best(store, n, m) = Best(store, n, LastMultiplier)
          BY <4>1, <2>3, <2>5, BestStays
        <4> QED
          BY <4>2, <3>2, <2>4
      <3>3. CASE n \notin Pending(s)
        <4>1. n \notin Pending(t)
          BY <3>3, <2>4
        <4> QED
          BY <4>1, <3>3, <2>4, <1>1
      <3> QED
        BY <3>1, <3>2, <3>3
    <2>7. t.multiplier = Multiplier[k + 1] /\ Multiplier[(k + 1) - 1] = m
      BY <2>2, <2>3, <2>4 DEF m
    <2>8. RoundOK(store, t, k + 1)
      <3>1. \A n \in DOMAIN Queries :
              t.results[n] = IF n \notin Pending(t) THEN Best(store, n, LastMultiplier)
                             ELSE IF k + 1 = 0 THEN <<>>
                             ELSE Best(store, n, Multiplier[(k + 1) - 1])
        BY <2>2, <2>6, <2>7
      <3>2. Multiplier[(k + 1) - 1] <= M
        BY <2>1, <2>7
      <3> QED
        BY <3>1, <3>2, <2>2, <2>7 DEF RoundOK
    <2> QED
      BY <2>8, <1>4 DEF t
  <1> QED
    BY <1>3, <1>4

\* The search with a filter finds what the largest multiplier would have found
\* for each query on its own.
LEMMA FilterExact ==
  ASSUME NEW store, Sound(store), NEW n \in DOMAIN Queries
  PROVE  SearchWithFilter(store)[n] = Best(store, n, LastMultiplier)
  <1> DEFINE M == MaxFetchMultiplier
             w == Rounds(store)
  <1>1. M \in Nat
    BY SearchAssumption
  <1>2. PICK i \in 0..M :
          /\ \A l \in 0..M : Multiplier[l] <= M <=> l < i
          /\ LastMultiplier = IF i = 0 THEN 0 ELSE Multiplier[i - 1]
    BY LastIs
  <1>3. LastMultiplier \in Nat
    <2>1. i # 0 => i - 1 \in 0..M
      BY <1>1
    <2> QED
      BY <2>1, <1>2, Multipliers
  <1>4. CASE store["index"] = <<>>
    <2>1. SearchWithFilter(store)[n] = <<>>
      BY <1>4, FirstRoundIs DEF SearchWithFilter
    <2>2. Len(store["index"]) = 0
      BY <1>4
    <2> QED
      BY <2>1, <2>2, <1>3, BestEmpty
  <1>5. CASE store["index"] # <<>>
    <2>1. SearchWithFilter(store) = w[M].results
      BY <1>5 DEF SearchWithFilter
    <2>2. /\ w[0] = FirstRound /\ \A k \in 0..M : w[k] \in RoundState
          /\ \A k \in 1..M : w[k] = IF More(w[k - 1]) THEN Round(store, w[k - 1]) ELSE w[k - 1]
      BY RoundsAre
    <2> HIDE DEF w, M
    <2> DEFINE T == {k \in Nat : k <= M => RoundOK(store, w[k], k)}
    <2>3. 0 \in T
      <3>1. RoundOK(store, FirstRound, 0)
        <4>1. FirstRound.multiplier = Multiplier[0]
          BY FirstRoundIs, Multipliers
        <4>2. 0 \in 0..0 /\ ~ (0 > 0)
          OBVIOUS
        <4>3. \A q \in DOMAIN Queries :
                FirstRound.results[q] =
                  IF q \notin Pending(FirstRound) THEN Best(store, q, LastMultiplier)
                  ELSE IF 0 = 0 THEN <<>> ELSE Best(store, q, Multiplier[0 - 1])
          BY FirstRoundIs
        <4> QED
          BY <4>1, <4>2, <4>3 DEF RoundOK
      <3> QED
        BY <3>1, <2>2
    <2>4. ASSUME NEW k \in Nat, k \in T PROVE k + 1 \in T
      <3> SUFFICES ASSUME k + 1 <= M PROVE RoundOK(store, w[k + 1], k + 1)
        OBVIOUS
      <3>1. RoundOK(store, w[k], k) /\ k \in 0..M /\ k + 1 \in 1..M /\ (k + 1) - 1 = k
        BY <2>4, <1>1
      <3>2. w[k + 1] = IF More(w[k]) THEN Round(store, w[k]) ELSE w[k]
        BY <3>1, <2>2
      <3>3. w[k] \in RoundState
        BY <3>1, <2>2
      <3> QED
        BY <3>1, <3>2, <3>3, RoundKeeps DEF M
    <2> HIDE DEF T
    <2>5. M \in T
      BY <1>1, <2>3, <2>4, NatSetInduction
    <2>6. RoundOK(store, w[M], M)
      BY <2>5 DEF T
    <2> DEFINE s == w[M]
    <2> HIDE DEF s
    <2>7. PICK j \in 0..M :
            /\ s.multiplier = Multiplier[j]
            /\ j > 0 => Multiplier[j - 1] <= M
            /\ More(s) => j = M
            /\ \A q \in DOMAIN Queries :
                 s.results[q] = IF q \notin Pending(s) THEN Best(store, q, LastMultiplier)
                                ELSE IF j = 0 THEN <<>> ELSE Best(store, q, Multiplier[j - 1])
      BY <2>6 DEF RoundOK, s, M
    <2>8. ~ More(s)
      <3> SUFFICES ASSUME More(s) PROVE FALSE
        OBVIOUS
      <3>1. Multiplier[M] <= M
        BY <2>7 DEF More, M
      <3>2. Multiplier[M] \in Nat /\ Multiplier[M] >= M + 1
        BY <1>1, Multipliers DEF M
      <3> QED
        BY <3>1, <3>2, <1>1
    <2>9. s \in RoundState
      BY <1>1, <2>2 DEF s
    <2>10. CASE n \notin Pending(s)
      BY <2>1, <2>7, <2>10 DEF s
    <2>11. CASE n \in Pending(s)
      <3>1. s.pending # <<>>
        BY <2>11, <2>9 DEF Pending, RoundState
      <3>2. ~ (Multiplier[j] <= M)
        BY <3>1, <2>7, <2>8 DEF More, M
      <3>3. ~ (j < i) /\ (j > 0 => j - 1 \in 0..M /\ j - 1 < i)
        BY <3>2, <1>1, <1>2, <2>7 DEF M
      <3>4. j = i
        BY <3>3, <1>1, <1>2, <2>7
      <3>5. CASE j = 0
        <4>1. SearchWithFilter(store)[n] = <<>>
          BY <2>1, <2>7, <2>11, <3>5 DEF s
        <4>2. LastMultiplier = 0
          BY <3>4, <3>5, <1>2
        <4> QED
          BY <4>1, <4>2, <1>3, BestEmpty
      <3>6. CASE j # 0
        BY <2>1, <2>7, <2>11, <3>4, <3>6, <1>2 DEF s
      <3> QED
        BY <3>5, <3>6
    <2> QED
      BY <2>10, <2>11
  <1> QED
    BY <1>4, <1>5

-----------------------------------------------------------------------------
(* No document is stored twice.                                            *)

\* What a run still has to do it has not stored, unless it knows it.
OnceOK(k) ==
  /\ \A f \in Files : Once(k.store[f])
  /\ k.pc = "index" => k.todo \cap Ids(k.store) \subseteq k.known

OnceInv ==
  /\ uri => \A f \in Files : Once(remote[f])
  /\ \A c \in Clients : OnceOK(client[c])

\* An empty store holds nothing twice.
LEMMA OnceIdle == OnceOK(Idle) /\ OnceOK(Idle)'
  BY DEF OnceOK, Idle, EmptyStore, Once, Files

\* Nothing is stored yet.
LEMMA OnceInit == Init => OnceInv
  <1> SUFFICES ASSUME Init PROVE OnceInv
    OBVIOUS
  <1>1. \A c \in Clients : client[c] = Idle
    BY DEF Init
  <1> QED
    BY <1>1, OnceIdle DEF Init, OnceInv

\* A step of one client that leaves the storage alone.
LEMMA OnceStep ==
  ASSUME TypeInv, OnceInv, NEW c \in Clients, NEW r, OnceOK(r),
         client' = [client EXCEPT ![c] = r], UNCHANGED <<remote, uri>>
  PROVE  OnceInv'
  <1>1. ASSUME NEW e \in Clients PROVE OnceOK(client'[e])
    <2>1. CASE e = c
      BY <2>1 DEF TypeInv, TypeOK
    <2>2. CASE e # c
      BY <2>2 DEF TypeInv, TypeOK, OnceInv
    <2> QED
      BY <2>1, <2>2
  <1>2. \A e \in Clients : OnceOK(client[e])'
    BY <1>1
  <1> QED
    BY <1>2 DEF OnceInv

\* A document that is new is appended.
LEMMA OnceAppended ==
  ASSUME NEW s \in Seq(Docs), NEW d \in Docs, Once(s), \A i \in DOMAIN s : s[i] # d
  PROVE  Once(Append(s, d))
  <1>1. /\ Len(s) \in Nat /\ DOMAIN s = 1..Len(s) /\ Len(Append(s, d)) = Len(s) + 1
        /\ DOMAIN Append(s, d) = 1..Len(s) + 1
        /\ \A i \in 1..Len(s) : Append(s, d)[i] = s[i]
        /\ Append(s, d)[Len(s) + 1] = d
    <2>1. /\ Append(s, d) \in Seq(Docs) /\ Len(Append(s, d)) = Len(s) + 1
          /\ \A i \in 1..Len(s) : Append(s, d)[i] = s[i]
          /\ Append(s, d)[Len(s) + 1] = d
      BY AppendProperties
    <2> QED
      BY <2>1, LenProperties
  <1> QED
    BY <1>1 DEF Once

\* A run inserts a document once, and only one it does not know.
LEMMA OnceInsert ==
  ASSUME PairInv, OnceInv, NEW c \in Clients, NEW d \in Docs, Insert(c, d)
  PROVE  OnceInv'
  <1>1. client[c] \in Client /\ client \in [Clients -> Client] /\ ClientOK(c, client[c])
        /\ OnceOK(client[c]) /\ client[c].pc = "index" /\ d \in client[c].todo
    BY DEF PairInv, TypeInv, TypeOK, OnceInv, Insert
  <1> DEFINE old == client[c].store
  <1>2. old \in [Files -> Seq(Docs)] /\ old["index"] = old["metadata"]
    BY <1>1 DEF Client, ClientOK
  <1>3. PICK s : s = IF d \in client[c].known THEN old
                     ELSE [f \in Files |-> Append(old[f], d)]
    OBVIOUS
  <1>4. PICK r : r = [client[c] EXCEPT !.todo = @ \ {d}, !.store = s]
    OBVIOUS
  <1>5. client' = [client EXCEPT ![c] = r]
    BY <1>1, <1>3, <1>4 DEF Insert, Client
  <1>6. /\ r.pc = "index" /\ r.store = s /\ r.todo = client[c].todo \ {d}
        /\ r.known = client[c].known
    BY <1>1, <1>4 DEF Client
  <1>7. CASE d \in client[c].known
    <2>1. OnceOK(r)
      BY <1>1, <1>3, <1>6, <1>7 DEF OnceOK
    <2> QED
      BY <1>5, <2>1, OnceStep DEF Insert, PairInv
  <1>8. CASE d \notin client[c].known
    <2>1. s = [f \in Files |-> Append(old[f], d)]
      BY <1>3, <1>8
    <2>2. d \notin Ids(old)
      BY <1>1, <1>8 DEF OnceOK
    <2>3. \A f \in Files : old[f] \in Seq(Docs) /\ Once(old[f]) /\ \A i \in DOMAIN old[f] : old[f][i] # d
      BY <1>1, <1>2, <2>2 DEF OnceOK, Ids, Files
    <2> HIDE DEF old
    <2>4. \A f \in Files : Once(s[f])
      BY <2>1, <2>3, OnceAppended
    <2>5. Ids(s) \subseteq Ids(old) \cup {d}
      <3>1. PICK m : m = old["metadata"]
        OBVIOUS
      <3>2. m \in Seq(Docs) /\ s["metadata"] = Append(m, d)
        BY <2>1, <2>3, <3>1 DEF Files
      <3>3. /\ Append(m, d) \in Seq(Docs) /\ Len(Append(m, d)) = Len(m) + 1
            /\ \A i \in 1..Len(m) : Append(m, d)[i] = m[i]
            /\ Append(m, d)[Len(m) + 1] = d
        BY <3>2, AppendProperties
      <3>4. /\ DOMAIN m = 1..Len(m) /\ Len(m) \in Nat
            /\ DOMAIN Append(m, d) = 1..Len(m) + 1
        BY <3>2, <3>3, LenProperties
      <3>5. \A i \in 1..Len(m) + 1 : i \in 1..Len(m) \/ i = Len(m) + 1
        BY <3>4
      <3> QED
        BY <3>1, <3>2, <3>3, <3>4, <3>5 DEF Ids
    <2>6. OnceOK(r)
      <3>1. client[c].todo \cap Ids(old) \subseteq client[c].known
        BY <1>1 DEF OnceOK, old
      <3> QED
        BY <3>1, <1>6, <2>4, <2>5 DEF OnceOK
    <2> QED
      BY <1>5, <2>6, OnceStep DEF Insert, PairInv
  <1> QED
    BY <1>7, <1>8

\* What is downloaded is what is stored.
LEMMA OnceGet ==
  ASSUME PairInv, OnceInv, NEW c \in Clients, NEW f \in Files, Get(c, f)
  PROVE  OnceInv'
  <1>1. client[c] \in Client /\ OnceOK(client[c]) /\ client[c].pc = "download" /\ uri
    BY DEF PairInv, TypeInv, TypeOK, OnceInv, Get
  <1>2. Once(remote[f])
    BY <1>1 DEF OnceInv
  <1>3. PICK r : r = [client[c] EXCEPT !.moved = @ \cup {f}, !.store[f] = remote[f]]
    OBVIOUS
  <1>4. client' = [client EXCEPT ![c] = r]
    BY <1>1, <1>3 DEF Get, Client, PairInv, TypeInv, TypeOK
  <1>5. r.pc = "download" /\ \A g \in Files : r.store[g] = IF g = f THEN remote[f] ELSE client[c].store[g]
    BY <1>1, <1>3 DEF Client
  <1>6. OnceOK(r)
    BY <1>1, <1>2, <1>5 DEF OnceOK
  <1> QED
    BY <1>4, <1>6, OnceStep DEF Get, PairInv

\* The other steps that leave the storage alone.
LEMMA OnceLocal ==
  ASSUME PairInv, OnceInv, NEW c \in Clients,
         (\E data \in Datasets : Start(c, data)) \/ Load(c) \/ Save(c) \/ Stop(c)
  PROVE  OnceInv'
  <1>1. client[c] \in Client /\ OnceOK(client[c]) /\ client \in [Clients -> Client]
        /\ ClientOK(c, client[c])
    BY DEF PairInv, TypeInv, TypeOK, OnceInv
  <1>2. ASSUME NEW data \in Datasets, Start(c, data) PROVE OnceInv'
    <2>1. PICK r : r = [client[c] EXCEPT !.pc = IF uri THEN "download" ELSE "index",
                                         !.todo = IF c \in Runs THEN data ELSE {}]
      OBVIOUS
    <2>2. client' = [client EXCEPT ![c] = r]
      BY <1>1, <1>2, <2>1 DEF Start, Client
    <2>3. r.store = EmptyStore
      BY <1>1, <1>2, <2>1 DEF Start, Client, ClientOK
    <2>4. OnceOK(r)
      BY <2>3 DEF OnceOK, EmptyStore, Ids, Once, Files
    <2> QED
      BY <1>2, <2>2, <2>4, OnceStep DEF Start, PairInv
  <1>3. CASE Load(c)
    <2>1. PICK r : r = [client[c] EXCEPT !.pc = IF c \in Runs THEN "index" ELSE "serve",
                                         !.moved = {},
                                         !.known = IF c \in Runs THEN Ids(client[c].store) ELSE {}]
      OBVIOUS
    <2>2. client' = [client EXCEPT ![c] = r]
      BY <1>1, <1>3, <2>1 DEF Load, Client
    <2>3. r.store = client[c].store /\ (r.pc = "index" => r.known = Ids(r.store))
      BY <1>1, <2>1 DEF Client
    <2>4. OnceOK(r)
      BY <1>1, <2>3 DEF OnceOK
    <2> QED
      BY <1>3, <2>2, <2>4, OnceStep DEF Load, PairInv
  <1>4. CASE Save(c)
    <2>1. PICK r : r = [client[c] EXCEPT !.pc = "upload"]
      OBVIOUS
    <2>2. client' = [client EXCEPT ![c] = r]
      BY <1>1, <1>4, <2>1 DEF Save, Client
    <2>3. r.store = client[c].store /\ r.pc = "upload"
      BY <1>1, <2>1 DEF Client
    <2>4. OnceOK(r)
      BY <1>1, <2>3 DEF OnceOK
    <2> QED
      BY <1>4, <2>2, <2>4, OnceStep DEF Save, PairInv
  <1>5. CASE Stop(c)
    BY <1>5, OnceIdle, OnceStep DEF Stop, PairInv
  <1> QED
    BY <1>2, <1>3, <1>4, <1>5

\* What is stored is a run's list.
LEMMA OnceStored ==
  ASSUME PairInv, OnceInv, NEW c \in Clients,
         (\E f \in Files : Put(c, f)) \/ WriteManifest(c)
  PROVE  OnceInv'
  <1>1. client[c] \in Client /\ OnceOK(client[c]) /\ client \in [Clients -> Client]
        /\ ClientOK(c, client[c])
    BY DEF PairInv, TypeInv, TypeOK, OnceInv
  <1>2. ASSUME NEW f \in Files, Put(c, f) PROVE OnceInv'
    <2>1. PICK r : r = [client[c] EXCEPT !.moved = @ \cup {f}]
      OBVIOUS
    <2>2. client' = [client EXCEPT ![c] = r]
      BY <1>1, <1>2, <2>1 DEF Put, Client
    <2>3. r.store = client[c].store /\ r.pc = "upload"
      BY <1>1, <1>2, <2>1 DEF Client, Put
    <2>4. OnceOK(r)
      BY <1>1, <2>3 DEF OnceOK
    <2>5. ASSUME NEW e \in Clients PROVE OnceOK(client'[e])
      <3>1. CASE e = c
        BY <1>1, <2>2, <2>4, <3>1
      <3>2. CASE e # c
        BY <1>1, <2>2, <3>2 DEF OnceInv
      <3> QED
        BY <3>1, <3>2
    <2>6. ASSUME uri', NEW g \in Files PROVE Once(remote'[g])
      <3>1. uri /\ remote' = [remote EXCEPT ![f] = client[c].store[f]] /\ Once(client[c].store[f])
        BY <1>1, <1>2, <2>6 DEF Put, OnceOK
      <3>2. remote'[g] = client[c].store[f] \/ remote'[g] = remote[g]
        BY <3>1 DEF PairInv, TypeInv, TypeOK
      <3> QED
        BY <3>1, <3>2 DEF OnceInv
    <2>7. (\A e \in Clients : OnceOK(client[e])') /\ (uri => \A g \in Files : Once(remote[g]))'
      BY <2>5, <2>6
    <2> QED
      BY <2>7 DEF OnceInv
  <1>3. CASE WriteManifest(c)
    <2>1. \A f \in Files : remote[f] = client[c].store[f] /\ Once(client[c].store[f])
      BY <1>1, <1>3 DEF WriteManifest, ClientOK, OnceOK
    <2>2. ASSUME NEW e \in Clients PROVE OnceOK(client'[e])
      <3>1. CASE e = c
        BY <1>1, <1>3, <3>1, OnceIdle DEF WriteManifest
      <3>2. CASE e # c
        BY <1>1, <1>3, <3>2 DEF OnceInv, WriteManifest
      <3> QED
        BY <3>1, <3>2
    <2>3. (\A e \in Clients : OnceOK(client[e])') /\ (\A g \in Files : Once(remote[g]))'
      BY <1>3, <2>1, <2>2 DEF WriteManifest
    <2> QED
      BY <2>3 DEF OnceInv
  <1> QED
    BY <1>2, <1>3

\* Every step keeps documents single.
LEMMA OnceNext == PairInv /\ OnceInv /\ [Next]_vars => OnceInv'
  <1> SUFFICES ASSUME PairInv, OnceInv, [Next]_vars PROVE OnceInv'
    OBVIOUS
  <1>1. CASE Next
    BY <1>1, OnceGet, OnceInsert, OnceLocal, OnceStored DEF Next
  <1>2. CASE UNCHANGED vars
    BY <1>2 DEF vars, OnceInv, OnceOK
  <1> QED
    BY <1>1, <1>2

\* With one index run at a time, the filtered search of any batch is exact for
\* each of its queries, however many rounds the others take.
THEOREM SearchesExact == RunsExclude => (Spec => []SearchExact)
  <1> SUFFICES ASSUME RunsExclude PROVE Spec => []SearchExact
    OBVIOUS
  <1>1. PairInv /\ OnceInv => SearchExact
    <2> SUFFICES ASSUME PairInv, OnceInv, NEW c \in Readers, client[c].pc = "serve",
                        NEW n \in DOMAIN Queries
                 PROVE  LET store == client[c].store
                            ranking == Ranking(store, Queries[n])
                        IN  /\ SearchNoFilter(store)[n] = Take(ranking, TopK)
                            /\ SearchWithFilter(store)[n] =
                                 Take(Filtered(Take(ranking, TopK * LastMultiplier)), TopK)
      BY DEF SearchExact
    <2> DEFINE store == client[c].store
    <2>1. Sound(store)
      <3>1. c \in Clients /\ client[c] \in Client /\ ClientOK(c, client[c]) /\ OnceOK(client[c])
        BY DEF Clients, PairInv, TypeInv, TypeOK, OnceInv
      <3> QED
        BY <3>1 DEF Sound, Client, ClientOK, OnceOK, Files
    <2> HIDE DEF store
    <2>2. Queries[n] \in DOMAIN Score /\ TopK \in Nat
      BY QueryScored, SearchAssumption
    <2>3. SearchNoFilter(store)[n] = Take(Ranking(store, Queries[n]), TopK)
      BY <2>1, <2>2, NearestAnswered DEF SearchNoFilter
    <2>4. SearchWithFilter(store)[n] = Best(store, n, LastMultiplier)
      BY <2>1, FilterExact
    <2> QED
      BY <2>3, <2>4 DEF Best, store
  <1>2. PairInv /\ [Next]_vars => PairInv'
    BY PairNext
  <1>3. PairInv /\ OnceInv /\ [Next]_vars => OnceInv'
    BY OnceNext
  <1> QED
    BY <1>1, <1>2, <1>3, PairInit, OnceInit, PTL DEF Spec
=============================================================================
