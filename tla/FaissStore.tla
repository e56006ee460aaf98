----------------------------- MODULE FaissStore -----------------------------
(***************************************************************************)
(* A FAISS database in S3: FAISSVectorStore keeps an index of vectors and a *)
(* list of metadata side by side, and saves them as two objects of one     *)
(* prefix.  Runs of index_db download them, append what is new and upload  *)
(* both; the RAG API and the evaluation download and serve them meanwhile. *)
(* Objects are transferred by a pool of threads, one by one in any order;  *)
(* everybody may be killed between any two.                                *)
(***************************************************************************)
EXTENDS Naturals, Sequences, FiniteSets

CONSTANTS
  Docs,      \* doc_ids; a vector stands for the document it was made of
  Datasets,  \* the sets of documents a run may be given
  Runs,      \* index runs that may overlap
  Readers,   \* processes that load the database to search it
  NoObject   \* what an object is before its first upload

ASSUME FaissAssumption ==
  /\ Datasets \subseteq SUBSET Docs
  /\ Runs \cap Readers = {}

VARIABLES
  remote,    \* remote[f]: the object f under {pipeline}/vector_db
  uri,       \* does the manifest have a vector_db_uri?
  client     \* client[c]: the local state of a run or reader

vars == <<remote, uri, client>>
-----------------------------------------------------------------------------
Clients == Runs \cup Readers
Files == {"index", "metadata"}

\* FAISSVectorStore: vectors and metadata, the i-th of one for the i-th of the other.
EmptyStore == [f \in Files |-> <<>>]

Consistent(store) == Len(store["index"]) = Len(store["metadata"])

Ids(store) == {store["metadata"][i] : i \in DOMAIN store["metadata"]}

\* pc, the files transferred so far, the store, and for a run the ids that
\* were there and the documents still to come.
Idle == [pc |-> "idle", moved |-> {}, store |-> EmptyStore, known |-> {}, todo |-> {}]

Init ==
  /\ remote = [f \in Files |-> NoObject]
  /\ uri = FALSE
  /\ client = [c \in Clients |-> Idle]

\* Mutant of Start: not incremental unless asked for.
StartAnew(c, data) ==
  /\ client[c].pc = "idle"
  /\ client' = [client EXCEPT ![c].pc = IF c \in Runs THEN "index" ELSE "download",
                              ![c].todo = IF c \in Runs THEN data ELSE {}]
  /\ uri \/ c \in Runs
  /\ UNCHANGED <<remote, uri>>

\* A run without a database in the manifest begins with an empty store; a
\* reader without one fails.
Start(c, data) ==
  /\ client[c].pc = "idle"
  /\ uri \/ c \in Runs
  /\ client' = [client EXCEPT ![c].pc = IF uri THEN "download" ELSE "index",
                              ![c].todo = IF c \in Runs THEN data ELSE {}]
  /\ UNCHANGED <<remote, uri>>

\* S3Storage.download: one object of the prefix.
Get(c, f) ==
  /\ client[c].pc = "download"
  /\ f \notin client[c].moved
  /\ client' = [client EXCEPT ![c].moved = @ \cup {f}, ![c].store[f] = remote[f]]
  /\ UNCHANGED <<remote, uri>>

\* Mutant of Load: the lengths are not compared.
LoadUnchecked(c) ==
  /\ client[c].pc = "download"
  /\ client[c].moved = Files
  /\ client' = [client EXCEPT ![c].pc = IF c \in Runs THEN "index" ELSE "serve",
                              ![c].moved = {},
                              ![c].known = IF c \in Runs THEN Ids(client[c].store) ELSE {}]
  /\ UNCHANGED <<remote, uri>>

\* FAISSVectorStore.load: two lists of different length are refused (Stop).
Load(c) ==
  /\ client[c].pc = "download"
  /\ client[c].moved = Files
  /\ Consistent(client[c].store)
  /\ client' = [client EXCEPT ![c].pc = IF c \in Runs THEN "index" ELSE "serve",
                              ![c].moved = {},
                              ![c].known = IF c \in Runs THEN Ids(client[c].store) ELSE {}]
  /\ UNCHANGED <<remote, uri>>

\* The next document of the shuffled loader.  The store lives in the run's
\* memory: how the buffer is cut cannot be seen, and an insert that fails ends
\* the run (Stop).
Insert(c, d) ==
  /\ client[c].pc = "index"
  /\ d \in client[c].todo
  /\ client' = [client EXCEPT
       ![c].todo = @ \ {d},
       ![c].store = IF d \in client[c].known THEN @
                    ELSE [f \in Files |-> Append(@[f], d)]]
  /\ UNCHANGED <<remote, uri>>

\* save, to a temporary directory.
Save(c) ==
  /\ client[c].pc = "index"
  /\ client[c].todo = {}
  /\ Consistent(client[c].store)
  /\ client' = [client EXCEPT ![c].pc = "upload"]
  /\ UNCHANGED <<remote, uri>>

\* S3Storage.upload: one object.
Put(c, f) ==
  /\ client[c].pc = "upload"
  /\ f \notin client[c].moved
  /\ remote' = [remote EXCEPT ![f] = client[c].store[f]]
  /\ client' = [client EXCEPT ![c].moved = @ \cup {f}]
  /\ UNCHANGED uri

\* Mutant of WriteManifest: the manifest does not wait for the uploads.
WriteManifestEarly(c) ==
  /\ client[c].pc = "upload"
  /\ uri' = TRUE
  /\ client' = [client EXCEPT ![c] = IF client[c].moved = Files THEN Idle ELSE @]
  /\ UNCHANGED remote

WriteManifest(c) ==
  /\ client[c].pc = "upload"
  /\ client[c].moved = Files
  /\ uri' = TRUE
  /\ client' = [client EXCEPT ![c] = Idle]
  /\ UNCHANGED remote

\* Killed, restarted, or an exception nobody catches.
Stop(c) ==
  /\ client[c].pc # "idle"
  /\ client' = [client EXCEPT ![c] = Idle]
  /\ UNCHANGED <<remote, uri>>

Next ==
  \E c \in Clients :
    \/ \E data \in Datasets : Start(c, data)
    \/ \E f \in Files : Get(c, f) \/ Put(c, f)
    \/ \E d \in Docs : Insert(c, d)
    \/ Load(c) \/ Save(c) \/ WriteManifest(c) \/ Stop(c)

Spec == Init /\ [][Next]_vars
-----------------------------------------------------------------------------
(* Properties.                                                             *)

Client ==
  [pc : {"idle", "download", "index", "upload", "serve"}, moved : SUBSET Files,
   store : [Files -> Seq(Docs)], known : SUBSET Docs, todo : SUBSET Docs]

\* Every variable has its type; a store that is downloaded has both objects.
TypeOK ==
  /\ remote \in [Files -> Seq(Docs) \cup {NoObject}]
  /\ uri \in BOOLEAN
  /\ client \in [Clients -> Client]

\* With one index run at a time, no store is ever in use that answers with the
\* metadata of another document, whatever is killed half way through an upload
\* and whenever the two objects are downloaded: load compares only lengths,
\* but what is stored only grows at the end.
Paired(c) ==
  client[c].pc \in {"index", "upload", "serve"} =>
    client[c].store["index"] = client[c].store["metadata"]

PairsMatch == \A c \in Clients : Paired(c)

Extends(s, t) == Len(s) <= Len(t) /\ \A i \in 1..Len(s) : s[i] = t[i]

\* With one index run at a time, what the manifest has named stays where it is:
\* a later run, killed or not, takes nothing away and moves nothing.
PublishedKept ==
  [][\A f \in Files : uri /\ remote[f] # NoObject => Extends(remote[f], remote'[f])]_vars
=============================================================================
