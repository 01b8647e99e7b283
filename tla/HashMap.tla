------------------------------- MODULE HashMap -------------------------------
(***************************************************************************)
(* SafeHashMap (data_structures/safe_hash_map.h, safe_hash_node.h): an     *)
(* array of buckets, each a singly linked list under a lock of its own, so *)
(* that an operation on a bucket is one step.  Only clear goes through all *)
(* buckets; nobody in the program clears a map from two threads.           *)
(***************************************************************************)
EXTENDS Integers, SequencesExt

CONSTANTS
  Key, Value, NotFound,
  hashSize,
  hashFn,  \* key -> natural number
  Address, \* the memory for nodes
  nullptr

ASSUME HashAssumption == hashSize \in Nat \ {0} /\ \A k \in Key : hashFn[k] \in Nat
ASSUME AddressAssumption ==
  /\ nullptr \notin Address /\ IsFiniteSet(Address) /\ IsFiniteSet(Key)
  /\ Cardinality(Address) >= Cardinality(Key)

VARIABLES
  head,    \* bucket -> its first node
  heap,    \* the nodes there are: address -> [key, value, next]
  answer,  \* the answer of the last find
  clearing \* the bucket clear comes to next; hashSize when nobody clears

hashVars == <<head, heap, answer, clearing>>

Bucket == 0..hashSize - 1

HashInit ==
  /\ head = [b \in Bucket |-> nullptr]
  /\ heap = <<>>
  /\ answer = NotFound
  /\ clearing = hashSize
-----------------------------------------------------------------------------
BucketOf(k) == hashFn[k] % hashSize

\* The nodes from n on, as every loop follows them.
Chain(nodes, n) ==
  LET from[m \in Address \cup {nullptr}] ==
        IF m \notin DOMAIN nodes THEN <<>> ELSE <<m>> \o from[nodes[m].next]
  IN  from[n]

\* node and prev when the loop ends: the node of the key or nullptr, and the one before.
Search(k) ==
  LET chain == Chain(heap, head[BucketOf(k)])
      at == Min({i \in DOMAIN chain : heap[chain[i]].key = k} \cup {Len(chain) + 1})
  IN  [node |-> IF at > Len(chain) THEN nullptr ELSE chain[at],
       prev |-> IF at = 1 THEN nullptr ELSE chain[at - 1]]

Freed(nodes) == [n \in DOMAIN heap \ nodes |-> heap[n]]

FindKey(k) ==
  /\ answer' = LET n == Search(k).node IN IF n = nullptr THEN NotFound ELSE heap[n].value
  /\ UNCHANGED <<head, heap, clearing>>

\* The memory of a node that was freed is used again; which, nobody can tell.
Allocated == CHOOSE n \in Address : n \notin DOMAIN heap

\* A known key gets the value; a new node goes to the end of the list.
InsertKey(k, v) ==
  LET s == Search(k) IN
  /\ \/ /\ s.node # nullptr
        /\ heap' = [heap EXCEPT ![s.node].value = v]
        /\ UNCHANGED head
     \/ /\ s.node = nullptr
        /\ LET node == [key |-> k, value |-> v, next |-> nullptr]
               grown == [n \in DOMAIN heap \cup {Allocated} |->
                           IF n = Allocated THEN node ELSE heap[n]]
           IN  IF s.prev = nullptr
               THEN head' = [head EXCEPT ![BucketOf(k)] = Allocated] /\ heap' = grown
               ELSE heap' = [grown EXCEPT ![s.prev].next = Allocated] /\ UNCHANGED head
  /\ UNCHANGED <<answer, clearing>>

\* Bug: the list ends where the node was.
BugRestLost(k) ==
  LET s == Search(k) IN
  /\ s.node # nullptr
  /\ IF s.prev = nullptr
     THEN head' = [head EXCEPT ![BucketOf(k)] = heap[s.node].next] /\ heap' = Freed({s.node})
     ELSE heap' = [Freed({s.node}) EXCEPT ![s.prev].next = nullptr] /\ UNCHANGED head
  /\ UNCHANGED <<answer, clearing>>

EraseKey(k) ==
  LET s == Search(k) IN
  /\ s.node # nullptr
  /\ IF s.prev = nullptr
     THEN head' = [head EXCEPT ![BucketOf(k)] = heap[s.node].next] /\ heap' = Freed({s.node})
     ELSE /\ heap' = [Freed({s.node}) EXCEPT ![s.prev].next = heap[s.node].next]
          /\ UNCHANGED head
  /\ UNCHANGED <<answer, clearing>>

StartClear == clearing = hashSize /\ clearing' = 0 /\ UNCHANGED <<head, heap, answer>>

ClearBucket ==
  /\ clearing < hashSize
  /\ head' = [head EXCEPT ![clearing] = nullptr]
  /\ heap' = Freed(ToSet(Chain(heap, head[clearing])))
  /\ clearing' = clearing + 1
  /\ UNCHANGED answer

HashNext ==
  \/ \E k \in Key : FindKey(k) \/ EraseKey(k) \/ \E v \in Value : InsertKey(k, v)
  \/ StartClear \/ ClearBucket

HashSpec == HashInit /\ [][HashNext]_hashVars
-----------------------------------------------------------------------------
\* The nodes of all buckets, and the map they are.
Listed == UNION {ToSet(Chain(heap, head[b])) : b \in Bucket}
Mapped ==
  LET listed == Listed
  IN  [k \in {heap[n].key : n \in listed} |-> heap[CHOOSE n \in listed : heap[n].key = k].value]

Map == INSTANCE SafeMap WITH
         map <- Mapped, out <- answer,
         Parts <- {{k \in Key : BucketOf(k) = b} : b \in Bucket}

\* The lists with their pointers are a map for every thread, with nodes freed and
\* their memory used again, keys that share a bucket, and operations that come
\* while a thread clears; no node is lost (safe_hash_node.h).
MapSpec == Map!Spec /\ [](DOMAIN heap = Listed)
=============================================================================
