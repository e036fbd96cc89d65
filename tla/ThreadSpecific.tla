--------------------------- MODULE ThreadSpecific ---------------------------
(***************************************************************************)
(* ThreadSpecific<T> (thread_specific.h): an element for every thread id,  *)
(* in chunks that are added as ids go up, used by threads that come and go *)
(* as ThreadIdPool has it.  get() finds the element of the calling thread, *)
(* for_each() goes through those of all ids.                               *)
(*                                                                         *)
(* An element is represented by the id its constructor was given.  The     *)
(* mutex, the check under it and the store of the new chunk are steps of   *)
(* their own; a chunk is filled before anyone else can reach it.           *)
(***************************************************************************)
EXTENDS ThreadIdPool, Sequences

CONSTANTS ChunkSize,  \* thread_list_chunk_size, a power of two (at least 4 in the code)
          NumChunks   \* n_chunks (25 in the code)

ASSUME ChunkAssumption == ChunkSize \in Nat \ {0} /\ NumChunks \in Nat \ {0}

(* Mutant: the boundary of a chunk belongs to the chunk below it.          *)
ChunkIdBelow(id) == Cardinality({j \in 0..(NumChunks - 1) : ChunkSize * 2^j < id})

(* compute_chunk_id: the loop doubles k while k <= id.                     *)
ChunkId(id) == Cardinality({j \in 0..(NumChunks - 1) : ChunkSize * 2^j <= id})

(* get_chunk_size: P, P, 2P, 4P, ...                                       *)
SizeOf(c) == IF c = 0 THEN ChunkSize ELSE ChunkSize * 2^(c - 1)

(* compute_chunk_position                                                  *)
Position(id) == IF ChunkId(id) = 0 THEN id ELSE id - SizeOf(ChunkId(id))

(* Mutant: the constructor is given the position, not the id.              *)
ConstructFromZero(c) == [i \in 1..SizeOf(c) |-> i - 1]

(* The elements of a new chunk: constructor(chunk_size + i), or i in the   *)
(* first chunk.                                                            *)
Construct(c) == [i \in 1..SizeOf(c) |-> (IF c = 0 THEN 0 ELSE SizeOf(c)) + i - 1]

VARIABLES chunks,          \* chunks[c]: the elements of chunk c, <<>> while it is null
          growing_mutex,
          doing,           \* doing[t]: where t is in get() or for_each()
          chunk,           \* chunk[t]: the chunk that t is at
          num,             \* num[t]: what for_each found in num_thread_ids, or Null in get()
          visited,         \* visited[t]: the elements for_each has called f on
          news             \* how many chunks have been made

storage == <<chunks, growing_mutex, doing, chunk, num, visited, news>>
allVars == <<vars, storage>>

TSInit ==
  /\ Init
  /\ chunks = [c \in 0..(NumChunks - 1) |-> IF c = 0 THEN Construct(0) ELSE <<>>]
  /\ growing_mutex = FALSE
  /\ doing = [t \in Thread |-> "nothing"]
  /\ chunk = [t \in Thread |-> 0]
  /\ num = [t \in Thread |-> Null]
  /\ visited = [t \in Thread |-> <<>>]
  /\ news = 1

Do(t, label) == doing' = [doing EXCEPT ![t] = label]

-----------------------------------------------------------------------------
(* get(): the chunk of the thread's id.                                    *)
Get(t) ==
  /\ pc[t] = "owns" /\ doing[t] = "nothing"
  /\ chunk' = [chunk EXCEPT ![t] = ChunkId(node[t])]
  /\ Do(t, "look")
  /\ UNCHANGED <<vars, chunks, growing_mutex, num, visited, news>>

(* for_each(): the number of ids is loaded once, at the start.             *)
ForEach(t) ==
  /\ pc[t] = "owns" /\ doing[t] = "nothing"
  /\ num' = [num EXCEPT ![t] = num_thread_ids]
  /\ Do(t, "look")
  /\ UNCHANGED <<vars, chunks, growing_mutex, chunk, visited, news>>

(* A chunk that is null has to be made first.                              *)
LookAtChunk(t) ==
  /\ doing[t] = "look"
  /\ Do(t, IF chunks[chunk[t]] = <<>> THEN "lock" ELSE "use")
  /\ UNCHANGED <<vars, chunks, growing_mutex, chunk, num, visited, news>>

(* ensure_chunk_exists                                                     *)
GrowLock(t) ==
  /\ doing[t] = "lock"
  /\ ~growing_mutex
  /\ growing_mutex' = TRUE
  /\ Do(t, "check")
  /\ UNCHANGED <<vars, chunks, chunk, num, visited, news>>

(* Mutant: whoever gets the mutex makes a chunk.                           *)
GrowUnchecked(t) ==
  /\ doing[t] = "check"
  /\ Do(t, "grow")
  /\ UNCHANGED <<vars, chunks, growing_mutex, chunk, num, visited, news>>

GrowCheck(t) ==
  /\ doing[t] = "check"
  /\ Do(t, IF chunks[chunk[t]] = <<>> THEN "grow" ELSE "unlock")
  /\ UNCHANGED <<vars, chunks, growing_mutex, chunk, num, visited, news>>

Grow(t) ==
  /\ doing[t] = "grow"
  /\ chunks' = [chunks EXCEPT ![chunk[t]] = Construct(chunk[t])]
  /\ news' = news + 1
  /\ Do(t, "unlock")
  /\ UNCHANGED <<vars, growing_mutex, chunk, num, visited>>

GrowUnlock(t) ==
  /\ doing[t] = "unlock"
  /\ growing_mutex' = FALSE
  /\ Do(t, "use")
  /\ UNCHANGED <<vars, chunks, chunk, num, visited, news>>

Finish(t) ==
  /\ Do(t, "nothing")
  /\ chunk' = [chunk EXCEPT ![t] = 0]
  /\ num' = [num EXCEPT ![t] = Null]
  /\ visited' = [visited EXCEPT ![t] = <<>>]
  /\ UNCHANGED <<vars, chunks, growing_mutex, news>>

(* get() returns the element at the position of the id.                    *)
Got(t) == doing[t] = "use" /\ num[t] = Null /\ Finish(t)

(* for_each calls f on the elements of the chunk, as far as there are ids, *)
(* and goes on to the next chunk.                                          *)
Visit(t) ==
  LET left == num[t] - Len(visited[t])
      here == Len(chunks[chunk[t]])
      some == SubSeq(chunks[chunk[t]], 1, IF left < here THEN left ELSE here)
  IN /\ doing[t] = "use" /\ num[t] # Null
     /\ visited' = [visited EXCEPT ![t] = @ \o some]
     /\ IF left <= here THEN Do(t, "return") /\ UNCHANGED chunk
        ELSE Do(t, "look") /\ chunk' = [chunk EXCEPT ![t] = @ + 1]
     /\ UNCHANGED <<vars, chunks, growing_mutex, num, news>>

ForEachReturns(t) == doing[t] = "return" /\ Finish(t)

(* Threads are in neither call while they get their id or give it back.    *)
Ids ==
  /\ Next
  /\ \A t \in Thread : pc'[t] # pc[t] => doing[t] = "nothing"
  /\ UNCHANGED storage

TSNext ==
  \/ Ids
  \/ \E t \in Thread :
       \/ Get(t) \/ ForEach(t) \/ LookAtChunk(t) \/ GrowLock(t) \/ GrowCheck(t) \/ Grow(t)
       \/ GrowUnlock(t) \/ Got(t) \/ Visit(t) \/ ForEachReturns(t)

TSSpec == TSInit /\ [][TSNext]_allVars

-----------------------------------------------------------------------------
(* A thread gets an element of its own, within its chunk, and the one that *)
(* was constructed for its id (compute_chunk_position, the argument of     *)
(* constructor): two live threads never meet in one.                       *)
ElementIsOwn ==
  \A t \in Thread : doing[t] = "use" /\ num[t] = Null =>
    /\ Position(node[t]) \in 0..(Len(chunks[chunk[t]]) - 1)
    /\ chunks[chunk[t]][Position(node[t]) + 1] = node[t]

(* for_each calls f once on each element, in the order of the ids, and     *)
(* misses none of the ids there were when it began, those of threads that  *)
(* have not used theirs yet included (a scan of the hazard pointers        *)
(* depends on it).                                                         *)
VisitsAll ==
  \A t \in Thread :
    /\ \A k \in DOMAIN visited[t] : visited[t][k] = k - 1
    /\ doing[t] = "return" => Len(visited[t]) = num[t]

(* A chunk is made once, whoever wants it (ensure_chunk_exists), and never *)
(* replaced: references that get() returned stay good.                     *)
ChunksAreFinal ==
  [][\A c \in DOMAIN chunks : chunks[c] # <<>> =>
       chunks'[c] = chunks[c] /\ news' = Cardinality({d \in DOMAIN chunks : chunks'[d] # <<>>})]_allVars
=============================================================================
