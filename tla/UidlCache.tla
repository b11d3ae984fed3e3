------------------------------ MODULE UidlCache -------------------------------
(***************************************************************************)
(* The cache of documents by the hash of what they were made for           *)
(* (gui-renderer/src/cache.rs): at capacity, an insertion first evicts the *)
(* entry accessed least recently.  Each operation holds the mutex.  The    *)
(* clock is taken to go on between two accesses, so the times of access    *)
(* are the order of the keys: recency, oldest first.                       *)
(***************************************************************************)
EXTENDS Naturals, Sequences, SequencesExt, FiniteSets

CONSTANTS CacheKeys, MaxEntries

ASSUME CacheAssumption == MaxEntries \in Nat

VARIABLES entries,  \* a function from the cached keys to documents
          recency   \* the cached keys by their time of access

cacheVars == <<entries, recency>>

CacheInit == entries = <<>> /\ recency = <<>>

Cached == DOMAIN entries
Without(key) == [k \in Cached \ {key} |-> entries[k]]

\* Fault: a look-up is not an access.
TouchedNot(key) == recency

Touched(key) == Append(RemoveFirst(recency, key), key)

Get(key) == key \in Cached /\ recency' = Touched(key) /\ UNCHANGED entries

\* The cache is full; whether the key to be inserted is one of those cached is
\* not looked at.
Full == Cached # {} /\ Cardinality(Cached) >= MaxEntries

\* The least recently accessed entry makes room, and the others are kept.
Victims == IF Full THEN {Head(recency)} ELSE {}
Kept == IF Full THEN Tail(recency) ELSE recency

Insert(key, document) ==
  /\ entries' = [k \in (Cached \ Victims) \cup {key} |->
                   IF k = key THEN document ELSE entries[k]]
  /\ recency' = Append(RemoveFirst(Kept, key), key)

Invalidate(key) == entries' = Without(key) /\ recency' = RemoveFirst(recency, key)

Clear == entries' = <<>> /\ recency' = <<>>
===============================================================================
