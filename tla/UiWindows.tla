------------------------------ MODULE UiWindows -------------------------------
(***************************************************************************)
(* Windows that share the cache of documents (gui-renderer/src/cache.rs):  *)
(* the document of the state a window is to show is looked up, made by the *)
(* model if it is not there, and then inserted.  The code has the cache;   *)
(* its callers are those its comments describe.  The cache is the          *)
(* "Deterministic layout cache" of the changelog: the document of a state  *)
(* is always the same.                                                     *)
(***************************************************************************)
EXTENDS UidlCache

CONSTANTS Windows,
          Apps           \* functions from CacheKeys to documents

VARIABLES documents,     \* the app's, by the key of the state
          window,        \* where each window is, and the key it is to show
          uses,          \* history: what a cache that evicts the least recent holds
          doubled        \* history: a cached key was inserted again

windowVars == <<cacheVars, documents, window, uses, doubled>>

Idle == [at |-> "idle", key |-> {}]

WindowsInit ==
  /\ CacheInit
  /\ documents \in Apps
  /\ window = [w \in Windows |-> Idle]
  /\ uses = <<>> /\ doubled = FALSE

Used(key) ==
  LET used == Append(RemoveFirst(uses, key), key)
  IN uses' = IF Len(used) > MaxEntries THEN Tail(used) ELSE used

FindCached(w, key) ==
  /\ window[w].at = "idle"
  /\ Get(key) /\ Used(key)
  /\ UNCHANGED <<documents, window, doubled>>

\* A miss: the lock is let go, and the model is asked.
Generate(w, key) ==
  /\ window[w].at = "idle" /\ key \notin Cached
  /\ window' = [window EXCEPT ![w] = [at |-> "generating", key |-> {key}]]
  /\ UNCHANGED <<cacheVars, documents, uses, doubled>>

\* By now, another window may have inserted it.
TakeGenerated(w, key) ==
  /\ window[w].at = "generating" /\ key \in window[w].key
  /\ Insert(key, documents[key]) /\ Used(key)
  /\ doubled' = (doubled \/ key \in Cached)
  /\ window' = [window EXCEPT ![w] = Idle]
  /\ UNCHANGED documents

Forget(key) ==
  /\ Invalidate(key) /\ uses' = RemoveFirst(uses, key)
  /\ UNCHANGED <<documents, window, doubled>>

ForgetAll ==
  /\ Clear /\ uses' = <<>>
  /\ UNCHANGED <<documents, window, doubled>>

WindowsNext ==
  \/ \E w \in Windows, key \in CacheKeys :
       FindCached(w, key) \/ Generate(w, key) \/ TakeGenerated(w, key)
  \/ \E key \in CacheKeys : Forget(key)
  \/ ForgetAll

WindowsSpec == WindowsInit /\ [][WindowsNext]_windowVars

-------------------------------------------------------------------------------

(***************************************************************************)
(* The cache is the ideal one, which holds the keys used most recently, as *)
(* many as fit: so windows whose states are as many do not wait for the    *)
(* model again.  Once two windows have missed one key and both inserted    *)
(* it, it may lack the older of them, as the second insertion evicts       *)
(* another entry for nothing, but it never has a key in place of a more    *)
(* recent one (get, insert, invalidate).                                   *)
(***************************************************************************)
RecentlyUsedAreCached ==
  /\ ToSet(recency) = Cached
  /\ MaxEntries > 0 => IsSuffix(recency, uses) /\ (~doubled => recency = uses)
===============================================================================
