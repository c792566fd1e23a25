------------------------------- MODULE Config -------------------------------
(***************************************************************************)
(* config/config.go over the file source of config/file.go: the merged     *)
(* data, the cache of values, and the goroutines that reload it.  Watch    *)
(* starts a watcher of the file and a watchSource goroutine on every call. *)
(*                                                                         *)
(* The configuration maps dotted keys to the number of the write that gave *)
(* them their value, 0 for none.  Load has succeeded once before anything  *)
(* else happens, as FromFile requires, and Watch is not called after Close.*)
(***************************************************************************)
EXTENDS Naturals, FiniteSets

CONSTANTS
  Keys,       \* keys that are read, watched and written
  Watchers,   \* calls of Watch, and the goroutines they start
  Readers,    \* goroutines of the application that call Value
  MaxWrites   \* bound on writes to the file

ASSUME ConfigAssumption == MaxWrites \in Nat /\ Watchers \cap Readers = {}

Procs == Watchers \cup Readers

VARIABLES
  file, writes,      \* contents of the file; how often it was written
  data, cached,      \* c.data, c.cached
  observed,          \* keys with an observer
  closed,            \* Close was called
  pc,                \* watchSource, by the call of Watch that started it
  pending,           \* watchers with a Write event in their channel
  got, todo,         \* what the goroutine has loaded; keys it has yet to report
  vpc, vkey, vval,   \* a call of Value: control, key, what it has read
  told,              \* what the observers of a key were last told
  behind,            \* history: watchers that were alive at some write
  over,              \* history: goroutines whose Value overlaps a merge and clear
  taint, toldTaint   \* history: cached and told values that come from such a call

world == <<file, writes, closed>>
loops == <<pc, pending, got, todo, behind>>
calls == <<vpc, vkey, vval, over>>
memo  == <<cached, taint>>
news  == <<told, toldTaint>>
vars  == <<world, data, memo, observed, loops, calls, news>>

Contents(n) == [Keys -> {0, n}]

Init ==
  /\ file \in Contents(1) /\ writes = 1 /\ data = file /\ closed = FALSE
  /\ cached = [k \in Keys |-> 0] /\ observed = {} /\ told = [k \in Keys |-> 0]
  /\ pc = [w \in Watchers |-> "none"] /\ pending = {} /\ behind = {}
  /\ got = [w \in Watchers |-> [k \in Keys |-> 0]] /\ todo = [w \in Watchers |-> {}]
  /\ vpc = [p \in Procs |-> "idle"] /\ vkey \in [Procs -> {CHOOSE k \in Keys : TRUE}]
  /\ vval = [p \in Procs |-> 0] /\ over = {} /\ taint = {} /\ toldTaint = {}

Alive(w) == pc[w] \notin {"none", "failed", "end"} /\ ~closed

(* The file is written, or emptied by the first step of a longer write.    *)
Write(c) ==
  /\ writes < MaxWrites /\ c \in Contents(writes + 1)
  /\ writes' = writes + 1 /\ file' = c
  /\ LET live == {w \in Watchers : Alive(w)}
     IN  pending' = pending \cup live /\ behind' = behind \cup live
  /\ UNCHANGED <<closed, data, memo, observed, pc, got, todo, calls, news>>

-----------------------------------------------------------------------------
(* Value, step by step: the cache, the data under the read lock, the store *)
(* into the cache after it.  A value that is not there is not stored.      *)
Clearing == \E w \in Watchers : pc[w] = "clear"

ValueCached(p, k) ==
  /\ vpc[p] = "idle" /\ vkey' = [vkey EXCEPT ![p] = k]
  /\ vval' = [vval EXCEPT ![p] = cached[k]]
  /\ vpc' = [vpc EXCEPT ![p] = IF cached[k] = 0 THEN "read" ELSE "done"]
  /\ over' = IF k \in taint \/ Clearing THEN over \cup {p} ELSE over \ {p}

getValue(p) ==
  /\ vpc[p] = "read"
  /\ vval' = [vval EXCEPT ![p] = data[vkey[p]]] /\ over' = over \ {p}
  /\ vpc' = [vpc EXCEPT ![p] = IF data[vkey[p]] = 0 THEN "done" ELSE "store"]
  /\ UNCHANGED <<world, data, memo, observed, loops, vkey, news>>

StoreValue(p) ==
  /\ vpc[p] = "store" /\ vpc' = [vpc EXCEPT ![p] = "done"]
  /\ cached' = [cached EXCEPT ![vkey[p]] = vval[p]]
  /\ taint' = IF p \in over THEN taint \cup {vkey[p]} ELSE taint \ {vkey[p]}
  /\ UNCHANGED <<world, data, observed, loops, vkey, vval, over, news>>

Value(r, k) ==
  /\ ValueCached(r, k)
  /\ UNCHANGED <<world, data, memo, observed, loops, news>>

ValueReturn(r) ==
  /\ vpc[r] = "done" /\ vpc' = [vpc EXCEPT ![r] = "idle"]
  /\ vval' = [vval EXCEPT ![r] = 0] /\ over' = over \ {r}
  /\ UNCHANGED <<world, data, memo, observed, loops, vkey, news>>

-----------------------------------------------------------------------------
(* Watch: the observer stays although the file cannot be watched.          *)
Watch(w, k) ==
  /\ pc[w] = "none" /\ ~closed /\ observed' = observed \cup {k}
  /\ pc' = [pc EXCEPT ![w] = "next"] \/ pc' = [pc EXCEPT ![w] = "failed"]
  /\ UNCHANGED <<world, data, memo, pending, got, todo, behind, calls, news>>

(* Next of the file watcher: Load reads the file as it is now.             *)
Next_Load(w) ==
  /\ pc[w] = "next" /\ w \in pending /\ pending' = pending \ {w}
  /\ got' = [got EXCEPT ![w] = file] /\ pc' = [pc EXCEPT ![w] = "merge"]
  /\ UNCHANGED <<world, data, memo, observed, todo, behind, calls, news>>

(* The file cannot be read, or the watcher reports an error: the goroutine *)
(* returns, and nobody watches the file in its place.                      *)
Next_Error(w) ==
  /\ pc[w] = "next" /\ ~closed /\ pc' = [pc EXCEPT ![w] = "end"] /\ pending' = pending \ {w}
  /\ UNCHANGED <<world, data, memo, observed, got, todo, behind, calls, news>>

(* mergeMaps: a key that the source no longer has keeps its value.         *)
mergeMaps(dst, src) == [k \in Keys |-> IF src[k] = 0 THEN dst[k] ELSE src[k]]

(* watchSource: decode under the lock, clear the cache, tell observers.    *)
Merge(w) ==
  /\ pc[w] = "merge" /\ pc' = [pc EXCEPT ![w] = "clear"]
  /\ data' = mergeMaps(data, got[w])
  /\ over' = over \cup {p \in Procs : vpc[p] \in {"store", "done"}}
  /\ UNCHANGED <<world, memo, observed, pending, got, todo, behind, vpc, vkey, vval, news>>

\* Mutant: the cache is not cleared.
ClearCacheForgotten(w) ==
  /\ pc[w] = "clear" /\ pc' = [pc EXCEPT ![w] = "notify"]
  /\ todo' = [todo EXCEPT ![w] = observed]
  /\ got' = [got EXCEPT ![w] = [k \in Keys |-> 0]]
  /\ UNCHANGED <<world, data, memo, observed, pending, behind, calls, news>>

ClearCache(w) ==
  /\ pc[w] = "clear" /\ pc' = [pc EXCEPT ![w] = "notify"]
  /\ cached' = [k \in Keys |-> 0] /\ taint' = {}
  /\ todo' = [todo EXCEPT ![w] = observed]
  /\ got' = [got EXCEPT ![w] = [k \in Keys |-> 0]]
  /\ UNCHANGED <<world, data, observed, pending, behind, calls, news>>

NotifyValue(w, k) ==
  /\ pc[w] = "notify" /\ k \in todo[w]
  /\ ValueCached(w, k) /\ todo' = [todo EXCEPT ![w] = @ \ {k}]
  /\ UNCHANGED <<world, data, memo, observed, pc, pending, got, behind, news>>

NotifyObserver(w) ==
  /\ pc[w] = "notify" /\ vpc[w] = "done" /\ vpc' = [vpc EXCEPT ![w] = "idle"]
  /\ told' = [told EXCEPT ![vkey[w]] = vval[w]]
  /\ toldTaint' = IF w \in over THEN toldTaint \cup {vkey[w]} ELSE toldTaint \ {vkey[w]}
  /\ vval' = [vval EXCEPT ![w] = 0] /\ over' = over \ {w}
  /\ UNCHANGED <<world, data, memo, observed, loops, vkey>>

\* Mutant: events that arrived during the reload are taken as done.
NotifiedDraining(w) ==
  /\ pc[w] = "notify" /\ vpc[w] = "idle" /\ todo[w] = {}
  /\ pc' = [pc EXCEPT ![w] = "next"] /\ pending' = pending \ {w}
  /\ UNCHANGED <<world, data, memo, observed, got, todo, behind, calls, news>>

Notified(w) ==
  /\ pc[w] = "notify" /\ vpc[w] = "idle" /\ todo[w] = {}
  /\ pc' = [pc EXCEPT ![w] = "next"]
  /\ UNCHANGED <<world, data, memo, observed, pending, got, todo, behind, calls, news>>

(* Close stops the watchers.  Their goroutines finish what they are at and *)
(* then find a closed channel in Next again and again: they never end.     *)
Close ==
  /\ ~closed /\ closed' = TRUE /\ pending' = {}
  /\ UNCHANGED <<file, writes, data, memo, observed, pc, got, todo, behind, calls, news>>

watchSource(w) ==
  \/ Next_Load(w) \/ Merge(w) \/ ClearCache(w) \/ NotifyObserver(w) \/ Notified(w)
  \/ getValue(w) \/ StoreValue(w) \/ \E k \in Keys : NotifyValue(w, k)

Next ==
  \/ \E c \in Contents(writes + 1) : Write(c)
  \/ \E r \in Readers : \/ getValue(r) \/ StoreValue(r) \/ ValueReturn(r)
                        \/ \E k \in Keys : Value(r, k)
  \/ \E w \in Watchers : \/ watchSource(w) \/ Next_Error(w)
                         \/ \E k \in Keys : Watch(w, k)
  \/ Close

(* The goroutines of watchSource run.                                      *)
Spec == Init /\ [][Next]_vars /\ \A w \in Watchers : WF_vars(watchSource(w))

-----------------------------------------------------------------------------
(* config.go:191-208.  Several goroutines load and merge the same file at  *)
(* the same time, an older content possibly after a newer one; still, when *)
(* the file is no longer written, the data come to hold and keep what is   *)
(* in it, if a watcher was there when it was written and no goroutine has  *)
(* ended with an error.                                                    *)
DataFollowsFile ==
  <>[]((\E w \in behind : Alive(w)) /\ (\A w \in Watchers : pc[w] # "end")
         => \A k \in Keys : file[k] \in {0, data[k]})

(* config.go:126-145, 211-222.  When no reload is at work, a cached value, *)
(* and what observers were told, is the value in the data, unless it comes *)
(* from a call of Value that overlapped the merge and clear of a reload:   *)
(* their order leaves no other way to keep an old value.                   *)
StaleOnlyIfOvertaken ==
  (\A w \in Watchers : pc[w] \in {"none", "failed", "next", "end"}) =>
    /\ \A k \in Keys \ taint : cached[k] \in {0, data[k]}
    /\ \A k \in Keys \ toldTaint : told[k] \in {0, data[k]}
=============================================================================
