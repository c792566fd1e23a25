---------------------------- MODULE ConfigProofs ----------------------------
(***************************************************************************)
(* That a stale cached value, or a stale value at an observer, can only    *)
(* come from a call of Value that overlapped a reload, for every set of    *)
(* keys, watchers and readers.                                             *)
(***************************************************************************)
EXTENDS Config, TLAPS

(* The parts of the invariant that are about types.                        *)
ConfigType ==
  /\ cached \in [Keys -> Nat] /\ told \in [Keys -> Nat] /\ data \in [Keys -> Nat]
  /\ pc \in [Watchers -> {"none", "failed", "next", "merge", "clear", "notify", "end"}]
  /\ todo \in [Watchers -> SUBSET observed]
  /\ got \in [Watchers -> [Keys -> Nat]] /\ file \in [Keys -> Nat] /\ writes \in Nat
  /\ vpc \in [Procs -> {"idle", "read", "store", "done"}]
  /\ vkey \in [Procs -> Keys \cup {CHOOSE k \in Keys : TRUE}] /\ vval \in [Procs -> Nat]
  /\ \A p \in Procs : vpc[p] # "idle" => vkey[p] \in Keys

(* A value of the cache that is not marked is current, unless a goroutine  *)
(* has merged and not yet cleared (config.go:204-213).                     *)
CacheCurrent == ~Clearing => \A k \in Keys \ taint : cached[k] \in {0, data[k]}

(* What a call of Value has read is current, unless a merge overtook it.   *)
ReadCurrent ==
  \A p \in Procs \ over : vpc[p] \in {"store", "done"} => vval[p] \in {0, data[vkey[p]]}

(* Goroutine w has yet to tell the observers of k.                         *)
WillTell(w, k) ==
  \/ pc[w] = "clear"
  \/ pc[w] = "notify" /\ (k \in todo[w] \/ (vpc[w] # "idle" /\ vkey[w] = k))

(* An observer holds the current value or is about to be told.             *)
ToldCurrent ==
  \A k \in Keys \ toldTaint :
    told[k] \in {0, data[k]} \/ \E w \in Watchers : WillTell(w, k)

(* Only keys with an observer are told, and a goroutine of watchSource     *)
(* calls Value only for them, while it notifies.                           *)
OnlyObserved ==
  /\ \A k \in Keys : told[k] # 0 => k \in observed
  /\ \A w \in Watchers : vpc[w] # "idle" => pc[w] = "notify" /\ vkey[w] \in observed

ConfigInv ==
  /\ ConfigType
  /\ CacheCurrent
  /\ ReadCurrent
  /\ ToldCurrent
  /\ OnlyObserved

-----------------------------------------------------------------------------
(* The invariant holds of the configuration that FromFile has loaded.      *)
LEMMA ConfigStarts == Init => ConfigInv
<1> SUFFICES ASSUME Init PROVE ConfigInv OBVIOUS
<1>1. file \in [Keys -> Nat] /\ data = file BY DEF Init, Contents
<1>2. pc \in [Watchers -> {"none"}] /\ vpc \in [Procs -> {"idle"}] BY DEF Init
<1>3. vkey \in [Procs -> Keys \cup {CHOOSE k \in Keys : TRUE}] BY DEF Init
<1>4. ConfigType BY <1>1, <1>2, <1>3 DEF Init, ConfigType
<1>5. CacheCurrent BY DEF Init, CacheCurrent
<1>6. ReadCurrent BY <1>2 DEF ReadCurrent
<1>7. ToldCurrent BY DEF Init, ToldCurrent
<1>8. OnlyObserved BY <1>2 DEF Init, OnlyObserved, Procs
<1> QED BY <1>4, <1>5, <1>6, <1>7, <1>8 DEF ConfigInv

(* What a merge leaves is a map from keys to values.                       *)
LEMMA MergeTyped ==
  ASSUME NEW dst \in [Keys -> Nat], NEW src \in [Keys -> Nat]
  PROVE  mergeMaps(dst, src) \in [Keys -> Nat]
BY DEF mergeMaps

(* Steps that touch neither the data nor what was read, cached or told     *)
(* keep the parts about currency.                                          *)
LEMMA CurrentKept ==
  ASSUME ConfigInv, UNCHANGED <<data, memo, calls, news>>,
         Clearing' <=> Clearing,
         \A w \in Watchers : \A k \in Keys : WillTell(w, k) => WillTell(w, k)'
  PROVE  CacheCurrent' /\ ReadCurrent' /\ ToldCurrent'
<1>1. CacheCurrent' BY DEF ConfigInv, CacheCurrent, memo
<1>2. ReadCurrent' BY DEF ConfigInv, ReadCurrent, calls
<1>3. ToldCurrent' BY DEF ConfigInv, ToldCurrent, news
<1> QED BY <1>1, <1>2, <1>3

(* The file is written, and the watchers are stopped: nothing in memory    *)
(* changes.                                                                *)
LEMMA OutsideStep ==
  ASSUME ConfigInv, Close \/ \E c \in Contents(writes + 1) : Write(c)
  PROVE  ConfigInv'
<1>1. UNCHANGED <<data, memo, observed, pc, got, todo, calls, news>>
  BY DEF Close, Write
<1>2. file' \in [Keys -> Nat] /\ writes' \in Nat
  BY DEF ConfigInv, ConfigType, Close, Write, Contents
<1>3. CacheCurrent' /\ ReadCurrent' /\ ToldCurrent'
  BY <1>1, CurrentKept DEF Clearing, WillTell, calls
<1>4. ConfigType' BY <1>1, <1>2 DEF ConfigInv, ConfigType, calls, memo, news
<1>5. OnlyObserved' BY <1>1 DEF ConfigInv, OnlyObserved, calls, news
<1> QED BY <1>3, <1>4, <1>5 DEF ConfigInv

(* Watch, and a goroutine between two reloads.                             *)
LEMMA BetweenStep ==
  ASSUME ConfigInv, NEW w \in Watchers,
         \/ Next_Load(w) \/ Next_Error(w) \/ Notified(w)
         \/ \E k \in Keys : Watch(w, k)
  PROVE  ConfigInv'
<1>1. UNCHANGED <<data, memo, todo, calls, news, file, writes>> /\ observed \subseteq observed'
  BY DEF Next_Load, Next_Error, Notified, Watch, world
<1>2. /\ pc[w] \in {"none", "next"} \/ (pc[w] = "notify" /\ vpc[w] = "idle" /\ todo[w] = {})
      /\ \E at \in {"failed", "next", "merge", "end"} : pc' = [pc EXCEPT ![w] = at]
  BY DEF Next_Load, Next_Error, Notified, Watch
<1>3. got' \in [Watchers -> [Keys -> Nat]]
  BY DEF ConfigInv, ConfigType, Next_Load, Next_Error, Notified, Watch
<1>4. ConfigType'
  <2>1. pc' \in [Watchers -> {"none", "failed", "next", "merge", "clear", "notify", "end"}]
    BY <1>2 DEF ConfigInv, ConfigType
  <2>2. todo' \in [Watchers -> SUBSET observed'] BY <1>1 DEF ConfigInv, ConfigType
  <2> QED BY <1>1, <1>3, <2>1, <2>2 DEF ConfigInv, ConfigType, calls, memo, news
<1>5. CacheCurrent' /\ ReadCurrent' /\ ToldCurrent'
  <2>1. Clearing' <=> Clearing BY <1>2 DEF Clearing, ConfigInv, ConfigType
  <2>2. \A u \in Watchers : \A k \in Keys : WillTell(u, k) => WillTell(u, k)'
    BY <1>1, <1>2 DEF WillTell, ConfigInv, ConfigType, calls
  <2> QED BY <1>1, <2>1, <2>2, CurrentKept
<1>6. OnlyObserved'
  BY <1>1, <1>2 DEF ConfigInv, ConfigType, OnlyObserved, calls, news
<1> QED BY <1>4, <1>5, <1>6 DEF ConfigInv

(* The merge marks every call that has read and not yet returned, and from *)
(* then until the cache is cleared nothing is claimed of it.               *)
LEMMA MergeStep ==
  ASSUME ConfigInv, NEW w \in Watchers, Merge(w)
  PROVE  ConfigInv'
<1>1. data' \in [Keys -> Nat] BY MergeTyped DEF Merge, ConfigInv, ConfigType
<1>2. pc' = [pc EXCEPT ![w] = "clear"] /\ pc[w] = "merge" BY DEF Merge
<1>3. UNCHANGED <<memo, observed, got, todo, vpc, vkey, vval, news, file, writes>>
  BY DEF Merge, world
<1>4. ConfigType'
  BY <1>1, <1>2, <1>3 DEF ConfigInv, ConfigType, memo, news
<1>5. CacheCurrent' BY <1>2 DEF CacheCurrent, Clearing, ConfigInv, ConfigType
<1>6. ReadCurrent' BY DEF ReadCurrent, Merge
<1>7. ToldCurrent' BY <1>2 DEF ToldCurrent, WillTell, ConfigInv, ConfigType
<1>8. OnlyObserved'
  BY <1>2, <1>3 DEF ConfigInv, ConfigType, OnlyObserved, news
<1> QED BY <1>4, <1>5, <1>6, <1>7, <1>8 DEF ConfigInv

(* The cache is cleared, and every observed key is to be reported.         *)
LEMMA ClearStep ==
  ASSUME ConfigInv, NEW w \in Watchers, ClearCache(w)
  PROVE  ConfigInv'
<1>1. /\ pc' = [pc EXCEPT ![w] = "notify"] /\ pc[w] = "clear"
      /\ todo' = [todo EXCEPT ![w] = observed]
      /\ UNCHANGED <<data, observed, calls, news, file, writes>>
  BY DEF ClearCache, world
<1>2. cached' = [k \in Keys |-> 0] /\ got' = [got EXCEPT ![w] = [k \in Keys |-> 0]]
  BY DEF ClearCache
<1>3. ConfigType'
  <2>1. got' \in [Watchers -> [Keys -> Nat]] BY <1>2 DEF ConfigInv, ConfigType
  <2>2. todo' \in [Watchers -> SUBSET observed'] BY <1>1 DEF ConfigInv, ConfigType
  <2>3. cached' \in [Keys -> Nat] BY <1>2
  <2> QED BY <1>1, <2>1, <2>2, <2>3 DEF ConfigInv, ConfigType, calls, news
<1>4. CacheCurrent' BY <1>2 DEF CacheCurrent
<1>5. ReadCurrent' BY <1>1 DEF ConfigInv, ReadCurrent, calls
<1>6. ToldCurrent'
  <2> SUFFICES ASSUME NEW k \in Keys \ toldTaint, ~(told[k] \in {0, data[k]})
               PROVE  \E u \in Watchers : WillTell(u, k)'
    BY <1>1 DEF ToldCurrent, news
  <2>1. k \in observed BY DEF ConfigInv, OnlyObserved
  <2>2. pc'[w] = "notify" /\ k \in todo'[w] BY <1>1, <2>1 DEF ConfigInv, ConfigType
  <2> QED BY <2>2 DEF WillTell
<1>7. OnlyObserved'
  BY <1>1 DEF ConfigInv, ConfigType, OnlyObserved, calls, news
<1> QED BY <1>3, <1>4, <1>5, <1>6, <1>7 DEF ConfigInv

-----------------------------------------------------------------------------
(* What the steps of a call of Value leave alone.                          *)
LEMMA CallFrame ==
  ASSUME ConfigInv, UNCHANGED <<file, writes, data, observed, pc, got, told>>,
         cached' \in [Keys -> Nat], todo' \in [Watchers -> SUBSET observed],
         NEW p \in Procs, NEW at \in {"idle", "read", "store", "done"}, NEW v \in Nat,
         vpc' = [vpc EXCEPT ![p] = at], vval' = [vval EXCEPT ![p] = v],
         vkey' \in [Procs -> Keys \cup {CHOOSE k \in Keys : TRUE}],
         \A q \in Procs \ {p} : vkey'[q] = vkey[q],
         at # "idle" => vkey'[p] \in Keys
  PROVE  ConfigType'
<1>1. \A q \in Procs : vpc'[q] # "idle" => vkey'[q] \in Keys
  BY DEF ConfigInv, ConfigType
<1> QED BY <1>1 DEF ConfigInv, ConfigType

(* The first step of Value: from the cache.  The call is marked when what  *)
(* it has read may be old.                                                 *)
LEMMA CachedStep ==
  ASSUME ConfigInv, NEW p \in Procs, NEW k \in Keys, ValueCached(p, k),
         \/ p \in Readers /\ UNCHANGED todo
         \/ /\ p \in Watchers /\ pc[p] = "notify" /\ k \in todo[p]
            /\ todo' = [todo EXCEPT ![p] = @ \ {k}],
         UNCHANGED <<world, data, memo, observed, pc, got, news>>
  PROVE  ConfigInv'
<1>1. PICK at \in {"read", "done"} :
        /\ vpc' = [vpc EXCEPT ![p] = at]
        /\ at = "done" => cached[k] # 0
  BY DEF ValueCached
<1>2. /\ vkey' = [vkey EXCEPT ![p] = k] /\ vval' = [vval EXCEPT ![p] = cached[k]]
      /\ vpc[p] = "idle"
  BY DEF ValueCached
<1>3. vkey' \in [Procs -> Keys \cup {CHOOSE l \in Keys : TRUE}]
  BY <1>2 DEF ConfigInv, ConfigType
<1>4. vkey'[p] = k /\ \A q \in Procs \ {p} : vkey'[q] = vkey[q]
  BY <1>2 DEF ConfigInv, ConfigType
<1>5. todo' \in [Watchers -> SUBSET observed] BY DEF ConfigInv, ConfigType
<1>6. ConfigType'
  <2>1. cached' \in [Keys -> Nat] /\ cached[k] \in Nat BY DEF ConfigInv, ConfigType, memo
  <2> QED BY <1>1, <1>2, <1>3, <1>4, <1>5, <2>1, CallFrame DEF world, news
<1>7. CacheCurrent'
  BY DEF ConfigInv, CacheCurrent, Clearing, memo
<1>8. ReadCurrent'
  <2> SUFFICES ASSUME NEW q \in Procs, q \notin over', vpc'[q] \in {"store", "done"}
               PROVE  vval'[q] \in {0, data[vkey'[q]]}
    BY DEF ReadCurrent
  <2>1. CASE q = p
    <3>1. k \notin taint /\ ~Clearing BY <2>1 DEF ValueCached
    <3>2. cached[k] \in {0, data[k]} BY <3>1 DEF ConfigInv, CacheCurrent
    <3>3. vval'[p] = cached[k] BY <1>2 DEF ConfigInv, ConfigType
    <3> QED BY <2>1, <1>4, <3>2, <3>3
  <2>2. CASE q # p
    <3>1. vpc'[q] = vpc[q] /\ vval'[q] = vval[q] /\ q \notin over
      BY <1>1, <1>2, <2>2 DEF ConfigInv, ConfigType, ValueCached
    <3> QED BY <3>1, <1>4, <2>2 DEF ConfigInv, ReadCurrent
  <2> QED BY <2>1, <2>2
<1>9. ToldCurrent'
  <2>1. \A w \in Watchers : \A l \in Keys : WillTell(w, l) => WillTell(w, l)'
    <3> SUFFICES ASSUME NEW w \in Watchers, NEW l \in Keys, WillTell(w, l)
                 PROVE  WillTell(w, l)'
      OBVIOUS
    <3>1. CASE w # p
      <4>1. todo'[w] = todo[w] BY <3>1 DEF ConfigInv, ConfigType
      <4>2. vpc'[w] = vpc[w] /\ vkey'[w] = vkey[w]
        BY <3>1, <1>1, <1>4 DEF ConfigInv, ConfigType, Procs
      <4> QED BY <4>1, <4>2 DEF WillTell
    <3>2. CASE w = p
      <4>1. p \in Watchers /\ pc[p] = "notify" /\ todo' = [todo EXCEPT ![p] = @ \ {k}]
        BY <3>2, ConfigAssumption
      <4>2. vpc'[p] # "idle" BY <1>1 DEF ConfigInv, ConfigType
      <4>3. l \in todo[p] BY <1>2, <3>2, <4>1 DEF WillTell
      <4>4. l = k \/ l \in todo'[p] BY <4>1, <4>3 DEF ConfigInv, ConfigType
      <4> QED BY <3>2, <4>1, <4>2, <4>4, <1>4 DEF WillTell
    <3> QED BY <3>1, <3>2
  <2> QED BY <2>1 DEF ConfigInv, ToldCurrent, news
<1>10. OnlyObserved'
  <2>1. \A l \in Keys : told'[l] # 0 => l \in observed'
    BY DEF ConfigInv, OnlyObserved, news
  <2>2. ASSUME NEW w \in Watchers, vpc'[w] # "idle"
        PROVE  pc'[w] = "notify" /\ vkey'[w] \in observed'
    <3>1. CASE w # p
      <4>1. vpc'[w] = vpc[w] /\ vkey'[w] = vkey[w]
        BY <3>1, <1>1, <1>4 DEF ConfigInv, ConfigType, Procs
      <4> QED BY <2>2, <4>1 DEF ConfigInv, OnlyObserved
    <3>2. CASE w = p
      <4>1. p \in Watchers /\ pc[p] = "notify" /\ k \in todo[p] BY <3>2, ConfigAssumption
      <4> QED BY <3>2, <4>1, <1>4 DEF ConfigInv, ConfigType
    <3> QED BY <3>1, <3>2
  <2> QED BY <2>1, <2>2 DEF OnlyObserved
<1> QED BY <1>6, <1>7, <1>8, <1>9, <1>10 DEF ConfigInv

(* The two middle steps of Value, of a reader or of watchSource: from the  *)
(* data under the lock, and into the cache after it.                       *)
LEMMA MiddleStep ==
  ASSUME ConfigInv, NEW p \in Procs, getValue(p) \/ StoreValue(p)
  PROVE  ConfigInv'
<1>1. /\ UNCHANGED <<world, data, observed, loops, vkey, news>>
      /\ vpc[p] \in {"read", "store"} /\ vkey[p] \in Keys
  BY DEF getValue, StoreValue, ConfigInv, ConfigType
<1>2. PICK at \in {"store", "done"} : vpc' = [vpc EXCEPT ![p] = at]
  BY DEF getValue, StoreValue
<1>3. PICK v \in Nat : vval' = [vval EXCEPT ![p] = v]
  <2>1. data[vkey[p]] \in Nat /\ vval[p] \in Nat BY <1>1 DEF ConfigInv, ConfigType
  <2>2. vval = [vval EXCEPT ![p] = vval[p]] BY DEF ConfigInv, ConfigType
  <2> QED BY <2>1, <2>2 DEF getValue, StoreValue
<1>4. ConfigType'
  <2>1. cached' \in [Keys -> Nat]
    BY DEF getValue, StoreValue, ConfigInv, ConfigType, memo
  <2>2. vkey' \in [Procs -> Keys \cup {CHOOSE k \in Keys : TRUE}] /\ vkey'[p] \in Keys
    BY <1>1 DEF ConfigInv, ConfigType
  <2>3. todo' \in [Watchers -> SUBSET observed] BY <1>1 DEF ConfigInv, ConfigType, loops
  <2> QED BY <1>1, <1>2, <1>3, <2>1, <2>2, <2>3, CallFrame DEF world, loops, news
<1>5. vval'[p] \in {0, data[vkey[p]]} \/ p \in over'
  <2>1. CASE getValue(p) BY <2>1 DEF getValue, ConfigInv, ConfigType
  <2>2. CASE StoreValue(p) BY <2>2 DEF StoreValue, ConfigInv, ReadCurrent
  <2> QED BY <2>1, <2>2
<1>6. CacheCurrent'
  <2>1. CASE getValue(p)
    BY <2>1 DEF getValue, ConfigInv, CacheCurrent, Clearing, memo, loops
  <2>2. CASE StoreValue(p)
    <3>1. \A k \in Keys : k # vkey[p] => cached'[k] = cached[k] /\ (k \in taint => k \in taint')
      BY <2>2 DEF StoreValue, ConfigInv, ConfigType
    <3>2. vkey[p] \in taint' \/ cached'[vkey[p]] \in {0, data[vkey[p]]}
      BY <1>1, <1>5, <2>2 DEF StoreValue, ConfigInv, ConfigType
    <3> QED BY <1>1, <3>1, <3>2 DEF ConfigInv, CacheCurrent, Clearing, loops
  <2> QED BY <2>1, <2>2
<1>7. ReadCurrent'
  <2> SUFFICES ASSUME NEW q \in Procs, q \notin over', vpc'[q] \in {"store", "done"}
               PROVE  vval'[q] \in {0, data[vkey[q]]}
    BY <1>1 DEF ReadCurrent
  <2>1. CASE q = p BY <2>1, <1>5
  <2>2. CASE q # p
    <3>1. vpc'[q] = vpc[q] /\ vval'[q] = vval[q] /\ q \notin over
      BY <1>2, <1>3, <2>2 DEF ConfigInv, ConfigType, getValue, StoreValue
    <3> QED BY <3>1 DEF ConfigInv, ReadCurrent
  <2> QED BY <2>1, <2>2
<1>8. ToldCurrent'
  <2>1. \A w \in Watchers : \A k \in Keys : WillTell(w, k) => WillTell(w, k)'
    BY <1>1, <1>2 DEF WillTell, ConfigInv, ConfigType, loops, Procs
  <2> QED BY <1>1, <2>1 DEF ConfigInv, ToldCurrent, news
<1>9. OnlyObserved'
  <2>1. \A w \in Watchers : vpc'[w] # "idle" => vpc[w] # "idle"
    BY <1>1, <1>2 DEF ConfigInv, ConfigType, Procs
  <2> QED BY <1>1, <2>1 DEF ConfigInv, OnlyObserved, loops, news
<1> QED BY <1>4, <1>6, <1>7, <1>8, <1>9 DEF ConfigInv

(* The last step of Value: its answer goes to the application, or to the   *)
(* observers of the key.                                                   *)
LEMMA ReturnStep ==
  ASSUME ConfigInv, NEW p \in Procs,
         \/ p \in Readers /\ ValueReturn(p)
         \/ p \in Watchers /\ NotifyObserver(p)
  PROVE  ConfigInv'
<1>1. /\ UNCHANGED <<world, data, memo, observed, loops, vkey>>
      /\ vpc[p] = "done" /\ vkey[p] \in Keys /\ over' = over \ {p}
      /\ vpc' = [vpc EXCEPT ![p] = "idle"] /\ vval' = [vval EXCEPT ![p] = 0]
  BY DEF ValueReturn, NotifyObserver, ConfigInv, ConfigType
<1>2. told' \in [Keys -> Nat]
  BY DEF ValueReturn, NotifyObserver, ConfigInv, ConfigType, news
<1>3. ConfigType'
  <2>1. vpc' \in [Procs -> {"idle", "read", "store", "done"}] /\ vval' \in [Procs -> Nat]
    BY <1>1 DEF ConfigInv, ConfigType
  <2>2. \A q \in Procs : vpc'[q] # "idle" => vkey[q] \in Keys
    BY <1>1 DEF ConfigInv, ConfigType
  <2> QED BY <1>1, <1>2, <2>1, <2>2 DEF ConfigInv, ConfigType, world, memo, loops
<1>4. CacheCurrent' BY <1>1 DEF ConfigInv, CacheCurrent, Clearing, memo, loops
<1>5. ReadCurrent'
  BY <1>1 DEF ConfigInv, ConfigType, ReadCurrent
<1>6. ASSUME NEW w \in Watchers, NEW k \in Keys, WillTell(w, k), ~WillTell(w, k)'
      PROVE  w = p /\ k = vkey[p]
  BY <1>1, <1>6 DEF WillTell, ConfigInv, ConfigType, loops, Procs
<1>7. ToldCurrent'
  <2>1. CASE p \in Readers /\ ValueReturn(p)
    <3>1. p \notin Watchers BY <2>1, ConfigAssumption
    <3>2. UNCHANGED news BY <2>1 DEF ValueReturn
    <3> QED BY <1>1, <1>6, <3>1, <3>2 DEF ConfigInv, ToldCurrent, news
  <2>2. CASE p \in Watchers /\ NotifyObserver(p)
    <3> SUFFICES ASSUME NEW k \in Keys, k \notin toldTaint',
                        ~(told'[k] \in {0, data[k]})
                 PROVE  \E w \in Watchers : WillTell(w, k)'
      BY <1>1 DEF ToldCurrent
    <3>1. k # vkey[p]
      <4>1. CASE p \in over BY <2>2, <4>1 DEF NotifyObserver
      <4>2. CASE p \notin over
        <5>1. vval[p] \in {0, data[vkey[p]]} BY <1>1, <4>2 DEF ConfigInv, ReadCurrent
        <5>2. told'[vkey[p]] = vval[p] BY <1>1, <2>2 DEF NotifyObserver, ConfigInv, ConfigType
        <5> QED BY <5>1, <5>2
      <4> QED BY <4>1, <4>2
    <3>2. told'[k] = told[k] /\ k \notin toldTaint
      BY <2>2, <3>1 DEF NotifyObserver, ConfigInv, ConfigType
    <3>3. PICK w \in Watchers : WillTell(w, k) BY <3>2 DEF ConfigInv, ToldCurrent
    <3> QED BY <3>1, <3>3, <1>6
  <2> QED BY <2>1, <2>2
<1>8. OnlyObserved'
  <2>1. ASSUME NEW k \in Keys, told'[k] # 0 PROVE k \in observed
    <3>1. CASE told'[k] = told[k] BY <2>1, <3>1 DEF ConfigInv, OnlyObserved
    <3>2. CASE told'[k] # told[k]
      <4>1. p \in Watchers /\ k = vkey[p]
        BY <3>2 DEF ValueReturn, NotifyObserver, ConfigInv, ConfigType, news
      <4> QED BY <1>1, <4>1 DEF ConfigInv, OnlyObserved
    <3> QED BY <3>1, <3>2
  <2>2. \A w \in Watchers : vpc'[w] # "idle" => vpc[w] # "idle"
    BY <1>1 DEF ConfigInv, ConfigType, Procs
  <2> QED BY <1>1, <2>1, <2>2 DEF ConfigInv, OnlyObserved, loops
<1> QED BY <1>3, <1>4, <1>5, <1>7, <1>8 DEF ConfigInv

-----------------------------------------------------------------------------
(* A step of the configuration preserves the invariant.                    *)
LEMMA ConfigStep == ASSUME ConfigInv, [Next]_vars PROVE ConfigInv'
<1>1. CASE UNCHANGED vars
  <2>1. UNCHANGED <<data, memo, observed, loops, calls, news, world>> BY <1>1 DEF vars
  <2>2. CacheCurrent' /\ ReadCurrent' /\ ToldCurrent'
    BY <2>1, CurrentKept DEF Clearing, WillTell, loops, calls
  <2>3. ConfigType' BY <2>1 DEF ConfigInv, ConfigType, memo, loops, calls, news, world
  <2>4. OnlyObserved' BY <2>1 DEF ConfigInv, OnlyObserved, loops, calls, news
  <2> QED BY <2>2, <2>3, <2>4 DEF ConfigInv
<1>2. CASE Close \/ \E c \in Contents(writes + 1) : Write(c) BY <1>2, OutsideStep
<1>3. ASSUME NEW r \in Readers,
             \/ getValue(r) \/ StoreValue(r) \/ ValueReturn(r)
             \/ \E k \in Keys : Value(r, k)
      PROVE  ConfigInv'
  <2>1. r \in Procs BY DEF Procs
  <2>2. CASE getValue(r) \/ StoreValue(r) BY <2>1, <2>2, MiddleStep
  <2>3. CASE ValueReturn(r) BY <2>1, <2>3, ReturnStep
  <2>4. ASSUME NEW k \in Keys, Value(r, k) PROVE ConfigInv'
    <3>1. /\ ValueCached(r, k) /\ UNCHANGED todo
          /\ UNCHANGED <<world, data, memo, observed, pc, got, news>>
      BY <2>4 DEF Value, loops
    <3> QED BY <2>1, <3>1, CachedStep
  <2> QED BY <1>3, <2>2, <2>3, <2>4
<1>4. ASSUME NEW w \in Watchers,
             \/ watchSource(w) \/ Next_Error(w)
             \/ \E k \in Keys : Watch(w, k)
      PROVE  ConfigInv'
  <2>1. w \in Procs BY DEF Procs
  <2>2. CASE getValue(w) \/ StoreValue(w) BY <2>1, <2>2, MiddleStep
  <2>3. CASE NotifyObserver(w) BY <2>1, <2>3, ReturnStep
  <2>4. ASSUME NEW k \in Keys, NotifyValue(w, k) PROVE ConfigInv'
    BY <2>1, <2>4, CachedStep DEF NotifyValue
  <2>5. CASE Merge(w) BY <2>5, MergeStep
  <2>6. CASE ClearCache(w) BY <2>6, ClearStep
  <2>7. CASE Next_Load(w) \/ Next_Error(w) \/ Notified(w) \/ \E k \in Keys : Watch(w, k)
    BY <2>7, BetweenStep
  <2> QED BY <1>4, <2>2, <2>3, <2>4, <2>5, <2>6, <2>7 DEF watchSource
<1> QED BY <1>1, <1>2, <1>3, <1>4 DEF Next

(* When no goroutine is at a reload, none has merged without clearing and  *)
(* none has an observer left to tell.                                      *)
LEMMA ConfigEnough == ConfigInv => StaleOnlyIfOvertaken
<1> SUFFICES ASSUME ConfigInv,
                    \A w \in Watchers : pc[w] \in {"none", "failed", "next", "end"}
             PROVE  /\ \A k \in Keys \ taint : cached[k] \in {0, data[k]}
                    /\ \A k \in Keys \ toldTaint : told[k] \in {0, data[k]}
  BY DEF StaleOnlyIfOvertaken
<1>1. ~Clearing BY DEF Clearing
<1>2. \A w \in Watchers : \A k \in Keys : ~WillTell(w, k) BY DEF WillTell
<1> QED BY <1>1, <1>2 DEF ConfigInv, CacheCurrent, ToldCurrent

(* config.go:126-145, 211-222: whatever the number of keys, readers and    *)
(* reloading goroutines, and however often the file is written, a value    *)
(* that is stale between reloads was read by a call of Value that a merge  *)
(* overtook; the order merge, clear, notify leaves no other way.           *)
THEOREM ConfigStaleOnlyIfOvertaken == Spec => []StaleOnlyIfOvertaken
BY ConfigStarts, ConfigStep, ConfigEnough, PTL DEF Spec
=============================================================================
