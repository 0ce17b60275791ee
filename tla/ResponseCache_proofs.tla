------------------------ MODULE ResponseCache_proofs ------------------------
(***************************************************************************)
(* What TLAPS proves of ResponseCache, for any number of processes,        *)
(* requests in flight, keys and entries, and any ttl.                      *)
(***************************************************************************)
EXTENDS ResponseCache, FiniteSetTheorems, TLAPS

\* A request that has left the idle state knows where it is going.
Routed ==
    \A s \in Slot :
        /\ req[s].pc # "idle" => req[s].proc \in Process
        /\ req[s].pc \in {"called", "read"} => req[s].key \in Key

\* No stamp is in the future.
Past ==
    /\ \A p \in Process, k \in Key : cache[p][k] # None => cache[p][k].at <= clock
    /\ \A s \in Slot : req[s].start <= clock
    /\ \A c \in Client : answer[c].at <= clock

\* Only what was committed is acknowledged.
Committed ==
    /\ \A v \in Version : acked[v] # None => v <= data
    /\ \A s \in Slot : req[s].pc = "written" => req[s].body <= data

\* A body that lacks an acknowledged write was asked for before the
\* acknowledgement.
AskedBefore(body, at) ==
    \A v \in Version : acked[v] # None /\ body < v => at <= acked[v]

Bodies ==
    /\ \A p \in Process, k \in Key :
         cache[p][k] # None => AskedBefore(cache[p][k].body, cache[p][k].at)
    /\ \A s \in Slot : req[s].pc = "read" => AskedBefore(req[s].body, req[s].start)

Inv == TypeOK /\ Routed /\ Past /\ Committed /\ Bodies /\ StalenessBounded

LEMMA LifetimeType == Lifetime \in Nat /\ Lifetime > 0
<1>1. TtlSeconds + 1 \in Nat \ {0} /\ Second \in Nat \ {0}
  BY CacheBounds
<1>2. \A m, n \in Nat \ {0} : m * n \in Nat /\ m * n > 0
  OBVIOUS
<1> QED BY <1>1, <1>2 DEF Lifetime

LEMMA InitInv == Init => Inv
<1> SUFFICES ASSUME Init PROVE Inv
  OBVIOUS
<1>1. 0 \in Time /\ 0 \in Version
  BY CacheBounds DEF Time, Version
<1>2. TypeOK
  BY <1>1 DEF Init, TypeOK, Request, Idle, Empty
<1>3. Routed
  BY DEF Init, Routed, Idle
<1>4. Past
  BY <1>1 DEF Init, Past, Idle, Empty
<1>5. Committed /\ Bodies /\ StalenessBounded
  BY DEF Init, Committed, Bodies, StalenessBounded, Idle, Empty
<1> QED BY <1>2, <1>3, <1>4, <1>5 DEF Inv

-----------------------------------------------------------------------------
\* Eviction only drops entries.
LEMMA EvictDrops ==
  ASSUME NEW entries \in [Key -> Cached \cup {None}], NEW left \in Evict(entries)
  PROVE  /\ left \in [Key -> Cached \cup {None}]
         /\ \A k \in Key : left[k] # None => left[k] = entries[k]
  BY DEF Evict, Stored

\* What a store does to the caches.
LEMMA PutStores ==
  ASSUME TypeOK, NEW p \in Process, NEW k \in Key, NEW entry \in Cached,
         Put(p, k, entry)
  PROVE  /\ cache' \in [Process -> [Key -> Cached \cup {None}]]
         /\ \A q \in Process, l \in Key : cache'[q][l] # None =>
              \/ q = p /\ l = k /\ cache'[q][l] = entry
              \/ cache[q][l] # None /\ cache'[q][l] = cache[q][l]
<1> DEFINE new == [cache[p] EXCEPT ![k] = entry]
<1>1. new \in [Key -> Cached \cup {None}]
  BY DEF TypeOK
<1>2. PICK left \in Evict(new) : cache' = [cache EXCEPT ![p] = left]
  BY DEF Put
<1>3. /\ left \in [Key -> Cached \cup {None}]
      /\ \A l \in Key : left[l] # None => left[l] = new[l]
  <2> HIDE DEF new
  <2> QED BY <1>1, <1>2, EvictDrops
<1>4. \A l \in Key : l # k => new[l] = cache[p][l]
  BY DEF TypeOK
<1>5. new[k] = entry
  BY DEF TypeOK
<1>6. /\ cache'[p] = left
      /\ \A q \in Process : q # p => cache'[q] = cache[q]
  BY <1>2 DEF TypeOK
<1> HIDE DEF new
<1>7. cache' \in [Process -> [Key -> Cached \cup {None}]]
  BY <1>2, <1>3 DEF TypeOK
<1>8. ASSUME NEW q \in Process, NEW l \in Key, cache'[q][l] # None
      PROVE  \/ q = p /\ l = k /\ cache'[q][l] = entry
             \/ cache[q][l] # None /\ cache'[q][l] = cache[q][l]
  <2>1. CASE q # p
    BY <1>6, <1>8, <2>1
  <2>2. CASE q = p /\ l = k
    BY <1>3, <1>5, <1>6, <1>8, <2>2
  <2>3. CASE q = p /\ l # k
    BY <1>3, <1>4, <1>6, <1>8, <2>3
  <2> QED BY <2>1, <2>2, <2>3
<1> QED BY <1>7, <1>8

-----------------------------------------------------------------------------
(* Every action preserves Inv.                                             *)

LEMMA HitInv ==
  ASSUME Inv, NEW c \in Client, NEW p \in Process, NEW k \in Key, Hit(c, p, k)
  PROVE  Inv'
<1> USE LifetimeType
<1> DEFINE entry == cache[p][k]
<1>1. /\ entry \in Cached /\ entry # None
      /\ clock - entry.at < Lifetime
      /\ entry.at \in Int /\ entry.body \in Version /\ clock \in Int
  BY DEF Hit, Fresh, Inv, TypeOK, Cached, Time
<1>2. answer' = [answer EXCEPT ![c] = [body |-> entry.body, at |-> clock,
                                       need |-> Acknowledged]]
  BY DEF Hit
<1>3. UNCHANGED <<clock, data, acked, cache, req, warm, quiet>>
  BY DEF Hit
<1>4. AskedBefore(entry.body, entry.at)
  BY <1>1 DEF Inv, Bodies
<1> HIDE DEF entry
<1>5. TypeOK'
  BY <1>1, <1>2, <1>3 DEF Inv, TypeOK, Acknowledged
<1>6. Routed' /\ Committed'
  BY <1>3 DEF Inv, Routed, Committed
<1>7. Past'
  BY <1>1, <1>2, <1>3 DEF Inv, Past, TypeOK
<1>8. Bodies'
  BY <1>3 DEF Inv, Bodies, AskedBefore
<1>9. StalenessBounded'
  <2> SUFFICES ASSUME NEW d \in Client, NEW v \in Version,
                      acked[v] # None, answer'[d].body < v
               PROVE  answer'[d].at < acked[v] + Lifetime
    BY <1>3 DEF StalenessBounded
  <2>1. acked[v] \in Int
    BY DEF Inv, TypeOK, Time
  <2>2. CASE d = c
    <3>1. answer'[d].body = entry.body /\ answer'[d].at = clock
      BY <1>2, <2>2 DEF Inv, TypeOK
    <3>2. entry.at <= acked[v]
      BY <1>4, <3>1 DEF AskedBefore
    <3> QED BY <1>1, <2>1, <3>1, <3>2
  <2>3. CASE d # c
    BY <1>2, <2>3 DEF Inv, TypeOK, StalenessBounded
  <2> QED BY <2>2, <2>3
<1> QED BY <1>5, <1>6, <1>7, <1>8, <1>9 DEF Inv

\* A step that only moves a request that has no body yet, or a warmer.
LEMMA RequestInv ==
  ASSUME Inv, NEW s \in Slot, NEW r \in Request,
         req' = [req EXCEPT ![s] = r],
         UNCHANGED <<clock, acked, cache, answer, quiet>>,
         data' \in Version, data <= data',
         warm' \in [Process -> SUBSET Key],
         r.pc # "idle" => r.proc \in Process,
         r.pc \in {"called", "read"} => r.key \in Key,
         r.start <= clock,
         r.pc = "written" => r.body <= data',
         r.pc = "read" => AskedBefore(r.body, r.start)
  PROVE  Inv'
<1>1. /\ req'[s] = r
      /\ \A t \in Slot : t # s => req'[t] = req[t]
      /\ req' \in [Slot -> Request]
  BY DEF Inv, TypeOK
<1>2. TypeOK'
  BY <1>1 DEF Inv, TypeOK
<1>3. Routed'
  BY <1>1 DEF Inv, Routed
<1>4. Past'
  BY <1>1 DEF Inv, Past
<1>5. Committed'
  <2>1. \A t \in Slot : req[t].body \in Int
    BY DEF Inv, TypeOK, Request, Version
  <2>2. data \in Int /\ data' \in Int /\ Version \subseteq Int
    BY DEF Inv, TypeOK, Version
  <2> QED BY <1>1, <2>1, <2>2 DEF Inv, Committed
<1>6. Bodies'
  BY <1>1 DEF Inv, Bodies, AskedBefore
<1>7. StalenessBounded'
  BY DEF Inv, StalenessBounded
<1> QED BY <1>2, <1>3, <1>4, <1>5, <1>6, <1>7 DEF Inv

LEMMA CalledType ==
  ASSUME Inv, NEW p \in Process, NEW k \in Key
  PROVE  /\ Called(p, k) \in Request
         /\ Called(p, k).pc = "called" /\ Called(p, k).proc = p
         /\ Called(p, k).key = k /\ Called(p, k).start = clock
<1>1. 0 \in Version
  BY CacheBounds DEF Version
<1>2. Acknowledged \subseteq Version
  BY DEF Acknowledged
<1> QED BY <1>1, <1>2 DEF Called, Idle, Request, Inv, TypeOK

LEMMA IdleType == /\ Idle \in Request
                  /\ Idle.pc = "idle" /\ Idle.start = 0
  BY CacheBounds DEF Idle, Request, Time, Version

\* A request sets out.
LEMMA CalledInv ==
  ASSUME Inv, NEW s \in Slot, NEW p \in Process, NEW k \in Key,
         req' = [req EXCEPT ![s] = Called(p, k)],
         UNCHANGED <<clock, acked, cache, answer, quiet>>, data' = data,
         warm' \in [Process -> SUBSET Key]
  PROVE  Inv'
<1> DEFINE r == Called(p, k)
<1>1. r \in Request /\ r.pc = "called" /\ r.proc = p /\ r.key = k /\ r.start = clock
  BY CalledType
<1>2. req' = [req EXCEPT ![s] = r]
  OBVIOUS
<1>3. clock <= clock /\ data' \in Version /\ data <= data'
  BY DEF Inv, TypeOK, Time, Version
<1> HIDE DEF r
<1> QED BY <1>1, <1>2, <1>3, RequestInv

\* A request ends without a trace.
LEMMA IdleInv ==
  ASSUME Inv, NEW s \in Slot, req' = [req EXCEPT ![s] = Idle],
         UNCHANGED <<clock, data, acked, cache, answer, warm, quiet>>
  PROVE  Inv'
<1>1. data' \in Version /\ data <= data' /\ warm' \in [Process -> SUBSET Key]
  BY DEF Inv, TypeOK, Version
<1>2. Idle.start <= clock
  BY IdleType DEF Inv, TypeOK, Time
<1>3. Idle.pc # "written" /\ Idle.pc # "read" /\ Idle.pc \notin {"called", "read"}
  BY IdleType
<1> QED BY <1>1, <1>2, <1>3, IdleType, RequestInv

\* A data version changes nothing of what was read or acknowledged.
LEMMA WriteInv ==
  ASSUME Inv, data < MaxWrites, data' = data + 1
  PROVE  data' \in Version /\ data <= data'
  BY CacheBounds DEF Inv, TypeOK, Version

LEMMA StepInv == Inv /\ [Next]_vars => Inv'
<1> SUFFICES ASSUME Inv, [Next]_vars PROVE Inv'
  OBVIOUS
<1> USE LifetimeType
<1>0. /\ clock \in Nat /\ clock \in Time /\ data \in Version /\ data <= data
      /\ warm \in [Process -> SUBSET Key]
      /\ \A t \in Slot : req[t] \in Request /\ req[t].start <= clock
      /\ Client \subseteq Slot /\ Warmed \subseteq Slot /\ Warmed \subseteq Process
  BY CacheNames DEF Inv, TypeOK, Time, Version, Past, Slot
<1>1. ASSUME NEW c \in Client, NEW p \in Process, NEW k \in Key, Hit(c, p, k)
      PROVE  Inv'
  BY <1>1, HitInv
<1>2. ASSUME NEW c \in Client, NEW p \in Process, NEW k \in Key, NEW f \in BOOLEAN,
             Miss(c, p, k, f)
      PROVE  Inv'
  <2>1. /\ req' = [req EXCEPT ![c] = Called(p, k)]
        /\ UNCHANGED <<clock, acked, cache, answer, quiet>> /\ data' = data /\ warm' = warm
    BY <1>2 DEF Miss
  <2> QED BY <1>0, <2>1, CalledInv
<1>3. ASSUME NEW c \in Client, NEW p \in Process, Write(c, p)
      PROVE  Inv'
  <2> DEFINE r == [Idle EXCEPT !.pc = "written", !.proc = p, !.start = clock,
                               !.body = data + 1]
  <2>1. /\ req' = [req EXCEPT ![c] = r]
        /\ UNCHANGED <<clock, acked, cache, answer, quiet>> /\ warm' = warm
        /\ data' = data + 1 /\ data < MaxWrites
    BY <1>3 DEF Write
  <2>2. data' \in Version /\ data <= data'
    BY <2>1, WriteInv
  <2>3. r \in Request
    BY <1>0, <2>1, <2>2 DEF Idle, Request
  <2>4. r.pc = "written" /\ r.proc = p /\ r.start = clock /\ r.body = data'
    BY <2>1 DEF Idle
  <2>5. r.body <= data'
    BY <2>2, <2>4 DEF Version
  <2>6. r.start <= clock
    BY <1>0, <2>4
  <2> HIDE DEF r
  <2> QED BY <1>0, <2>1, <2>2, <2>3, <2>4, <2>5, <2>6, RequestInv
<1>4. ASSUME NEW c \in Client, Invalidate(c)
      PROVE  Inv'
  <2>1. /\ req[c].pc = "written" /\ Clear(req[c].proc)
        /\ acked' = [acked EXCEPT ![req[c].body] = clock]
        /\ req' = [req EXCEPT ![c] = Idle]
        /\ quiet' = (quiet /\ ~Beside(c))
        /\ UNCHANGED <<clock, data, answer, warm>>
    BY <1>4 DEF Invalidate
  <2>2. req[c].proc \in Process /\ req[c].body \in Version /\ req[c].body <= data
    BY <1>0, <2>1 DEF Inv, Routed, Committed, Request
  <2>3. /\ cache' \in [Process -> [Key -> Cached \cup {None}]]
        /\ \A p \in Process, k \in Key :
             cache'[p][k] # None => cache[p][k] # None /\ cache'[p][k] = cache[p][k]
    BY <2>1, <2>2 DEF Clear, Empty, Inv, TypeOK
  <2>4. /\ acked' \in [Version -> Time \cup {None}]
        /\ \A v \in Version : v # req[c].body => acked'[v] = acked[v]
        /\ acked'[req[c].body] = clock
    BY <1>0, <2>1, <2>2 DEF Inv, TypeOK
  <2>5. /\ req'[c] = Idle
        /\ \A t \in Slot : t # c => req'[t] = req[t]
        /\ req' \in [Slot -> Request]
    BY <1>0, <2>1, IdleType DEF Inv, TypeOK
  <2>6. TypeOK'
    BY <2>1, <2>3, <2>4, <2>5 DEF Inv, TypeOK
  <2>7. Routed'
    BY <2>5, IdleType DEF Inv, Routed
  <2>8. Past'
    BY <1>0, <2>1, <2>3, <2>5, IdleType DEF Inv, Past
  <2>9. Committed'
    BY <2>1, <2>2, <2>4, <2>5, IdleType DEF Inv, Committed
  <2>10. ASSUME NEW body \in Version, NEW at \in Time, at <= clock,
                AskedBefore(body, at)
         PROVE  AskedBefore(body, at)'
    BY <2>4, <2>10 DEF AskedBefore
  <2>11. Bodies'
    <3>1. ASSUME NEW p \in Process, NEW k \in Key, cache'[p][k] # None
          PROVE  AskedBefore(cache[p][k].body, cache[p][k].at)'
      <4>1. cache[p][k] # None /\ cache'[p][k] = cache[p][k]
        BY <2>3, <3>1
      <4>2. cache[p][k].body \in Version /\ cache[p][k].at \in Time
              /\ cache[p][k].at <= clock
        BY <4>1 DEF Inv, TypeOK, Cached, Past
      <4>3. AskedBefore(cache[p][k].body, cache[p][k].at)
        BY <4>1 DEF Inv, Bodies
      <4> QED BY <2>4, <4>1, <4>2, <4>3 DEF AskedBefore
    <3>2. ASSUME NEW t \in Slot, req'[t].pc = "read"
          PROVE  AskedBefore(req[t].body, req[t].start)'
      <4>1. req'[t] = req[t] /\ req[t].pc = "read"
        BY <2>5, <3>2, IdleType
      <4>2. req[t].start <= clock
        BY <1>0
      <4>3. AskedBefore(req[t].body, req[t].start)
        BY <4>1 DEF Inv, Bodies
      <4> QED BY <2>4, <4>1, <4>2, <4>3 DEF AskedBefore
    <3> QED BY <3>1, <3>2 DEF Bodies
  <2>12. StalenessBounded'
    <3> SUFFICES ASSUME NEW d \in Client, NEW v \in Version, acked'[v] # None,
                        answer[d].body < v
                 PROVE  answer[d].at < acked'[v] + Lifetime
      BY <2>1 DEF StalenessBounded
    <3>1. answer[d].at \in Nat /\ answer[d].at <= clock
      BY DEF Inv, TypeOK, Past, Time
    <3>2. CASE v = req[c].body
      BY <1>0, <2>4, <3>1, <3>2
    <3>3. CASE v # req[c].body
      BY <2>4, <3>3 DEF Inv, StalenessBounded
    <3> QED BY <3>2, <3>3
  <2> QED BY <2>6, <2>7, <2>8, <2>9, <2>11, <2>12 DEF Inv
<1>5. ASSUME NEW s \in Slot, req' = [req EXCEPT ![s] = Idle],
             UNCHANGED <<clock, data, acked, cache, answer, warm, quiet>>
      PROVE  Inv'
  BY <1>5, IdleInv
<1>6. ASSUME NEW s \in Slot, Read(s)
      PROVE  Inv'
  <2> DEFINE r == [req[s] EXCEPT !.pc = "read", !.body = data]
  <2>1. /\ req' = [req EXCEPT ![s] = r] /\ req[s].pc = "called"
        /\ UNCHANGED <<clock, acked, cache, answer, quiet>> /\ data' = data /\ warm' = warm
    BY <1>6 DEF Read, Inv, TypeOK
  <2>2. /\ r \in Request /\ r.pc = "read" /\ r.body = data
        /\ r.start = req[s].start /\ r.proc = req[s].proc /\ r.key = req[s].key
    BY <1>0 DEF Request
  <2>3. r.proc \in Process /\ r.key \in Key
    BY <2>1, <2>2 DEF Inv, Routed
  <2>4. AskedBefore(r.body, r.start)
    BY <1>0, <2>2 DEF AskedBefore, Inv, Committed, Version
  <2> HIDE DEF r
  <2> QED BY <1>0, <2>1, <2>2, <2>3, <2>4, RequestInv
<1>7. ASSUME NEW s \in Slot, Finish(s)
      PROVE  Inv'
  <2> DEFINE entry == [body |-> req[s].body, at |-> req[s].start]
  <2>1. /\ req[s].pc = "read"
        /\ Put(req[s].proc, req[s].key, entry)
        /\ req' = [req EXCEPT ![s] = Idle]
        /\ UNCHANGED <<clock, data, acked, warm, quiet>>
    BY <1>7 DEF Finish, Stamp
  <2>2. /\ req[s].proc \in Process /\ req[s].key \in Key
        /\ entry \in Cached /\ entry.at <= clock /\ AskedBefore(entry.body, entry.at)
        /\ req[s].body \in Version /\ req[s].start \in Time
        /\ req[s].need \in SUBSET Version
    BY <1>0, <2>1 DEF Inv, Routed, Bodies, Cached, Request
  <2>3. /\ cache' \in [Process -> [Key -> Cached \cup {None}]]
        /\ \A q \in Process, l \in Key : cache'[q][l] # None =>
             \/ cache'[q][l] = entry
             \/ cache[q][l] # None /\ cache'[q][l] = cache[q][l]
    <3> HIDE DEF entry
    <3> QED BY <2>1, <2>2, PutStores DEF Inv
  <2>4. /\ req'[s] = Idle
        /\ \A t \in Slot : t # s => req'[t] = req[t]
        /\ req' \in [Slot -> Request]
    BY <1>0, <2>1, IdleType DEF Inv, TypeOK
  <2>5. /\ answer' \in [Client -> [body : Version, at : Time, need : SUBSET Version]]
        /\ \A d \in Client :
             \/ answer'[d] = answer[d]
             \/ answer'[d].body = entry.body /\ answer'[d].at = entry.at
    BY <1>7, <2>2 DEF Finish, Inv, TypeOK
  <2> HIDE DEF entry
  <2>6. TypeOK'
    BY <2>1, <2>3, <2>4, <2>5 DEF Inv, TypeOK
  <2>7. Routed' /\ Committed'
    BY <2>1, <2>4, IdleType DEF Inv, Routed, Committed
  <2>8. Past'
    <3>1. \A d \in Client : answer'[d].at <= clock
      BY <2>2, <2>5 DEF Inv, Past
    <3>2. \A t \in Slot : req'[t].start <= clock
      BY <1>0, <2>4, IdleType
    <3>3. \A p \in Process, k \in Key : cache'[p][k] # None => cache'[p][k].at <= clock
      BY <2>2, <2>3 DEF Inv, Past
    <3> QED BY <2>1, <3>1, <3>2, <3>3 DEF Past
  <2>9. Bodies'
    <3>1. \A p \in Process, k \in Key : cache'[p][k] # None =>
            AskedBefore(cache'[p][k].body, cache'[p][k].at)
      BY <2>2, <2>3 DEF Inv, Bodies
    <3>2. \A t \in Slot : req'[t].pc = "read" => AskedBefore(req'[t].body, req'[t].start)
      BY <2>4, IdleType DEF Inv, Bodies
    <3> QED BY <2>1, <3>1, <3>2 DEF Bodies, AskedBefore
  <2>10. StalenessBounded'
    <3> SUFFICES ASSUME NEW d \in Client, NEW v \in Version, acked[v] # None,
                        answer'[d].body < v
                 PROVE  answer'[d].at < acked[v] + Lifetime
      BY <2>1 DEF StalenessBounded
    <3>1. CASE answer'[d] = answer[d]
      BY <3>1 DEF Inv, StalenessBounded
    <3>2. CASE answer'[d].body = entry.body /\ answer'[d].at = entry.at
      <4>1. entry.at <= acked[v]
        BY <2>2, <3>2 DEF AskedBefore
      <4>2. acked[v] \in Nat /\ entry.at \in Nat
        BY <2>2 DEF Inv, TypeOK, Time, Cached
      <4> QED BY <3>2, <4>1, <4>2
    <3> QED BY <2>5, <3>1, <3>2
  <2> QED BY <2>6, <2>7, <2>8, <2>9, <2>10 DEF Inv
<1>8. ASSUME NEW p \in Warmed, NEW k \in Key, WarmNext(p, k)
      PROVE  Inv'
  <2>1. /\ req' = [req EXCEPT ![p] = Called(p, k)]
        /\ UNCHANGED <<clock, acked, cache, answer, quiet>> /\ data' = data
        /\ warm' = [warm EXCEPT ![p] = @ \ {k}]
    BY <1>8 DEF WarmNext
  <2>2. warm' \in [Process -> SUBSET Key]
    BY <1>0, <2>1
  <2> QED BY <1>0, <2>1, <2>2, CalledInv
<1>9. ASSUME UNCHANGED <<clock, acked, cache, req, answer, quiet>>,
             data' \in Version, data <= data', warm' \in [Process -> SUBSET Key]
      PROVE  Inv'
  <2>1. TypeOK' /\ Routed' /\ Past'
    BY <1>9 DEF Inv, TypeOK, Routed, Past
  <2>2. Committed'
    <3>1. \A t \in Slot : req[t].body \in Int
      BY DEF Inv, TypeOK, Request, Version
    <3>2. data \in Int /\ data' \in Int /\ Version \subseteq Int
      BY <1>0, <1>9 DEF Version
    <3>3. \A v \in Version : acked[v] # None => v <= data'
      BY <1>9, <3>2 DEF Inv, Committed
    <3>4. \A t \in Slot : req[t].pc = "written" => req[t].body <= data'
      BY <1>9, <3>1, <3>2 DEF Inv, Committed
    <3> QED BY <1>9, <3>3, <3>4 DEF Committed
  <2>3. Bodies' /\ StalenessBounded'
    BY <1>9 DEF Inv, Bodies, AskedBefore, StalenessBounded
  <2> QED BY <2>1, <2>2, <2>3 DEF Inv
<1>10. CASE Tick
  <2>1. /\ clock' \in Time /\ clock' \in Nat /\ clock <= clock'
        /\ UNCHANGED <<data, acked, cache, req, answer, warm, quiet>>
    BY <1>0, <1>10, CacheBounds DEF Tick, Time
  <2>2. TypeOK' /\ Routed' /\ Committed' /\ Bodies' /\ StalenessBounded'
    BY <2>1 DEF Inv, TypeOK, Routed, Committed, Bodies, AskedBefore, StalenessBounded
  <2>3. Past'
    <3>1. /\ \A p \in Process, k \in Key : cache[p][k] # None => cache[p][k].at \in Nat
          /\ \A t \in Slot : req[t].start \in Nat
          /\ \A d \in Client : answer[d].at \in Nat
      BY DEF Inv, TypeOK, Cached, Request, Time
    <3> QED BY <1>0, <2>1, <3>1 DEF Inv, Past
  <2> QED BY <2>2, <2>3 DEF Inv
<1>11. ASSUME NEW p \in Warmed, WarmBegin(p)
       PROVE  Inv'
  <2>1. /\ UNCHANGED <<clock, acked, cache, req, answer, quiet>> /\ data' = data
        /\ warm' = [warm EXCEPT ![p] = Stored(cache[p])]
    BY <1>11 DEF WarmBegin
  <2>2. warm' \in [Process -> SUBSET Key]
    BY <1>0, <2>1 DEF Stored
  <2> QED BY <1>0, <1>9, <2>1, <2>2
<1>12. CASE BackgroundWrite
  <2>1. /\ UNCHANGED <<clock, acked, cache, req, answer, quiet>> /\ warm' = warm
        /\ data < MaxWrites /\ data' = data + 1
    BY <1>12 DEF BackgroundWrite
  <2> QED BY <1>0, <1>9, <2>1, WriteInv
<1>13. CASE UNCHANGED vars
  BY <1>0, <1>9, <1>13 DEF vars
<1>14. ASSUME NEW c \in Client, FailWrite(c)
       PROVE  Inv'
  BY <1>0, <1>5, <1>14 DEF FailWrite
<1>15. ASSUME NEW s \in Slot, Pass(s)
       PROVE  Inv'
  BY <1>5, <1>15 DEF Pass
<1> QED
  BY <1>1, <1>2, <1>3, <1>4, <1>6, <1>7, <1>8, <1>10, <1>11, <1>12, <1>13, <1>14, <1>15
  DEF Next

-----------------------------------------------------------------------------
\* Entries, requests, answers and snapshots keep their ranges.
THEOREM CacheTypeCorrect == Spec => []TypeOK
<1>1. Spec => []Inv
  BY InitInv, StepInv, PTL DEF Spec
<1>2. Inv => TypeOK
  BY DEF Inv
<1> QED BY <1>1, <1>2, PTL

\* For any ttl, any number of processes, warmers and requests in flight, the
\* cache hides an acknowledged write for no longer than ttl_seconds and the
\* second that truncation adds, because cached_at is taken before the endpoint
\* runs.
THEOREM StalenessHolds == Spec => []StalenessBounded
<1>1. Spec => []Inv
  BY InitInv, StepInv, PTL DEF Spec
<1>2. Inv => StalenessBounded
  BY DEF Inv
<1> QED BY <1>1, <1>2, PTL

-----------------------------------------------------------------------------
(* Visibility of writes.                                                   *)

\* A body has every write that is acknowledged.
Current(body) == \A v \in Version : acked[v] # None => v <= body

Settled ==
    /\ \A s \in Slot, v \in Version : v \in req[s].need => acked[v] # None
    /\ quiet =>
         /\ \A p \in Process, k \in Key : cache[p][k] # None => Current(cache[p][k].body)
         /\ \A s \in Slot : req[s].pc = "read" => Current(req[s].body)
         /\ \A c \in Client : \A v \in answer[c].need : answer[c].body >= v

LEMMA SettledStep == Inv /\ Settled /\ [Next]_vars => Settled'
<1> SUFFICES ASSUME Inv, Settled, [Next]_vars PROVE Settled'
  OBVIOUS
<1>0. /\ clock \in Time /\ data \in Version /\ Version \subseteq Nat /\ None \notin Time
      /\ \A t \in Slot : req[t] \in Request
      /\ Client \subseteq Slot /\ Warmed \subseteq Slot /\ Warmed \subseteq Process
      /\ Idle.need = {} /\ Idle.pc = "idle"
  BY CacheNames DEF Inv, TypeOK, Time, Version, Slot, Idle
<1>1. ASSUME NEW c \in Client, NEW p \in Process, NEW k \in Key, Hit(c, p, k)
      PROVE  Settled'
  <2>1. /\ UNCHANGED <<acked, cache, req, quiet>> /\ cache[p][k] # None
        /\ answer' = [answer EXCEPT ![c] = [body |-> cache[p][k].body, at |-> clock,
                                            need |-> Acknowledged]]
    BY <1>1 DEF Hit, Fresh
  <2>2. ASSUME quiet, NEW d \in Client, NEW v \in answer'[d].need
        PROVE  answer'[d].body >= v
    <3>1. CASE d = c
      <4>1. answer'[d].need = Acknowledged /\ answer'[d].body = cache[p][k].body
        BY <2>1, <3>1 DEF Inv, TypeOK
      <4>2. v \in Version /\ acked[v] # None
        BY <2>2, <4>1 DEF Acknowledged
      <4>3. v <= cache[p][k].body
        BY <2>1, <2>2, <4>2 DEF Settled, Current
      <4>4. cache[p][k].body \in Nat
        <5>1. cache[p][k] \in Cached
          BY <2>1 DEF Inv, TypeOK
        <5> QED BY <1>0, <5>1 DEF Cached
      <4> QED BY <1>0, <4>1, <4>2, <4>3, <4>4
    <3>2. CASE d # c
      BY <2>1, <2>2, <3>2 DEF Inv, TypeOK, Settled
    <3> QED BY <3>1, <3>2
  <2> QED BY <2>1, <2>2 DEF Settled, Current
\* A step that moves one request and stores, answers and acknowledges nothing.
<1>2. ASSUME NEW s \in Slot, NEW r \in Request, req' = [req EXCEPT ![s] = r],
             UNCHANGED <<acked, cache, answer, quiet>>,
             \A v \in Version : v \in r.need => acked[v] # None,
             r.pc = "read" => Current(r.body)
      PROVE  Settled'
  <2>1. /\ req'[s] = r
        /\ \A t \in Slot : t # s => req'[t] = req[t]
    BY <1>2 DEF Inv, TypeOK
  <2> QED BY <1>2, <2>1 DEF Settled, Current
<1>3. ASSUME NEW s \in Slot, NEW p \in Process, NEW k \in Key,
             req' = [req EXCEPT ![s] = Called(p, k)],
             UNCHANGED <<acked, cache, answer, quiet>>
      PROVE  Settled'
  <2> DEFINE r == Called(p, k)
  <2>1. r \in Request /\ r.pc = "called" /\ req' = [req EXCEPT ![s] = r]
    BY <1>3, CalledType
  <2>2. \A v \in Version : v \in r.need => acked[v] # None
    BY DEF Called, Idle, Acknowledged
  <2> HIDE DEF r
  <2> QED BY <1>2, <1>3, <2>1, <2>2
<1>4. ASSUME NEW s \in Slot, req' = [req EXCEPT ![s] = Idle],
             UNCHANGED <<acked, cache, answer, quiet>>
      PROVE  Settled'
  BY <1>0, <1>2, <1>4, IdleType
<1>5. ASSUME NEW s \in Slot, Read(s)
      PROVE  Settled'
  <2> DEFINE r == [req[s] EXCEPT !.pc = "read", !.body = data]
  <2>1. req' = [req EXCEPT ![s] = r] /\ UNCHANGED <<acked, cache, answer, quiet>>
    BY <1>5 DEF Read, Inv, TypeOK
  <2>2. r \in Request /\ r.body = data /\ r.need = req[s].need
    BY <1>0 DEF Request
  <2>3. Current(r.body)
    BY <2>2 DEF Current, Inv, Committed
  <2>4. \A v \in Version : v \in r.need => acked[v] # None
    BY <2>2 DEF Settled
  <2> HIDE DEF r
  <2> QED BY <1>2, <2>1, <2>2, <2>3, <2>4
<1>6. ASSUME NEW c \in Client, NEW p \in Process, Write(c, p)
      PROVE  Settled'
  <2> DEFINE r == [Idle EXCEPT !.pc = "written", !.proc = p, !.start = clock,
                               !.body = data + 1]
  <2>1. /\ req' = [req EXCEPT ![c] = r] /\ UNCHANGED <<acked, cache, answer, quiet>>
        /\ data < MaxWrites
    BY <1>6 DEF Write
  <2>2. data + 1 \in Version
    BY <1>0, <2>1, CacheBounds DEF Version
  <2>3. r \in Request /\ r.pc = "written" /\ r.need = {}
    BY <1>0, <2>2 DEF Idle, Request
  <2> HIDE DEF r
  <2> QED BY <1>0, <1>2, <2>1, <2>3
<1>7. ASSUME NEW c \in Client, Invalidate(c)
      PROVE  Settled'
  <2>1. /\ req[c].pc = "written" /\ cache' = [cache EXCEPT ![req[c].proc] = Empty]
        /\ acked' = [acked EXCEPT ![req[c].body] = clock]
        /\ req' = [req EXCEPT ![c] = Idle] /\ answer' = answer
        /\ quiet' = (quiet /\ ~Beside(c))
    BY <1>7 DEF Invalidate, Clear
  <2>2. req[c].proc \in Process
    BY <1>0, <2>1 DEF Inv, Routed
  <2>3. /\ req'[c] = Idle
        /\ \A t \in Slot : t # c => req'[t] = req[t]
    BY <1>0, <2>1 DEF Inv, TypeOK
  <2>4. \A v \in Version : acked[v] # None => acked'[v] # None
    BY <1>0, <2>1 DEF Inv, TypeOK
  <2>5. \A t \in Slot, v \in Version : v \in req'[t].need => acked'[v] # None
    BY <1>0, <2>3, <2>4 DEF Settled
  <2>6. ASSUME quiet'
        PROVE  /\ \A p \in Process, k \in Key : cache'[p][k] = None
               /\ \A t \in Slot : req'[t].pc # "read"
    <3>1. /\ \A t \in Slot : req[t].pc # "read"
          /\ \A p \in Process \ {req[c].proc} : Stored(cache[p]) = {}
      BY <2>1, <2>6 DEF Beside
    <3>2. \A p \in Process, k \in Key : cache'[p][k] = None
      BY <2>1, <2>2, <3>1 DEF Stored, Empty, Inv, TypeOK
    <3> QED BY <1>0, <2>3, <3>1, <3>2
  <2>7. quiet' => \A d \in Client : \A v \in answer'[d].need : answer'[d].body >= v
    BY <2>1 DEF Settled
  <2> QED BY <2>5, <2>6, <2>7 DEF Settled
<1>8. ASSUME NEW s \in Slot, Finish(s)
      PROVE  Settled'
  <2> DEFINE entry == [body |-> req[s].body, at |-> req[s].start]
  <2>1. /\ req[s].pc = "read"
        /\ Put(req[s].proc, req[s].key, entry)
        /\ req' = [req EXCEPT ![s] = Idle]
        /\ UNCHANGED <<acked, quiet>>
    BY <1>8 DEF Finish, Stamp
  <2>2. /\ req[s].proc \in Process /\ req[s].key \in Key /\ entry \in Cached
        /\ entry.body = req[s].body /\ req[s].need \subseteq Version
        /\ entry.body \in Version
    BY <1>0, <2>1 DEF Inv, Routed, Cached, Request
  <2>3. /\ \A q \in Process, l \in Key : cache'[q][l] # None =>
             \/ cache'[q][l] = entry
             \/ cache[q][l] # None /\ cache'[q][l] = cache[q][l]
    <3> HIDE DEF entry
    <3> QED BY <2>1, <2>2, PutStores DEF Inv
  <2>4. /\ req'[s] = Idle
        /\ \A t \in Slot : t # s => req'[t] = req[t]
    BY <1>0, <2>1 DEF Inv, TypeOK
  <2>5. \A d \in Client :
             \/ answer'[d] = answer[d]
             \/ answer'[d].body = entry.body /\ answer'[d].need = req[s].need
    BY <1>8, <2>2 DEF Finish, Inv, TypeOK
  <2> HIDE DEF entry
  <2>6. quiet => Current(entry.body)
    BY <2>1, <2>2 DEF Settled
  <2>7. ASSUME quiet, NEW d \in Client, NEW v \in answer'[d].need
        PROVE  answer'[d].body >= v
    <3>1. CASE answer'[d] = answer[d]
      BY <2>7, <3>1 DEF Settled
    <3>2. CASE answer'[d].body = entry.body /\ answer'[d].need = req[s].need
      <4>1. v \in Version /\ acked[v] # None
        BY <2>2, <2>7, <3>2 DEF Settled
      <4>2. v <= entry.body
        BY <2>6, <2>7, <4>1 DEF Current
      <4> QED BY <1>0, <2>2, <3>2, <4>1, <4>2
    <3> QED BY <2>5, <3>1, <3>2
  <2>8. ASSUME quiet, NEW p \in Process, NEW k \in Key, cache'[p][k] # None
        PROVE  Current(cache'[p][k].body)
    BY <2>3, <2>6, <2>8 DEF Settled
  <2>9. \A t \in Slot : req'[t] = req[t] \/ req'[t] = Idle
    BY <2>4
  <2> QED BY <1>0, <2>1, <2>7, <2>8, <2>9 DEF Settled, Current
<1>9. ASSUME UNCHANGED <<acked, cache, req, answer, quiet>>
      PROVE  Settled'
  BY <1>9 DEF Settled, Current
<1>10. ASSUME NEW p \in Warmed, NEW k \in Key, WarmNext(p, k)
       PROVE  Settled'
  BY <1>0, <1>3, <1>10 DEF WarmNext
<1>11. ASSUME NEW c \in Client, NEW p \in Process, NEW k \in Key, NEW f \in BOOLEAN,
              Miss(c, p, k, f)
       PROVE  Settled'
  BY <1>0, <1>3, <1>11 DEF Miss
<1>12. ASSUME NEW s \in Slot, Pass(s)
       PROVE  Settled'
  BY <1>4, <1>12 DEF Pass
<1>13. ASSUME NEW c \in Client, FailWrite(c)
       PROVE  Settled'
  BY <1>0, <1>4, <1>13 DEF FailWrite
<1>14. CASE Tick \/ BackgroundWrite \/ UNCHANGED vars \/ \E p \in Warmed : WarmBegin(p)
  BY <1>9, <1>14 DEF Tick, BackgroundWrite, WarmBegin, vars
<1> QED
  BY <1>1, <1>5, <1>6, <1>7, <1>8, <1>10, <1>11, <1>12, <1>13, <1>14 DEF Next

\* Unless an acknowledgement met a read in flight or another process's entries,
\* whoever asks after it is answered with the write, for any number of keys,
\* requests and processes.
THEOREM SettledHolds == Spec => []SettledWritesVisible
<1>1. Spec => []Inv
  BY InitInv, StepInv, PTL DEF Spec
<1>2. Init => Settled
  BY DEF Init, Settled, Current, Idle, Empty
<1>3. Settled => SettledWritesVisible
  BY DEF Settled, SettledWritesVisible, WritesVisible
<1> QED BY <1>1, <1>2, <1>3, SettledStep, PTL DEF Spec

-----------------------------------------------------------------------------
(* The bound on the number of entries.                                     *)

LEMMA StoredFinite ==
  ASSUME NEW entries
  PROVE  /\ IsFiniteSet(Stored(entries))
         /\ Cardinality(Stored(entries)) \in Nat
<1>1. Stored(entries) \in SUBSET Key
  BY DEF Stored
<1> QED BY <1>1, CacheNames, FS_Subset, FS_CardinalityType

\* Eviction after a store brings a bounded cache back to its bound.
LEMMA EvictBounds ==
  ASSUME NEW old \in [Key -> Cached \cup {None}], NEW k \in Key, NEW entry \in Cached,
         Cardinality(Stored(old)) <= MaxEntries,
         NEW left \in Evict([old EXCEPT ![k] = entry])
  PROVE  Cardinality(Stored(left)) <= MaxEntries
<1> DEFINE new == [old EXCEPT ![k] = entry]
<1>1. new \in [Key -> Cached \cup {None}]
  OBVIOUS
<1>2. Stored(new) = Stored(old) \cup {k}
  BY CacheNames DEF Stored
<1>3. Cardinality(Stored(new)) <= MaxEntries + 1 /\ Cardinality(Stored(new)) \in Nat
  <2> HIDE DEF new
  <2>1. /\ IsFiniteSet(Stored(old)) /\ Cardinality(Stored(old)) \in Nat
        /\ Cardinality(Stored(new)) \in Nat
    BY StoredFinite
  <2>2. \/ Cardinality(Stored(new)) = Cardinality(Stored(old))
        \/ Cardinality(Stored(new)) = Cardinality(Stored(old)) + 1
    BY <1>2, <2>1, FS_AddElement
  <2> QED BY <2>1, <2>2, CacheBounds
<1> HIDE DEF new
<1>4. CASE left = new /\ Cardinality(Stored(new)) <= MaxEntries
  BY <1>4
<1>5. ASSUME NEW l \in Stored(new), left = [new EXCEPT ![l] = None]
      PROVE  Cardinality(Stored(left)) <= MaxEntries
  <2>1. Stored(left) = Stored(new) \ {l}
    BY <1>1, <1>5 DEF Stored
  <2>2. Cardinality(Stored(left)) = Cardinality(Stored(new)) - 1
    <3>1. IsFiniteSet(Stored(new)) /\ l \in Stored(new)
      BY StoredFinite
    <3>2. Cardinality(Stored(new) \ {l}) = Cardinality(Stored(new)) - 1
      BY <3>1, FS_RemoveElement
    <3> QED BY <2>1, <3>2
  <2> QED BY <1>3, <2>2, CacheBounds
<1>6. left \in Evict(new)
  BY DEF new
<1> QED BY <1>4, <1>5, <1>6 DEF Evict

LEMMA BoundedStep == Inv /\ CacheBounded /\ [Next]_vars => CacheBounded'
<1> SUFFICES ASSUME Inv, CacheBounded, [Next]_vars PROVE CacheBounded'
  OBVIOUS
<1>1. CASE UNCHANGED cache
  BY <1>1 DEF CacheBounded
<1>2. ASSUME NEW c \in Client, Invalidate(c)
      PROVE  CacheBounded'
  <2>1. Stored(Empty) = {}
    BY DEF Stored, Empty
  <2>2. Cardinality(Stored(Empty)) <= MaxEntries
    BY <2>1, FS_EmptySet, CacheBounds
  <2>3. \A p \in Process : cache'[p] = cache[p] \/ cache'[p] = Empty
    BY <1>2 DEF Invalidate, Clear, Inv, TypeOK
  <2> QED BY <2>2, <2>3 DEF CacheBounded
<1>3. ASSUME NEW s \in Slot, Finish(s)
      PROVE  CacheBounded'
  <2> DEFINE entry == [body |-> req[s].body, at |-> req[s].start]
  <2>1. Put(req[s].proc, req[s].key, entry)
    BY <1>3 DEF Finish, Stamp
  <2>2. req[s].proc \in Process /\ req[s].key \in Key /\ entry \in Cached
    BY <1>3 DEF Finish, Inv, Routed, TypeOK, Request, Cached
  <2> HIDE DEF entry
  <2>3. PICK left \in Evict([cache[req[s].proc] EXCEPT ![req[s].key] = entry]) :
          cache' = [cache EXCEPT ![req[s].proc] = left]
    BY <2>1 DEF Put
  <2>4. Cardinality(Stored(left)) <= MaxEntries
    BY <2>2, <2>3, EvictBounds DEF Inv, TypeOK, CacheBounded
  <2>5. \A p \in Process : cache'[p] = cache[p] \/ cache'[p] = left
    BY <2>3 DEF Inv, TypeOK
  <2> QED BY <2>4, <2>5 DEF CacheBounded
<1> QED
  BY <1>1, <1>2, <1>3 DEF Next, Hit, Miss, Read, Pass, Write, FailWrite, WarmBegin,
     WarmNext, BackgroundWrite, Tick, vars

\* The cache never outgrows max_entries: one store evicts as much as it adds.
THEOREM BoundedHolds == Spec => []CacheBounded
<1>1. Spec => []Inv
  BY InitInv, StepInv, PTL DEF Spec
<1>2. Init => CacheBounded
  <2>1. Stored(Empty) = {}
    BY DEF Stored, Empty
  <2>2. Cardinality(Stored(Empty)) <= MaxEntries
    BY <2>1, FS_EmptySet, CacheBounds
  <2> QED BY <2>2 DEF Init, CacheBounded
<1> QED BY <1>1, <1>2, BoundedStep, PTL DEF Spec
=============================================================================
