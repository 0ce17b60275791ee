--------------------------- MODULE ResponseCache ---------------------------
(***************************************************************************)
(* The response cache of the dashboard's GET requests.                     *)
(*                                                                         *)
(* Every server process keeps its own entries.  A GET looks its key up as  *)
(* it is dispatched, runs the endpoint on a miss or a forced refresh and   *)
(* stores the body afterwards; a mutation that succeeded clears the cache  *)
(* of the process that handled it; a warmer repeats the requests of the    *)
(* cached entries, one after the other, as forced ones.  The middleware    *)
(* suspends before the endpoint runs and again before the body is stored,  *)
(* so other requests of the process come between; the lock of the cache is *)
(* never held over a suspension and every access to it is one step.        *)
(*                                                                         *)
(* A body is the version of the data that the endpoint read.               *)
(***************************************************************************)
EXTENDS Integers, FiniteSets

CONSTANTS
    Process,     \* the server processes
    Warmed,      \* the processes whose warmer runs
    Client,      \* requests in flight at a time
    Key,         \* path, query and identity of a request
    None,        \* no entry, no process, not acknowledged
    TtlSeconds,  \* ttl_seconds
    Second,      \* ticks of the clock per second
    MaxEntries,  \* max_entries
    MaxClock,    \* bound: ticks of the run
    MaxWrites    \* bound: changes of the data

Time == 0..MaxClock
Version == 0..MaxWrites

Cached == [body : Version, at : Time]

ASSUME CacheBounds ==
    /\ TtlSeconds \in Nat
    /\ Second \in Nat \ {0}
    /\ MaxEntries \in Nat \ {0}
    /\ MaxClock \in Nat
    /\ MaxWrites \in Nat

ASSUME CacheNames ==
    /\ Warmed \subseteq Process
    /\ Client \cap Process = {}
    /\ None \notin Process \cup Key \cup Int \cup Cached
    /\ IsFiniteSet(Key)

\* The warmer of a process sends its requests as that process.
Slot == Client \cup Warmed


\* The age is truncated to whole seconds before it is compared with the ttl.
Lifetime == (TtlSeconds + 1) * Second

VARIABLES
    clock,   \* time.time()
    data,    \* the version of what the database holds
    acked,   \* when the write that made a version was acknowledged
    cache,   \* entries of each process: body and cached_at
    req,     \* the request in flight of each slot
    answer,  \* the last answer to each client: body, when it was asked for and
             \* the writes acknowledged then
    warm,    \* the snapshot keys that each warmer has still to refresh
    quiet    \* observed: no write was acknowledged beside a read in flight or
             \* beside entries of another process

vars == <<clock, data, acked, cache, req, answer, warm, quiet>>

Idle == [pc |-> "idle", proc |-> None, key |-> None, start |-> 0, body |-> 0,
         need |-> {}]

Empty == [k \in Key |-> None]

Init ==
    /\ clock = 0
    /\ data = 0
    /\ acked = [v \in Version |-> None]
    /\ cache = [p \in Process |-> Empty]
    /\ req = [s \in Slot |-> Idle]
    /\ answer = [c \in Client |-> [body |-> 0, at |-> 0, need |-> {}]]
    /\ warm = [p \in Process |-> {}]
    /\ quiet = TRUE

-----------------------------------------------------------------------------
(* ApiResponseCache.                                                       *)

Stored(entries) == {k \in Key : entries[k] # None}

\* Faulty variant of Evict: one entry too many is kept.
EvictLate(entries) ==
    IF Cardinality(Stored(entries)) <= MaxEntries + 1
    THEN {entries}
    ELSE {[entries EXCEPT ![k] = None] :
             k \in {k \in Stored(entries) :
                      \A l \in Stored(entries) : entries[k].at <= entries[l].at}}

\* Above max_entries the entry with the oldest cached_at goes; which one of
\* several depends on the order of insertion, which is left open.
Evict(entries) ==
    IF Cardinality(Stored(entries)) <= MaxEntries
    THEN {entries}
    ELSE {[entries EXCEPT ![k] = None] :
             k \in {k \in Stored(entries) :
                      \A l \in Stored(entries) : entries[k].at <= entries[l].at}}

Put(p, k, entry) ==
    \E entries \in Evict([cache[p] EXCEPT ![k] = entry]) :
        cache' = [cache EXCEPT ![p] = entries]

\* Faulty variant of Clear: only one entry is dropped.
ClearOne(p) == \E k \in Key : cache' = [cache EXCEPT ![p][k] = None]

Clear(p) == cache' = [cache EXCEPT ![p] = Empty]

Fresh(entry) == entry # None /\ clock - entry.at < Lifetime

-----------------------------------------------------------------------------
(* dispatch.                                                               *)

Acknowledged == {v \in Version : acked[v] # None}

\* A plain GET finds a fresh entry and is answered with it.
Hit(c, p, k) ==
    /\ req[c].pc = "idle"
    /\ Fresh(cache[p][k])
    /\ answer' = [answer EXCEPT ![c] = [body |-> cache[p][k].body, at |-> clock,
                                        need |-> Acknowledged]]
    /\ UNCHANGED <<clock, data, acked, cache, req, warm, quiet>>

Called(p, k) == [Idle EXCEPT !.pc = "called", !.proc = p, !.key = k, !.start = clock,
                             !.need = Acknowledged]

\* A miss, or a forced refresh, goes on to the endpoint.
Miss(c, p, k, forced) ==
    /\ req[c].pc = "idle"
    /\ forced \/ ~Fresh(cache[p][k])
    /\ req' = [req EXCEPT ![c] = Called(p, k)]
    /\ UNCHANGED <<clock, data, acked, cache, answer, warm, quiet>>

Read(s) ==
    /\ req[s].pc = "called"
    /\ req' = [req EXCEPT ![s].pc = "read", ![s].body = data]
    /\ UNCHANGED <<clock, data, acked, cache, answer, warm, quiet>>

\* Faulty variant of Stamp: cached_at is the time of the store.
StampLate(s) == clock

\* cached_at is the time of the dispatch.
Stamp(s) == req[s].start

\* The endpoint answered 200: the body is stored and the request is answered.
Finish(s) ==
    /\ req[s].pc = "read"
    /\ Put(req[s].proc, req[s].key, [body |-> req[s].body, at |-> Stamp(s)])
    /\ req' = [req EXCEPT ![s] = Idle]
    /\ answer' = IF s \in Client
                 THEN [answer EXCEPT ![s] = [body |-> req[s].body, at |-> req[s].start,
                                             need |-> req[s].need]]
                 ELSE answer
    /\ UNCHANGED <<clock, data, acked, warm, quiet>>

\* It answered something else, which is passed on and not stored.
Pass(s) ==
    /\ req[s].pc = "read"
    /\ req' = [req EXCEPT ![s] = Idle]
    /\ UNCHANGED <<clock, data, acked, cache, answer, warm, quiet>>

-----------------------------------------------------------------------------
(* Mutations.                                                              *)

\* The endpoint of a mutating request commits.
Write(c, p) ==
    /\ req[c].pc = "idle"
    /\ data < MaxWrites
    /\ data' = data + 1
    /\ req' = [req EXCEPT ![c] = [Idle EXCEPT !.pc = "written", !.proc = p,
                                              !.start = clock, !.body = data + 1]]
    /\ UNCHANGED <<clock, acked, cache, answer, warm, quiet>>

\* A read is in flight beside the write of c, or another process has entries.
Beside(c) ==
    \/ \E s \in Slot : req[s].pc \in {"called", "read"}
    \/ \E p \in Process \ {req[c].proc} : Stored(cache[p]) # {}

\* It succeeded: the cache of this process is cleared before the answer.
Invalidate(c) ==
    /\ req[c].pc = "written"
    /\ Clear(req[c].proc)
    /\ acked' = [acked EXCEPT ![req[c].body] = clock]
    /\ req' = [req EXCEPT ![c] = Idle]
    /\ quiet' = (quiet /\ ~Beside(c))
    /\ UNCHANGED <<clock, data, answer, warm>>

\* It failed after a commit: an error is no reason to clear.
FailWrite(c) ==
    /\ req[c].pc = "written"
    /\ req' = [req EXCEPT ![c] = Idle]
    /\ UNCHANGED <<clock, data, acked, cache, answer, warm, quiet>>

\* Scans, exports and retention change the data outside of requests.
BackgroundWrite ==
    /\ data < MaxWrites
    /\ data' = data + 1
    /\ UNCHANGED <<clock, acked, cache, req, answer, warm, quiet>>

-----------------------------------------------------------------------------
(* The warmer.                                                             *)

WarmBegin(p) ==
    /\ req[p].pc = "idle"
    /\ warm[p] = {}
    /\ Stored(cache[p]) # {}
    /\ warm' = [warm EXCEPT ![p] = Stored(cache[p])]
    /\ UNCHANGED <<clock, data, acked, cache, req, answer, quiet>>

WarmNext(p, k) ==
    /\ req[p].pc = "idle"
    /\ k \in warm[p]
    /\ warm' = [warm EXCEPT ![p] = @ \ {k}]
    /\ req' = [req EXCEPT ![p] = Called(p, k)]
    /\ UNCHANGED <<clock, data, acked, cache, answer, quiet>>

Tick ==
    /\ clock < MaxClock
    /\ clock' = clock + 1
    /\ UNCHANGED <<data, acked, cache, req, answer, warm, quiet>>

Next ==
    \/ \E c \in Client, p \in Process :
         \/ \E k \in Key : Hit(c, p, k) \/ \E f \in BOOLEAN : Miss(c, p, k, f)
         \/ Write(c, p)
    \/ \E c \in Client : Invalidate(c) \/ FailWrite(c)
    \/ \E s \in Slot : Read(s) \/ Finish(s) \/ Pass(s)
    \/ \E p \in Warmed : WarmBegin(p) \/ \E k \in Key : WarmNext(p, k)
    \/ BackgroundWrite
    \/ Tick

Spec == Init /\ [][Next]_vars

-----------------------------------------------------------------------------
Request ==
    [pc : {"idle", "called", "read", "written"}, proc : Process \cup {None},
     key : Key \cup {None}, start : Time, body : Version,
     need : SUBSET Version]

TypeOK ==
    /\ clock \in Time
    /\ data \in Version
    /\ acked \in [Version -> Time \cup {None}]
    /\ cache \in [Process -> [Key -> Cached \cup {None}]]
    /\ req \in [Slot -> Request]
    /\ answer \in [Client -> [body : Version, at : Time, need : SUBSET Version]]
    /\ warm \in [Process -> SUBSET Key]
    /\ quiet \in BOOLEAN

\* No process keeps more than max_entries answers, whatever requests and
\* refreshes store concurrently.
CacheBounded == \A p \in Process : Cardinality(Stored(cache[p])) <= MaxEntries

\* However requests, writes, warmers and processes interleave, an answer lacks
\* an acknowledged write only if it was asked for within ttl_seconds (and the
\* second that truncation adds) of the acknowledgement.
StalenessBounded ==
    \A c \in Client, v \in Version :
        acked[v] # None /\ answer[c].body < v
        => answer[c].at < acked[v] + Lifetime

\* Who asks after a write was acknowledged is answered with that write.
WritesVisible == \A c \in Client : \A v \in answer[c].need : answer[c].body >= v

\* That holds as long as no acknowledgement met a read in flight or the entries
\* of another process: nothing else survives an invalidation, neither another
\* key nor what a failed write or the warmer left.
SettledWritesVisible == quiet => WritesVisible
=============================================================================
