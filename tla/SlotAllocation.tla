--------------------------- MODULE SlotAllocation ----------------------------
(***************************************************************************)
(* What POST /runtime/slots picks for a new slot: GPUs, key and port.      *)
(* Free GPUs come from services/gpu_availability.py, by way of two caches: *)
(* the GPUs of the host (30 s, services/host_info.py) and the processes on *)
(* them (3 s, services/gpu_state.py).  SlotRuntime has the life of a slot; *)
(* here it matters when a slot starts and stops, for the caches are        *)
(* invalidated then, from a worker thread and without their locks.         *)
(*                                                                         *)
(* Time is a clock in ticks.  A request may be overtaken wherever it       *)
(* awaits.  Two readings of the host cannot overlap (_HOST_LOCK), and      *)
(* nothing here tells apart when in one its outcome is settled: it is one  *)
(* step.  Explicit GPUs, keys and ports are checked by SlotRuntime.        *)
(***************************************************************************)
EXTENDS Naturals, FiniteSets

CONSTANTS Gpus,         \* indices of the GPUs of the host
          Callers,      \* requests at work at one time
          Ports,        \* default range of the engine
          HostTtl, Ttl, \* _HOST_TTL_S, _TTL_S
          MaxTime,      \* bound: ticks of the clock
          MaxCalls,     \* bound: requests
          MaxEvents     \* bound: starts, stops and processes of others

ASSUME AllocationAssumption ==
    /\ IsFiniteSet(Gpus) /\ Gpus \subseteq Nat /\ IsFiniteSet(Ports) /\ Ports \subseteq Nat
    /\ {HostTtl, Ttl, MaxTime, MaxCalls, MaxEvents} \subseteq Nat

VARIABLES
    clock,
    slots,     \* rows of engine_slots: key, port, GPUs, active or not; and,
               \* as history, whether another row came between its look at
               \* the ports and its INSERT
    used,      \* GPUs with a process on them
    hostCache, \* _HOST_CACHE: [at, host] or NoData
    cache,     \* _cache: [at, used], how many invalidations there had been
               \* when it was read and when it was stored; or NoData
    call,      \* per caller: where it is and what it has read
    epoch,     \* history: invalidations so far
    calls, events

allocVars == <<clock, slots, used, hostCache, cache, call, epoch, calls, events>>

NoData == [at |-> 0, none |-> TRUE]
NoCall == [at |-> "idle", kind |-> "none", tp |-> 0, second |-> FALSE, host |-> {}, busy |-> {},
           now |-> 0, since |-> 0, seen |-> NoData, gpus |-> {}, key |-> 0, port |-> 0,
           late |-> FALSE]

AllocInit ==
    /\ clock = 0 /\ slots = {} /\ used = {}
    /\ hostCache = NoData /\ cache = NoData
    /\ call = [c \in Callers |-> NoCall]
    /\ epoch = 0 /\ calls = 0 /\ events = 0

-----------------------------------------------------------------------------
(* The CSV of nvidia-smi by Docker and by the web container itself: "off", *)
(* an error, or the GPUs.  collect_host_info takes the first that works.   *)
Nvidia(docker, local) ==
    IF docker = "gpus" \/ local = "gpus" THEN Gpus ELSE {}

(* _suggest_indices: the first block of tp neighbours, else the first tp.  *)
Suggested(free, tp) ==
    LET starts == {g \in free : g..(g + tp - 1) \subseteq free}
        first  == CHOOSE g \in starts : \A h \in starts : g <= h
    IN IF tp < 1 \/ Cardinality(free) < tp THEN {}
       ELSE IF starts # {} THEN {g \in free : g \in first..(first + tp - 1)}
       ELSE {g \in free : Cardinality({h \in free : h < g}) < tp}

(* Mutant: only the ports of active slots count as used.                   *)
FreePortsOfActive == Ports \ {s.port : s \in {t \in slots : t.active}}

(* _next_free_port: every row counts.                                      *)
FreePorts == Ports \ {s.port : s \in slots}

Valid(c, ttl, now) == c # NoData /\ now < c.at + ttl

-----------------------------------------------------------------------------
(* GET /gpu/availability, and a create without GPUs, which asks twice.     *)
Ask(c, kind, tp) ==
    /\ call[c].at = "idle" /\ calls < MaxCalls /\ calls' = calls + 1
    /\ call' = [call EXCEPT ![c] = [NoCall EXCEPT !.at = "host", !.kind = kind, !.tp = tp]]
    /\ UNCHANGED <<clock, slots, used, hostCache, cache, epoch, events>>

(* _cached_host_indices.  Without GPUs the answer is ready.                *)
ReadHost(c) ==
    /\ call[c].at = "host"
    /\ \E docker \in {"off", "error", "gpus"}, local \in {"error", "gpus"} :
         LET host == IF Valid(hostCache, HostTtl, clock) THEN hostCache.host
                     ELSE Nvidia(docker, local)
         IN /\ hostCache' = IF Valid(hostCache, HostTtl, clock) THEN hostCache
                            ELSE [at |-> clock, host |-> host]
            /\ call' = [call EXCEPT ![c] =
                          IF host # {} THEN [@ EXCEPT !.at = "rows", !.host = host]
                          ELSE IF call[c].second THEN [@ EXCEPT !.at = "key"] ELSE NoCall]
    /\ UNCHANGED <<clock, slots, used, cache, epoch, calls, events>>

(* The GPUs of active rows, and on to get_gpu_state_snapshot, which takes   *)
(* the time before it waits for the lock.                                  *)
ReadRows(c) ==
    /\ call[c].at = "rows"
    /\ call' = [call EXCEPT ![c].at = "wait",
                            ![c].busy = UNION {s.gpus : s \in {t \in slots : t.active}},
                            ![c].now = clock, ![c].since = epoch]
    /\ UNCHANGED <<clock, slots, used, hostCache, cache, epoch, calls, events>>

(* _lock is held from a look at the cache that finds nothing to the end.   *)
Locked == \E c \in Callers : call[c].at = "store"

FromCache(c) ==
    /\ call[c].at = "wait" /\ ~Locked
    /\ Valid(cache, Ttl, call[c].now)
    /\ call' = [call EXCEPT ![c].at = "choose", ![c].seen = cache]
    /\ UNCHANGED <<clock, slots, used, hostCache, cache, epoch, calls, events>>

(* nvidia-smi lists the processes, or fails and there are none; which slot *)
(* one belongs to only changes the wording of the answer.                  *)
Probe(c) ==
    /\ call[c].at = "wait" /\ ~Locked
    /\ ~Valid(cache, Ttl, call[c].now)
    /\ \E on \in {{}, used} :
         call' = [call EXCEPT ![c].at = "store",
                              ![c].seen = [at |-> clock, used |-> on, read |-> epoch, stored |-> epoch]]
    /\ UNCHANGED <<clock, slots, used, hostCache, cache, epoch, calls, events>>

(* The result is cached with the time of now, invalidated or not.          *)
StoreProbe(c) ==
    /\ call[c].at = "store"
    /\ cache' = [call[c].seen EXCEPT !.at = clock, !.stored = epoch]
    /\ call' = [call EXCEPT ![c].at = "choose", ![c].seen = cache']
    /\ UNCHANGED <<clock, slots, used, hostCache, epoch, calls, events>>

(* The rest of compute_availability; the second time the create is refused *)
(* if its GPUs are reported busy.                                          *)
Choose(c) ==
    LET q    == call[c]
        busy == q.busy \cup q.seen.used
        gpus == Suggested(q.host \ busy, q.tp)
    IN /\ q.at = "choose"
       /\ call' = [call EXCEPT ![c] =
            IF q.kind = "get" \/ (~q.second /\ gpus = {}) \/ (q.second /\ q.gpus \cap busy \cap q.host # {})
              THEN NoCall
            ELSE IF q.second THEN [q EXCEPT !.at = "key", !.seen = NoData]
            ELSE [q EXCEPT !.at = "host", !.second = TRUE, !.gpus = gpus, !.seen = NoData]]
       /\ UNCHANGED <<clock, slots, used, hostCache, cache, epoch, calls, events>>

-----------------------------------------------------------------------------
(* _suggest_slot_key_from_preset: 1 stands for <preset>, n for <preset>-n. *)
NextKey == LET keys == {s.key : s \in slots} IN
           CHOOSE k \in 1..(MaxCalls + 1) : k \notin keys /\ \A j \in 1..(k - 1) : j \in keys

SuggestKey(c) ==
    /\ call[c].at = "key"
    /\ call' = [call EXCEPT ![c].at = "port", ![c].key = NextKey]
    /\ UNCHANGED <<clock, slots, used, hostCache, cache, epoch, calls, events>>

(* 409 when the range is used up.                                          *)
PickPort(c) ==
    /\ call[c].at = "port"
    /\ call' = [call EXCEPT ![c] =
                  IF FreePorts = {} THEN NoCall
                  ELSE [@ EXCEPT !.at = "insert",
                                 !.port = CHOOSE p \in FreePorts : \A o \in FreePorts : p <= o]]
    /\ UNCHANGED <<clock, slots, used, hostCache, cache, epoch, calls, events>>

(* The INSERT, unless the key has been taken meanwhile (slot_key is        *)
(* unique): that request fails with 500.  No constraint is on the port.    *)
Insert(c) ==
    LET q == call[c]
        taken == q.key \in {s.key : s \in slots}
    IN /\ q.at = "insert"
       /\ slots' = IF taken THEN slots
                   ELSE slots \cup {[key |-> q.key, port |-> q.port, gpus |-> q.gpus,
                                     active |-> TRUE, late |-> q.late]}
       /\ call' = [o \in Callers |->
                     IF o = c THEN NoCall
                     ELSE IF call[o].at = "insert" /\ ~taken THEN [call[o] EXCEPT !.late = TRUE]
                     ELSE call[o]]
       /\ UNCHANGED <<clock, used, hostCache, cache, epoch, calls, events>>

-----------------------------------------------------------------------------
Event == events < MaxEvents /\ events' = events + 1

(* Mutant: the cache of processes is kept.                                 *)
InvalidatedHostOnly == hostCache' = NoData /\ epoch' = epoch + 1 /\ UNCHANGED cache

(* invalidate_gpu_state_cache and invalidate_host_gpu_cache.               *)
Invalidated == cache' = NoData /\ hostCache' = NoData /\ epoch' = epoch + 1

(* The container of a slot has started, and its process shows up.          *)
SlotStarts(s) ==
    /\ s.active /\ ~(s.gpus \subseteq used) /\ Event
    /\ used' = used \cup s.gpus
    /\ Invalidated
    /\ UNCHANGED <<clock, slots, call, calls>>

(* The containers of a slot are gone, then the row is stopped.             *)
ContainerStops(s) ==
    /\ s.active /\ s.gpus \subseteq used /\ Event
    /\ used' = used \ s.gpus
    /\ Invalidated
    /\ UNCHANGED <<clock, slots, call, calls>>

RowStops(s) ==
    /\ s.active /\ s.gpus \cap used = {} /\ Event
    /\ slots' = (slots \ {s}) \cup {[s EXCEPT !.active = FALSE]}
    /\ UNCHANGED <<clock, used, hostCache, cache, call, epoch, calls>>

(* Processes that are not of slgpu.                                        *)
OthersComeAndGo(g) ==
    /\ \A s \in slots : g \notin s.gpus
    /\ Event
    /\ used' = IF g \in used THEN used \ {g} ELSE used \cup {g}
    /\ UNCHANGED <<clock, slots, hostCache, cache, call, epoch, calls>>

Tick ==
    /\ clock < MaxTime /\ clock' = clock + 1
    /\ UNCHANGED <<slots, used, hostCache, cache, call, epoch, calls, events>>

AllocNext ==
    \/ \E c \in Callers :
         \/ Ask(c, "get", 0) \/ \E tp \in 1..2 : Ask(c, "create", tp)
         \/ ReadHost(c) \/ ReadRows(c) \/ FromCache(c)
         \/ Probe(c) \/ StoreProbe(c) \/ Choose(c)
         \/ SuggestKey(c) \/ PickPort(c) \/ Insert(c)
    \/ \E s \in slots : SlotStarts(s) \/ ContainerStops(s) \/ RowStops(s)
    \/ \E g \in Gpus : OthersComeAndGo(g)
    \/ Tick

AllocSpec == AllocInit /\ [][AllocNext]_allocVars

-----------------------------------------------------------------------------
AllocTypeOK ==
    /\ used \subseteq Gpus /\ {clock, epoch, calls, events} \subseteq Nat
    /\ \A s \in slots : s.port \in Ports /\ s.gpus \subseteq Gpus /\ s.gpus # {}
    /\ \A c \in Callers :
         call[c].at \in {"idle", "host", "rows", "wait", "store", "choose",
                         "key", "port", "insert"}

(* A request that asks for the processes after a slot has started or       *)
(* stopped is not answered from what was known before.  There is one way   *)
(* to be: the probe was under way then, and stores its old result over the *)
(* invalidation.                                                           *)
SeenAfterChange ==
    \A c \in Callers : call[c].at = "choose" =>
        LET d == call[c].seen IN
        d.read >= call[c].since \/ (d.read < d.stored /\ d.stored >= call[c].since)

(* Two slots have the same default port only if the later row was inserted *)
(* between the other's look at the ports and its INSERT; stopped slots     *)
(* keep theirs.                                                            *)
PortsDistinct ==
    /\ AllocTypeOK
    /\ \A s, t \in slots : s # t /\ s.port = t.port => s.late \/ t.late
=============================================================================
