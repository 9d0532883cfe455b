------------------------ MODULE SlotAllocationProofs -------------------------
(***************************************************************************)
(* Proofs about SlotAllocation for any host, any number of requests and    *)
(* any times to live of the two caches.                                    *)
(***************************************************************************)
EXTENDS SlotAllocation, WellFoundedInduction, TLAPS

USE AllocationAssumption

Reading == [at : Nat, used : SUBSET Gpus, read : Nat, stored : Nat]
Places  == {"idle", "host", "rows", "wait", "store", "choose", "key", "port", "insert"}

(* A row and a request with the fields they have; the key is any value.    *)
RowType(s) ==
    s \in [key : {s.key}, port : Ports, gpus : SUBSET Gpus, active : BOOLEAN, late : BOOLEAN]
CallType(q) ==
    q \in [at : Places, kind : {"none", "get", "create"}, tp : Nat, second : BOOLEAN,
           host : SUBSET Gpus, busy : SUBSET Gpus, now : Nat, since : Nat,
           seen : {NoData} \cup Reading, gpus : SUBSET Gpus, key : {q.key},
           port : Ports \cup {0}, late : BOOLEAN]

Types ==
    /\ {clock, epoch, calls, events} \subseteq Nat
    /\ used \subseteq Gpus
    /\ \A s \in slots : RowType(s) /\ s.gpus # {}
    /\ hostCache # NoData => hostCache \in [at : Nat, host : SUBSET Gpus]
    /\ cache # NoData => cache \in Reading
    /\ DOMAIN call = Callers /\ call = [c \in Callers |-> call[c]]
    /\ \A c \in Callers : CallType(call[c])

(* What a request has found by the time it is at each place: a create that *)
(* got past its first answer has GPUs, the processes it saw and stored are *)
(* of some epoch up to now, and its port is free but for late rows.        *)
Fresh(d, since) == d.read >= since \/ (d.read < d.stored /\ d.stored >= since)
Found(q) ==
    /\ q.second => q.gpus # {}
    /\ q.at \in {"key", "port", "insert"} => q.second
    /\ q.at \in {"wait", "store"} => q.since <= epoch
    /\ q.at = "store" => q.seen \in Reading /\ q.since <= q.seen.read /\ q.seen.read <= epoch
    /\ q.at = "choose" => q.seen \in Reading /\ Fresh(q.seen, q.since)
    /\ q.at = "insert" => q.port \in Ports /\ (q.late \/ \A s \in slots : s.port # q.port)
Informed == \A c \in Callers : Found(call[c])

(* Nothing is cached from before the last invalidation, as far as the time *)
(* of storing goes.                                                        *)
Cached == cache # NoData => cache.read <= cache.stored /\ cache.stored = epoch

LatePorts == \A s, t \in slots : s # t /\ s.port = t.port => s.late \/ t.late

AllocIInv == Types /\ Informed /\ Cached /\ LatePorts


-----------------------------------------------------------------------------
(* Operators of the model.                                                 *)

Smaller == OpToRel(<, Nat)

(* A set of numbers that is not empty has a least one.                     *)
LEMMA LeastNat ==
    ASSUME NEW S \in SUBSET Nat, S # {}
    PROVE  \E m \in S : \A n \in S : m <= n
<1>1. IsWellFoundedOn(Smaller, Nat)
  BY NatLessThanWellFounded, Zenon DEF Smaller
<1>2. PICK m \in S : \A n \in S : <<n, m>> \notin Smaller
  BY <1>1, WFMin
<1>3. \A m1, n1 \in Nat : n1 < m1 => <<n1, m1>> \in Smaller
  BY DEF Smaller, OpToRel
<1>4. \A n \in S : ~(n < m)
  BY <1>2, <1>3
<1> QED BY <1>4

(* _suggest_indices names free GPUs only.                                  *)
LEMMA SuggestedIsFree == \A free, tp : Suggested(free, tp) \subseteq free
BY DEF Suggested

(* _next_free_port names the lowest port no row has.                       *)
LEMMA LowestPortIsFree ==
    ASSUME Types, FreePorts # {},
           NEW p, p = CHOOSE q \in FreePorts : \A o \in FreePorts : q <= o
    PROVE  p \in Ports /\ \A s \in slots : s.port # p
<1>1. \E q \in FreePorts : \A o \in FreePorts : q <= o
  BY LeastNat DEF FreePorts
<1> QED BY <1>1 DEF FreePorts

(* NoData can be told from what is cached.                                 *)
LEMMA NoDataIsNone == NoData \notin Reading /\ NoData \notin [at : Nat, host : SUBSET Gpus]
BY DEF NoData, Reading

-----------------------------------------------------------------------------
(* A step of one request that changes no row leaves the others as they are. *)
LEMMA CallerStep ==
    ASSUME Types, Informed, NEW c \in Callers, NEW r, call' = [call EXCEPT ![c] = r],
           CallType(r), Found(r), UNCHANGED <<slots, epoch>>
    PROVE  /\ DOMAIN call' = Callers /\ call' = [o \in Callers |-> call'[o]]
           /\ \A o \in Callers : CallType(call'[o])
           /\ Informed'
<1>1. \A o \in Callers : call'[o] = IF o = c THEN r ELSE call[o]
  BY DEF Types
<1>2. DOMAIN call' = Callers /\ call' = [o \in Callers |-> call'[o]]
  BY DEF Types
<1>3. \A o \in Callers : CallType(call'[o])
  BY <1>1 DEF Types
<1>4. ASSUME NEW o \in Callers PROVE Found(call[o])'
  BY <1>1 DEF Informed, Found
<1> QED BY <1>2, <1>3, <1>4 DEF Informed

(* What a request is at the start and at the end.                          *)
LEMMA NoCallFits == CallType(NoCall) /\ Found(NoCall)
BY DEF CallType, Found, NoCall, Places

(* A request comes in.                                                     *)
LEMMA AskStep ==
    ASSUME AllocIInv, NEW c \in Callers, NEW kind \in {"get", "create"}, NEW tp \in Nat,
           Ask(c, kind, tp)
    PROVE  AllocIInv'
<1> DEFINE r == [NoCall EXCEPT !.at = "host", !.kind = kind, !.tp = tp]
<1>1. CallType(r) /\ Found(r)
  BY DEF CallType, Found, NoCall, Places
<1>2. call' = [call EXCEPT ![c] = r] /\ UNCHANGED <<clock, slots, used, hostCache, cache, epoch, events>>
  BY DEF Ask
<1> HIDE DEF r
<1>3. calls' \in Nat
  BY DEF Ask, AllocIInv, Types
<1> QED BY <1>1, <1>2, <1>3, CallerStep DEF AllocIInv, Types, Cached, LatePorts

(* Each step of a request turns its record into r.                         *)
Turns(c, r) == call' = [call EXCEPT ![c] = r] /\ CallType(r) /\ Found(r)

(* _cached_host_indices.                                                   *)
LEMMA ReadHostStep ==
    ASSUME AllocIInv, NEW c \in Callers, ReadHost(c)
    PROVE  AllocIInv'
<1> DEFINE q == call[c]
<1>1. PICK docker \in {"off", "error", "gpus"}, local \in {"error", "gpus"} :
         LET host == IF Valid(hostCache, HostTtl, clock) THEN hostCache.host
                     ELSE Nvidia(docker, local)
         IN /\ hostCache' = IF Valid(hostCache, HostTtl, clock) THEN hostCache
                            ELSE [at |-> clock, host |-> host]
            /\ call' = [call EXCEPT ![c] =
                          IF host # {} THEN [q EXCEPT !.at = "rows", !.host = host]
                          ELSE IF q.second THEN [q EXCEPT !.at = "key"] ELSE NoCall]
  BY DEF ReadHost
<1> DEFINE host == IF Valid(hostCache, HostTtl, clock) THEN hostCache.host ELSE Nvidia(docker, local)
           r == IF host # {} THEN [q EXCEPT !.at = "rows", !.host = host]
                ELSE IF q.second THEN [q EXCEPT !.at = "key"] ELSE NoCall
<1>2. host \in SUBSET Gpus
  BY DEF AllocIInv, Types, Valid, Nvidia
<1>3. hostCache' # NoData => hostCache' \in [at : Nat, host : SUBSET Gpus]
  BY <1>1, <1>2 DEF AllocIInv, Types
<1>4. CallType(q) /\ Found(q) /\ q.at = "host"
  BY DEF AllocIInv, Types, Informed, ReadHost
<1>5. call' = [call EXCEPT ![c] = r]
  BY <1>1
<1> HIDE DEF host, q
<1>6. CallType(r) /\ Found(r)
  <2>1. CASE host # {}
    BY <1>2, <1>4, <2>1 DEF CallType, Found, Places
  <2>2. CASE host = {} /\ q.second
    BY <1>4, <2>2 DEF CallType, Found, Places
  <2>3. CASE host = {} /\ ~q.second
    BY <2>3, NoCallFits
  <2> QED BY <1>4, <2>1, <2>2, <2>3 DEF CallType
<1>7. UNCHANGED <<clock, slots, used, cache, epoch, calls, events>>
  BY DEF ReadHost
<1> HIDE DEF r
<1> QED BY <1>3, <1>5, <1>6, <1>7, CallerStep DEF AllocIInv, Types, Cached, LatePorts

(* The rows are read, and the time and the epoch taken.                    *)
LEMMA ReadRowsStep ==
    ASSUME AllocIInv, NEW c \in Callers, ReadRows(c)
    PROVE  AllocIInv'
<1> DEFINE q == call[c]
           B == UNION {s.gpus : s \in {t \in slots : t.active}}
           r == [q EXCEPT !.at = "wait", !.busy = B, !.now = clock, !.since = epoch]
<1>1. CallType(q) /\ Found(q) /\ q.at = "rows" /\ clock \in Nat /\ epoch \in Nat
  BY DEF AllocIInv, Types, Informed, ReadRows
<1>2. B \in SUBSET Gpus
  BY DEF AllocIInv, Types, RowType
<1>3. /\ call' = [call EXCEPT ![c] = r]
      /\ UNCHANGED <<clock, slots, used, hostCache, cache, epoch, calls, events>>
  BY DEF ReadRows
<1> HIDE DEF q, B
<1>4. CallType(r)
  BY <1>1, <1>2 DEF CallType, Places
<1>5. Found(r)
  BY <1>1 DEF CallType, Found
<1> HIDE DEF r
<1> QED BY <1>3, <1>4, <1>5, CallerStep DEF AllocIInv, Types, Cached, LatePorts

(* The cache answers: what it holds was stored in this epoch.              *)
LEMMA FromCacheStep ==
    ASSUME AllocIInv, NEW c \in Callers, FromCache(c)
    PROVE  AllocIInv'
<1> DEFINE q == call[c]
           r == [q EXCEPT !.at = "choose", !.seen = cache]
<1>1. CallType(q) /\ Found(q) /\ q.at = "wait" /\ epoch \in Nat
  BY DEF AllocIInv, Types, Informed, FromCache
<1>2. cache \in Reading /\ cache.read <= cache.stored /\ cache.stored = epoch
  BY DEF AllocIInv, Types, Cached, FromCache, Valid
<1>3. /\ call' = [call EXCEPT ![c] = r]
      /\ UNCHANGED <<clock, slots, used, hostCache, cache, epoch, calls, events>>
  BY DEF FromCache
<1> HIDE DEF q
<1>4. CallType(r)
  BY <1>1, <1>2 DEF CallType, Places
<1>5. Found(r)
  BY <1>1, <1>2 DEF CallType, Found, Fresh, Reading
<1> HIDE DEF r
<1> QED BY <1>3, <1>4, <1>5, CallerStep DEF AllocIInv, Types, Cached, LatePorts

(* The processes are listed.                                               *)
LEMMA ProbeStep ==
    ASSUME AllocIInv, NEW c \in Callers, Probe(c)
    PROVE  AllocIInv'
<1> DEFINE q == call[c]
<1>1. CallType(q) /\ Found(q) /\ q.at = "wait" /\ clock \in Nat /\ epoch \in Nat /\ used \subseteq Gpus
  BY DEF AllocIInv, Types, Informed, Probe
<1>2. PICK on \in {{}, used} :
         call' = [call EXCEPT ![c] = [q EXCEPT !.at = "store",
                    !.seen = [at |-> clock, used |-> on, read |-> epoch, stored |-> epoch]]]
  BY DEF Probe
<1> DEFINE d == [at |-> clock, used |-> on, read |-> epoch, stored |-> epoch]
           r == [q EXCEPT !.at = "store", !.seen = d]
<1>3. d \in Reading /\ d.read = epoch
  BY <1>1 DEF Reading
<1>4. call' = [call EXCEPT ![c] = r]
  BY <1>2
<1> HIDE DEF q, d
<1>5. CallType(r)
  BY <1>1, <1>3 DEF CallType, Places
<1>6. Found(r)
  BY <1>1, <1>3 DEF CallType, Found
<1>7. UNCHANGED <<clock, slots, used, hostCache, cache, epoch, calls, events>>
  BY DEF Probe
<1> HIDE DEF r
<1> QED BY <1>4, <1>5, <1>6, <1>7, CallerStep DEF AllocIInv, Types, Cached, LatePorts

(* What was read is stored, in the epoch of now.                           *)
LEMMA StoreProbeStep ==
    ASSUME AllocIInv, NEW c \in Callers, StoreProbe(c)
    PROVE  AllocIInv'
<1> DEFINE q == call[c]
           r == [q EXCEPT !.at = "choose", !.seen = cache']
<1>1. CallType(q) /\ Found(q) /\ q.at = "store" /\ clock \in Nat /\ epoch \in Nat
  BY DEF AllocIInv, Types, Informed, StoreProbe
<1>2. q.seen \in Reading /\ q.since <= q.seen.read /\ q.seen.read <= epoch
  BY <1>1 DEF Found
<1>3. cache' = [q.seen EXCEPT !.at = clock, !.stored = epoch]
  BY DEF StoreProbe
<1>4. cache' \in Reading /\ cache'.read = q.seen.read /\ cache'.stored = epoch
  BY <1>1, <1>2, <1>3 DEF Reading
<1>5. /\ call' = [call EXCEPT ![c] = r]
      /\ UNCHANGED <<clock, slots, used, hostCache, epoch, calls, events>>
  BY DEF StoreProbe
<1> HIDE DEF q
<1>6. CallType(r)
  BY <1>1, <1>4 DEF CallType, Places
<1>7. Found(r)
  BY <1>1, <1>2, <1>4 DEF CallType, Found, Fresh
<1> HIDE DEF r
<1> QED BY <1>2, <1>4, <1>5, <1>6, <1>7, CallerStep DEF AllocIInv, Types, Cached, LatePorts

(* A first answer becomes a second question; only GPUs that are free are   *)
(* taken along.                                                            *)
LEMMA ChooseStep ==
    ASSUME AllocIInv, NEW c \in Callers, Choose(c)
    PROVE  AllocIInv'
<1> DEFINE q    == call[c]
           busy == q.busy \cup q.seen.used
           gpus == Suggested(q.host \ busy, q.tp)
           over == \/ q.kind = "get" \/ (~q.second /\ gpus = {})
                   \/ (q.second /\ q.gpus \cap busy \cap q.host # {})
           r    == IF over THEN NoCall
                   ELSE IF q.second THEN [q EXCEPT !.at = "key", !.seen = NoData]
                   ELSE [q EXCEPT !.at = "host", !.second = TRUE, !.gpus = gpus, !.seen = NoData]
<1>1. CallType(q) /\ Found(q) /\ q.at = "choose"
  BY DEF AllocIInv, Types, Informed, Choose
<1>2. gpus \in SUBSET Gpus /\ (~over /\ ~q.second => gpus # {})
  <2>1. q.host \ busy \in SUBSET Gpus
    BY <1>1 DEF CallType
  <2> QED BY <2>1, SuggestedIsFree
<1>3. /\ call' = [call EXCEPT ![c] = r]
      /\ UNCHANGED <<clock, slots, used, hostCache, cache, epoch, calls, events>>
  BY DEF Choose
<1> HIDE DEF q, gpus, over
<1>4. CallType(r) /\ Found(r)
  <2>1. CASE over
    BY <2>1, NoCallFits
  <2>2. CASE ~over /\ q.second
    BY <1>1, <2>2 DEF CallType, Found, Places
  <2>3. CASE ~over /\ ~q.second
    BY <1>1, <1>2, <2>3 DEF CallType, Found, Places
  <2> QED BY <2>1, <2>2, <2>3
<1> HIDE DEF r
<1> QED BY <1>3, <1>4, CallerStep DEF AllocIInv, Types, Cached, LatePorts

(* A key is chosen; it may be taken by the time of the INSERT.             *)
LEMMA SuggestKeyStep ==
    ASSUME AllocIInv, NEW c \in Callers, SuggestKey(c)
    PROVE  AllocIInv'
<1> DEFINE q == call[c]
           k == NextKey
           r == [q EXCEPT !.at = "port", !.key = k]
<1>1. CallType(q) /\ Found(q) /\ q.at = "key"
  BY DEF AllocIInv, Types, Informed, SuggestKey
<1>2. /\ call' = [call EXCEPT ![c] = r]
      /\ UNCHANGED <<clock, slots, used, hostCache, cache, epoch, calls, events>>
  BY DEF SuggestKey
<1> HIDE DEF q, k
<1>3. CallType(r) /\ Found(r)
  BY <1>1 DEF CallType, Found, Places
<1> HIDE DEF r
<1> QED BY <1>2, <1>3, CallerStep DEF AllocIInv, Types, Cached, LatePorts

(* A port is chosen that no row has now.                                   *)
LEMMA PickPortStep ==
    ASSUME AllocIInv, NEW c \in Callers, PickPort(c)
    PROVE  AllocIInv'
<1> DEFINE q == call[c]
           p == CHOOSE p \in FreePorts : \A o \in FreePorts : p <= o
           r == IF FreePorts = {} THEN NoCall ELSE [q EXCEPT !.at = "insert", !.port = p]
<1>1. CallType(q) /\ Found(q) /\ q.at = "port"
  BY DEF AllocIInv, Types, Informed, PickPort
<1>2. FreePorts # {} => p \in Ports /\ \A s \in slots : s.port # p
  BY LowestPortIsFree DEF AllocIInv
<1>3. /\ call' = [call EXCEPT ![c] = r]
      /\ UNCHANGED <<clock, slots, used, hostCache, cache, epoch, calls, events>>
  BY DEF PickPort
<1> HIDE DEF q, p
<1>4. CallType(r) /\ Found(r)
  <2>1. CASE FreePorts = {}
    BY <2>1, NoCallFits
  <2>2. CASE FreePorts # {}
    BY <1>1, <1>2, <2>2 DEF CallType, Found, Places
  <2> QED BY <2>1, <2>2
<1> HIDE DEF r
<1> QED BY <1>3, <1>4, CallerStep DEF AllocIInv, Types, Cached, LatePorts

(* The row is inserted in sight of every request that has chosen a port.   *)
LEMMA InsertStep ==
    ASSUME AllocIInv, NEW c \in Callers, Insert(c)
    PROVE  AllocIInv'
<1> DEFINE q     == call[c]
           taken == q.key \in {s.key : s \in slots}
           new   == [key |-> q.key, port |-> q.port, gpus |-> q.gpus,
                     active |-> TRUE, late |-> q.late]
<1>1. CallType(q) /\ Found(q) /\ q.at = "insert"
  BY DEF AllocIInv, Types, Informed, Insert
<1>2. slots' = IF taken THEN slots ELSE slots \cup {new}
  BY DEF Insert
<1>3. call' = [o \in Callers |->
                 IF o = c THEN NoCall
                 ELSE IF call[o].at = "insert" /\ ~taken THEN [call[o] EXCEPT !.late = TRUE]
                 ELSE call[o]]
  BY DEF Insert
<1>4. UNCHANGED <<clock, used, hostCache, cache, epoch, calls, events>>
  BY DEF Insert
<1> HIDE DEF taken
<1>5. /\ RowType(new) /\ new.gpus # {} /\ new.port \in Ports /\ new.late = q.late
      /\ new.port = q.port
  BY <1>1 DEF CallType, RowType, Found
<1>6. q.late \/ \A s \in slots : s.port # q.port
  BY <1>1 DEF Found
<1> HIDE DEF q, new
<1>7. \A s \in slots' : RowType(s) /\ s.gpus # {}
  BY <1>2, <1>5 DEF AllocIInv, Types
<1>8. ASSUME NEW o \in Callers PROVE CallType(call'[o]) /\ Found(call[o])'
  <2>1. CallType(call[o]) /\ Found(call[o])
    BY DEF AllocIInv, Types, Informed
  <2>2. CASE o = c
    BY <1>3, <2>2, NoCallFits DEF Found, NoCall
  <2>3. CASE o # c /\ call[o].at = "insert" /\ ~taken
    <3>1. call'[o] = [call[o] EXCEPT !.late = TRUE]
      BY <1>3, <2>3
    <3>2. CallType(call'[o])
      BY <2>1, <3>1 DEF CallType
    <3>3. call'[o].at = "insert" /\ call'[o].late /\ call'[o].port = call[o].port
          /\ call'[o].second = call[o].second /\ call'[o].gpus = call[o].gpus
      BY <2>1, <2>3, <3>1 DEF CallType
    <3> QED BY <2>1, <2>3, <3>2, <3>3 DEF Found
  <2>4. CASE o # c /\ ~(call[o].at = "insert" /\ ~taken)
    <3>1. call'[o] = call[o]
      BY <1>3, <2>4
    <3> QED BY <1>2, <1>4, <2>1, <2>4, <3>1 DEF Found
  <2> QED BY <2>2, <2>3, <2>4
<1>9. LatePorts'
  <2> SUFFICES ASSUME NEW s \in slots', NEW t \in slots', s # t, s.port = t.port
               PROVE  s.late \/ t.late
    BY DEF LatePorts
  <2>1. CASE s \in slots /\ t \in slots
    BY <2>1 DEF AllocIInv, LatePorts
  <2>2. CASE s = new \/ t = new
    BY <1>2, <1>5, <1>6, <2>2
  <2> QED BY <1>2, <2>1, <2>2
<1>10. DOMAIN call' = Callers /\ call' = [o \in Callers |-> call'[o]]
  BY <1>3
<1>11. Types'
  BY <1>4, <1>7, <1>8, <1>10 DEF AllocIInv, Types
<1> QED BY <1>4, <1>8, <1>9, <1>11 DEF AllocIInv, Informed, Cached

-----------------------------------------------------------------------------
(* What goes on around the requests.                                       *)

(* A start or a stop empties both caches.                                  *)
LEMMA InvalidatedStep ==
    ASSUME AllocIInv, Invalidated, UNCHANGED <<clock, slots, call, calls>>,
           used' \in SUBSET Gpus, events' \in Nat
    PROVE  AllocIInv'
<1>1. epoch \in Nat /\ epoch' = epoch + 1 /\ cache' = NoData /\ hostCache' = NoData
  BY DEF AllocIInv, Types, Invalidated
<1>2. ASSUME NEW o \in Callers PROVE Found(call[o])'
  <2>1. CallType(call[o]) /\ Found(call[o])
    BY DEF AllocIInv, Types, Informed
  <2>2. call[o].since \in Nat /\ (call[o].seen \in Reading => call[o].seen.read \in Nat)
    BY <2>1 DEF CallType, Reading
  <2> QED BY <1>1, <2>1, <2>2 DEF Found
<1> QED BY <1>1, <1>2 DEF AllocIInv, Types, Informed, Cached, LatePorts

(* A container starts.                                                      *)
LEMMA SlotStartsStep ==
    ASSUME AllocIInv, NEW s \in slots, SlotStarts(s)
    PROVE  AllocIInv'
<1>1. used' \in SUBSET Gpus /\ events' \in Nat
  BY DEF SlotStarts, Event, AllocIInv, Types, RowType
<1> QED BY <1>1, InvalidatedStep DEF SlotStarts

(* Containers are removed.                                                  *)
LEMMA ContainerStopsStep ==
    ASSUME AllocIInv, NEW s \in slots, ContainerStops(s)
    PROVE  AllocIInv'
<1>1. used' \in SUBSET Gpus /\ events' \in Nat
  BY DEF ContainerStops, Event, AllocIInv, Types
<1> QED BY <1>1, InvalidatedStep DEF ContainerStops

(* A stopped row keeps its port.                                           *)
LEMMA RowStopsStep ==
    ASSUME AllocIInv, NEW s \in slots, RowStops(s)
    PROVE  AllocIInv'
<1> DEFINE stopped == [s EXCEPT !.active = FALSE]
<1>1. RowType(s) /\ s.gpus # {}
  BY DEF AllocIInv, Types
<1>2. /\ RowType(stopped) /\ stopped.gpus # {}
      /\ stopped.port = s.port /\ stopped.late = s.late
  BY <1>1 DEF RowType
<1>3. slots' = (slots \ {s}) \cup {stopped} /\ events' \in Nat
      /\ UNCHANGED <<clock, used, hostCache, cache, call, epoch, calls>>
  BY DEF RowStops, Event, AllocIInv, Types
<1> HIDE DEF stopped
<1>4. Types'
  BY <1>2, <1>3 DEF AllocIInv, Types
<1>5. ASSUME NEW o \in Callers PROVE Found(call[o])'
  BY <1>2, <1>3 DEF AllocIInv, Informed, Found
<1>6. LatePorts'
  BY <1>2, <1>3 DEF AllocIInv, LatePorts
<1> QED BY <1>3, <1>4, <1>5, <1>6 DEF AllocIInv, Informed, Cached

(* The rest changes nothing of this.                                       *)
LEMMA OthersStep ==
    ASSUME AllocIInv, (\E g \in Gpus : OthersComeAndGo(g)) \/ Tick \/ UNCHANGED allocVars
    PROVE  AllocIInv'
<1>1. used' \in SUBSET Gpus /\ events' \in Nat /\ clock' \in Nat /\ calls' \in Nat
      /\ UNCHANGED <<slots, hostCache, cache, call, epoch>>
  BY DEF OthersComeAndGo, Tick, Event, allocVars, AllocIInv, Types
<1> QED BY <1>1 DEF AllocIInv, Types, Informed, Found, Cached, LatePorts

-----------------------------------------------------------------------------
(* The invariant holds at first.                                            *)
LEMMA AllocInitIInv == AllocInit => AllocIInv
<1> SUFFICES ASSUME AllocInit PROVE AllocIInv
  OBVIOUS
<1>1. Types
  BY NoCallFits DEF AllocInit, Types
<1>2. Informed
  BY NoCallFits DEF AllocInit, Informed
<1> QED BY <1>1, <1>2 DEF AllocInit, AllocIInv, Cached, LatePorts

(* The invariant is inductive.                                              *)
LEMMA AllocIInvStep == AllocIInv /\ [AllocNext]_allocVars => AllocIInv'
<1> SUFFICES ASSUME AllocIInv, [AllocNext]_allocVars PROVE AllocIInv'
  OBVIOUS
<1>1. ASSUME NEW c \in Callers, Ask(c, "get", 0) \/ \E tp \in 1..2 : Ask(c, "create", tp)
      PROVE  AllocIInv'
  BY <1>1, AskStep
<1>2. ASSUME NEW c \in Callers,
             \/ ReadHost(c) \/ ReadRows(c) \/ FromCache(c) \/ Probe(c) \/ StoreProbe(c)
             \/ Choose(c) \/ SuggestKey(c) \/ PickPort(c) \/ Insert(c)
      PROVE  AllocIInv'
  BY <1>2, ReadHostStep, ReadRowsStep, FromCacheStep, ProbeStep, StoreProbeStep, ChooseStep,
     SuggestKeyStep, PickPortStep, InsertStep
<1>3. ASSUME NEW s \in slots, SlotStarts(s) \/ ContainerStops(s) \/ RowStops(s)
      PROVE  AllocIInv'
  BY <1>3, SlotStartsStep, ContainerStopsStep, RowStopsStep
<1> QED BY <1>1, <1>2, <1>3, OthersStep DEF AllocNext

(* The invariant holds in every reachable state.                           *)
THEOREM AllocIInvHolds == AllocSpec => []AllocIInv
BY AllocInitIInv, AllocIInvStep, PTL DEF AllocSpec

(* invalidate_gpu_state_cache: whoever asks after a start or a stop is     *)
(* answered from a reading that is newer, or from one that was under way   *)
(* at that moment and has overwritten the invalidation.                    *)
THEOREM SeenAfterChangeHolds == AllocSpec => []SeenAfterChange
<1>1. AllocIInv => SeenAfterChange
  BY DEF AllocIInv, Informed, Found, Fresh, SeenAfterChange
<1> QED BY <1>1, AllocIInvHolds, PTL

(* _next_free_port gives two rows the same port only if one was inserted   *)
(* while the other had already looked.                                     *)
THEOREM PortsDistinctHolds == AllocSpec => []PortsDistinct
<1>1. AllocIInv => PortsDistinct
  BY DEF AllocIInv, Types, RowType, CallType, Places, LatePorts, PortsDistinct, AllocTypeOK
<1> QED BY <1>1, AllocIInvHolds, PTL
=============================================================================
