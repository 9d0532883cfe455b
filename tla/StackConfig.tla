----------------------------- MODULE StackConfig -----------------------------
(***************************************************************************)
(* The parameters of the stack: rows of `stack_params`, written by         *)
(* /app-config (api/v1/app_config.py, services/stack_config.py) and read   *)
(* by every operation through sync_merged_flat; a slot reads them together *)
(* with its preset (services/llm_env.py).                                  *)
(*                                                                         *)
(* A request reads in autocommit mode until its first write; from there to *)
(* its commit it holds the writer's lock of SQLite.  So it is some reads,  *)
(* then one atomic step.  A GET writes too: it rewrites keys of old        *)
(* releases to their canonical names (services/env_key_aliases.py).        *)
(* Two abstractions: a PATCH names one key, and presets are constants.     *)
(* The bench jobs merge a preset without GPUs; that is left out.           *)
(***************************************************************************)
EXTENDS Naturals, Sequences

CONSTANTS Keys,         \* the keys a row can have
          VllmChains,   \* VLLM_STACK_ALIASES: <<canonical, legacy, ...>>
          ImageChains,  \* MONITORING_IMAGE_ALIASES
          PresetOnly,   \* PRESET_ONLY_KEYS
          Required,     \* PRESET_REQUIRED_KEYS
          TpKey, DeviceKey,    \* TP, NVIDIA_VISIBLE_DEVICES
          PortKey, SglangPort, \* LLM_API_PORT, LLM_API_PORT_SGLANG
          GpuLists,     \* what the GPUs of a slot make of TpKey and DeviceKey
          Dropped,      \* DEPRECATED_MERGED_DROP_KEYS
          SecretKeys,   \* the keys of which is_secret_key is true
          LiteKey,      \* LITELLM_API_KEY, once in the public_access setting
          Values,       \* values that are not blank
          Empty, Mask, Absent,
          Olds,         \* databases an upgraded release can start with
          MainEnvs,     \* contents of configs/main.env
          Presets,      \* load_preset_flat_from_db_sync of presets: it leaves
                        \* blank values out, and keeps old names
          PatchKeys, PatchValues, \* what PATCHes name and bring, blanks and mask aside
          Requests,
          MaxOps,       \* bound: PATCH and install requests
          MaxRestarts   \* bound: restarts of the web process

Chains     == VllmChains \cup ImageChains
Canonical  == {c[1] : c \in Chains}
LegacyKeys == UNION {{c[i] : i \in 2..Len(c)} : c \in Chains}

(* What a row can say, and what files and old releases put into one.       *)
Stored     == Values \cup {Empty, Mask, Absent}
Fresh      == Values \cup {Empty, Absent}

(* No alias is a secret or dropped, and only a canonical name can be the   *)
(* preset's own.  What merge_llm_stack_env sets has no aliases.            *)
ASSUME StackConfigAssumption ==
    /\ \A c \in Chains : c \in Seq(Keys) /\ c # <<>>
    /\ Canonical \cap LegacyKeys = {}
    /\ \A c, d \in Chains : c # d => \A i \in DOMAIN c, j \in DOMAIN d : c[i] # d[j]
    /\ (SecretKeys \cup Dropped) \cap (Canonical \cup LegacyKeys) = {}
    /\ PresetOnly \cap LegacyKeys = {}
    /\ TpKey \in Required /\ Required \subseteq Keys \cap (PresetOnly \ Canonical)
    /\ {TpKey, DeviceKey, PortKey, SglangPort} \subseteq Keys
    /\ {DeviceKey, PortKey, SglangPort} \cap (Canonical \cup LegacyKeys \cup PresetOnly) = {}
    /\ DeviceKey \notin {PortKey, SglangPort}
    /\ LiteKey \in SecretKeys /\ SecretKeys \subseteq Keys
    /\ {Empty, Mask, Absent} \cap Values = {}
    /\ PatchKeys \subseteq Keys /\ PatchValues \subseteq Values
    /\ Mask \notin {Empty, Absent} /\ Empty # Absent
    /\ \A o \in Olds : o.row \in [Keys -> Fresh] /\ o.lite \in Fresh /\ o.installed \in BOOLEAN
    /\ MainEnvs \subseteq [Keys -> Fresh]
    /\ \A p \in Presets : \A k \in Keys : p[k] # Empty
    /\ \A g \in GpuLists : {g.tp, g.devices} \subseteq Values
    /\ MaxOps \in Nat /\ MaxRestarts \in Nat

VARIABLES
    row,       \* param_value by key
    secret,    \* the keys whose row has is_secret
    lite,      \* litellm_api_key in the public_access setting
    installed, \* cfg.meta
    pc,        \* where a request is
    ask,       \* what a PATCH asks for
    snap,      \* the rows it has read
    raced,     \* history: another request has committed since
    masked,    \* history: keys a PATCH has set to the mask in its stack section
    ops, restarts

db      == [row |-> row, secret |-> secret, lite |-> lite]
reqVars == <<pc, ask, snap, raced>>
vars    == <<row, secret, lite, installed, reqVars, masked, ops, restarts>>

NoRow == [k \in Keys |-> Absent]
NoDb  == [row |-> NoRow, secret |-> {}, lite |-> Absent]
NoAsk == [part |-> "none"]

IsSet(v) == v \notin {Empty, Absent}
Present(m) == {k \in Keys : m[k] # Absent}
(* Flat dictionaries, without the keys of S.                               *)
Without(m, S) == [k \in Keys |-> IF k \in S THEN Absent ELSE m[k]]

-----------------------------------------------------------------------------
(* Aliases                                                                 *)

(* coalesce_str: the first value of a chain that is not blank.             *)
Coalesce(m, c) ==
    LET first(i) == IsSet(m[c[i]]) /\ \A j \in 1..(i - 1) : ~IsSet(m[c[j]])
    IN IF \E i \in DOMAIN c : first(i)
         THEN m[c[CHOOSE i \in DOMAIN c : first(i)]] ELSE Empty

(* A canonical key takes the value of its chain, if there is one.          *)
ApplyAliases(m, chains) ==
    [k \in Keys |-> IF \E c \in chains : c[1] = k /\ IsSet(Coalesce(m, c))
                      THEN Coalesce(m, CHOOSE c \in chains : c[1] = k) ELSE m[k]]

Presentation(m) == Without(ApplyAliases(m, Chains), LegacyKeys \cup PresetOnly)

(* sync_merged_flat, where the database has rows.                          *)
Merged ==
    LET m == Without(row, Dropped \cup PresetOnly)
    IN ApplyAliases([m EXCEPT ![LiteKey] = IF @ = Absent /\ IsSet(lite) THEN lite ELSE @],
                    VllmChains)

(* merge_llm_stack_env: the preset over the stack without what belongs to  *)
(* the preset, and the check of the keys a preset has to have.             *)
Overlaid(preset) ==
    LET stack == Without(Merged, PresetOnly)
    IN [k \in Keys |-> IF preset[k] # Absent THEN preset[k] ELSE stack[k]]
MayLaunch(preset) == \A k \in Required : IsSet(Overlaid(preset)[k])

(* Mutant: the preset only fills what the stack leaves open.               *)
LaunchStackFirst(preset, gpus, sglang) ==
    LET stack == Without(Merged, PresetOnly)
    IN ApplyAliases([k \in Keys |-> IF IsSet(stack[k]) THEN stack[k] ELSE preset[k]], VllmChains)

(* What a slot on these GPUs starts with: they decide its TP and devices,  *)
(* and SGLang listens on its own port if no other one is given.            *)
Launch(preset, gpus, sglang) ==
    LET m == Overlaid(preset)
    IN ApplyAliases([m EXCEPT ![TpKey] = gpus.tp, ![DeviceKey] = gpus.devices,
                              ![PortKey] = IF sglang /\ @ = Absent THEN m[SglangPort] ELSE @],
                    VllmChains)

-----------------------------------------------------------------------------
(* Writes, as functions of the database                                    *)

(* Mutant: the flag of an existing row is kept, and a new one has none.    *)
UpsertUnflagged(d, k, v) == [d EXCEPT !.row[k] = v]

Upsert(d, k, v) ==
    [d EXCEPT !.row[k] = v, !.secret = IF k \in SecretKeys THEN @ \cup {k} ELSE @ \ {k}]
Delete(d, S) == [d EXCEPT !.row = Without(@, S), !.secret = @ \ S]

Plain(d)  == Without(d.row, d.secret)
Secret(d) == Without(d.row, Keys \ d.secret)
(* merge_partial_secrets: a value that is the mask keeps the old one.      *)
MergeSecrets(m, k, v) == [m EXCEPT ![k] = IF v = Mask THEN @ ELSE v]

(* Steps of migrate_stack_params_to_canonical_if_needed on d, as far as    *)
(* they go by what has been read before, `seen`.                           *)
MoveLite(d, seen) ==
    IF seen.lite = Absent THEN d
    ELSE [(IF IsSet(seen.lite) /\ ~IsSet(Secret(seen)[LiteKey])
             THEN Upsert(d, LiteKey, seen.lite) ELSE d) EXCEPT !.lite = Absent]
Obsolete(d) == Present(Plain(d)) \cap (Dropped \cup PresetOnly)
Legacy(d)   == Present(Plain(d)) \cap LegacyKeys

(* Mutant: the rows of the old names go, their values with them.           *)
RewriteOnlyDeletes(d, seen) == Delete(d, Legacy(seen))

Rewrite(d, seen) ==
    LET shown == Presentation(Plain(seen))
        new   == Present(shown)
    IN IF Legacy(seen) = {} THEN d
       ELSE Delete([d EXCEPT !.row = [k \in Keys |-> IF k \in new THEN shown[k] ELSE @[k]],
                             !.secret = (@ \ new) \cup (new \cap SecretKeys)],
                   Legacy(seen))

(* What is left of a migration when a transaction is open.                 *)
MigrateFrom(d) == Rewrite(d, d)
Migrate(d)     == MigrateFrom(Delete(MoveLite(d, d), Obsolete(d)))

-----------------------------------------------------------------------------
Init == /\ \E old \in Olds : row = old.row /\ lite = old.lite /\ installed = old.installed
        /\ secret = Present(row) \cap SecretKeys
        /\ pc = [r \in Requests |-> "idle"]
        /\ ask = [r \in Requests |-> NoAsk]
        /\ snap = [r \in Requests |-> NoDb]
        /\ raced = [r \in Requests |-> FALSE]
        /\ masked = {} /\ ops = 0 /\ restarts = 0

Op == ops < MaxOps /\ ops' = ops + 1
Goto(r, p) == pc' = [pc EXCEPT ![r] = p]
Keep == UNCHANGED <<row, secret, lite, installed, masked>>

Begins(r, p, a) == /\ pc[r] = "idle"
                   /\ Goto(r, p)
                   /\ ask' = [ask EXCEPT ![r] = a]
                   /\ UNCHANGED restarts
Reads(r) == snap' = [snap EXCEPT ![r] = db] /\ raced' = [raced EXCEPT ![r] = FALSE]
Ends(r)  == /\ Goto(r, "idle")
            /\ ask' = [ask EXCEPT ![r] = NoAsk]
            /\ snap' = [snap EXCEPT ![r] = NoDb]

(* The request's transaction leaves d behind.                              *)
Commits(r, d) ==
    /\ row' = d.row /\ secret' = d.secret /\ lite' = d.lite
    /\ Ends(r)
    /\ raced' = [q \in Requests |-> q # r /\ (raced[q] \/ (pc[q] # "idle" /\ d # db))]
    /\ UNCHANGED <<ops, restarts>>

(* A unique key or a row that changed under the request, or 30 seconds     *)
(* without the writer's lock: everything is rolled back.                   *)
Fails(r) == /\ pc[r] # "idle"
            /\ Ends(r) /\ raced' = [raced EXCEPT ![r] = FALSE]
            /\ Keep /\ UNCHANGED <<ops, restarts>>

(* GET /app-config/stack and /app-config/missing                           *)
Get(r) == /\ Begins(r, "migrate", NoAsk)
          /\ Keep /\ UNCHANGED <<snap, raced, ops>>

(* PATCH /app-config/stack: only the section of the secrets knows the mask *)
(* a GET has shown.                                                        *)
PatchStack(r, k, v) ==
    /\ Op /\ Begins(r, "patch", [part |-> "stack", key |-> k, value |-> v])
    /\ Keep /\ UNCHANGED <<snap, raced>>
PatchSecrets(r, k, v) ==
    /\ Op /\ Begins(r, "patch", [part |-> "secrets", key |-> k, value |-> v])
    /\ Reads(r)
    /\ Keep

PatchStackWrites(r) ==
    LET k == ask[r].key
        v == ask[r].value
        d == IF v = Absent THEN Delete(db, {k}) ELSE Upsert(db, k, v)
    IN /\ pc[r] = "patch" /\ ask[r].part = "stack"
       /\ \/ /\ v = Absent \/ d # db
             /\ Commits(r, Migrate(d)) /\ UNCHANGED installed
             /\ masked' = IF v = Mask THEN masked \cup {k} ELSE masked
          \/ /\ v # Absent /\ d = db   \* nothing to write, so no transaction
             /\ Goto(r, "migrate")
             /\ Keep /\ UNCHANGED <<ask, snap, raced, ops, restarts>>

(* All rows of secrets are deleted and written again.                      *)
PatchSecretsWrites(r) ==
    LET new == MergeSecrets(Secret(snap[r]), ask[r].key, ask[r].value) IN
    /\ pc[r] = "patch" /\ ask[r].part = "secrets"
    /\ Present(new) \cap Present(Plain(db)) = {}
    /\ Commits(r, Migrate([db EXCEPT !.row = [k \in Keys |-> IF k \in Present(new) THEN new[k]
                                                            ELSE Plain(db)[k]],
                                     !.secret = Present(new)]))
    /\ UNCHANGED <<installed, masked>>

(* The migration of a request without a transaction: the first reads ...   *)
ReadFirst(r) ==
    /\ pc[r] = "migrate"
    /\ Goto(r, IF lite # Absent \/ Obsolete(db) # {} THEN "tidy" ELSE "reread")
    /\ Reads(r)
    /\ Keep /\ UNCHANGED <<ask, ops, restarts>>
(* ... which may lead to writes and so to a transaction for the rest ...   *)
Tidy(r) ==
    /\ pc[r] = "tidy"
    /\ LET moved == MoveLite(db, snap[r])
           seen  == IF snap[r].lite = Absent THEN snap[r] ELSE moved
       IN Commits(r, MigrateFrom(Delete(moved, Obsolete(seen))))
    /\ UNCHANGED <<installed, masked>>
(* ... or else to another read before the first write.                     *)
ReadAgain(r) ==
    /\ pc[r] = "reread"
    /\ IF Legacy(db) = {}
         THEN Ends(r) /\ raced' = [raced EXCEPT ![r] = FALSE]
         ELSE Goto(r, "rewrite") /\ Reads(r) /\ UNCHANGED ask
    /\ Keep /\ UNCHANGED <<ops, restarts>>
RewriteRows(r) ==
    /\ pc[r] = "rewrite"
    /\ Commits(r, Rewrite(db, snap[r]))
    /\ UNCHANGED <<installed, masked>>

(* POST /app-config/install                                                *)
Install(r, force) ==
    /\ ~installed \/ force
    /\ Op /\ Begins(r, "install", [part |-> "all"])
    /\ Keep /\ UNCHANGED <<snap, raced>>
InstallWrites(r) ==
    /\ pc[r] = "install"
    /\ \E m \in MainEnvs :
         Commits(r, [row |-> m, secret |-> Present(m) \cap SecretKeys, lite |-> lite])
    /\ installed' = TRUE /\ UNCHANGED masked

(* init_db of a new process: ensure_secret_flags_only.                     *)
Restart ==
    /\ restarts < MaxRestarts /\ restarts' = restarts + 1
    /\ secret' = Present(row) \cap SecretKeys
    /\ pc' = [r \in Requests |-> "idle"] /\ ask' = [r \in Requests |-> NoAsk]
    /\ snap' = [r \in Requests |-> NoDb] /\ raced' = [r \in Requests |-> FALSE]
    /\ UNCHANGED <<row, lite, installed, masked, ops>>

Next == \/ \E r \in Requests :
             \/ Get(r) \/ ReadFirst(r) \/ Tidy(r) \/ ReadAgain(r) \/ RewriteRows(r)
             \/ PatchStackWrites(r) \/ PatchSecretsWrites(r)
             \/ InstallWrites(r) \/ Fails(r)
             \/ \E force \in BOOLEAN : Install(r, force)
             \/ \E k \in PatchKeys :
                  \/ \E v \in PatchValues \cup {Empty, Mask, Absent} : PatchStack(r, k, v)
                  \/ \E v \in PatchValues \cup {Mask, Absent} : PatchSecrets(r, k, v)
        \/ Restart

Spec == Init /\ [][Next]_vars

-----------------------------------------------------------------------------
(* Every variable has its type, and a flag is the flag of a row.           *)
TypeOK ==
    /\ row \in [Keys -> Stored] /\ secret \subseteq Present(row)
    /\ lite \in Stored /\ installed \in BOOLEAN
    /\ pc \in [Requests -> {"idle", "patch", "migrate", "tidy", "reread", "rewrite", "install"}]
    /\ \A r \in Requests : /\ snap[r].row \in [Keys -> Stored]
                           /\ snap[r].secret \subseteq Present(snap[r].row)
                           /\ ask[r].part \in {"none", "stack", "secrets", "all"}
                           /\ pc[r] = "idle" => ask[r] = NoAsk
    /\ raced \in [Requests -> BOOLEAN] /\ masked \subseteq Keys
    /\ ops \in 0..MaxOps /\ restarts \in 0..MaxRestarts

(* GET shows rows without the flag as they are: none of them is a secret,  *)
(* whichever section of a PATCH, migration or file has brought it.  And    *)
(* the mask takes the place of a secret only when a PATCH has written it   *)
(* in its stack section, which stores what it is given: never by a PATCH   *)
(* of the secrets, a migration or a request that went by an old read.      *)
SecretsAreFlagged ==
    /\ TypeOK
    /\ Present(row) \cap SecretKeys \subseteq secret
    /\ \A k \in SecretKeys : row[k] = Mask => k \in masked

(* What readers get for a canonical key: sync_merged_flat, and for images  *)
(* monitoring_image.                                                       *)
Effective(k) == IF \E c \in ImageChains : c[1] = k
                  THEN Coalesce(Merged, CHOOSE c \in ImageChains : c[1] = k)
                  ELSE Merged[k]
Readable == Keys \ (LegacyKeys \cup PresetOnly \cup Dropped)
(* The keys a request is about: one key and the other names of it.         *)
Asked(r) == IF ask[r].part = "none" THEN {}
            ELSE IF ask[r].part = "all" THEN Keys
            ELSE {ask[r].key} \cup UNION {{c[i] : i \in DOMAIN c} : c \in
                     {d \in Chains : \E i \in DOMAIN d : d[i] = ask[r].key}}

(* Whatever a GET or PATCH moves, renames, deletes and writes again, what  *)
(* readers get for the keys it does not name stays, if nobody else commits *)
(* between its reads and its writes.                                       *)
WritesOnlyWhatIsAsked ==
    [][\A r \in Requests :
         ~raced[r] /\ pc[r] # "idle" /\ pc'[r] = "idle" =>
           \A k \in Readable \ Asked(r) :
             IsSet(Effective(k)) => Effective(k)' = Effective(k)]_vars

(* The stack has a value under one of the names of c that are its own.     *)
InStack(c) == \E i \in DOMAIN c : c[i] \notin PresetOnly /\ IsSet(row[c[i]])

(* A slot that may start has what its preset sets, but for TP and devices, *)
(* which are those of its GPUs.  The keys every preset has to have come    *)
(* from it alone.  What it sets under an old name decides too, unless the  *)
(* stack has a name of the same chain.  A key that belongs to the preset   *)
(* never comes from the stack, except under an old name in a row that no   *)
(* GET or PATCH has migrated yet.                                          *)
PresetDecides ==
    \A p \in Presets, gpus \in GpuLists, sglang \in BOOLEAN : MayLaunch(p) =>
        LET env == Launch(p, gpus, sglang) IN
        /\ env[TpKey] = gpus.tp /\ env[DeviceKey] = gpus.devices
        /\ \A k \in Required : IsSet(p[k])
        /\ \A k \in Keys \ {TpKey, DeviceKey} :
             /\ IsSet(p[k]) => env[k] = p[k]
             /\ k \in PresetOnly /\ IsSet(env[k]) =>
                  \/ IsSet(p[k])
                  \/ \E c \in VllmChains : c[1] = k /\ \E i \in 2..Len(c) :
                        IsSet(p[c[i]]) \/ IsSet(row[c[i]])
        /\ \A c \in VllmChains :
             (\E i \in DOMAIN c : IsSet(p[c[i]])) /\ ~InStack(c) =>
                 \E i \in DOMAIN c : IsSet(p[c[i]]) /\ env[c[1]] = p[c[i]]
=============================================================================
