----------------------------- MODULE PresetStore -----------------------------
(***************************************************************************)
(* services/presets.py and api/v1/presets.py: presets as rows of the       *)
(* database and as files of the presets directory (services/env_files.py), *)
(* and what a slot reads of them (services/preset_db_sync.py).             *)
(*                                                                         *)
(* A request reads its rows outside any transaction and may be overtaken   *)
(* before it writes; then it takes SQLite's write lock and holds it to its *)
(* commit, so write and commit are one step.  The ORM writes the columns   *)
(* that changed against what was read.  Files are written before that.     *)
(*                                                                         *)
(* TP stands for the columns a preset has for keys of its file (MODEL_ID   *)
(* and SERVED_MODEL_NAME are treated alike), RT for a key of _RUNTIME_KEYS *)
(* that the stack can have too (as MAX_NUM_SEQS) and its SLGPU_ name of    *)
(* old releases, and `other` for keys outside _RUNTIME_KEYS.  SQLite may   *)
(* give the id of a deleted row to the next one, so a preset is known by   *)
(* its name.                                                               *)
(***************************************************************************)
EXTENDS Naturals, FiniteSets

CONSTANTS Names,        \* names of presets
          Reqs,         \* requests at work at one time
          NoPreset, NoFile, Unset,
          MaxRequests,  \* bound: requests of a behaviour
          MaxFailures   \* bound: requests that fail before their commit

TPs    == {"2", "8"}
(* "quoted" has a blank and a double quote in it, "escaped" is the same    *)
(* with a backslash before the quote.                                      *)
Texts  == {"plain", "quoted", "escaped"}
(* The presets and the texts of files there can be.                        *)
PresetRows == [tp : TPs \cup {Unset}, path : BOOLEAN, synced : BOOLEAN,
               params : [rt : Texts \cup {Unset}, oldRt : Texts \cup {Unset},
                         tp : TPs \cup {Unset}, other : BOOLEAN]]
FileTexts  == [tp : TPs \cup {Unset}, rt : Texts \cup {Unset}]

ASSUME PresetStoreAssumption ==
    /\ NoPreset \notin PresetRows /\ NoFile \notin FileTexts /\ Unset \notin TPs \cup Texts
    /\ MaxRequests \in Nat /\ MaxFailures \in Nat

NoParams == [rt |-> Unset, oldRt |-> Unset, tp |-> Unset, other |-> FALSE]
(* What the stack may say of RT.                                           *)
Stacks   == Texts \cup {Unset}

VARIABLES
    rows,     \* presets: [tp, params, path, synced] or NoPreset
    files,    \* <name>.env: [tp, rt], or NoFile
    request,  \* per request: what it does, what it read, how far it is
    reason,   \* history: per preset, why its row may differ from its file
    bypassed, \* history: presets a request without a say in it has changed
    asked, failures

presetVars == <<rows, files, request, reason, bypassed, asked, failures>>

Idle == [op |-> "none", at |-> "idle", name |-> Unset, arg |-> Unset,
         seen |-> Unset, texts |-> Unset, overtaken |-> {}]
Ops  == {"none", "get", "create", "clone", "import", "install", "patch", "export", "delete"}

-----------------------------------------------------------------------------
(* Mutant: parameters under old names are filtered out before the aliases. *)
PresentationDropsOld(params) == [NoParams EXCEPT !.rt = params.rt]

(* presentation_preset_parameters: canonical names only, the new name wins *)
(* and other keys go, those of the columns too.                            *)
PresentationParams(params) ==
    [NoParams EXCEPT !.rt = IF params.rt # Unset THEN params.rt ELSE params.oldRt]

(* The migration looks at rows with an old name or the key of a column.    *)
Due(row) == row # NoPreset /\ (row.params.oldRt # Unset \/ row.params.tp # Unset)

(* Mutant: TP leaves the parameters without a look at the column.          *)
MigratedForgetsTp(row) ==
    IF ~Due(row) THEN row ELSE [row EXCEPT !.params = PresentationParams(@)]

(* migrate_preset_parameters_to_canonical_if_needed, one row.              *)
Migrated(row) ==
    IF ~Due(row) THEN row
    ELSE [row EXCEPT !.tp = IF @ = Unset THEN row.params.tp ELSE @,
                     !.params = PresentationParams(@)]

(* load_preset_flat_from_db_sync, and in merge_llm_stack_env the stack     *)
(* under it and the aliases after it: what a slot of the preset starts     *)
(* with, up to the count of its GPUs that then takes the place of TP.      *)
LaunchOf(row, stack) ==
    [tp    |-> IF row.tp # Unset THEN row.tp ELSE row.params.tp,
     rt    |-> IF row.params.rt # Unset THEN row.params.rt
               ELSE IF stack # Unset THEN stack ELSE row.params.oldRt,
     other |-> row.params.other]

(* The preset's value has an old name, and the stack's own wins over it.   *)
Hidden(row, stack) == row.params.rt = Unset /\ row.params.oldRt # Unset /\ stack # Unset

(* Slots start with the same before and after a rewriting, on any stack:   *)
(* but a value under an old name gets the name of today, which is heard    *)
(* over the stack's, and then the keys outside the list go.                *)
SameLaunch(row, new) ==
    \A stack \in Stacks :
        LET now == LaunchOf(row, stack)
            then == LaunchOf(new, stack)
        IN /\ then.tp = now.tp
           /\ then.rt = IF Hidden(row, stack) THEN row.params.oldRt ELSE now.rt
           /\ then.other = now.other \/ (Due(row) /\ ~then.other)

(* preset_env_values and render_env_text, then parse_env_text: quotes that *)
(* were escaped stay escaped.                                              *)
Render(row) == [tp |-> row.tp, rt |-> PresentationParams(row.params).rt]
Parse(text) == [text EXCEPT !.rt = IF @ = "quoted" THEN "escaped" ELSE @]

(* A row as import_preset_from_env_text makes it of a text.                *)
FromText(text, synced) ==
    [tp |-> Parse(text).tp, params |-> [NoParams EXCEPT !.rt = Parse(text).rt],
     path |-> synced, synced |-> synced]

(* The UPDATE of a row that was read as `old` and shall be `new`.          *)
Update(row, old, new) ==
    [c \in DOMAIN row |-> IF new[c] # old[c] THEN new[c] ELSE row[c]]

-----------------------------------------------------------------------------
(* A preset of an old release, with its file, may be there.                *)
OldRow(tp, old) ==
    [tp |-> tp, path |-> TRUE, synced |-> TRUE,
     params |-> IF old THEN [rt |-> Unset, oldRt |-> "plain", tp |-> "8", other |-> TRUE]
                ELSE [rt |-> "plain", oldRt |-> Unset, tp |-> Unset, other |-> TRUE]]
OldFile    == [tp |-> "8", rt |-> "plain"]

PresetInit ==
    /\ \E n \in Names, tp \in {Unset, "2"}, there, old \in BOOLEAN :
         /\ tp = Unset => old
         /\ rows = [m \in Names |-> IF m = n /\ there THEN OldRow(tp, old) ELSE NoPreset]
         /\ files = [m \in Names |-> IF m = n THEN OldFile ELSE NoFile]
         /\ reason = [m \in Names |-> IF m = n /\ there /\ tp = "2"
                                      THEN {"columns kept"} ELSE {}]
    /\ request = [r \in Reqs |-> Idle]
    /\ bypassed = {} /\ asked = 0 /\ failures = 0

(* A request is admitted and reads its rows; the ones that are refused     *)
(* (404, 409, 400) change nothing.                                         *)
Begin(r, op, n, arg) ==
    /\ request[r].at = "idle" /\ asked < MaxRequests
    /\ asked' = asked + 1
    /\ request' = [request EXCEPT ![r] = [op |-> op, at |-> "read", name |-> n, arg |-> arg,
                                          seen |-> rows, texts |-> files, overtaken |-> {}]]
    /\ UNCHANGED <<rows, files, reason, bypassed, failures>>

(* list_presets, get_preset and download_preset_env migrate every row.     *)
GetPreset(r) == \E n \in Names : rows[n] # NoPreset /\ Begin(r, "get", n, Unset)

CreatePreset(r, n) ==
    /\ rows[n] = NoPreset
    /\ \E tp \in TPs : Begin(r, "create", n, [tp |-> tp, rt |-> "quoted"])

Clone(r, n, base) ==
    /\ rows[n] = NoPreset /\ rows[base] # NoPreset
    /\ Begin(r, "clone", n, [tp |-> rows[base].tp, rt |-> PresentationParams(rows[base].params).rt])

(* import_preset_env: an uploaded text, with overwrite when the row is     *)
(* there; here a file of the directory that was downloaded before.         *)
ImportEnv(r, n) ==
    \E m \in Names : files[m] # NoFile /\ Begin(r, "import", n, files[m])

(* PATCH of a column or of the parameters.                                 *)
Patch(r, n) ==
    /\ rows[n] # NoPreset
    /\ \/ Begin(r, "patch", n, [tp |-> "2"])
       \/ Begin(r, "patch", n, [rt |-> "quoted"])

Export(r, n) == rows[n] # NoPreset /\ Begin(r, "export", n, Unset)

DeletePreset(r, n) ==
    /\ rows[n] # NoPreset
    /\ \E deleteFile \in BOOLEAN : Begin(r, "delete", n, deleteFile)

(* install_from_files holds the write lock by the time it gets to the      *)
(* presets: no commit of another request comes between read and write.     *)
InstallPresets(r) ==
    /\ \A q \in Reqs : request[q].op # "install"
    /\ Begin(r, "install", Unset, Unset)

-----------------------------------------------------------------------------
(* Requests at work on n learn (in `overtaken`) that n was changed.        *)
Overtake(r, ns) ==
    [q \in Reqs |-> IF q # r /\ request[q].at # "idle"
                    THEN [request[q] EXCEPT !.overtaken = @ \cup ns] ELSE request[q]]

(* export_preset_to_file writes the file, delete_preset unlinks it if the  *)
(* row names one, both before their row is written.                        *)
WriteFile(r) ==
    LET q == request[r] IN
    /\ q.at = "read" /\ q.op = "export"
    /\ files' = [files EXCEPT ![q.name] = Render(Migrated(q.seen[q.name]))]
    /\ request' = [Overtake(r, {q.name}) EXCEPT ![r].at = "filed"]
    /\ UNCHANGED <<rows, reason, bypassed, asked, failures>>

UnlinkFile(r) ==
    LET q == request[r] IN
    /\ q.at = "read" /\ q.op = "delete"
    /\ files' = IF q.arg /\ q.seen[q.name].path
                THEN [files EXCEPT ![q.name] = NoFile] ELSE files
    /\ request' = [Overtake(r, {q.name}) EXCEPT ![r].at = "filed"]
    /\ UNCHANGED <<rows, reason, bypassed, asked, failures>>

-----------------------------------------------------------------------------
(* Mutant: the row keeps its file.                                         *)
PatchedKeepsFile(row, arg) ==
    [row EXCEPT !.tp = IF "tp" \in DOMAIN arg THEN arg.tp ELSE @,
                !.params = IF "rt" \in DOMAIN arg THEN [NoParams EXCEPT !.rt = arg.rt] ELSE @]

(* update_preset: the named fields; the file is no longer the row's.       *)
Patched(row, arg) ==
    [row EXCEPT !.path = FALSE, !.synced = FALSE,
                !.tp = IF "tp" \in DOMAIN arg THEN arg.tp ELSE @,
                !.params = IF "rt" \in DOMAIN arg THEN [NoParams EXCEPT !.rt = arg.rt] ELSE @]

(* What the request makes of row n, and of the columns it has read.        *)
Target(q, n) ==
    LET old == q.seen[n]
        own == n = q.name
    IN CASE q.op = "get" -> Migrated(old)
         [] q.op = "export" -> IF own THEN [Migrated(old) EXCEPT !.path = TRUE, !.synced = TRUE]
                               ELSE Migrated(old)
         [] q.op = "patch" /\ own -> Patched(old, q.arg)
         [] q.op \in {"create", "clone"} /\ own ->
              [tp |-> q.arg.tp, params |-> [NoParams EXCEPT !.rt = q.arg.rt],
               path |-> FALSE, synced |-> FALSE]
         [] q.op = "import" /\ own -> FromText(q.arg, FALSE)
         [] q.op = "delete" /\ own -> NoPreset
         [] OTHER -> old

(* import_files_into_db, one file: a row that is there keeps its columns.  *)
Imported(row, text) ==
    CASE text = NoFile -> row
      [] text # NoFile /\ row = NoPreset -> FromText(text, TRUE)
      [] OTHER -> [row EXCEPT !.params = [NoParams EXCEPT !.rt = Parse(text).rt],
                              !.path = TRUE, !.synced = TRUE]

(* An UPDATE finds its row gone, or an INSERT its name taken.              *)
Conflict(q) ==
    \E n \in Names : q.seen[n] # Target(q, n) /\ q.op # "delete" /\ q.op # "install"
                     /\ ((q.seen[n] = NoPreset) # (rows[n] = NoPreset))

Written(q) ==
    [n \in Names |->
       CASE q.op = "install" -> Imported(rows[n], q.texts[n])
         [] q.op # "install" /\ (NoPreset \in {q.seen[n], Target(q, n)}) ->
              IF q.seen[n] = Target(q, n) THEN rows[n] ELSE Target(q, n)
         [] q.op # "install" /\ NoPreset \notin {q.seen[n], Target(q, n)} ->
              IF rows[n] = NoPreset THEN NoPreset ELSE Update(rows[n], q.seen[n], Target(q, n))]

(* Why n may differ from its file when the row was changed as in Written.  *)
ReasonAfter(q, n, row) ==
    IF row = NoPreset \/ ~row.synced THEN {}
    ELSE (IF q.op = "export" /\ n = q.name THEN {} ELSE reason[n])
         \cup (IF n \in q.overtaken THEN {"overtaken"} ELSE {})
         \cup (IF q.op = "install" /\ q.texts[n] # NoFile /\ rows[n] # NoPreset
               THEN {"columns kept"} ELSE {})
         \cup (IF q.op = "install" /\ q.texts[n] # NoFile /\ q.texts[n].rt = "quoted"
               THEN {"quotes escaped"} ELSE {})

Commit(r) ==
    LET q == request[r]
        new == Written(q)
        changed == {n \in Names : new[n] # rows[n]}
    IN /\ q.at = (IF q.op \in {"export", "delete"} THEN "filed" ELSE "read")
       /\ ~Conflict(q)
       /\ \A o \in Reqs \ {r} : request[o].op # "install"
       /\ rows' = new
       /\ reason' = [n \in Names |-> ReasonAfter(q, n, new[n])]
       /\ bypassed' = bypassed \cup
            {n \in changed : /\ q.op \in {"get", "export"} /\ n \notin q.overtaken
                             /\ rows[n] # NoPreset /\ ~SameLaunch(rows[n], new[n])}
       /\ request' = [Overtake(r, changed) EXCEPT ![r] = Idle]
       /\ UNCHANGED <<files, asked, failures>>

(* The request is rolled back: a conflict, a locked database, a stop of    *)
(* the process.  What it did to the file stays.                            *)
Fail(r) ==
    LET q == request[r] IN
    /\ q.at # "idle" /\ (Conflict(q) \/ failures < MaxFailures)
    /\ failures' = IF Conflict(q) THEN failures ELSE failures + 1
    /\ request' = [request EXCEPT ![r] = Idle]
    /\ reason' = IF q.at = "filed" /\ rows[q.name] # NoPreset /\ rows[q.name].synced
                 THEN [reason EXCEPT ![q.name] = @ \cup {"file changed, row not"}] ELSE reason
    /\ UNCHANGED <<rows, files, bypassed, asked>>

PresetRequest(r) ==
    \/ GetPreset(r) \/ InstallPresets(r)
    \/ \E n \in Names : \/ CreatePreset(r, n) \/ ImportEnv(r, n) \/ Patch(r, n)
                        \/ Export(r, n) \/ DeletePreset(r, n)
                        \/ \E base \in Names : Clone(r, n, base)

PresetNext == \E r \in Reqs : \/ PresetRequest(r) \/ WriteFile(r) \/ UnlinkFile(r)
                              \/ Commit(r) \/ Fail(r)

PresetSpec == PresetInit /\ [][PresetNext]_presetVars

-----------------------------------------------------------------------------
PresetTypeOK ==
    /\ rows \in [Names -> PresetRows \cup {NoPreset}]
    /\ files \in [Names -> FileTexts \cup {NoFile}]
    /\ \A r \in Reqs : request[r].op \in Ops /\ request[r].at \in {"idle", "read", "filed"}
    /\ asked \in 0..MaxRequests /\ failures \in 0..MaxFailures

(* A preset shown as synced has a file, and on any stack a slot of the     *)
(* preset starts with what the file says, whatever else its parameters     *)
(* have that no file can say.  What the preset of an old release has under *)
(* an old name may lose to the stack, where the file's name of today would *)
(* not.  The columns differ only when the last import kept those of the    *)
(* row, the parameters only when it could not read back quotes; and both   *)
(* while a request has changed the file and not yet the row, after one     *)
(* failed there, or when requests on the preset overlapped.                *)
SyncedMatchesFile ==
    \A n \in Names : rows[n] # NoPreset /\ rows[n].synced =>
        \/ /\ files[n] # NoFile
           /\ \A stack \in Stacks :
                LET now == LaunchOf(rows[n], stack) IN
                /\ files[n].tp = now.tp \/ "columns kept" \in reason[n]
                /\ \/ (IF files[n].rt # Unset THEN files[n].rt ELSE stack) = now.rt
                   \/ Hidden(rows[n], stack) /\ now.rt = stack
                   \/ "quotes escaped" \in reason[n]
        \/ {"overtaken", "file changed, row not"} \cap reason[n] # {}
        \/ \E r \in Reqs : request[r].at = "filed" /\ request[r].name = n

(* Whatever the row holds, an old release's parameters included: a preset  *)
(* that is downloaded and imported again starts its slots with the same    *)
(* values on any stack, except one with a blank and a double quote in it,  *)
(* one under an old name that the stack has hidden until then, and what no *)
(* file can say.                                                           *)
DownloadKeepsLaunch ==
    \A n \in Names, stack \in Stacks : rows[n] # NoPreset =>
        LET now  == LaunchOf(rows[n], stack)
            back == LaunchOf(FromText(Render(Migrated(rows[n])), FALSE), stack)
            said == IF Hidden(rows[n], stack) THEN rows[n].params.oldRt ELSE now.rt
        IN /\ back.tp = now.tp /\ ~back.other
           /\ back.rt = said \/ (said = "quoted" /\ back.rt = "escaped")

(* Reading or exporting presets changes nothing a slot would start with,   *)
(* on any stack, unless another request committed between its read and its *)
(* write; but the rows of an old release with old names in them get those  *)
(* of today (SameLaunch says what that comes to).                          *)
ReadersChangeNothing == PresetTypeOK /\ bypassed = {}
=============================================================================
