---------------------------- MODULE ConfigCache ----------------------------
(***************************************************************************)
(* One key of app_configs and the copies of it that processes keep         *)
(* (packages/config/runtime.py), with the routes that change it            *)
(* (admin_console.py, admin_system.py, admin_compliance.py, telegram.py)   *)
(* and the resolvers that read it (email.py, telegram.py,                  *)
(* oauth_google.py).  The row is one JSON value; set_config reads it,      *)
(* merges, writes, clears the copy of its own process and publishes, all   *)
(* before its caller commits.  A field holds the number of the edit that   *)
(* wrote it.  Encryption keeps a field's identity and is left out.         *)
(***************************************************************************)
EXTENDS Integers, FiniteSets, Processes

CONSTANTS
    Fields,     \* fields of the value
    Edits,      \* edits, numbered from 1
    Procs,      \* processes of the API, the worker and the scheduler
    Listeners,  \* the processes that run listen_invalidations: the worker
    Readers,    \* reads of the row that may be under way at a time
    ConfigTTL   \* _CACHE_TTL_SECONDS, in ticks

ASSUME ConfigAssumption == ConfigTTL \in Nat /\ None \notin Edits \union Procs

VARIABLES
    stored,     \* app_configs.value_json; the empty function while there is no row
    held,       \* the edit that has flushed and not committed: it locks the row
    edit,       \* edit[e]: how far an edit is
    cache,      \* cache[p]: None, or the row and the age of the copy of p
    reader,     \* reader[r]: a get_decrypted after its miss
    inbox,      \* listeners with a message waiting
    past,       \* history: rows that were replaced or rolled back, at most a TTL ago
    due,        \* history: the last committed edit that named a field
    overlapped  \* history: edits committed while another one had read the row

ccVars == <<stored, held, edit, cache, reader, inbox, past, due, overlapped>>

NoRow == [f \in {} |-> 0]
Rows == UNION {[D -> Edits] : D \in SUBSET Fields}
Copies == [row : Rows, age : 0..ConfigTTL, excused : BOOLEAN]

ASSUME CopyAssumption == None \notin Copies

NewEdit == [pc |-> "new", route |-> "update", proc |-> None, names |-> {}, whole |-> NoRow, value |-> NoRow, insert |-> FALSE]
EditOver == [NewEdit EXCEPT !.pc = "done"]
NoReader == [pc |-> "idle", proc |-> None, row |-> NoRow, age |-> 0, excused |-> FALSE]

CacheTypeOK ==
    /\ stored \in Rows /\ held \in Edits \union {None} /\ inbox \subseteq Listeners
    /\ edit \in [Edits -> [pc : {"new", "begun", "merged", "flushed", "done"}, route : {"update", "modify"}, proc : Procs \union {None},
                           names : SUBSET Fields, whole : Rows, value : Rows, insert : BOOLEAN]]
    /\ cache \in [Procs -> Copies \union {None}]
    /\ reader \in [Readers -> [pc : {"idle", "asked", "read"}, proc : Procs \union {None},
                               row : Rows, age : 0..ConfigTTL, excused : BOOLEAN]]
    /\ past \subseteq [row : Rows, age : 0..ConfigTTL]
    /\ due \in Rows /\ overlapped \subseteq Edits

CInit ==
    /\ stored = NoRow /\ held = None /\ inbox = {} /\ past = {} /\ due = NoRow /\ overlapped = {}
    /\ edit = [e \in Edits |-> NewEdit]
    /\ cache = [p \in Procs |-> None]
    /\ reader = [r \in Readers |-> NoReader]
-----------------------------------------------------------------------------
Fresh(p) == cache[p] # None /\ cache[p].age < ConfigTTL

\* An edit may lose what e commits if it has read the row before.
HasRead(e) == edit[e].pc = "merged" \/ (edit[e].pc = "begun" /\ edit[e].whole # NoRow)

EditBegins(e, p, route, names, whole) ==
    /\ edit[e].pc = "new"
    /\ edit' = [edit EXCEPT ![e] = [NewEdit EXCEPT !.pc = "begun", !.route = route, !.proc = p, !.names = names, !.whole = whole]]
    /\ UNCHANGED <<stored, held, cache, reader, inbox, past, due, overlapped>>

\* The routes that name the fields they write.  An empty secret is not named
\* and keeps its value.
UpdateSmtpConfig(e, p, names) == EditBegins(e, p, "update", names, NoRow)
UpdateGoogleConfig(e, p, names) == EditBegins(e, p, "update", names, NoRow)
UpdateTelegramConfig(e, p, names) == EditBegins(e, p, "update", names, NoRow)
UpdateMaintenance(e, p) == EditBegins(e, p, "update", Fields, NoRow)
UpdateAdminSecurity(e, p) == EditBegins(e, p, "update", Fields, NoRow)
UpdateRetention(e, p) == EditBegins(e, p, "update", Fields, NoRow)

\* The routes that take get_config's value, change a field and pass all of
\* it on; link_user_telegram does as link_telegram_chat.
UpdateFeatureFlag(e, p, f) == EditBegins(e, p, "modify", {f}, stored)
RegisterTelegramWebhook(e, p, f) == EditBegins(e, p, "modify", {f}, stored)
DeleteTelegramWebhook(e, p, f) == EditBegins(e, p, "modify", {f}, stored)
LinkTelegramChat(e, p, f) == EditBegins(e, p, "modify", {f}, stored)
UnlinkTelegramChat(e, p, f) == EditBegins(e, p, "modify", {f}, stored)
ConsumeLinkToken(e, p, f) == EditBegins(e, p, "modify", {f}, stored)

\* The fields of new over the ones of old.
Patch(new, old) == [f \in DOMAIN new \union DOMAIN old |-> IF f \in DOMAIN new THEN new[f] ELSE old[f]]

\* Mutant: the fields of the request replace the row.
MergedAlone(e, existing) == [f \in edit[e].names |-> e]
\* set_config: the fields it was given over the ones it has just read.
Merged(e, existing) == Patch(Patch([f \in edit[e].names |-> e], edit[e].whole), existing)

SetConfigRead(e) ==
    /\ edit[e].pc = "begun"
    /\ edit' = [edit EXCEPT ![e] = [@ EXCEPT !.pc = "merged", !.value = Merged(e, stored), !.insert = stored = NoRow]]
    /\ UNCHANGED <<stored, held, cache, reader, inbox, past, due, overlapped>>

\* Mutant: the process keeps its own copy.
ClearedNone(p, told) == [q \in Procs |->
    IF cache[q] # None /\ q # p /\ q \notin told THEN [cache[q] EXCEPT !.excused = TRUE] ELSE cache[q]]
\* invalidate(key): the copy of p goes.  A copy that no message will reach
\* is excused, and so is a read that is under way.
Cleared(p, told) == [q \in Procs |->
    IF q = p \/ cache[q] = None THEN IF q = p THEN None ELSE cache[q]
    ELSE IF q \in told THEN cache[q] ELSE [cache[q] EXCEPT !.excused = TRUE]]
ReadersExcused == [r \in Readers |->
    IF reader[r].pc = "read" THEN [reader[r] EXCEPT !.excused = TRUE] ELSE reader[r]]
\* publish: best effort, any of the listeners may miss it.
Announce(p) ==
    \E told \in SUBSET Listeners :
        /\ inbox' = inbox \union told
        /\ cache' = Cleared(p, inbox \union told)
        /\ reader' = ReadersExcused

\* The flush waits for the row; a second INSERT of the key fails.
SetConfigFlush(e) ==
    /\ edit[e].pc = "merged" /\ held = None /\ ~(edit[e].insert /\ stored # NoRow)
    /\ edit' = [edit EXCEPT ![e] = [@ EXCEPT !.pc = "flushed"]] /\ held' = e
    /\ Announce(edit[e].proc)
    /\ UNCHANGED <<stored, past, due, overlapped>>
SetConfigConflict(e) ==
    /\ edit[e].pc = "merged" /\ held = None /\ edit[e].insert /\ stored # NoRow
    /\ edit' = [edit EXCEPT ![e] = EditOver]
    /\ UNCHANGED <<stored, held, cache, reader, inbox, past, due, overlapped>>

\* update_telegram_config: one more set_config, with the
\* name getMe answers.
SetConfigAgain(e, f) ==
    /\ edit[e].pc = "flushed" /\ edit[e].route = "update" /\ f \notin edit[e].names
    /\ edit' = [edit EXCEPT ![e] = [@ EXCEPT !.names = edit[e].names \union {f}, !.value = Patch([g \in {f} |-> e], edit[e].value)]]
    /\ Announce(edit[e].proc)
    /\ UNCHANGED <<stored, held, past, due, overlapped>>

\* telegram_webhook answers the chat before it commits: send_telegram reads
\* the configuration in the session that has changed it.
ReplyInSession(e) ==
    LET p == edit[e].proc IN
    /\ edit[e].pc = "flushed" /\ edit[e].route = "modify" /\ ~Fresh(p)
    /\ cache' = [cache EXCEPT ![p] = [row |-> edit[e].value, age |-> 0, excused |-> TRUE]]
    /\ UNCHANGED <<stored, held, edit, reader, inbox, past, due, overlapped>>

SetConfigCommit(e) ==
    /\ edit[e].pc = "flushed"
    /\ stored' = edit[e].value /\ held' = None
    /\ edit' = [edit EXCEPT ![e] = EditOver]
    /\ past' = past \union {[row |-> stored, age |-> 0]}
    /\ due' = Patch([f \in edit[e].names |-> e], due)
    /\ overlapped' = IF \E d \in Edits : HasRead(d) THEN overlapped \union {e} ELSE overlapped
    /\ UNCHANGED <<cache, reader, inbox>>

\* The request ends without its commit: an answer of the bot, the mail
\* server or the database it could not use.
EditFails(e) ==
    /\ edit[e].pc \in {"begun", "merged", "flushed"}
    /\ edit' = [edit EXCEPT ![e] = EditOver]
    /\ held' = IF held = e THEN None ELSE held
    /\ past' = IF held = e THEN past \union {[row |-> edit[e].value, age |-> 0]} ELSE past
    /\ UNCHANGED <<stored, cache, reader, inbox, due, overlapped>>
-----------------------------------------------------------------------------
\* get_decrypted: the time of the copy is the time of the miss, and the row
\* is read later.
Miss(r, p) ==
    /\ reader[r] = NoReader /\ ~Fresh(p)
    /\ reader' = [reader EXCEPT ![r] = [@ EXCEPT !.pc = "asked", !.proc = p]]
    /\ UNCHANGED <<stored, held, edit, cache, inbox, past, due, overlapped>>
\* The resolvers; each falls back to the settings when the row names no
\* host, token or client.
ResolveSmtp(r, p) == Miss(r, p)
ResolveTelegram(r, p) == Miss(r, p)
ResolveGoogleOauth(r, p) == Miss(r, p)
ReadRow(r) ==
    /\ reader[r].pc = "asked"
    /\ reader' = [reader EXCEPT ![r] = [@ EXCEPT !.pc = "read", !.row = stored, !.excused = held # None]]
    /\ UNCHANGED <<stored, held, edit, cache, inbox, past, due, overlapped>>
\* Mutant: the time of the copy is the time it is stored.
EntryLate(r) == [row |-> reader[r].row, age |-> 0, excused |-> reader[r].excused]
Entry(r) == [row |-> reader[r].row, age |-> reader[r].age, excused |-> reader[r].excused]
StoreEntry(r) ==
    /\ reader[r].pc = "read"
    /\ cache' = [cache EXCEPT ![reader[r].proc] = Entry(r)]
    /\ reader' = [reader EXCEPT ![r] = NoReader]
    /\ UNCHANGED <<stored, held, edit, inbox, past, due, overlapped>>

\* listen_invalidations.
Hear(p) ==
    /\ p \in inbox /\ inbox' = inbox \ {p} /\ cache' = [cache EXCEPT ![p] = None]
    /\ UNCHANGED <<stored, held, edit, reader, past, due, overlapped>>

\* cache_invalidate: the process that answers the request.
CacheInvalidate(p) ==
    /\ cache[p] # None /\ cache' = [cache EXCEPT ![p] = None]
    /\ UNCHANGED <<stored, held, edit, reader, inbox, past, due, overlapped>>

Older(n) == IF n < ConfigTTL THEN n + 1 ELSE ConfigTTL
CacheTick ==
    /\ cache' = [p \in Procs |-> IF cache[p] = None THEN None ELSE [cache[p] EXCEPT !.age = Older(cache[p].age)]]
    /\ reader' = [r \in Readers |-> IF reader[r] = NoReader THEN NoReader ELSE [reader[r] EXCEPT !.age = Older(reader[r].age)]]
    /\ past' = {[x EXCEPT !.age = x.age + 1] : x \in {y \in past : y.age < ConfigTTL}}
    /\ UNCHANGED <<stored, held, edit, inbox, due, overlapped>>

CNext ==
    \/ \E e \in Edits :
        \/ \E p \in Procs \ Listeners :
            \/ \E names \in SUBSET Fields \ {{}} :
                \/ UpdateSmtpConfig(e, p, names) \/ UpdateGoogleConfig(e, p, names)
                \/ UpdateTelegramConfig(e, p, names)
            \/ UpdateMaintenance(e, p) \/ UpdateAdminSecurity(e, p) \/ UpdateRetention(e, p)
            \/ \E f \in Fields :
                \/ UpdateFeatureFlag(e, p, f) \/ RegisterTelegramWebhook(e, p, f) \/ DeleteTelegramWebhook(e, p, f)
                \/ LinkTelegramChat(e, p, f) \/ UnlinkTelegramChat(e, p, f) \/ ConsumeLinkToken(e, p, f)
        \/ SetConfigRead(e) \/ SetConfigFlush(e) \/ SetConfigConflict(e)
        \/ \E f \in Fields : SetConfigAgain(e, f)
        \/ ReplyInSession(e) \/ SetConfigCommit(e) \/ EditFails(e)
    \/ \E r \in Readers :
        \/ \E p \in Procs : ResolveSmtp(r, p) \/ ResolveTelegram(r, p) \/ ResolveGoogleOauth(r, p)
        \/ ReadRow(r) \/ StoreEntry(r)
    \/ \E p \in Procs : Hear(p) \/ CacheInvalidate(p)
    \/ CacheTick

CSpec == CInit /\ [][CNext]_ccVars
-----------------------------------------------------------------------------
(* What a process serves was the stored row, or one that its own request   *)
(* had written and not committed, no longer ago than the copy is old: the  *)
(* "auto-expire after TTL" that the module relies on when a message is     *)
(* lost, with reads that take any time.                                    *)
ServedWasStored ==
    \A p \in Procs : Fresh(p) =>
        \/ cache[p].row = stored
        \/ held # None /\ cache[p].row = edit[held].value
        \/ \E x \in past : x.row = cache[p].row /\ x.age <= cache[p].age

(* A process that an edit has reached, by its own call or by a message it  *)
(* has handled, serves the current row, except for a copy it read between  *)
(* the flush and the commit, or had read when its copy was cleared.        *)
ReachedIsCurrent ==
    \A p \in Procs \ inbox : Fresh(p) /\ ~cache[p].excused => cache[p].row = stored

(* A committed change of a field stays until another edit names the field, *)
(* unless an edit that had read the row before it wrote it back.           *)
EditsKept ==
    \A f \in DOMAIN due : due[f] \notin overlapped => f \in DOMAIN stored /\ stored[f] = due[f]

\* What is served and stored is what was set (config/runtime.py).
ConfigHolds == CacheTypeOK /\ ServedWasStored /\ ReachedIsCurrent /\ EditsKept
=============================================================================
