------------------------------ MODULE ChatStore ------------------------------
(***************************************************************************)
(* The registry of indexed chats: the index_chats table, the two in-memory *)
(* caches that follow it (database/cache.go), the documents of the search  *)
(* engine, and the handlers that change them: the admin's bot commands     *)
(* (bot/add.go, watch.go, del.go, pub.go, ocr.go, sync_peers.go, apikey.go)*)
(* and the live updates of the user client (userclient/client.go,          *)
(* watch.go).                                                              *)
(*                                                                         *)
(* Every handler reads a whole row, edits its copy and saves the whole row *)
(* back, so a job in flight carries the copy it read, and a mark of whether *)
(* that copy is still what the table holds.  A row is the set of the       *)
(* boolean columns that are true in it; title, username and type are not   *)
(* told apart here, and pts is the business of module Catchup.             *)
(***************************************************************************)
EXTENDS FiniteSets, Naturals

CONSTANTS
  Channels,     \* chats that are channels or supergroups
  Privates,     \* private chats
  Msgs,         \* message ids
  BotProcs,     \* goroutines that run the admin's commands
  LiveProcs,    \* goroutines that run the user client's updates
  Commands,     \* the commands the admin uses besides /add, /del, /syncpeers
                \* and /watch of a new chat: FlagCommands, or "apikey"
  MaxInFlight,  \* how many handlers run at the same time; 1 is a serial run
  Faults,       \* a subset of FaultKinds: what may fail
  NoMsg,        \* a job that concerns no message
  Idle          \* a process that runs no handler

Chats == Channels \cup Privates
Procs == BotProcs \cup LiveProcs

Flags == {"watching", "nodelete", "noocr", "public"}
Rows  == SUBSET Flags
NoRow == {"absent"}  \* no such row

\* "read": the row cannot be read; "commit": the transaction of a Save fails
\* after its hook; "insert": the second statement of a Save fails; "delete":
\* the DELETE fails; "engine": the engine refuses to drop a chat; "crash": the
\* process stops.
FaultKinds == {"read", "commit", "insert", "delete", "engine", "crash"}

\* The column each command sets or clears in the row it read.
Sets   == [watch |-> "watching", unwatchdel |-> "nodelete",
           pub |-> "public", unocr |-> "noocr"]
Clears == [unwatch |-> "watching", watchdel |-> "nodelete",
           unpub |-> "public", ocr |-> "noocr"]
WatchCommands == {"watch", "unwatch", "watchdel", "unwatchdel"}
PubCommands   == {"pub", "unpub"}
OcrCommands   == {"ocr", "unocr"}
FlagCommands  == WatchCommands \cup PubCommands \cup OcrCommands

Ops == FlagCommands \cup
       {"add", "watchnew", "del", "peers", "pts", "message", "delete"}

\* Where a handler stands.  "save" and "insert" are the two statements of
\* UpsertIndexChat, "delhook" and "delrow" the two halves of DeleteIndexChat.
Phases == {"save", "insert", "import", "delhook", "delrow", "drop",
           "ptsget", "gate", "get", "member", "memberhook", "index",
           "purgeget", "purge"}

\* row: the copy to save; fresh: history, whether the table still holds what the
\* handler last read of it.
Jobs == [op: Ops, at: Phases, chat: Chats, row: Rows \cup {NoRow},
         msg: Msgs \cup {NoMsg}, fresh: BOOLEAN]

ASSUME DistinctAssumption ==
  /\ NoMsg \notin Msgs
  /\ Idle \notin Jobs
ASSUME ParameterAssumption ==
  /\ Commands \subseteq FlagCommands \cup {"apikey"}
  /\ Faults \subseteq FaultKinds
  /\ MaxInFlight \in Nat

VARIABLES
  rows,            \* the index_chats table
  watchedChatsID,  \* cache of the chats whose updates are handled
  allChatIDs,      \* cache of the chats that are indexed
  docs,            \* the documents the engine holds of each chat
  job,             \* what each process is doing
  told,            \* history: what the replies to the admin add up to
  torn,            \* history: chats whose statements overlapped or failed, or
                   \* whose cache was written past the table
  revived,         \* history: chats whose DELETE failed, until the next hook
  unsaid,          \* history: chats whose row was changed by a handler that
                   \* had not seen its last change, or without a reply
  left             \* history: chats that got or kept documents past their row

notes == <<told, unsaid, left>>
vars  == <<rows, watchedChatsID, allChatIDs, docs, job, torn, revived, notes>>
store == <<rows, watchedChatsID, allChatIDs, torn, revived>>

-----------------------------------------------------------------------------
(* Jobs *)

Free(p)   == job[p] = Idle
Busy(p)   == job[p] # Idle
At(p, ph) == Busy(p) /\ job[p].at = ph
Chat(p)   == job[p].chat

CanStart == Cardinality({p \in Procs : Busy(p)}) < MaxInFlight

NewJob(op, at, c, r, m) ==
  [op |-> op, at |-> at, chat |-> c, row |-> r, msg |-> m, fresh |-> TRUE]

Start(p, j) ==
  /\ Free(p) /\ CanStart
  /\ job' = [job EXCEPT ![p] = j]

\* A job goes on to a phase, with or without a use for the row that was read.
JobAt(j, ph)   == [j EXCEPT !.at = ph]
JobPast(j, ph) == [j EXCEPT !.at = ph, !.row = NoRow]

GoTo(p, ph) == job' = [job EXCEPT ![p] = JobAt(@, ph)]
Finish(p)   == job' = [job EXCEPT ![p] = Idle]

Pending(c, ph) == \E p \in Procs : At(p, ph) /\ Chat(p) = c

\* The job of q after the row of c has become r: what it read of it is stale.
Overtaken(q, c, r) ==
  IF Busy(q) /\ Chat(q) = c /\ r # rows[c] THEN [job[q] EXCEPT !.fresh = FALSE]
                                          ELSE job[q]

\* Process p writes the row of c and goes on as next.
Write(p, c, r, next) ==
  /\ rows' = [rows EXCEPT ![c] = r]
  /\ job' = [q \in Procs |-> IF q = p THEN next ELSE Overtaken(q, c, r)]

Edited(op, r) ==
  IF op \in DOMAIN Sets THEN r \cup {Sets[op]} ELSE r \ {Clears[op]}

-----------------------------------------------------------------------------
(* UpsertIndexChat: gorm's Save.                                           *)

\* Slips of the hook: one cache forgotten, or a chat never removed.
AfterSaveWatchedOnly(c, r) ==
  /\ watchedChatsID' = IF "watching" \in r THEN watchedChatsID \cup {c}
                                           ELSE watchedChatsID \ {c}
  /\ revived' = revived \ {c}
  /\ UNCHANGED allChatIDs

AfterSaveNeverUnwatches(c, r) ==
  /\ watchedChatsID' = watchedChatsID \cup {c}
  /\ allChatIDs' = allChatIDs \cup {c}
  /\ revived' = revived \ {c}

\* The hook that runs inside the UPDATE's transaction, even when the UPDATE
\* matched no row.
AfterSave(c, r) ==
  /\ watchedChatsID' = IF "watching" \in r THEN watchedChatsID \cup {c}
                                           ELSE watchedChatsID \ {c}
  /\ allChatIDs' = allChatIDs \cup {c}
  /\ revived' = revived \ {c}

\* A zero value in a column with a default is inserted as the default, and
\* watching defaults to true.
Inserted(r) == r \cup {"watching"}

\* Where a handler goes once its row is saved.
AfterSaved(j) ==
  CASE j.op = "add"     -> JobAt(j, "import")
    [] j.op = "pts"     -> JobPast(j, "gate")
    [] j.op = "message" -> JobPast(j, "member")
    [] OTHER            -> Idle

\* A failed Save: AddHandler rolls back, starting with the engine's documents;
\* the creating branch of WatchHandler drops them and leaves the caches alone;
\* live updates only log the error.
AfterSaveFailed(j) ==
  CASE j.op \in {"add", "watchnew"} -> JobAt(j, "drop")
    [] j.op = "pts"     -> JobPast(j, "gate")
    [] j.op = "message" -> JobPast(j, "member")
    [] OTHER            -> Idle

\* What a command's reply promises once its row is saved.
Confirm(op, c, r) ==
  told' = CASE op \in FlagCommands ->
                 [told EXCEPT ![c] = Edited(op, IF @ = NoRow THEN r ELSE @)]
            [] op \in {"add", "watchnew"} -> [told EXCEPT ![c] = r]
            [] OTHER -> told

\* The handler of job j wrote the row of c: it may undo what it has not seen,
\* and a message let through by a torn cache may undo an /unwatch.
NoteWrite(j, c) ==
  unsaid' = IF j.fresh /\ ~(j.op = "message" /\ c \in torn) THEN unsaid
                                                            ELSE unsaid \cup {c}

NoteOverlap(c, ph) ==
  torn' = IF Pending(c, ph) THEN torn \cup {c} ELSE torn

SaveUpdate(p) ==
  /\ At(p, "save")
  /\ LET c == Chat(p)
         r == job[p].row
     IN /\ AfterSave(c, r)
        /\ NoteOverlap(c, "delrow")
        /\ IF rows[c] # NoRow
             THEN /\ Write(p, c, r, AfterSaved(job[p]))
                  /\ Confirm(job[p].op, c, r)
                  /\ NoteWrite(job[p], c)
             ELSE /\ GoTo(p, "insert")
                  /\ UNCHANGED <<rows, told, unsaid>>
  /\ UNCHANGED <<docs, left>>

SaveInsert(p) ==
  /\ At(p, "insert")
  /\ LET c == Chat(p)
         r == job[p].row
     IN /\ Write(p, c, Inserted(r), AfterSaved(job[p]))
        /\ NoteOverlap(c, "delrow")
        /\ Confirm(job[p].op, c, r)
        /\ NoteWrite(job[p], c)
  /\ UNCHANGED <<watchedChatsID, allChatIDs, revived, docs, left>>

\* The UPDATE fails and nothing of it stays; or its transaction does, once the
\* hook has been run; or the INSERT does, long after it.
SaveFail(p) ==
  /\ \/ /\ At(p, "save")
        /\ UNCHANGED <<watchedChatsID, allChatIDs, revived, torn>>
     \/ /\ "commit" \in Faults
        /\ At(p, "save")
        /\ AfterSave(Chat(p), job[p].row)
        /\ torn' = torn \cup {Chat(p)}
     \/ /\ "insert" \in Faults
        /\ At(p, "insert")
        /\ torn' = torn \cup {Chat(p)}
        /\ UNCHANGED <<watchedChatsID, allChatIDs, revived>>
  /\ job' = [job EXCEPT ![p] = AfterSaveFailed(@)]
  /\ UNCHANGED <<rows, docs, notes>>

-----------------------------------------------------------------------------
(* DeleteIndexChat *)

\* Slip: the hook leaves the chat among the indexed ones.
BeforeDeleteWatchedOnly(c) ==
  /\ watchedChatsID' = watchedChatsID \ {c}
  /\ revived' = revived \ {c}
  /\ UNCHANGED allChatIDs

BeforeDelete(c) ==
  /\ watchedChatsID' = watchedChatsID \ {c}
  /\ allChatIDs' = allChatIDs \ {c}
  /\ revived' = revived \ {c}

\* DelHandler drops the documents next; AddHandler's rollback has already.
AfterDeleted(j) == IF j.op = "del" THEN JobAt(j, "drop") ELSE Idle

DeleteHook(p) ==
  /\ At(p, "delhook")
  /\ BeforeDelete(Chat(p))
  /\ NoteOverlap(Chat(p), "insert")
  /\ GoTo(p, "delrow")
  /\ UNCHANGED <<rows, docs, notes>>

\* The reply to /del speaks of whatever row there was; that of a failed /add
\* only of the row it wrote.
DeleteRow(p) ==
  /\ At(p, "delrow")
  /\ LET c == Chat(p)
     IN /\ Write(p, c, NoRow, AfterDeleted(job[p]))
        /\ IF job[p].op = "del" \/ job[p].fresh
             THEN told' = [told EXCEPT ![c] = NoRow]
             ELSE UNCHANGED told
        /\ unsaid' = CASE job[p].op = "del" -> unsaid \ {c}
                       [] job[p].fresh      -> unsaid
                       [] OTHER             -> unsaid \cup {c}
  /\ UNCHANGED <<watchedChatsID, allChatIDs, revived, torn, docs, left>>

\* The error path's rollback puts the chat into one of the two caches, whether
\* the hook has been run or not.
DeleteFail(p) ==
  /\ "delete" \in Faults
  /\ At(p, "delhook") \/ At(p, "delrow")
  /\ watchedChatsID' = watchedChatsID \cup {Chat(p)}
  /\ torn' = torn \cup {Chat(p)}
  /\ revived' = revived \cup {Chat(p)}
  /\ Finish(p)
  /\ UNCHANGED <<rows, allChatIDs, docs, notes>>

-----------------------------------------------------------------------------
(* The engine's side of a chat's removal                                   *)

AfterDropped(p) == IF job[p].op = "add" THEN GoTo(p, "delhook") ELSE Finish(p)

DropDocuments(p) ==
  /\ At(p, "drop")
  /\ docs' = [docs EXCEPT ![Chat(p)] = {}]
  /\ left' = left \ {Chat(p)}
  /\ AfterDropped(p)
  /\ UNCHANGED <<store, told, unsaid>>

DropFail(p) ==
  /\ "engine" \in Faults
  /\ At(p, "drop")
  /\ left' = left \cup {Chat(p)}
  /\ AfterDropped(p)
  /\ UNCHANGED <<store, docs, told, unsaid>>

\* A failed /add has dropped the documents of c and not yet deleted its row.
RollingBack(c) ==
  \E p \in Procs :
    /\ At(p, "delhook") \/ At(p, "delrow")
    /\ Chat(p) = c /\ job[p].op = "add"

\* The handler of p hands the engine a document of its chat, perhaps after the
\* row is gone, or after the rollback that takes it away has been past the engine.
AddDocuments(p, m) ==
  LET c == Chat(p)
  IN /\ docs' = [docs EXCEPT ![c] = @ \cup {m}]
     /\ left' = IF RollingBack(c) \/ (rows[c] = NoRow /\ ~job[p].fresh)
                  THEN left \cup {c} ELSE left

-----------------------------------------------------------------------------
(* The admin's commands *)

\* AddHandler takes any error of the read for an absent row.
BeginAdd(p, c) ==
  /\ rows[c] = NoRow \/ "read" \in Faults
  /\ Start(p, [NewJob("add", "save", c, {"watching"}, NoMsg)
                 EXCEPT !.fresh = (rows[c] = NoRow)])
  /\ UNCHANGED <<store, docs, notes>>

\* A batch of the history; a batch the engine refuses is logged and skipped.
ImportBatch(p, m) ==
  /\ At(p, "import")
  /\ AddDocuments(p, m)
  /\ UNCHANGED <<store, job, told, unsaid>>

ImportDone(p) ==
  /\ At(p, "import")
  /\ Finish(p)
  /\ UNCHANGED <<store, docs, notes>>

\* Slip: the rollback deletes the row and not the imported documents.
ImportFailRowOnly(p) ==
  /\ At(p, "import")
  /\ GoTo(p, "delhook")
  /\ UNCHANGED <<store, docs, notes>>

\* The history iterator fails: gerr is set and the deferred rollback runs.
ImportFail(p) ==
  /\ At(p, "import")
  /\ GoTo(p, "drop")
  /\ UNCHANGED <<store, docs, notes>>

\* /watch of a chat that has no row creates it without importing anything.
BeginWatchNew(p, c) ==
  /\ rows[c] = NoRow
  /\ Start(p, NewJob("watchnew", "save", c, {"watching"}, NoMsg))
  /\ UNCHANGED <<store, docs, notes>>

BeginFlag(p, c, cmd) ==
  /\ cmd \in FlagCommands
  /\ rows[c] # NoRow
  /\ Start(p, NewJob(cmd, "save", c, Edited(cmd, rows[c]), NoMsg))
  /\ UNCHANGED <<store, docs, notes>>

\* One chat of SyncPeers, which refreshes the names of every known channel.
BeginSyncPeers(p, c) ==
  /\ c \in Channels /\ rows[c] # NoRow
  /\ Start(p, NewJob("peers", "save", c, rows[c], NoMsg))
  /\ UNCHANGED <<store, docs, notes>>

BeginDel(p, c) ==
  /\ Start(p, NewJob("del", "delhook", c, NoRow, NoMsg))
  /\ UNCHANGED <<store, docs, notes>>

\* /addapikey and /setapikey name chats by their ids alone.  gorm saves the
\* chats of a key first: an INSERT that does nothing where there is a row, with
\* the columns' defaults, and the hook is run for it all the same.  The hook has
\* been run when the transaction of the key fails.
ScopeApiKey(c) ==
  /\ CanStart /\ "apikey" \in Commands
  /\ AfterSave(c, Inserted({}))
  /\ LET r == IF rows[c] = NoRow THEN Inserted({}) ELSE rows[c]
     IN \/ /\ rows' = [rows EXCEPT ![c] = r]
           /\ job' = [q \in Procs |-> Overtaken(q, c, r)]
           /\ torn' = IF Pending(c, "delrow") \/ "watching" \notin r
                        THEN torn \cup {c} ELSE torn
           /\ unsaid' = IF r = rows[c] THEN unsaid ELSE unsaid \cup {c}
        \/ /\ "commit" \in Faults
           /\ torn' = torn \cup {c}
           /\ UNCHANGED <<rows, job, unsaid>>
  /\ UNCHANGED <<docs, told, left>>

-----------------------------------------------------------------------------
(* Live updates of the user client.  Group 0 persists the channel's pts by *)
(* reading and saving its row; group 2 gates on the cache, then reads and  *)
(* saves the row again with watching forced on, then indexes the message.  *)

BeginMessage(p, c, m) ==
  /\ LET op == IF c \in Channels /\ c \in allChatIDs THEN "pts" ELSE "message"
     IN Start(p, NewJob(op, IF op = "pts" THEN "ptsget" ELSE "gate", c, NoRow, m))
  /\ UNCHANGED <<store, docs, notes>>

\* Slip: UpdateChannelPts saves a fresh row that holds the pts alone.
PtsGetBlank(p) ==
  /\ At(p, "ptsget")
  /\ job' = [job EXCEPT ![p].at = IF rows[Chat(p)] = NoRow THEN "gate" ELSE "save",
                        ![p].row = {},
                        ![p].fresh = TRUE]
  /\ UNCHANGED <<store, docs, notes>>

\* UpdateChannelPts reads the row, and gives up without one.
PtsGet(p) ==
  /\ At(p, "ptsget")
  /\ LET r == rows[Chat(p)]
     IN \/ /\ r # NoRow
           /\ job' = [job EXCEPT ![p].at = "save", ![p].row = r, ![p].fresh = TRUE]
        \/ /\ r = NoRow \/ "read" \in Faults
           /\ GoTo(p, "gate")
  /\ UNCHANGED <<store, docs, notes>>

\* Slip: the gate asks whether the chat is indexed.
WatchingIfIndexed(c) == c \in allChatIDs

Watching(c) == c \in watchedChatsID

\* The gate reads the cache, so what it lets through is fresh.
Gate(p) ==
  /\ At(p, "gate")
  /\ IF Watching(Chat(p))
       THEN job' = [job EXCEPT ![p].at = "get", ![p].op = "message", ![p].fresh = TRUE]
       ELSE Finish(p)
  /\ UNCHANGED <<store, docs, notes>>

\* Slip: the handler goes on without the row it could not read.
HandlerGetUnchecked(p) ==
  /\ At(p, "get")
  /\ job' = [job EXCEPT ![p].at = "save",
                        ![p].row = rows[Chat(p)] \cup {"watching"}]
  /\ UNCHANGED <<store, docs, notes>>

\* WatchHandler forces watching on: an unwatched chat is not expected here.  An
\* /unwatch since the gate is what it overlooks.
HandlerGet(p) ==
  /\ At(p, "get")
  /\ LET r == rows[Chat(p)]
     IN \/ /\ r # NoRow
           /\ job' = [job EXCEPT ![p].at = "save",
                                 ![p].row = r \cup {"watching"},
                                 ![p].fresh = @ \/ "watching" \in r]
        \/ /\ r = NoRow \/ "read" \in Faults
           /\ Finish(p)
  /\ UNCHANGED <<store, docs, notes>>

\* AddMemberToIndexChat reads the row once more; the sender may be a member
\* already, or the read fail.
MemberGet(p) ==
  /\ At(p, "member")
  /\ \/ GoTo(p, "index")
     \/ /\ rows[Chat(p)] # NoRow
        /\ job' = [job EXCEPT ![p].at = "memberhook", ![p].row = rows[Chat(p)]]
  /\ UNCHANGED <<store, docs, notes>>

\* gorm appends to an association by updating its owner, here without a column
\* to set: the hook is run on the row as it was read, and no row is written.
MemberHook(p) ==
  /\ At(p, "memberhook")
  /\ LET c == Chat(p)
         r == job[p].row
     IN /\ AfterSave(c, r)
        /\ torn' = IF \/ Pending(c, "delrow")
                      \/ rows[c] = NoRow
                      \/ ("watching" \in r) # ("watching" \in rows[c])
                    THEN torn \cup {c} ELSE torn
  /\ job' = [job EXCEPT ![p] = JobPast(@, "index")]
  /\ UNCHANGED <<rows, docs, notes>>

IndexMessage(p) ==
  /\ At(p, "index")
  /\ AddDocuments(p, job[p].msg)
  /\ Finish(p)
  /\ UNCHANGED <<store, told, unsaid>>

\* An ignored or unknown sender, or an engine that refuses the document.
SkipMessage(p) ==
  /\ At(p, "member") \/ At(p, "index")
  /\ Finish(p)
  /\ UNCHANGED <<store, docs, notes>>

\* An UpdateDeleteChannelMessages of a watched chat.
BeginDelete(p, c, m) ==
  /\ c \in Channels /\ Watching(c)
  /\ Start(p, NewJob("delete", "purgeget", c, NoRow, m))
  /\ UNCHANGED <<store, docs, notes>>

\* Slip: /unwatchdel is not looked at.
MayPurgeAny(r) == r # NoRow

MayPurge(r) == r # NoRow /\ "nodelete" \notin r

DeleteHandlerGet(p) ==
  /\ At(p, "purgeget")
  /\ \/ /\ MayPurge(rows[Chat(p)])
        /\ job' = [job EXCEPT ![p].at = "purge", ![p].fresh = TRUE]
     \/ /\ ~MayPurge(rows[Chat(p)]) \/ "read" \in Faults
        /\ Finish(p)
  /\ UNCHANGED <<store, docs, notes>>

PurgeMessage(p) ==
  /\ At(p, "purge")
  /\ docs' = [docs EXCEPT ![Chat(p)] = @ \ {job[p].msg}]
  /\ Finish(p)
  /\ UNCHANGED <<store, notes>>

-----------------------------------------------------------------------------
\* The process stops and InitDatabase rebuilds the caches from the table.
Restart ==
  /\ "crash" \in Faults
  /\ job' = [p \in Procs |-> Idle]
  /\ allChatIDs' = {c \in Chats : rows[c] # NoRow}
  /\ watchedChatsID' = {c \in Chats : rows[c] # NoRow /\ "watching" \in rows[c]}
  /\ torn' = {}
  /\ revived' = {}
  /\ left' = left \cup {c \in Chats : Pending(c, "drop")}
  /\ UNCHANGED <<rows, docs, told, unsaid>>

Init ==
  /\ rows = [c \in Chats |-> NoRow]
  /\ watchedChatsID = {}
  /\ allChatIDs = {}
  /\ docs = [c \in Chats |-> {}]
  /\ job = [p \in Procs |-> Idle]
  /\ told = rows
  /\ torn = {}
  /\ revived = {}
  /\ unsaid = {}
  /\ left = {}

Begin ==
  \E c \in Chats :
    \/ \E p \in BotProcs :
         \/ BeginAdd(p, c)
         \/ BeginWatchNew(p, c)
         \/ \E cmd \in Commands : BeginFlag(p, c, cmd)
         \/ BeginSyncPeers(p, c)
         \/ BeginDel(p, c)
    \/ \E p \in LiveProcs, m \in Msgs :
         \/ BeginMessage(p, c, m)
         \/ BeginDelete(p, c, m)

Step(p) ==
  \/ SaveUpdate(p) \/ SaveInsert(p) \/ SaveFail(p)
  \/ DeleteHook(p) \/ DeleteRow(p) \/ DeleteFail(p)
  \/ DropDocuments(p) \/ DropFail(p)
  \/ \E m \in Msgs : ImportBatch(p, m)
  \/ ImportDone(p) \/ ImportFail(p)
  \/ PtsGet(p) \/ Gate(p) \/ HandlerGet(p)
  \/ MemberGet(p) \/ MemberHook(p) \/ IndexMessage(p) \/ SkipMessage(p)
  \/ DeleteHandlerGet(p) \/ PurgeMessage(p)

Next ==
  \/ Begin
  \/ \E p \in Procs : Step(p)
  \/ \E c \in Chats : ScopeApiKey(c)
  \/ Restart

Spec == Init /\ [][Next]_vars

-----------------------------------------------------------------------------
(* Properties *)

LiveOps == {"pts", "message", "delete"}

\* Which handlers stand where, and what they hold there: a row to save, a message
\* to handle.
JobOK(j) ==
  /\ j.at \in {"save", "insert"} => j.op \notin {"del", "delete"}
  /\ j.at = "import" => j.op = "add"
  /\ j.at \in {"delhook", "delrow"} => j.op \in {"add", "del"}
  /\ j.at = "drop" => j.op \in {"add", "watchnew", "del"}
  /\ j.at = "ptsget" => j.op = "pts"
  /\ j.at = "gate" => j.op \in {"pts", "message"}
  /\ j.at \in {"get", "member", "memberhook", "index"} => j.op = "message"
  /\ j.at \in {"purgeget", "purge"} => j.op = "delete"
  /\ j.at \in {"save", "insert", "memberhook"} => j.row # NoRow
  /\ j.op \in LiveOps => j.msg # NoMsg

\* Every variable stays in its type.
TypeOK ==
  /\ rows \in [Chats -> Rows \cup {NoRow}]
  /\ watchedChatsID \subseteq Chats
  /\ allChatIDs \subseteq Chats
  /\ docs \in [Chats -> SUBSET Msgs]
  /\ job \in [Procs -> Jobs \cup {Idle}]
  /\ told \in [Chats -> Rows \cup {NoRow}]
  /\ torn \subseteq Chats
  /\ revived \subseteq Chats
  /\ unsaid \subseteq Chats
  /\ left \subseteq Chats
  /\ \A p \in Procs : Busy(p) => JobOK(job[p])

\* The two caches are kept under two locks by two hooks and an error path.  A
\* chat whose updates are handled is one that Indexed reports, or its channel pts
\* would no longer be persisted while its messages are indexed; only the error
\* path of DeleteIndexChat breaks this, until the next hook or restart.
WatchedAreIndexed == watchedChatsID \subseteq allChatIDs \cup revived

\* No statement of a Save or a delete of the chat is outstanding.
Settled(c) == ~Pending(c, "insert") /\ ~Pending(c, "delrow")

\* However stale the copies the handlers save, the cache behind Indexed and
\* AllChatIDs mirrors the table whenever no statement is outstanding, unless
\* the statements of a Save and a delete of that chat overlapped or one failed.
IndexedMirrorRows ==
  \A c \in Chats \ torn :
    Settled(c) => (c \in allChatIDs <=> rows[c] # NoRow)

\* Under the same condition the gate never lets a chat through whose row says
\* it is not watched: an /unwatch that reached the table reached the cache.
WatchedAreBacked ==
  \A c \in watchedChatsID \ torn :
    Settled(c) => rows[c] # NoRow /\ "watching" \in rows[c]

\* The inductive invariant behind the last two: what the caches and the table
\* say of one chat while statements are outstanding.
CachesAgree(c) ==
  /\ Pending(c, "delrow") => ~Pending(c, "insert") /\ c \notin allChatIDs
  /\ Pending(c, "insert") => c \in allChatIDs
  /\ c \in watchedChatsID => c \in allChatIDs
  /\ c \in allChatIDs => rows[c] # NoRow \/ Pending(c, "insert")
  /\ rows[c] # NoRow => c \in allChatIDs \/ Pending(c, "delrow")
  /\ c \in watchedChatsID /\ rows[c] # NoRow => "watching" \in rows[c]

\* The caches and the table agree on every chat that is not torn.
CacheInv == \A c \in Chats \ torn : CachesAgree(c)

\* The table says what the replies to the admin's commands add up to, through
\* live updates, name refreshes, failures and restarts; the caches do too, where
\* no statement is outstanding.  Only a handler that saves over a change it has
\* not seen, or a row that appears without a reply, may break it.
CommandsStick ==
  \A c \in Chats \ unsaid :
    /\ rows[c] = told[c]
    /\ c \notin torn /\ Settled(c) =>
         /\ c \in allChatIDs <=> told[c] # NoRow
         /\ c \in watchedChatsID <=> told[c] # NoRow /\ "watching" \in told[c]

\* The engine holds documents of registered chats only, or the handler that took
\* the row away is about to drop them: a search over all chats looks up the row of
\* each hit and fails without it.  What breaks it is a document handed in past the
\* row's removal, a drop the engine refuses, and a stop before it.
DocsHaveRows ==
  \A c \in Chats \ left :
    docs[c] # {} /\ rows[c] = NoRow => Pending(c, "drop")

\* A step of a handler of c in one of the phases, whose reading was overtaken.
StaleStep(c, phases) ==
  \E p \in Procs : \E ph \in phases :
    At(p, ph) /\ Chat(p) = c /\ ~job[p].fresh /\ (job'[p] = job[p] \/ Free(p)')

\* A chat under /unwatchdel loses no document to a deletion on Telegram: its
\* documents go only all at once, with /del or a failed /add, unless the handler of
\* the deletion had read the row before the command.
ProtectedDocuments ==
  [][\A c \in Chats \ unsaid :
       told[c] # NoRow /\ "nodelete" \in told[c] /\ ~(docs[c] \subseteq docs'[c])
         => (docs'[c] = {} /\ Pending(c, "drop")) \/ StaleStep(c, {"purge"})]_vars

\* Once the admin was told that a chat is unwatched it gains no document, unless
\* from a handler that had passed the gate, or begun to import, before.
UnwatchedGainNothing ==
  [][\A c \in Chats \ (torn \cup unsaid) :
       told[c] # NoRow /\ "watching" \notin told[c]
         => docs'[c] \subseteq docs[c] \/ StaleStep(c, {"index", "import"})]_vars

\* A chat that the admin was told is unwatched gains no document.
UnwatchedStayOut ==
  [][\A c \in Chats :
       told[c] # NoRow /\ "watching" \notin told[c] => docs'[c] \subseteq docs[c]]_vars

=============================================================================
