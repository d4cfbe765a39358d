------------------------------ MODULE Migration ------------------------------
(***************************************************************************)
(* The migration to version 1 (cmd/migrate/v1.go): chat by chat, the       *)
(* documents of the old indexes are copied to the shared one.  In the      *)
(* background it runs beside the handlers that add and delete chats and    *)
(* save and delete documents; it can be killed, and started again.         *)
(***************************************************************************)
EXTENDS Engine

CONSTANTS
  Stores,   \* bound: what old indexes there may be to start from
  Busy,     \* bound: the chats of which live handlers save and delete
  Batch,    \* documents read at a time: 1000
  MaxLive,  \* bound: requests of live handlers
  MaxTasks, \* bound: they come while the engine has fewer tasks
  MaxRuns,  \* bound: runs of the migration
  NoChat    \* no chat is being copied, or added

ASSUME MigrationAssumption ==
  /\ Stores \subseteq [Chats -> Seq(Ids) \cup {Gone}] /\ Busy \subseteq Chats /\ Batch \in Nat \ {0}
  /\ MaxLive \in Nat /\ MaxTasks \in Nat /\ MaxRuns \in Nat
  /\ NoChat \notin Chats

VARIABLES
  rows,      \* allChatIDs: the indexed chats
  deleting,  \* those whose row /del has deleted, and their documents not yet
  copy,      \* the migration: how far it is, and its variables
  adding,    \* how far a handler's CreateIndex is, and the chat it adds
  owed,      \* history: documents from old indexes and from live handlers,
             \* but for those that a live handler has removed since
  prepared,  \* history: CreateIndex has succeeded
  lives,     \* counts the requests of live handlers
  runs       \* counts the runs of the migration

ghosts == <<owed, prepared>>
vars   == <<engine, rows, deleting, copy, adding, ghosts, lives, runs>>

Ended == {"idle", "done", "failed"}

\* chats are those that were there when the copying began, left those of them
\* that are not copied yet, offset counts the documents that have been read.
Copies ==
  [at : Ended \cup {"create", "settings", "list", "next", "page", "drop"}, drop : BOOLEAN,
   chats : SUBSET Chats, left : SUBSET Chats, chat : Chats \cup {NoChat},
   total : Nat, offset : Nat]

NoCopy ==
  [at |-> "idle", drop |-> FALSE, chats |-> {}, left |-> {}, chat |-> NoChat,
   total |-> 0, offset |-> 0]

-----------------------------------------------------------------------------
(* MigrateToV1 *)

Start(d) ==
  /\ copy.at \in Ended /\ runs < MaxRuns
  /\ runs' = runs + 1
  /\ copy' = [NoCopy EXCEPT !.at = "create", !.drop = d]
  /\ UNCHANGED <<engine, rows, deleting, adding, ghosts, lives>>

CreateNew ==
  /\ copy.at = "create" /\ Put(Create)
  /\ copy' = [copy EXCEPT !.at = "settings"]
  /\ UNCHANGED <<rows, deleting, adding, ghosts, lives, runs>>

ConfigureNew ==
  /\ copy.at = "settings" /\ Put(Settings)
  /\ copy' = [copy EXCEPT !.at = "list"]
  /\ UNCHANGED <<rows, deleting, adding, ghosts, lives, runs>>

AllChatIDs ==
  /\ copy.at = "list"
  /\ copy' = [copy EXCEPT !.at = "next", !.chats = rows, !.left = rows]
  /\ UNCHANGED <<engine, rows, deleting, adding, ghosts, lives, runs>>

\* A chat without documents is through at once.
Stats(c) ==
  /\ copy.at = "next" /\ c \in copy.left /\ old[c] # Gone
  /\ copy' = [copy EXCEPT !.at = IF Len(old[c]) = 0 THEN "drop" ELSE "page",
                          !.chat = c, !.total = Len(old[c]), !.offset = 0]
  /\ UNCHANGED <<engine, rows, deleting, adding, ghosts, lives, runs>>

Page == {i \in DOMAIN old[copy.chat] : copy.offset < i /\ i <= copy.offset + Batch}

\* A slip: the next page leaves a document out.
NextOffsetOver == copy.offset + Batch + 1

NextOffset == copy.offset + Batch

CopyPage ==
  /\ copy.at = "page" /\ old[copy.chat] # Gone /\ Page # {}
  /\ Put(Add({<<copy.chat, old[copy.chat][i]>> : i \in Page}))
  /\ copy' = [copy EXCEPT !.offset = NextOffset]
  /\ UNCHANGED <<rows, deleting, adding, ghosts, lives, runs>>

LastPage ==
  /\ copy.at = "page" /\ old[copy.chat] # Gone /\ Page = {} /\ copy.offset >= copy.total
  /\ copy' = [copy EXCEPT !.at = "drop"]
  /\ UNCHANGED <<engine, rows, deleting, adding, ghosts, lives, runs>>

\* That an old index cannot be dropped is only logged.
DropOld ==
  /\ copy.at = "drop"
  /\ IF copy.drop THEN PutOrNot(Drop(copy.chat)) ELSE UNCHANGED engine
  /\ copy' = [copy EXCEPT !.at = "next", !.left = @ \ {copy.chat}]
  /\ UNCHANGED <<rows, deleting, adding, ghosts, lives, runs>>

Completed ==
  /\ copy.at = "next" /\ copy.left = {}
  /\ copy' = [copy EXCEPT !.at = "done"]
  /\ UNCHANGED <<engine, rows, deleting, adding, ghosts, lives, runs>>

\* Any request may fail: an index is gone, a page is empty before its time, or
\* the engine cannot be reached, which may have heard the request.
CopyFail ==
  /\ \/ copy.at = "create" /\ PutOrNot(Create)
     \/ copy.at = "settings" /\ PutOrNot(Settings)
     \/ copy.at = "next" /\ copy.left # {} /\ UNCHANGED engine
     \/ copy.at = "page" /\ UNCHANGED engine
     \/ /\ copy.at = "page" /\ old[copy.chat] # Gone
        /\ Put(Add({<<copy.chat, old[copy.chat][i]>> : i \in Page}))
  /\ copy' = [copy EXCEPT !.at = "failed"]
  /\ UNCHANGED <<rows, deleting, adding, ghosts, lives, runs>>

-----------------------------------------------------------------------------
(* CreateIndex, as /add calls it before it stores the chat's row.  A lock lets *)
(* one handler in at a time, and the migration does not take it.               *)

Live == lives < MaxLive /\ Len(tasks) < MaxTasks /\ lives' = lives + 1

Step(c, where) == adding' = [chat |-> c, at |-> where]

AddChat(c) ==
  /\ adding.at = "idle" /\ c \notin rows /\ Live
  /\ Step(c, "info")
  /\ UNCHANGED <<engine, rows, deleting, copy, ghosts, runs>>

\* Any failure is taken for an index that is not there.
FetchInfo ==
  /\ adding.at = "info"
  /\ \E where \in IF index = "absent" THEN {"create"} ELSE {"compare", "create"} :
       Step(adding.chat, where)
  /\ UNCHANGED <<engine, rows, deleting, copy, ghosts, lives, runs>>

CreateShared ==
  /\ adding.at = "create" /\ Put(Create) /\ Step(adding.chat, "update")
  /\ UNCHANGED <<rows, deleting, copy, ghosts, lives, runs>>

\* A slip: an index that is there is taken for one that is set up.
SettingsEqualAlways == TRUE

SettingsEqual == index = "ready"

Added ==
  /\ rows' = rows \cup {adding.chat} /\ prepared' = TRUE
  /\ Step(NoChat, "idle")
  /\ UNCHANGED <<deleting, copy, owed, lives, runs>>

Compare ==
  /\ adding.at = "compare"
  /\ \/ SettingsEqual /\ UNCHANGED engine /\ Added
     \/ /\ ~SettingsEqual /\ Step(adding.chat, "update")
        /\ UNCHANGED <<engine, rows, deleting, copy, ghosts, lives, runs>>

UpdateSettings == adding.at = "update" /\ Put(Settings) /\ Added

AddChatFail ==
  /\ \/ adding.at = "create" /\ PutOrNot(Create)
     \/ adding.at = "compare" /\ UNCHANGED engine
     \/ adding.at = "update" /\ PutOrNot(Settings)
  /\ Step(NoChat, "idle")
  /\ UNCHANGED <<rows, deleting, copy, ghosts, lives, runs>>

-----------------------------------------------------------------------------
(* The other requests of live handlers.  One that failed and was not heard      *)
(* changes nothing; one that AddDocuments repeats is like one more.             *)

AddDocuments(c, i) ==
  /\ c \in rows /\ Live
  /\ Put(Add({<<c, i>>})) /\ owed' = owed \cup {<<c, i>>}
  /\ UNCHANGED <<rows, deleting, copy, adding, prepared, runs>>

DeleteDocuments(c, i) ==
  /\ c \in rows /\ Live
  /\ Put(Remove({<<c, i>>})) /\ owed' = owed \ {<<c, i>>}
  /\ UNCHANGED <<rows, deleting, copy, adding, prepared, runs>>

\* /del: the row goes, and then the documents, unless the engine fails.
DeleteIndexChat(c) ==
  /\ c \in rows /\ Live
  /\ rows' = rows \ {c} /\ deleting' = deleting \cup {c}
  /\ UNCHANGED <<engine, copy, adding, ghosts, runs>>

DeleteIndex(c) ==
  /\ c \in deleting /\ deleting' = deleting \ {c}
  /\ \/ /\ Len(tasks) < MaxTasks
        /\ Put(Remove({c} \X Ids)) /\ owed' = owed \ ({c} \X Ids)
     \/ UNCHANGED <<engine, owed>>
  /\ UNCHANGED <<rows, copy, adding, prepared, lives, runs>>

\* The process ends.  The engine and its tasks live on.
Kill ==
  /\ copy.at \notin Ended \/ adding.at # "idle" \/ deleting # {}
  /\ copy' = [copy EXCEPT !.at = IF @ \in Ended THEN @ ELSE "failed"]
  /\ Step(NoChat, "idle") /\ deleting' = {}
  /\ UNCHANGED <<engine, rows, ghosts, lives, runs>>

Serve ==
  /\ Work
  /\ UNCHANGED <<rows, deleting, copy, adding, ghosts, lives, runs>>

-----------------------------------------------------------------------------
Init ==
  /\ index = "absent" /\ docs = {} /\ tasks = <<>>
  /\ old \in Stores
  /\ rows = {c \in Chats : old[c] # Gone} /\ deleting = {}
  /\ copy = NoCopy
  /\ adding = [chat |-> NoChat, at |-> "idle"]
  /\ owed = {d \in Documents : InOld(d)}
  /\ prepared = FALSE /\ lives = 0 /\ runs = 0

Migrate ==
  \/ CreateNew \/ ConfigureNew \/ AllChatIDs \/ CopyPage \/ LastPage \/ DropOld
  \/ Completed \/ CopyFail \/ \E c \in Chats : Stats(c)

AddOne == FetchInfo \/ CreateShared \/ Compare \/ UpdateSettings \/ AddChatFail

Handle ==
  \E c \in Chats :
    \/ AddChat(c)
    \/ /\ c \in Busy
       /\ \/ DeleteIndexChat(c) \/ DeleteIndex(c)
          \/ \E i \in Ids : AddDocuments(c, i) \/ DeleteDocuments(c, i)

Next ==
  \/ Migrate \/ AddOne \/ Handle \/ Kill \/ Serve
  \/ \E d \in BOOLEAN : Start(d)

Spec == Init /\ [][Next]_vars

-----------------------------------------------------------------------------
\* Every variable has its type, the chat that is being copied is still to be
\* copied, and no page starts beyond the one after the last document.
TypeOK ==
  /\ EngineOK
  /\ rows \subseteq Chats /\ deleting \subseteq Chats
  /\ copy \in Copies
  /\ copy.left \subseteq copy.chats
  /\ copy.at \in {"page", "drop"} => copy.chat \in copy.left
  /\ copy.at = "page" => copy.offset < copy.total + Batch
  /\ adding \in [chat : Chats \cup {NoChat}, at : {"idle", "info", "create", "compare", "update"}]
  /\ (adding.at = "idle" <=> adding.chat = NoChat)
  /\ owed \subseteq Documents /\ prepared \in BOOLEAN
  /\ lives \in 0 .. MaxLive /\ runs \in 0 .. MaxRuns

\* No document is lost on the way, wherever the migration fails or is killed and
\* however often it is run: one that no handler has asked to remove is in its
\* chat's old index, which stays, or in the shared one once all tasks are done.
NothingLost == \A d \in owed : Coming(d) \/ InOld(d)

\* "Migration completed successfully": the shared index has, or is about to have,
\* every document of every chat that was there when the copying began.
Migrated == copy.at = "done" => \A d \in owed : d[1] \in copy.chats => Coming(d)

\* A chat is added only after CreateIndex has seen to it that the shared index
\* has its settings, or will have them, even if an earlier CreateIndex failed in
\* between and left it without, and beside the migration, which takes no lock.
Configured == prepared => index = "ready" \/ \E i \in DOMAIN tasks : tasks[i].do = "settings"

=============================================================================
