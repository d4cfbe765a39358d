# A TLA+ model of btts

btts indexes an account's Telegram chats in Meilisearch and lets bots and a web
API search them. This directory holds TLA+ specifications of its stateful parts,
configurations that model-check them with TLC, and proofs checked by TLAPS.
Everything is translated from the Go source; references have the form
`package/file.go:line`.

## 1. Inventory

| component | state | operations | hard behaviour | what makes it correct |
|---|---|---|---|---|
| Chat registry (`database/`, `bot/{add,watch,del,pub,ocr,sync_peers,apikey}.go`) | table `index_chats`; caches `watchedChatsID`, `allChatIDs`; documents | `/add`, `/watch`, `/unwatch`, `/watchdel`, `/unwatchdel`, `/pub`, `/ocr`, `/syncpeers`, `/del`, `/addapikey`; hooks AfterSave, BeforeDelete | whole rows are read, edited and saved without a transaction; a Save is two statements; hooks change caches before the commit; rollbacks | caches mirror the table; confirmed commands last; documents have rows; protected documents stay |
| Live updates (`userclient/client.go`, `watch.go`) | the same, and the stored pts | message, deletion, participant handlers in groups 0, 1, 2 | each update has a goroutine; gate on a cache, then work on the table | unwatched chats gain nothing but what was past the gate |
| Catch-up (`userclient/updates.go`) | table `updates_state`, column `pts` | SyncMissedUpdates, syncChannelDifference, updateStateFromUpdates | crash between two slices; goroutines that nothing records; live handlers move the same cursor | the cursor never claims what is not indexed; catch-up is exact; loops end |
| File cache (`service/`) | `.cache`, `.meta` and `.tmp` files | lookup, tee, publish, expire, clean | two files, no lock, crashes, cut downloads | a lookup never accepts a cut file; stale files go |
| Takeout (`userclient/takeout.go`) | rows, documents, paging offsets | ranges, dialogs, filter, history pages | failures of single calls, kill and repeat, two ways of paging | no holes, nothing outside the scope, nothing lost without a failure, termination |
| API and its keys (`api/`, `bot/apikey.go`) | tables `api_keys` and `api_key_chats`; per request, the chats of its key | authenticate, search, fetch, info, list, act as the user; `/addapikey`, `/setapikey`, `/delapikey` | the chats of a key are read once, keys and chats change while the request runs; `/setapikey` reads now and saves later | a sub key reaches no chat it was not given; a deleted key is dead; one bad chat spoils only its own answers |
| Members, users, ignore list | `user_infos`, `index_chat_members`, `GlobalIgnoreUsers` | write, leave, ignore | learnt from messages only, wrong id on leave | membership opens no chat to a stranger |
| Sub-bots (`subbot/`, `bot/sub.go`) | map `subBots`, table `sub_bots`, running clients | `/addsub`, `/delsub`, `/listsub`, start stored | map and table change in separate steps; the start of the process beside commands; replaced instances run on | what is confirmed lasts; map and table agree; bots show only what they were given |
| Search sessions (`bot/{search,list,select,inline}.go`, `subbot/handlers.go`, `utils/cache`) | the request cached behind the buttons of a message, the choice cached behind a list | search, turn the page, tick a filter, list, select, inline query | presses handled side by side; expiry; edits that fail; rows deleted under a message | buttons do what they say; a message shows what its user may search; a choice is searched |
| RPC middlewares (`middlewares/`) | a back-off that all calls share, retry counters | retry, recover | calls restart each other's clock; contexts | a call ends, at the latest when it is cancelled |
| Downloads (`bot/dl.go`, `api/client.go`) | the position in a range | `/dl`, streaming | arithmetic on ids with gaps, messages that vanish | no message of the range is missed |
| Search engine (`engine/meili/`) | the shared index, its settings, the engine's tasks | add, delete, create, search | every change is a task that is done later; a half-created index | no chat without settings |
| Migration (`cmd/migrate/`) | old indexes, the position in one | `migrate`, `--drop-old` | killed anywhere and run again, beside live requests; deletes what it has copied | no document is lost |
| OCR, plugins, configuration, web page | external or none | | | |

The components share one process. The dispatcher of the Telegram library runs
each update in its own goroutine; the admin's bot has a client of its own, the API
a server, the catch-up its goroutines. They meet in the database (through single
statements), in the two caches (under a lock each), and in the engine. `takeout`
is a command of its own and not run beside them.

The hazards are listed in `PROJECT.json`, each at its line with the properties
aimed at it.

## 2. Plan

Each component has a module of its own; a component that others build on is
EXTENDed by them (`Search` by `ApiScope` and `SearchSession`, `Membership` by
`SubBots`, `Middleware` by `Download`, `Engine` by `Migration`). An abstract
specification is a module that the detailed one instantiates.

| modules | state of the work |
|---|---|
| `ChatStore` | modelled; every invariant and action property proved |
| `Blob`, `FileCache` | modelled; types and the refinement proved |
| `Catchup` | modelled; the run's three invariants proved |
| `Takeout` | modelled; safety proved |
| `Access`, `Search`, `ApiScope` | modelled; everything proved, the refinement too |
| `SearchSession` | modelled; the run's four invariants proved |
| `Membership`, `SubBots`, `SubBotsProofs` | modelled; the run's four invariants proved |
| `Middleware`, `Download` | modelled; safety proved |
| `Engine`, `Migration` | modelled; everything proved |

Each module takes its sizes as named CONSTANTS with assumptions as weak as
the code allows, has one action per handler step, and holds no RECURSIVE
operator.

## 3. Modules and the code

**ChatStore** (instances in `MCChatStore`, proofs in `ChatStoreProofs`). A row
is the set of its true columns; title, username, type and pts are left out,
being copied along. `job` holds what each goroutine is doing and the row it
read. One action is one statement or one engine call: `SaveUpdate` and
`SaveInsert` are gorm's Save (an UPDATE whose transaction runs the hook, and an
INSERT without hooks if nothing was matched), `DeleteHook` and `DeleteRow` are
DeleteIndexChat. `PtsGet`, `Gate`, `HandlerGet`, `MemberGet`, `MemberHook`,
`IndexMessage` are the live handlers in their order. gorm (v1.31) is external;
three of its habits matter and are modelled: a zero value in a column with a
default is inserted as the default; appending to an association runs the owner's
hooks; saving an owner saves what it refers to by an INSERT that does nothing on
conflict, and runs the hooks (`ScopeApiKey`).

A Save may fail in three ways (`SaveFail`): the UPDATE does, and nothing of it
stays; its transaction does after the hook has changed the caches ("commit"); the
INSERT does long after it ("insert"). A read may fail; `/add` takes any error of
its read for an absent row (`bot/add.go:49`) and then saves a new row over the one
there is. A DELETE may fail, and its error path puts the chat into one of the two
caches only (`database/dao.go:43`).

Handlers overtake each other: one reads a row, another one saves it, and the first
saves its copy over that. The model lets all of this happen and marks it, so that
the properties can say what still holds for whom. `fresh`, in a job, says whether the
table still holds what the handler last read of it. History variables:

| variable | the chats ... |
|---|---|
| `told` | what the replies to the admin add up to, for each chat |
| `torn` | whose cache need not be right: a Save and a delete overlapped, a second statement, a transaction or a DELETE failed, or a hook ran on a row other than the one stored |
| `revived` | whose DELETE failed, until the next hook |
| `unsaid` | whose row was written by a handler that had not seen its last change (the lost update), or without a reply (`/addapikey` of an unknown chat, a message of a torn one) |
| `left` | that got a document after the row was gone, or kept some because the engine refused to drop them or the process stopped before that |

A restart, which rebuilds the caches, clears `torn` and `revived`; a `/del` that is told
to the admin clears `unsaid`, and documents that are dropped clear `left`.

So a lost update is not forbidden, since the code has it: it is named, and
everything else that could undo a command is forbidden (`CommandsStick`). In the
action properties, `StaleStep` is the step of a handler whose reading was overtaken:
the deletion that had read the row before `/unwatchdel`, the message that was past the
gate before `/unwatch`.

**Blob** is what a file cache promises: a file is put there in one step, whole or cut
and never over another one, and taken away in one step; a lookup never accepts a cut
file, and a request that has looked it up is sent what lies there by then.
**FileCache** (proofs in `FileCacheProofs`) has what there is, for one message:
`cache` and `meta` are its two files, `pc` and `written` the requests, `cleaner` the
loop. Each system call is a step. `CacheUsed` is the code's condition, word for word
(`service/file.go:36`). The refinement (`ImplementsBlob`) maps the cache file to the
abstract one, and the requests that have passed the check of the meta file to those
that have found it. The promise is void (`torn`, `raced`) once a crash has parted the
two files, or two goroutines have changed them at once. The code then can serve a cut
file: of two downloads that are closed together the shorter one can be renamed over
the whole one, whose meta file comes last, although the comment at
`service/file_cache.go:227` has the loser discard its file; and a lookup between the
renaming and the writing of the meta file drops the cache file alone, so that the meta
file vouches for the next one.

**Catchup** (proofs in `CatchupProofs`) has the server's log of each message box
(external), the stored cursors, the three loops and the live handlers. A pts is a
position in the log. Common deletions are absent since no handler treats them.
`waived` collects the messages the code has no means to index: what was posted before
the first start, what a failing call or a jump to the present skipped, what the
handlers that a kill cut short were holding, and messages whose deletion overtook
them.

**Takeout** (an account in `MCTakeout`, proofs in `PagingProofs`). A history is a
sequence, the newest message first, of posts and service messages; ranges are windows
on it. Whether there are ranges, or the fallback is used, is chosen by each call's
answer (`plain`). `hurt` are the dialogs a failed call touched. Messages without text
make no document and are not told apart from indexed ones. The list of dialogs keeps
its duplicates, one for each range a dialog has a message in: it is a set of entries,
each a window and a dialog, taken in their order; the export removes an entry when it
is through with it. A page that is fetched again because the offset did not move
(`userclient/takeout.go:353`) would append the same dialogs once more; here it adds
nothing, and an export that does so for ever is one that stays where it is. Of the
ranges, which are Telegram's, it is assumed that there is one and that each message is
in exactly one of them (`RangesAssumption`).

**Search** holds what the last two modules share: a request, the engine's filter
(`engine/meili`) and its pages. A document stands for all messages of one kind in
one chat. Which hits a page has is the engine's choice among those that pass.

**Access** is what an API key promises: a key is given chats and loses them all at
once; a request learns its key's chats in one step and shows documents of no other.
**ApiScope** (proofs in `ApiScopeProofs`) implements it. `served` holds a request in
one of its phases: it is authenticated and checked (`Receive`, which reads nothing but
the key), asks the engine (`SearchEngine`, for a search or for messages by their ids)
or a table (`GetIndexInfo`, `GetIndexed`), and looks up the chat of one hit after the
other (`Resolve`). Between two phases any command and any live message may run.
`/setapikey` is two steps, `SetApiKey` and `SaveApiKey`. Things to know: a master key
that names no chat gets the filter's error; `/setapikey` only ever adds chats to a
key, since saving an association does not remove; without a master key the
authentication is off and with it all knowledge of chats, so that the endpoints with a
scope answer 403, although the comment at `api/api.go:30` promises that nothing is
asked for. Whether the database enforces the foreign keys of `database/model.go` is up
to the external driver, so both are possible (`ForeignKeySettings`). Without them the
rows that join a key to its chats outlive the key, and a `/setapikey` that saves after
the deletion brings the key back with its old chats and the new ones (`kept`);
`RevokedGetNothing` needs them enforced. A request for messages by an empty list of
ids (`fetchnone`) passes the check of the chat in its path and the validation
(`api/types.go:180`), and is sent to the engine without ids or a filter: the answer is
any page of the whole index, whatever the key. `Access`, `ScopeHolds` and
`SubKeysUndisturbed` speak of all other requests, and the run `apiscope_emptyids`
shows that they could not speak of this one. History: `named` and `revoked`, and in a
request `may`, `dead`, `lost`, and `blank`, whether its list of ids is empty.

**SearchSession** (instance in `MCSearchSession`, proofs in `SearchSessionProofs`).
One conversation at a time: the last message with results, with the requests cached
behind it, and the last list. An id that nothing names any more is fresh again
(`Kept`), which stands in for random ids. A press is three steps: it reads the cached
request and searches (`PressGet`), edits the message with a keyboard under a new id
(`PressEdit`), and, for a filter, writes the new request under the old id
(`PressSet`). A page with a hit whose chat has no row is never sent: the handler ends
on the nil row (`utils/message.go:325`). A reply to a list whose choice has expired
searches everything the user may, and two buttons of a list pressed at once can leave
a text that names the other choice; `PromptKept` leaves both out. Lists in groups are
not modelled: a choice is cached under the bare id of its message
(`bot/select.go:35`), without the chat it is in. History: `may`, `prompt` and `off` in
a message, `tried` in a list.

**Membership** and **SubBots**. `Membership` is what the live handlers know of
people: whoever writes in a watched chat becomes a member unless he is ignored
(`Post`); when someone leaves, the handler looks up the user whose id is the
chat's (`Leave`, `userclient/client.go:98`), so that members are in fact never
removed, unless they write in the chat's own name. `SubBots` adds the
table `sub_bots`, the map of running bots and what each command, and each of
StartStored's goroutines, is doing (`doing`); every statement, and every critical
section of `subBotMu`, is a step. A bot goes by its id, which stands for its
token too: the client gets it in `CreateClient`. `strays` are instances that were
replaced in the map and run on with their handlers. What a bot shows is an
operator (`Shown`), since searching changes nothing; the comments at
`subbot/handlers.go:105-106` and `:122` speak of the chats that the user is in,
and the code of those that he has written in. The handler tells spaces apart by
whether the update names a channel, so that a question in a basic group is
answered like one in private, with the chats the asker has written in and for
everyone in the group to see, although the comment at `:122` speaks of private
chats (`AsksAsMember`). gorm's Save of a bot (an UPDATE, and an INSERT if nothing was
matched) is one step: there is no hook, and whatever comes between the two, the row
is what the last of them writes. History: `told` is what the admin
knows of a bot, `given` the chats ever named for it, `clean` whether anything has
failed or overlapped since the start. Things to know: overlapping operations on
one bot can undo each other, even by StartStored, which writes back the rows
it read at the start; a failing delete leaves a row without a bot, which is back
after the next start; bots added by `/addsub` are not in `GlobalIgnoreUsers`
until the next start (`bot/bot.go:53`).

**Middleware** and **Download** (proofs in `PagingProofs`). A call is invoked,
repeated at once by retry, or sleeps until recovery repeats it. `elapsed` is the clock
of the one ExponentialBackOff that a client's calls share: RetryNotify resets it when
a call begins, so calls can keep each other's recovery going for ever. "retry limit
reached" is a plain error, hence recovered from like a lost connection, though the
comment at `middlewares/recovery/recovery.go:58` excludes errors of Telegram's, of
which it is the sum. `Download` is `/dl` on top of it: its position in the range, and
the chat whose messages come and go between the pages. `History` is what the command
relies on of MessagesGetHistory, which is external: where an offset beyond the newest
message makes the answer's size unclear, both sizes are possible. The message with the
range's last id is never asked for (`bot/dl.go:66`). A range may begin at 0
(`bot/dl.go:35-52` asks only that it be smaller than the end), and an offset of 0
stands for the newest message (`Offset`): `/dl` then steps over the ids of its first
page without having asked for them, and says that it is through (`RangeStart`). The
module's `InitDownload`, `NextDownload`, `DownloadSpec` and `DownloadOK` carry its
name because `PagingProofs` extends it together with `Takeout`.

**Engine** and **Migration** (instance in `MCMigration`, proofs in
`MigrationProofs`). `Engine` has the shared index, the old indexes and `tasks`,
what Meilisearch was asked and has not done yet: it answers first and btts waits
for nothing. Tasks are done in their order and are assumed to succeed.
`Migration` is MigrateToV1, step by step, with its position in `copy`, beside
CreateIndex (`adding`) and the live requests; the process can be killed and the
migration run again. `owed` is history: the documents that nobody asked to
remove. Things to know: a second run stops at the first old index that the first
one dropped, and a run stops at a chat that was added since, which never had an
old index (`cmd/migrate/v1.go:95`); documents that a live handler removes before
their page is copied come back. What `/add` does when its row cannot be stored is
in `ChatStore`.

## 4. Runs

| run | shows | bounds |
|---|---|---|
| `chatstore` | what the caches, the table, the documents and the replies have to do with each other while handlers overtake one another and anything fails | one channel (chats share nothing but the caches, of which they are separate elements; a private chat does less) and one message; two admin's and two live processes of which two run at once, which is what an overlap takes; `/add`, `/del`, `/syncpeers`, `/watch`, `/unwatch`, `/unwatchdel` and the API keys (the other flags are set and cleared the same way); all six faults, and restarts |
| `chatstore_apikey` | *refutes* that an unwatched chat stays out of the index, by `/addapikey` alone | a private chat, one handler at a time, no failures |
| `filecache` | the two files implement `Blob`; what is stale goes | two blocks (a whole, a cut and an empty file), two requests at once, a crash |
| `catchup` | what the cursor means, exactness, and that the loops end | slices and pages of one event, three events, one stop, all failures |
| `takeout` | no holes, scope, flags, completeness without a failure, termination | three dialogs, pages of two, two ranges, one failing call, kills, two runs |
| `takeout_lost` | *refutes* that all messages are exported | no failures |
| `apiscope` | what a sub key reaches, while it lives and after; it implements `Access`, empty lists of ids apart | two chats, one sub key, one request at a time beside any number of commands: requests do not write what others read; with and without master key and foreign keys; a page holds all hits, so that every hit is looked up |
| `apiscope_emptyids` | *refutes* that every request of a sub key stays in its scope | two chats, one sub key, one request at a time |
| `searchsession` | keyboards, entitlement, choices | two chats, one of them a group and one that changes; an admin and a stranger; two presses at once; two pages of one hit; four ids: the message, one for each press, and a fresh one |
| `subbots` | confirmed commands last, map and table agree, what strangers see | one bot, since bots share nothing but a lock; two commands at once beside the start of the process, and a restart; two chats, in one of which a user, the bot and the chat itself write; questions in private, in a basic group, in a channel and by `/start` |
| `download` | no message of the range is missed; calls end | ranges from 0 on and ids 1 to 4 in pages of two, so that a range has up to two pages with gaps; one other caller, two tries, a clock of one tick |
| `migration` | no document is lost, what is reported done is done, no chat without settings | a busy chat with two documents in pages of one, and a chat with or without an old index; two runs, two live requests |

What `chatstore_apikey` finds is undone by chance in a channel: there the handler of
group 0 saves the row it read, unwatched as it is, before the gate of group 2 is
asked, and the hook takes the chat out of the cache again. In a private chat nothing
comes before the gate; the message is let through, and WatchHandler writes
`watching` into the row for good (`userclient/watch.go:49`).

In `SearchSession` a chat becomes public or private, and an entry expires, only
while no press is handled (`Quiet`): no button looks at `public`, and a press
whose entry is gone is `PressDropped`, so nothing is lost by it. The goroutines
of presses are interchangeable, which the run's symmetry uses; it checks
invariants only.

Facts that were settled while modelling and have no run of their own:
`file_cache.disable` is read the wrong way round (`service/file.go:36`), so the
default setting does not cache; a channel whose stored pts is 0 is skipped
by the catch-up (`userclient/updates.go:236`), so what it missed stays missed; a
live message that passed the gate before an `/unwatch` saves the row it read with
watching forced on (`userclient/watch.go:49`), after the admin was told that the
chat is not watched any more.

Bounds named in the modules: `MaxInFlight` (handlers or requests at once),
`MaxCrashes`, `MaxEvents`, `MaxStops`, `MaxFaults`, `MaxRuns`, `MaxPages`,
`MaxRestarts`, `MaxLive`, `MaxTasks`, `MaxId`, `Volatile`, `Busy`, `Offers`,
`Stores`, `Ids`. A page of one or two is enough
since only an empty, a part-full and a full page are told apart. Deadlock is not
checked where events or runs are bounded, because the system may then rest.

Each property has a mutant: an operator beside the mapped definition, marked as a
slip in its comment, with which TLC finds the property violated.

**Fairness.** `FileCache`: the ticker of the cleanup loop fires while the process
runs; nothing is asked of requests, whose downloads may hang. `Catchup`: the sync
and each channel's goroutine go on while the process lives, with calls that return
or fail (the client's middlewares end a call). `Takeout`: one sequential program,
with the same. `Download`: time passes, a wait between two tries ends, and so does
each try of a call, for better or worse, because the client's connection has
timeouts of its own; the command's goroutine goes on. `CallsEnd` says that this is
enough for a call only if its context, or the client's, is done, or no other call
begins any more. No fairness is assumed of the server, of users or of handlers,
and none at all in the modules that are checked for safety only.

## 5. Proofs

`ChatStoreProofs` proves for all values of the constants:

* `TypeCorrect`: `Spec => []TypeOK`.
* `CachesFollow`: `Spec => []CacheInv`. `CacheInv` says of a chat that is not
  torn how cache and table relate while statements are outstanding: between
  DeleteHook and DeleteRow the chat is out of the cache, between SaveUpdate and
  SaveInsert it is in it before it has a row, and both cannot be outstanding at
  once. It is inductive together with `TypeOK`; the next two are not, as they
  are silent while a statement is outstanding.
* `IndexedMirror` and `WatchedBacked`: consequences of it.
* `WatchedStayIndexed`: `Spec => []WatchedAreIndexed`, torn chats included; only the
  chats whose DELETE has failed are excepted, until the next hook.
* `FreshCorrect`: `Spec => []FreshInv`. The row that a handler carries, if nothing has
  overtaken it, is what its operation makes of the stored row (`Fits`, place by
  place).
* `ToldCorrect`: `Spec => []ToldInv`. Rows are what was told, but for `unsaid` chats.
* `DocumentsHaveRows`: `Spec => []DocsHaveRows`, from `DocsInv`, which adds that a
  failed `/add` that is past the engine has left no document behind.
* `GateCorrect`: `Spec => []GateInv`, the half of the caches that `CacheInv` does not
  say: a chat whose row is watched is in the cache of the gate, unless a delete of it
  is between its hook and its statement (`GateOpen`).
* `CommandsLast`: `Spec => []CommandsStick`, from all of these.
* `ProtectionHolds`: `Spec => ProtectedDocuments`.
* `UnwatchedStayAsTheyAre`: `Spec => UnwatchedGainNothing`.

They hold for any number of chats, messages and processes, any number of handlers
at once, all commands and all faults: nothing is assumed but what `ChatStore`
declares, and TLC evaluates. What the code cannot keep is named in the properties, by
the history variables of section 3. `FreshInv` is the centre of it: a write makes
stale whoever has read the chat's row before (`Write`), so that a handler that is
still fresh may be reasoned about as if it ran alone. The argument goes action by
action: each lemma says that an action keeps the invariant of one chat, with a step
for the chat it acts on and one for the others.

`ApiScopeProofs` proves, from `ApiAssumption` and `SearchAssumption`, for all
chats, keys, numbers of requests at once, page sizes and settings:

* `TypeCorrect`: `Spec => []TypeOK`.
* `ScopeKept`: `Spec => []ScopeHolds`, of every request that is not for an empty
  list of ids.
* `RevokedRefused`: `Spec => []RevokedGetNothing`.
* `SubKeysSpared`: `Spec => []SubKeysUndisturbed`.

None of the last three is inductive: they speak of answers, which depend on what an
earlier phase left behind. The invariant `IInv` adds to `TypeOK` that a key is joined
only to chats named for it and that with foreign keys a deleted key stays deleted,
whatever a `/setapikey` under way still does (`KeysInv`), and that in every phase a
request of a sub key that is not `blank` stays inside its scope, its scope inside what
was named, and has rows unless a chat of it was deleted (`RequestInv`). The lemma
`RequestUpdate` reduces each step of a request to the request it writes;
`MatchingInScope` is the one place where the engine's filter matters.

* `Refinement`: `Spec => ImplementsAccess`. A step of a request maps to a step of
  `Access` or to a stutter; that what it shows is inside what it learnt is
  `RequestInv`; a `blank` request is not one of `Access`.

`PagingProofs` proves, for any callers, tries, ids and page size:

* `DownloadTypes`: `DownloadSpec => []DownloadOK`.
* `RangeIsDownloaded`: `DownloadSpec => []RangeDownloaded`. The invariant says that
  every message of the range below the position, if it has been there all the time, is
  added, skipped or in the page in hand; of a range that begins at 0 the ids of the
  first page are left out (`RangeStart`), which is what the code does. The step that
  fetches a page rests on the lemma `NewerCovers`: of the messages from an id on, as
  many as there are ids up to another one include all those below it.

and for any account, split into ranges, sizes of both kinds of pages, failures and
number of runs:

* `ExportTypes`, `NoHoles`, `PlainAreExported`: the three invariants of the run
  `takeout`.
* `ExcludedAreKept`: `Spec => ScopeKept`.

None of the last three is inductive. That the engine holds no hole depends on where
the page in hand begins, that nothing was forgotten on what is still listed, that
nothing excluded is written on how the list was filtered. `ExportInv` therefore says,
of the dialog being exported, that the posts of its window are in the engine as far as
the offset (`PageInv`) and that the windows before are behind it (`BehindInv`); of the
listing, that every dialog with messages in a window has an entry, up to the offset
(`ListInv`); and of each dialog to be exported, that it is through or has an entry
left (`LeftInv`). `EntriesInv` has the entries in scope. `WindowEnds` and `ChatEnds`
are the two ways on, whatever the step was. What a page holds is counted: a full page
of posts is a whole interval (`PageIsBounded`, `FullPage`), a short one the last of
its window if all messages are posts (`LastPage`), and a short page of dialogs has all
that follow the offset (`ShortPage`). That last lemma looks at the first dialog
missing from the page; that there is a first one is `Smallest`, from the
well-foundedness of the naturals, which replaces an induction.

`MigrationProofs` proves, for any chats, old indexes, page size and bounds:

* `Types`, `NothingIsLost`, `AllMigrated`, `AddedAreConfigured`, the run's four
  invariants.

`NothingLost` is not inductive: that an old index may go depends on what the
migration has read of it. `IInv` adds `PageInv` (what has been read of the chat in
hand is on its way) and `ChatInv` (so is everything of the chats that are
through). `Kept` says what a step may do to documents at all, and most lemmas show
that a step keeps them in this sense and leaves the migration's position alone;
a task keeps all documents but those it removes (`KeptByPut`, `KeptByWork`).

`SubBotsProofs` proves, for any bots, commands at once, chats, people and
restarts:

* `TypeCorrect`, `ToldLasts`, `MapMatchesTable`, `OnlyGivenShown`, the run's four
  invariants.

They speak of a bot on which nothing is under way, so `IInv` says what an operation
has to rely on until it ends. One that nothing has overlapped is alone on its bot
(`AloneInv`), and what was told of the bot still holds when it begins; of one that
is `mixed` nothing is known, and it leaves `Unsure` behind. `ActorStep` reduces a
step to its own bot, `EndStep` the end of an operation to what the table then
holds, and only `Register` and `Unmap` reach into other operations (`Displaces`).

`FileCacheProofs` proves, for any finite set of requests, any size of the file,
settings and number of crashes:

* `TypeCorrect`: `Spec => []TypeOK`.
* `Refinement`: `Spec => ImplementsBlob`.

The refinement needs to know what the two files say of each other while neither
`torn` nor `raced` voids the promise (`Agree`): one goroutine at a time is half-way
through changing them, a meta file that says "complete" lies beside a whole file
or its file is just going, and who is about to write one has its own download
beside it. It is inductive with `TypeOK`, since every step by which a second one
would join in sets `raced`. `RequestsAssumption` makes the number of requests in
flight a number.

`SearchSessionProofs` proves, for any chats, users, ids, presses at once and pages:

* `TypeCorrect`, `ButtonsSayWhatTheyDo`, `NothingElseShown`, `PromptHonoured`, the
  run's four invariants.

Neither `StaysEntitled` nor `PromptKept` is inductive, as they speak of what is
shown and a press shows what a cached request covers. `MessageInv` says that the
requests cached behind a message are `Within` its bounds: what was open to whoever
asked, and the chat he chose, if the choice was honoured. `PressInv` says the same
of the request a press has read while the message is still the one it was
pressed on, and `ListInv` that a choice is one that was offered. An id written by a
handler is new to all of them (`FreshId`, from `IdsAssumption`: there are enough ids
for one of them to be free, as the code draws them at random); without it a
filter could put its request under the buttons of another message.

`CatchupProofs` proves, for any channels, size of slices and pages, and bounds:

* `TypeCorrect`, `PtsHonest`, `NothingMissed`, the run's three invariants.

An event of a box is `Handled` if the engine shows what it asks for, a live handler
or the channel's goroutine is on its way to it, or the code has given it up. The
argument has two halves. `NextSteady` says that no step makes an event unhandled:
not a kill, since what the handlers held is waived and what the goroutines had to
fetch lies beyond the pts they start from; not a deletion that overtakes the
post. The other half says that every cursor stands behind handled events only:
the pts and the date of the common state (`StoredInv`), the copies that the sync
(`SyncedInv`) and each goroutine (`FetchedInv`) carry from call to call, and, once
the handlers are registered, that all events are handled (`LiveInv`). Each action
that moves a cursor has a lemma of its own. `CursorHonest` and `CaughtUp` follow:
what is handled and has nobody on its way to it is done.

Only model-checked is liveness (`LoopsEnd`, `LeftoversGo`, `Ends`, `CallsEnd`): it
needs fairness and ENABLED, which are beyond the provers. Every invariant and every
action property of the passing runs is proved.

## 6. Not modelled

The wording of replies, titles and names; OCR and text extraction; Meilisearch's
ranking and tasks of it that fail; the login dialogue; the plugin that repeats a
message and the extensions, which are single RPCs; the progress display;
generated API docs and the web page; configuration parsing. What the API does with
the user's account, and the stream of a file, are reduced to the check before them;
how a download is cut into chunks is left to its library (`utils/dler.go`). The
flood waiter is a library's. What a call that was given up has done on Telegram's
side is not known to the code, and so a repeated call may act twice; nothing here
speaks of it.
