------------------------------- MODULE ApiScope -------------------------------
(***************************************************************************)
(* The HTTP API and its keys (api/api.go, auth.go, search.go, index.go,    *)
(* types.go, client.go), beside the commands that change the keys          *)
(* (bot/apikey.go), /add, /del and the live messages.                      *)
(*                                                                         *)
(* A request reads the chats of its key when it is authenticated, the      *)
(* engine when it searches, and the row of each hit's chat afterwards:     *)
(* any of them can have changed in between.                                *)
(***************************************************************************)
EXTENDS Search

CONSTANTS
  Keys,                \* the sub keys
  Workers,             \* the goroutines that serve requests
  Master,              \* the master key
  Nobody,              \* a key that is unknown, or none
  ProtectedSettings,   \* whether a master key may be configured: of BOOLEAN
  ForeignKeySettings,  \* whether the database driver may enforce the foreign
                       \* keys of model.go: of BOOLEAN
  NoKey,               \* no row in api_keys
  Idle                 \* a worker without a request, no /setapikey under way

ASSUME ApiAssumption ==
  /\ ProtectedSettings \subseteq BOOLEAN /\ ForeignKeySettings \subseteq BOOLEAN
  /\ Master # Nobody /\ {Master, Nobody} \cap Keys = {}
  /\ \A cs \in SUBSET Chats : cs # NoKey

VARIABLES
  protected,    \* config.C.Api.Key is not empty
  foreignKeys,  \* the driver enforces foreign keys
  rows,         \* chats with a row in index_chats
  docs,         \* documents the engine holds
  joined,       \* of each sub key, the chats joined to it, or NoKey
  setting,      \* what /setapikey is about to save for a key it has read, and
                \* the rows of the join table that the key left when it was
                \* deleted since
  known,        \* chats that had a row at some time: live messages of theirs
                \* may be past the gate
  served,       \* what each worker is doing
  named,        \* history: the chats named for the key since it was added
  revoked       \* history: the keys the admin was told are deleted

config == <<protected, foreignKeys>>
keys   == <<joined, setting, named, revoked>>
index  == <<rows, docs, known>>
vars   == <<config, keys, index, served>>

-----------------------------------------------------------------------------
(* Requests *)

\* "search" stands for the two handlers that search one chat, "act" for the
\* three that use the user's account.  "fetchnone" fetches the messages of an
\* empty list of ids, which is not refused: required only asks for a list.
Ops    == {"search", "multi", "fetch", "fetchnone", "info", "indexed", "act"}
Phases == {"search", "fetch", "fetchnone", "info", "list", "resolve", "done"}
Results == {"none", "ok", "bad", "unauthorized", "forbidden", "notfound",
            "invalid", "failed", "norow"}

\* blank, may, dead and lost are history: whether the request fetches an empty
\* list, the chats named for the key and whether the key had been deleted when
\* the request was authenticated, and whether the row of a chat of its scope was
\* deleted since.
Requests ==
  [key : Keys \cup {Master, Nobody}, scope : SUBSET Chats,
   req : SearchRequest, at : Phases, unread : SUBSET Documents,
   answer : SUBSET Chats, result : Results, blank : BOOLEAN,
   may : SUBSET Chats, dead : BOOLEAN, lost : BOOLEAN]

ASSUME IdleAssumption == Idle \notin Requests

Serving(w) == served[w] # Idle
At(w, ph)  == Serving(w) /\ served[w].at = ph

IsMaster(k) == protected /\ k = Master

\* A slip: the join table alone.
ChatIDsOfJoin(k) == IF joined[k] = NoKey THEN {} ELSE joined[k]

\* The chats preloaded with a key: those joined to it that have a row.
ChatIDs(k) == IF joined[k] = NoKey THEN {} ELSE joined[k] \cap rows

\* Without a master key the middleware is not installed, and leaves no chats.
ValidateApiKey(k) == ~protected \/ k = Master \/ (k \in Keys /\ joined[k] # NoKey)
ScopedChats(k)    == IF protected /\ k \in Keys THEN ChatIDs(k) ELSE {}

\* A slip: any key that has chats may ask for any chat.
EnsureChatAllowedAny(k, c) == IsMaster(k) \/ ScopedChats(k) # {}

EnsureChatAllowed(k, c) == IsMaster(k) \/ c \in ScopedChats(k)

\* A slip: what was asked, as long as some of it is allowed.
FilterAllowedChatsAny(k, asked) ==
  IF IsMaster(k) THEN asked
  ELSE IF asked = {} THEN ScopedChats(k)
  ELSE IF asked \cap ScopedChats(k) = {} THEN {} ELSE asked

\* {} stands for the errors of filterAllowedChats, which a master never gets.
FilterAllowedChats(k, asked) ==
  IF IsMaster(k) THEN asked
  ELSE IF asked = {} THEN ScopedChats(k) ELSE asked \cap ScopedChats(k)

\* What a handler does before it reads anything: go on, or refuse.
GoOn(ph, req)  == [at |-> ph, result |-> "none", req |-> req]
Refuse(result) == [at |-> "done", result |-> result, req |-> ChatRequest(NoChat)]

CheckChat(op, k, c) ==
  IF c = NoChat THEN Refuse("bad")
  ELSE IF ~EnsureChatAllowed(k, c) THEN Refuse("forbidden")
  ELSE GoOn(op, ChatRequest(c))

CheckMulti(k, asked, all) ==
  LET allowed == FilterAllowedChats(k, asked)
  IN  IF ~IsMaster(k) /\ allowed = {} THEN Refuse("forbidden")
      ELSE GoOn("search", [ChatsRequest(allowed) EXCEPT !.allChats = IsMaster(k) /\ all])

Check(op, k, c, asked, all) ==
  IF ~ValidateApiKey(k) THEN Refuse("unauthorized")
  ELSE CASE op = "act"     -> Refuse(IF IsMaster(k) THEN "ok" ELSE "forbidden")
         [] op = "multi"   -> CheckMulti(k, asked, all)
         [] op = "indexed" -> GoOn("list", ChatRequest(NoChat))
         [] OTHER          -> CheckChat(op, k, c)

\* The middleware and the checks of a handler read nothing but the key.
Receive(w, op, k, c, asked, all) ==
  /\ ~Serving(w)
  /\ LET checked == Check(op, k, c, asked, all)
     IN  served' = [served EXCEPT ![w] =
           [key |-> k, scope |-> ScopedChats(k), req |-> checked.req,
            at |-> checked.at, unread |-> {}, answer |-> {},
            result |-> checked.result, blank |-> op = "fetchnone",
            may |-> IF k \in Keys THEN named[k] ELSE {},
            dead |-> k \in revoked, lost |-> FALSE]]
  /\ UNCHANGED <<config, keys, index>>

Answer(w, result, cs) ==
  served' = [served EXCEPT ![w] =
    [@ EXCEPT !.at = "done", !.result = result, !.answer = cs, !.unread = {},
              !.req = ChatRequest(NoChat), !.scope = {}]]

\* Messages fetched by their ids are some of the chat's.  Without ids the engine
\* is sent neither ids nor a filter, and answers with a page of the whole index.
Found(w) ==
  CASE At(w, "fetch")     -> SUBSET Matching(served[w].req, docs)
    [] At(w, "fetchnone") -> IF docs = {} THEN {{}} ELSE SUBSET docs \ {{}}
    [] OTHER              -> Pages(served[w].req, docs)

Asking(w) == At(w, "search") \/ At(w, "fetch") \/ At(w, "fetchnone")

\* A slip: nothing is made of an empty list.
SearchEngineEmpty(w) ==
  /\ Asking(w)
  /\ \E hits \in Found(w) :
       served' = [served EXCEPT ![w] = [@ EXCEPT !.at = "resolve", !.unread = hits]]
  /\ UNCHANGED <<config, keys, index>>

\* The filter is an error before the engine is asked; an empty list is an
\* answer of its own.
SearchEngine(w) ==
  /\ Asking(w)
  /\ IF ~HasScope(served[w].req) THEN Answer(w, "invalid", {})
     ELSE \E hits \in Found(w) :
            IF hits = {} THEN Answer(w, "notfound", {})
            ELSE served' = [served EXCEPT ![w] = [@ EXCEPT !.at = "resolve", !.unread = hits]]
  /\ UNCHANGED <<config, keys, index>>

\* One round of the loop over the hits: a hit whose chat has no row fails the
\* whole answer.
Resolve(w) ==
  /\ At(w, "resolve")
  /\ \E d \in served[w].unread :
       LET rest == served[w].unread \ {d}
           seen == served[w].answer \cup {d.chat}
       IN  IF d.chat \notin rows THEN Answer(w, "norow", {})
           ELSE IF rest = {} THEN Answer(w, "ok", seen)
           ELSE served' = [served EXCEPT ![w] = [@ EXCEPT !.unread = rest, !.answer = seen]]
  /\ UNCHANGED <<config, keys, index>>

GetIndexInfo(w) ==
  /\ At(w, "info")
  /\ LET c == served[w].req.chatID
     IN  IF c \in rows THEN Answer(w, "ok", {c}) ELSE Answer(w, "notfound", {})
  /\ UNCHANGED <<config, keys, index>>

GetIndexed(w) ==
  /\ At(w, "list")
  /\ LET scope == served[w].scope
         shown == IF IsMaster(served[w].key) THEN rows ELSE rows \cap scope
     IN  IF ~IsMaster(served[w].key) /\ scope = {} THEN Answer(w, "forbidden", {})
         ELSE IF shown = {} THEN Answer(w, "notfound", {})
         ELSE Answer(w, "ok", shown)
  /\ UNCHANGED <<config, keys, index>>

\* The engine refuses, or the database fails.
Fail(w) ==
  /\ Serving(w) /\ ~At(w, "done")
  /\ Answer(w, "failed", {})
  /\ UNCHANGED <<config, keys, index>>

\* The answer is sent and the worker is free.
Sent(w) ==
  /\ At(w, "done")
  /\ served' = [served EXCEPT ![w] = Idle]
  /\ UNCHANGED <<config, keys, index>>

-----------------------------------------------------------------------------
(* Keys.  Saving a key saves the chats it names with it, so that a chat      *)
(* without a row gets one.                                                   *)

SaveChats(cs) == rows' = rows \cup cs /\ known' = known \cup cs /\ docs' = docs

\* The hash of a key is unique: a key that exists is refused.
AddApiKey(k, cs) ==
  /\ joined[k] = NoKey
  /\ SaveChats(cs)
  /\ joined' = [joined EXCEPT ![k] = cs]
  /\ named' = [named EXCEPT ![k] = cs]
  /\ revoked' = revoked \ {k}
  /\ UNCHANGED <<config, setting, served>>

\* /setapikey reads the key by its id.
SetApiKey(k, cs) ==
  /\ joined[k] # NoKey /\ setting[k] = Idle
  /\ setting' = [setting EXCEPT ![k] = [chats |-> cs, kept |-> {}, gone |-> FALSE]]
  /\ UNCHANGED <<config, joined, named, revoked, index, served>>

\* A slip: the key is written whether or not it is still there.
SaveApiKeyAnyway(k) ==
  /\ setting[k] # Idle
  /\ SaveChats(setting[k].chats)
  /\ joined' = [joined EXCEPT ![k] = setting[k].chats]
  /\ named' = [named EXCEPT ![k] = setting[k].chats]
  /\ setting' = [setting EXCEPT ![k] = Idle]
  /\ UNCHANGED <<config, revoked, served>>

\* Then it saves it.  The Save adds to the join table and takes nothing away.
\* When the key was deleted in the meantime its UPDATE matches no row: with
\* foreign keys the new rows of the join table fail, without them an INSERT
\* brings the key back, with the chats it had before, unless the same key was
\* added again under a new id.
SaveApiKey(k) ==
  /\ setting[k] # Idle
  /\ LET cs == setting[k].chats
     IN  IF setting[k].gone /\ (foreignKeys \/ joined[k] # NoKey)
         THEN UNCHANGED <<index, joined, named>>
         ELSE /\ SaveChats(cs)
              /\ joined' = [joined EXCEPT ![k] =
                              (IF @ = NoKey THEN setting[k].kept ELSE @) \cup cs]
              /\ named' = [named EXCEPT ![k] = @ \cup setting[k].kept \cup cs]
  /\ setting' = [setting EXCEPT ![k] = Idle]
  /\ UNCHANGED <<config, revoked, served>>

\* The DELETE names the key alone: its rows of the join table go with it only
\* where foreign keys are enforced.
DelApiKey(k) ==
  /\ joined[k] # NoKey
  /\ joined' = [joined EXCEPT ![k] = NoKey]
  /\ named' = [named EXCEPT ![k] = {}]
  /\ setting' = [setting EXCEPT ![k] =
       IF @ = Idle \/ @.gone THEN @
       ELSE [@ EXCEPT !.gone = TRUE, !.kept = IF foreignKeys THEN {} ELSE joined[k]]]
  /\ revoked' = revoked \cup {k}
  /\ UNCHANGED <<config, index, served>>

-----------------------------------------------------------------------------
(* The chats and their documents, as far as requests can tell (ChatStore     *)
(* has them in full).                                                        *)

AddChat(c) ==
  /\ SaveChats({c})
  /\ UNCHANGED <<config, keys, served>>

\* /del deletes the row.
DelChat(c) ==
  /\ c \in rows
  /\ rows' = rows \ {c}
  /\ joined' = IF foreignKeys
               THEN [k \in Keys |-> IF joined[k] = NoKey THEN NoKey ELSE joined[k] \ {c}]
               ELSE joined
  /\ served' = [w \in Workers |->
       IF Serving(w) /\ c \in served[w].scope THEN [served[w] EXCEPT !.lost = TRUE]
                                             ELSE served[w]]
  /\ UNCHANGED <<config, setting, named, revoked, docs, known>>

\* Then it deletes the documents.  A chat without a row can be deleted too, and
\* added before its documents go: this can happen at any time.
DelDocuments(c) ==
  /\ docs' = {d \in docs : d.chat # c}
  /\ UNCHANGED <<config, keys, rows, known, served>>

\* A live message passes the gate while its chat has a row, and is indexed
\* later, whatever has become of the row.
IndexMessage(d) ==
  /\ d.chat \in known
  /\ docs' = docs \cup {d}
  /\ UNCHANGED <<config, keys, rows, known, served>>

-----------------------------------------------------------------------------
Init ==
  /\ protected \in ProtectedSettings
  /\ foreignKeys \in ForeignKeySettings
  /\ rows = {} /\ docs = {} /\ known = {}
  /\ joined = [k \in Keys |-> NoKey]
  /\ setting = [k \in Keys |-> Idle]
  /\ named = [k \in Keys |-> {}]
  /\ revoked = {}
  /\ served = [w \in Workers |-> Idle]

Request(w) ==
  \E op \in Ops, k \in Keys \cup {Master, Nobody}, c \in Chats \cup {NoChat},
     asked \in SUBSET Chats, all \in BOOLEAN : Receive(w, op, k, c, asked, all)

Serve(w) ==
  \/ SearchEngine(w) \/ Resolve(w) \/ GetIndexInfo(w) \/ GetIndexed(w)
  \/ Fail(w) \/ Sent(w)

Command ==
  \/ \E k \in Keys, cs \in SUBSET Chats \ {{}} : AddApiKey(k, cs) \/ SetApiKey(k, cs)
  \/ \E k \in Keys : SaveApiKey(k) \/ DelApiKey(k)
  \/ \E c \in Chats : AddChat(c) \/ DelChat(c) \/ DelDocuments(c)

Live == \E d \in Documents : IndexMessage(d)

Next == Command \/ Live \/ \E w \in Workers : Request(w) \/ Serve(w)

Spec == Init /\ [][Next]_vars

-----------------------------------------------------------------------------
(* Properties *)

\* Every variable has its type, a request that is being resolved has hits left
\* (api/types.go answers an empty list before its loop), and one that has been
\* answered has its result.
TypeOK ==
  /\ protected \in BOOLEAN /\ foreignKeys \in BOOLEAN
  /\ rows \subseteq known /\ known \subseteq Chats
  /\ docs \subseteq Documents
  /\ joined \in [Keys -> {NoKey} \cup SUBSET Chats]
  /\ setting \in [Keys -> [chats : SUBSET Chats, kept : SUBSET Chats, gone : BOOLEAN] \cup {Idle}]
  /\ named \in [Keys -> SUBSET Chats]
  /\ revoked \subseteq Keys
  /\ served \in [Workers -> Requests \cup {Idle}]
  /\ \A w \in Workers : Serving(w) =>
       /\ (served[w].at = "resolve") = (served[w].unread # {})
       /\ (served[w].at = "done") = (served[w].result # "none")

InScope(w) == served[w].key \in Keys => served[w].answer \subseteq served[w].may

\* A sub key only ever shows chats that were named for it, whatever is asked but
\* an empty list of ids, and however keys and chats change while the request runs.
ScopeHolds ==
  \A w \in Workers : Serving(w) /\ ~served[w].blank => InScope(w)

\* A sub api key can only search the chats given to it (README.md), whatever is
\* asked: the code does not keep this where an empty list of ids is fetched.
EverythingInScope == \A w \in Workers : Serving(w) => InScope(w)

\* Once the admin was told that a key is deleted, no later request gets past
\* the authentication with it, unless the key is added again: no /setapikey
\* that was under way brings it back, as long as foreign keys are enforced.
RevokedGetNothing ==
  protected /\ foreignKeys =>
    \A w \in Workers : Serving(w) /\ served[w].dead => served[w].result = "unauthorized"

\* Documents without a row fail every answer they are in (api/types.go); live
\* messages that race a /del leave such documents for good.  A request with a
\* sub key is spared: it fails in that way only if a chat of its scope was
\* deleted after it was authenticated, or it fetched an empty list of ids.
SubKeysUndisturbed ==
  \A w \in Workers :
    Serving(w) /\ served[w].key \in Keys /\ served[w].result = "norow" =>
      served[w].lost \/ served[w].blank

\* What a worker does for a sub key, to one who only sees requests and answers; a
\* request for an empty list of ids is outside the promise.
Session(w) ==
  IF ~Serving(w) \/ served[w].key \notin Keys \/ served[w].blank
  THEN [at |-> "free", may |-> {}, shown |-> {}]
  ELSE IF served[w].at # "done"
  THEN [at |-> "asked", may |-> served[w].may, shown |-> {}]
  ELSE [at |-> "told", may |-> served[w].may, shown |-> served[w].answer]

Promised == INSTANCE Access WITH granted <- named, session <- [w \in Workers |-> Session(w)]

\* For every other request the API keeps the promise of Access: whatever the
\* commands and the engine do between the steps of a request, it looks as if the
\* chats of its key had been read in one step, the answer given in another, and
\* nothing in between.
ImplementsAccess == Promised!Spec

=============================================================================
