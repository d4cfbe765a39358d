--------------------------- MODULE ApiScopeProofs ---------------------------
(***************************************************************************)
(* Proofs about ApiScope, for every set of chats, keys and workers.        *)
(***************************************************************************)
EXTENDS ApiScope, TLAPS

\* What TypeOK says of one request.
RequestOK(r) ==
  /\ (r.at = "resolve") = (r.unread # {})
  /\ (r.at = "done") = (r.result # "none")

\* A request with a sub key asks inside the scope it was given, its scope is inside
\* what was named for the key, and its scope has rows unless a chat of it was
\* deleted; unless it fetches an empty list of ids, what it finds and shows is in
\* its scope.  One with a deleted key was refused at once.
RequestInv(r) ==
  /\ r.at = "fetchnone" => r.blank
  /\ r.key \in Keys =>
       /\ r.scope \subseteq r.may
       /\ ~r.req.allChats /\ r.req.chatID \in r.scope \cup {NoChat}
       /\ r.req.chatIDs \subseteq r.scope
       /\ r.lost \/ r.scope \subseteq rows
       /\ ~r.blank =>
            /\ r.answer \subseteq r.may
            /\ ChatsOf(r.unread) \subseteq r.scope
            /\ r.result = "norow" => r.lost
  /\ protected /\ foreignKeys /\ r.dead => r.at = "done" /\ r.result = "unauthorized"

\* A key is joined to chats that were named for it, and none are named for a key
\* that is not there.  With foreign keys a deleted key is gone, and a /setapikey
\* under way either found out or has its key.
KeysInv ==
  \A k \in Keys :
    /\ joined[k] = NoKey \/ joined[k] \subseteq named[k]
    /\ joined[k] = NoKey => named[k] = {}
    /\ foreignKeys /\ setting[k] # Idle /\ ~setting[k].gone => joined[k] # NoKey
    /\ foreignKeys /\ k \in revoked => joined[k] = NoKey

RequestsInv == \A w \in Workers : Serving(w) => RequestInv(served[w])

IInv == TypeOK /\ KeysInv /\ RequestsInv

-----------------------------------------------------------------------------
(* Types *)

LEMMA ZeroOffset == 0 \in Offsets
<1>1. 1 \in 1 .. MaxPages /\ (1 - 1) * PerSearchLimit = 0
  BY SearchAssumption
<1> QED BY <1>1 DEF Offsets

LEMMA ChatRequestType ==
  ASSUME NEW c \in Chats \cup {NoChat}
  PROVE  ChatRequest(c) \in SearchRequest
BY ZeroOffset DEF ChatRequest, SearchRequest

LEMMA ChatsRequestType ==
  ASSUME NEW cs \in SUBSET Chats, NEW all \in BOOLEAN
  PROVE  [ChatsRequest(cs) EXCEPT !.allChats = all] \in SearchRequest
BY ZeroOffset DEF ChatsRequest, ChatRequest, SearchRequest

\* Replacing one request by a sound one keeps everything sound.
LEMMA RequestUpdate ==
  ASSUME IInv, NEW w \in Workers, NEW r \in Requests, RequestOK(r), RequestInv(r),
         served' = [served EXCEPT ![w] = r], UNCHANGED <<config, keys, index>>
  PROVE  IInv'
<1> USE DEF config, keys, index
<1>1. TypeOK'
  BY DEF IInv, TypeOK, Serving, RequestOK
<1>2. KeysInv'
  BY DEF IInv, KeysInv
<1>3. RequestsInv'
  BY DEF IInv, TypeOK, RequestsInv, RequestInv, Serving
<1> QED BY <1>1, <1>2, <1>3 DEF IInv

\* An answer ends a request that was not answered yet.
LEMMA AnswerKeeps ==
  ASSUME IInv, NEW w \in Workers, Serving(w), ~At(w, "done"),
         NEW result \in Results \ {"none"}, NEW cs \in SUBSET Chats,
         served[w].key \in Keys /\ ~served[w].blank =>
           cs \subseteq served[w].may /\ (result = "norow" => served[w].lost),
         Answer(w, result, cs), UNCHANGED <<config, keys, index>>
  PROVE  IInv'
<1> DEFINE old == served[w]
           new == [old EXCEPT !.at = "done", !.result = result, !.answer = cs,
                     !.unread = {}, !.req = ChatRequest(NoChat), !.scope = {}]
<1>1. old \in Requests /\ RequestInv(old)
  BY DEF IInv, TypeOK, RequestsInv, Serving
<1>2. ChatRequest(NoChat) \in SearchRequest
  BY ChatRequestType
<1>3. new \in Requests
  BY <1>1, <1>2 DEF Requests, Phases
<1>4. RequestOK(new)
  BY <1>1 DEF RequestOK, Requests
<1>5. RequestInv(new)
  <2>1. ~(protected /\ foreignKeys /\ old.dead)
    BY <1>1 DEF RequestInv, At
  <2>2. ChatRequest(NoChat).chatID = NoChat /\ ~ChatRequest(NoChat).allChats
        /\ ChatRequest(NoChat).chatIDs = {}
    BY DEF ChatRequest
  <2>3. ChatsOf({}) = {}
    BY DEF ChatsOf
  <2> QED BY <1>1, <2>1, <2>2, <2>3 DEF RequestInv, Requests
<1>6. served' = [served EXCEPT ![w] = new]
  BY DEF Answer
<1> QED BY <1>3, <1>4, <1>5, <1>6, RequestUpdate

-----------------------------------------------------------------------------
(* Authentication and the checks of the handlers *)

\* The chats of a sub key were named for it.
LEMMA ScopedChatsNamed ==
  ASSUME IInv, NEW k \in Keys
  PROVE  ScopedChats(k) \subseteq named[k] /\ ScopedChats(k) \subseteq rows
BY DEF IInv, TypeOK, KeysInv, ScopedChats, ChatIDs

\* Whatever key and request: what a handler goes on with has its type, and for a
\* sub key it stays inside the scope.
LEMMA CheckSound ==
  ASSUME IInv, NEW op \in Ops, NEW k \in Keys \cup {Master, Nobody},
         NEW c \in Chats \cup {NoChat}, NEW asked \in SUBSET Chats, NEW all \in BOOLEAN
  PROVE  LET checked == Check(op, k, c, asked, all)
         IN  /\ checked.at \in {"search", "fetch", "fetchnone", "info", "list", "done"}
             /\ checked.result \in {"none", "ok", "bad", "unauthorized", "forbidden"}
             /\ (checked.at = "done") = (checked.result # "none")
             /\ checked.at = "fetchnone" => op = "fetchnone"
             /\ checked.req \in SearchRequest
             /\ k \in Keys =>
                  /\ ~checked.req.allChats
                  /\ checked.req.chatID \in ScopedChats(k) \cup {NoChat}
                  /\ checked.req.chatIDs \subseteq ScopedChats(k)
             /\ ~ValidateApiKey(k) => checked = Refuse("unauthorized")
<1> DEFINE Sound(checked) ==
      /\ checked.at \in {"search", "fetch", "fetchnone", "info", "list", "done"}
      /\ checked.result \in {"none", "ok", "bad", "unauthorized", "forbidden"}
      /\ (checked.at = "done") = (checked.result # "none")
      /\ checked.at = "fetchnone" => op = "fetchnone"
      /\ checked.req \in SearchRequest
      /\ k \in Keys =>
           /\ ~checked.req.allChats
           /\ checked.req.chatID \in ScopedChats(k) \cup {NoChat}
           /\ checked.req.chatIDs \subseteq ScopedChats(k)
<1>1. ASSUME NEW x \in Chats \cup {NoChat}
      PROVE  /\ ChatRequest(x) \in SearchRequest /\ ~ChatRequest(x).allChats
             /\ ChatRequest(x).chatID = x /\ ChatRequest(x).chatIDs = {}
  BY ChatRequestType DEF ChatRequest
<1>2. ASSUME NEW result \in {"ok", "bad", "unauthorized", "forbidden"}
      PROVE  Sound(Refuse(result))
  BY <1>1 DEF Refuse
<1>3. k \in Keys => ~IsMaster(k)
  BY ApiAssumption DEF IsMaster
<1>4. ASSUME ValidateApiKey(k), op \in {"search", "fetch", "fetchnone", "info"}
      PROVE  Sound(CheckChat(op, k, c))
  <2>1. CASE c = NoChat
    BY <1>2, <2>1 DEF CheckChat
  <2>2. CASE c # NoChat /\ ~EnsureChatAllowed(k, c)
    BY <1>2, <2>2 DEF CheckChat
  <2>3. CASE c # NoChat /\ EnsureChatAllowed(k, c)
    <3>1. CheckChat(op, k, c) = GoOn(op, ChatRequest(c))
      BY <2>3 DEF CheckChat
    <3>2. k \in Keys => c \in ScopedChats(k)
      BY <1>3, <2>3 DEF EnsureChatAllowed
    <3> QED BY <1>1, <1>4, <3>1, <3>2 DEF GoOn
  <2> QED BY <2>1, <2>2, <2>3
<1>5. Sound(CheckMulti(k, asked, all))
  <2> DEFINE allowed == FilterAllowedChats(k, asked)
             req == [ChatsRequest(allowed) EXCEPT !.allChats = IsMaster(k) /\ all]
  <2>1. CASE ~IsMaster(k) /\ allowed = {}
    BY <1>2, <2>1 DEF CheckMulti
  <2>2. CASE ~(~IsMaster(k) /\ allowed = {})
    <3>1. CheckMulti(k, asked, all) = GoOn("search", req)
      BY <2>2 DEF CheckMulti
    <3>2. allowed \in SUBSET Chats
      BY DEF FilterAllowedChats, ScopedChats, ChatIDs, IInv, TypeOK
    <3>3. IsMaster(k) \in BOOLEAN
      BY DEF IsMaster, IInv, TypeOK
    <3>4. req \in SearchRequest
      BY <3>2, <3>3, ChatsRequestType
    <3>5. k \in Keys => allowed \subseteq ScopedChats(k)
      BY <1>3 DEF FilterAllowedChats
    <3>6. req.chatID = NoChat /\ req.chatIDs = allowed /\ (k \in Keys => ~req.allChats)
      BY <1>3 DEF ChatsRequest, ChatRequest
    <3> HIDE DEF req
    <3> QED BY <3>1, <3>4, <3>5, <3>6 DEF GoOn
  <2> QED BY <2>1, <2>2
<1>6. Sound(GoOn("list", ChatRequest(NoChat)))
  BY <1>1 DEF GoOn
<1>7. Sound(Check(op, k, c, asked, all))
  <2>1. CASE ~ValidateApiKey(k)
    BY <2>1, <1>2 DEF Check
  <2>2. CASE ValidateApiKey(k) /\ op = "act"
    BY <2>2, <1>2 DEF Check
  <2>3. CASE ValidateApiKey(k) /\ op = "multi"
    BY <2>3, <1>5 DEF Check
  <2>4. CASE ValidateApiKey(k) /\ op = "indexed"
    BY <2>4, <1>6 DEF Check
  <2>5. CASE ValidateApiKey(k) /\ op \in {"search", "fetch", "fetchnone", "info"}
    BY <2>5, <1>4 DEF Check
  <2> QED BY <2>1, <2>2, <2>3, <2>4, <2>5 DEF Ops
<1>8. ~ValidateApiKey(k) => Check(op, k, c, asked, all) = Refuse("unauthorized")
  BY DEF Check
<1> QED BY <1>7, <1>8

LEMMA ReceiveKeeps ==
  ASSUME IInv, NEW w \in Workers, NEW op \in Ops, NEW k \in Keys \cup {Master, Nobody},
         NEW c \in Chats \cup {NoChat}, NEW asked \in SUBSET Chats, NEW all \in BOOLEAN,
         Receive(w, op, k, c, asked, all)
  PROVE  IInv'
<1> DEFINE checked == Check(op, k, c, asked, all)
           new == [key |-> k, scope |-> ScopedChats(k), req |-> checked.req,
                   at |-> checked.at, unread |-> {}, answer |-> {},
                   result |-> checked.result, blank |-> op = "fetchnone",
                   may |-> IF k \in Keys THEN named[k] ELSE {},
                   dead |-> k \in revoked, lost |-> FALSE]
<1>1. served' = [served EXCEPT ![w] = new] /\ UNCHANGED <<config, keys, index>>
  BY DEF Receive
<1>2. /\ checked.at \in {"search", "fetch", "fetchnone", "info", "list", "done"}
      /\ checked.result \in {"none", "ok", "bad", "unauthorized", "forbidden"}
      /\ (checked.at = "done") = (checked.result # "none")
      /\ checked.at = "fetchnone" => op = "fetchnone"
      /\ checked.req \in SearchRequest
      /\ k \in Keys =>
           /\ ~checked.req.allChats
           /\ checked.req.chatID \in ScopedChats(k) \cup {NoChat}
           /\ checked.req.chatIDs \subseteq ScopedChats(k)
      /\ ~ValidateApiKey(k) => checked = Refuse("unauthorized")
  BY CheckSound
<1> HIDE DEF checked
<1>3. new \in Requests
  <2>1. ScopedChats(k) \in SUBSET Chats
    BY DEF ScopedChats, ChatIDs, IInv, TypeOK
  <2>2. (IF k \in Keys THEN named[k] ELSE {}) \in SUBSET Chats
    BY DEF IInv, TypeOK
  <2> QED BY <1>2, <2>1, <2>2 DEF Requests, Phases, Results
<1>4. RequestOK(new)
  BY <1>2 DEF RequestOK
<1>5. RequestInv(new)
  <2>1. ASSUME k \in Keys
        PROVE  ScopedChats(k) \subseteq named[k] /\ ScopedChats(k) \subseteq rows
    BY <2>1, ScopedChatsNamed
  <2>2. ASSUME protected, foreignKeys, k \in revoked
        PROVE  checked.at = "done" /\ checked.result = "unauthorized"
    <3>1. k \in Keys /\ joined[k] = NoKey /\ k # Master
      BY <2>2, ApiAssumption DEF IInv, TypeOK, KeysInv
    <3>2. ~ValidateApiKey(k)
      BY <2>2, <3>1 DEF ValidateApiKey
    <3> QED BY <1>2, <3>2 DEF Refuse
  <2>3. ChatsOf({}) = {}
    BY DEF ChatsOf
  <2> QED BY <1>2, <2>1, <2>2, <2>3 DEF RequestInv
<1> QED BY <1>1, <1>3, <1>4, <1>5, RequestUpdate

-----------------------------------------------------------------------------
(* The steps of a request *)

\* What the filter lets through is in the scope of a sub key.
LEMMA MatchingInScope ==
  ASSUME IInv, NEW w \in Workers, Serving(w), served[w].key \in Keys
  PROVE  ChatsOf(Matching(served[w].req, docs)) \subseteq served[w].scope
<1>1. RequestInv(served[w]) /\ docs \subseteq Documents
  BY DEF IInv, TypeOK, RequestsInv
<1>2. ASSUME NEW d \in docs, FilterExpression(served[w].req, d)
      PROVE  d.chat \in served[w].scope
  <2>1. d.chat \in Chats /\ d.chat # NoChat
    BY <1>1, SearchAssumption DEF Documents
  <2> QED BY <1>1, <1>2, <2>1 DEF RequestInv, FilterExpression
<1> QED BY <1>2 DEF Matching, ChatsOf

\* The engine answers with documents that it holds, and with those that pass the
\* filter, unless it was sent none.
LEMMA FoundMatching ==
  ASSUME NEW w \in Workers, NEW hits \in Found(w)
  PROVE  /\ hits \subseteq docs
         /\ ~At(w, "fetchnone") => hits \subseteq Matching(served[w].req, docs)
<1>1. Matching(served[w].req, docs) \subseteq docs
  BY DEF Matching
<1>2. CASE At(w, "fetch")
  BY <1>1, <1>2 DEF Found, At
<1>3. CASE At(w, "fetchnone")
  <2>1. hits \in (IF docs = {} THEN {{}} ELSE SUBSET docs \ {{}})
    BY <1>3 DEF Found, At
  <2> QED BY <1>3, <2>1
<1>4. CASE ~At(w, "fetch") /\ ~At(w, "fetchnone")
  <2>1. hits \in Pages(served[w].req, docs)
    BY <1>4 DEF Found
  <2> QED BY <1>1, <2>1 DEF Pages, kSubset
<1> QED BY <1>2, <1>3, <1>4

LEMMA SearchEngineKeeps ==
  ASSUME IInv, NEW w \in Workers, SearchEngine(w)
  PROVE  IInv'
<1>1. Serving(w) /\ ~At(w, "done") /\ served[w].at \in {"search", "fetch", "fetchnone"}
      /\ UNCHANGED <<config, keys, index>>
  BY DEF SearchEngine, Asking, At
<1>2. CASE Answer(w, "invalid", {}) \/ Answer(w, "notfound", {})
  BY <1>1, <1>2, AnswerKeeps DEF Results
<1>3. ASSUME NEW hits \in Found(w), hits # {},
             served' = [served EXCEPT ![w] = [@ EXCEPT !.at = "resolve", !.unread = hits]]
      PROVE  IInv'
  <2> DEFINE old == served[w]
             new == [old EXCEPT !.at = "resolve", !.unread = hits]
  <2>1. old \in Requests /\ RequestOK(old) /\ RequestInv(old)
    BY <1>1 DEF IInv, TypeOK, RequestsInv, Serving, RequestOK
  <2>2. /\ old.at # "fetchnone" => hits \subseteq Matching(old.req, docs)
        /\ hits \subseteq Documents
    BY FoundMatching DEF At, IInv, TypeOK
  <2>3. new \in Requests
    BY <2>1, <2>2 DEF Requests, Phases
  <2>4. RequestOK(new)
    BY <1>1, <1>3, <2>1 DEF RequestOK, Requests
  <2>5. RequestInv(new)
    <3>1. ASSUME old.key \in Keys, ~old.blank
          PROVE  ChatsOf(hits) \subseteq old.scope
      BY <3>1, <1>1, <2>1, <2>2, MatchingInScope DEF ChatsOf, RequestInv
    <3> QED BY <1>1, <2>1, <3>1 DEF RequestInv, Requests
  <2>6. served' = [served EXCEPT ![w] = new]
    BY <1>3
  <2> QED BY <1>1, <2>3, <2>4, <2>5, <2>6, RequestUpdate
<1> QED BY <1>2, <1>3 DEF SearchEngine

LEMMA ResolveKeeps ==
  ASSUME IInv, NEW w \in Workers, Resolve(w)
  PROVE  IInv'
<1> DEFINE old == served[w]
<1>1. Serving(w) /\ old.at = "resolve" /\ UNCHANGED <<config, keys, index>>
  BY DEF Resolve, At
<1>2. old \in Requests /\ RequestOK(old) /\ RequestInv(old)
  BY <1>1 DEF IInv, TypeOK, RequestsInv, Serving, RequestOK
<1>3. PICK d \in old.unread :
        LET rest == old.unread \ {d}
            seen == old.answer \cup {d.chat}
        IN  IF d.chat \notin rows THEN Answer(w, "norow", {})
            ELSE IF rest = {} THEN Answer(w, "ok", seen)
            ELSE served' = [served EXCEPT ![w] = [@ EXCEPT !.unread = rest, !.answer = seen]]
  BY DEF Resolve
<1> DEFINE rest == old.unread \ {d}
           seen == old.answer \cup {d.chat}
<1>4. d.chat \in Chats /\ (old.key \in Keys /\ ~old.blank => d.chat \in old.scope)
  BY <1>2 DEF Requests, Documents, RequestInv, ChatsOf
<1>5. ~At(w, "done")
  BY <1>1 DEF At
<1>6. CASE d.chat \notin rows
  <2>1. old.key \in Keys /\ ~old.blank => old.lost
    BY <1>2, <1>4, <1>6 DEF RequestInv
  <2>2. Answer(w, "norow", {})
    BY <1>3, <1>6
  <2> QED BY <1>1, <1>5, <2>1, <2>2, AnswerKeeps DEF Results
<1>7. seen \in SUBSET Chats /\ (old.key \in Keys /\ ~old.blank => seen \subseteq old.may)
  BY <1>2, <1>4 DEF Requests, RequestInv
<1>8. CASE d.chat \in rows /\ rest = {}
  <2>1. Answer(w, "ok", seen)
    BY <1>3, <1>8
  <2> QED BY <1>1, <1>5, <1>7, <2>1, AnswerKeeps DEF Results
<1>9. CASE d.chat \in rows /\ rest # {}
  <2> DEFINE new == [old EXCEPT !.unread = rest, !.answer = seen]
  <2>1. served' = [served EXCEPT ![w] = new]
    BY <1>3, <1>9
  <2>2. new \in Requests
    BY <1>2, <1>7 DEF Requests
  <2>3. RequestOK(new)
    BY <1>1, <1>2, <1>9 DEF RequestOK, Requests
  <2>4. RequestInv(new)
    <3>1. ChatsOf(rest) \subseteq ChatsOf(old.unread)
      BY DEF ChatsOf
    <3> QED BY <1>1, <1>2, <1>7, <3>1 DEF RequestInv, Requests
  <2> QED BY <1>1, <2>1, <2>2, <2>3, <2>4, RequestUpdate
<1> QED BY <1>6, <1>8, <1>9

LEMMA GetIndexInfoKeeps ==
  ASSUME IInv, NEW w \in Workers, GetIndexInfo(w)
  PROVE  IInv'
<1> DEFINE c == served[w].req.chatID
<1>1. Serving(w) /\ ~At(w, "done") /\ UNCHANGED <<config, keys, index>>
  BY DEF GetIndexInfo, At
<1>2. RequestInv(served[w]) /\ rows \subseteq Chats
  BY <1>1 DEF IInv, TypeOK, RequestsInv
<1>3. CASE c \in rows /\ Answer(w, "ok", {c})
  <2>1. c \in Chats /\ c # NoChat
    BY <1>2, <1>3, SearchAssumption
  <2>2. served[w].key \in Keys => c \in served[w].may
    BY <1>2, <2>1 DEF RequestInv
  <2> QED BY <1>1, <1>3, <2>1, <2>2, AnswerKeeps DEF Results
<1>4. CASE Answer(w, "notfound", {})
  BY <1>1, <1>4, AnswerKeeps DEF Results
<1> QED BY <1>3, <1>4 DEF GetIndexInfo

LEMMA GetIndexedKeeps ==
  ASSUME IInv, NEW w \in Workers, GetIndexed(w)
  PROVE  IInv'
<1> DEFINE shown == IF IsMaster(served[w].key) THEN rows ELSE rows \cap served[w].scope
<1>1. Serving(w) /\ ~At(w, "done") /\ UNCHANGED <<config, keys, index>>
  BY DEF GetIndexed, At
<1>2. RequestInv(served[w]) /\ rows \subseteq Chats
  BY <1>1 DEF IInv, TypeOK, RequestsInv
<1>3. CASE Answer(w, "forbidden", {}) \/ Answer(w, "notfound", {})
  BY <1>1, <1>3, AnswerKeeps DEF Results
<1>4. CASE Answer(w, "ok", shown)
  <2>1. shown \in SUBSET Chats
    BY <1>2
  <2>2. served[w].key \in Keys => shown \subseteq served[w].may
    BY <1>2, ApiAssumption DEF RequestInv, IsMaster
  <2> QED BY <1>1, <1>4, <2>1, <2>2, AnswerKeeps DEF Results
<1> QED BY <1>3, <1>4 DEF GetIndexed

LEMMA SentKeeps ==
  ASSUME IInv, NEW w \in Workers, Sent(w)
  PROVE  IInv'
<1> USE DEF config, keys, index, Sent
<1>1. TypeOK'
  BY DEF IInv, TypeOK, Serving
<1>2. KeysInv'
  BY DEF IInv, KeysInv
<1>3. RequestsInv'
  BY DEF IInv, TypeOK, RequestsInv, RequestInv, Serving
<1> QED BY <1>1, <1>2, <1>3 DEF IInv

LEMMA ServeKeeps ==
  ASSUME IInv, NEW w \in Workers, Serve(w)
  PROVE  IInv'
<1>1. CASE Fail(w)
  BY <1>1, AnswerKeeps DEF Fail, Results
<1> QED BY <1>1, SearchEngineKeeps, ResolveKeeps, GetIndexInfoKeeps, GetIndexedKeeps,
           SentKeeps DEF Serve

-----------------------------------------------------------------------------
(* The commands *)

\* Requests only look at rows, and these only grow.
LEMMA RowsGrow ==
  ASSUME RequestsInv, UNCHANGED <<config, served>>, rows \subseteq rows'
  PROVE  RequestsInv'
BY DEF RequestsInv, RequestInv, Serving, config

LEMMA AddApiKeyKeeps ==
  ASSUME IInv, NEW k \in Keys, NEW cs \in SUBSET Chats, AddApiKey(k, cs)
  PROVE  IInv'
<1> USE DEF AddApiKey, SaveChats, config
<1>1. TypeOK'
  BY DEF IInv, TypeOK, Serving
<1>2. KeysInv'
  BY ApiAssumption DEF IInv, TypeOK, KeysInv
<1>3. RequestsInv'
  BY RowsGrow DEF IInv
<1> QED BY <1>1, <1>2, <1>3 DEF IInv

LEMMA SetApiKeyKeeps ==
  ASSUME IInv, NEW k \in Keys, NEW cs \in SUBSET Chats, SetApiKey(k, cs)
  PROVE  IInv'
<1> USE DEF SetApiKey, config, index
<1>1. TypeOK'
  BY DEF IInv, TypeOK, Serving
<1>2. KeysInv'
  BY DEF IInv, TypeOK, KeysInv
<1>3. RequestsInv'
  BY RowsGrow DEF IInv
<1> QED BY <1>1, <1>2, <1>3 DEF IInv

LEMMA SaveApiKeyKeeps ==
  ASSUME IInv, NEW k \in Keys, SaveApiKey(k)
  PROVE  IInv'
<1> DEFINE cs == setting[k].chats
           old == setting[k].kept
<1>1. cs \in SUBSET Chats /\ old \in SUBSET Chats /\ setting[k].gone \in BOOLEAN
  BY DEF SaveApiKey, IInv, TypeOK
<1>2. CASE setting[k].gone /\ (foreignKeys \/ joined[k] # NoKey)
  <2> USE DEF SaveApiKey, config, index
  <2>1. TypeOK'
    BY <1>2 DEF IInv, TypeOK, Serving
  <2>2. KeysInv'
    BY <1>2 DEF IInv, TypeOK, KeysInv
  <2>3. RequestsInv'
    BY <1>2, RowsGrow DEF IInv
  <2> QED BY <2>1, <2>2, <2>3 DEF IInv
<1>3. CASE ~(setting[k].gone /\ (foreignKeys \/ joined[k] # NoKey))
  <2>1. /\ SaveChats(cs)
        /\ joined' = [joined EXCEPT ![k] = (IF @ = NoKey THEN old ELSE @) \cup cs]
        /\ named' = [named EXCEPT ![k] = @ \cup old \cup cs]
        /\ setting' = [setting EXCEPT ![k] = Idle]
        /\ UNCHANGED <<config, revoked, served>>
    BY <1>3 DEF SaveApiKey
  <2>2. joined[k] = NoKey \/ joined[k] \cup cs \in SUBSET Chats
    BY <1>1 DEF IInv, TypeOK
  <2>3. TypeOK'
    BY <1>1, <2>1, <2>2 DEF IInv, TypeOK, Serving, SaveChats, config
  <2>4. foreignKeys => joined[k] # NoKey
    BY <1>1, <1>3 DEF SaveApiKey, IInv, KeysInv
  <2>5. KeysInv'
    <3>1. ASSUME NEW x \in Keys
          PROVE  joined'[x] = NoKey \/ joined'[x] \subseteq named'[x]
      BY <2>1 DEF IInv, TypeOK, KeysInv
    <3>2. ASSUME NEW x \in Keys, foreignKeys', setting'[x] # Idle, ~setting'[x].gone
          PROVE  joined'[x] # NoKey
      BY <2>1, <3>2 DEF IInv, TypeOK, KeysInv, config
    <3>3. ASSUME NEW x \in Keys, foreignKeys', x \in revoked'
          PROVE  joined'[x] = NoKey
      BY <2>1, <2>4, <3>3 DEF IInv, TypeOK, KeysInv, config
    <3>4. ASSUME NEW x \in Keys, joined'[x] = NoKey
          PROVE  named'[x] = {}
      <4>1. joined'[k] # NoKey
        BY <1>1, <2>1, ApiAssumption DEF IInv, TypeOK
      <4> QED BY <2>1, <3>4, <4>1 DEF IInv, TypeOK, KeysInv
    <3> QED BY <3>1, <3>2, <3>3, <3>4 DEF KeysInv
  <2>6. RequestsInv'
    BY <2>1, RowsGrow DEF IInv, SaveChats
  <2> QED BY <2>3, <2>5, <2>6 DEF IInv
<1> QED BY <1>2, <1>3

LEMMA DelApiKeyKeeps ==
  ASSUME IInv, NEW k \in Keys, DelApiKey(k)
  PROVE  IInv'
<1> USE DEF DelApiKey, config, index
<1>1. TypeOK'
  <2>1. joined[k] \in SUBSET Chats
    BY DEF IInv, TypeOK
  <2> DEFINE Late == [chats : SUBSET Chats, kept : SUBSET Chats, gone : BOOLEAN] \cup {Idle}
             kept == IF foreignKeys THEN {} ELSE joined[k]
             late == [setting[k] EXCEPT !.gone = TRUE, !.kept = kept]
  <2>2. setting[k] # Idle => late \in Late
    BY <2>1 DEF IInv, TypeOK
  <2>3. setting' \in [Keys -> Late]
    <3>1. setting \in [Keys -> Late]
      BY DEF IInv, TypeOK
    <3>2. setting' = [setting EXCEPT ![k] = IF @ = Idle \/ @.gone THEN @ ELSE late]
      OBVIOUS
    <3> HIDE DEF Late, late
    <3> QED BY <2>2, <3>1, <3>2
  <2>4. joined' \in [Keys -> {NoKey} \cup SUBSET Chats] /\ named' \in [Keys -> SUBSET Chats]
    BY DEF IInv, TypeOK
  <2> QED BY <2>3, <2>4 DEF IInv, TypeOK, Serving
<1>2. KeysInv'
  BY DEF IInv, TypeOK, KeysInv
<1>3. RequestsInv'
  BY RowsGrow DEF IInv
<1> QED BY <1>1, <1>2, <1>3 DEF IInv

LEMMA AddChatKeeps ==
  ASSUME IInv, NEW c \in Chats, AddChat(c)
  PROVE  IInv'
<1> USE DEF AddChat, SaveChats, config, keys
<1>1. TypeOK'
  BY DEF IInv, TypeOK, Serving
<1>2. KeysInv'
  BY DEF IInv, KeysInv
<1>3. RequestsInv'
  BY RowsGrow DEF IInv
<1> QED BY <1>1, <1>2, <1>3 DEF IInv

\* Whoever has the chat in his scope takes note; the others have their rows.
LEMMA DelChatKeeps ==
  ASSUME IInv, NEW c \in Chats, DelChat(c)
  PROVE  IInv'
<1>1. /\ rows' = rows \ {c}
      /\ joined' = IF foreignKeys
                   THEN [k \in Keys |-> IF joined[k] = NoKey THEN NoKey ELSE joined[k] \ {c}]
                   ELSE joined
      /\ UNCHANGED <<config, setting, named, revoked, docs, known>>
  BY DEF DelChat
<1>2. ASSUME NEW w \in Workers
      PROVE  \/ served'[w] = served[w] /\ (Serving(w) => c \notin served[w].scope)
             \/ Serving(w) /\ served'[w] = [served[w] EXCEPT !.lost = TRUE]
  BY DEF DelChat
<1>3. ASSUME NEW w \in Workers
      PROVE  served'[w] \in Requests \cup {Idle}
  BY <1>2, <1>3 DEF IInv, TypeOK, Serving, Requests
<1>4. served' \in [Workers -> Requests \cup {Idle}]
  BY <1>3 DEF DelChat
<1>5. ASSUME NEW w \in Workers, Serving(w)'
      PROVE  RequestOK(served'[w]) /\ RequestInv(served[w])' /\ Serving(w)
  <2>1. CASE served'[w] = served[w] /\ (Serving(w) => c \notin served[w].scope)
    <3>1. Serving(w)
      BY <1>5, <2>1 DEF Serving
    <3>2. RequestOK(served[w]) /\ RequestInv(served[w]) /\ c \notin served[w].scope
      BY <2>1, <3>1 DEF IInv, TypeOK, RequestsInv, RequestOK
    <3> QED BY <1>1, <2>1, <3>1, <3>2 DEF RequestInv, config
  <2>2. CASE Serving(w) /\ served'[w] = [served[w] EXCEPT !.lost = TRUE]
    <3>1. served[w] \in Requests /\ RequestOK(served[w]) /\ RequestInv(served[w])
      BY <2>2 DEF IInv, TypeOK, RequestsInv, RequestOK, Serving
    <3> QED BY <1>1, <2>2, <3>1 DEF RequestInv, RequestOK, Requests, config
  <2> QED BY <1>2, <2>1, <2>2
<1>6. TypeOK'
  <2>1. joined' \in [Keys -> {NoKey} \cup SUBSET Chats]
    BY <1>1 DEF IInv, TypeOK
  <2> QED BY <1>1, <1>4, <1>5, <2>1 DEF IInv, TypeOK, RequestOK, config
<1>7. KeysInv'
  BY <1>1, ApiAssumption DEF IInv, TypeOK, KeysInv, config
<1>8. RequestsInv'
  BY <1>5 DEF RequestsInv
<1> QED BY <1>6, <1>7, <1>8 DEF IInv

LEMMA DocumentsKeep ==
  ASSUME IInv, docs' \subseteq Documents, UNCHANGED <<config, keys, rows, known, served>>
  PROVE  IInv'
<1> USE DEF config, keys
<1>1. TypeOK'
  BY DEF IInv, TypeOK, Serving
<1>2. KeysInv'
  BY DEF IInv, KeysInv
<1>3. RequestsInv'
  BY RowsGrow DEF IInv
<1> QED BY <1>1, <1>2, <1>3 DEF IInv

-----------------------------------------------------------------------------
(* The invariant, and what it means *)

LEMMA InitIInv == Init => IInv
<1> SUFFICES ASSUME Init PROVE IInv
  OBVIOUS
<1>1. TypeOK
  BY ApiAssumption DEF Init, TypeOK, Serving
<1>2. KeysInv /\ RequestsInv
  BY DEF Init, KeysInv, RequestsInv, Serving
<1> QED BY <1>1, <1>2 DEF IInv

LEMMA StepIInv == IInv /\ [Next]_vars => IInv'
<1> SUFFICES ASSUME IInv, [Next]_vars PROVE IInv'
  OBVIOUS
<1>1. ASSUME NEW k \in Keys, NEW cs \in SUBSET Chats \ {{}},
             AddApiKey(k, cs) \/ SetApiKey(k, cs)
      PROVE  IInv'
  BY <1>1, AddApiKeyKeeps, SetApiKeyKeeps
<1>2. ASSUME NEW k \in Keys, SaveApiKey(k) \/ DelApiKey(k)
      PROVE  IInv'
  BY <1>2, SaveApiKeyKeeps, DelApiKeyKeeps
<1>3. ASSUME NEW c \in Chats, AddChat(c) \/ DelChat(c)
      PROVE  IInv'
  BY <1>3, AddChatKeeps, DelChatKeeps
<1>4. ASSUME NEW c \in Chats, DelDocuments(c)
      PROVE  IInv'
  BY <1>4, DocumentsKeep DEF DelDocuments, IInv, TypeOK
<1>5. CASE Live
  BY <1>5, DocumentsKeep DEF Live, IndexMessage, IInv, TypeOK
<1>6. ASSUME NEW w \in Workers, Request(w)
      PROVE  IInv'
  BY <1>6, ReceiveKeeps DEF Request
<1>7. ASSUME NEW w \in Workers, Serve(w)
      PROVE  IInv'
  BY <1>7, ServeKeeps
<1>8. CASE UNCHANGED vars
  <2> USE DEF vars, config, keys, index
  <2>1. TypeOK'
    BY <1>8 DEF IInv, TypeOK, Serving
  <2>2. KeysInv'
    BY <1>8 DEF IInv, KeysInv
  <2>3. RequestsInv'
    BY <1>8, RowsGrow DEF IInv
  <2> QED BY <2>1, <2>2, <2>3 DEF IInv
<1> QED BY <1>1, <1>2, <1>3, <1>4, <1>5, <1>6, <1>7, <1>8 DEF Next, Command

\* The strengthened invariant holds in every reachable state.
THEOREM Inductive == Spec => []IInv
BY InitIInv, StepIInv, PTL DEF Spec

\* Every variable has its type, and a request stands where its result says.
THEOREM TypeCorrect == Spec => []TypeOK
<1>1. IInv => TypeOK
  BY DEF IInv
<1> QED BY <1>1, Inductive, PTL

\* A sub key only ever shows chats that were named for it, unless it fetches an
\* empty list of ids, with any number of requests and commands at once, and whatever
\* the driver does about keys.
THEOREM ScopeKept == Spec => []ScopeHolds
<1>1. IInv => ScopeHolds
  BY DEF IInv, RequestsInv, RequestInv, ScopeHolds, InScope
<1> QED BY <1>1, Inductive, PTL

\* No request that comes after a key was deleted gets past the authentication
\* with it, if foreign keys are enforced.
THEOREM RevokedRefused == Spec => []RevokedGetNothing
<1>1. IInv => RevokedGetNothing
  BY DEF IInv, RequestsInv, RequestInv, RevokedGetNothing
<1> QED BY <1>1, Inductive, PTL

\* A request with a sub key fails over a missing row only if a chat of its scope
\* was deleted while it ran, or it fetches an empty list of ids.
THEOREM SubKeysSpared == Spec => []SubKeysUndisturbed
<1>1. IInv => SubKeysUndisturbed
  BY DEF IInv, RequestsInv, RequestInv, SubKeysUndisturbed
<1> QED BY <1>1, Inductive, PTL

-----------------------------------------------------------------------------
(* The API implements Access: every step is one of Access or a stutter *)

SessionOf(r) ==
  IF r = Idle \/ r.key \notin Keys \/ r.blank THEN Promised!Free
  ELSE IF r.at # "done" THEN Promised!Asked(r.may) ELSE Promised!Told(r.may, r.answer)

Sessions == [w \in Workers |-> SessionOf(served[w])]

LEMMA SessionsMapped == [w \in Workers |-> Session(w)] = Sessions
BY DEF Session, Sessions, SessionOf, Serving, Promised!Free, Promised!Asked, Promised!Told

LEMMA SessionsMappedNext == [w \in Workers |-> Session(w)]' = Sessions'
BY DEF Session, Sessions, SessionOf, Serving, Promised!Free, Promised!Asked, Promised!Told

\* A request that goes on without an answer is not seen.
LEMMA GoesOn ==
  ASSUME TypeOK, NEW w \in Workers, NEW r \in Requests, Serving(w),
         r.key = served[w].key, r.may = served[w].may, r.blank = served[w].blank,
         r.at # "done", served[w].at # "done",
         served' = [served EXCEPT ![w] = r]
  PROVE  Sessions' = Sessions
<1>1. r # Idle
  BY IdleAssumption
<1>2. SessionOf(r) = SessionOf(served[w])
  BY <1>1 DEF SessionOf, Serving
<1>3. Sessions' = [x \in Workers |-> SessionOf(served'[x])]
  BY DEF Sessions
<1>4. ASSUME NEW x \in Workers
      PROVE  SessionOf(served'[x]) = SessionOf(served[x])
  BY <1>2 DEF TypeOK
<1> QED BY <1>3, <1>4 DEF Sessions

\* What is seen of one worker when the others are left alone.
LEMMA OneSession ==
  ASSUME TypeOK, NEW w \in Workers, NEW r, served' = [served EXCEPT ![w] = r]
  PROVE  Sessions' = [Sessions EXCEPT ![w] = SessionOf(r)]
<1>1. Sessions' = [x \in Workers |-> SessionOf(served'[x])]
  BY DEF Sessions
<1>2. ASSUME NEW x \in Workers
      PROVE  SessionOf(served'[x]) = IF x = w THEN SessionOf(r) ELSE SessionOf(served[x])
  BY DEF TypeOK
<1> QED BY <1>1, <1>2 DEF Sessions

\* Neither what a key may see nor what is told changes.
LEMMA Unseen ==
  ASSUME Sessions' = Sessions, UNCHANGED named
  PROVE  UNCHANGED Promised!vars
BY SessionsMapped, SessionsMappedNext DEF Promised!vars

\* An answer shows what the request found, inside what the key was given.
LEMMA AnswerShows ==
  ASSUME IInv, IInv', NEW w \in Workers, Serving(w), ~At(w, "done"),
         NEW result \in Results, NEW cs \in SUBSET Chats, Answer(w, result, cs),
         UNCHANGED named
  PROVE  [Promised!Next]_(Promised!vars)
<1> DEFINE r == [served[w] EXCEPT !.at = "done", !.result = result, !.answer = cs,
                   !.unread = {}, !.req = ChatRequest(NoChat), !.scope = {}]
<1>1. served[w] \in Requests /\ served' = [served EXCEPT ![w] = r]
      /\ served[w].at # "done" /\ served[w] # Idle
  BY DEF IInv, TypeOK, Serving, Answer, At
<1>2. served'[w] = r
  BY <1>1 DEF IInv, TypeOK
<1>3. /\ r.key = served[w].key /\ r.may = served[w].may /\ r.blank = served[w].blank
      /\ r.at = "done" /\ r.answer = cs
  BY <1>1 DEF Requests
<1>4. r # Idle
  <2>1. ChatRequest(NoChat) \in SearchRequest
    BY ChatRequestType
  <2>2. r \in Requests
    BY <1>1, <2>1 DEF Requests, Phases
  <2> QED BY <2>2, IdleAssumption
<1>5. Sessions' = [Sessions EXCEPT ![w] = SessionOf(r)]
  BY <1>1, OneSession DEF IInv
<1> HIDE DEF r
<1>6. CASE r.key \notin Keys \/ r.blank
  <2>1. SessionOf(r) = SessionOf(served[w])
    BY <1>3, <1>6 DEF SessionOf
  <2>2. Sessions' = Sessions
    BY <1>5, <2>1 DEF Sessions
  <2> QED BY <2>2, Unseen
<1>7. CASE r.key \in Keys /\ ~r.blank
  <2>1. cs \subseteq r.may
    BY <1>2, <1>3, <1>4, <1>7 DEF IInv, RequestsInv, RequestInv, Serving
  <2>2. Sessions[w] = Promised!Asked(r.may)
    BY <1>1, <1>3, <1>7 DEF Sessions, SessionOf
  <2>3. Sessions' = [Sessions EXCEPT ![w] = Promised!Told(r.may, cs)]
    BY <1>3, <1>4, <1>5, <1>7 DEF SessionOf
  <2>4. Sessions[w].may = r.may
    BY <2>2 DEF Promised!Asked
  <2>5. Promised!Show(w, cs)
    BY <2>1, <2>2, <2>3, <2>4, SessionsMapped, SessionsMappedNext DEF Promised!Show
  <2> QED BY <2>5 DEF Promised!Next
<1> QED BY <1>6, <1>7

\* A request with a sub key is asked with the chats named for the key.
LEMMA ReceiveAsks ==
  ASSUME IInv, NEW w \in Workers, NEW op \in Ops, NEW k \in Keys \cup {Master, Nobody},
         NEW c \in Chats \cup {NoChat}, NEW asked \in SUBSET Chats, NEW all \in BOOLEAN,
         Receive(w, op, k, c, asked, all), IInv'
  PROVE  [Promised!Next]_(Promised!vars)
<1> DEFINE checked == Check(op, k, c, asked, all)
           r == [key |-> k, scope |-> ScopedChats(k), req |-> checked.req,
                 at |-> checked.at, unread |-> {}, answer |-> {},
                 result |-> checked.result, blank |-> op = "fetchnone",
                 may |-> IF k \in Keys THEN named[k] ELSE {},
                 dead |-> k \in revoked, lost |-> FALSE]
<1>1. served[w] = Idle /\ served' = [served EXCEPT ![w] = r] /\ UNCHANGED named
  BY DEF Receive, Serving, keys
<1>2. Sessions' = [Sessions EXCEPT ![w] = SessionOf(r)]
  BY <1>1, OneSession DEF IInv
<1>3. Sessions[w] = Promised!Free
  BY <1>1 DEF Sessions, SessionOf
<1>4. /\ r.key = k /\ r.answer = {} /\ r.blank = (op = "fetchnone")
      /\ r.may = IF k \in Keys THEN named[k] ELSE {}
  OBVIOUS
<1> HIDE DEF r
<1>5. CASE r = Idle \/ k \notin Keys \/ op = "fetchnone"
  <2>1. SessionOf(r) = Promised!Free
    BY <1>4, <1>5 DEF SessionOf
  <2>2. Sessions' = Sessions
    BY <1>2, <1>3, <2>1 DEF Sessions
  <2> QED BY <1>1, <2>2, Unseen
<1>6. CASE r # Idle /\ k \in Keys /\ op # "fetchnone"
  <2>1. SessionOf(r) \in {Promised!Asked(named[k]), Promised!Told(named[k], {})}
    BY <1>4, <1>6 DEF SessionOf
  <2>2. Promised!Ask(w, k)
    BY <1>1, <1>2, <1>3, <2>1, SessionsMapped, SessionsMappedNext DEF Promised!Ask
  <2> QED BY <1>6, <2>2 DEF Promised!Next
<1> QED BY <1>5, <1>6

LEMMA ServeImplements ==
  ASSUME IInv, IInv', NEW w \in Workers, Serve(w)
  PROVE  [Promised!Next]_(Promised!vars)
<1> USE DEF keys
<1>1. CASE Fail(w)
  BY <1>1, AnswerShows DEF Fail, Results
<1>2. CASE GetIndexInfo(w)
  <2>1. Serving(w) /\ ~At(w, "done") /\ UNCHANGED named
    BY <1>2 DEF GetIndexInfo, At
  <2>2. \/ served[w].req.chatID \in rows /\ Answer(w, "ok", {served[w].req.chatID})
        \/ Answer(w, "notfound", {})
    BY <1>2 DEF GetIndexInfo
  <2> QED BY <2>1, <2>2, AnswerShows DEF Results, IInv, TypeOK
<1>3. CASE GetIndexed(w)
  <2> DEFINE shown == IF IsMaster(served[w].key) THEN rows ELSE rows \cap served[w].scope
  <2>1. Serving(w) /\ ~At(w, "done") /\ UNCHANGED named
    BY <1>3 DEF GetIndexed, At
  <2>2. Answer(w, "ok", shown) \/ Answer(w, "notfound", {}) \/ Answer(w, "forbidden", {})
    BY <1>3 DEF GetIndexed
  <2>3. shown \in SUBSET Chats
    BY DEF IInv, TypeOK
  <2> QED BY <2>1, <2>2, <2>3, AnswerShows DEF Results
<1>4. CASE SearchEngine(w)
  <2>1. Serving(w) /\ ~At(w, "done") /\ served[w].at # "done" /\ UNCHANGED named
    BY <1>4 DEF SearchEngine, Asking, At
  <2>2. CASE Answer(w, "invalid", {}) \/ Answer(w, "notfound", {})
    BY <2>1, <2>2, AnswerShows DEF Results
  <2>3. ASSUME NEW hits \in Found(w),
               served' = [served EXCEPT ![w] = [@ EXCEPT !.at = "resolve", !.unread = hits]]
        PROVE  [Promised!Next]_(Promised!vars)
    <3> DEFINE r == [served[w] EXCEPT !.at = "resolve", !.unread = hits]
    <3>1. served[w] \in Requests /\ hits \subseteq Documents
      BY <2>1, FoundMatching DEF IInv, TypeOK, Serving
    <3>2. r \in Requests
      BY <3>1 DEF Requests, Phases
    <3>3. r.key = served[w].key /\ r.may = served[w].may /\ r.at = "resolve" /\ r.blank = served[w].blank
      BY <3>1 DEF Requests
    <3>4. Sessions' = Sessions
      BY <2>1, <2>3, <3>2, <3>3, GoesOn DEF IInv
    <3> QED BY <2>1, <3>4, Unseen
  <2> QED BY <1>4, <2>2, <2>3 DEF SearchEngine
<1>5. CASE Resolve(w)
  <2>1. Serving(w) /\ ~At(w, "done") /\ served[w].at = "resolve" /\ UNCHANGED named
        /\ served[w] \in Requests
    BY <1>5 DEF Resolve, At, IInv, TypeOK, Serving
  <2>2. PICK d \in served[w].unread :
          LET rest == served[w].unread \ {d}
              seen == served[w].answer \cup {d.chat}
          IN  IF d.chat \notin rows THEN Answer(w, "norow", {})
              ELSE IF rest = {} THEN Answer(w, "ok", seen)
              ELSE served' = [served EXCEPT ![w] = [@ EXCEPT !.unread = rest, !.answer = seen]]
    BY <1>5 DEF Resolve
  <2> DEFINE rest == served[w].unread \ {d}
             seen == served[w].answer \cup {d.chat}
             r == [served[w] EXCEPT !.unread = rest, !.answer = seen]
  <2>3. seen \in SUBSET Chats
    BY <2>1 DEF Requests, Documents
  <2>4. CASE Answer(w, "norow", {}) \/ Answer(w, "ok", seen)
    BY <2>1, <2>3, <2>4, AnswerShows DEF Results
  <2>5. CASE served' = [served EXCEPT ![w] = r]
    <3>1. r \in Requests
      BY <2>1, <2>3 DEF Requests
    <3>2. r.key = served[w].key /\ r.may = served[w].may /\ r.at = "resolve" /\ r.blank = served[w].blank
      BY <2>1 DEF Requests
    <3>3. Sessions' = Sessions
      BY <2>1, <2>5, <3>1, <3>2, GoesOn DEF IInv
    <3> QED BY <2>1, <3>3, Unseen
  <2> QED BY <2>2, <2>4, <2>5
<1>6. CASE Sent(w)
  <2>1. /\ Serving(w) /\ served[w].at = "done" /\ UNCHANGED named
        /\ served' = [served EXCEPT ![w] = Idle]
    BY <1>6 DEF Sent, At
  <2>2. Sessions' = [Sessions EXCEPT ![w] = Promised!Free]
    BY <2>1, OneSession DEF IInv, SessionOf
  <2>3. CASE served[w].key \notin Keys \/ served[w].blank
    <3>1. Sessions' = Sessions
      BY <2>2, <2>3 DEF Sessions, SessionOf
    <3> QED BY <2>1, <3>1, Unseen
  <2>4. CASE served[w].key \in Keys /\ ~served[w].blank
    <3>1. Sessions[w].at = "told"
      BY <2>1, <2>4 DEF Sessions, SessionOf, Serving, Promised!Told
    <3>2. Promised!Leave(w)
      BY <2>1, <2>2, <3>1, SessionsMapped, SessionsMappedNext DEF Promised!Leave
    <3> QED BY <3>2 DEF Promised!Next
  <2> QED BY <2>3, <2>4
<1> QED BY <1>1, <1>2, <1>3, <1>4, <1>5, <1>6 DEF Serve

\* A command gives chats to one key, takes them all from one, or is not seen.
LEMMA CommandImplements ==
  ASSUME IInv, Command
  PROVE  [Promised!Next]_(Promised!vars)
<1>1. served' = served => Sessions' = Sessions
  BY DEF Sessions
<1>2. ASSUME NEW k \in Keys, NEW cs \in SUBSET Chats,
             named' = [named EXCEPT ![k] = @ \cup cs], served' = served
      PROVE  [Promised!Next]_(Promised!vars)
  <2>1. Promised!Give(k, cs)
    BY <1>1, <1>2, SessionsMapped, SessionsMappedNext DEF Promised!Give
  <2> QED BY <2>1 DEF Promised!Next
<1>3. ASSUME NEW k \in Keys, joined[k] = NoKey
      PROVE  named[k] = {}
  BY <1>3 DEF IInv, KeysInv
<1>4. ASSUME NEW k \in Keys, NEW cs \in SUBSET Chats, AddApiKey(k, cs)
      PROVE  [Promised!Next]_(Promised!vars)
  BY <1>2, <1>3, <1>4 DEF AddApiKey
<1>5. ASSUME NEW k \in Keys, NEW cs \in SUBSET Chats, SetApiKey(k, cs)
      PROVE  [Promised!Next]_(Promised!vars)
  BY <1>1, <1>5, Unseen DEF SetApiKey
<1>6. ASSUME NEW k \in Keys, SaveApiKey(k)
      PROVE  [Promised!Next]_(Promised!vars)
  <2> DEFINE all == setting[k].kept \cup setting[k].chats
  <2>1. all \in SUBSET Chats /\ served' = served
    BY <1>6 DEF SaveApiKey, IInv, TypeOK
  <2>2. \/ UNCHANGED named
        \/ named' = [named EXCEPT ![k] = @ \cup all]
    <3>1. named[k] \cup setting[k].kept \cup setting[k].chats = named[k] \cup all
      OBVIOUS
    <3> QED BY <1>6, <3>1 DEF SaveApiKey
  <2> QED BY <1>1, <1>2, <2>1, <2>2, Unseen
<1>7. ASSUME NEW k \in Keys, DelApiKey(k)
      PROVE  [Promised!Next]_(Promised!vars)
  <2>1. Promised!TakeAll(k)
    BY <1>1, <1>7, SessionsMapped, SessionsMappedNext DEF DelApiKey, Promised!TakeAll
  <2> QED BY <2>1 DEF Promised!Next
<1>8. ASSUME NEW c \in Chats, AddChat(c) \/ DelDocuments(c)
      PROVE  [Promised!Next]_(Promised!vars)
  BY <1>1, <1>8, Unseen DEF AddChat, DelDocuments, keys
<1>9. ASSUME NEW c \in Chats, DelChat(c)
      PROVE  [Promised!Next]_(Promised!vars)
  <2>1. ASSUME NEW w \in Workers
        PROVE  SessionOf(served'[w]) = SessionOf(served[w])
    <3>1. CASE served'[w] = served[w]
      BY <3>1
    <3>2. CASE Serving(w) /\ served'[w] = [served[w] EXCEPT !.lost = TRUE]
      <4>1. served[w] \in Requests
        BY <3>2 DEF IInv, TypeOK, Serving
      <4>2. served'[w] \in Requests
        BY <3>2, <4>1 DEF Requests
      <4> QED BY <3>2, <4>1, <4>2, IdleAssumption DEF SessionOf, Requests
    <3> QED BY <1>9, <3>1, <3>2 DEF DelChat
  <2>2. Sessions' = Sessions
    BY <2>1 DEF Sessions
  <2> QED BY <1>9, <2>2, Unseen DEF DelChat
<1> QED BY <1>4, <1>5, <1>6, <1>7, <1>8, <1>9 DEF Command

\* For any chats, keys and workers, whatever the commands and the engine do
\* between the steps of a request, the API keeps the promise of Access, but for
\* requests for an empty list of ids.
THEOREM Refinement == Spec => ImplementsAccess
<1>1. Init => Promised!Init
  <2>1. ASSUME Init PROVE Sessions = [w \in Workers |-> Promised!Free]
    BY <2>1 DEF Init, Sessions, SessionOf
  <2> QED BY <2>1, SessionsMapped DEF Init, Promised!Init
<1>2. ASSUME IInv, IInv', [Next]_vars
      PROVE  [Promised!Next]_(Promised!vars)
  <2>1. CASE Command
    BY <1>2, <2>1, CommandImplements
  <2>2. CASE Live
    <3>1. Sessions' = Sessions /\ UNCHANGED named
      BY <2>2 DEF Live, IndexMessage, Sessions, keys
    <3> QED BY <3>1, Unseen
  <2>3. ASSUME NEW w \in Workers, Request(w)
        PROVE  [Promised!Next]_(Promised!vars)
    BY <1>2, <2>3, ReceiveAsks DEF Request
  <2>4. ASSUME NEW w \in Workers, Serve(w)
        PROVE  [Promised!Next]_(Promised!vars)
    BY <1>2, <2>4, ServeImplements
  <2>5. CASE UNCHANGED vars
    <3>1. Sessions' = Sessions /\ UNCHANGED named
      BY <2>5 DEF vars, Sessions, keys
    <3> QED BY <3>1, Unseen
  <2> QED BY <1>2, <2>1, <2>2, <2>3, <2>4, <2>5 DEF Next
<1> QED BY <1>1, <1>2, Inductive, PTL DEF Spec, Promised!Spec, ImplementsAccess

=============================================================================
