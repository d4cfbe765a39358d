----------------------------- MODULE SearchSession -----------------------------
(***************************************************************************)
(* Searching through a bot (bot/search.go, list.go, select.go, inline.go;  *)
(* subbot/handlers.go), with the cache that keeps the request behind the   *)
(* buttons of a message (utils/cache/cache.go, utils/message.go).          *)
(*                                                                         *)
(* A message with results carries a keyboard that names a cached request.  *)
(* Pressing a button reads the request, searches, caches the new request   *)
(* under a fresh id, and edits the message; a filter button then writes    *)
(* the new request under the old id as well.  Presses run side by side.    *)
(*                                                                         *)
(* Bound: one conversation at a time.  A search or a list is asked for     *)
(* when no press of the last message is handled any more, and takes the    *)
(* place of the last message and of the last list.                         *)
(***************************************************************************)
EXTENDS Search

CONSTANTS
  Groups,     \* chats in which the bots are asked too
  Admins,     \* users that CheckPermission and CheckAdmin accept
  Strangers,  \* users that they do not accept
  Joined,     \* chats whose members the strangers are
  SubChats,   \* the chats of the sub-bot
  Volatile,   \* bound: the chats that become public or private, or are deleted
  Ids,        \* ids of cached requests; one that nothing names is fresh again
  Presses,    \* goroutines that handle the presses of buttons
  Nothing     \* an expired entry, a message not sent, an idle goroutine

Users   == Admins \cup Strangers
Spaces  == {"pm"} \cup Groups            \* a private chat with the bot, or a group
Buttons == Kinds \cup (1 .. MaxPages)    \* a filter, or a page to turn to

ASSUME SessionAssumption ==
  /\ Groups \subseteq Chats /\ Joined \subseteq Chats /\ SubChats \subseteq Chats
  /\ Volatile \subseteq Chats
  /\ "pm" \notin Groups
  /\ Admins \cap Strangers = {}

\* A fresh id is left, whatever the message and the presses name.
ASSUME IdsAssumption ==
  /\ Ids # {}
  /\ \A i \in Ids, named \in [Presses -> Ids] :
       \E k \in Ids : k # i /\ \A j \in Presses : named[j] # k

VARIABLES
  rows,      \* chats with a row in index_chats
  public,    \* those of them that are public
  docs,      \* documents the engine holds
  cache,     \* the request cached under each id
  selected,  \* the chat cached under the id of the list
  picks,     \* choices in the list that are cached, their edit of the list to come
  list,      \* the message that answered /ls
  message,   \* the message with results
  press      \* what each goroutine is doing

vars   == <<rows, public, docs, cache, selected, picks, list, message, press>>
chats  == <<rows, public, docs>>
choice == <<selected, picks, list>>

-----------------------------------------------------------------------------
(* Messages and presses *)

\* The id is Nothing for an answer without a keyboard.  may and prompt are
\* history: the chats the user was entitled to search when the message was asked
\* for, and the chat named by the list that he replied to, the choice being
\* cached and the only one that was made; off says that a filter's edit of the
\* message failed since its keyboard was sent.
Messages ==
  [id : Ids \cup {Nothing}, page : 1 .. MaxPages, marks : SUBSET Kinds,
   shown : (SUBSET Chats) \ {{}}, may : SUBSET Chats,
   prompt : Chats \cup {NoChat}, off : BOOLEAN]

\* chat is the one that the list's text names once a choice was made; tried is
\* history: the choices made.
Lists == [user : Users, offers : SUBSET Chats, chat : Chats \cup {NoChat},
          tried : SUBSET Chats]

PressOf == [id : Ids, at : {"get", "edit", "set"}, button : Buttons,
            data : SearchRequest \cup {Nothing}, shown : SUBSET Chats]

Pressing(j) == press[j] # Nothing
Quiet       == \A j \in Presses : ~Pressing(j)

ASSUME NothingAssumption ==
  /\ Nothing \notin Ids /\ Nothing \notin SearchRequest
  /\ Nothing \notin Messages /\ Nothing \notin Lists /\ Nothing \notin PressOf

\* A press uses its id until it has read the request, a filter to the end.
Uses(pr) == pr.at = "get" \/ pr.button \in Kinds

\* The ids that a keyboard or a press names.  An entry that nothing names is as
\* good as none, and its id as good as a new one.
Named(m, pr) == (IF m = Nothing THEN {} ELSE {m.id})
                \cup {pr[j].id : j \in {x \in Presses : pr[x] # Nothing /\ Uses(pr[x])}}

NewId == CHOOSE i \in Ids : i \notin Named(message, press)

Kept(entries, m, pr) == [i \in Ids |-> IF i \in Named(m, pr) THEN entries[i] ELSE Nothing]

\* The chats of a page of hits.  BuildResultStyling reads the row of each hit's
\* chat and uses it even when there is none, which ends the handler: such a page
\* is never sent, and neither is an empty one.
Shown(req) == {ChatsOf(hits) : hits \in Pages(req, docs)}

\* A slip: a page without hits is sent.
SendableEmpty(cs) == cs \subseteq rows

Sendable(cs) == cs # {} /\ cs \subseteq rows

-----------------------------------------------------------------------------
(* What a search covers *)

PublicChats == public

\* A slip: the selected chat is not looked at.
MainRequestUnselected(user, space, chat) ==
  IF space # "pm" THEN ChatRequest(space)
  ELSE IF user \in Admins THEN AllRequest ELSE ChatsRequest(PublicChats)

\* A slip: every chat.
MainRequestAll(user, space, chat) ==
  IF space # "pm" THEN ChatRequest(space)
  ELSE IF chat # NoChat THEN ChatRequest(chat) ELSE AllRequest

\* Search by the main bot: in a group that group, in a private chat the selected
\* chat, or everything, or what is public.
MainRequest(user, space, chat) ==
  IF space # "pm" THEN ChatRequest(space)
  ELSE IF chat # NoChat THEN ChatRequest(chat)
  ELSE IF user \in Admins THEN AllRequest
  ELSE IF Cardinality(PublicChats) = 1
       THEN ChatRequest(CHOOSE c \in PublicChats : TRUE)
       ELSE ChatsRequest(PublicChats)

\* The group, or the selected chat, must have a row.
MainMay(space, chat) == (IF space # "pm" THEN space ELSE chat) \in rows \cup {NoChat}

\* The sub-bot: its chats for an admin; else those that are public, the group,
\* or, in private, the ones the user is a member of.
SubChatsFor(user, space) ==
  IF user \in Admins THEN SubChats
  ELSE {c \in SubChats \cap rows :
          c \in public \/ c = space \/ (space = "pm" /\ c \in Joined)}

\* What a user is entitled to search when he asks, by the rules of README.md.
EntitledMain(user, space, offers) ==
  IF space # "pm" THEN {space}
  ELSE IF user \in Admins THEN Chats ELSE public \cup offers

EntitledSub(user, space) ==
  {c \in SubChats : \/ user \in Admins \/ c \in public \/ c = space
                    \/ space = "pm" /\ c \in Joined}

Answer(i, cs, may, prompt) ==
  [id |-> i, page |-> 1, marks |-> {}, shown |-> cs, may |-> may,
   prompt |-> prompt, off |-> FALSE]

NoList == list' = Nothing /\ selected' = NoChat /\ picks' = {}

\* The first page is sent with a keyboard; it may be pressed from then on.
Reply(req, may, prompt) ==
  /\ Quiet /\ HasScope(req)
  /\ \E cs \in Shown(req) :
       /\ Sendable(cs)
       /\ message' = Answer(NewId, cs, may, prompt)
       /\ cache' = [i \in Ids |-> IF i = NewId THEN req ELSE Nothing]
  /\ NoList /\ UNCHANGED <<chats, press>>

\* Not a reply to a list.
MainSearch(user, space) ==
  /\ MainMay(space, NoChat)
  /\ Reply(MainRequest(user, space, NoChat), EntitledMain(user, space, {}), NoChat)

\* A reply to the list, in private: what counts is what is cached under its id.
MainSearchReply ==
  /\ list # Nothing /\ MainMay("pm", selected)
  /\ Reply(MainRequest(list.user, "pm", selected),
           EntitledMain(list.user, "pm", list.offers),
           IF selected # NoChat /\ Cardinality(list.tried) = 1 THEN list.chat ELSE NoChat)

SubSearch(user, space) ==
  Reply(ChatsRequest(SubChatsFor(user, space)), EntitledSub(user, space), NoChat)

\* An inline query has no keyboard, asks for up to 48 hits, and does without the
\* rows of their chats.
InlineQuery(req, may) ==
  /\ Quiet /\ HasScope(req)
  /\ LET cs == ChatsOf(Matching(req, docs))
     IN  cs # {} /\ message' = Answer(Nothing, cs, may, NoChat)
  /\ cache' = [i \in Ids |-> Nothing]
  /\ NoList /\ UNCHANGED <<chats, press>>

MainInline(user) == user \in Admins /\ InlineQuery(AllRequest, Chats)

SubInline(user) ==
  InlineQuery(ChatsRequest(SubChatsFor(user, "pm")), EntitledSub(user, "pm"))

-----------------------------------------------------------------------------
(* Lists, in private *)

\* /ls: all chats for an admin, the public ones for others.
List(user) ==
  /\ Quiet
  /\ LET offers == IF user \in Admins THEN rows ELSE PublicChats
     IN  /\ offers # {}
         /\ list' = [user |-> user, offers |-> offers, chat |-> NoChat, tried |-> {}]
  /\ selected' = NoChat /\ picks' = {} /\ message' = Nothing
  /\ cache' = [i \in Ids |-> Nothing]
  /\ UNCHANGED <<chats, press>>

\* A button of the list, while the list has buttons: the choice is cached.
Select(c) ==
  /\ list # Nothing /\ list.chat = NoChat /\ c \in list.offers \cap rows
  /\ selected' = c /\ picks' = picks \cup {c}
  /\ list' = [list EXCEPT !.tried = @ \cup {c}]
  /\ UNCHANGED <<chats, cache, message, press>>

\* Then the edit names the choice, and takes the buttons away; or it fails.
SelectEdit(c) ==
  /\ c \in picks /\ picks' = picks \ {c}
  /\ list' \in {list, [list EXCEPT !.chat = c]}
  /\ UNCHANGED <<chats, cache, selected, message, press>>

-----------------------------------------------------------------------------
(* Buttons of a message with results *)

\* The buttons turn to the page before and to the page after.
Press(j, b) ==
  /\ message # Nothing /\ message.id # Nothing /\ ~Pressing(j)
  /\ b \in Kinds \cup {message.page - 1, message.page + 1}
  /\ press' = [press EXCEPT ![j] =
       [id |-> message.id, at |-> "get", button |-> b, data |-> Nothing, shown |-> {}]]
  /\ UNCHANGED <<chats, choice, cache, message>>

Toggled(marks, kind) == IF kind \in marks THEN marks \ {kind} ELSE marks \cup {kind}

\* A slip: the page stays when the filters change.
NextRequestSamePage(b, data) ==
  IF b \in Kinds THEN [data EXCEPT !.typeFilters = Toggled(@, b)]
  ELSE [data EXCEPT !.offset = (b - 1) * PerSearchLimit]

\* A filter starts again from the first page; a page keeps the filters.
NextRequest(b, data) ==
  IF b \in Kinds THEN [data EXCEPT !.typeFilters = Toggled(@, b), !.offset = 0]
  ELSE [data EXCEPT !.offset = (b - 1) * PerSearchLimit]

\* The request is read and searched with.
PressGet(j) ==
  /\ Pressing(j) /\ press[j].at = "get" /\ cache[press[j].id] # Nothing
  /\ LET req == NextRequest(press[j].button, cache[press[j].id])
     IN  \E cs \in Shown(req) :
           /\ Sendable(cs)
           /\ press' = [press EXCEPT ![j].at = "edit", ![j].data = req, ![j].shown = cs]
  /\ UNCHANGED <<chats, choice, cache, message>>

\* The request is expired, the engine fails, or the page cannot be sent.
PressDropped(j) ==
  /\ Pressing(j) /\ press[j].at = "get"
  /\ press' = [press EXCEPT ![j] = Nothing]
  /\ cache' = Kept(cache, message, press')
  /\ UNCHANGED <<chats, choice, message>>

\* Only a filter has a last step.
AfterEdit(j) == IF press[j].button \in Kinds
                THEN [press EXCEPT ![j].at = "set", ![j].shown = {}]
                ELSE [press EXCEPT ![j] = Nothing]

Edited(j, i) ==
  [message EXCEPT !.id = i, !.off = FALSE, !.shown = press[j].shown,
                  !.page = IF press[j].button \in Kinds THEN 1 ELSE press[j].button,
                  !.marks = press[j].data.typeFilters]

\* BuildSearchReplyMarkup caches the request under a fresh id, and the edit puts
\* text and keyboard into the message at once.
PressEdit(j) ==
  /\ Pressing(j) /\ press[j].at = "edit"
  /\ press' = AfterEdit(j)
  /\ message' = Edited(j, NewId)
  /\ cache' = Kept([cache EXCEPT ![NewId] = press[j].data], message', press')
  /\ UNCHANGED <<chats, choice>>

\* The edit fails; the handler goes on all the same.
PressEditFails(j) ==
  /\ Pressing(j) /\ press[j].at = "edit"
  /\ press' = AfterEdit(j)
  /\ message' = [message EXCEPT !.off = @ \/ (press[j].button \in Kinds /\ press[j].id = message.id)]
  /\ cache' = Kept(cache, message', press')
  /\ UNCHANGED <<chats, choice>>

\* The last step of a filter: the request that its buttons named is replaced.
PressSet(j) ==
  /\ Pressing(j) /\ press[j].at = "set"
  /\ press' = [press EXCEPT ![j] = Nothing]
  /\ cache' = Kept([cache EXCEPT ![press[j].id] = press[j].data], message, press')
  /\ UNCHANGED <<chats, choice, message>>

-----------------------------------------------------------------------------
(* The rest of the world *)

\* An entry expires or is evicted.  Bound: when no press is handled; a press
\* whose entry expires is one that is dropped, and the last step of a filter
\* caches its request whether the old one expired or not.
Expire(i) ==
  /\ Quiet /\ cache[i] # Nothing /\ cache' = [cache EXCEPT ![i] = Nothing]
  /\ UNCHANGED <<chats, choice, message, press>>

ExpireChoice ==
  /\ selected # NoChat /\ selected' = NoChat
  /\ UNCHANGED <<chats, cache, picks, list, message, press>>

\* The process is started again: the cache is empty, no handler runs.
Restart ==
  /\ cache' = [i \in Ids |-> Nothing] /\ selected' = NoChat
  /\ press' = [j \in Presses |-> Nothing] /\ picks' = {}
  /\ UNCHANGED <<chats, list, message>>

\* No button looks at it; bound: it changes when no press is handled.
SetPublic(c) ==
  /\ Quiet /\ c \in rows
  /\ public' = IF c \in public THEN public \ {c} ELSE public \cup {c}
  /\ UNCHANGED <<rows, docs, cache, choice, message, press>>

\* /del deletes the row, and the documents after it.  Bound: the chat is not
\* added again.
DelChat(c) ==
  /\ c \in rows
  /\ rows' = rows \ {c} /\ public' = public \ {c}
  /\ UNCHANGED <<docs, cache, choice, message, press>>

DelDocuments(c) ==
  /\ c \notin rows
  /\ docs' = {d \in docs : d.chat # c}
  /\ UNCHANGED <<rows, public, cache, choice, message, press>>

-----------------------------------------------------------------------------
\* Bound: the chats that do not change are public.
Init ==
  /\ rows = Chats /\ public = Chats \ Volatile /\ docs = Documents
  /\ cache = [i \in Ids |-> Nothing]
  /\ selected = NoChat /\ picks = {} /\ list = Nothing
  /\ message = Nothing
  /\ press = [j \in Presses |-> Nothing]

Searches ==
  \/ \E user \in Users, space \in Spaces : MainSearch(user, space) \/ SubSearch(user, space)
  \/ \E user \in Users : MainInline(user) \/ SubInline(user) \/ List(user)
  \/ MainSearchReply

PressSteps ==
  \E j \in Presses :
    \/ \E b \in Buttons : Press(j, b)
    \/ PressGet(j) \/ PressDropped(j)
    \/ PressEdit(j) \/ PressEditFails(j) \/ PressSet(j)

World ==
  \/ \E i \in Ids : Expire(i)
  \/ ExpireChoice \/ Restart
  \/ \E c \in Volatile : SetPublic(c) \/ DelChat(c) \/ DelDocuments(c)

Next ==
  \/ Searches \/ PressSteps \/ World
  \/ \E c \in Chats : Select(c) \/ SelectEdit(c)

Spec == Init /\ [][Next]_vars

-----------------------------------------------------------------------------
(* Properties *)

\* Every variable has its type: a message is never empty, and a press waits to
\* edit exactly when it has a request.
TypeOK ==
  /\ public \subseteq rows /\ rows \subseteq Chats /\ docs \subseteq Documents
  /\ cache \in [Ids -> SearchRequest \cup {Nothing}]
  /\ selected \in Chats \cup {NoChat} /\ picks \subseteq Chats
  /\ list = Nothing \/ list \in Lists
  /\ message = Nothing \/ message \in Messages
  /\ press \in [Presses -> PressOf \cup {Nothing}]
  /\ \A j \in Presses : Pressing(j) => (press[j].at # "get" <=> press[j].data # Nothing)

\* What the buttons of a message say is what pressing them starts from: while
\* the request they name is cached, it has the filters that are ticked and the
\* page that is displayed.  Concurrent presses keep this, because each edit
\* brings a request of its own; a failed edit breaks it, because the filter's
\* last step replaces the request all the same (bot/search.go:308).
KeyboardHonest ==
  message # Nothing /\ message.id # Nothing /\ ~message.off =>
    LET entry == cache[message.id]
    IN  entry # Nothing =>
          /\ entry.typeFilters = message.marks
          /\ entry.offset = (message.page - 1) * PerSearchLimit

\* Whatever is pressed, and whatever changes meanwhile, a message shows chats
\* that its user was entitled to search when it was asked for: a sub-bot shows
\* only its own chats (README.md), the main bot shows a group only itself, and a
\* stranger sees what was public then or was offered by the list.
StaysEntitled == message # Nothing => message.shown \subseteq message.may

\* A reply to a list that says "reply to this message to search chat X" searches
\* X and nothing else (bot/select.go:47) while the choice is cached.  When two
\* buttons of a list were pressed, the last edit to be done need not name the
\* last choice to be cached: the property speaks of lists pressed once.
PromptKept ==
  message # Nothing /\ message.prompt # NoChat => message.shown \subseteq {message.prompt}

=============================================================================
