-------------------------- MODULE SearchSessionProofs --------------------------
(***************************************************************************)
(* What is proved of searching through a bot, for any chats, users, ids,   *)
(* handlers of presses and number of pages.                                *)
(***************************************************************************)
EXTENDS SearchSession, FiniteSetTheorems, TLAPS

\* The chats that a request covers.
Covers(req, c) == req.allChats \/ c = req.chatID \/ (req.chatID = NoChat /\ c \in req.chatIDs)

Within(req, cs) == \A c \in Chats : Covers(req, c) => c \in cs

\* What a message may show, by whom asked for it and by what the list promised.
Bounds(m) == m.may \cap (IF m.prompt = NoChat THEN Chats ELSE {m.prompt})

\* The offset a button leads to.
Leads(b) == IF b \in Kinds THEN 0 ELSE (b - 1) * PerSearchLimit

MessageInv ==
  /\ message # Nothing => message.shown \subseteq Bounds(message)
  /\ \A i \in Ids : cache[i] # Nothing =>
       message # Nothing /\ Within(cache[i], Bounds(message))

\* A filter whose edit is done has its old id to itself, or the message is off.
PressInv(j) ==
  Pressing(j) =>
    /\ message # Nothing /\ message.id # Nothing
    /\ press[j].at # "get" =>
         Within(press[j].data, Bounds(message)) /\ press[j].data.offset = Leads(press[j].button)
    /\ press[j].at = "edit" => press[j].shown # {} /\ press[j].shown \subseteq Bounds(message)
    /\ press[j].at = "set" => press[j].button \in Kinds /\ (press[j].id = message.id => message.off)

ListInv ==
  /\ selected # NoChat => list # Nothing /\ selected \in list.offers \cap list.tried
  /\ list = Nothing => picks = {}
  /\ list # Nothing =>
       /\ IsFiniteSet(list.tried) /\ picks \subseteq list.tried
       /\ list.chat # NoChat => list.chat \in list.tried

IInv ==
  /\ TypeOK /\ MessageInv /\ ListInv /\ KeyboardHonest
  /\ \A j \in Presses : PressInv(j)

-----------------------------------------------------------------------------
(* Ids *)

\* A new id is new to the message and to every press that goes by one.
LEMMA FreshId ==
  ASSUME TypeOK
  PROVE  /\ NewId \in Ids
         /\ message # Nothing => message.id # NewId
         /\ \A j \in Presses : Pressing(j) /\ Uses(press[j]) => press[j].id # NewId
<1>1. PICK i \in Ids : message # Nothing /\ message.id # Nothing => i = message.id
  BY IdsAssumption DEF TypeOK, Messages
<1> DEFINE named == [j \in Presses |-> IF Pressing(j) THEN press[j].id ELSE i]
<1>2. named \in [Presses -> Ids]
  BY DEF TypeOK, PressOf, Pressing
<1>3. PICK k \in Ids : k # i /\ \A j \in Presses : named[j] # k
  BY <1>2, IdsAssumption
<1>4. \A j \in Presses : Pressing(j) => press[j].id # k
  BY <1>3
<1>5. k \notin Named(message, press)
  BY <1>1, <1>3, <1>4, NothingAssumption DEF Named, Pressing
<1>6. NewId \in Ids /\ NewId \notin Named(message, press)
  BY <1>5 DEF NewId
<1> QED
  BY <1>6 DEF Named, Pressing

\* Who keeps what under its id.
LEMMA KeptFacts ==
  ASSUME NEW entries \in [Ids -> SearchRequest \cup {Nothing}], NEW m, NEW pr
  PROVE  /\ Kept(entries, m, pr) \in [Ids -> SearchRequest \cup {Nothing}]
         /\ \A i \in Ids : Kept(entries, m, pr)[i] # Nothing => Kept(entries, m, pr)[i] = entries[i]
BY DEF Kept

-----------------------------------------------------------------------------
(* Requests *)

LEMMA ZeroOffset == 0 \in Offsets
<1>1. 1 \in 1 .. MaxPages /\ (1 - 1) * PerSearchLimit = 0
  BY SearchAssumption
<1> QED
  BY <1>1 DEF Offsets

\* A request before any button was pressed, which covers no more than cs.
First(req, cs) ==
  req \in SearchRequest /\ req.typeFilters = {} /\ req.offset = 0 /\ Within(req, cs)

LEMMA ChatFirst == ASSUME NEW c \in Chats, NEW cs, c \in cs PROVE First(ChatRequest(c), cs)
BY ZeroOffset, SearchAssumption DEF First, ChatRequest, SearchRequest, Within, Covers

LEMMA ChatsFirst ==
  ASSUME NEW ds \in SUBSET Chats, NEW cs, ds \subseteq cs PROVE First(ChatsRequest(ds), cs)
<1>1. /\ ChatsRequest(ds) \in SearchRequest
      /\ ChatsRequest(ds).typeFilters = {} /\ ChatsRequest(ds).offset = 0
      /\ ChatsRequest(ds).allChats = FALSE /\ ChatsRequest(ds).chatID = NoChat
      /\ ChatsRequest(ds).chatIDs = ds
  BY ZeroOffset DEF ChatsRequest, ChatRequest, SearchRequest
<1>2. \A c \in Chats : Covers(ChatsRequest(ds), c) => c \in cs
  BY <1>1, SearchAssumption DEF Covers
<1> QED
  BY <1>1, <1>2 DEF First, Within

LEMMA AllFirst == First(AllRequest, Chats)
<1>1. /\ AllRequest \in SearchRequest
      /\ AllRequest.typeFilters = {} /\ AllRequest.offset = 0
  BY ZeroOffset DEF AllRequest, ChatRequest, SearchRequest
<1> QED
  BY <1>1 DEF First, Within

\* Hits come from the chats that the request covers.
LEMMA MatchingWithin ==
  ASSUME docs \subseteq Documents, NEW req, NEW cs, Within(req, cs)
  PROVE  ChatsOf(Matching(req, docs)) \subseteq Chats \cap cs
BY DEF ChatsOf, Matching, FilterExpression, Documents, Within, Covers

LEMMA ShownWithin ==
  ASSUME docs \subseteq Documents, NEW req, NEW cs, Within(req, cs), NEW shown \in Shown(req)
  PROVE  shown \subseteq Chats \cap cs
<1>1. PICK hits \in Pages(req, docs) : shown = ChatsOf(hits)
  BY DEF Shown
<1>2. hits \subseteq Matching(req, docs)
  BY <1>1 DEF Pages, kSubset
<1> QED
  BY <1>1, <1>2, MatchingWithin DEF ChatsOf

LEMMA NextRequestFacts ==
  ASSUME NEW b \in Buttons, NEW data \in SearchRequest
  PROVE  /\ NextRequest(b, data) \in SearchRequest
         /\ NextRequest(b, data).offset = Leads(b)
         /\ \A cs : Within(data, cs) => Within(NextRequest(b, data), cs)
<1>1. CASE b \in Kinds
  <2>1. Toggled(data.typeFilters, b) \in SUBSET Kinds
    BY <1>1 DEF Toggled, SearchRequest
  <2>2. NextRequest(b, data) =
          [data EXCEPT !.typeFilters = Toggled(data.typeFilters, b), !.offset = 0]
    BY <1>1 DEF NextRequest, SearchRequest
  <2> QED
    BY <1>1, <2>1, <2>2, ZeroOffset DEF SearchRequest, Leads, Within, Covers
<1>2. CASE b \notin Kinds
  <2>1. b \in 1 .. MaxPages
    BY <1>2 DEF Buttons
  <2>2. NextRequest(b, data) = [data EXCEPT !.offset = (b - 1) * PerSearchLimit]
    BY <1>2 DEF NextRequest
  <2>3. (b - 1) * PerSearchLimit \in Offsets
    BY <2>1 DEF Offsets
  <2> QED
    BY <1>2, <2>2, <2>3 DEF SearchRequest, Leads, Within, Covers
<1> QED
  BY <1>1, <1>2

-----------------------------------------------------------------------------
(* Answers *)

PromptOf(prompt) == IF prompt = NoChat THEN Chats ELSE {prompt}

\* What is to be shown of a step that answers with a message, or with none, while
\* no press is under way.
LEMMA QuietStep ==
  ASSUME IInv, Quiet, UNCHANGED <<chats, press>>,
         cache' \in [Ids -> SearchRequest \cup {Nothing}],
         message' = Nothing \/ message' \in Messages,
         MessageInv', KeyboardHonest',
         selected' \in Chats \cup {NoChat}, picks' \subseteq Chats,
         list' = Nothing \/ list' \in Lists, ListInv'
  PROVE  IInv'
<1>1. TypeOK'
  BY DEF IInv, TypeOK, chats, Quiet, Pressing
<1>2. \A j \in Presses : PressInv(j)'
  BY DEF Quiet, PressInv, Pressing
<1> QED
  BY <1>1, <1>2 DEF IInv

LEMMA NoListInv == ASSUME NoList PROVE ListInv' /\ list' = Nothing /\ selected' = NoChat /\ picks' = {}
BY DEF NoList, ListInv

LEMMA AnswerType ==
  ASSUME NEW i \in Ids \cup {Nothing}, NEW cs \in SUBSET Chats, cs # {}, NEW may \in SUBSET Chats,
         NEW prompt \in Chats \cup {NoChat}
  PROVE  Answer(i, cs, may, prompt) \in Messages
BY SearchAssumption DEF Answer, Messages

LEMMA ReplyStep ==
  ASSUME IInv, NEW req, NEW may \in SUBSET Chats, NEW prompt \in Chats \cup {NoChat},
         First(req, may \cap PromptOf(prompt)), Reply(req, may, prompt)
  PROVE  IInv'
<1>1. TypeOK
  BY DEF IInv
<1>2. PICK cs \in Shown(req) :
        /\ cs # {} /\ message' = Answer(NewId, cs, may, prompt)
        /\ cache' = [i \in Ids |-> IF i = NewId THEN req ELSE Nothing]
  BY DEF Reply, Sendable
<1>3. cs \in SUBSET Chats /\ cs \subseteq may \cap PromptOf(prompt)
  BY <1>1, ShownWithin DEF First, TypeOK
<1>4. NewId \in Ids
  BY <1>1, FreshId
<1>5. message' \in Messages /\ message' # Nothing
  BY <1>2, <1>3, <1>4, AnswerType, NothingAssumption
<1>6. /\ message'.id = NewId /\ message'.page = 1 /\ message'.marks = {} /\ message'.shown = cs
      /\ Bounds(message)' = may \cap PromptOf(prompt)
  BY <1>2 DEF Answer, Bounds, PromptOf
<1>7. cache' \in [Ids -> SearchRequest \cup {Nothing}]
  BY <1>2 DEF First
<1>8. \A i \in Ids : cache'[i] # Nothing => cache'[i] = req
  BY <1>2
<1>9. MessageInv'
  BY <1>3, <1>5, <1>6, <1>8 DEF MessageInv, First
<1>10. KeyboardHonest'
  <2>1. (1 - 1) * PerSearchLimit = 0
    BY SearchAssumption
  <2> QED
    BY <1>4, <1>6, <1>8, <2>1 DEF KeyboardHonest, First
<1>11. Quiet /\ NoList /\ UNCHANGED <<chats, press>>
  BY DEF Reply
<1> QED
  BY <1>5, <1>7, <1>9, <1>10, <1>11, NoListInv, QuietStep

LEMMA InlineStep ==
  ASSUME IInv, NEW req, NEW may \in SUBSET Chats, First(req, may), InlineQuery(req, may)
  PROVE  IInv'
<1>1. PICK cs : /\ cs = ChatsOf(Matching(req, docs)) /\ cs # {}
                /\ message' = Answer(Nothing, cs, may, NoChat)
  BY DEF InlineQuery
<1>2. cs \in SUBSET Chats /\ cs \subseteq may
  BY <1>1, MatchingWithin DEF IInv, TypeOK, First
<1>3. message' \in Messages /\ message' # Nothing
  BY <1>1, <1>2, AnswerType, NothingAssumption
<1>4. message'.id = Nothing /\ message'.shown = cs /\ Bounds(message)' = may \cap Chats
  BY <1>1 DEF Answer, Bounds
<1>5. cache' = [i \in Ids |-> Nothing]
  BY DEF InlineQuery
<1>6. MessageInv' /\ KeyboardHonest'
  BY <1>2, <1>4, <1>5 DEF MessageInv, KeyboardHonest
<1>7. Quiet /\ NoList /\ UNCHANGED <<chats, press>>
  BY DEF InlineQuery
<1> QED
  BY <1>3, <1>5, <1>6, <1>7, NoListInv, QuietStep

-----------------------------------------------------------------------------
(* What the searches cover *)

LEMMA OneElement == ASSUME NEW S, Cardinality(S) = 1 PROVE S # {}
BY FS_EmptySet

\* The main bot covers what the user is entitled to, and a selected chat only.
LEMMA MainFirst ==
  ASSUME TypeOK, NEW user \in Users, NEW space \in Spaces, NEW chat \in Chats \cup {NoChat},
         NEW offers, chat # NoChat => chat \in offers /\ space = "pm"
  PROVE  First(MainRequest(user, space, chat), EntitledMain(user, space, offers) \cap PromptOf(chat))
<1>1. CASE space # "pm"
  <2>1. space \in Chats /\ chat = NoChat
    BY <1>1, SessionAssumption DEF Spaces
  <2> QED
    BY <1>1, <2>1, ChatFirst DEF MainRequest, EntitledMain, PromptOf
<1>2. CASE space = "pm" /\ chat # NoChat
  <2>1. chat \in EntitledMain(user, space, offers) \cap PromptOf(chat)
    BY <1>2 DEF EntitledMain, PromptOf
  <2> QED
    BY <1>2, <2>1, ChatFirst DEF MainRequest
<1>3. CASE space = "pm" /\ chat = NoChat /\ user \in Admins
  BY <1>3, AllFirst DEF MainRequest, EntitledMain, PromptOf
<1>4. CASE space = "pm" /\ chat = NoChat /\ user \notin Admins
  <2>1. public \subseteq Chats /\ public \subseteq EntitledMain(user, space, offers) \cap PromptOf(chat)
    BY <1>4 DEF TypeOK, EntitledMain, PromptOf
  <2>2. CASE Cardinality(public) = 1
    <3>1. PICK c : c = (CHOOSE d \in public : TRUE)
      OBVIOUS
    <3>2. c \in public
      BY <2>2, <3>1, OneElement
    <3>3. MainRequest(user, space, chat) = ChatRequest(c)
      BY <1>4, <2>2, <3>1 DEF MainRequest, PublicChats
    <3> QED
      BY <2>1, <3>2, <3>3, ChatFirst
  <2>3. CASE Cardinality(public) # 1
    BY <1>4, <2>1, <2>3, ChatsFirst DEF MainRequest, PublicChats
  <2> QED
    BY <2>2, <2>3
<1> QED
  BY <1>1, <1>2, <1>3, <1>4

\* The sub-bot covers what the user is entitled to.
LEMMA SubFirst ==
  ASSUME NEW user \in Users, NEW space \in Spaces
  PROVE  First(ChatsRequest(SubChatsFor(user, space)), EntitledSub(user, space))
<1>1. SubChatsFor(user, space) \subseteq EntitledSub(user, space)
  BY DEF SubChatsFor, EntitledSub
<1>2. EntitledSub(user, space) \subseteq Chats
  BY SessionAssumption DEF EntitledSub
<1> QED
  BY <1>1, <1>2, ChatsFirst

LEMMA EntitledType ==
  ASSUME TypeOK, NEW user, NEW space \in Spaces, NEW offers \in SUBSET Chats
  PROVE  EntitledMain(user, space, offers) \in SUBSET Chats
         /\ EntitledSub(user, space) \in SUBSET Chats
BY SessionAssumption DEF TypeOK, EntitledMain, EntitledSub, Spaces

LEMMA MainSearchStep ==
  ASSUME IInv, NEW user \in Users, NEW space \in Spaces, MainSearch(user, space) PROVE IInv'
<1> DEFINE may == EntitledMain(user, space, {})
           req == MainRequest(user, space, NoChat)
<1>1. TypeOK
  BY DEF IInv
<1>2. may \in SUBSET Chats
  BY <1>1, EntitledType
<1>3. First(req, may \cap PromptOf(NoChat))
  BY <1>1, MainFirst
<1>4. Reply(req, may, NoChat)
  BY DEF MainSearch
<1> HIDE DEF may, req
<1> QED
  BY <1>2, <1>3, <1>4, ReplyStep

\* The choice of a list from which one choice was made is the one its text names.
LEMMA ChoiceNamed ==
  ASSUME IInv, list # Nothing, selected # NoChat, Cardinality(list.tried) = 1, list.chat # NoChat
  PROVE  list.chat = selected
<1>1. IsFiniteSet(list.tried) /\ selected \in list.tried /\ list.chat \in list.tried
  BY DEF IInv, ListInv
<1>2. PICK c : list.tried = {c}
  BY <1>1, FS_Singleton
<1> QED
  BY <1>1, <1>2

LEMMA MainSearchReplyStep == ASSUME IInv, MainSearchReply PROVE IInv'
<1> DEFINE may == EntitledMain(list.user, "pm", list.offers)
           req == MainRequest(list.user, "pm", selected)
           prompt == IF selected # NoChat /\ Cardinality(list.tried) = 1 THEN list.chat ELSE NoChat
<1>1. TypeOK /\ list \in Lists /\ selected \in Chats \cup {NoChat}
  BY DEF IInv, TypeOK, MainSearchReply
<1>2. /\ list.user \in Users /\ list.offers \in SUBSET Chats /\ list.chat \in Chats \cup {NoChat}
      /\ "pm" \in Spaces
  BY <1>1 DEF Lists, Spaces
<1>3. may \in SUBSET Chats
  BY <1>1, <1>2, EntitledType
<1>4. prompt \in Chats \cup {NoChat}
  BY <1>2
<1>5. First(req, may \cap PromptOf(selected))
  BY <1>1, <1>2, MainFirst DEF IInv, ListInv
<1>6. PromptOf(prompt) = PromptOf(selected) \/ PromptOf(prompt) = Chats
  BY ChoiceNamed DEF PromptOf, MainSearchReply
<1>7. PromptOf(selected) \subseteq Chats
  BY <1>1 DEF PromptOf
<1>8. First(req, may \cap PromptOf(prompt))
  BY <1>5, <1>6, <1>7 DEF First, Within
<1>9. Reply(req, may, prompt)
  BY DEF MainSearchReply
<1> HIDE DEF may, req, prompt
<1> QED
  BY <1>3, <1>4, <1>8, <1>9, ReplyStep

LEMMA SubSearchStep ==
  ASSUME IInv, NEW user \in Users, NEW space \in Spaces, SubSearch(user, space) PROVE IInv'
<1> DEFINE may == EntitledSub(user, space)
           req == ChatsRequest(SubChatsFor(user, space))
<1>1. may \in SUBSET Chats
  BY EntitledType DEF IInv
<1>2. First(req, may)
  BY SubFirst
<1>3. First(req, may \cap PromptOf(NoChat))
  BY <1>1, <1>2 DEF First, Within, PromptOf
<1>4. Reply(req, may, NoChat)
  BY DEF SubSearch
<1> HIDE DEF may, req
<1> QED
  BY <1>1, <1>3, <1>4, ReplyStep

LEMMA InlineSteps ==
  ASSUME IInv, NEW user \in Users, MainInline(user) \/ SubInline(user) PROVE IInv'
<1>1. CASE MainInline(user)
  BY <1>1, AllFirst, InlineStep DEF MainInline
<1>2. CASE SubInline(user)
  <2>1. "pm" \in Spaces
    BY DEF Spaces
  <2>2. EntitledSub(user, "pm") \in SUBSET Chats
    BY <2>1, EntitledType DEF IInv
  <2> QED
    BY <1>2, <2>1, <2>2, SubFirst, InlineStep DEF SubInline
<1> QED
  BY <1>1, <1>2

-----------------------------------------------------------------------------
(* Lists *)

LEMMA ListStep == ASSUME IInv, NEW user \in Users, List(user) PROVE IInv'
<1>1. PICK offers : /\ offers = IF user \in Admins THEN rows ELSE PublicChats
                    /\ list' = [user |-> user, offers |-> offers, chat |-> NoChat, tried |-> {}]
  BY DEF List
<1>2. offers \in SUBSET Chats
  BY <1>1 DEF IInv, TypeOK, PublicChats
<1>3. list' \in Lists /\ list' # Nothing
  BY <1>1, <1>2, NothingAssumption DEF Lists
<1>4. /\ message' = Nothing /\ cache' = [i \in Ids |-> Nothing]
      /\ selected' = NoChat /\ picks' = {} /\ Quiet /\ UNCHANGED <<chats, press>>
  BY DEF List
<1>5. MessageInv' /\ KeyboardHonest'
  BY <1>4 DEF MessageInv, KeyboardHonest
<1>6. IsFiniteSet({})
  BY FS_EmptySet
<1>7. ListInv'
  BY <1>1, <1>3, <1>4, <1>6 DEF ListInv
<1> QED
  BY <1>3, <1>4, <1>5, <1>7, QuietStep

\* What is to be shown of a step that changes the choice and nothing else.
LEMMA ChoiceStep ==
  ASSUME IInv, UNCHANGED <<chats, cache, message, press>>,
         selected' \in Chats \cup {NoChat}, picks' \subseteq Chats,
         list' = Nothing \/ list' \in Lists, ListInv'
  PROVE  IInv'
<1>1. TypeOK'
  BY DEF IInv, TypeOK, chats, Pressing
<1>2. MessageInv' /\ KeyboardHonest' /\ \A j \in Presses : PressInv(j)'
  BY DEF IInv, MessageInv, KeyboardHonest, PressInv, Pressing, Bounds
<1> QED
  BY <1>1, <1>2 DEF IInv

LEMMA SelectSteps == ASSUME IInv, NEW c \in Chats, Select(c) \/ SelectEdit(c) PROVE IInv'
<1>1. CASE Select(c)
  <2>1. list # Nothing /\ list \in Lists /\ list.chat = NoChat /\ c \in list.offers
    BY <1>1 DEF Select, IInv, TypeOK
  <2>2. list' = [list EXCEPT !.tried = list.tried \cup {c}]
    BY <1>1, <2>1 DEF Select, Lists
  <2>3. list' \in Lists /\ list' # Nothing
    BY <2>1, <2>2, NothingAssumption DEF Lists
  <2>4. list'.tried = list.tried \cup {c} /\ list'.offers = list.offers /\ list'.chat = list.chat
    BY <2>1, <2>2 DEF Lists
  <2>5. IsFiniteSet(list.tried \cup {c})
    BY <2>1, FS_AddElement DEF IInv, ListInv
  <2>6. ListInv'
    BY <1>1, <2>1, <2>3, <2>4, <2>5 DEF Select, ListInv, IInv
  <2> QED
    BY <1>1, <2>3, <2>6, ChoiceStep DEF Select, IInv, TypeOK
<1>2. CASE SelectEdit(c)
  <2>1. c \in picks /\ list # Nothing /\ list \in Lists
    BY <1>2 DEF SelectEdit, IInv, ListInv, TypeOK
  <2>2. /\ list' \in Lists /\ list' # Nothing /\ list'.tried = list.tried /\ list'.offers = list.offers
        /\ list'.chat \in {list.chat, c}
    BY <1>2, <2>1, NothingAssumption DEF SelectEdit, Lists
  <2>3. ListInv'
    BY <1>2, <2>1, <2>2 DEF SelectEdit, ListInv, IInv
  <2> QED
    BY <1>2, <2>2, <2>3, ChoiceStep DEF SelectEdit, IInv, TypeOK
<1> QED
  BY <1>1, <1>2

-----------------------------------------------------------------------------
(* Buttons *)

\* The sorts of what a press knows.
LEMMA PressFacts ==
  ASSUME IInv, NEW j \in Presses, Pressing(j)
  PROVE  /\ press[j] \in PressOf /\ press[j].id \in Ids /\ press[j].button \in Buttons
         /\ press[j].at \in {"get", "edit", "set"} /\ press[j].shown \in SUBSET Chats
         /\ press[j].at # "get" => press[j].data \in SearchRequest
         /\ PressInv(j)
BY DEF IInv, TypeOK, PressOf, Pressing

\* What is to be shown of a step of one press.
LEMMA PressStep ==
  ASSUME IInv, NEW j \in Presses, UNCHANGED <<chats, choice>>,
         press' \in [Presses -> PressOf \cup {Nothing}],
         \A k \in Presses \ {j} : press'[k] = press[k],
         Pressing(j)' => (press'[j].at # "get" <=> press'[j].data # Nothing),
         PressInv(j)',
         cache' \in [Ids -> SearchRequest \cup {Nothing}],
         message' \in Messages, message' # Nothing, message'.id # Nothing,
         message # Nothing => Bounds(message)' = Bounds(message),
         \A k \in Presses \ {j} :
           Pressing(k) /\ press[k].at = "set" /\ press[k].id = message'.id =>
             message'.off,
         MessageInv', KeyboardHonest'
  PROVE  IInv'
<1>1. TypeOK'
  <2>1. \A k \in Presses : Pressing(k)' => (press'[k].at # "get" <=> press'[k].data # Nothing)
    BY DEF IInv, TypeOK, Pressing
  <2> QED
    BY <2>1 DEF IInv, TypeOK, chats, choice
<1>2. ListInv'
  BY DEF IInv, ListInv, choice
<1>3. ASSUME NEW k \in Presses, k # j PROVE PressInv(k)'
  <2>1. CASE ~Pressing(k)
    BY <1>3, <2>1 DEF PressInv, Pressing
  <2>2. CASE Pressing(k)
    <3>1. PressInv(k) /\ press'[k] = press[k] /\ message # Nothing
      BY <1>3, <2>2 DEF IInv, PressInv
    <3>2. Bounds(message)' = Bounds(message)
      BY <3>1
    <3>3. press[k].at = "set" /\ press[k].id = message'.id => message'.off
      BY <1>3, <2>2
    <3> QED
      BY <2>2, <3>1, <3>2, <3>3 DEF PressInv, Pressing
  <2> QED
    BY <2>1, <2>2
<1> QED
  BY <1>1, <1>2, <1>3 DEF IInv

LEMMA PressBegins == ASSUME IInv, NEW j \in Presses, NEW b \in Buttons, Press(j, b) PROVE IInv'
<1> DEFINE new == [id |-> message.id, at |-> "get", button |-> b, data |-> Nothing, shown |-> {}]
<1>1. /\ message # Nothing /\ message \in Messages /\ message.id # Nothing /\ message.id \in Ids
      /\ press' = [press EXCEPT ![j] = new]
      /\ UNCHANGED <<chats, choice, cache, message>>
  BY DEF Press, IInv, TypeOK, Messages
<1>2. new \in PressOf
  BY <1>1 DEF PressOf
<1>3. press'[j] = new /\ \A k \in Presses \ {j} : press'[k] = press[k]
  BY <1>1 DEF IInv, TypeOK
<1>4. press' \in [Presses -> PressOf \cup {Nothing}]
  BY <1>1, <1>2 DEF IInv, TypeOK
<1>5. PressInv(j)' /\ (press'[j].at # "get" <=> press'[j].data # Nothing)
  BY <1>1, <1>3 DEF PressInv
<1>6. \A k \in Presses \ {j} :
        Pressing(k) /\ press[k].at = "set" /\ press[k].id = message'.id => message'.off
  BY <1>1 DEF IInv, PressInv
<1>7. MessageInv' /\ KeyboardHonest' /\ Bounds(message)' = Bounds(message)
  BY <1>1 DEF IInv, MessageInv, KeyboardHonest, Bounds
<1>8. cache' \in [Ids -> SearchRequest \cup {Nothing}]
  BY <1>1 DEF IInv, TypeOK
<1> QED
  BY <1>1, <1>3, <1>4, <1>5, <1>6, <1>7, <1>8, PressStep

LEMMA PressGetStep == ASSUME IInv, NEW j \in Presses, PressGet(j) PROVE IInv'
<1>1. /\ Pressing(j) /\ press[j].at = "get" /\ cache[press[j].id] # Nothing
      /\ UNCHANGED <<chats, choice, cache, message>>
  BY DEF PressGet
<1>2. /\ press[j] \in PressOf /\ press[j].id \in Ids /\ press[j].button \in Buttons
      /\ message # Nothing /\ message.id # Nothing /\ message \in Messages
  BY <1>1, PressFacts DEF PressInv, IInv, TypeOK
<1>3. PICK old \in SearchRequest : old = cache[press[j].id] /\ Within(old, Bounds(message))
  BY <1>1, <1>2 DEF IInv, TypeOK, MessageInv
<1>4. PICK req \in SearchRequest :
        /\ req = NextRequest(press[j].button, old)
        /\ req.offset = Leads(press[j].button) /\ Within(req, Bounds(message))
  BY <1>2, <1>3, NextRequestFacts
<1>5. PICK cs \in Shown(req) :
        /\ cs # {}
        /\ press' = [press EXCEPT ![j].at = "edit", ![j].data = req, ![j].shown = cs]
  BY <1>3, <1>4 DEF PressGet, Sendable
<1>6. cs \in SUBSET Chats /\ cs \subseteq Bounds(message)
  BY <1>4, <1>5, ShownWithin DEF IInv, TypeOK
<1> DEFINE new == [press[j] EXCEPT !.at = "edit", !.data = req, !.shown = cs]
<1>7. new \in PressOf /\ new # Nothing
  BY <1>2, <1>6, NothingAssumption DEF PressOf
<1>8. press'[j] = new /\ \A k \in Presses \ {j} : press'[k] = press[k]
  BY <1>5 DEF IInv, TypeOK
<1>9. press' \in [Presses -> PressOf \cup {Nothing}]
  <2>1. press' = [press EXCEPT ![j] = new]
    BY <1>5 DEF IInv, TypeOK
  <2> QED
    BY <1>7, <2>1 DEF IInv, TypeOK
<1>10. /\ press'[j].at = "edit" /\ press'[j].data = req /\ press'[j].shown = cs
       /\ press'[j].button = press[j].button
  BY <1>2, <1>8 DEF PressOf
<1>11. PressInv(j)' /\ (press'[j].at # "get" <=> press'[j].data # Nothing)
  <2>1. Bounds(message)' = Bounds(message)
    BY <1>1 DEF Bounds
  <2> QED
    BY <1>1, <1>2, <1>4, <1>5, <1>6, <1>10, <2>1, NothingAssumption DEF PressInv
<1>12. \A k \in Presses \ {j} :
         Pressing(k) /\ press[k].at = "set" /\ press[k].id = message'.id => message'.off
  BY <1>1 DEF IInv, PressInv
<1>13. MessageInv' /\ KeyboardHonest' /\ Bounds(message)' = Bounds(message)
  BY <1>1 DEF IInv, MessageInv, KeyboardHonest, Bounds
<1>14. cache' \in [Ids -> SearchRequest \cup {Nothing}]
  BY <1>1 DEF IInv, TypeOK
<1> QED
  BY <1>1, <1>2, <1>8, <1>9, <1>11, <1>12, <1>13, <1>14, PressStep

\* Entries that are dropped, or left alone, break nothing.
LEMMA CacheShrinks ==
  ASSUME IInv, cache' \in [Ids -> SearchRequest \cup {Nothing}],
         \A i \in Ids : cache'[i] # Nothing => cache'[i] = cache[i],
         UNCHANGED message
  PROVE  MessageInv' /\ KeyboardHonest'
<1>1. Bounds(message)' = Bounds(message)
  BY DEF Bounds
<1>2. MessageInv'
  BY <1>1 DEF IInv, MessageInv
<1>3. message # Nothing /\ message.id # Nothing => message.id \in Ids
  BY DEF IInv, TypeOK, Messages
<1> QED
  BY <1>2, <1>3 DEF IInv, KeyboardHonest

LEMMA PressDroppedStep == ASSUME IInv, NEW j \in Presses, PressDropped(j) PROVE IInv'
<1>1. /\ Pressing(j) /\ press' = [press EXCEPT ![j] = Nothing]
      /\ cache' = Kept(cache, message, press') /\ UNCHANGED <<chats, choice, message>>
  BY DEF PressDropped
<1>2. message # Nothing /\ message \in Messages /\ message.id # Nothing
  BY <1>1 DEF IInv, TypeOK, PressInv
<1>3. /\ press' \in [Presses -> PressOf \cup {Nothing}] /\ ~Pressing(j)'
      /\ \A k \in Presses \ {j} : press'[k] = press[k]
  BY <1>1 DEF IInv, TypeOK, Pressing
<1>4. /\ cache' \in [Ids -> SearchRequest \cup {Nothing}]
      /\ \A i \in Ids : cache'[i] # Nothing => cache'[i] = cache[i]
  BY <1>1, KeptFacts DEF IInv, TypeOK
<1>5. MessageInv' /\ KeyboardHonest' /\ Bounds(message)' = Bounds(message)
  BY <1>1, <1>4, CacheShrinks DEF Bounds
<1>6. \A k \in Presses \ {j} :
        Pressing(k) /\ press[k].at = "set" /\ press[k].id = message'.id => message'.off
  BY <1>1 DEF IInv, PressInv
<1>7. PressInv(j)'
  BY <1>3 DEF PressInv
<1> QED
  BY <1>1, <1>2, <1>3, <1>4, <1>5, <1>6, <1>7, PressStep

\* What a press goes on with after its edit.
LEMMA AfterEditFacts ==
  ASSUME IInv, NEW j \in Presses, Pressing(j), press[j].at = "edit"
  PROVE  /\ AfterEdit(j) \in [Presses -> PressOf \cup {Nothing}]
         /\ \A k \in Presses \ {j} : AfterEdit(j)[k] = press[k]
         /\ press[j].button \notin Kinds => AfterEdit(j)[j] = Nothing
         /\ press[j].button \in Kinds =>
              /\ AfterEdit(j)[j] # Nothing /\ AfterEdit(j)[j].at = "set"
              /\ AfterEdit(j)[j].id = press[j].id /\ AfterEdit(j)[j].button = press[j].button
              /\ AfterEdit(j)[j].data = press[j].data
<1> DEFINE new == [press[j] EXCEPT !.at = "set", !.shown = {}]
<1>1. press[j] \in PressOf /\ press \in [Presses -> PressOf \cup {Nothing}]
  BY PressFacts DEF IInv, TypeOK
<1>2. new \in PressOf /\ new # Nothing
  BY <1>1, NothingAssumption DEF PressOf
<1>3. /\ new.at = "set" /\ new.id = press[j].id /\ new.button = press[j].button
      /\ new.data = press[j].data
  BY <1>1 DEF PressOf
<1>4. CASE press[j].button \in Kinds
  <2>1. AfterEdit(j) = [press EXCEPT ![j] = new]
    BY <1>1, <1>4 DEF AfterEdit
  <2> HIDE DEF new
  <2> QED
    BY <1>1, <1>2, <1>3, <1>4, <2>1
<1>5. CASE press[j].button \notin Kinds
  <2>1. AfterEdit(j) = [press EXCEPT ![j] = Nothing]
    BY <1>5 DEF AfterEdit
  <2> QED
    BY <1>1, <1>5, <2>1
<1> QED
  BY <1>4, <1>5

LEMMA PressEditStep == ASSUME IInv, NEW j \in Presses, PressEdit(j) PROVE IInv'
<1>1. /\ Pressing(j) /\ press[j].at = "edit" /\ press' = AfterEdit(j)
      /\ message' = Edited(j, NewId)
      /\ cache' = Kept([cache EXCEPT ![NewId] = press[j].data], message', press')
      /\ UNCHANGED <<chats, choice>>
  BY DEF PressEdit
<1>2. /\ press[j] \in PressOf /\ press[j].button \in Buttons /\ press[j].data \in SearchRequest
      /\ press[j].shown \in SUBSET Chats /\ PressInv(j) /\ press[j].id \in Ids
      /\ message # Nothing /\ message \in Messages
  BY <1>1, PressFacts DEF PressInv, IInv, TypeOK
<1>3. /\ NewId \in Ids
      /\ \A k \in Presses : Pressing(k) /\ Uses(press[k]) => press[k].id # NewId
  BY FreshId DEF IInv
<1> DEFINE page == IF press[j].button \in Kinds THEN 1 ELSE press[j].button
<1>4. page \in 1 .. MaxPages /\ Leads(press[j].button) = (page - 1) * PerSearchLimit
  <2>1. CASE press[j].button \in Kinds
    BY <2>1, SearchAssumption DEF Leads
  <2>2. CASE press[j].button \notin Kinds
    BY <1>2, <2>2 DEF Leads, Buttons
  <2> QED
    BY <2>1, <2>2
<1>5. press[j].shown # {} /\ press[j].shown \subseteq Bounds(message)
  BY <1>1, <1>2 DEF PressInv
<1>6. press[j].data.typeFilters \in SUBSET Kinds
  BY <1>2 DEF SearchRequest
<1>7. message' = [message EXCEPT !.id = NewId, !.off = FALSE, !.shown = press[j].shown,
                                 !.page = page, !.marks = press[j].data.typeFilters]
  BY <1>1 DEF Edited
<1> HIDE DEF page
<1>8. message' \in Messages /\ message' # Nothing
  BY <1>2, <1>3, <1>4, <1>5, <1>6, <1>7, NothingAssumption DEF Messages
<1>9. /\ message'.id = NewId /\ message'.shown = press[j].shown /\ message'.page = page
      /\ message'.marks = press[j].data.typeFilters
      /\ message'.may = message.may /\ message'.prompt = message.prompt
  BY <1>2, <1>7 DEF Messages
<1>10. Bounds(message)' = Bounds(message)
  BY <1>9 DEF Bounds
<1>11. /\ cache' \in [Ids -> SearchRequest \cup {Nothing}]
       /\ \A i \in Ids : cache'[i] # Nothing =>
            cache'[i] = IF i = NewId THEN press[j].data ELSE cache[i]
  <2> DEFINE entries == [cache EXCEPT ![NewId] = press[j].data]
  <2>1. /\ entries \in [Ids -> SearchRequest \cup {Nothing}]
        /\ \A i \in Ids : entries[i] = IF i = NewId THEN press[j].data ELSE cache[i]
    BY <1>2, <1>3 DEF IInv, TypeOK
  <2>2. cache' = Kept(entries, message', press')
    BY <1>1 DEF entries
  <2> HIDE DEF entries
  <2> QED
    BY <2>1, <2>2, KeptFacts
<1>12. Within(press[j].data, Bounds(message)) /\ press[j].data.offset = Leads(press[j].button)
  BY <1>1, <1>2 DEF PressInv
<1>13. MessageInv'
  BY <1>2, <1>5, <1>8, <1>9, <1>10, <1>11, <1>12 DEF IInv, MessageInv
<1>14. KeyboardHonest'
  BY <1>3, <1>4, <1>9, <1>11, <1>12 DEF KeyboardHonest
<1>15. /\ press' \in [Presses -> PressOf \cup {Nothing}]
       /\ \A k \in Presses \ {j} : press'[k] = press[k]
       /\ press[j].button \notin Kinds => press'[j] = Nothing
       /\ press[j].button \in Kinds =>
            /\ press'[j] # Nothing /\ press'[j].at = "set" /\ press'[j].id = press[j].id
            /\ press'[j].button = press[j].button /\ press'[j].data = press[j].data
  BY <1>1, AfterEditFacts
<1>16. /\ Pressing(j)' => press[j].button \in Kinds
       /\ press[j].button \in Kinds => press[j].id # NewId
  BY <1>1, <1>3, <1>15 DEF Pressing, Uses
<1>17. PressInv(j)'
  BY <1>3, <1>8, <1>9, <1>10, <1>12, <1>15, <1>16, NothingAssumption DEF PressInv
<1>18. Pressing(j)' => (press'[j].at # "get" <=> press'[j].data # Nothing)
  BY <1>2, <1>15, <1>16, NothingAssumption
<1>19. \A k \in Presses \ {j} :
         Pressing(k) /\ press[k].at = "set" /\ press[k].id = message'.id => message'.off
  BY <1>3, <1>9 DEF IInv, PressInv, Uses
<1>20. message'.id # Nothing
  BY <1>3, <1>9, NothingAssumption
<1> QED
  BY <1>1, <1>8, <1>10, <1>11, <1>13, <1>14, <1>15, <1>17, <1>18, <1>19, <1>20, PressStep

LEMMA PressEditFailsStep == ASSUME IInv, NEW j \in Presses, PressEditFails(j) PROVE IInv'
<1> DEFINE mine == press[j].button \in Kinds /\ press[j].id = message.id
<1>1. /\ Pressing(j) /\ press[j].at = "edit" /\ press' = AfterEdit(j)
      /\ message' = [message EXCEPT !.off = @ \/ mine]
      /\ cache' = Kept(cache, message', press')
      /\ UNCHANGED <<chats, choice>>
  BY DEF PressEditFails
<1>2. /\ press[j].data \in SearchRequest /\ PressInv(j)
      /\ message # Nothing /\ message \in Messages /\ message.id # Nothing
  BY <1>1, PressFacts DEF PressInv, IInv, TypeOK
<1>3. message' = [message EXCEPT !.off = message.off \/ mine]
  BY <1>1, <1>2 DEF Messages
<1> HIDE DEF mine
<1>4. message' \in Messages /\ message' # Nothing
  BY <1>2, <1>3, NothingAssumption DEF Messages
<1>5. /\ message'.id = message.id /\ message'.shown = message.shown /\ message'.page = message.page
      /\ message'.marks = message.marks /\ message'.may = message.may
      /\ message'.prompt = message.prompt
  BY <1>2, <1>3 DEF Messages
<1>6. message'.off = (message.off \/ mine)
  BY <1>2, <1>3 DEF Messages
<1>7. (message.off => message'.off) /\ (mine => message'.off)
  BY <1>6, Zenon
<1>8. Bounds(message)' = Bounds(message)
  BY <1>5 DEF Bounds
<1>9. /\ cache' \in [Ids -> SearchRequest \cup {Nothing}]
      /\ \A i \in Ids : cache'[i] # Nothing => cache'[i] = cache[i]
  BY <1>1, KeptFacts DEF IInv, TypeOK
<1>10. MessageInv'
  BY <1>2, <1>4, <1>5, <1>8, <1>9 DEF IInv, MessageInv
<1>11. KeyboardHonest'
  <2>1. message.id \in Ids
    BY <1>2 DEF Messages
  <2> QED
    BY <1>2, <1>5, <1>7, <1>9, <2>1 DEF IInv, KeyboardHonest
<1>12. /\ press' \in [Presses -> PressOf \cup {Nothing}]
       /\ \A k \in Presses \ {j} : press'[k] = press[k]
       /\ press[j].button \notin Kinds => press'[j] = Nothing
       /\ press[j].button \in Kinds =>
            /\ press'[j] # Nothing /\ press'[j].at = "set" /\ press'[j].id = press[j].id
            /\ press'[j].button = press[j].button /\ press'[j].data = press[j].data
  BY <1>1, AfterEditFacts
<1>13. Pressing(j)' => press[j].button \in Kinds
  BY <1>12 DEF Pressing
<1>14. PressInv(j)'
  BY <1>1, <1>2, <1>4, <1>5, <1>7, <1>8, <1>12, <1>13 DEF PressInv, mine
<1>15. Pressing(j)' => (press'[j].at # "get" <=> press'[j].data # Nothing)
  BY <1>2, <1>12, <1>13, NothingAssumption
<1>16. \A k \in Presses \ {j} :
         Pressing(k) /\ press[k].at = "set" /\ press[k].id = message'.id => message'.off
  BY <1>5, <1>7 DEF IInv, PressInv
<1> QED
  BY <1>1, <1>2, <1>4, <1>5, <1>8, <1>9, <1>10, <1>11, <1>12, <1>14, <1>15, <1>16, PressStep

LEMMA PressSetStep == ASSUME IInv, NEW j \in Presses, PressSet(j) PROVE IInv'
<1>1. /\ Pressing(j) /\ press[j].at = "set" /\ press' = [press EXCEPT ![j] = Nothing]
      /\ cache' = Kept([cache EXCEPT ![press[j].id] = press[j].data], message, press')
      /\ UNCHANGED <<chats, choice, message>>
  BY DEF PressSet
<1>2. /\ press[j].data \in SearchRequest /\ press[j].id \in Ids /\ PressInv(j)
      /\ message # Nothing /\ message \in Messages /\ message.id # Nothing
  BY <1>1, PressFacts DEF PressInv, IInv, TypeOK
<1>3. /\ press' \in [Presses -> PressOf \cup {Nothing}] /\ ~Pressing(j)'
      /\ \A k \in Presses \ {j} : press'[k] = press[k]
  BY <1>1 DEF IInv, TypeOK, Pressing
<1>4. /\ cache' \in [Ids -> SearchRequest \cup {Nothing}]
      /\ \A i \in Ids : cache'[i] # Nothing =>
           cache'[i] = IF i = press[j].id THEN press[j].data ELSE cache[i]
  <2> DEFINE entries == [cache EXCEPT ![press[j].id] = press[j].data]
  <2>1. /\ entries \in [Ids -> SearchRequest \cup {Nothing}]
        /\ \A i \in Ids : entries[i] = IF i = press[j].id THEN press[j].data ELSE cache[i]
    BY <1>2 DEF IInv, TypeOK
  <2>2. cache' = Kept(entries, message', press')
    BY <1>1 DEF entries
  <2> HIDE DEF entries
  <2> QED
    BY <2>1, <2>2, KeptFacts
<1>5. Bounds(message)' = Bounds(message)
  BY <1>1 DEF Bounds
<1>6. MessageInv'
  BY <1>1, <1>2, <1>4, <1>5 DEF IInv, MessageInv, PressInv
<1>7. KeyboardHonest'
  <2>1. message.id \in Ids
    BY <1>2 DEF Messages
  <2>2. press[j].id = message.id => message.off
    BY <1>1, <1>2 DEF PressInv
  <2> QED
    BY <1>1, <1>4, <2>1, <2>2 DEF IInv, KeyboardHonest
<1>8. \A k \in Presses \ {j} :
        Pressing(k) /\ press[k].at = "set" /\ press[k].id = message'.id => message'.off
  BY <1>1 DEF IInv, PressInv
<1>9. PressInv(j)'
  BY <1>3 DEF PressInv
<1> QED
  BY <1>1, <1>2, <1>3, <1>4, <1>5, <1>6, <1>7, <1>8, <1>9, PressStep

-----------------------------------------------------------------------------
(* The rest of the world *)

LEMMA ExpireStep == ASSUME IInv, NEW i \in Ids, Expire(i) PROVE IInv'
<1>1. /\ Quiet /\ cache' = [cache EXCEPT ![i] = Nothing]
      /\ UNCHANGED <<chats, choice, message, press>>
  BY DEF Expire
<1>2. /\ cache' \in [Ids -> SearchRequest \cup {Nothing}]
      /\ \A k \in Ids : cache'[k] # Nothing => cache'[k] = cache[k]
  BY <1>1 DEF IInv, TypeOK
<1>3. MessageInv' /\ KeyboardHonest'
  BY <1>1, <1>2, CacheShrinks
<1>4. ListInv'
  BY <1>1 DEF IInv, ListInv, choice
<1> QED
  BY <1>1, <1>2, <1>3, <1>4, QuietStep DEF IInv, TypeOK, choice

LEMMA ExpireChoiceStep == ASSUME IInv, ExpireChoice PROVE IInv'
<1>1. ListInv'
  BY DEF ExpireChoice, IInv, ListInv
<1> QED
  BY <1>1, ChoiceStep DEF ExpireChoice, IInv, TypeOK

LEMMA RestartStep == ASSUME IInv, Restart PROVE IInv'
<1>1. /\ cache' = [i \in Ids |-> Nothing] /\ selected' = NoChat
      /\ press' = [j \in Presses |-> Nothing] /\ picks' = {}
      /\ UNCHANGED <<chats, list, message>>
  BY DEF Restart
<1>2. /\ cache' \in [Ids -> SearchRequest \cup {Nothing}]
      /\ \A k \in Ids : cache'[k] # Nothing => cache'[k] = cache[k]
  BY <1>1
<1>3. MessageInv' /\ KeyboardHonest'
  BY <1>1, <1>2, CacheShrinks
<1>4. press' \in [Presses -> PressOf \cup {Nothing}] /\ \A j \in Presses : ~Pressing(j)'
  BY <1>1 DEF Pressing
<1>5. TypeOK'
  BY <1>1, <1>2, <1>4 DEF IInv, TypeOK, chats
<1>6. ListInv'
  BY <1>1 DEF IInv, ListInv
<1> QED
  BY <1>3, <1>4, <1>5, <1>6 DEF IInv, PressInv

\* Chats come and go without a look at messages and presses.
LEMMA ChatsStep ==
  ASSUME IInv, NEW c \in Chats, SetPublic(c) \/ DelChat(c) \/ DelDocuments(c) PROVE IInv'
<1>1. UNCHANGED <<cache, choice, message, press>>
  BY DEF SetPublic, DelChat, DelDocuments
<1>2. public' \subseteq rows' /\ rows' \subseteq Chats /\ docs' \subseteq Documents
  BY DEF IInv, TypeOK, SetPublic, DelChat, DelDocuments
<1>3. TypeOK'
  BY <1>1, <1>2 DEF IInv, TypeOK, choice, Pressing
<1>4. MessageInv' /\ KeyboardHonest' /\ ListInv'
  BY <1>1 DEF IInv, MessageInv, KeyboardHonest, ListInv, Bounds, choice
<1>5. \A j \in Presses : PressInv(j)'
  BY <1>1 DEF IInv, PressInv, Pressing, Bounds
<1> QED
  BY <1>3, <1>4, <1>5 DEF IInv

-----------------------------------------------------------------------------
(* The theorems *)

LEMMA InitIInv == ASSUME Init PROVE IInv
<1>1. TypeOK
  BY DEF Init, TypeOK, Pressing
<1>2. MessageInv /\ KeyboardHonest /\ ListInv /\ \A j \in Presses : PressInv(j)
  BY DEF Init, MessageInv, KeyboardHonest, ListInv, PressInv, Pressing
<1> QED
  BY <1>1, <1>2 DEF IInv

LEMMA Inductive == ASSUME IInv, [Next]_vars PROVE IInv'
<1>1. CASE Searches
  BY <1>1, MainSearchStep, SubSearchStep, InlineSteps, ListStep, MainSearchReplyStep DEF Searches
<1>2. CASE PressSteps
  BY <1>2, PressBegins, PressGetStep, PressDroppedStep, PressEditStep, PressEditFailsStep,
     PressSetStep DEF PressSteps
<1>3. CASE World
  BY <1>3, ExpireStep, ExpireChoiceStep, RestartStep, ChatsStep, SessionAssumption DEF World
<1>4. CASE \E c \in Chats : Select(c) \/ SelectEdit(c)
  BY <1>4, SelectSteps
<1>5. CASE UNCHANGED vars
  <2>1. UNCHANGED <<chats, cache, message, press, selected, picks, list>>
    BY <1>5 DEF vars, chats
  <2>2. ListInv'
    BY <2>1 DEF IInv, ListInv
  <2> QED
    BY <2>1, <2>2, ChoiceStep DEF IInv, TypeOK
<1> QED
  BY <1>1, <1>2, <1>3, <1>4, <1>5 DEF Next

\* Requests keep within what their message may show, whoever presses what.
THEOREM Invariance == Spec => []IInv
<1>1. Init => IInv
  BY InitIInv
<1>2. IInv /\ [Next]_vars => IInv'
  BY Inductive
<1> QED
  BY <1>1, <1>2, PTL DEF Spec

\* Every variable has its type: a message is never empty, and a press waits to edit
\* exactly when it has a request.
THEOREM TypeCorrect == Spec => []TypeOK
<1>1. IInv => TypeOK
  BY DEF IInv
<1> QED
  BY <1>1, Invariance, PTL

\* The buttons of a message say what pressing them starts from, however many are
\* pressed at once, unless a filter's edit failed (bot/search.go).
THEOREM ButtonsSayWhatTheyDo == Spec => []KeyboardHonest
<1>1. IInv => KeyboardHonest
  BY DEF IInv
<1> QED
  BY <1>1, Invariance, PTL

\* Whatever is pressed, a message shows chats that its user was entitled to search
\* when he asked (bot/search.go, subbot/handlers.go).
THEOREM NothingElseShown == Spec => []StaysEntitled
<1>1. IInv => StaysEntitled
  BY DEF IInv, MessageInv, Bounds, StaysEntitled
<1> QED
  BY <1>1, Invariance, PTL

\* A reply to a list from which one choice was made searches the chat it names.
THEOREM PromptHonoured == Spec => []PromptKept
<1>1. IInv => PromptKept
  BY DEF IInv, MessageInv, Bounds, PromptKept
<1> QED
  BY <1>1, Invariance, PTL

=============================================================================
