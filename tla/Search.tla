-------------------------------- MODULE Search --------------------------------
(***************************************************************************)
(* A search request (types/callback_data.go) and what the engine makes of  *)
(* it (engine/meili/meilisearch.go).  The query itself, the filter by user *)
(* and the ranking are the engine's business: a page is some set of hits   *)
(* of the right size among the documents that pass the filter.             *)
(***************************************************************************)
EXTENDS FiniteSets, FiniteSetsExt, Naturals

CONSTANTS
  Chats,           \* the chats there are
  Kinds,           \* the types of messages
  NoChat,          \* chat id 0: no chat named
  PerSearchLimit,  \* hits of a page
  MaxPages         \* bound: the pages anyone asks for

ASSUME SearchAssumption ==
  /\ NoChat \notin Chats
  /\ PerSearchLimit \in Nat \ {0}
  /\ MaxPages \in Nat \ {0}

\* A document stands for the messages of one kind in one chat.
Documents == [chat : Chats, kind : Kinds]

Offsets == {(p - 1) * PerSearchLimit : p \in 1 .. MaxPages}

SearchRequest ==
  [chatID : Chats \cup {NoChat}, chatIDs : SUBSET Chats, allChats : BOOLEAN,
   typeFilters : SUBSET Kinds, offset : Offsets]

ChatRequest(c)   == [chatID |-> c, chatIDs |-> {}, allChats |-> FALSE,
                     typeFilters |-> {}, offset |-> 0]
ChatsRequest(cs) == [ChatRequest(NoChat) EXCEPT !.chatIDs = cs]
AllRequest       == [ChatRequest(NoChat) EXCEPT !.allChats = TRUE]

\* FilterExpression: an error unless some chat is named or all of them are
\* meant; a single chat wins over a list.
HasScope(req) == req.allChats \/ req.chatID # NoChat \/ req.chatIDs # {}

FilterExpression(req, d) ==
  /\ \/ req.allChats
     \/ d.chat = req.chatID
     \/ req.chatID = NoChat /\ d.chat \in req.chatIDs
  /\ req.typeFilters = {} \/ d.kind \in req.typeFilters

Matching(req, docs) == {d \in docs : FilterExpression(req, d)}

\* The pages that the engine may answer with: a full page, or what is left.
Pages(req, docs) ==
  LET matching == Matching(req, docs)
      left     == Cardinality(matching) - req.offset
  IN  IF left <= 0 THEN {{}}
      ELSE kSubset(IF left < PerSearchLimit THEN left ELSE PerSearchLimit, matching)

ChatsOf(hits) == {d.chat : d \in hits}

=============================================================================
