-------------------------------- MODULE Engine --------------------------------
(***************************************************************************)
(* The search engine (engine/meili/meilisearch.go).  Meilisearch answers a *)
(* request that changes anything before it has done it: the request is a   *)
(* task, tasks are done in the order in which they came, and btts waits    *)
(* for none of them.  One index holds the documents of all chats; before   *)
(* version 1 each chat had an index of its own.                            *)
(***************************************************************************)
EXTENDS Naturals, Sequences

CONSTANTS
  Chats,  \* the chats
  Ids,    \* the ids of their messages
  Gone    \* the old index of a chat that has none

Documents == Chats \X Ids

ASSUME EngineAssumption == Gone \notin Seq(Ids)

VARIABLES
  index,  \* the shared index: "absent", "bare" (without settings) or "ready"
  docs,   \* its documents, each under its key chatid_messageid
  old,    \* of each chat, the ids in its old index in their order, or Gone
  tasks   \* what has been asked of the engine and is not done yet

engine == <<index, docs, old, tasks>>

\* Removing a chat's documents (DeleteIndex) is by a filter on the chat.
Tasks ==
  [do : {"create", "settings"}] \cup [do : {"add", "remove"}, docs : SUBSET Documents]
    \cup [do : {"drop"}, chat : Chats]

Create    == [do |-> "create"]
Settings  == [do |-> "settings"]
Add(ds)   == [do |-> "add", docs |-> ds]
Remove(ds) == [do |-> "remove", docs |-> ds]
Drop(c)   == [do |-> "drop", chat |-> c]

Put(t) == tasks' = Append(tasks, t) /\ UNCHANGED <<index, docs, old>>

\* The engine's own step.  What is added to an absent index creates it.
Work ==
  /\ tasks # <<>>
  /\ LET t == Head(tasks)
     IN  /\ index' = CASE t.do = "settings" -> "ready"
                       [] t.do \in {"create", "add"} /\ index = "absent" -> "bare"
                       [] OTHER -> index
         /\ docs' = CASE t.do = "add" -> docs \cup t.docs
                      [] t.do = "remove" -> docs \ t.docs
                      [] OTHER -> docs
         /\ old' = IF t.do = "drop" THEN [old EXCEPT ![t.chat] = Gone] ELSE old
  /\ tasks' = Tail(tasks)

\* A call that fails may have been heard all the same.
PutOrNot(t) == Put(t) \/ UNCHANGED engine

Adds(t, d)    == t.do = "add" /\ d \in t.docs
Removes(t, d) == t.do = "remove" /\ d \in t.docs

\* Once all tasks are done, the document is in the shared index.
Coming(d) ==
  \/ d \in docs /\ \A i \in DOMAIN tasks : ~Removes(tasks[i], d)
  \/ \E k \in DOMAIN tasks :
       Adds(tasks[k], d) /\ \A i \in DOMAIN tasks : i > k => ~Removes(tasks[i], d)

\* It is in its chat's old index, and stays there.
InOld(d) ==
  /\ old[d[1]] # Gone
  /\ \E i \in DOMAIN old[d[1]] : old[d[1]][i] = d[2]
  /\ \A i \in DOMAIN tasks : tasks[i].do = "drop" => tasks[i].chat # d[1]

EngineOK ==
  /\ index \in {"absent", "bare", "ready"}
  /\ docs \subseteq Documents
  /\ old \in [Chats -> Seq(Ids) \cup {Gone}]
  /\ tasks \in Seq(Tasks)

=============================================================================
