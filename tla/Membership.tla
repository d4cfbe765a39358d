------------------------------ MODULE Membership ------------------------------
(***************************************************************************)
(* Who is a member of which indexed chat (index_chat_members), as the live *)
(* handlers learn it (userclient/watch.go, client.go; database/dao.go).    *)
(* Chats here are watched ones with a row: ChatStore has the others.       *)
(***************************************************************************)
CONSTANTS
  Chats,    \* the chats
  Senders,  \* who writes: users, bots, and chats in whose name is written
  Busy      \* bound: the chats in which anyone writes

ASSUME MembershipAssumption == Busy \subseteq Chats

VARIABLES
  public,   \* the chats that are public
  members,  \* pairs of a chat and a member of it
  ignored,  \* GlobalIgnoreUsers
  posted    \* history: pairs of a chat and one who wrote in it

people == <<public, members, ignored, posted>>

\* WatchHandler saves the sender of a message, and stops if he is ignored; else
\* AddMemberToIndexChat appends him to the chat's members.
\* (A failure of it leaves the members as they are.)
Post(c, s) ==
  /\ posted' = posted \cup {<<c, s>>}
  /\ members' = IF s \in ignored THEN members ELSE members \cup {<<c, s>>}
  /\ UNCHANGED <<public, ignored>>

\* Someone left or was banned: the handler looks up the user whose id is that of
\* the chat, known if someone wrote in the chat's name, and removes him.
Leave(c) ==
  /\ members' = members \ {<<c, c>>}
  /\ UNCHANGED <<public, ignored, posted>>

\* /pub and /unpub
SetPublic(c) ==
  /\ public' \in {public \cup {c}, public \ {c}}
  /\ UNCHANGED <<members, ignored, posted>>

InitPeople == public = {} /\ members = {} /\ ignored = {} /\ posted = {}

Live == \E c \in Busy : Leave(c) \/ \E s \in Senders : Post(c, s)

PeopleOK ==
  /\ public \subseteq Chats
  /\ members \subseteq posted /\ posted \subseteq Busy \X Senders

=============================================================================
