------------------------------- MODULE SubBots -------------------------------
(***************************************************************************)
(* The sub-bots (subbot/bots.go, bot/sub.go): their table, the map of      *)
(* those that run, and what they show (subbot/handlers.go, model.go).      *)
(*                                                                         *)
(* The map is under a lock and the table is not.  /addsub and /delsub run  *)
(* side by side, and beside StartStored, which starts every bot that is in *)
(* the table at the start of the process after it has read them all.       *)
(***************************************************************************)
EXTENDS Membership, FiniteSets, Naturals

CONSTANTS
  Bots,         \* the bots, each with its token
  Users,        \* who asks them
  Admins,       \* the users among them that CheckAdmin accepts
  Handlers,     \* goroutines that handle an admin's command
  Offers,       \* bound: the sets of chats that /addsub may name
  MaxRestarts,  \* bound: how often the process is restarted
  NoRow,        \* no row in sub_bots
  Unsure,       \* no telling what the table should hold
  Idle          \* nothing to do

ASSUME SubBotsAssumption ==
  /\ Offers \subseteq SUBSET Chats /\ Admins \subseteq Users /\ MaxRestarts \in Nat
  /\ Handlers \cap Bots = {} /\ {"pm", "group", "start"} \cap Chats = {}
  /\ \A cs \in SUBSET Chats : cs \notin {NoRow, Unsure}
  /\ NoRow # Unsure

VARIABLES
  table,       \* of each bot, the chats of its row, or NoRow
  registered,  \* the bots in the map
  attached,    \* those of them whose running instance has its handlers
  strays,      \* bots of which a replaced instance runs on with its handlers
  phase,       \* how far the start of the process is
  doing,       \* what each command, and StartStored for each bot, is doing
  told,        \* history: what the admin last heard of each bot, Unsure after a
               \* failure or two operations on the bot at once
  given,       \* history: chats named for the bot since it was surely deleted
  clean,       \* history: nothing failed or overlapped since the start
  restarts

run     == <<registered, attached, strays, phase>>
history == <<told, given, clean>>
vars    == <<table, run, doing, history, restarts, people>>

\* The goroutine in which StartStored starts a bot goes by the bot's name.
Actors == Handlers \cup Bots

\* instance is what has become of the client that NewSubBot made; mixed is
\* history: another operation on the bot was under way at some time.
Operations ==
  [bot : Bots, chats : SUBSET Chats, mixed : BOOLEAN,
   at : {"create", "upsert", "register", "start", "unmap", "delrow"},
   instance : {"mapped", "stray", "stopped"}]

ASSUME OperationAssumption == Idle \notin Operations

Working(b) == {x \in Actors : doing[x] # Idle /\ doing[x].bot = b}
At(x, at)  == doing[x] # Idle /\ doing[x].at = at
Goto(x, at) == doing' = [doing EXCEPT ![x].at = at]

\* An operation begins: it and those under way on the same bot are mixed.
Operation(b, cs, at) ==
  [bot |-> b, chats |-> cs, at |-> at, instance |-> "mapped", mixed |-> Working(b) # {}]
Mixed(x, b) == IF x \in Working(b) THEN [doing[x] EXCEPT !.mixed = TRUE] ELSE doing[x]

Begin(x, b, cs, at) ==
  /\ doing[x] = Idle
  /\ doing' = [y \in Actors |-> IF y = x THEN Operation(b, cs, at) ELSE Mixed(y, b)]
  /\ clean' = (clean /\ Working(b) = {})

\* It ends, and the admin hears what the row is now.
End(x, row) ==
  /\ doing' = [doing EXCEPT ![x] = Idle]
  /\ told' = [told EXCEPT ![doing[x].bot] = IF doing[x].mixed THEN Unsure ELSE row]

\* What becomes of the client that another operation on the bot has put into the
\* map and not started yet.
Displaced(x, b, instance) ==
  [y \in Actors |-> IF y # x /\ y \in Working(b) /\ At(y, "start") /\ doing[y].instance = "mapped"
                    THEN [doing[y] EXCEPT !.instance = instance] ELSE doing[y]]

-----------------------------------------------------------------------------
(* NewSubBot, called by /addsub and by StartStored *)

AddSub(h, b, cs) ==
  /\ Begin(h, b, cs, "create")
  /\ given' = [given EXCEPT ![b] = @ \cup cs]
  /\ UNCHANGED <<table, run, told, restarts, people>>

CreateClient(x) ==
  /\ At(x, "create") /\ Goto(x, "upsert")
  /\ UNCHANGED <<table, run, history, restarts, people>>

\* A slip: a row that is there is kept.
UpsertSubBotOnce(x) ==
  /\ At(x, "upsert") /\ Goto(x, "register")
  /\ table' = [table EXCEPT ![doing[x].bot] = IF @ = NoRow THEN doing[x].chats ELSE @]
  /\ UNCHANGED <<run, history, restarts, people>>

\* gorm's Save is an UPDATE and, when it finds no row, an INSERT that updates all
\* on a conflict: whatever comes between, the row is what the last of them writes.
UpsertSubBot(x) ==
  /\ At(x, "upsert") /\ Goto(x, "register")
  /\ table' = [table EXCEPT ![doing[x].bot] = doing[x].chats]
  /\ UNCHANGED <<run, history, restarts, people>>

\* No client, no row, or, the row being stored already, no username.
NewSubBotFail(x) ==
  /\ At(x, "create") \/ At(x, "upsert") \/ At(x, "register")
  /\ End(x, IF At(x, "register") THEN Unsure ELSE told[doing[x].bot])
  /\ clean' = FALSE
  /\ UNCHANGED <<table, run, given, restarts, people>>

Locked == \E x \in Actors : At(x, "delrow")

\* An instance that is in the map already is replaced and runs on.
Register(x) ==
  /\ At(x, "register") /\ ~Locked
  /\ LET b == doing[x].bot
     IN  /\ doing' = [Displaced(x, b, "stray") EXCEPT ![x].at = "start"]
         /\ registered' = registered \cup {b}
         /\ attached' = attached \ {b}
         /\ strays' = IF b \in attached THEN strays \cup {b} ELSE strays
  /\ UNCHANGED <<table, phase, history, restarts, people>>

\* Start adds the handlers to the client, which may not be the running one.
Start(x) ==
  /\ At(x, "start")
  /\ LET b == doing[x].bot
     IN  /\ attached' = IF doing[x].instance = "mapped" THEN attached \cup {b} ELSE attached
         /\ strays' = IF doing[x].instance = "stray" THEN strays \cup {b} ELSE strays
  /\ End(x, doing[x].chats)
  /\ UNCHANGED <<table, registered, phase, given, clean, restarts, people>>

-----------------------------------------------------------------------------
(* DelSubBot *)

DelSub(h, b) ==
  /\ Begin(h, b, {}, "unmap")
  /\ UNCHANGED <<table, run, told, given, restarts, people>>

\* The bot is not in the map: its row, if there is one, stays.
NotFound(x) ==
  /\ At(x, "unmap") /\ ~Locked /\ doing[x].bot \notin registered
  /\ End(x, told[doing[x].bot])
  /\ UNCHANGED <<table, run, given, clean, restarts, people>>

\* A slip: the bot is stopped and stays in the map.
UnmapStopped(x) ==
  /\ At(x, "unmap") /\ ~Locked /\ doing[x].bot \in registered
  /\ doing' = [Displaced(x, doing[x].bot, "stopped") EXCEPT ![x].at = "delrow"]
  /\ attached' = attached \ {doing[x].bot}
  /\ UNCHANGED <<table, registered, strays, phase, history, restarts, people>>

Unmap(x) ==
  /\ At(x, "unmap") /\ ~Locked /\ doing[x].bot \in registered
  /\ doing' = [Displaced(x, doing[x].bot, "stopped") EXCEPT ![x].at = "delrow"]
  /\ registered' = registered \ {doing[x].bot}
  /\ attached' = attached \ {doing[x].bot}
  /\ UNCHANGED <<table, strays, phase, history, restarts, people>>

DeleteSubBot(x) ==
  /\ At(x, "delrow")
  /\ LET b == doing[x].bot
     IN  /\ table' = [table EXCEPT ![b] = NoRow]
         /\ given' = [given EXCEPT ![b] = IF doing[x].mixed THEN @ ELSE {}]
  /\ End(x, NoRow)
  /\ UNCHANGED <<run, clean, restarts, people>>

DeleteSubBotFail(x) ==
  /\ At(x, "delrow")
  /\ End(x, Unsure)
  /\ clean' = FALSE
  /\ UNCHANGED <<table, run, given, restarts, people>>

-----------------------------------------------------------------------------
(* StartStored, and the process's end *)

\* All rows are read at once.
ReadStored ==
  /\ phase = "boot" /\ phase' = "starting"
  /\ doing' = [x \in Actors |->
       IF x \in Bots
       THEN IF table[x] = NoRow THEN Idle ELSE Operation(x, table[x], "create")
       ELSE IF doing[x] # Idle /\ table[doing[x].bot] # NoRow
            THEN [doing[x] EXCEPT !.mixed = TRUE] ELSE doing[x]]
  /\ clean' = (clean /\ \A b \in Bots : table[b] # NoRow => Working(b) = {})
  /\ UNCHANGED <<table, registered, attached, strays, told, given, restarts, people>>

\* The rows cannot be read.
ReadStoredFail ==
  /\ phase = "boot" /\ phase' = "starting"
  /\ clean' = FALSE
  /\ UNCHANGED <<table, registered, attached, strays, doing, told, given, restarts, people>>

\* When all are done, failed or not, those in the map are ignored as senders.
FinishStored ==
  /\ phase = "starting" /\ phase' = "up"
  /\ \A b \in Bots : doing[b] = Idle
  /\ ignored' = registered
  /\ UNCHANGED <<table, registered, attached, strays, doing, history, restarts,
                 public, members, posted>>

Restart ==
  /\ restarts < MaxRestarts /\ restarts' = restarts + 1
  /\ registered' = {} /\ attached' = {} /\ strays' = {} /\ phase' = "boot"
  /\ told' = [b \in Bots |-> IF Working(b) = {} THEN told[b] ELSE Unsure]
  /\ doing' = [x \in Actors |-> Idle]
  /\ clean' = TRUE
  /\ ignored' = {}
  /\ UNCHANGED <<table, given, public, members, posted>>

-----------------------------------------------------------------------------
(* What a bot shows.  A search changes nothing here, so it is an operator; its *)
(* steps and its buttons are in SearchSession.  "pm" stands for the inline     *)
(* query too, which looks at the same chats; "group" is a basic group, and the *)
(* groups among Busy are supergroups, which are channels.                      *)

Spaces == {"pm", "group", "start"} \cup Busy

\* Where the members branch is taken: wherever the update names no channel.
AsksAsMember(space) == space \in {"pm", "group"}

\* /start names the bot's public chats.
SearchesAll(u, space) == u \in Admins /\ space # "start"

\* A slip: a member may search in every space.
ShownToMembers(b, u, space) ==
  IF b \notin attached \cup strays \/ table[b] = NoRow THEN {}
  ELSE {c \in table[b] : \/ SearchesAll(u, space)
                         \/ c \in public
                         \/ c = space
                         \/ <<c, u>> \in members}

\* Nothing without a row.  A chat of it is shown to admins, if it is public, if
\* it is the channel that the bot is asked in, or, where it is not asked in a
\* channel, if the asker is a member.
Shown(b, u, space) ==
  IF b \notin attached \cup strays \/ table[b] = NoRow THEN {}
  ELSE {c \in table[b] : \/ SearchesAll(u, space)
                         \/ c \in public
                         \/ c = space
                         \/ AsksAsMember(space) /\ <<c, u>> \in members}

-----------------------------------------------------------------------------
Publish(c) ==
  /\ SetPublic(c)
  /\ UNCHANGED <<table, run, doing, history, restarts>>

Hear ==
  /\ Live
  /\ UNCHANGED <<table, run, doing, history, restarts>>

Init ==
  /\ table = [b \in Bots |-> NoRow]
  /\ registered = {} /\ attached = {} /\ strays = {} /\ phase = "boot"
  /\ doing = [x \in Actors |-> Idle]
  /\ told = [b \in Bots |-> NoRow] /\ given = [b \in Bots |-> {}] /\ clean = TRUE
  /\ restarts = 0
  /\ InitPeople

Command(h) ==
  \E b \in Bots : DelSub(h, b) \/ \E cs \in Offers : AddSub(h, b, cs)

Step(x) ==
  \/ CreateClient(x) \/ UpsertSubBot(x) \/ NewSubBotFail(x) \/ Register(x) \/ Start(x)
  \/ NotFound(x) \/ Unmap(x) \/ DeleteSubBot(x) \/ DeleteSubBotFail(x)

Next ==
  \/ \E h \in Handlers : Command(h)
  \/ \E x \in Actors : Step(x)
  \/ ReadStored \/ ReadStoredFail \/ FinishStored \/ Restart
  \/ Hear \/ \E c \in Busy : Publish(c)

Spec == Init /\ [][Next]_vars

-----------------------------------------------------------------------------
(* Properties *)

\* Every variable has its type; what runs with handlers is in the map; a row is
\* being deleted by one handler, and the bot is not in the map then.
TypeOK ==
  /\ table \in [Bots -> {NoRow} \cup SUBSET Chats]
  /\ registered \subseteq Bots /\ attached \subseteq registered /\ strays \subseteq Bots
  /\ phase \in {"boot", "starting", "up"}
  /\ doing \in [Actors -> Operations \cup {Idle}]
  /\ \A x \in Actors : At(x, "delrow") =>
       doing[x].bot \notin registered /\ \A y \in Actors : At(y, "delrow") => y = x
  /\ told \in [Bots -> {NoRow, Unsure} \cup SUBSET Chats]
  /\ given \in [Bots -> SUBSET Chats]
  /\ clean \in BOOLEAN
  /\ restarts \in 0 .. MaxRestarts
  /\ ignored \subseteq Bots /\ PeopleOK

\* What the admin was told of a bot lasts: the chats of a confirmed /addsub are
\* in its row, and a deleted bot has no row and does not run, through restarts,
\* which write every row again.  Failures that the admin hears of and operations
\* on the same bot that overlap leave it open.
ConfirmedLasts ==
  \A b \in Bots : Working(b) = {} /\ told[b] # Unsure =>
    /\ table[b] = told[b]
    /\ told[b] = NoRow => b \notin registered

\* /listsub reports a mismatch when map and table differ in size.  Once the
\* process is up, and while nothing is under way, the two agree bot by bot,
\* as long as nothing has failed or overlapped since the start.
ListMatches ==
  phase = "up" /\ clean /\ (\A x \in Actors : doing[x] = Idle) =>
    registered = {b \in Bots : table[b] # NoRow} /\ attached = registered

\* A bot only ever shows chats that an admin has given to it since it was surely
\* deleted, even if a replaced instance answers.  A stranger sees those that are
\* public, the channel he asks in, and, where that is none, those that he has
\* written in: in private, and before everyone in a basic group.
StrangersConfined ==
  \A b \in Bots, u \in Users, space \in Spaces :
    LET shown == Shown(b, u, space)
    IN  /\ shown \subseteq given[b]
        /\ SearchesAll(u, space) \/ \A c \in shown :
             c \in public \cup {space} \/ (AsksAsMember(space) /\ <<c, u>> \in posted)

=============================================================================
