----------------------------- MODULE SubBotsProofs -----------------------------
(***************************************************************************)
(* What is proved of the sub-bots, for any number of bots, commands at     *)
(* once, chats and people.  The invariant is about one bot at a time: what *)
(* holds of it while nothing is under way on it, and what the operation    *)
(* that is alone on it has to rely on.                                     *)
(***************************************************************************)
EXTENDS SubBots, TLAPS

\* The table has what the admin was told of the bot.
Holds(b) ==
  told[b] # Unsure => table[b] = told[b] /\ (told[b] = NoRow => b \notin registered)

\* Map and table agree about the bot; before StartStored it may not run yet.
Agrees(b) ==
  /\ b \in registered => table[b] # NoRow
  /\ b \in registered => b \in attached
  /\ phase # "boot" => (table[b] # NoRow => b \in registered)

BotInv(b) ==
  /\ table[b] # NoRow => table[b] \subseteq given[b]
  /\ Working(b) = {} => Holds(b) /\ (clean => Agrees(b))

\* An operation that nothing has overlapped is alone on its bot.
AloneInv(x, b) ==
  /\ Working(b) = {x}
  /\ doing[x].at \in {"create", "upsert", "unmap"} => Holds(b)
  /\ doing[x].at \in {"register", "start"} => table[b] = doing[x].chats
  /\ doing[x].at = "start" => doing[x].instance = "mapped"
  /\ doing[x].at = "unmap" /\ clean => Agrees(b)

OperationInv(x) ==
  doing[x] # Idle =>
    /\ doing[x].chats \subseteq given[doing[x].bot]
    /\ x \in Bots => doing[x].bot = x /\ phase # "boot"
    /\ At(x, "start") /\ doing[x].instance = "mapped" => doing[x].bot \in registered
    /\ ~At(x, "start") => doing[x].instance = "mapped"
    /\ clean => ~doing[x].mixed
    /\ ~doing[x].mixed => AloneInv(x, doing[x].bot)

IInv ==
  /\ TypeOK
  /\ \A b \in Bots : BotInv(b)
  /\ \A x \in Actors : OperationInv(x)

-----------------------------------------------------------------------------
(* Bots that a step does not touch *)

Same(b) ==
  /\ table'[b] = table[b] /\ told'[b] = told[b] /\ given'[b] = given[b]
  /\ b \in registered' <=> b \in registered
  /\ b \in attached' <=> b \in attached
  /\ \A y \in Actors : y \in Working(b)' <=> y \in Working(b)
  /\ \A y \in Working(b) : doing'[y] = doing[y]

LEMMA SameKept ==
  ASSUME IInv, NEW b \in Bots, Same(b), phase' = "boot" <=> phase = "boot", clean' => clean
  PROVE  BotInv(b)' /\ \A y \in Working(b) : OperationInv(y)'
<1>1. Working(b)' = Working(b)
  BY DEF Same, Working
<1>2. (Holds(b) <=> Holds(b)') /\ (Agrees(b) <=> Agrees(b)')
  BY DEF Same, Holds, Agrees
<1>3. BotInv(b)'
  BY <1>1, <1>2 DEF IInv, BotInv, Same
<1>4. ASSUME NEW y \in Working(b) PROVE OperationInv(y)'
  <2>1. y \in Actors /\ doing[y] # Idle /\ doing[y].bot = b /\ doing'[y] = doing[y]
    BY DEF Working, Same
  <2>2. AloneInv(y, b) => AloneInv(y, b)'
    BY <1>1, <1>2, <2>1 DEF AloneInv, Same
  <2>3. OperationInv(y)
    BY <2>1 DEF IInv
  <2> QED
    BY <2>1, <2>2, <2>3 DEF OperationInv, Same, At
<1> QED
  BY <1>3, <1>4

LEMMA StepKept ==
  ASSUME IInv, TypeOK', NEW b \in Bots, \A c \in Bots \ {b} : Same(c),
         phase' = "boot" <=> phase = "boot", clean' => clean,
         BotInv(b)', \A y \in Working(b)' : OperationInv(y)'
  PROVE  IInv'
<1>1. \A c \in Bots \ {b} : BotInv(c)' /\ \A y \in Working(c) : OperationInv(y)'
  BY SameKept
<1>2. ASSUME NEW x \in Actors PROVE OperationInv(x)'
  <2>1. CASE doing'[x] = Idle
    BY <2>1 DEF OperationInv
  <2>2. CASE doing'[x] # Idle
    <3>1. PICK c \in Bots : c = doing'[x].bot
      BY <2>2 DEF TypeOK, Operations
    <3>2. x \in Working(c)'
      BY <2>2, <3>1 DEF Working
    <3>3. c # b => x \in Working(c)
      BY <3>2 DEF Same
    <3> QED
      BY <1>1, <3>1, <3>2, <3>3
  <2> QED
    BY <2>1, <2>2
<1> QED
  BY <1>1, <1>2 DEF IInv

\* Two operations on a bot are mixed.
LEMMA Crowd ==
  ASSUME IInv, NEW b \in Bots, NEW x \in Working(b), NEW y \in Working(b), x # y
  PROVE  doing[y].mixed /\ ~clean
<1>1. y \in Actors /\ doing[y] # Idle /\ doing[y].bot = b /\ OperationInv(y)
  BY DEF Working, IInv
<1>2. Working(b) # {y}
  OBVIOUS
<1> QED
  BY <1>1, <1>2 DEF OperationInv, AloneInv

\* What a step of x may do to the others on its bot.
LEMMA OthersKept ==
  ASSUME IInv, NEW b \in Bots, NEW x \in Working(b), NEW y \in Working(b), x # y,
         clean' => clean, phase' = "boot" <=> phase = "boot", given[b] \subseteq given'[b],
         doing'[y].bot = b, doing'[y].chats = doing[y].chats, doing'[y].mixed = doing[y].mixed,
         doing'[y] = doing[y] \/ At(y, "start")',
         At(y, "start")' /\ doing'[y].instance = "mapped" => b \in registered'
  PROVE  OperationInv(y)'
<1>1. y \in Actors /\ doing[y] # Idle /\ doing[y].bot = b /\ OperationInv(y)
  BY DEF Working, IInv
<1>2. doing[y].mixed /\ ~clean
  BY Crowd
<1> QED
  BY <1>1, <1>2 DEF OperationInv, At

-----------------------------------------------------------------------------
(* How operations change *)

LEMMA Working1 ==
  ASSUME TypeOK, NEW x \in Actors, doing[x] # Idle
  PROVE  /\ doing[x] \in Operations /\ doing[x].bot \in Bots /\ x \in Working(doing[x].bot)
         /\ doing[x].chats \in SUBSET Chats /\ doing[x].mixed \in BOOLEAN
BY DEF TypeOK, Operations, Working

LEMMA GotoFacts ==
  ASSUME TypeOK, NEW x \in Actors, doing[x] # Idle,
         NEW s \in {"create", "upsert", "register", "start", "unmap", "delrow"}, Goto(x, s)
  PROVE  /\ doing' \in [Actors -> Operations \cup {Idle}]
         /\ \A y \in Actors \ {x} : doing'[y] = doing[y]
         /\ doing'[x] = [doing[x] EXCEPT !.at = s] /\ doing'[x] \in Operations
         /\ doing'[x].bot = doing[x].bot /\ doing'[x].chats = doing[x].chats /\ doing'[x].at = s
         /\ doing'[x].mixed = doing[x].mixed /\ doing'[x].instance = doing[x].instance
         /\ doing'[x] # Idle
<1>1. doing[x] \in Operations
  BY Working1
<1>2. doing'[x] = [doing[x] EXCEPT !.at = s] /\ \A y \in Actors \ {x} : doing'[y] = doing[y]
  BY DEF Goto, TypeOK
<1>3. [doing[x] EXCEPT !.at = s] \in Operations
  BY <1>1 DEF Operations
<1>4. doing' \in [Actors -> Operations \cup {Idle}]
  BY <1>3 DEF Goto, TypeOK
<1> QED
  BY <1>1, <1>2, <1>3, <1>4, OperationAssumption DEF Operations

LEMMA EndFacts ==
  ASSUME TypeOK, NEW x \in Actors, doing[x] # Idle, NEW row, End(x, row)
  PROVE  /\ doing' \in [Actors -> Operations \cup {Idle}]
         /\ \A y \in Actors \ {x} : doing'[y] = doing[y]
         /\ doing'[x] = Idle
         /\ \A c \in Bots : c # doing[x].bot => told'[c] = told[c]
         /\ told'[doing[x].bot] = IF doing[x].mixed THEN Unsure ELSE row
         /\ row \in {NoRow, Unsure} \cup SUBSET Chats
              => told' \in [Bots -> {NoRow, Unsure} \cup SUBSET Chats]
<1>1. doing[x].bot \in Bots
  BY Working1
<1> QED
  BY <1>1 DEF End, TypeOK

\* A step of x on its bot: what is to be shown of it.
LEMMA ActorStep ==
  ASSUME IInv, TypeOK', NEW x \in Actors, doing[x] # Idle, NEW b \in Bots, doing[x].bot = b,
         \A y \in Actors \ {x} :
           \/ doing'[y] = doing[y]
           \/ /\ y \in Working(b) /\ At(y, "start")'
              /\ doing'[y].bot = b /\ doing'[y].chats = doing[y].chats
              /\ doing'[y].mixed = doing[y].mixed,
         \A y \in Working(b) \ {x} :
           At(y, "start")' /\ doing'[y].instance = "mapped" => b \in registered',
         doing'[x] = Idle \/ doing'[x].bot = b,
         \A c \in Bots \ {b} :
           /\ table'[c] = table[c] /\ told'[c] = told[c] /\ given'[c] = given[c]
           /\ c \in registered' <=> c \in registered
           /\ c \in attached' <=> c \in attached,
         phase' = phase, clean' => clean,
         given[b] \subseteq given'[b] \/ Working(b) = {x},
         BotInv(b)', OperationInv(x)'
  PROVE  IInv'
<1>1. TypeOK /\ x \in Working(b)
  BY DEF IInv, Working
<1>2. /\ \A c \in Bots \ {b} :
           /\ \A y \in Actors : y \in Working(c)' <=> y \in Working(c)
           /\ \A y \in Working(c) : doing'[y] = doing[y]
      /\ \A y \in Actors \ {x} : y \in Working(b)' <=> y \in Working(b)
  BY <1>1 DEF Working, At
<1>3. ASSUME NEW c \in Bots \ {b} PROVE Same(c)
  <2>1. /\ table'[c] = table[c] /\ told'[c] = told[c] /\ given'[c] = given[c]
        /\ c \in registered' <=> c \in registered
        /\ c \in attached' <=> c \in attached
    OBVIOUS
  <2>2. /\ \A y \in Actors : y \in Working(c)' <=> y \in Working(c)
        /\ \A y \in Working(c) : doing'[y] = doing[y]
    BY <1>2
  <2> QED
    BY <2>1, <2>2 DEF Same
<1>4. ASSUME NEW y \in Working(b)', y # x PROVE OperationInv(y)'
  <2>1. y \in Actors /\ y \in Working(b)
    BY <1>2, <1>4 DEF Working
  <2>2. /\ doing'[y].bot = b /\ doing'[y].chats = doing[y].chats
        /\ doing'[y].mixed = doing[y].mixed
        /\ doing'[y] = doing[y] \/ At(y, "start")'
    BY <1>4, <2>1 DEF Working
  <2>3. given[b] \subseteq given'[b]
    BY <1>4, <2>1
  <2> QED
    BY <1>1, <1>4, <2>1, <2>2, <2>3, OthersKept
<1> QED
  BY <1>3, <1>4, StepKept

-----------------------------------------------------------------------------
(* The steps of NewSubBot *)

LEMMA CreateClientStep == ASSUME IInv, NEW x \in Actors, CreateClient(x) PROVE IInv'
<1>1. doing[x] # Idle /\ doing[x].at = "create" /\ TypeOK /\ Goto(x, "upsert")
  BY DEF CreateClient, At, IInv
<1>2. PICK b \in Bots : b = doing[x].bot
  BY <1>1, Working1
<1>3. /\ doing' \in [Actors -> Operations \cup {Idle}]
      /\ \A y \in Actors \ {x} : doing'[y] = doing[y]
      /\ doing'[x].bot = b /\ doing'[x].chats = doing[x].chats /\ doing'[x].at = "upsert"
      /\ doing'[x].mixed = doing[x].mixed /\ doing'[x].instance = doing[x].instance
      /\ doing'[x] # Idle
  BY <1>1, <1>2, GotoFacts
<1>4. UNCHANGED <<table, registered, attached, strays, phase, told, given, clean, restarts, people>>
  BY DEF CreateClient, run, history
<1>5. x \in Working(b) /\ Working(b)' = Working(b)
  BY <1>1, <1>2, <1>3 DEF Working
<1>6. TypeOK'
  BY <1>1, <1>3, <1>4 DEF TypeOK, At, people, PeopleOK
<1>7. BotInv(b)'
  BY <1>4, <1>5 DEF IInv, BotInv
<1>8. OperationInv(x)'
  BY <1>1, <1>2, <1>3, <1>4, <1>5 DEF OperationInv, AloneInv, IInv, At, Holds
<1>9. \A y \in Working(b) \ {x} :
        At(y, "start")' /\ doing'[y].instance = "mapped" => b \in registered'
  BY <1>3, <1>4 DEF IInv, OperationInv, Working, At
<1> QED
  BY <1>1, <1>2, <1>3, <1>4, <1>6, <1>7, <1>8, <1>9, ActorStep

LEMMA UpsertSubBotStep == ASSUME IInv, NEW x \in Actors, UpsertSubBot(x) PROVE IInv'
<1>1. doing[x] # Idle /\ doing[x].at = "upsert" /\ TypeOK /\ Goto(x, "register")
  BY DEF UpsertSubBot, At, IInv
<1>2. PICK b \in Bots : b = doing[x].bot /\ doing[x].chats \in SUBSET Chats
  BY <1>1, Working1
<1>3. /\ doing' \in [Actors -> Operations \cup {Idle}]
      /\ \A y \in Actors \ {x} : doing'[y] = doing[y]
      /\ doing'[x].bot = b /\ doing'[x].chats = doing[x].chats /\ doing'[x].at = "register"
      /\ doing'[x].mixed = doing[x].mixed /\ doing'[x].instance = doing[x].instance
      /\ doing'[x] # Idle
  BY <1>1, <1>2, GotoFacts
<1>4. UNCHANGED <<registered, attached, strays, phase, told, given, clean, restarts, people>>
  BY DEF UpsertSubBot, run, history
<1>5. /\ table' \in [Bots -> {NoRow} \cup SUBSET Chats]
      /\ table'[b] = doing[x].chats /\ \A c \in Bots \ {b} : table'[c] = table[c]
  BY <1>1, <1>2 DEF UpsertSubBot, TypeOK
<1>6. x \in Working(b) /\ Working(b)' = Working(b)
  BY <1>1, <1>2, <1>3 DEF Working
<1>7. TypeOK'
  BY <1>1, <1>3, <1>4, <1>5 DEF TypeOK, At, people, PeopleOK
<1>8. OperationInv(x)'
  BY <1>1, <1>2, <1>3, <1>4, <1>5, <1>6 DEF OperationInv, AloneInv, IInv, At
<1>9. BotInv(b)'
  BY <1>1, <1>2, <1>4, <1>5, <1>6 DEF IInv, BotInv, OperationInv
<1>10. \A y \in Working(b) \ {x} :
         At(y, "start")' /\ doing'[y].instance = "mapped" => b \in registered'
  BY <1>3, <1>4 DEF IInv, OperationInv, Working, At
<1> QED
  BY <1>1, <1>2, <1>3, <1>4, <1>5, <1>7, <1>8, <1>9, <1>10, ActorStep

\* The end of the operation of x: what is to be shown of its bot.
LEMMA EndStep ==
  ASSUME IInv, NEW x \in Actors, doing[x] # Idle, NEW row \in {NoRow, Unsure} \cup SUBSET Chats,
         End(x, row), NEW b \in Bots, doing[x].bot = b,
         table' \in [Bots -> {NoRow} \cup SUBSET Chats], given' \in [Bots -> SUBSET Chats],
         \A c \in Bots \ {b} : table'[c] = table[c] /\ given'[c] = given[c],
         UNCHANGED <<registered, phase, restarts, people>>,
         attached' = attached \/ (attached' = attached \cup {b} /\ b \in registered),
         strays' \subseteq Bots, clean' \in BOOLEAN, clean' => clean,
         given'[b] = given[b] \/ ~doing[x].mixed,
         table'[b] # NoRow => table'[b] \subseteq given'[b],
         doing[x].mixed \/ row = Unsure \/ (table'[b] = row /\ (row = NoRow => b \notin registered)),
         clean' /\ ~doing[x].mixed => Agrees(b)'
  PROVE  IInv'
<1>1. TypeOK /\ OperationInv(x) /\ x \in Working(b)
  BY DEF IInv, Working
<1>2. /\ doing' \in [Actors -> Operations \cup {Idle}]
      /\ \A y \in Actors \ {x} : doing'[y] = doing[y]
      /\ doing'[x] = Idle
      /\ \A c \in Bots \ {b} : told'[c] = told[c]
      /\ told'[b] = IF doing[x].mixed THEN Unsure ELSE row
      /\ told' \in [Bots -> {NoRow, Unsure} \cup SUBSET Chats]
  BY <1>1, EndFacts
<1>3. TypeOK'
  BY <1>1, <1>2 DEF TypeOK, At, people, PeopleOK
<1>4. OperationInv(x)'
  BY <1>2 DEF OperationInv
<1>5. Holds(b)'
  BY <1>1, <1>2 DEF Holds
<1>6. clean' => ~doing[x].mixed
  BY <1>1 DEF OperationInv
<1>7. BotInv(b)'
  BY <1>5, <1>6 DEF BotInv
<1>8. given[b] \subseteq given'[b] \/ Working(b) = {x}
  BY <1>1 DEF OperationInv, AloneInv
<1>9. \A y \in Working(b) \ {x} :
        At(y, "start")' /\ doing'[y].instance = "mapped" => b \in registered'
  BY <1>2 DEF IInv, OperationInv, Working, At
<1> QED
  BY <1>1, <1>2, <1>3, <1>4, <1>7, <1>8, <1>9, ActorStep

LEMMA NewSubBotFailStep == ASSUME IInv, NEW x \in Actors, NewSubBotFail(x) PROVE IInv'
<1>1. /\ doing[x] # Idle /\ doing[x].at \in {"create", "upsert", "register"} /\ TypeOK
      /\ OperationInv(x)
  BY DEF NewSubBotFail, At, IInv
<1>2. PICK b \in Bots : b = doing[x].bot
  BY <1>1, Working1
<1>3. PICK row \in {NoRow, Unsure} \cup SUBSET Chats :
        End(x, row) /\ row = (IF At(x, "register") THEN Unsure ELSE told[b])
  BY <1>2, <1>1 DEF NewSubBotFail, TypeOK
<1>4. doing[x].mixed \/ row = Unsure \/ (table[b] = row /\ (row = NoRow => b \notin registered))
  BY <1>1, <1>2, <1>3 DEF At, OperationInv, AloneInv, Holds
<1>5. table[b] # NoRow => table[b] \subseteq given[b]
  BY DEF IInv, BotInv
<1>6. /\ UNCHANGED <<table, given, registered, attached, strays, phase, restarts, people>>
      /\ clean' = FALSE
  BY DEF NewSubBotFail, run
<1>7. doing[x].mixed \/ row = Unsure \/ (table'[b] = row /\ (row = NoRow => b \notin registered))
  BY <1>4, <1>6
<1>8. /\ table' \in [Bots -> {NoRow} \cup SUBSET Chats] /\ given' \in [Bots -> SUBSET Chats]
      /\ table' = table /\ given' = given /\ strays' \subseteq Bots
  BY <1>1, <1>6 DEF TypeOK
<1> QED
  BY <1>1, <1>2, <1>3, <1>5, <1>6, <1>7, <1>8, EndStep

LEMMA StartStep == ASSUME IInv, NEW x \in Actors, Start(x) PROVE IInv'
<1>1. doing[x] # Idle /\ doing[x].at = "start" /\ TypeOK /\ OperationInv(x)
  BY DEF Start, At, IInv
<1>2. PICK b \in Bots : b = doing[x].bot /\ doing[x].chats \in SUBSET Chats
  BY <1>1, Working1
<1>3. /\ UNCHANGED <<table, given, registered, phase, clean, restarts, people>>
      /\ attached' = (IF doing[x].instance = "mapped" THEN attached \cup {b} ELSE attached)
      /\ strays' = (IF doing[x].instance = "stray" THEN strays \cup {b} ELSE strays)
      /\ End(x, doing[x].chats)
  BY <1>2 DEF Start
<1>4. doing[x].instance = "mapped" => b \in registered
  BY <1>1, <1>2 DEF OperationInv, At
<1>5. doing[x].chats # NoRow
  BY <1>2, SubBotsAssumption
<1>6. ~doing[x].mixed => table[b] = doing[x].chats /\ doing[x].instance = "mapped"
  BY <1>1, <1>2 DEF OperationInv, AloneInv
<1>7. ~doing[x].mixed => Agrees(b)'
  BY <1>3, <1>4, <1>5, <1>6 DEF Agrees
<1>8. table[b] # NoRow => table[b] \subseteq given[b]
  BY DEF IInv, BotInv
<1>9. doing[x].mixed \/ (table'[b] = doing[x].chats /\ (doing[x].chats = NoRow => b \notin registered))
  BY <1>3, <1>5, <1>6
<1>10. /\ attached' = attached \/ (attached' = attached \cup {b} /\ b \in registered)
       /\ strays' \subseteq Bots
  BY <1>1, <1>3, <1>4 DEF TypeOK
<1> QED
  BY <1>1, <1>2, <1>3, <1>7, <1>8, <1>9, <1>10, EndStep DEF TypeOK

-----------------------------------------------------------------------------
(* The steps of DelSubBot *)

LEMMA NotFoundStep == ASSUME IInv, NEW x \in Actors, NotFound(x) PROVE IInv'
<1>1. doing[x] # Idle /\ doing[x].at = "unmap" /\ TypeOK /\ OperationInv(x)
  BY DEF NotFound, At, IInv
<1>2. PICK b \in Bots : b = doing[x].bot
  BY <1>1, Working1
<1>3. /\ UNCHANGED <<table, given, registered, attached, strays, phase, clean, restarts, people>>
      /\ End(x, told[b]) /\ b \notin registered
  BY <1>2 DEF NotFound, run
<1>4. ~doing[x].mixed => Holds(b) /\ (clean => Agrees(b))
  BY <1>1, <1>2 DEF OperationInv, AloneInv
<1>5. doing[x].mixed \/ told[b] = Unsure
        \/ (table'[b] = told[b] /\ (told[b] = NoRow => b \notin registered))
  BY <1>3, <1>4 DEF Holds
<1>6. clean' /\ ~doing[x].mixed => Agrees(b)'
  BY <1>3, <1>4 DEF Agrees
<1>7. table[b] # NoRow => table[b] \subseteq given[b]
  BY DEF IInv, BotInv
<1>8. told[b] \in {NoRow, Unsure} \cup SUBSET Chats
  BY <1>1 DEF TypeOK
<1> QED
  BY <1>1, <1>2, <1>3, <1>5, <1>6, <1>7, <1>8, EndStep DEF TypeOK

LEMMA DeleteSubBotStep == ASSUME IInv, NEW x \in Actors, DeleteSubBot(x) PROVE IInv'
<1>1. doing[x] # Idle /\ doing[x].at = "delrow" /\ TypeOK
  BY DEF DeleteSubBot, At, IInv
<1>2. PICK b \in Bots : b = doing[x].bot
  BY <1>1, Working1
<1>3. /\ UNCHANGED <<registered, attached, strays, phase, clean, restarts, people>>
      /\ table' = [table EXCEPT ![b] = NoRow]
      /\ given' = [given EXCEPT ![b] = IF doing[x].mixed THEN @ ELSE {}]
      /\ End(x, NoRow)
  BY <1>2 DEF DeleteSubBot, run
<1>4. b \notin registered
  BY <1>1, <1>2 DEF TypeOK, At
<1>5. /\ table' \in [Bots -> {NoRow} \cup SUBSET Chats] /\ given' \in [Bots -> SUBSET Chats]
      /\ table'[b] = NoRow /\ (given'[b] = given[b] \/ ~doing[x].mixed)
      /\ \A c \in Bots \ {b} : table'[c] = table[c] /\ given'[c] = given[c]
  BY <1>1, <1>3 DEF TypeOK
<1>6. Agrees(b)'
  BY <1>3, <1>4, <1>5 DEF Agrees
<1> QED
  BY <1>1, <1>2, <1>3, <1>4, <1>5, <1>6, EndStep DEF TypeOK

LEMMA DeleteSubBotFailStep == ASSUME IInv, NEW x \in Actors, DeleteSubBotFail(x) PROVE IInv'
<1>1. doing[x] # Idle /\ doing[x].at = "delrow" /\ TypeOK
  BY DEF DeleteSubBotFail, At, IInv
<1>2. PICK b \in Bots : b = doing[x].bot
  BY <1>1, Working1
<1>3. /\ UNCHANGED <<table, given, registered, attached, strays, phase, restarts, people>>
      /\ clean' = FALSE /\ End(x, Unsure)
  BY DEF DeleteSubBotFail, run
<1>4. table[b] # NoRow => table[b] \subseteq given[b]
  BY DEF IInv, BotInv
<1> QED
  BY <1>1, <1>2, <1>3, <1>4, EndStep DEF TypeOK

-----------------------------------------------------------------------------
(* Register and Unmap, which reach into the other operations on the bot *)

\* x goes on at s, and the instances that Displaced names become i.
Displaces(x, b, i, s) ==
  /\ doing' \in [Actors -> Operations \cup {Idle}]
  /\ \A y \in Actors \ {x} :
       \/ doing'[y] = doing[y] /\ ~(y \in Working(b) /\ At(y, "start") /\ doing[y].instance = "mapped")
       \/ /\ y \in Working(b) /\ doing'[y] # Idle /\ doing'[y].at = "start"
          /\ doing'[y].bot = b /\ doing'[y].chats = doing[y].chats
          /\ doing'[y].mixed = doing[y].mixed /\ doing'[y].instance = i
  /\ doing'[x].bot = b /\ doing'[x].chats = doing[x].chats /\ doing'[x].at = s
  /\ doing'[x].mixed = doing[x].mixed /\ doing'[x].instance = doing[x].instance
  /\ doing'[x] # Idle

LEMMA DisplacedFacts ==
  ASSUME TypeOK, NEW x \in Actors, doing[x] # Idle, NEW b \in Bots, doing[x].bot = b,
         NEW i \in {"stray", "stopped"}, NEW s \in {"start", "delrow"},
         doing' = [Displaced(x, b, i) EXCEPT ![x].at = s]
  PROVE  Displaces(x, b, i, s)
<1>1. doing[x] \in Operations /\ [doing[x] EXCEPT !.at = s] \in Operations
  BY Working1 DEF Operations
<1>2. doing'[x] = [doing[x] EXCEPT !.at = s]
  BY DEF Displaced
<1>3. ASSUME NEW y \in Actors \ {x}
      PROVE  /\ doing'[y] \in Operations \cup {Idle}
             /\ \/ doing'[y] = doing[y] /\ ~(y \in Working(b) /\ At(y, "start") /\ doing[y].instance = "mapped")
                \/ /\ y \in Working(b) /\ doing'[y] # Idle /\ doing'[y].at = "start"
                   /\ doing'[y].bot = b /\ doing'[y].chats = doing[y].chats
                   /\ doing'[y].mixed = doing[y].mixed /\ doing'[y].instance = i
  <2>1. CASE y \in Working(b) /\ At(y, "start") /\ doing[y].instance = "mapped"
    <3>1. doing'[y] = [doing[y] EXCEPT !.instance = i]
      BY <1>3, <2>1 DEF Displaced
    <3>2. doing[y] \in Operations /\ doing[y].bot = b /\ doing[y].at = "start"
      BY <2>1 DEF TypeOK, Working, At
    <3>3. [doing[y] EXCEPT !.instance = i] \in Operations
      BY <3>2 DEF Operations
    <3> QED
      BY <2>1, <3>1, <3>2, <3>3, OperationAssumption DEF Operations
  <2>2. CASE ~(y \in Working(b) /\ At(y, "start") /\ doing[y].instance = "mapped")
    <3>1. doing'[y] = doing[y]
      BY <1>3, <2>2 DEF Displaced
    <3> QED
      BY <2>2, <3>1 DEF TypeOK
  <2> QED
    BY <2>1, <2>2
<1>4. doing' \in [Actors -> Operations \cup {Idle}]
  <2>1. doing' = [y \in Actors |-> doing'[y]]
    BY DEF Displaced
  <2>2. \A y \in Actors : doing'[y] \in Operations \cup {Idle}
    BY <1>1, <1>2, <1>3
  <2> QED
    BY <2>1, <2>2
<1> QED
  BY <1>1, <1>2, <1>3, <1>4, OperationAssumption DEF Operations, Displaces

LEMMA RegisterStep == ASSUME IInv, NEW x \in Actors, Register(x) PROVE IInv'
<1>1. doing[x] # Idle /\ doing[x].at = "register" /\ TypeOK /\ OperationInv(x) /\ ~Locked
  BY DEF Register, At, IInv
<1>2. PICK b \in Bots : b = doing[x].bot
  BY <1>1, Working1
<1>3. /\ UNCHANGED <<table, given, told, phase, clean, restarts, people>>
      /\ doing' = [Displaced(x, b, "stray") EXCEPT ![x].at = "start"]
      /\ registered' = registered \cup {b}
      /\ attached' = attached \ {b}
      /\ strays' = IF b \in attached THEN strays \cup {b} ELSE strays
  BY <1>2 DEF Register, history
<1>4. Displaces(x, b, "stray", "start")
  BY <1>1, <1>2, <1>3, DisplacedFacts
<1>5. x \in Working(b) /\ Working(b)' = Working(b)
  BY <1>1, <1>2, <1>4 DEF Working, Displaces
<1>6. \A y \in Actors : ~At(y, "delrow")'
  BY <1>1, <1>4 DEF Locked, At, Displaces
<1>7. TypeOK'
  BY <1>1, <1>3, <1>4, <1>6 DEF TypeOK, people, PeopleOK, Displaces
<1>8. OperationInv(x)'
  BY <1>1, <1>2, <1>3, <1>4, <1>5 DEF OperationInv, AloneInv, At, Displaces
<1>9. BotInv(b)'
  BY <1>3, <1>5 DEF IInv, BotInv
<1>10. /\ b \in registered'
       /\ \A c \in Bots \ {b} :
           /\ c \in registered' <=> c \in registered
           /\ c \in attached' <=> c \in attached
  BY <1>3
<1> QED
  BY <1>1, <1>2, <1>3, <1>4, <1>7, <1>8, <1>9, <1>10, ActorStep DEF At, Displaces

LEMMA UnmapStep == ASSUME IInv, NEW x \in Actors, Unmap(x) PROVE IInv'
<1>1. doing[x] # Idle /\ doing[x].at = "unmap" /\ TypeOK /\ OperationInv(x) /\ ~Locked
  BY DEF Unmap, At, IInv
<1>2. PICK b \in Bots : b = doing[x].bot
  BY <1>1, Working1
<1>3. /\ UNCHANGED <<table, given, told, strays, phase, clean, restarts, people>>
      /\ doing' = [Displaced(x, b, "stopped") EXCEPT ![x].at = "delrow"]
      /\ registered' = registered \ {b}
      /\ attached' = attached \ {b}
  BY <1>2 DEF Unmap, history
<1>4. Displaces(x, b, "stopped", "delrow")
  BY <1>1, <1>2, <1>3, DisplacedFacts
<1>5. x \in Working(b) /\ Working(b)' = Working(b)
  BY <1>1, <1>2, <1>4 DEF Working, Displaces
<1>6. \A y \in Actors : At(y, "delrow")' => y = x
  BY <1>1, <1>4 DEF Locked, At, Displaces
<1>7. TypeOK'
  BY <1>1, <1>3, <1>4, <1>6 DEF TypeOK, people, PeopleOK, Displaces
<1>8. OperationInv(x)'
  BY <1>1, <1>2, <1>3, <1>4, <1>5 DEF OperationInv, AloneInv, At, Displaces
<1>9. BotInv(b)'
  BY <1>3, <1>5 DEF IInv, BotInv
<1>10. /\ \A y \in Working(b) \ {x} :
            At(y, "start")' /\ doing'[y].instance = "mapped" => b \in registered'
       /\ \A c \in Bots \ {b} :
           /\ c \in registered' <=> c \in registered
           /\ c \in attached' <=> c \in attached
  BY <1>3, <1>4 DEF Working, At, Displaces
<1>11. /\ \A y \in Actors \ {x} :
            \/ doing'[y] = doing[y]
            \/ /\ y \in Working(b) /\ At(y, "start")'
               /\ doing'[y].bot = b /\ doing'[y].chats = doing[y].chats
               /\ doing'[y].mixed = doing[y].mixed
       /\ doing'[x].bot = b
  BY <1>4 DEF At, Displaces
<1> QED
  BY <1>1, <1>2, <1>3, <1>7, <1>8, <1>9, <1>10, <1>11, ActorStep

-----------------------------------------------------------------------------
(* A command begins *)

\* The operation of x, and what becomes of those under way on its bot.
Begins(x, b, cs, at) ==
  /\ doing' \in [Actors -> Operations \cup {Idle}]
  /\ doing'[x] # Idle /\ doing'[x].bot = b /\ doing'[x].chats = cs /\ doing'[x].at = at
  /\ doing'[x].instance = "mapped" /\ (doing'[x].mixed <=> Working(b) # {})
  /\ \A y \in Actors \ {x} :
       \/ y \notin Working(b) /\ doing'[y] = doing[y]
       \/ /\ y \in Working(b) /\ doing'[y] # Idle
          /\ doing'[y].bot = b /\ doing'[y].chats = doing[y].chats
          /\ doing'[y].at = doing[y].at /\ doing'[y].instance = doing[y].instance
          /\ doing'[y].mixed

LEMMA BeginFacts ==
  ASSUME TypeOK, NEW x \in Actors, NEW b \in Bots, NEW cs \in SUBSET Chats,
         NEW at \in {"create", "unmap"}, Begin(x, b, cs, at)
  PROVE  Begins(x, b, cs, at)
<1>1. /\ doing[x] = Idle
      /\ doing' = [y \in Actors |-> IF y = x THEN Operation(b, cs, at) ELSE Mixed(y, b)]
  BY DEF Begin
<1>2. Operation(b, cs, at) \in Operations /\ doing'[x] = Operation(b, cs, at)
  BY <1>1 DEF Operation, Operations
<1>3. ASSUME NEW y \in Actors \ {x}
      PROVE  /\ doing'[y] \in Operations \cup {Idle}
             /\ \/ y \notin Working(b) /\ doing'[y] = doing[y]
                \/ /\ y \in Working(b) /\ doing'[y] # Idle
                   /\ doing'[y].bot = b /\ doing'[y].chats = doing[y].chats
                   /\ doing'[y].at = doing[y].at /\ doing'[y].instance = doing[y].instance
                   /\ doing'[y].mixed
  <2>1. CASE y \in Working(b)
    <3>1. doing'[y] = [doing[y] EXCEPT !.mixed = TRUE]
      BY <1>1, <1>3, <2>1 DEF Mixed
    <3>2. doing[y] \in Operations /\ doing[y].bot = b
      BY <2>1 DEF TypeOK, Working
    <3>3. [doing[y] EXCEPT !.mixed = TRUE] \in Operations
      BY <3>2 DEF Operations
    <3> QED
      BY <2>1, <3>1, <3>2, <3>3, OperationAssumption DEF Operations
  <2>2. CASE y \notin Working(b)
    <3>1. doing'[y] = doing[y]
      BY <1>1, <1>3, <2>2 DEF Mixed
    <3> QED
      BY <2>2, <3>1 DEF TypeOK
  <2> QED
    BY <2>1, <2>2
<1>4. doing' \in [Actors -> Operations \cup {Idle}]
  BY <1>1, <1>2, <1>3
<1>5. /\ doing'[x] # Idle /\ doing'[x].bot = b /\ doing'[x].chats = cs /\ doing'[x].at = at
      /\ doing'[x].instance = "mapped"
  BY <1>2, OperationAssumption DEF Operation
<1>6. doing'[x].mixed = (Working(b) # {})
  BY <1>2 DEF Operation
<1>7. doing'[x].mixed <=> Working(b) # {}
  BY <1>6, Zenon
<1> QED
  BY <1>3, <1>4, <1>5, <1>7 DEF Begins

LEMMA BeginStep ==
  ASSUME IInv, NEW x \in Handlers, NEW b \in Bots, NEW cs \in SUBSET Chats,
         NEW at \in {"create", "unmap"}, Begin(x, b, cs, at),
         given' = [given EXCEPT ![b] = @ \cup cs],
         UNCHANGED <<table, run, told, restarts, people>>
  PROVE  IInv'
<1>1. TypeOK /\ x \in Actors /\ x \notin Bots
  BY SubBotsAssumption DEF IInv, Actors
<1>2. Begins(x, b, cs, at)
  BY <1>1, BeginFacts
<1>3. doing[x] = Idle /\ clean' = (clean /\ Working(b) = {})
  BY DEF Begin
<1>4. /\ UNCHANGED <<table, registered, attached, strays, phase, told, restarts, people>>
      /\ given' \in [Bots -> SUBSET Chats] /\ given'[b] = given[b] \cup cs
      /\ \A c \in Bots \ {b} : given'[c] = given[c]
  BY <1>1 DEF run, TypeOK
<1>5. TypeOK'
  <2>1. \A y \in Actors : At(y, "delrow")' =>
          At(y, "delrow") /\ doing'[y].bot = doing[y].bot
    BY <1>2 DEF Begins, At, Working
  <2>2. clean' \in BOOLEAN
    BY <1>3
  <2> QED
    BY <1>1, <1>2, <1>4, <2>1, <2>2 DEF TypeOK, Begins, people, PeopleOK
<1>6. ASSUME NEW c \in Bots \ {b} PROVE Same(c)
  <2>1. \A y \in Actors : y \in Working(c)' <=> y \in Working(c)
    BY <1>2, <1>3 DEF Working, Begins
  <2>2. \A y \in Working(c) : doing'[y] = doing[y]
    BY <1>2, <1>3 DEF Working, Begins
  <2> QED
    BY <1>4, <2>1, <2>2 DEF Same
<1>7. x \in Working(b)' /\ x \notin Working(b) /\ Working(b)' = Working(b) \cup {x}
  BY <1>1, <1>2, <1>3 DEF Working, Begins
<1>8. BotInv(b)'
  BY <1>4, <1>7 DEF IInv, BotInv
<1>9. OperationInv(x)'
  <2>1. doing'[x] # Idle /\ doing'[x].bot = b
    BY <1>2 DEF Begins
  <2>2. doing'[x].chats \subseteq given'[b]
    BY <1>2, <1>4 DEF Begins
  <2>3. ~At(x, "start")' /\ doing'[x].instance = "mapped"
    BY <1>2 DEF Begins, At
  <2>4. clean' => ~doing'[x].mixed
    BY <1>2, <1>3 DEF Begins
  <2>5. ASSUME ~doing'[x].mixed PROVE AloneInv(x, b)'
    <3>1. Working(b) = {} /\ Working(b)' = {x}
      BY <1>2, <1>7, <2>5 DEF Begins
    <3>2. Holds(b) /\ (clean => Agrees(b))
      BY <3>1 DEF IInv, BotInv
    <3>3. Holds(b)' /\ (clean' => Agrees(b)')
      BY <1>3, <1>4, <3>2 DEF Holds, Agrees
    <3>4. doing'[x].at \in {"create", "unmap"}
      BY <1>2 DEF Begins
    <3> QED
      BY <3>1, <3>3, <3>4 DEF AloneInv
  <2> QED
    BY <1>1, <2>1, <2>2, <2>3, <2>4, <2>5 DEF OperationInv
<1>10. ASSUME NEW y \in Working(b)', y # x PROVE OperationInv(y)'
  <2>1. y \in Working(b) /\ y \in Actors \ {x} /\ OperationInv(y)
    BY <1>7, <1>10 DEF Working, IInv
  <2>2. ~clean'
    BY <1>3, <2>1
  <2>3. /\ doing'[y] # Idle /\ doing'[y].bot = doing[y].bot /\ doing'[y].chats = doing[y].chats
        /\ doing'[y].at = doing[y].at /\ doing'[y].instance = doing[y].instance
        /\ doing'[y].mixed /\ doing[y].bot = b /\ doing[y] # Idle
    BY <1>2, <2>1 DEF Begins, Working
  <2> QED
    BY <1>4, <2>1, <2>2, <2>3 DEF OperationInv, At
<1>11. clean' => clean
  BY <1>3
<1> QED
  BY <1>4, <1>5, <1>6, <1>8, <1>9, <1>10, <1>11, StepKept

LEMMA CommandStep == ASSUME IInv, NEW h \in Handlers, Command(h) PROVE IInv'
<1>1. PICK b \in Bots : DelSub(h, b) \/ \E cs \in Offers : AddSub(h, b, cs)
  BY DEF Command
<1>2. CASE DelSub(h, b)
  <2>1. Begin(h, b, {}, "unmap") /\ UNCHANGED <<table, run, told, given, restarts, people>>
    BY <1>2 DEF DelSub
  <2>2. given' = [given EXCEPT ![b] = @ \cup {}]
    BY <2>1 DEF IInv, TypeOK
  <2> QED
    BY <2>1, <2>2, BeginStep
<1>3. ASSUME NEW cs \in Offers, AddSub(h, b, cs) PROVE IInv'
  <2>1. cs \in SUBSET Chats
    BY SubBotsAssumption
  <2> QED
    BY <1>3, <2>1, BeginStep DEF AddSub
<1> QED
  BY <1>1, <1>2, <1>3

-----------------------------------------------------------------------------
(* StartStored, the process's end, and the live handlers *)

LEMMA QuietStep ==
  ASSUME IInv, TypeOK', UNCHANGED <<table, told, given, registered, attached, doing>>,
         phase' = "boot" => phase = "boot",
         clean' => clean /\ (phase = "boot" => phase' = "boot")
  PROVE  IInv'
<1>1. \A b \in Bots : Working(b)' = Working(b)
  BY DEF Working
<1>2. ASSUME NEW b \in Bots
      PROVE  (Holds(b) => Holds(b)') /\ (clean' => (Agrees(b) => Agrees(b)'))
  BY DEF Holds, Agrees
<1>3. ASSUME NEW b \in Bots PROVE BotInv(b)'
  BY <1>1, <1>2 DEF IInv, BotInv
<1>4. ASSUME NEW x \in Actors PROVE OperationInv(x)'
  <2>1. CASE doing[x] = Idle
    BY <2>1 DEF OperationInv
  <2>2. CASE doing[x] # Idle
    <3>1. PICK b \in Bots : b = doing[x].bot
      BY <2>2, Working1 DEF IInv
    <3>2. AloneInv(x, b) => AloneInv(x, b)'
      BY <1>1, <1>2 DEF AloneInv
    <3> QED
      BY <2>2, <3>1, <3>2 DEF IInv, OperationInv, At
  <2> QED
    BY <2>1, <2>2
<1> QED
  BY <1>3, <1>4 DEF IInv

LEMMA ReadStoredFailStep == ASSUME IInv, ReadStoredFail PROVE IInv'
<1>1. /\ UNCHANGED <<table, registered, attached, strays, doing, told, given, restarts, people>>
      /\ phase' = "starting" /\ clean' = FALSE
  BY DEF ReadStoredFail
<1>2. TypeOK'
  BY <1>1 DEF IInv, TypeOK, At, people, PeopleOK
<1> QED
  BY <1>1, <1>2, QuietStep

LEMMA FinishStoredStep == ASSUME IInv, FinishStored PROVE IInv'
<1>1. /\ UNCHANGED <<table, registered, attached, strays, doing, told, given, clean, restarts,
                     public, members, posted>>
      /\ phase = "starting" /\ phase' = "up" /\ ignored' = registered
  BY DEF FinishStored, history
<1>2. TypeOK'
  BY <1>1 DEF IInv, TypeOK, At, PeopleOK
<1> QED
  BY <1>1, <1>2, QuietStep

LEMMA HearStep == ASSUME IInv, Hear \/ \E c \in Busy : Publish(c) PROVE IInv'
<1>1. UNCHANGED <<table, registered, attached, strays, phase, doing, told, given, clean, restarts, ignored>>
  BY DEF Hear, Publish, Live, Leave, Post, SetPublic, run, history
<1>2. PeopleOK'
  BY MembershipAssumption DEF IInv, TypeOK, PeopleOK, Hear, Publish, Live, Leave, Post, SetPublic
<1>3. TypeOK'
  BY <1>1, <1>2 DEF IInv, TypeOK, At
<1> QED
  BY <1>1, <1>3, QuietStep

\* The process ends: nothing is under way, and nothing runs.
LEMMA RestartStep == ASSUME IInv, Restart PROVE IInv'
<1>1. /\ UNCHANGED <<table, given, public, members, posted>>
      /\ restarts < MaxRestarts /\ restarts' = restarts + 1
      /\ registered' = {} /\ attached' = {} /\ strays' = {} /\ phase' = "boot"
      /\ told' = [b \in Bots |-> IF Working(b) = {} THEN told[b] ELSE Unsure]
      /\ doing' = [x \in Actors |-> Idle] /\ clean' = TRUE /\ ignored' = {}
  BY DEF Restart
<1>2. \A x \in Actors : doing'[x] = Idle
  BY <1>1
<1>3. told' \in [Bots -> {NoRow, Unsure} \cup SUBSET Chats]
  BY <1>1 DEF IInv, TypeOK
<1>4. restarts' \in 0 .. MaxRestarts
  BY <1>1, SubBotsAssumption DEF IInv, TypeOK
<1>5. TypeOK'
  BY <1>1, <1>2, <1>3, <1>4 DEF IInv, TypeOK, At, PeopleOK
<1>6. ASSUME NEW b \in Bots PROVE BotInv(b)'
  <2>1. Holds(b)'
    BY <1>1 DEF IInv, BotInv, Holds
  <2>2. Agrees(b)'
    BY <1>1 DEF Agrees
  <2> QED
    BY <1>1, <2>1, <2>2 DEF IInv, BotInv
<1> QED
  BY <1>2, <1>5, <1>6 DEF IInv, OperationInv

\* Every stored bot is to be started; its goroutine was idle until now.
LEMMA ReadStoredStep == ASSUME IInv, ReadStored PROVE IInv'
<1>1. /\ UNCHANGED <<table, registered, attached, strays, told, given, restarts, people>>
      /\ phase = "boot" /\ phase' = "starting" /\ TypeOK
      /\ clean' = (clean /\ \A b \in Bots : table[b] # NoRow => Working(b) = {})
  BY DEF ReadStored, IInv
<1>2. ASSUME NEW b \in Bots PROVE b \in Actors /\ doing[b] = Idle
  BY <1>1 DEF IInv, OperationInv, Actors
<1>3. ASSUME NEW b \in Bots, table[b] = NoRow PROVE doing'[b] = Idle
  BY <1>2, <1>3 DEF ReadStored
<1>4. ASSUME NEW b \in Bots, table[b] # NoRow
      PROVE  /\ doing'[b] \in Operations /\ doing'[b] # Idle /\ doing'[b].bot = b
             /\ doing'[b].chats = table[b] /\ doing'[b].at = "create"
             /\ doing'[b].instance = "mapped" /\ (doing'[b].mixed <=> Working(b) # {})
  <2>1. doing'[b] = Operation(b, table[b], "create")
    BY <1>2, <1>4 DEF ReadStored
  <2>2. table[b] \in SUBSET Chats
    BY <1>1, <1>4 DEF TypeOK
  <2>3. doing'[b] \in Operations
    BY <2>1, <2>2 DEF Operation, Operations
  <2>4. doing'[b].mixed = (Working(b) # {})
    BY <2>1 DEF Operation
  <2>5. doing'[b].mixed <=> Working(b) # {}
    BY <2>4, Zenon
  <2> QED
    BY <2>1, <2>3, <2>5, OperationAssumption DEF Operation
<1>5. ASSUME NEW h \in Actors \ Bots, doing[h] = Idle \/ table[doing[h].bot] = NoRow
      PROVE  doing'[h] = doing[h]
  BY <1>5 DEF ReadStored
<1>6. ASSUME NEW h \in Actors \ Bots, doing[h] # Idle, table[doing[h].bot] # NoRow
      PROVE  /\ doing'[h] \in Operations /\ doing'[h] # Idle /\ doing'[h].bot = doing[h].bot
             /\ doing'[h].chats = doing[h].chats /\ doing'[h].at = doing[h].at
             /\ doing'[h].instance = doing[h].instance /\ doing'[h].mixed
  <2>1. doing'[h] = [doing[h] EXCEPT !.mixed = TRUE]
    BY <1>6 DEF ReadStored
  <2>2. doing[h] \in Operations
    BY <1>1, <1>6, Working1
  <2>3. doing'[h] \in Operations
    BY <2>1, <2>2 DEF Operations
  <2> QED
    BY <2>1, <2>2, <2>3, OperationAssumption DEF Operations
<1>7. TypeOK'
  <2>1. \A x \in Actors : doing'[x] \in Operations \cup {Idle}
    BY <1>1, <1>3, <1>4, <1>5, <1>6 DEF TypeOK
  <2>2. doing' \in [Actors -> Operations \cup {Idle}]
    BY <2>1 DEF ReadStored
  <2>3. \A x \in Actors : At(x, "delrow")' => At(x, "delrow") /\ doing'[x].bot = doing[x].bot
    BY <1>3, <1>4, <1>5, <1>6 DEF At
  <2>4. clean' \in BOOLEAN
    BY <1>1
  <2> QED
    BY <1>1, <2>2, <2>3, <2>4 DEF TypeOK, people, PeopleOK
<1>8. ASSUME NEW b \in Bots
      PROVE  /\ table[b] = NoRow => Working(b)' = Working(b)
             /\ table[b] # NoRow => Working(b)' = Working(b) \cup {b}
  <2>1. \A h \in Actors \ Bots : h \in Working(b)' <=> h \in Working(b)
    BY <1>5, <1>6 DEF Working
  <2>2. \A c \in Bots : c \notin Working(b) /\ (c \in Working(b)' <=> c = b /\ table[b] # NoRow)
    BY <1>2, <1>3, <1>4 DEF Working
  <2> QED
    BY <2>1, <2>2 DEF Working
<1>9. ASSUME NEW b \in Bots
      PROVE  (Holds(b) <=> Holds(b)') /\ (table[b] = NoRow => (Agrees(b) <=> Agrees(b)'))
  BY <1>1 DEF Holds, Agrees
<1>10. ASSUME NEW b \in Bots PROVE BotInv(b)'
  BY <1>1, <1>8, <1>9 DEF IInv, BotInv
<1>11. ASSUME NEW x \in Actors PROVE OperationInv(x)'
  <2>1. CASE x \in Bots /\ table[x] = NoRow
    BY <1>3, <2>1 DEF OperationInv
  <2>2. CASE x \in Bots /\ table[x] # NoRow
    <3>1. table[x] \subseteq given[x] /\ (Working(x) = {} => Holds(x))
      BY <2>2 DEF IInv, BotInv
    <3>2. clean' => ~doing'[x].mixed
      BY <1>1, <1>4, <2>2
    <3>3. ~doing'[x].mixed => Working(x) = {} /\ Working(x)' = {x}
      BY <1>4, <1>8, <2>2
    <3>4. ~doing'[x].mixed => AloneInv(x, x)'
      BY <1>4, <1>9, <2>2, <3>1, <3>3 DEF AloneInv
    <3> QED
      BY <1>1, <1>4, <2>2, <3>1, <3>2, <3>4 DEF OperationInv, At
  <2>3. CASE x \in Actors \ Bots /\ (doing[x] = Idle \/ table[doing[x].bot] = NoRow)
    <3>1. doing'[x] = doing[x] /\ OperationInv(x)
      BY <1>5, <2>3 DEF IInv
    <3>2. CASE doing[x] = Idle
      BY <3>1, <3>2 DEF OperationInv
    <3>3. CASE doing[x] # Idle
      <4>1. PICK b \in Bots : b = doing[x].bot /\ table[b] = NoRow
        BY <1>1, <2>3, <3>3, Working1
      <4>2. Working(b)' = Working(b)
        BY <1>8, <4>1
      <4>3. AloneInv(x, b) => AloneInv(x, b)'
        BY <1>1, <1>9, <3>1, <4>1, <4>2 DEF AloneInv
      <4> QED
        BY <1>1, <2>3, <3>1, <3>3, <4>1, <4>3 DEF OperationInv, At
    <3> QED
      BY <3>2, <3>3
  <2>4. CASE x \in Actors \ Bots /\ doing[x] # Idle /\ table[doing[x].bot] # NoRow
    <3>1. PICK b \in Bots : b = doing[x].bot /\ x \in Working(b)
      BY <1>1, <2>4, Working1
    <3>2. ~clean'
      BY <1>1, <2>4, <3>1
    <3>3. OperationInv(x)
      BY DEF IInv
    <3> QED
      BY <1>1, <1>6, <2>4, <3>1, <3>2, <3>3 DEF OperationInv, At
  <2> QED
    BY <2>1, <2>2, <2>3, <2>4
<1> QED
  BY <1>7, <1>10, <1>11 DEF IInv

-----------------------------------------------------------------------------
(* The theorems *)

LEMMA InitIInv == ASSUME Init PROVE IInv
<1>1. \A x \in Actors : doing[x] = Idle
  BY DEF Init
<1>2. TypeOK
  BY <1>1, SubBotsAssumption DEF Init, InitPeople, TypeOK, At, PeopleOK
<1> QED
  BY <1>1, <1>2 DEF Init, IInv, BotInv, Holds, Agrees, OperationInv

LEMMA NextIInv == ASSUME IInv, [Next]_vars PROVE IInv'
<1>1. CASE Next
  <2>1. ASSUME NEW x \in Actors, Step(x) PROVE IInv'
    BY <2>1, CreateClientStep, UpsertSubBotStep, NewSubBotFailStep, RegisterStep, StartStep,
       NotFoundStep, UnmapStep, DeleteSubBotStep, DeleteSubBotFailStep DEF Step
  <2> QED
    BY <1>1, <2>1, CommandStep, ReadStoredStep, ReadStoredFailStep, FinishStoredStep, RestartStep,
       HearStep DEF Next
<1>2. CASE UNCHANGED vars
  <2>1. /\ UNCHANGED <<table, registered, attached, strays, phase, doing, told, given, clean, restarts>>
        /\ UNCHANGED people
    BY <1>2 DEF vars, run, history
  <2>2. TypeOK'
    BY <2>1 DEF IInv, TypeOK, At, people, PeopleOK
  <2> QED
    BY <2>1, <2>2, QuietStep
<1> QED
  BY <1>1, <1>2

\* The invariant, for any number of bots, of commands and StartStored at once, and
\* of restarts (subbot/bots.go).
THEOREM Invariance == Spec => []IInv
<1>1. Init => IInv
  BY InitIInv
<1>2. IInv /\ [Next]_vars => IInv'
  BY NextIInv
<1> QED
  BY <1>1, <1>2, PTL DEF Spec

\* What runs with handlers is in the map, and a bot whose row is being deleted is not.
THEOREM TypeCorrect == Spec => []TypeOK
<1>1. IInv => TypeOK
  BY DEF IInv
<1> QED
  BY <1>1, Invariance, PTL

\* What an admin was told of a bot lasts, through restarts: /addsub's chats are in
\* its row, and after /delsub it has no row and does not run.
THEOREM ToldLasts == Spec => []ConfirmedLasts
<1>1. IInv => ConfirmedLasts
  BY DEF IInv, BotInv, Holds, ConfirmedLasts
<1> QED
  BY <1>1, Invariance, PTL

\* When StartStored is done and nothing is under way, /listsub has no mismatch to
\* report, unless something failed or overlapped since the start.
THEOREM MapMatchesTable == Spec => []ListMatches
<1>1. ASSUME IInv, phase = "up", clean, \A x \in Actors : doing[x] = Idle
      PROVE  registered = {b \in Bots : table[b] # NoRow} /\ attached = registered
  <2>1. \A b \in Bots : Agrees(b)
    BY <1>1 DEF IInv, BotInv, Working
  <2> QED
    BY <1>1, <2>1 DEF Agrees, IInv, TypeOK
<1>2. IInv => ListMatches
  BY <1>1 DEF ListMatches
<1> QED
  BY <1>2, Invariance, PTL

\* Whatever fails or overlaps, a bot shows only chats that it was given, and to a
\* stranger only those that are public, the channel he asks in, or, where he asks in
\* none, those he has written in.
THEOREM OnlyGivenShown == Spec => []StrangersConfined
<1>1. ASSUME IInv, NEW b \in Bots, NEW u \in Users, NEW space \in Spaces,
             NEW c \in Shown(b, u, space)
      PROVE  /\ c \in given[b]
             /\ \/ SearchesAll(u, space)
                \/ c \in public \cup {space}
                \/ AsksAsMember(space) /\ <<c, u>> \in posted
  <2>1. table[b] # NoRow => table[b] \subseteq given[b]
    BY <1>1 DEF IInv, BotInv
  <2>2. members \subseteq posted
    BY <1>1 DEF IInv, TypeOK, PeopleOK
  <2> QED
    BY <1>1, <2>1, <2>2 DEF Shown
<1>2. IInv => StrangersConfined
  BY <1>1 DEF StrangersConfined
<1> QED
  BY <1>2, Invariance, PTL

=============================================================================
