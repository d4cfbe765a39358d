---------------------------- MODULE MigrationProofs ----------------------------
(***************************************************************************)
(* The migration loses nothing, for any chats, old indexes and pages, any  *)
(* number of runs, failures and live requests.  The invariant follows the  *)
(* documents: what is behind the migration is in the shared index once all *)
(* tasks are done, so that the old index may go.                           *)
(***************************************************************************)
EXTENDS Migration, TLAPS

\* The documents of the page's chat that have been read are on their way, and
\* its old index, if it is still there, is as long as it was.
PageInv ==
  copy.at = "page" /\ old[copy.chat] # Gone =>
    /\ copy.total = Len(old[copy.chat])
    /\ \A d \in owed : \A i \in DOMAIN old[copy.chat] :
         d[1] = copy.chat /\ old[copy.chat][i] = d[2] /\ i <= copy.offset => Coming(d)

\* So are all documents of the chats that have been copied.
ChatInv ==
  /\ copy.at = "drop" => \A d \in owed : d[1] = copy.chat => Coming(d)
  /\ copy.at \in {"next", "page", "drop", "done"} =>
       \A d \in owed : d[1] \in copy.chats \ copy.left => Coming(d)
  /\ copy.at = "done" => copy.left = {}

IInv == TypeOK /\ NothingLost /\ PageInv /\ ChatInv /\ Configured

\* What a step may do to documents: those that are coming come, those in the old
\* index stay there or come, and new ones come.
Kept ==
  /\ \A d \in owed' : d \in owed /\ Coming(d) => Coming(d)'
  /\ \A d \in owed' : d \in owed /\ InOld(d) => InOld(d)' \/ Coming(d)'
  /\ \A d \in owed' : d \notin owed => Coming(d)'
  /\ \A c \in Chats : old'[c] \in {old[c], Gone}

-----------------------------------------------------------------------------
(* The engine's tasks *)

LEMMA TasksTyped ==
  /\ Create \in Tasks /\ Settings \in Tasks
  /\ \A ds \in SUBSET Documents : Add(ds) \in Tasks /\ Remove(ds) \in Tasks
  /\ \A c \in Chats : Drop(c) \in Tasks
BY DEF Create, Settings, Add, Remove, Drop, Tasks

LEMMA PutFacts ==
  ASSUME EngineOK, NEW t \in Tasks, Put(t)
  PROVE  /\ EngineOK' /\ index' = index /\ docs' = docs /\ old' = old
         /\ DOMAIN tasks' = 1 .. Len(tasks) + 1 /\ DOMAIN tasks = 1 .. Len(tasks)
         /\ Len(tasks) \in Nat
         /\ \A i \in DOMAIN tasks : tasks'[i] = tasks[i]
         /\ tasks'[Len(tasks) + 1] = t
<1>1. tasks \in Seq(Tasks)
  BY DEF EngineOK
<1>2. tasks' = Append(tasks, t) /\ UNCHANGED <<index, docs, old>>
  BY DEF Put
<1>3. tasks' \in Seq(Tasks)
  BY <1>1, <1>2
<1> QED
  BY <1>1, <1>2, <1>3 DEF EngineOK

LEMMA PutComing ==
  ASSUME EngineOK, NEW t \in Tasks, Put(t), NEW d, Coming(d) \/ Adds(t, d), ~Removes(t, d)
  PROVE  Coming(d)'
<1>1. CASE Adds(t, d)
  BY <1>1, PutFacts DEF Coming
<1>2. CASE d \in docs /\ \A i \in DOMAIN tasks : ~Removes(tasks[i], d)
  BY <1>2, PutFacts DEF Coming
<1>3. ASSUME NEW k \in DOMAIN tasks,
             Adds(tasks[k], d) /\ \A i \in DOMAIN tasks : i > k => ~Removes(tasks[i], d)
      PROVE  Coming(d)'
  BY <1>3, PutFacts DEF Coming
<1> QED
  BY <1>1, <1>2, <1>3 DEF Coming

LEMMA PutInOld ==
  ASSUME EngineOK, NEW t \in Tasks, Put(t), NEW d, InOld(d), t.do = "drop" => t.chat # d[1]
  PROVE  InOld(d)'
BY PutFacts DEF InOld

LEMMA WorkFacts ==
  ASSUME EngineOK, Work
  PROVE  /\ EngineOK'
         /\ DOMAIN tasks = 1 .. Len(tasks) /\ Len(tasks) \in Nat \ {0}
         /\ DOMAIN tasks' = 1 .. Len(tasks) - 1
         /\ \A i \in DOMAIN tasks' : tasks'[i] = tasks[i + 1]
         /\ tasks[1] \in Tasks
         /\ docs' = CASE tasks[1].do = "add" -> docs \cup tasks[1].docs
                      [] tasks[1].do = "remove" -> docs \ tasks[1].docs
                      [] OTHER -> docs
         /\ old' = IF tasks[1].do = "drop" THEN [old EXCEPT ![tasks[1].chat] = Gone] ELSE old
         /\ \A c \in Chats : old'[c] \in {old[c], Gone}
         /\ index' = "ready" \/ (index' = index /\ tasks[1].do # "settings")
              \/ (index = "absent" /\ tasks[1].do # "settings")
<1>1. tasks \in Seq(Tasks) /\ tasks # <<>>
  BY DEF EngineOK, Work
<1>2. tasks' = Tail(tasks) /\ Head(tasks) = tasks[1] /\ Head(tasks) \in Tasks
  BY <1>1 DEF Work
<1>3. tasks' \in Seq(Tasks) /\ Len(tasks') = Len(tasks) - 1 /\ Len(tasks) \in Nat \ {0}
  BY <1>1, <1>2
<1>4. DOMAIN tasks = 1 .. Len(tasks) /\ DOMAIN tasks' = 1 .. Len(tasks) - 1
  BY <1>1, <1>3
<1>5. \A i \in DOMAIN tasks' : tasks'[i] = tasks[i + 1]
  BY <1>1, <1>2, <1>4
<1>6. index' \in {"absent", "bare", "ready"}
      /\ (index' = "ready" \/ (index' = index /\ tasks[1].do # "settings")
            \/ (index = "absent" /\ tasks[1].do # "settings"))
  BY <1>2 DEF Work, EngineOK
<1>7. docs' = CASE tasks[1].do = "add" -> docs \cup tasks[1].docs
                [] tasks[1].do = "remove" -> docs \ tasks[1].docs
                [] OTHER -> docs
  BY <1>2 DEF Work
<1>8. docs' \subseteq Documents
  <2>1. tasks[1].do = "add" => tasks[1].docs \subseteq Documents
    BY <1>2 DEF Tasks
  <2>2. docs \subseteq Documents
    BY DEF EngineOK
  <2>3. CASE tasks[1].do = "add"
    BY <1>7, <2>1, <2>2, <2>3
  <2>4. CASE tasks[1].do = "remove"
    BY <1>7, <2>2, <2>4
  <2>5. CASE tasks[1].do \notin {"add", "remove"}
    BY <1>7, <2>2, <2>5
  <2> QED
    BY <2>3, <2>4, <2>5
<1>9. old' = IF tasks[1].do = "drop" THEN [old EXCEPT ![tasks[1].chat] = Gone] ELSE old
  BY <1>2 DEF Work
<1>10. old' \in [Chats -> Seq(Ids) \cup {Gone}] /\ \A c \in Chats : old'[c] \in {old[c], Gone}
  BY <1>9 DEF EngineOK
<1> QED
  BY <1>2, <1>3, <1>4, <1>5, <1>6, <1>7, <1>8, <1>9, <1>10 DEF EngineOK

LEMMA WorkComing ==
  ASSUME EngineOK, Work, NEW d, Coming(d)
  PROVE  Coming(d)'
<1> USE WorkFacts
<1>1. \A i \in DOMAIN tasks' : i + 1 \in DOMAIN tasks /\ i + 1 > 1
  OBVIOUS
<1>2. CASE d \in docs /\ \A i \in DOMAIN tasks : ~Removes(tasks[i], d)
  <2>1. d \in docs'
    <3>1. 1 \in DOMAIN tasks
      OBVIOUS
    <3>2. ~Removes(tasks[1], d)
      BY <1>2, <3>1
    <3>3. CASE tasks[1].do = "add"
      BY <1>2, <3>3
    <3>4. CASE tasks[1].do = "remove"
      BY <1>2, <3>2, <3>4 DEF Removes
    <3>5. CASE tasks[1].do \notin {"add", "remove"}
      BY <1>2, <3>5
    <3> QED
      BY <3>3, <3>4, <3>5
  <2>2. \A i \in DOMAIN tasks' : ~Removes(tasks'[i], d)
    BY <1>1, <1>2
  <2> QED
    BY <2>1, <2>2 DEF Coming
<1>3. ASSUME NEW k \in DOMAIN tasks,
             Adds(tasks[k], d), \A i \in DOMAIN tasks : i > k => ~Removes(tasks[i], d)
      PROVE  Coming(d)'
  <2>1. CASE k = 1
    <3>1. d \in docs'
      BY <1>3, <2>1 DEF Adds
    <3>2. \A i \in DOMAIN tasks' : ~Removes(tasks'[i], d)
      BY <1>1, <1>3, <2>1
    <3> QED
      BY <3>1, <3>2 DEF Coming
  <2>2. CASE k # 1
    <3>1. k - 1 \in DOMAIN tasks' /\ tasks'[k - 1] = tasks[k]
      BY <2>2
    <3>2. \A i \in DOMAIN tasks' : i > k - 1 => ~Removes(tasks'[i], d)
      BY <1>1, <1>3
    <3> QED
      BY <1>3, <3>1, <3>2 DEF Coming
  <2> QED
    BY <2>1, <2>2
<1> QED
  BY <1>2, <1>3 DEF Coming

LEMMA WorkInOld ==
  ASSUME EngineOK, Work, NEW d \in Documents, InOld(d)
  PROVE  InOld(d)'
<1>1. 1 \in DOMAIN tasks /\ \A i \in DOMAIN tasks' : i + 1 \in DOMAIN tasks
  BY WorkFacts
<1>2. tasks[1].do = "drop" => tasks[1].chat # d[1]
  BY <1>1 DEF InOld
<1>3. old'[d[1]] = old[d[1]]
  BY <1>2, WorkFacts DEF EngineOK, Documents
<1> QED
  BY <1>1, <1>3, WorkFacts DEF InOld

-----------------------------------------------------------------------------
(* What the steps keep of the documents and of the settings *)

LEMMA KeptByPut ==
  ASSUME EngineOK, NEW t \in Tasks, Put(t),
         \A d \in owed' : ~Removes(t, d) /\ (d \in owed \/ Adds(t, d)),
         t.do = "drop" => \A d \in owed : d[1] = t.chat => Coming(d)
  PROVE  Kept
<1>1. ASSUME NEW d \in owed', d \in owed, Coming(d)
      PROVE  Coming(d)'
  BY <1>1, PutComing
<1>2. ASSUME NEW d \in owed', d \in owed, InOld(d)
      PROVE  InOld(d)' \/ Coming(d)'
  <2>1. CASE t.do = "drop" /\ t.chat = d[1]
    BY <1>1, <1>2, <2>1
  <2>2. CASE ~(t.do = "drop" /\ t.chat = d[1])
    BY <1>2, <2>2, PutInOld
  <2> QED
    BY <2>1, <2>2
<1>3. ASSUME NEW d \in owed', d \notin owed
      PROVE  Coming(d)'
  BY <1>3, PutComing
<1>4. old' = old
  BY PutFacts
<1> QED
  BY <1>1, <1>2, <1>3, <1>4 DEF Kept

LEMMA KeptByWork ==
  ASSUME EngineOK, Work, owed' = owed, owed \subseteq Documents
  PROVE  Kept
BY WorkComing, WorkInOld, WorkFacts DEF Kept

LEMMA KeptByNothing ==
  ASSUME UNCHANGED engine, owed' = owed
  PROVE  Kept
BY DEF Kept, engine, Coming, InOld

LEMMA LostKept == ASSUME NothingLost, Kept PROVE NothingLost'
BY DEF NothingLost, Kept

LEMMA CopyKept ==
  ASSUME TypeOK, PageInv, ChatInv, Kept, copy' = copy
  PROVE  PageInv' /\ ChatInv'
<1>1. ChatInv'
  BY DEF ChatInv, Kept
<1>2. PageInv'
  <2> SUFFICES ASSUME copy.at = "page", old'[copy.chat] # Gone
               PROVE  /\ copy.total = Len(old'[copy.chat])
                      /\ \A d \in owed' : \A i \in DOMAIN old'[copy.chat] :
                           d[1] = copy.chat /\ old'[copy.chat][i] = d[2] /\ i <= copy.offset
                             => Coming(d)'
    BY DEF PageInv
  <2>1. copy.chat \in Chats
    BY DEF TypeOK, Copies
  <2>2. old'[copy.chat] = old[copy.chat]
    BY <2>1 DEF Kept
  <2> QED
    BY <2>2 DEF PageInv, Kept
<1> QED
  BY <1>1, <1>2

LEMMA SettingsByPut ==
  ASSUME EngineOK, Configured, NEW t \in Tasks, Put(t), prepared' = prepared \/ t = Settings
  PROVE  Configured'
<1>1. t = Settings => t.do = "settings"
  BY DEF Settings
<1>2. CASE t = Settings
  <2>1. Len(tasks) + 1 \in DOMAIN tasks' /\ tasks'[Len(tasks) + 1].do = "settings"
    BY <1>1, <1>2, PutFacts
  <2> QED
    BY <2>1 DEF Configured
<1>3. CASE prepared' = prepared
  <2>1. DOMAIN tasks \subseteq DOMAIN tasks' /\ \A i \in DOMAIN tasks : tasks'[i] = tasks[i]
    BY PutFacts
  <2>2. index' = index
    BY PutFacts
  <2> QED
    BY <1>3, <2>1, <2>2, Zenon DEF Configured
<1> QED
  BY <1>2, <1>3

LEMMA SettingsByWork ==
  ASSUME EngineOK, Configured, Work, prepared' = prepared
  PROVE  Configured'
<1> SUFFICES ASSUME prepared PROVE index' = "ready" \/ \E i \in DOMAIN tasks' : tasks'[i].do = "settings"
  BY DEF Configured
<1>1. CASE index = "ready"
  BY <1>1, WorkFacts
<1>2. ASSUME NEW i \in DOMAIN tasks, tasks[i].do = "settings", index # "ready"
      PROVE  index' = "ready" \/ \E j \in DOMAIN tasks' : tasks'[j].do = "settings"
  <2>1. CASE i = 1
    BY <1>2, <2>1, WorkFacts
  <2>2. CASE i # 1
    <3>1. i - 1 \in DOMAIN tasks' /\ tasks'[i - 1] = tasks[i]
      BY <2>2, WorkFacts
    <3> QED
      BY <1>2, <3>1
  <2> QED
    BY <2>1, <2>2
<1> QED
  BY <1>1, <1>2 DEF Configured

-----------------------------------------------------------------------------
(* The steps of the migration *)

LEMMA InitInv == ASSUME Init PROVE IInv
<1>1. EngineOK
  BY MigrationAssumption DEF Init, EngineOK
<1>2. prepared \in BOOLEAN
  BY Zenon DEF Init
<1>3. copy \in Copies /\ copy.left = {} /\ copy.chats = {} /\ copy.at = "idle"
  BY DEF Init, NoCopy, Copies, Ended
<1>4. adding = [chat |-> NoChat, at |-> "idle"]
  BY DEF Init
<1>5. rows \subseteq Chats /\ deleting = {} /\ owed \subseteq Documents /\ lives = 0 /\ runs = 0
  BY DEF Init
<1>6. TypeOK
  BY <1>1, <1>2, <1>3, <1>4, <1>5, MigrationAssumption DEF TypeOK
<1>7. Configured
  BY DEF Init, Configured
<1> QED
  BY <1>3, <1>6, <1>7 DEF Init, IInv, NothingLost, PageInv, ChatInv

\* A step that asks the engine for nothing and leaves the other histories alone.
LEMMA QuietStep ==
  ASSUME IInv, UNCHANGED <<engine, ghosts>>
  PROVE  EngineOK' /\ NothingLost' /\ Configured' /\ Kept
<1> USE DEF IInv, engine, ghosts
<1>1. Kept
  BY KeptByNothing
<1> QED
  BY <1>1, LostKept DEF TypeOK, EngineOK, Configured

\* A step that asks it for something that removes nothing.
LEMMA AskStep ==
  ASSUME IInv, UNCHANGED ghosts,
         NEW t \in Tasks, t.do \in {"create", "settings", "add"}, Put(t)
  PROVE  EngineOK' /\ NothingLost' /\ Configured' /\ Kept
<1> USE DEF IInv, ghosts
<1>1. EngineOK /\ EngineOK'
  BY PutFacts DEF TypeOK
<1>2. Kept
  BY <1>1, KeptByPut DEF Removes
<1>3. Configured'
  BY <1>1, SettingsByPut
<1> QED
  BY <1>1, <1>2, <1>3, LostKept

LEMMA StartStep == ASSUME IInv, NEW d \in BOOLEAN, Start(d) PROVE IInv'
<1>1. EngineOK' /\ NothingLost' /\ Configured' /\ Kept
  BY QuietStep DEF Start
<1>2. copy' \in Copies /\ copy'.at = "create" /\ copy'.left = {} /\ copy'.chats = {}
  BY DEF Start, NoCopy, Copies, Ended
<1>3. runs' \in 0 .. MaxRuns
  BY MigrationAssumption DEF IInv, TypeOK, Start
<1>4. TypeOK'
  BY <1>1, <1>2, <1>3 DEF IInv, TypeOK, Start, ghosts
<1> QED
  BY <1>1, <1>2, <1>4 DEF IInv, PageInv, ChatInv

LEMMA CreateNewStep == ASSUME IInv, CreateNew \/ ConfigureNew PROVE IInv'
<1>1. EngineOK' /\ NothingLost' /\ Configured' /\ Kept
  BY AskStep, TasksTyped DEF CreateNew, ConfigureNew, Create, Settings
<1>2. TypeOK'
  BY <1>1 DEF IInv, TypeOK, CreateNew, ConfigureNew, Copies, Ended, ghosts
<1> QED
  BY <1>1, <1>2 DEF IInv, PageInv, ChatInv, CreateNew, ConfigureNew, TypeOK, Copies

LEMMA AllChatIDsStep == ASSUME IInv, AllChatIDs PROVE IInv'
<1>1. EngineOK' /\ NothingLost' /\ Configured' /\ Kept
  BY QuietStep DEF AllChatIDs
<1>2. TypeOK'
  BY <1>1 DEF IInv, TypeOK, AllChatIDs, Copies, Ended, ghosts
<1> QED
  BY <1>1, <1>2 DEF IInv, PageInv, ChatInv, AllChatIDs, TypeOK, Copies

LEMMA StatsStep == ASSUME IInv, NEW c \in Chats, Stats(c) PROVE IInv'
<1>1. EngineOK' /\ NothingLost' /\ Configured' /\ Kept
  BY QuietStep DEF Stats
<1>2. old' = old /\ old[c] \in Seq(Ids) /\ Len(old[c]) \in Nat /\ DOMAIN old[c] = 1 .. Len(old[c])
  BY DEF IInv, TypeOK, EngineOK, Stats, engine
<1>3. copy' = [copy EXCEPT !.at = IF Len(old[c]) = 0 THEN "drop" ELSE "page",
                           !.chat = c, !.total = Len(old[c]), !.offset = 0]
      /\ copy.at = "next" /\ c \in copy.left /\ copy \in Copies
  BY DEF IInv, TypeOK, Stats
<1>4. /\ copy'.at = IF Len(old[c]) = 0 THEN "drop" ELSE "page"
      /\ copy'.chat = c /\ copy'.total = Len(old[c]) /\ copy'.offset = 0
      /\ copy'.chats = copy.chats /\ copy'.left = copy.left /\ copy' \in Copies
  BY <1>2, <1>3 DEF Copies, Ended
<1>5. TypeOK'
  BY <1>1, <1>2, <1>3, <1>4, MigrationAssumption DEF IInv, TypeOK, Stats, ghosts
<1>6. PageInv'
  BY <1>2, <1>4 DEF PageInv
<1>7. ChatInv'
  <2>1. Len(old[c]) = 0 => \A d \in owed : d[1] = c => Coming(d)
    BY <1>2 DEF IInv, NothingLost, InOld
  <2>2. owed' = owed
    BY DEF Stats, ghosts
  <2> QED
    BY <1>1, <1>3, <1>4, <2>1, <2>2 DEF ChatInv, IInv, Kept
<1> QED
  BY <1>1, <1>5, <1>6, <1>7 DEF IInv

LEMMA CompletedStep == ASSUME IInv, Completed PROVE IInv'
<1>1. EngineOK' /\ NothingLost' /\ Configured' /\ Kept
  BY QuietStep DEF Completed
<1>2. TypeOK'
  BY <1>1 DEF IInv, TypeOK, Completed, Copies, Ended, ghosts
<1>3. copy'.at = "done" /\ copy'.chats = copy.chats /\ copy'.left = copy.left /\ copy.left = {}
      /\ copy.at = "next"
  BY DEF Completed, IInv, TypeOK, Copies
<1> QED
  BY <1>1, <1>2, <1>3 DEF IInv, PageInv, ChatInv, Kept, Completed, ghosts

LEMMA PageTyped ==
  ASSUME TypeOK, copy.at = "page", old[copy.chat] # Gone
  PROVE  /\ copy.chat \in Chats /\ old[copy.chat] \in Seq(Ids)
         /\ Add({<<copy.chat, old[copy.chat][i]>> : i \in Page}) \in Tasks
<1>1. copy.chat \in Chats
  BY DEF TypeOK, Copies
<1>2. old[copy.chat] \in Seq(Ids)
  BY <1>1 DEF TypeOK, EngineOK
<1>3. {<<copy.chat, old[copy.chat][i]>> : i \in Page} \subseteq Documents
  BY <1>1, <1>2 DEF Page, Documents
<1> QED
  BY <1>1, <1>2, <1>3, TasksTyped

LEMMA CopyPageStep == ASSUME IInv, CopyPage PROVE IInv'
<1> DEFINE page == {<<copy.chat, old[copy.chat][i]>> : i \in Page}
<1> USE DEF CopyPage
<1>1. /\ copy.chat \in Chats /\ old[copy.chat] \in Seq(Ids)
      /\ Add(page) \in Tasks
  BY PageTyped DEF IInv
<1>2. EngineOK' /\ NothingLost' /\ Configured' /\ Kept
  BY <1>1, AskStep DEF Add
<1>3. old' = old /\ owed' = owed
  BY DEF Put, ghosts
<1>4. /\ copy'.offset = copy.offset + Batch /\ copy'.at = "page" /\ copy'.chat = copy.chat
      /\ copy'.total = copy.total /\ copy'.chats = copy.chats /\ copy'.left = copy.left
      /\ copy' \in Copies /\ copy.offset \in Nat
  BY MigrationAssumption DEF IInv, TypeOK, Copies, NextOffset
<1>5. copy.offset < copy.total
  <2>1. PICK i \in DOMAIN old[copy.chat] : copy.offset < i
    BY DEF Page
  <2>2. copy.total = Len(old[copy.chat])
    BY DEF IInv, PageInv
  <2>3. i \in Nat /\ i <= Len(old[copy.chat])
    BY <1>1
  <2> QED
    BY <1>4, <2>1, <2>2, <2>3
<1>6. TypeOK'
  BY <1>2, <1>4, <1>5, MigrationAssumption DEF IInv, TypeOK, Copies, ghosts
<1>7. ASSUME NEW d \in owed, NEW i \in DOMAIN old[copy.chat],
             d[1] = copy.chat, old[copy.chat][i] = d[2], i <= copy.offset + Batch
      PROVE  Coming(d)'
  <2>1. CASE i <= copy.offset
    BY <1>2, <1>3, <1>7, <2>1 DEF IInv, PageInv, Kept
  <2>2. CASE ~(i <= copy.offset)
    <3>1. i \in Page
      BY <1>1, <1>4, <1>7, <2>2 DEF Page
    <3>2. d = <<copy.chat, old[copy.chat][i]>>
      BY <1>7 DEF IInv, TypeOK, Documents
    <3>3. d \in page
      BY <3>1, <3>2
    <3>4. Adds(Add(page), d) /\ ~Removes(Add(page), d)
      BY <3>3 DEF Adds, Removes, Add
    <3> QED
      BY <1>1, <3>4, PutComing DEF IInv, TypeOK
  <2> QED
    BY <2>1, <2>2
<1>8. PageInv'
  BY <1>3, <1>4, <1>7 DEF IInv, PageInv
<1>9. ChatInv'
  BY <1>2, <1>3, <1>4 DEF IInv, ChatInv, Kept
<1> QED
  BY <1>2, <1>6, <1>8, <1>9 DEF IInv

LEMMA LastPageStep == ASSUME IInv, LastPage PROVE IInv'
<1> USE DEF LastPage
<1>1. EngineOK' /\ NothingLost' /\ Configured' /\ Kept
  BY QuietStep
<1>2. owed' = owed /\ copy.chat \in Chats /\ old[copy.chat] \in Seq(Ids)
  BY PageTyped DEF IInv, ghosts
<1>3. /\ copy'.at = "drop" /\ copy'.chat = copy.chat /\ copy'.chats = copy.chats
      /\ copy'.left = copy.left /\ copy' \in Copies /\ copy.offset \in Nat
  BY DEF IInv, TypeOK, Copies
<1>4. TypeOK'
  BY <1>1, <1>3 DEF IInv, TypeOK, ghosts
<1>5. ASSUME NEW d \in owed, d[1] = copy.chat
      PROVE  Coming(d)
  <2> SUFFICES ASSUME InOld(d) PROVE Coming(d)
    BY DEF IInv, NothingLost
  <2>1. PICK i \in DOMAIN old[copy.chat] : old[copy.chat][i] = d[2]
    BY <1>5 DEF InOld
  <2>2. i <= copy.offset
    BY <1>2, <1>3 DEF IInv, PageInv
  <2> QED
    BY <1>5, <2>1, <2>2 DEF IInv, PageInv
<1>6. PageInv'
  BY <1>3 DEF PageInv
<1>7. ChatInv'
  BY <1>1, <1>2, <1>3, <1>5 DEF IInv, ChatInv, Kept
<1> QED
  BY <1>1, <1>4, <1>6, <1>7 DEF IInv

LEMMA DropOldStep == ASSUME IInv, DropOld PROVE IInv'
<1> USE DEF DropOld
<1>1. EngineOK' /\ NothingLost' /\ Configured' /\ Kept
  <2>1. CASE UNCHANGED engine
    BY <2>1, QuietStep
  <2>2. CASE Put(Drop(copy.chat))
    <3>1. copy.chat \in Chats
      BY DEF IInv, TypeOK, Copies
    <3>2. Drop(copy.chat) \in Tasks /\ EngineOK
      BY <3>1, TasksTyped DEF IInv, TypeOK
    <3>3. \A d \in owed' : ~Removes(Drop(copy.chat), d) /\ d \in owed
      BY DEF Removes, Drop, ghosts
    <3>4. \A d \in owed : d[1] = Drop(copy.chat).chat => Coming(d)
      BY DEF IInv, ChatInv, Drop
    <3>5. Kept
      BY <2>2, <3>2, <3>3, <3>4, KeptByPut
    <3>6. EngineOK'
      BY <2>2, <3>2, PutFacts
    <3>7. Configured'
      BY <2>2, <3>2, SettingsByPut DEF IInv, ghosts
    <3> QED
      BY <3>5, <3>6, <3>7, LostKept DEF IInv
  <2> QED
    BY <2>1, <2>2 DEF PutOrNot
<1>2. /\ copy'.at = "next" /\ copy'.chat = copy.chat /\ copy'.chats = copy.chats
      /\ copy'.left = copy.left \ {copy.chat} /\ copy' \in Copies
  BY DEF IInv, TypeOK, Copies
<1>3. TypeOK'
  BY <1>1, <1>2 DEF IInv, TypeOK, ghosts
<1>4. owed' = owed
  BY DEF ghosts
<1>5. PageInv'
  BY <1>2 DEF PageInv
<1>6. ChatInv'
  BY <1>1, <1>2, <1>4 DEF IInv, ChatInv, Kept
<1> QED
  BY <1>1, <1>3, <1>5, <1>6 DEF IInv

LEMMA CopyFailStep == ASSUME IInv, CopyFail PROVE IInv'
<1> USE DEF CopyFail
<1>1. EngineOK' /\ NothingLost' /\ Configured' /\ Kept
  <2>1. CASE UNCHANGED engine
    BY <2>1, QuietStep
  <2>2. CASE Put(Create) \/ Put(Settings)
    BY <2>2, AskStep, TasksTyped DEF Create, Settings
  <2>3. CASE copy.at = "page" /\ old[copy.chat] # Gone
             /\ Put(Add({<<copy.chat, old[copy.chat][i]>> : i \in Page}))
    <3>1. Add({<<copy.chat, old[copy.chat][i]>> : i \in Page}) \in Tasks
      BY <2>3, PageTyped DEF IInv
    <3> QED
      BY <2>3, <3>1, AskStep DEF Add
  <2> QED
    BY <2>1, <2>2, <2>3 DEF PutOrNot
<1>2. copy'.at = "failed" /\ copy'.left = copy.left /\ copy'.chats = copy.chats /\ copy' \in Copies
  BY DEF IInv, TypeOK, Copies, Ended
<1>3. TypeOK'
  BY <1>1, <1>2 DEF IInv, TypeOK, ghosts
<1> QED
  BY <1>1, <1>2, <1>3 DEF IInv, PageInv, ChatInv

-----------------------------------------------------------------------------
(* The steps of the handlers, the engine and the process *)

LEMMA AddingStep ==
  ASSUME IInv, NEW c \in Chats, AddChat(c) \/ FetchInfo \/ CreateShared \/ AddChatFail
  PROVE  IInv'
<1> USE DEF AddChat, FetchInfo, CreateShared, AddChatFail, Step
<1>1. EngineOK' /\ NothingLost' /\ Configured' /\ Kept
  <2>1. CASE UNCHANGED engine
    BY <2>1, QuietStep
  <2>2. CASE Put(Create) \/ Put(Settings)
    BY <2>2, AskStep, TasksTyped DEF Create, Settings
  <2> QED
    BY <2>1, <2>2 DEF PutOrNot
<1>2. PageInv' /\ ChatInv'
  BY <1>1, CopyKept DEF IInv
<1>3. TypeOK'
  <2>1. adding' \in [chat : Chats \cup {NoChat}, at : {"idle", "info", "create", "compare", "update"}]
        /\ (adding'.at = "idle" <=> adding'.chat = NoChat)
    BY MigrationAssumption DEF IInv, TypeOK
  <2>2. lives' \in 0 .. MaxLive
    BY MigrationAssumption DEF IInv, TypeOK, Live
  <2> QED
    BY <1>1, <2>1, <2>2 DEF IInv, TypeOK, ghosts
<1> QED
  BY <1>1, <1>2, <1>3 DEF IInv

LEMMA AddedStep == ASSUME IInv, Compare \/ UpdateSettings PROVE IInv'
<1> USE DEF Compare, UpdateSettings, Added, Step
<1>1. CASE UNCHANGED <<engine, ghosts>>
  <2>1. EngineOK' /\ NothingLost' /\ Configured' /\ Kept
    BY <1>1, QuietStep
  <2>2. PageInv' /\ ChatInv'
    BY <2>1, CopyKept DEF IInv
  <2>3. TypeOK'
    BY <1>1, <2>1, MigrationAssumption DEF IInv, TypeOK, ghosts
  <2> QED
    BY <2>1, <2>2, <2>3 DEF IInv
<1>2. CASE UpdateSettings \/ (SettingsEqual /\ UNCHANGED engine /\ Added /\ Compare)
  <2>1. EngineOK /\ Settings \in Tasks
    BY TasksTyped DEF IInv, TypeOK
  <2>2. EngineOK' /\ Kept
    <3>1. CASE Put(Settings)
      BY <2>1, <3>1, <1>2, KeptByPut, PutFacts DEF Removes, Settings
    <3>2. CASE UNCHANGED engine
      BY <2>1, <3>2, <1>2, KeptByNothing DEF EngineOK, engine
    <3> QED
      BY <1>2, <3>1, <3>2
  <2>3. Configured'
    <3>1. CASE Put(Settings)
      BY <2>1, <3>1, SettingsByPut DEF IInv
    <3>2. CASE SettingsEqual /\ UNCHANGED engine
      BY <3>2 DEF SettingsEqual, engine, Configured
    <3> QED
      BY <1>2, <3>1, <3>2
  <2>4. NothingLost' /\ PageInv' /\ ChatInv'
    BY <1>2, <2>2, LostKept, CopyKept DEF IInv
  <2>5. TypeOK'
    <3>1. adding.chat \in Chats
      BY <1>2 DEF IInv, TypeOK
    <3>2. prepared' \in BOOLEAN
      BY <1>2, Zenon
    <3> QED
      BY <1>2, <2>2, <3>1, <3>2, MigrationAssumption DEF IInv, TypeOK
  <2> QED
    BY <2>2, <2>3, <2>4, <2>5 DEF IInv
<1> QED
  BY <1>1, <1>2

\* /del's steps that ask the engine for nothing.
LEMMA DeleteQuietStep ==
  ASSUME IInv, NEW c \in Chats,
         DeleteIndexChat(c) \/ (DeleteIndex(c) /\ UNCHANGED <<engine, owed>>)
  PROVE  IInv'
<1>1. UNCHANGED <<engine, ghosts, copy, adding, runs>> /\ rows' \subseteq rows
  BY DEF DeleteIndexChat, DeleteIndex, ghosts
<1>2. EngineOK' /\ NothingLost' /\ Configured' /\ Kept
  BY <1>1, QuietStep
<1>3. PageInv' /\ ChatInv'
  BY <1>1, <1>2, CopyKept DEF IInv
<1>4. TypeOK'
  <2>1. lives' \in 0 .. MaxLive
    BY MigrationAssumption DEF DeleteIndexChat, DeleteIndex, IInv, TypeOK, Live
  <2>2. deleting' \subseteq Chats
    BY DEF DeleteIndexChat, DeleteIndex, IInv, TypeOK
  <2> QED
    BY <1>1, <1>2, <2>1, <2>2 DEF IInv, TypeOK, ghosts
<1> QED
  BY <1>2, <1>3, <1>4 DEF IInv

LEMMA DocumentStep ==
  ASSUME IInv, NEW c \in Chats,
         \/ DeleteIndex(c) /\ ~UNCHANGED <<engine, owed>>
         \/ \E i \in Ids : AddDocuments(c, i) \/ DeleteDocuments(c, i)
  PROVE  IInv'
<1> USE DEF AddDocuments, DeleteDocuments, DeleteIndex
<1>1. PICK t \in Tasks : /\ Put(t) /\ t.do \in {"add", "remove"}
                         /\ \A d \in owed' : ~Removes(t, d) /\ (d \in owed \/ Adds(t, d))
  <2>1. \A i \in Ids : {<<c, i>>} \subseteq Documents
    BY DEF Documents
  <2>2. ASSUME NEW i \in Ids, AddDocuments(c, i)
        PROVE  \E t \in Tasks : /\ Put(t) /\ t.do \in {"add", "remove"}
                 /\ \A d \in owed' : ~Removes(t, d) /\ (d \in owed \/ Adds(t, d))
    <3>1. Add({<<c, i>>}) \in Tasks
      BY <2>1, TasksTyped
    <3> QED
      BY <2>2, <3>1 DEF Add, Adds, Removes
  <2>3. ASSUME NEW i \in Ids, DeleteDocuments(c, i)
        PROVE  \E t \in Tasks : /\ Put(t) /\ t.do \in {"add", "remove"}
                 /\ \A d \in owed' : ~Removes(t, d) /\ (d \in owed \/ Adds(t, d))
    <3>1. Remove({<<c, i>>}) \in Tasks
      BY <2>1, TasksTyped
    <3> QED
      BY <2>3, <3>1 DEF Remove, Removes
  <2>4. CASE DeleteIndex(c) /\ ~UNCHANGED <<engine, owed>>
    <3>1. Remove({c} \X Ids) \in Tasks
      BY TasksTyped DEF Documents
    <3> QED
      BY <2>4, <3>1 DEF Remove, Removes
  <2> QED
    BY <2>2, <2>3, <2>4
<1>2. EngineOK /\ EngineOK'
  BY <1>1, PutFacts DEF IInv, TypeOK
<1>3. Kept
  BY <1>1, <1>2, KeptByPut
<1>4. NothingLost' /\ PageInv' /\ ChatInv'
  BY <1>3, LostKept, CopyKept DEF IInv
<1>5. Configured'
  BY <1>1, <1>2, SettingsByPut DEF IInv
<1>6. TypeOK'
  <2>1. owed' \subseteq Documents
    <3>1. owed \subseteq Documents /\ \A i \in Ids : <<c, i>> \in Documents
      BY DEF IInv, TypeOK, Documents
    <3>2. \/ \E i \in Ids : owed' = owed \cup {<<c, i>>} \/ owed' = owed \ {<<c, i>>}
          \/ owed' = owed \ ({c} \X Ids)
      OBVIOUS
    <3>3. ASSUME NEW i \in Ids, owed' = owed \cup {<<c, i>>}
          PROVE  owed' \subseteq Documents
      BY <3>1, <3>3
    <3>4. ASSUME NEW ds, owed' = owed \ ds
          PROVE  owed' \subseteq Documents
      BY <3>1, <3>4
    <3> QED
      BY <3>2, <3>3, <3>4
  <2>2. lives' \in 0 .. MaxLive
    <3>1. Live \/ lives' = lives
      OBVIOUS
    <3> QED
      BY <3>1, MigrationAssumption DEF IInv, TypeOK, Live
  <2> QED
    BY <1>2, <2>1, <2>2 DEF IInv, TypeOK
<1> QED
  BY <1>4, <1>5, <1>6 DEF IInv

LEMMA ServeStep == ASSUME IInv, Serve PROVE IInv'
<1> USE DEF Serve, ghosts
<1>1. EngineOK /\ EngineOK'
  BY WorkFacts DEF IInv, TypeOK
<1>2. Kept
  BY <1>1, KeptByWork DEF IInv, TypeOK
<1>3. NothingLost' /\ PageInv' /\ ChatInv'
  BY <1>2, LostKept, CopyKept DEF IInv
<1>4. Configured'
  BY <1>1, SettingsByWork DEF IInv
<1>5. TypeOK'
  BY <1>1 DEF IInv, TypeOK
<1> QED
  BY <1>3, <1>4, <1>5 DEF IInv

LEMMA KillStep == ASSUME IInv, Kill PROVE IInv'
<1> USE DEF Kill, Step
<1>1. EngineOK' /\ NothingLost' /\ Configured' /\ Kept
  BY QuietStep
<1>2. /\ copy'.left = copy.left /\ copy'.chats = copy.chats /\ copy' \in Copies
      /\ copy'.at = IF copy.at \in Ended THEN copy.at ELSE "failed"
  BY DEF IInv, TypeOK, Copies, Ended
<1>3. TypeOK'
  BY <1>1, <1>2 DEF IInv, TypeOK, Ended, ghosts
<1> QED
  BY <1>1, <1>2, <1>3 DEF IInv, PageInv, ChatInv, Kept, Ended, ghosts

LEMMA StutterStep == ASSUME IInv, UNCHANGED vars PROVE IInv'
<1>1. EngineOK' /\ NothingLost' /\ Configured' /\ Kept
  BY QuietStep DEF vars
<1>2. PageInv' /\ ChatInv'
  BY <1>1, CopyKept DEF IInv, vars
<1>3. TypeOK'
  BY <1>1 DEF IInv, TypeOK, vars, ghosts
<1> QED
  BY <1>1, <1>2, <1>3 DEF IInv

-----------------------------------------------------------------------------
THEOREM Invariance == Spec => []IInv
<1>1. Init => IInv
  BY InitInv
<1>2. IInv /\ [Next]_vars => IInv'
  <2> SUFFICES ASSUME IInv, [Next]_vars PROVE IInv'
    OBVIOUS
  <2>1. CASE Migrate
    BY <2>1, CreateNewStep, AllChatIDsStep, StatsStep, CopyPageStep, LastPageStep, DropOldStep,
       CompletedStep, CopyFailStep DEF Migrate
  <2>2. CASE AddOne
    <3>1. adding.chat \in Chats
      BY <2>2 DEF AddOne, FetchInfo, CreateShared, Compare, UpdateSettings, AddChatFail, IInv, TypeOK
    <3> QED
      BY <2>2, <3>1, AddingStep, AddedStep DEF AddOne
  <2>3. CASE Handle
    <3>1. PICK c \in Chats : \/ AddChat(c)
                             \/ /\ c \in Busy
                                /\ \/ DeleteIndexChat(c) \/ DeleteIndex(c)
                                   \/ \E i \in Ids : AddDocuments(c, i) \/ DeleteDocuments(c, i)
      BY <2>3 DEF Handle
    <3>2. CASE AddChat(c)
      BY <3>2, AddingStep
    <3> QED
      BY <3>1, <3>2, DocumentStep, DeleteQuietStep
  <2>4. CASE Kill \/ Serve
    BY <2>4, KillStep, ServeStep
  <2>5. CASE \E d \in BOOLEAN : Start(d)
    BY <2>5, StartStep
  <2>6. CASE UNCHANGED vars
    BY <2>6, StutterStep
  <2> QED
    BY <2>1, <2>2, <2>3, <2>4, <2>5, <2>6 DEF Next
<1> QED
  BY <1>1, <1>2, PTL DEF Spec

\* Every variable always has its type, and no page starts beyond the old index.
THEOREM Types == Spec => []TypeOK
<1>1. IInv => TypeOK
  BY DEF IInv
<1> QED
  BY <1>1, Invariance, PTL

\* No document that nobody has asked to remove is ever in neither place, wherever
\* the migration fails or is killed, and however often it is run.
THEOREM NothingIsLost == Spec => []NothingLost
<1>1. IInv => NothingLost
  BY DEF IInv
<1> QED
  BY <1>1, Invariance, PTL

\* A migration that reports success has copied every chat that it listed.
THEOREM AllMigrated == Spec => []Migrated
<1>1. IInv => Migrated
  BY DEF IInv, ChatInv, Migrated
<1> QED
  BY <1>1, Invariance, PTL

\* No chat is added while the shared index is without its settings for good.
THEOREM AddedAreConfigured == Spec => []Configured
<1>1. IInv => Configured
  BY DEF IInv
<1> QED
  BY <1>1, Invariance, PTL

=============================================================================
