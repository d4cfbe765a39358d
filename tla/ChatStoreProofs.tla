--------------------------- MODULE ChatStoreProofs ---------------------------
(***************************************************************************)
(* Proofs about ChatStore, for every set of chats, messages and processes, *)
(* any number of handlers in flight, all commands and all faults.          *)
(***************************************************************************)
EXTENDS ChatStore, TLAPS

\* A flag command turns a row into a row.
LEMMA EditedType ==
  ASSUME NEW cmd \in FlagCommands, NEW r \in Rows
  PROVE  Edited(cmd, r) \in Rows
<1>1. CASE cmd \in {"watch", "unwatchdel", "pub", "unocr"}
  <2>1. Sets[cmd] \in Flags
    BY <1>1 DEF Sets, Flags
  <2>2. cmd \in DOMAIN Sets
    BY <1>1 DEF Sets
  <2> QED BY <2>1, <2>2 DEF Edited, Rows
<1>2. CASE cmd \in {"unwatch", "watchdel", "unpub", "ocr"}
  <2>1. cmd \notin DOMAIN Sets
    BY <1>2 DEF Sets
  <2> QED BY <2>1 DEF Edited, Rows
<1> QED BY <1>1, <1>2 DEF FlagCommands, WatchCommands, PubCommands, OcrCommands

\* A row is never mistaken for its absence.
LEMMA NoRowNotRow == NoRow \notin Rows
  BY DEF NoRow, Rows, Flags

\* The commands that edit a flag are none of the other handlers.
LEMMA FlagOps ==
  /\ FlagCommands \subseteq Ops
  /\ FlagCommands \cap {"add", "watchnew", "del", "peers", "pts", "message", "delete"} = {}
  /\ Ops = FlagCommands \cup {"add", "watchnew", "del", "peers", "pts", "message", "delete"}
BY DEF Ops, FlagCommands, WatchCommands, PubCommands, OcrCommands

-----------------------------------------------------------------------------
(* How a step moves the jobs                                               *)

\* A job that is one, with what it needs where it stands.
Sound(j) == j \in Jobs /\ JobOK(j)

\* The jobs are jobs, and each holds what it needs where it stands.
JobsOK ==
  /\ job \in [Procs -> Jobs \cup {Idle}]
  /\ \A p \in Procs : Busy(p) => JobOK(job[p])

\* Process q stays where it is; if the row of its chat changes, its copy is stale.
Stays(q) ==
  \/ /\ job'[q] = job[q]
     /\ Busy(q) => rows'[Chat(q)] = rows[Chat(q)]
  \/ /\ Busy(q)
     /\ job'[q] = [job[q] EXCEPT !.fresh = FALSE]

\* The step is one of p, whose job becomes j.
Moves(p, j) ==
  /\ job' = [q \in Procs |-> job'[q]]
  /\ job'[p] = j
  /\ \A q \in Procs : q # p => Stays(q)

\* A busy process has a sound job.
LEMMA JobSound ==
  ASSUME JobsOK, NEW p \in Procs, Busy(p)
  PROVE  Sound(job[p])
BY DEF JobsOK, Busy, Sound

\* What marking a copy as stale leaves as it is.
LEMMA StaleSame ==
  ASSUME NEW j, Sound(j)
  PROVE  LET k == [j EXCEPT !.fresh = FALSE]
         IN /\ Sound(k) /\ k # Idle /\ ~k.fresh
            /\ k.op = j.op /\ k.at = j.at /\ k.chat = j.chat
            /\ k.row = j.row /\ k.msg = j.msg
<1> DEFINE k == [j EXCEPT !.fresh = FALSE]
<1>1. /\ k \in Jobs /\ ~k.fresh
      /\ k.op = j.op /\ k.at = j.at /\ k.chat = j.chat /\ k.row = j.row /\ k.msg = j.msg
  BY DEF Sound, Jobs
<1>2. JobOK(k)
  <2> HIDE DEF k
  <2> QED BY <1>1 DEF Sound, JobOK
<1> QED BY <1>1, <1>2, DistinctAssumption DEF Sound

\* A process that stays keeps its phase, its chat, its handler and its row.
LEMMA StaySame ==
  ASSUME JobsOK, NEW q \in Procs, Stays(q)
  PROVE  /\ Busy(q)' <=> Busy(q)
         /\ \A ph : At(q, ph)' <=> At(q, ph)
         /\ Busy(q) => /\ Sound(job'[q])
                       /\ job'[q].op = job[q].op /\ job'[q].at = job[q].at
                       /\ job'[q].chat = job[q].chat /\ job'[q].row = job[q].row
                       /\ job'[q].fresh => job[q].fresh /\ rows'[Chat(q)] = rows[Chat(q)]
<1>1. CASE job'[q] = job[q] /\ (Busy(q) => rows'[Chat(q)] = rows[Chat(q)])
  BY <1>1, JobSound DEF At, Busy
<1>2. CASE Busy(q) /\ job'[q] = [job[q] EXCEPT !.fresh = FALSE]
  <2>1. Sound(job[q])
    BY <1>2, JobSound
  <2>2. /\ Sound(job'[q]) /\ job'[q] # Idle /\ ~job'[q].fresh
        /\ job'[q].op = job[q].op /\ job'[q].at = job[q].at
        /\ job'[q].chat = job[q].chat /\ job'[q].row = job[q].row
    BY <1>2, <2>1, StaleSame
  <2> QED BY <1>2, <2>2 DEF At, Busy
<1> QED BY <1>1, <1>2 DEF Stays

\* The jobs stay sound if the one that moves does.
LEMMA MovesSound ==
  ASSUME JobsOK, NEW p \in Procs, NEW j, Moves(p, j), j = Idle \/ Sound(j)
  PROVE  JobsOK'
<1>1. \A q \in Procs : job'[q] = Idle \/ Sound(job'[q])
  <2> TAKE q \in Procs
  <2>1. CASE q = p
    BY <2>1 DEF Moves
  <2>2. CASE q # p
    BY <2>2, StaySame DEF Moves, Busy, Stays
  <2> QED BY <2>1, <2>2
<1>2. job' \in [Procs -> Jobs \cup {Idle}]
  BY <1>1 DEF Moves, Sound
<1> QED BY <1>1, <1>2 DEF JobsOK, Sound, Busy

\* A step that changes one job alone moves that process.
LEMMA MovesAlone ==
  ASSUME JobsOK, NEW p \in Procs, NEW j, job' = [job EXCEPT ![p] = j],
         \A q \in Procs : q # p /\ Busy(q) => rows'[Chat(q)] = rows[Chat(q)]
  PROVE  Moves(p, j)
BY DEF JobsOK, Moves, Stays

\* A step that writes a row moves its process and overtakes the others.
LEMMA MovesWriting ==
  ASSUME JobsOK, rows \in [Chats -> Rows \cup {NoRow}], NEW p \in Procs,
         NEW c \in Chats, NEW r, NEW j, Write(p, c, r, j)
  PROVE  /\ Moves(p, j)
         /\ rows' = [rows EXCEPT ![c] = r]
<1>1. rows' = [rows EXCEPT ![c] = r] /\ job' = [q \in Procs |-> job'[q]] /\ job'[p] = j
  BY DEF Write
<1>2. ASSUME NEW q \in Procs, q # p PROVE Stays(q)
  <2>1. job'[q] = Overtaken(q, c, r)
    BY <1>2 DEF Write
  <2>2. Busy(q) => Chat(q) \in Chats
    BY JobSound DEF Sound, Jobs, Chat
  <2> QED BY <1>1, <2>1, <2>2 DEF Overtaken, Stays
<1> QED BY <1>1, <1>2 DEF Moves

\* A job that moves on is the same but for its phase, and perhaps its row.
LEMMA JobAtSame ==
  ASSUME NEW j \in Jobs, NEW ph \in Phases
  PROVE  /\ JobAt(j, ph) \in Jobs /\ JobAt(j, ph) # Idle /\ JobAt(j, ph).at = ph
         /\ JobAt(j, ph).op = j.op /\ JobAt(j, ph).chat = j.chat
         /\ JobAt(j, ph).row = j.row /\ JobAt(j, ph).msg = j.msg
         /\ JobAt(j, ph).fresh = j.fresh
<1>1. JobAt(j, ph) \in Jobs
  BY DEF JobAt, Jobs
<1> QED BY <1>1, DistinctAssumption DEF JobAt, Jobs

\* A job that moves on without a use for the row it read.
LEMMA JobPastSame ==
  ASSUME NEW j \in Jobs, NEW ph \in Phases
  PROVE  /\ JobPast(j, ph) \in Jobs /\ JobPast(j, ph) # Idle /\ JobPast(j, ph).at = ph
         /\ JobPast(j, ph).op = j.op /\ JobPast(j, ph).chat = j.chat
         /\ JobPast(j, ph).row = NoRow /\ JobPast(j, ph).msg = j.msg
         /\ JobPast(j, ph).fresh = j.fresh
<1>1. JobPast(j, ph) \in Jobs
  BY DEF JobPast, Jobs
<1> QED BY <1>1, DistinctAssumption DEF JobPast, Jobs

\* Job j goes on as k, or ends.
Follows(j, k) ==
  k # Idle => Sound(k) /\ k.chat = j.chat /\ k.op = j.op /\ k.fresh = j.fresh

\* Where a saved row leads.
LEMMA SavedSound ==
  ASSUME NEW j, Sound(j)
  PROVE  /\ Follows(j, AfterSaved(j))
         /\ \/ AfterSaved(j) = Idle
            \/ AfterSaved(j).at = "import" /\ j.op = "add"
            \/ AfterSaved(j).at = "gate" /\ j.op = "pts"
            \/ AfterSaved(j).at = "member" /\ j.op = "message"
<1>1. j \in Jobs /\ JobOK(j) /\ {"import", "gate", "member"} \subseteq Phases
  BY DEF Sound, Phases
<1>2. CASE j.op = "add"
  <2> DEFINE k == JobAt(j, "import")
  <2>1. k \in Jobs /\ k.at = "import" /\ k.op = "add" /\ k.chat = j.chat /\ k.fresh = j.fresh
    BY <1>1, <1>2, JobAtSame
  <2>2. JobOK(k)
    <3> HIDE DEF k
    <3> QED BY <2>1 DEF JobOK, LiveOps
  <2>3. AfterSaved(j) = k
    BY <1>2 DEF AfterSaved
  <2> HIDE DEF k
  <2> QED BY <1>2, <2>1, <2>2, <2>3 DEF Follows, Sound
<1>3. CASE j.op = "pts"
  <2> DEFINE k == JobPast(j, "gate")
  <2>1. /\ k \in Jobs /\ k.at = "gate" /\ k.op = "pts" /\ k.chat = j.chat
        /\ k.fresh = j.fresh /\ k.msg = j.msg
    BY <1>1, <1>3, JobPastSame
  <2>2. JobOK(k)
    <3> HIDE DEF k
    <3> QED BY <1>1, <1>3, <2>1 DEF JobOK, LiveOps
  <2>3. AfterSaved(j) = k
    BY <1>3 DEF AfterSaved
  <2> HIDE DEF k
  <2> QED BY <1>3, <2>1, <2>2, <2>3 DEF Follows, Sound
<1>4. CASE j.op = "message"
  <2> DEFINE k == JobPast(j, "member")
  <2>1. /\ k \in Jobs /\ k.at = "member" /\ k.op = "message" /\ k.chat = j.chat
        /\ k.fresh = j.fresh /\ k.msg = j.msg
    BY <1>1, <1>4, JobPastSame
  <2>2. JobOK(k)
    <3> HIDE DEF k
    <3> QED BY <1>1, <1>4, <2>1 DEF JobOK, LiveOps
  <2>3. AfterSaved(j) = k
    BY <1>4 DEF AfterSaved
  <2> HIDE DEF k
  <2> QED BY <1>4, <2>1, <2>2, <2>3 DEF Follows, Sound
<1>5. CASE j.op \notin {"add", "pts", "message"}
  BY <1>5 DEF AfterSaved, Follows
<1> QED BY <1>2, <1>3, <1>4, <1>5

\* Where a refused row leads: to the rollback, or on as if it had been saved.
LEMMA RefusedSound ==
  ASSUME NEW j, Sound(j)
  PROVE  /\ Follows(j, AfterSaveFailed(j))
         /\ \/ AfterSaveFailed(j) = Idle
            \/ AfterSaveFailed(j).at = "drop" /\ j.op \in {"add", "watchnew"}
            \/ AfterSaveFailed(j).at = "gate" /\ j.op = "pts"
            \/ AfterSaveFailed(j).at = "member" /\ j.op = "message"
<1>1. j \in Jobs /\ JobOK(j) /\ "drop" \in Phases
  BY DEF Sound, Phases
<1>2. CASE j.op \in {"add", "watchnew"}
  <2> DEFINE k == JobAt(j, "drop")
  <2>1. k \in Jobs /\ k.at = "drop" /\ k.op = j.op /\ k.chat = j.chat /\ k.fresh = j.fresh
    BY <1>1, <1>2, JobAtSame
  <2>2. JobOK(k)
    <3> HIDE DEF k
    <3> QED BY <1>2, <2>1 DEF JobOK, LiveOps
  <2>3. AfterSaveFailed(j) = k
    BY <1>2 DEF AfterSaveFailed
  <2> HIDE DEF k
  <2> QED BY <1>2, <2>1, <2>2, <2>3 DEF Follows, Sound
<1>3. CASE j.op \notin {"add", "watchnew"} /\ AfterSaveFailed(j) # Idle
  <2>1. AfterSaveFailed(j) = AfterSaved(j)
    BY <1>3 DEF AfterSaveFailed, AfterSaved
  <2> QED BY <1>3, <2>1, SavedSound
<1> QED BY <1>2, <1>3 DEF Follows

\* What the replies add up to stays a row for each chat.
LEMMA ToldType ==
  ASSUME told \in [Chats -> Rows \cup {NoRow}],
         NEW op \in Ops, NEW c \in Chats, NEW r \in Rows, Confirm(op, c, r)
  PROVE  told' \in [Chats -> Rows \cup {NoRow}]
<1>1. CASE op \in FlagCommands
  <2> DEFINE base == IF told[c] = NoRow THEN r ELSE told[c]
  <2>1. base \in Rows
    OBVIOUS
  <2>2. Edited(op, base) \in Rows
    BY <1>1, <2>1, EditedType
  <2>3. told' = [told EXCEPT ![c] = Edited(op, base)]
    BY <1>1 DEF Confirm, FlagCommands, WatchCommands, PubCommands, OcrCommands
  <2> QED BY <2>2, <2>3
<1>2. CASE op \notin FlagCommands
  BY <1>2 DEF Confirm
<1> QED BY <1>1, <1>2

\* TypeOK with the part about jobs named.
Parts ==
  /\ rows \in [Chats -> Rows \cup {NoRow}]
  /\ watchedChatsID \subseteq Chats
  /\ allChatIDs \subseteq Chats
  /\ docs \in [Chats -> SUBSET Msgs]
  /\ told \in [Chats -> Rows \cup {NoRow}]
  /\ torn \subseteq Chats
  /\ revived \subseteq Chats
  /\ unsaid \subseteq Chats
  /\ left \subseteq Chats
  /\ JobsOK

\* The type invariant is its parts.
LEMMA TypeParts == (TypeOK <=> Parts) /\ (TypeOK' <=> Parts')
BY DEF TypeOK, Parts, JobsOK

-----------------------------------------------------------------------------
(* Where each step of a handler leads                                      *)

\* The step is one of p, whose job goes on as k, or ends.
Goes(p, k) == Moves(p, k) /\ (k # Idle => Sound(k) /\ k.chat = Chat(p))

\* What the type invariant says of a busy process.
LEMMA BusyType ==
  ASSUME TypeOK, NEW p \in Procs, Busy(p)
  PROVE  /\ JobsOK /\ Sound(job[p]) /\ job[p] # Idle /\ Chat(p) \in Chats
         /\ job[p].op \in Ops /\ job[p].row \in Rows \cup {NoRow}
         /\ rows \in [Chats -> Rows \cup {NoRow}]
         /\ rows[Chat(p)] \in Rows \cup {NoRow}
<1>1. JobsOK /\ Sound(job[p]) /\ rows \in [Chats -> Rows \cup {NoRow}]
  BY TypeParts, JobSound DEF Parts
<1> QED BY <1>1 DEF Sound, Jobs, Chat, Busy

\* A handler that only changes its phase, or ends, in a step that leaves the table.
LEMMA GoToGoes ==
  ASSUME TypeOK, NEW p \in Procs, Busy(p), rows' = rows, NEW ph \in Phases,
         GoTo(p, ph), JobOK(JobAt(job[p], ph))
  PROVE  Goes(p, JobAt(job[p], ph)) /\ JobAt(job[p], ph).at = ph
<1> DEFINE k == JobAt(job[p], ph)
<1>1. JobsOK /\ job[p] \in Jobs
  BY BusyType DEF Sound
<1>2. k \in Jobs /\ k.chat = Chat(p) /\ k.at = ph
  BY <1>1, JobAtSame DEF Chat
<1>3. job' = [job EXCEPT ![p] = k]
  BY DEF GoTo
<1> HIDE DEF k
<1>4. Moves(p, k)
  BY <1>1, <1>3, MovesAlone
<1>5. JobOK(k)
  BY DEF k
<1> QED BY <1>2, <1>4, <1>5 DEF Goes, Sound, k

\* A handler that ends, in a step that leaves the table.
LEMMA FinishGoes ==
  ASSUME TypeOK, NEW p \in Procs, Busy(p), rows' = rows, Finish(p)
  PROVE  Goes(p, Idle)
BY BusyType, MovesAlone DEF Finish, Goes

\* A handler that reads: its job becomes k, and the table stays.
LEMMA ReadGoes ==
  ASSUME TypeOK, NEW p \in Procs, Busy(p), rows' = rows, NEW k, Sound(k),
         k.chat = Chat(p), job' = [job EXCEPT ![p] = k]
  PROVE  Goes(p, k)
BY BusyType, MovesAlone DEF Goes

\* The first statement of a Save writes the row, or leads to the second.
LEMMA SaveUpdateGoes ==
  ASSUME TypeOK, NEW p \in Procs, SaveUpdate(p)
  PROVE  LET c == Chat(p)
             r == job[p].row
         IN /\ r \in Rows
            /\ rows[c] # NoRow =>
                 /\ rows' = [rows EXCEPT ![c] = r] /\ Goes(p, AfterSaved(job[p]))
            /\ rows[c] = NoRow =>
                 /\ rows' = rows /\ Goes(p, JobAt(job[p], "insert"))
                 /\ JobAt(job[p], "insert").at = "insert"
<1> DEFINE c == Chat(p)
           r == job[p].row
<1>1. /\ Busy(p) /\ job[p].at = "save"
  BY DEF SaveUpdate, At
<1>2. /\ JobsOK /\ Sound(job[p]) /\ c \in Chats /\ r \in Rows
      /\ rows \in [Chats -> Rows \cup {NoRow}]
  BY <1>1, BusyType DEF Sound, JobOK
<1>3. CASE rows[c] # NoRow
  <2>1. Write(p, c, r, AfterSaved(job[p]))
    BY <1>3 DEF SaveUpdate
  <2> QED BY <1>2, <1>3, <2>1, MovesWriting, SavedSound DEF Goes, Follows, Chat
<1>4. CASE rows[c] = NoRow
  <2>1. GoTo(p, "insert") /\ rows' = rows
    BY <1>4 DEF SaveUpdate
  <2>2. "insert" \in Phases /\ job[p] \in Jobs /\ JobOK(job[p])
    BY <1>2 DEF Phases, Sound
  <2>3. JobOK(JobAt(job[p], "insert"))
    BY <1>1, <2>2, JobAtSame DEF JobOK
  <2> QED BY <1>1, <1>2, <1>4, <2>1, <2>2, <2>3, GoToGoes
<1> QED BY <1>2, <1>3, <1>4

\* The second statement of a Save writes a watched row.
LEMMA SaveInsertGoes ==
  ASSUME TypeOK, NEW p \in Procs, SaveInsert(p)
  PROVE  /\ Inserted(job[p].row) \in Rows /\ "watching" \in Inserted(job[p].row)
         /\ rows' = [rows EXCEPT ![Chat(p)] = Inserted(job[p].row)]
         /\ Goes(p, AfterSaved(job[p]))
<1>1. Busy(p) /\ job[p].at = "insert" /\ Write(p, Chat(p), Inserted(job[p].row), AfterSaved(job[p]))
  BY DEF SaveInsert, At
<1>2. /\ JobsOK /\ Sound(job[p]) /\ Chat(p) \in Chats /\ job[p].row \in Rows
      /\ rows \in [Chats -> Rows \cup {NoRow}]
  BY <1>1, BusyType DEF Sound, JobOK
<1>3. Inserted(job[p].row) \in Rows /\ "watching" \in Inserted(job[p].row)
  BY <1>2 DEF Inserted, Rows, Flags
<1>4. Moves(p, AfterSaved(job[p])) /\ rows' = [rows EXCEPT ![Chat(p)] = Inserted(job[p].row)]
  BY <1>1, <1>2, MovesWriting
<1> QED BY <1>2, <1>3, <1>4, SavedSound DEF Goes, Follows, Chat

\* A refused Save leaves the table.
LEMMA SaveFailGoes ==
  ASSUME TypeOK, NEW p \in Procs, SaveFail(p)
  PROVE  rows' = rows /\ Goes(p, AfterSaveFailed(job[p]))
<1>1. Busy(p) /\ rows' = rows /\ job' = [job EXCEPT ![p] = AfterSaveFailed(job[p])]
  BY DEF SaveFail, At
<1>2. JobsOK /\ Sound(job[p])
  BY <1>1, BusyType
<1>3. Moves(p, AfterSaveFailed(job[p]))
  BY <1>1, <1>2, MovesAlone
<1> QED BY <1>1, <1>2, <1>3, RefusedSound DEF Goes, Follows, Chat

\* The hook of a delete leads to its statement.
LEMMA DeleteHookGoes ==
  ASSUME TypeOK, NEW p \in Procs, DeleteHook(p)
  PROVE  Goes(p, JobAt(job[p], "delrow")) /\ JobAt(job[p], "delrow").at = "delrow"
         /\ JobAt(job[p], "delrow").op = job[p].op
<1>1. Busy(p) /\ job[p].at = "delhook" /\ rows' = rows /\ GoTo(p, "delrow")
  BY DEF DeleteHook, At
<1>2. "delrow" \in Phases /\ job[p] \in Jobs /\ JobOK(job[p])
  BY <1>1, BusyType DEF Phases, Sound
<1>3. JobOK(JobAt(job[p], "delrow"))
  BY <1>1, <1>2, JobAtSame DEF JobOK
<1> QED BY <1>1, <1>2, <1>3, GoToGoes, JobAtSame

\* The statement of a delete takes the row away, and /del goes on to the documents.
LEMMA DeleteRowGoes ==
  ASSUME TypeOK, NEW p \in Procs, DeleteRow(p)
  PROVE  LET k == AfterDeleted(job[p])
         IN /\ Goes(p, k)
            /\ rows' = [rows EXCEPT ![Chat(p)] = NoRow]
            /\ k # Idle => k.at = "drop" /\ k.op = "del"
            /\ job[p].op = "del" => k # Idle
<1> DEFINE k == AfterDeleted(job[p])
<1>1. /\ Busy(p) /\ job[p].at = "delrow" /\ Write(p, Chat(p), NoRow, k)
  BY DEF DeleteRow, At
<1>2. /\ JobsOK /\ Sound(job[p]) /\ Chat(p) \in Chats /\ job[p] \in Jobs
      /\ rows \in [Chats -> Rows \cup {NoRow}] /\ "drop" \in Phases
  BY <1>1, BusyType DEF Sound, Phases
<1>3. Moves(p, k) /\ rows' = [rows EXCEPT ![Chat(p)] = NoRow]
  BY <1>1, <1>2, MovesWriting
<1>4. CASE job[p].op = "del"
  <2>1. k \in Jobs /\ k # Idle /\ k.at = "drop" /\ k.op = "del" /\ k.chat = Chat(p)
    BY <1>2, <1>4, JobAtSame DEF AfterDeleted, Chat
  <2>2. JobOK(k)
    <3> HIDE DEF k
    <3> QED BY <2>1 DEF JobOK, LiveOps
  <2> QED BY <1>3, <1>4, <2>1, <2>2 DEF Goes, Sound
<1>5. CASE job[p].op # "del"
  BY <1>3, <1>5 DEF AfterDeleted, Goes
<1> QED BY <1>4, <1>5

\* A drop of documents ends the handler or leads to the delete of the row.
LEMMA DroppedGoes ==
  ASSUME TypeOK, NEW p \in Procs, DropDocuments(p) \/ DropFail(p)
  PROVE  \E k : /\ Goes(p, k)
                /\ k # Idle => k.at = "delhook"
<1>1. Busy(p) /\ job[p].at = "drop" /\ rows' = rows /\ AfterDropped(p)
  BY DEF DropDocuments, DropFail, At, store
<1>2. "delhook" \in Phases /\ job[p] \in Jobs
  BY <1>1, BusyType DEF Phases, Sound
<1>3. CASE job[p].op = "add"
  <2>1. JobOK(JobAt(job[p], "delhook"))
    BY <1>2, <1>3, JobAtSame DEF JobOK, LiveOps
  <2> QED BY <1>1, <1>2, <1>3, <2>1, GoToGoes DEF AfterDropped
<1>4. CASE job[p].op # "add"
  BY <1>1, <1>4, FinishGoes DEF AfterDropped
<1> QED BY <1>3, <1>4

\* The steps of a handler that change nothing but its own job: what it may go on
\* to, and what it then holds.
LEMMA QuietGoes ==
  ASSUME TypeOK, NEW p \in Procs,
         \/ ImportDone(p) \/ ImportFail(p)
         \/ PtsGet(p) \/ Gate(p) \/ HandlerGet(p)
         \/ MemberGet(p) \/ SkipMessage(p) \/ DeleteHandlerGet(p)
  PROVE  /\ UNCHANGED <<store, docs, notes>>
         /\ Busy(p) /\ job[p].at \in {"import", "ptsget", "gate", "get", "member", "index", "purgeget"}
         /\ \E k : LET r == rows[Chat(p)]
                   IN /\ Goes(p, k)
                      /\ \/ k = Idle
                         \/ k.at = "drop"
                         \/ k.at = "gate" /\ k.op = "pts"
                         \/ k.at = "save" /\ k.op = "pts" /\ r # NoRow /\ k.row = r
                         \/ k.at = "get" /\ Watching(Chat(p))
                         \/ /\ k.at = "save" /\ k.op = "message" /\ job[p].at = "get"
                            /\ r # NoRow /\ k.row = r \cup {"watching"}
                            /\ k.fresh => job[p].fresh \/ "watching" \in r
                         \/ /\ k.at \in {"index", "memberhook"} /\ job[p].at = "member"
                            /\ k.fresh => job[p].fresh
                         \/ k.at = "purge" /\ MayPurge(r)
<1> DEFINE r == rows[Chat(p)]
           Reads(ph, s, f) ==
             job' = [job EXCEPT ![p].at = ph, ![p].row = s, ![p].fresh = f]
<1>1. /\ UNCHANGED <<store, docs, notes>> /\ rows' = rows
      /\ Busy(p) /\ job[p].at \in {"import", "ptsget", "gate", "get", "member", "index", "purgeget"}
  BY DEF ImportDone, ImportFail, PtsGet, Gate, HandlerGet, MemberGet, SkipMessage,
         DeleteHandlerGet, At, store
<1>2. /\ JobsOK /\ Sound(job[p]) /\ job[p] \in Jobs /\ JobOK(job[p])
      /\ Chat(p) \in Chats /\ r \in Rows \cup {NoRow}
  BY <1>1, BusyType DEF Sound
<1>3. CASE Finish(p)
  BY <1>1, <1>3, FinishGoes
<1>4. ASSUME NEW ph \in {"drop", "gate", "index"}, GoTo(p, ph),
             \/ ph = "drop" /\ job[p].at = "import"
             \/ ph = "gate" /\ job[p].at = "ptsget"
             \/ ph = "index" /\ job[p].at = "member"
      PROVE  \E k : /\ Goes(p, k) /\ k.at = ph /\ k.op = job[p].op
                    /\ k.fresh = job[p].fresh
  <2>1. /\ ph \in Phases
        /\ JobOK(JobAt(job[p], ph))
    BY <1>1, <1>2, <1>4, JobAtSame DEF JobOK, Phases
  <2> QED BY <1>1, <1>2, <1>4, <2>1, GoToGoes, JobAtSame
<1>5. ASSUME NEW ph \in {"save", "memberhook"}, NEW s \in Rows, NEW f \in BOOLEAN,
             ph = "save" => job[p].at \in {"ptsget", "get"},
             ph = "memberhook" => job[p].at = "member",
             Reads(ph, s, f)
      PROVE  \E k : /\ Goes(p, k) /\ k.at = ph /\ k.op = job[p].op
                    /\ k.row = s /\ k.fresh = f
  <2> DEFINE k == [job[p] EXCEPT !.at = ph, !.row = s, !.fresh = f]
  <2>1. /\ k \in Jobs /\ k.at = ph /\ k.op = job[p].op /\ k.chat = Chat(p)
        /\ k.row = s /\ k.fresh = f /\ k.msg = job[p].msg
    BY <1>2, <1>5 DEF Jobs, Phases, Chat
  <2>2. job' = [job EXCEPT ![p] = k]
    BY <1>2, <1>5 DEF JobsOK
  <2> HIDE DEF k
  <2>3. JobOK(k)
    BY <1>2, <1>5, <2>1, NoRowNotRow DEF JobOK
  <2> QED BY <1>1, <2>1, <2>2, <2>3, ReadGoes DEF Sound
<1> HIDE DEF Reads
<1>6. CASE PtsGet(p)
  <2>1. job[p].at = "ptsget" /\ job[p].op = "pts"
    BY <1>2, <1>6 DEF PtsGet, At, JobOK
  <2>2. CASE GoTo(p, "gate")
    BY <1>1, <1>4, <2>1, <2>2
  <2>3. CASE /\ r # NoRow
             /\ job' = [job EXCEPT ![p].at = "save", ![p].row = r, ![p].fresh = TRUE]
    <3>1. PICK f \in BOOLEAN : Reads("save", r, f)
      BY <2>3 DEF Reads
    <3>3. r \in Rows
      BY <1>2, <2>3
    <3>2. \E k : Goes(p, k) /\ k.at = "save" /\ k.op = "pts" /\ k.row = r
      BY <1>5, <2>1, <3>1, <3>3
    <3> QED BY <1>1, <2>1, <2>3, <3>2
  <2> QED BY <1>6, <2>2, <2>3 DEF PtsGet
<1>7. CASE Gate(p)
  <2> DEFINE k == [job[p] EXCEPT !.at = "get", !.op = "message", !.fresh = TRUE]
  <2>1. CASE /\ Watching(Chat(p))
             /\ job' = [job EXCEPT ![p].at = "get", ![p].op = "message", ![p].fresh = TRUE]
    <3>1. job[p].at = "gate" /\ job[p].op \in {"pts", "message"}
      BY <1>2, <1>7 DEF Gate, At, JobOK
    <3>2. /\ k \in Jobs /\ k.at = "get" /\ k.op = "message" /\ k.chat = Chat(p)
          /\ k.msg = job[p].msg
      BY <1>2 DEF Jobs, Phases, Ops, Chat
    <3>3. job' = [job EXCEPT ![p] = k]
      BY <1>2, <2>1 DEF JobsOK
    <3> HIDE DEF k
    <3>4. JobOK(k)
      BY <1>2, <3>1, <3>2 DEF JobOK, LiveOps
    <3>5. Goes(p, k)
      BY <1>1, <3>2, <3>3, <3>4, ReadGoes DEF Sound
    <3> QED BY <1>1, <2>1, <3>2, <3>5
  <2> QED BY <1>3, <1>7, <2>1 DEF Gate
<1>8. CASE HandlerGet(p)
  <2>1. job[p].at = "get" /\ job[p].op = "message"
    BY <1>2, <1>8 DEF HandlerGet, At, JobOK
  <2>2. CASE r # NoRow /\ ~Finish(p)
    <3> DEFINE f == job[p].fresh \/ "watching" \in r
    <3>1. Reads("save", r \cup {"watching"}, f)
      BY <1>8, <1>2, <2>2 DEF HandlerGet, JobsOK, Reads
    <3>2. r \cup {"watching"} \in Rows /\ f \in BOOLEAN
      BY <1>2, <2>2 DEF Rows, Flags, Jobs
    <3> HIDE DEF f
    <3>3. \E k : /\ Goes(p, k) /\ k.at = "save" /\ k.op = job[p].op
                 /\ k.row = r \cup {"watching"} /\ k.fresh = f
      BY <1>5, <2>1, <3>1, <3>2
    <3> QED BY <1>1, <2>1, <2>2, <3>3 DEF f
  <2> QED BY <1>3, <1>8, <2>2 DEF HandlerGet
<1>9. CASE MemberGet(p)
  <2>1. job[p].at = "member" /\ job[p].fresh \in BOOLEAN
    BY <1>2, <1>9 DEF MemberGet, At, Jobs
  <2>2. CASE GoTo(p, "index")
    BY <1>1, <1>4, <2>1, <2>2
  <2>3. CASE r # NoRow /\ job' = [job EXCEPT ![p].at = "memberhook", ![p].row = r]
    <3>1. Reads("memberhook", r, job[p].fresh)
      BY <1>2, <2>3 DEF JobsOK, Jobs, Reads
    <3>2. r \in Rows
      BY <1>2, <2>3
    <3>3. \E k : Goes(p, k) /\ k.at = "memberhook" /\ k.fresh = job[p].fresh
      BY <1>5, <2>1, <3>1, <3>2
    <3> QED BY <1>1, <2>1, <3>3
  <2> QED BY <1>9, <2>2, <2>3 DEF MemberGet
<1>10. CASE DeleteHandlerGet(p)
  <2> DEFINE k == [job[p] EXCEPT !.at = "purge", !.fresh = TRUE]
  <2>1. CASE MayPurge(r) /\ job' = [job EXCEPT ![p].at = "purge", ![p].fresh = TRUE]
    <3>1. job[p].at = "purgeget" /\ job[p].op = "delete"
      BY <1>2, <1>10 DEF DeleteHandlerGet, At, JobOK
    <3>2. /\ k \in Jobs /\ k.at = "purge" /\ k.op = "delete" /\ k.chat = Chat(p)
          /\ k.msg = job[p].msg
      BY <1>2, <3>1 DEF Jobs, Phases, Chat
    <3>3. job' = [job EXCEPT ![p] = k]
      BY <1>2, <2>1 DEF JobsOK
    <3> HIDE DEF k
    <3>4. JobOK(k)
      BY <1>2, <3>1, <3>2 DEF JobOK, LiveOps
    <3>5. Goes(p, k)
      BY <1>1, <3>2, <3>3, <3>4, ReadGoes DEF Sound
    <3> QED BY <1>1, <2>1, <3>2, <3>5
  <2> QED BY <1>3, <1>10, <2>1 DEF DeleteHandlerGet
<1>11. CASE ImportDone(p) \/ SkipMessage(p)
  BY <1>3, <1>11 DEF ImportDone, SkipMessage
<1>12. CASE ImportFail(p)
  BY <1>1, <1>4, <1>12 DEF ImportFail, At
<1> QED BY <1>6, <1>7, <1>8, <1>9, <1>10, <1>11, <1>12
-----------------------------------------------------------------------------
(* What holds of the handlers that nothing has overtaken                   *)

\* What the handler of job j relies on where it stands, if the row r of its chat is
\* still what it read: the row it saves is its edit of r, an import fills the row it
\* wrote, a message is of a watched chat that is not among the bad ones, a deletion
\* of a chat that allows it.
Fits(j, r, bad) ==
  /\ j.at = "insert" => j.op \in {"add", "watchnew"}
  /\ j.at \in {"save", "insert"} /\ j.op \in {"add", "watchnew"} =>
       r = NoRow /\ j.row = {"watching"}
  /\ j.at = "save" /\ j.op \notin {"add", "watchnew"} => r # NoRow
  /\ j.at = "save" /\ j.op \in FlagCommands => j.row = Edited(j.op, r)
  /\ j.at = "save" /\ j.op \in {"peers", "pts"} => j.row = r
  /\ j.at = "save" /\ j.op = "message" => j.row = r \cup {"watching"}
  /\ j.at = "import" => r = {"watching"}
  /\ j.at \in {"member", "memberhook", "index"} => r # NoRow
  /\ j.at = "purge" => r # NoRow /\ "nodelete" \notin r
  /\ j.op = "message" /\ j.at # "gate" /\ r # NoRow /\ j.chat \notin bad =>
       "watching" \in r

FreshInv ==
  \A p \in Procs : Busy(p) /\ job[p].fresh => Fits(job[p], rows[Chat(p)], torn)

\* The table says what the replies add up to.
ToldInv == \A c \in Chats \ unsaid : rows[c] = told[c]

\* A chat about to be inserted by a handler that nothing has overtaken.
Inserting(c) == \E p \in Procs : At(p, "insert") /\ Chat(p) = c /\ job[p].fresh

\* No INSERT of the chat is outstanding whose hook took it out of the cache.
InsertsWatch(c) ==
  \A p \in Procs : At(p, "insert") /\ Chat(p) = c => "watching" \in job[p].row

\* A chat that is watched in the table, or about to be, is let through the gate.
GateOpen(c) ==
  /\ InsertsWatch(c) /\ ~Pending(c, "delrow")
  /\ \/ Inserting(c)
     \/ rows[c] # NoRow /\ "watching" \in rows[c] /\ ~Pending(c, "insert")
  => c \in watchedChatsID

GateInv == \A c \in Chats \ (torn \cup unsaid) : GateOpen(c)

\* Documents are of registered chats, or about to be dropped; a rollback that has
\* dropped them finds none.
DocsInv ==
  \A c \in Chats \ left :
    /\ docs[c] # {} /\ rows[c] = NoRow => Pending(c, "drop")
    /\ RollingBack(c) => docs[c] = {}

\* The hook of the sender's association leaves the table and leads to the index.
LEMMA MemberHookGoes ==
  ASSUME TypeOK, NEW p \in Procs, MemberHook(p)
  PROVE  /\ job[p].at = "memberhook" /\ Busy(p) /\ rows' = rows
         /\ \E k : Goes(p, k) /\ k.at = "index" /\ k.fresh = job[p].fresh
<1>1. /\ Busy(p) /\ job[p].at = "memberhook" /\ rows' = rows
      /\ job' = [job EXCEPT ![p] = JobPast(job[p], "index")]
  BY DEF MemberHook, At
<1>2. job[p] \in Jobs /\ JobOK(job[p]) /\ "index" \in Phases
  BY <1>1, BusyType DEF Sound, Phases
<1> DEFINE k == JobPast(job[p], "index")
<1>3. /\ k \in Jobs /\ k.at = "index" /\ k.op = "message" /\ k.chat = Chat(p)
      /\ k.msg = job[p].msg /\ k.fresh = job[p].fresh
  BY <1>1, <1>2, JobPastSame DEF JobOK, Chat
<1> HIDE DEF k
<1>4. JobOK(k)
  BY <1>1, <1>2, <1>3 DEF JobOK
<1>5. job' = [job EXCEPT ![p] = k]
  BY <1>1 DEF k
<1> QED BY <1>1, <1>3, <1>4, <1>5, ReadGoes DEF Sound

\* A handler that hands the engine a document or takes one back.
LEMMA DocsGoes ==
  ASSUME TypeOK, NEW p \in Procs,
         IndexMessage(p) \/ PurgeMessage(p) \/ \E m \in Msgs : ImportBatch(p, m)
  PROVE  /\ UNCHANGED <<store, told, unsaid>> /\ Busy(p)
         /\ \/ (IndexMessage(p) \/ PurgeMessage(p)) /\ Goes(p, Idle)
            \/ (\E m \in Msgs : ImportBatch(p, m)) /\ Goes(p, job[p]) /\ job' = job
<1>1. UNCHANGED <<store, told, unsaid>> /\ Busy(p) /\ rows' = rows
  BY DEF IndexMessage, PurgeMessage, ImportBatch, At, store, notes
<1>2. CASE IndexMessage(p) \/ PurgeMessage(p)
  BY <1>1, <1>2, FinishGoes DEF IndexMessage, PurgeMessage
<1>3. CASE \E m \in Msgs : ImportBatch(p, m)
  <2>1. job' = job /\ job = [q \in Procs |-> job[q]] /\ Sound(job[p])
    BY <1>1, <1>3, BusyType DEF ImportBatch, JobsOK
  <2>2. Moves(p, job[p])
    BY <1>1, <2>1 DEF Moves, Stays
  <2> QED BY <1>1, <1>3, <2>1, <2>2 DEF Goes, Chat
<1> QED BY <1>2, <1>3

\* A failed delete ends its handler.
LEMMA DeleteFailGoes ==
  ASSUME TypeOK, NEW p \in Procs, DeleteFail(p)
  PROVE  Busy(p) /\ rows' = rows /\ Goes(p, Idle)
<1>1. Busy(p) /\ rows' = rows /\ Finish(p)
  BY DEF DeleteFail, At
<1> QED BY <1>1, FinishGoes

\* A process whose handler has taken the step.
LEMMA StepGoes ==
  ASSUME TypeOK, NEW p \in Procs, Step(p)
  PROVE  Busy(p) /\ \E k : Goes(p, k)
<1>1. Busy(p)
  BY DEF Step, SaveUpdate, SaveInsert, SaveFail, DeleteHook, DeleteRow, DeleteFail,
         DropDocuments, DropFail, ImportBatch, ImportDone, ImportFail, PtsGet, Gate,
         HandlerGet, MemberGet, MemberHook, IndexMessage, SkipMessage,
         DeleteHandlerGet, PurgeMessage, At
<1>2. CASE SaveUpdate(p)
  BY <1>1, <1>2, SaveUpdateGoes
<1>3. CASE SaveInsert(p) \/ SaveFail(p)
  BY <1>1, <1>3, SaveInsertGoes, SaveFailGoes
<1>4. CASE DeleteHook(p) \/ DeleteRow(p) \/ DeleteFail(p)
  BY <1>1, <1>4, DeleteHookGoes, DeleteRowGoes, DeleteFailGoes
<1>5. CASE DropDocuments(p) \/ DropFail(p)
  BY <1>1, <1>5, DroppedGoes
<1>6. CASE \/ ImportDone(p) \/ ImportFail(p)
           \/ PtsGet(p) \/ Gate(p) \/ HandlerGet(p)
           \/ MemberGet(p) \/ SkipMessage(p) \/ DeleteHandlerGet(p)
  BY <1>1, <1>6, QuietGoes
<1>7. CASE MemberHook(p)
  BY <1>1, <1>7, MemberHookGoes
<1>8. CASE IndexMessage(p) \/ PurgeMessage(p) \/ \E m \in Msgs : ImportBatch(p, m)
  BY <1>1, <1>8, DocsGoes
<1> QED BY <1>1, <1>2, <1>3, <1>4, <1>5, <1>6, <1>7, <1>8 DEF Step

\* A handler that begins has read the row and holds what it needs.
Begins(p, k) ==
  /\ Free(p) /\ Moves(p, k) /\ Sound(k) /\ k # Idle
  /\ k.at \in {"save", "delhook", "ptsget", "gate", "purgeget"}
  /\ k.at = "delhook" => k.op = "del"
  /\ k.fresh => Fits(k, rows[k.chat], torn)

Begun ==
  /\ UNCHANGED <<store, docs, notes>>
  /\ \E p \in Procs : \E k : Begins(p, k)

\* Every handler that begins does so with a job that fits what it read.
LEMMA BeginGoes ==
  ASSUME TypeOK, Begin
  PROVE  Begun
<1>1. JobsOK /\ rows \in [Chats -> Rows \cup {NoRow}]
  BY TypeParts DEF Parts
<1>2. {"watching"} \in Rows /\ Channels \subseteq Chats /\ NoRow \notin Rows
  BY NoRowNotRow DEF Rows, Flags, Chats
<1>3. BotProcs \subseteq Procs /\ LiveProcs \subseteq Procs
  BY DEF Procs
<1>4. ASSUME NEW p \in Procs, NEW k, k \in Jobs, JobOK(k), Start(p, k),
             UNCHANGED <<store, docs, notes>>,
             k.at \in {"save", "delhook", "ptsget", "gate", "purgeget"},
             k.at = "delhook" => k.op = "del", k.fresh => Fits(k, rows[k.chat], torn)
      PROVE  Begun
  <2>1. Free(p) /\ job' = [job EXCEPT ![p] = k] /\ rows' = rows
    BY <1>4 DEF Start, store
  <2>2. Moves(p, k)
    BY <1>1, <2>1, MovesAlone
  <2> QED BY <1>4, <2>1, <2>2, DistinctAssumption DEF Sound, Begun, Begins
<1>5. ASSUME NEW op \in Ops, NEW at \in Phases, NEW c \in Chats,
             NEW r \in Rows \cup {NoRow}, NEW m \in Msgs \cup {NoMsg}
      PROVE  LET k == NewJob(op, at, c, r, m)
             IN /\ k \in Jobs /\ k.op = op /\ k.at = at /\ k.chat = c /\ k.row = r
                /\ k.msg = m
  BY DEF NewJob, Jobs
<1>6. PICK c \in Chats :
         \/ \E p \in BotProcs :
              \/ BeginAdd(p, c)
              \/ BeginWatchNew(p, c)
              \/ \E cmd \in Commands : BeginFlag(p, c, cmd)
              \/ BeginSyncPeers(p, c)
              \/ BeginDel(p, c)
         \/ \E p \in LiveProcs, m \in Msgs :
              \/ BeginMessage(p, c, m)
              \/ BeginDelete(p, c, m)
  BY DEF Begin
<1>7. /\ {"add", "watchnew", "del", "peers", "pts", "message", "delete"} \subseteq Ops
      /\ {"save", "delhook", "ptsget", "gate", "purgeget"} \subseteq Phases
      /\ NoMsg \notin Msgs
  BY FlagOps, DistinctAssumption DEF Phases
<1>8. ASSUME NEW p \in BotProcs, BeginAdd(p, c) PROVE Begun
  <2> DEFINE n == NewJob("add", "save", c, {"watching"}, NoMsg)
             k == [n EXCEPT !.fresh = (rows[c] = NoRow)]
  <2>1. /\ n \in Jobs /\ n.op = "add" /\ n.at = "save" /\ n.chat = c
        /\ n.row = {"watching"} /\ n.msg = NoMsg
    BY <1>2, <1>5, <1>7
  <2>2. Start(p, k) /\ UNCHANGED <<store, docs, notes>>
    BY <1>8 DEF BeginAdd
  <2> HIDE DEF n
  <2>3. /\ k \in Jobs /\ k.op = "add" /\ k.at = "save" /\ k.chat = c
        /\ k.row = {"watching"} /\ k.msg = NoMsg /\ (k.fresh <=> rows[c] = NoRow)
    BY <2>1 DEF Jobs
  <2> HIDE DEF k
  <2>4. JobOK(k) /\ (k.fresh => Fits(k, rows[k.chat], torn))
    BY <1>2, <2>3, FlagOps DEF JobOK, LiveOps, Fits
  <2> QED BY <1>3, <1>4, <2>2, <2>3, <2>4
<1>9. ASSUME NEW p \in BotProcs, BeginWatchNew(p, c) PROVE Begun
  <2> DEFINE k == NewJob("watchnew", "save", c, {"watching"}, NoMsg)
  <2>1. /\ k \in Jobs /\ k.op = "watchnew" /\ k.at = "save" /\ k.chat = c
        /\ k.row = {"watching"} /\ k.msg = NoMsg
    BY <1>2, <1>5, <1>7
  <2>2. Start(p, k) /\ UNCHANGED <<store, docs, notes>> /\ rows[c] = NoRow
    BY <1>9 DEF BeginWatchNew
  <2> HIDE DEF k
  <2>3. JobOK(k) /\ (k.fresh => Fits(k, rows[k.chat], torn))
    BY <1>2, <2>1, <2>2, FlagOps DEF JobOK, LiveOps, Fits
  <2> QED BY <1>3, <1>4, <2>1, <2>2, <2>3
<1>10. ASSUME NEW p \in BotProcs, NEW cmd \in Commands, BeginFlag(p, c, cmd) PROVE Begun
  <2>1. cmd \in FlagCommands /\ rows[c] \in Rows /\ rows[c] # NoRow
    BY <1>1, <1>2, <1>10 DEF BeginFlag
  <2>2. Edited(cmd, rows[c]) \in Rows /\ cmd \in Ops
    BY <2>1, EditedType, FlagOps
  <2> DEFINE k == NewJob(cmd, "save", c, Edited(cmd, rows[c]), NoMsg)
  <2>3. /\ k \in Jobs /\ k.op = cmd /\ k.at = "save" /\ k.chat = c
        /\ k.row = Edited(cmd, rows[c]) /\ k.msg = NoMsg
    BY <1>5, <1>7, <2>2
  <2>4. Start(p, k) /\ UNCHANGED <<store, docs, notes>>
    BY <1>10 DEF BeginFlag
  <2> HIDE DEF k
  <2>5. JobOK(k) /\ (k.fresh => Fits(k, rows[k.chat], torn))
    BY <1>2, <2>1, <2>2, <2>3, FlagOps DEF JobOK, LiveOps, Fits
  <2> QED BY <1>3, <1>4, <2>3, <2>4, <2>5
<1>11. ASSUME NEW p \in BotProcs, BeginSyncPeers(p, c) PROVE Begun
  <2> DEFINE k == NewJob("peers", "save", c, rows[c], NoMsg)
  <2>1. rows[c] \in Rows /\ rows[c] # NoRow
    BY <1>1, <1>11 DEF BeginSyncPeers
  <2>2. /\ k \in Jobs /\ k.op = "peers" /\ k.at = "save" /\ k.chat = c
        /\ k.row = rows[c] /\ k.msg = NoMsg
    BY <1>5, <1>7, <2>1
  <2>3. Start(p, k) /\ UNCHANGED <<store, docs, notes>>
    BY <1>11 DEF BeginSyncPeers
  <2> HIDE DEF k
  <2>4. JobOK(k) /\ (k.fresh => Fits(k, rows[k.chat], torn))
    BY <2>1, <2>2, FlagOps DEF JobOK, LiveOps, Fits
  <2> QED BY <1>3, <1>4, <2>2, <2>3, <2>4
<1>12. ASSUME NEW p \in BotProcs, BeginDel(p, c) PROVE Begun
  <2> DEFINE k == NewJob("del", "delhook", c, NoRow, NoMsg)
  <2>1. /\ k \in Jobs /\ k.op = "del" /\ k.at = "delhook" /\ k.msg = NoMsg
    BY <1>5, <1>7
  <2>2. Start(p, k) /\ UNCHANGED <<store, docs, notes>>
    BY <1>12 DEF BeginDel
  <2> HIDE DEF k
  <2>3. JobOK(k) /\ (k.fresh => Fits(k, rows[k.chat], torn))
    BY <2>1 DEF JobOK, LiveOps, Fits
  <2> QED BY <1>3, <1>4, <2>1, <2>2, <2>3
<1>13. ASSUME NEW p \in LiveProcs, NEW m \in Msgs, BeginMessage(p, c, m) PROVE Begun
  <2>1. ASSUME NEW op, NEW at, <<op, at>> \in {<<"pts", "ptsget">>, <<"message", "gate">>},
               Start(p, NewJob(op, at, c, NoRow, m))
        PROVE  Begun
    <3> DEFINE k == NewJob(op, at, c, NoRow, m)
    <3>1. \/ op = "pts" /\ at = "ptsget"
          \/ op = "message" /\ at = "gate"
      BY <2>1
    <3>2. k \in Jobs /\ k.op = op /\ k.at = at /\ k.msg = m
      BY <1>5, <1>7, <3>1
    <3>3. Start(p, k) /\ UNCHANGED <<store, docs, notes>>
      BY <1>13, <2>1 DEF BeginMessage
    <3> HIDE DEF k
    <3>4. JobOK(k) /\ (k.fresh => Fits(k, rows[k.chat], torn))
      BY <1>7, <3>1, <3>2 DEF JobOK, LiveOps, Fits
    <3> QED BY <1>3, <1>4, <3>1, <3>2, <3>3, <3>4
  <2> QED BY <1>13, <2>1 DEF BeginMessage
<1>14. ASSUME NEW p \in LiveProcs, NEW m \in Msgs, BeginDelete(p, c, m) PROVE Begun
  <2> DEFINE k == NewJob("delete", "purgeget", c, NoRow, m)
  <2>1. k \in Jobs /\ k.op = "delete" /\ k.at = "purgeget" /\ k.msg = m
    BY <1>5, <1>7
  <2>2. Start(p, k) /\ UNCHANGED <<store, docs, notes>>
    BY <1>14 DEF BeginDelete
  <2> HIDE DEF k
  <2>3. JobOK(k) /\ (k.fresh => Fits(k, rows[k.chat], torn))
    BY <1>7, <2>1 DEF JobOK, LiveOps, Fits
  <2> QED BY <1>3, <1>4, <2>1, <2>2, <2>3
<1> QED BY <1>6, <1>8, <1>9, <1>10, <1>11, <1>12, <1>13, <1>14

-----------------------------------------------------------------------------
(* Type correctness *)

\* Every step of a handler keeps the type invariant.
LEMMA StepType ==
  ASSUME TypeOK, NEW p \in Procs, Step(p)
  PROVE  TypeOK'
<1> USE DEF notes, store
<1>1. JobsOK /\ JobsOK'
  <2>1. Busy(p) /\ \E k : Goes(p, k)
    BY StepGoes
  <2> QED BY <2>1, BusyType, MovesSound DEF Goes
<1>2. /\ Busy(p) /\ Chat(p) \in Chats /\ Parts
      /\ job[p].op \in Ops /\ job[p].row \in Rows \cup {NoRow}
  BY StepGoes, BusyType, TypeParts
<1>3. ASSUME SaveUpdate(p) PROVE TypeOK'
  <2>1. job[p].row \in Rows /\ rows' \in [Chats -> Rows \cup {NoRow}]
    BY <1>2, <1>3, SaveUpdateGoes DEF Parts
  <2>2. told' \in [Chats -> Rows \cup {NoRow}]
    <3>1. UNCHANGED told \/ Confirm(job[p].op, Chat(p), job[p].row)
      BY <1>3 DEF SaveUpdate
    <3> QED BY <1>2, <2>1, <3>1, ToldType DEF Parts
  <2> QED BY <1>1, <1>2, <1>3, <2>1, <2>2, TypeParts
          DEF Parts, SaveUpdate, AfterSave, NoteOverlap, NoteWrite
<1>4. ASSUME SaveInsert(p) PROVE TypeOK'
  <2>1. job[p].row \in Rows /\ rows' \in [Chats -> Rows \cup {NoRow}]
    BY <1>2, <1>4, SaveInsertGoes, BusyType DEF Parts, SaveInsert, At, Sound, JobOK
  <2>2. told' \in [Chats -> Rows \cup {NoRow}]
    BY <1>2, <1>4, <2>1, ToldType DEF Parts, SaveInsert
  <2> QED BY <1>1, <1>2, <1>4, <2>1, <2>2, TypeParts
          DEF Parts, SaveInsert, NoteOverlap, NoteWrite
<1>5. ASSUME SaveFail(p) PROVE TypeOK'
  BY <1>1, <1>2, <1>5, TypeParts DEF Parts, SaveFail, AfterSave
<1>6. ASSUME DeleteHook(p) PROVE TypeOK'
  BY <1>1, <1>2, <1>6, TypeParts DEF Parts, DeleteHook, BeforeDelete, NoteOverlap
<1>7. ASSUME DeleteRow(p) PROVE TypeOK'
  <2>1. rows' \in [Chats -> Rows \cup {NoRow}]
    BY <1>2, <1>7, DeleteRowGoes DEF Parts
  <2> QED BY <1>1, <1>2, <1>7, <2>1, TypeParts DEF Parts, DeleteRow
<1>8. ASSUME DeleteFail(p) PROVE TypeOK'
  BY <1>1, <1>2, <1>8, TypeParts DEF Parts, DeleteFail
<1>9. ASSUME DropDocuments(p) \/ DropFail(p) PROVE TypeOK'
  BY <1>1, <1>2, <1>9, TypeParts DEF Parts, DropDocuments, DropFail
<1>10. ASSUME \/ ImportDone(p) \/ ImportFail(p)
              \/ PtsGet(p) \/ Gate(p) \/ HandlerGet(p)
              \/ MemberGet(p) \/ SkipMessage(p) \/ DeleteHandlerGet(p)
       PROVE  TypeOK'
  BY <1>1, <1>2, <1>10, QuietGoes, TypeParts DEF Parts
<1>11. ASSUME MemberHook(p) PROVE TypeOK'
  BY <1>1, <1>2, <1>11, TypeParts DEF Parts, MemberHook, AfterSave
<1>12. ASSUME NEW m \in Msgs, ImportBatch(p, m) PROVE TypeOK'
  BY <1>1, <1>2, <1>12, TypeParts DEF Parts, ImportBatch, AddDocuments
<1>13. ASSUME IndexMessage(p) PROVE TypeOK'
  <2>1. job[p].msg \in Msgs
    <3>1. job[p] \in Jobs /\ JobOK(job[p]) /\ job[p].at = "index"
      BY <1>2, <1>13, BusyType DEF IndexMessage, At, Sound
    <3> QED BY <3>1 DEF Jobs, JobOK, LiveOps
  <2> QED BY <1>1, <1>2, <1>13, <2>1, TypeParts DEF Parts, IndexMessage, AddDocuments
<1>14. ASSUME PurgeMessage(p) PROVE TypeOK'
  BY <1>1, <1>2, <1>14, TypeParts DEF Parts, PurgeMessage
<1> QED
  BY <1>3, <1>4, <1>5, <1>6, <1>7, <1>8, <1>9, <1>10, <1>11, <1>12, <1>13, <1>14 DEF Step

\* A chat named in the scope of a key: the jobs stay where they are.
LEMMA ScopeApiKeyStays ==
  ASSUME TypeOK, NEW c \in Chats, ScopeApiKey(c)
  PROVE  /\ JobsOK /\ JobsOK' /\ \A q \in Procs : Stays(q)
         /\ rows' = [rows EXCEPT ![c] = rows'[c]]
         /\ rows'[c] \in Rows \cup {NoRow}
         /\ \/ rows'[c] = rows[c] /\ unsaid' = unsaid
            \/ rows[c] = NoRow /\ rows'[c] = {"watching"} /\ unsaid' = unsaid \cup {c}
<1>1. JobsOK /\ rows \in [Chats -> Rows \cup {NoRow}]
  BY TypeParts DEF Parts
<1> DEFINE r == IF rows[c] = NoRow THEN Inserted({}) ELSE rows[c]
<1>2. /\ \/ rows' = [rows EXCEPT ![c] = r] /\ job' = [q \in Procs |-> Overtaken(q, c, r)]
         \/ rows' = rows /\ job' = job
      /\ Inserted({}) = {"watching"} /\ {"watching"} \in Rows
  BY DEF ScopeApiKey, Inserted, Rows, Flags
<1>3. ASSUME NEW q \in Procs PROVE Stays(q)
  <2>1. Busy(q) => Chat(q) \in Chats
    BY <1>1, JobSound DEF Sound, Jobs, Chat
  <2>2. \/ job'[q] = job[q] /\ rows' = rows
        \/ job'[q] = Overtaken(q, c, r) /\ rows' = [rows EXCEPT ![c] = r]
    BY <1>2
  <2> HIDE DEF r
  <2> QED BY <1>1, <2>1, <2>2 DEF Overtaken, Stays
<1>4. \A q \in Procs : job'[q] = Idle \/ Sound(job'[q])
  BY <1>1, <1>3, StaySame DEF Busy, Stays
<1>5. JobsOK'
  <2>1. job' = [q \in Procs |-> job'[q]]
    BY <1>1, <1>2 DEF JobsOK
  <2>2. job' \in [Procs -> Jobs \cup {Idle}]
    BY <1>4, <2>1 DEF Sound
  <2> QED BY <1>4, <2>2 DEF JobsOK, Sound, Busy
<1>6. \/ rows'[c] = rows[c] /\ unsaid' = unsaid
      \/ rows[c] = NoRow /\ rows'[c] = {"watching"} /\ unsaid' = unsaid \cup {c}
  BY <1>1, <1>2, NoRowNotRow DEF ScopeApiKey
<1> QED BY <1>1, <1>2, <1>3, <1>5, <1>6

\* The type invariant holds of every reachable state, whatever the sets of
\* chats, messages, processes, commands and faults.
THEOREM TypeCorrect == Spec => []TypeOK
<1>1. Init => TypeOK
  BY DEF Init, TypeOK, Busy, Rows
<1>2. TypeOK /\ [Next]_vars => TypeOK'
  <2> SUFFICES ASSUME TypeOK, [Next]_vars PROVE TypeOK'
    OBVIOUS
  <2>1. CASE Begin
    <3>1. JobsOK' /\ UNCHANGED <<store, docs, notes>>
      BY <2>1, BeginGoes, MovesSound, TypeParts DEF Parts, Begun, Begins
    <3> QED BY <3>1, TypeParts DEF store, notes, Parts
  <2>2. CASE \E p \in Procs : Step(p)
    BY <2>2, StepType
  <2>3. ASSUME NEW c \in Chats, ScopeApiKey(c) PROVE TypeOK'
    <3>1. /\ UNCHANGED <<docs, told, left>> /\ AfterSave(c, Inserted({}))
          /\ torn' \subseteq torn \cup {c}
      BY <2>3 DEF ScopeApiKey
    <3>2. /\ rows' \in [Chats -> Rows \cup {NoRow}] /\ JobsOK' /\ unsaid' \subseteq unsaid \cup {c}
      BY <2>3, ScopeApiKeyStays, TypeParts DEF Parts
    <3> QED BY <3>1, <3>2, TypeParts DEF Parts, AfterSave
  <2>4. CASE Restart
    BY <2>4 DEF Restart, TypeOK, Busy
  <2>5. CASE UNCHANGED vars
    BY <2>5 DEF vars, notes, TypeOK, Busy
  <2> QED BY <2>1, <2>2, <2>3, <2>4, <2>5 DEF Next
<1> QED BY <1>1, <1>2, PTL DEF Spec

-----------------------------------------------------------------------------
(* The caches follow the table                                             *)

\* Which chats a phase is pending for, after p has moved on to k.
LEMMA PendingMoves ==
  ASSUME JobsOK, NEW p \in Procs, NEW k, Moves(p, k), NEW ph, NEW c
  PROVE  Pending(c, ph)' <=>
           \/ k # Idle /\ k.at = ph /\ k.chat = c
           \/ \E q \in Procs : q # p /\ At(q, ph) /\ Chat(q) = c
<1>1. \A q \in Procs : q # p =>
        /\ At(q, ph)' <=> At(q, ph)
        /\ Busy(q) => job'[q].chat = job[q].chat
  BY StaySame DEF Moves
<1>2. /\ job'[p] = k
      /\ At(p, ph)' <=> k # Idle /\ k.at = ph
  BY DEF Moves, At, Busy
<1> QED BY <1>1, <1>2 DEF Pending, At, Chat

\* A phase that p neither leaves nor enters stays pending for the same chats.
LEMMA PendingKept ==
  ASSUME JobsOK, NEW p \in Procs, NEW k, Moves(p, k), NEW ph,
         ~At(p, ph), k = Idle \/ k.at # ph, NEW c
  PROVE  Pending(c, ph)' <=> Pending(c, ph)
BY PendingMoves DEF Pending

\* A phase that p enters is pending for the chat of p and as before otherwise.
LEMMA PendingEntered ==
  ASSUME JobsOK, NEW p \in Procs, NEW k, Moves(p, k), NEW ph,
         ~At(p, ph), k # Idle, k.at = ph, NEW c
  PROVE  Pending(c, ph)' <=> Pending(c, ph) \/ c = k.chat
<1>1. Pending(c, ph)' <=>
        \/ k.chat = c
        \/ \E q \in Procs : q # p /\ At(q, ph) /\ Chat(q) = c
  BY PendingMoves
<1>2. Pending(c, ph) <=> \E q \in Procs : q # p /\ At(q, ph) /\ Chat(q) = c
  BY DEF Pending
<1> QED BY <1>1, <1>2

\* A phase that p leaves may stay pending for its chat because of another
\* process, and is as before for every other chat.
LEMMA PendingLeft ==
  ASSUME JobsOK, NEW p \in Procs, NEW k, Moves(p, k), NEW ph,
         At(p, ph), k = Idle \/ k.at # ph, NEW c
  PROVE  /\ Pending(c, ph)' => Pending(c, ph)
         /\ c # Chat(p) => (Pending(c, ph)' <=> Pending(c, ph))
         /\ Pending(Chat(p), ph)
<1>1. Pending(c, ph)' <=> \E q \in Procs : q # p /\ At(q, ph) /\ Chat(q) = c
  BY PendingMoves
<1>2. /\ Pending(Chat(p), ph)
      /\ Pending(c, ph) <=>
           \/ Chat(p) = c
           \/ \E q \in Procs : q # p /\ At(q, ph) /\ Chat(q) = c
  BY DEF Pending
<1> QED BY <1>1, <1>2

\* A step that leaves the store alone, by a process that neither leaves nor
\* enters a pending statement, keeps the invariant.
LEMMA QuietStep ==
  ASSUME CacheInv, JobsOK, NEW p \in Procs, NEW k, Moves(p, k), UNCHANGED store,
         ~At(p, "insert"), ~At(p, "delrow"),
         k = Idle \/ k.at \notin {"insert", "delrow"}
  PROVE  CacheInv'
<1>1. \A c : /\ Pending(c, "insert")' <=> Pending(c, "insert")
             /\ Pending(c, "delrow")' <=> Pending(c, "delrow")
  BY PendingKept
<1> QED BY <1>1 DEF CacheInv, CachesAgree, store

\* The UPDATE of a Save with its hook.
LEMMA SaveUpdateKeeps ==
  ASSUME TypeOK, CacheInv, NEW p \in Procs, SaveUpdate(p)
  PROVE  CacheInv'
<1> DEFINE c == Chat(p)
           r == job[p].row
<1>1. /\ Busy(p) /\ job[p].at = "save" /\ ~At(p, "insert") /\ ~At(p, "delrow")
  BY DEF SaveUpdate, At
<1>2. /\ JobsOK /\ Sound(job[p]) /\ r \in Rows /\ c \in Chats /\ r # NoRow
      /\ rows \in [Chats -> Rows \cup {NoRow}]
  BY <1>1, BusyType, SaveUpdateGoes, NoRowNotRow
<1>3. /\ allChatIDs' = allChatIDs \cup {c}
      /\ watchedChatsID' = IF "watching" \in r THEN watchedChatsID \cup {c}
                                               ELSE watchedChatsID \ {c}
      /\ torn' = IF Pending(c, "delrow") THEN torn \cup {c} ELSE torn
  BY DEF SaveUpdate, AfterSave, NoteOverlap
<1>4. ASSUME NEW d \in Chats \ torn' PROVE CachesAgree(d)'
  <2>1. d \in Chats \ torn /\ CachesAgree(d) /\ (d = c => ~Pending(d, "delrow"))
    BY <1>3, <1>4 DEF CacheInv
  <2>2. CASE rows[c] # NoRow
    <3>1. /\ rows' = [rows EXCEPT ![c] = r] /\ Moves(p, AfterSaved(job[p]))
          /\ AfterSaved(job[p]) = Idle \/ AfterSaved(job[p]).at \notin {"insert", "delrow"}
      BY <1>2, <2>2, SaveUpdateGoes, SavedSound DEF Goes
    <3>2. /\ Pending(d, "insert")' <=> Pending(d, "insert")
          /\ Pending(d, "delrow")' <=> Pending(d, "delrow")
      BY <1>1, <1>2, <3>1, PendingKept
    <3> HIDE DEF c, r
    <3> QED BY <1>2, <1>3, <2>1, <2>2, <3>1, <3>2 DEF CachesAgree
  <2>3. CASE rows[c] = NoRow
    <3> DEFINE k == JobAt(job[p], "insert")
    <3>1. /\ rows' = rows /\ Moves(p, k) /\ k # Idle /\ k.at = "insert" /\ k.chat = c
      BY <1>2, <2>3, SaveUpdateGoes, JobAtSame DEF Goes, Sound, Phases
    <3> HIDE DEF k
    <3>2. /\ Pending(d, "insert")' <=> Pending(d, "insert") \/ d = c
          /\ Pending(d, "delrow")' <=> Pending(d, "delrow")
      BY <1>1, <1>2, <3>1, PendingKept, PendingEntered
    <3> HIDE DEF c, r
    <3> QED BY <1>2, <1>3, <2>1, <2>3, <3>1, <3>2 DEF CachesAgree
  <2> QED BY <2>2, <2>3
<1> QED BY <1>4 DEF CacheInv

\* The INSERT of a Save, whose hook has been run with the UPDATE.
LEMMA SaveInsertKeeps ==
  ASSUME TypeOK, CacheInv, NEW p \in Procs, SaveInsert(p)
  PROVE  CacheInv'
<1> DEFINE c == Chat(p)
           r == Inserted(job[p].row)
           k == AfterSaved(job[p])
<1>1. /\ Busy(p) /\ job[p].at = "insert" /\ At(p, "insert") /\ ~At(p, "delrow")
  BY DEF SaveInsert, At
<1>2. /\ JobsOK /\ r \in Rows /\ c \in Chats /\ "watching" \in r /\ r # NoRow
      /\ rows \in [Chats -> Rows \cup {NoRow}] /\ Sound(job[p])
  BY <1>1, BusyType, SaveInsertGoes, NoRowNotRow
<1>3. /\ UNCHANGED <<watchedChatsID, allChatIDs>>
      /\ rows' = [rows EXCEPT ![c] = r]
      /\ torn' = IF Pending(c, "delrow") THEN torn \cup {c} ELSE torn
  BY SaveInsertGoes DEF SaveInsert, NoteOverlap
<1>4. Moves(p, k) /\ (k = Idle \/ k.at \notin {"insert", "delrow"})
  BY <1>2, SaveInsertGoes, SavedSound DEF Goes
<1> HIDE DEF k
<1>5. ASSUME NEW d \in Chats \ torn' PROVE CachesAgree(d)'
  <2>1. d \in Chats \ torn /\ CachesAgree(d) /\ (d = c => ~Pending(d, "delrow"))
    BY <1>3, <1>5 DEF CacheInv
  <2>2. /\ Pending(d, "delrow")' <=> Pending(d, "delrow")
        /\ Pending(d, "insert")' => Pending(d, "insert")
        /\ d # c => (Pending(d, "insert")' <=> Pending(d, "insert"))
        /\ Pending(c, "insert")
    BY <1>1, <1>2, <1>4, PendingKept, PendingLeft
  <2> HIDE DEF c, r
  <2> QED BY <1>2, <1>3, <2>1, <2>2 DEF CachesAgree
<1> QED BY <1>5 DEF CacheInv

\* The hook of a delete.
LEMMA DeleteHookKeeps ==
  ASSUME TypeOK, CacheInv, NEW p \in Procs, DeleteHook(p)
  PROVE  CacheInv'
<1> DEFINE c == Chat(p)
           k == JobAt(job[p], "delrow")
<1>1. Busy(p) /\ ~At(p, "insert") /\ ~At(p, "delrow")
  BY DEF DeleteHook, At
<1>2. JobsOK /\ c \in Chats
  BY <1>1, BusyType
<1>3. /\ allChatIDs' = allChatIDs \ {c} /\ watchedChatsID' = watchedChatsID \ {c}
      /\ torn' = IF Pending(c, "insert") THEN torn \cup {c} ELSE torn
      /\ rows' = rows
  BY DEF DeleteHook, BeforeDelete, NoteOverlap
<1>4. Moves(p, k) /\ k # Idle /\ k.at = "delrow" /\ k.chat = c
  BY <1>1, BusyType, DeleteHookGoes, JobAtSame DEF Goes, Sound, Phases
<1> HIDE DEF k
<1>5. ASSUME NEW d \in Chats \ torn' PROVE CachesAgree(d)'
  <2>1. d \in Chats \ torn /\ CachesAgree(d) /\ (d = c => ~Pending(d, "insert"))
    BY <1>3, <1>5 DEF CacheInv
  <2>2. /\ Pending(d, "insert")' <=> Pending(d, "insert")
        /\ Pending(d, "delrow")' <=> Pending(d, "delrow") \/ d = c
    BY <1>1, <1>2, <1>4, PendingKept, PendingEntered
  <2> HIDE DEF c
  <2> QED BY <1>3, <2>1, <2>2 DEF CachesAgree
<1> QED BY <1>5 DEF CacheInv

\* The DELETE itself.
LEMMA DeleteRowKeeps ==
  ASSUME TypeOK, CacheInv, NEW p \in Procs, DeleteRow(p)
  PROVE  CacheInv'
<1> DEFINE c == Chat(p)
           k == AfterDeleted(job[p])
<1>1. Busy(p) /\ ~At(p, "insert") /\ At(p, "delrow")
  BY DEF DeleteRow, At
<1>2. JobsOK /\ c \in Chats /\ rows \in [Chats -> Rows \cup {NoRow}]
  BY <1>1, BusyType
<1>3. /\ UNCHANGED <<watchedChatsID, allChatIDs, torn>>
      /\ rows' = [rows EXCEPT ![c] = NoRow]
      /\ Moves(p, k) /\ (k = Idle \/ k.at \notin {"insert", "delrow"})
  BY DeleteRowGoes DEF DeleteRow, Goes
<1> HIDE DEF k
<1>5. ASSUME NEW d \in Chats \ torn' PROVE CachesAgree(d)'
  <2>1. d \in Chats \ torn /\ CachesAgree(d)
    BY <1>3, <1>5 DEF CacheInv
  <2>2. /\ Pending(d, "insert")' <=> Pending(d, "insert")
        /\ Pending(d, "delrow")' => Pending(d, "delrow")
        /\ d # c => (Pending(d, "delrow")' <=> Pending(d, "delrow"))
        /\ Pending(c, "delrow")
    BY <1>1, <1>2, <1>3, PendingKept, PendingLeft
  <2> HIDE DEF c
  <2> QED BY <1>2, <1>3, <2>1, <2>2 DEF CachesAgree
<1> QED BY <1>5 DEF CacheInv

\* A step that leaves the agreement of every other chat as it is and tears its own.
LEMMA TearingKeeps ==
  ASSUME TypeOK, CacheInv, NEW p \in Procs, Busy(p), NEW k, Moves(p, k), rows' = rows,
         k = Idle \/ k.at \notin {"insert", "delrow"},
         torn' = torn \cup {Chat(p)},
         \A d \in Chats \ {Chat(p)} :
           /\ d \in watchedChatsID' <=> d \in watchedChatsID
           /\ d \in allChatIDs' <=> d \in allChatIDs
  PROVE  CacheInv'
<1>1. ASSUME NEW d \in Chats \ torn' PROVE CachesAgree(d)'
  <2>1. CachesAgree(d) /\ d # Chat(p)
    BY <1>1 DEF CacheInv
  <2>2. /\ Pending(d, "insert")' <=> Pending(d, "insert")
        /\ Pending(d, "delrow")' <=> Pending(d, "delrow")
    BY <2>1, BusyType, PendingKept, PendingLeft
  <2> QED BY <2>1, <2>2 DEF CachesAgree
<1> QED BY <1>1 DEF CacheInv

\* A Save that fails: before its UPDATE, in its commit, or in its INSERT.
LEMMA SaveFailKeeps ==
  ASSUME TypeOK, CacheInv, NEW p \in Procs, SaveFail(p)
  PROVE  CacheInv'
<1> DEFINE k == AfterSaveFailed(job[p])
<1>1. Busy(p) /\ ~At(p, "delrow") /\ rows' = rows
  BY DEF SaveFail, At
<1>2. JobsOK /\ Sound(job[p])
  BY <1>1, BusyType
<1>3. Moves(p, k) /\ (k = Idle \/ k.at \notin {"insert", "delrow"})
  BY <1>2, SaveFailGoes, RefusedSound DEF Goes
<1> HIDE DEF k
<1>4. CASE At(p, "save") /\ UNCHANGED <<watchedChatsID, allChatIDs, revived, torn>>
  <2>1. UNCHANGED store /\ ~At(p, "insert")
    BY <1>1, <1>4 DEF store, At
  <2> QED BY <1>1, <1>2, <1>3, <2>1, QuietStep
<1>5. CASE AfterSave(Chat(p), job[p].row) /\ torn' = torn \cup {Chat(p)}
  BY <1>1, <1>3, <1>5, TearingKeeps DEF AfterSave
<1>6. CASE UNCHANGED <<watchedChatsID, allChatIDs>> /\ torn' = torn \cup {Chat(p)}
  BY <1>1, <1>3, <1>6, TearingKeeps
<1> QED BY <1>4, <1>5, <1>6 DEF SaveFail

\* A DELETE that fails, with the rollback of one cache.
LEMMA DeleteFailKeeps ==
  ASSUME TypeOK, CacheInv, NEW p \in Procs, DeleteFail(p)
  PROVE  CacheInv'
<1>1. /\ watchedChatsID' = watchedChatsID \cup {Chat(p)} /\ torn' = torn \cup {Chat(p)}
      /\ UNCHANGED allChatIDs
  BY DEF DeleteFail
<1>2. Busy(p) /\ rows' = rows /\ Moves(p, Idle)
  BY DeleteFailGoes DEF Goes
<1> QED BY <1>1, <1>2, TearingKeeps

\* The hook that runs on the row MemberGet read: it puts into the caches what the
\* table says of the chat, or the chat is torn.
LEMMA MemberHookKeeps ==
  ASSUME TypeOK, CacheInv, NEW p \in Procs, MemberHook(p)
  PROVE  CacheInv'
<1> DEFINE c == Chat(p)
           r == job[p].row
<1>1. /\ Busy(p) /\ job[p].at = "memberhook" /\ ~At(p, "insert") /\ ~At(p, "delrow")
      /\ rows' = rows
  BY MemberHookGoes DEF At
<1>2. JobsOK /\ c \in Chats
  BY <1>1, BusyType
<1>3. /\ allChatIDs' = allChatIDs \cup {c}
      /\ watchedChatsID' = IF "watching" \in r THEN watchedChatsID \cup {c}
                                               ELSE watchedChatsID \ {c}
      /\ torn \subseteq torn'
  BY DEF MemberHook, AfterSave
<1>4. c \notin torn' =>
        /\ ~Pending(c, "delrow") /\ rows[c] # NoRow
        /\ "watching" \in r <=> "watching" \in rows[c]
  BY DEF MemberHook
<1>5. PICK k : Moves(p, k) /\ k.at = "index"
  BY MemberHookGoes DEF Goes
<1>6. ASSUME NEW d \in Chats \ torn' PROVE CachesAgree(d)'
  <2>1. CachesAgree(d)
    BY <1>3, <1>6 DEF CacheInv
  <2>2. /\ Pending(d, "insert")' <=> Pending(d, "insert")
        /\ Pending(d, "delrow")' <=> Pending(d, "delrow")
    BY <1>1, <1>2, <1>5, PendingKept
  <2> HIDE DEF c, r
  <2> QED BY <1>1, <1>3, <1>4, <1>6, <2>1, <2>2 DEF CachesAgree
<1> QED BY <1>6 DEF CacheInv

\* The hook that runs for a chat of an API key, with or without a row.
LEMMA ScopeApiKeyKeeps ==
  ASSUME TypeOK, CacheInv, NEW c \in Chats, ScopeApiKey(c)
  PROVE  CacheInv'
<1>1. /\ allChatIDs' = allChatIDs \cup {c} /\ watchedChatsID' = watchedChatsID \cup {c}
      /\ rows \in [Chats -> Rows \cup {NoRow}] /\ torn \subseteq torn'
  BY DEF TypeOK, ScopeApiKey, AfterSave, Inserted
<1>2. /\ rows' = [rows EXCEPT ![c] = rows'[c]]
      /\ JobsOK /\ \A q \in Procs : Stays(q)
  BY ScopeApiKeyStays
<1>3. c \notin torn' => ~Pending(c, "delrow") /\ rows'[c] # NoRow /\ "watching" \in rows'[c]
  BY <1>1 DEF ScopeApiKey, Inserted, NoRow
<1>4. ASSUME NEW d \in Chats \ torn' PROVE CachesAgree(d)'
  <2>1. CachesAgree(d)
    BY <1>1, <1>4 DEF CacheInv
  <2>2. /\ Pending(d, "insert")' <=> Pending(d, "insert")
        /\ Pending(d, "delrow")' <=> Pending(d, "delrow")
    BY <1>2, StaySame DEF Pending, At, Chat
  <2>3. CASE d = c
    <3>1. d \in watchedChatsID' /\ d \in allChatIDs' /\ ~Pending(d, "delrow")'
          /\ rows'[d] # NoRow /\ "watching" \in rows'[d]
      BY <1>1, <1>3, <1>4, <2>2, <2>3
    <3> QED BY <3>1 DEF CachesAgree
  <2>4. CASE d # c
    <3>1. rows'[d] = rows[d] /\ (d \in watchedChatsID' <=> d \in watchedChatsID)
          /\ (d \in allChatIDs' <=> d \in allChatIDs)
      BY <1>1, <1>2, <1>4, <2>4
    <3> QED BY <2>1, <2>2, <3>1 DEF CachesAgree
  <2> QED BY <2>3, <2>4
<1> QED BY <1>4 DEF CacheInv

\* Every step of a handler keeps the invariant.
LEMMA StepKeeps ==
  ASSUME TypeOK, CacheInv, NEW p \in Procs, Step(p)
  PROVE  CacheInv'
<1>0. JobsOK
  BY TypeParts DEF Parts
<1>1. CASE SaveUpdate(p) \/ SaveInsert(p) \/ SaveFail(p)
  BY <1>1, SaveUpdateKeeps, SaveInsertKeeps, SaveFailKeeps
<1>2. CASE DeleteHook(p) \/ DeleteRow(p) \/ DeleteFail(p)
  BY <1>2, DeleteHookKeeps, DeleteRowKeeps, DeleteFailKeeps
<1>3. CASE DropDocuments(p) \/ DropFail(p)
  <2>1. UNCHANGED store /\ ~At(p, "insert") /\ ~At(p, "delrow")
    BY <1>3 DEF DropDocuments, DropFail, At
  <2>2. PICK k : Moves(p, k) /\ (k # Idle => k.at = "delhook")
    BY <1>3, DroppedGoes DEF Goes
  <2> QED BY <1>0, <2>1, <2>2, QuietStep
<1>4. CASE \/ ImportDone(p) \/ ImportFail(p)
           \/ PtsGet(p) \/ Gate(p) \/ HandlerGet(p)
           \/ MemberGet(p) \/ SkipMessage(p) \/ DeleteHandlerGet(p)
  <2>1. UNCHANGED store /\ ~At(p, "insert") /\ ~At(p, "delrow")
    BY <1>4, QuietGoes DEF At
  <2>2. \E k : Moves(p, k) /\ (k = Idle \/ k.at \notin {"insert", "delrow"})
    BY <1>4, QuietGoes DEF Goes
  <2> QED BY <1>0, <2>1, <2>2, QuietStep
<1>5. CASE MemberHook(p)
  BY <1>5, MemberHookKeeps
<1>6. CASE IndexMessage(p) \/ PurgeMessage(p) \/ \E m \in Msgs : ImportBatch(p, m)
  <2>1. UNCHANGED store /\ ~At(p, "insert") /\ ~At(p, "delrow")
    BY <1>6, DocsGoes DEF At, IndexMessage, PurgeMessage, ImportBatch
  <2>2. \E k : Moves(p, k) /\ (k = Idle \/ k.at \notin {"insert", "delrow"})
    BY <1>6, DocsGoes DEF Goes, ImportBatch, At
  <2> QED BY <1>0, <2>1, <2>2, QuietStep
<1> QED BY <1>1, <1>2, <1>3, <1>4, <1>5, <1>6 DEF Step

\* The caches and the table agree on every chat that is not torn, whatever is
\* in flight and whatever fails.
THEOREM CachesFollow == Spec => []CacheInv
<1>1. Init => CacheInv
  BY DEF Init, CacheInv, CachesAgree, Pending, At, Busy
<1>2. TypeOK /\ CacheInv /\ [Next]_vars => CacheInv'
  <2> SUFFICES ASSUME TypeOK, CacheInv, [Next]_vars PROVE CacheInv'
    OBVIOUS
  <2>1. CASE Begin
    <3>1. Begun /\ JobsOK
      BY <2>1, BeginGoes, TypeParts DEF Parts
    <3>2. PICK p \in Procs : \E k : Begins(p, k)
      BY <3>1 DEF Begun
    <3>3. PICK k : Begins(p, k)
      BY <3>2
    <3>4. UNCHANGED store /\ ~At(p, "insert") /\ ~At(p, "delrow")
      BY <3>1, <3>3 DEF Begun, Begins, At, Busy, Free
    <3> QED BY <3>1, <3>3, <3>4, QuietStep DEF Begins
  <2>2. CASE \E p \in Procs : Step(p)
    BY <2>2, StepKeeps
  <2>3. CASE \E c \in Chats : ScopeApiKey(c)
    BY <2>3, ScopeApiKeyKeeps
  <2>4. CASE Restart
    <3>1. \A c, ph : ~Pending(c, ph)'
      BY <2>4 DEF Restart, Pending, At, Busy
    <3> QED BY <2>4, <3>1 DEF Restart, CacheInv, CachesAgree
  <2>5. CASE UNCHANGED vars
    BY <2>5 DEF vars, notes, CacheInv, CachesAgree, Pending, At, Busy, Chat
  <2> QED BY <2>1, <2>2, <2>3, <2>4, <2>5 DEF Next
<1> QED BY <1>1, <1>2, TypeCorrect, PTL DEF Spec

\* The cache of indexed chats mirrors the table.
THEOREM IndexedMirror == Spec => []IndexedMirrorRows
<1>1. CacheInv => IndexedMirrorRows
  BY DEF CacheInv, CachesAgree, IndexedMirrorRows, Settled
<1> QED BY <1>1, CachesFollow, PTL

\* The gate lets through only chats whose stored row says they are watched.
THEOREM WatchedBacked == Spec => []WatchedAreBacked
<1>1. TypeOK /\ CacheInv => WatchedAreBacked
  BY DEF TypeOK, CacheInv, CachesAgree, WatchedAreBacked, Settled
<1> QED BY <1>1, CachesFollow, TypeCorrect, PTL

\* A chat whose updates are handled is an indexed one, torn or not, whatever fails:
\* but for a chat whose DELETE has failed, until the next hook puts it right.
THEOREM WatchedStayIndexed == Spec => []WatchedAreIndexed
<1>1. Init => WatchedAreIndexed
  BY DEF Init, WatchedAreIndexed
<1>2. WatchedAreIndexed /\ [Next]_vars => WatchedAreIndexed'
  <2> SUFFICES ASSUME WatchedAreIndexed, [Next]_vars,
                      ~UNCHANGED <<watchedChatsID, allChatIDs, revived>>
               PROVE  WatchedAreIndexed'
    BY DEF WatchedAreIndexed
  <2>1. CASE \E c, r : AfterSave(c, r)
    BY <2>1 DEF AfterSave, WatchedAreIndexed
  <2>2. CASE \E c : BeforeDelete(c)
    BY <2>2 DEF BeforeDelete, WatchedAreIndexed
  <2>3. CASE \E p \in Procs : DeleteFail(p)
    BY <2>3 DEF DeleteFail, WatchedAreIndexed
  <2>4. CASE Restart
    BY <2>4 DEF Restart, WatchedAreIndexed
  <2>5. ~Begin
    BY DEF Begin, BeginAdd, BeginWatchNew, BeginFlag, BeginSyncPeers, BeginDel,
           BeginMessage, BeginDelete, store
  <2>6. ASSUME NEW p \in Procs, Step(p)
        PROVE  (\E c, r : AfterSave(c, r)) \/ (\E c : BeforeDelete(c)) \/ DeleteFail(p)
    BY <2>6 DEF Step, SaveUpdate, SaveInsert, SaveFail, DeleteHook, DeleteRow,
           DropDocuments, DropFail, ImportBatch, ImportDone, ImportFail, PtsGet, Gate,
           HandlerGet, MemberGet, MemberHook, IndexMessage, SkipMessage,
           DeleteHandlerGet, PurgeMessage, store
  <2>7. ASSUME NEW c \in Chats, ScopeApiKey(c) PROVE \E d, r : AfterSave(d, r)
    BY <2>7 DEF ScopeApiKey
  <2> QED BY <2>1, <2>2, <2>3, <2>4, <2>5, <2>6, <2>7 DEF Next, vars
<1> QED BY <1>1, <1>2, PTL DEF Spec

-----------------------------------------------------------------------------
(* What nothing has overtaken fits the table                               *)

\* A step of p keeps every fresh handler fitting, if what p goes on to fits.
LEMMA FreshStep ==
  ASSUME TypeOK, FreshInv, NEW p \in Procs, NEW k, Moves(p, k), torn \subseteq torn',
         k # Idle /\ k.fresh => Fits(k, rows'[k.chat], torn')
  PROVE  FreshInv'
<1>1. JobsOK
  BY TypeParts DEF Parts
<1>2. ASSUME NEW q \in Procs, job'[q] # Idle, job'[q].fresh
      PROVE  Fits(job'[q], rows'[job'[q].chat], torn')
  <2>1. CASE q = p
    BY <1>2, <2>1 DEF Moves
  <2>2. CASE q # p
    <3>1. Stays(q)
      BY <2>2 DEF Moves
    <3>2. CASE job'[q] = job[q] /\ (Busy(q) => rows'[Chat(q)] = rows[Chat(q)])
      BY <1>2, <3>2 DEF FreshInv, Busy, Chat, Fits
    <3>3. CASE Busy(q) /\ job'[q] = [job[q] EXCEPT !.fresh = FALSE]
      <4>1. ~job'[q].fresh
        BY <1>1, <3>3, JobSound, StaleSame
      <4> QED BY <1>2, <4>1
    <3> QED BY <3>1, <3>2, <3>3 DEF Stays
  <2> QED BY <2>1, <2>2
<1> QED BY <1>2 DEF FreshInv, Busy, Chat

\* What a fresh handler knows.
LEMMA FreshFits ==
  ASSUME FreshInv, NEW p \in Procs, Busy(p), job[p].fresh
  PROVE  Fits(job[p], rows[Chat(p)], torn)
BY DEF FreshInv

\* What follows a saved row fits it.
LEMMA SaveUpdateFits ==
  ASSUME TypeOK, FreshInv, NEW p \in Procs, SaveUpdate(p)
  PROVE  FreshInv'
<1> DEFINE c == Chat(p)
           j == job[p]
           r == job[p].row
<1>1. Busy(p) /\ j.at = "save"
  BY DEF SaveUpdate, At
<1>2. /\ JobsOK /\ Sound(j) /\ c \in Chats /\ j.op \in Ops /\ r \in Rows /\ r # NoRow
      /\ rows \in [Chats -> Rows \cup {NoRow}]
      /\ j.fresh => Fits(j, rows[c], torn)
  BY <1>1, BusyType, FreshFits, SaveUpdateGoes, NoRowNotRow
<1>3. torn \subseteq torn'
  BY DEF SaveUpdate, NoteOverlap
<1>4. CASE rows[c] # NoRow
  <2>1. PICK k : k = AfterSaved(j)
    OBVIOUS
  <2>2. /\ rows' = [rows EXCEPT ![c] = r] /\ Goes(p, k) /\ Follows(j, k)
        /\ \/ k = Idle
           \/ k.at = "import" /\ j.op = "add"
           \/ k.at = "gate" /\ j.op = "pts"
           \/ k.at = "member" /\ j.op = "message"
    BY <1>2, <1>4, <2>1, SaveUpdateGoes, SavedSound
  <2>3. ASSUME k # Idle, k.fresh PROVE Fits(k, rows'[k.chat], torn')
    <3>1. /\ k.chat = c /\ k.op = j.op /\ j.fresh /\ rows'[k.chat] = r
      BY <1>2, <2>2, <2>3 DEF Follows, Goes
    <3>2. Fits(j, rows[c], torn)
      BY <1>2, <3>1
    <3>3. CASE k.at = "import" /\ j.op = "add"
      BY <1>1, <1>4, <3>2, <3>3 DEF Fits
    <3>4. CASE k.at = "gate" /\ j.op = "pts"
      BY <3>1, <3>4, FlagOps DEF Fits
    <3>5. CASE k.at = "member" /\ j.op = "message"
      <4>1. r = rows[c] \cup {"watching"} /\ "watching" \in r
        BY <1>1, <3>2, <3>5 DEF Fits
      <4> HIDE DEF j, r, c
      <4> QED BY <1>2, <3>1, <3>5, <4>1, FlagOps DEF Fits
    <3> QED BY <2>2, <2>3, <3>3, <3>4, <3>5
  <2> QED BY <1>3, <2>2, <2>3, FreshStep DEF Goes
<1>5. CASE rows[c] = NoRow
  <2>1. PICK k : k = JobAt(j, "insert")
    OBVIOUS
  <2>2. /\ rows' = rows /\ Moves(p, k) /\ k.at = "insert" /\ k.chat = c /\ k.op = j.op
        /\ k.fresh = j.fresh /\ k.row = r
    BY <1>2, <1>5, <2>1, SaveUpdateGoes, JobAtSame DEF Goes, Sound, Phases, Chat
  <2>3. k.fresh => Fits(k, rows'[k.chat], torn')
    BY <1>1, <1>2, <1>5, <2>2, FlagOps DEF Fits
  <2> QED BY <1>3, <2>2, <2>3, FreshStep
<1> QED BY <1>4, <1>5

\* What follows an inserted row fits it.
LEMMA SaveInsertFits ==
  ASSUME TypeOK, FreshInv, NEW p \in Procs, SaveInsert(p)
  PROVE  FreshInv'
<1> DEFINE c == Chat(p)
           j == job[p]
           r == Inserted(job[p].row)
<1>1. Busy(p) /\ j.at = "insert"
  BY DEF SaveInsert, At
<1>2. /\ Sound(j) /\ c \in Chats /\ rows \in [Chats -> Rows \cup {NoRow}]
      /\ j.fresh => Fits(j, rows[c], torn)
  BY <1>1, BusyType, FreshFits
<1>3. torn \subseteq torn'
  BY DEF SaveInsert, NoteOverlap
<1>4. PICK k : k = AfterSaved(j)
  OBVIOUS
<1>5. /\ rows' = [rows EXCEPT ![c] = r] /\ Goes(p, k) /\ Follows(j, k)
      /\ \/ k = Idle
         \/ k.at = "import" /\ j.op = "add"
         \/ k.at = "gate" /\ j.op = "pts"
         \/ k.at = "member" /\ j.op = "message"
  BY <1>2, <1>4, SaveInsertGoes, SavedSound
<1>6. ASSUME k # Idle, k.fresh PROVE Fits(k, rows'[k.chat], torn')
  <2>1. /\ k.chat = c /\ k.op = j.op /\ j.fresh /\ rows'[k.chat] = r
    BY <1>2, <1>5, <1>6 DEF Follows, Goes
  <2>2. j.op \in {"add", "watchnew"} /\ j.row = {"watching"}
    BY <1>1, <1>2, <2>1 DEF Fits
  <2>3. k.at = "import" /\ r = {"watching"}
    BY <1>5, <1>6, <2>2 DEF Inserted
  <2> HIDE DEF j, c, r
  <2> QED BY <2>1, <2>2, <2>3, FlagOps DEF Fits
<1> QED BY <1>3, <1>5, <1>6, FreshStep DEF Goes

\* What follows a refused Save fits the row that is still there.
LEMMA SaveFailFits ==
  ASSUME TypeOK, FreshInv, NEW p \in Procs, SaveFail(p)
  PROVE  FreshInv'
<1> DEFINE c == Chat(p)
           j == job[p]
<1>1. Busy(p) /\ j.at \in {"save", "insert"} /\ rows' = rows /\ torn \subseteq torn'
  BY DEF SaveFail, At
<1>2. Sound(j) /\ (j.fresh => Fits(j, rows[c], torn))
  BY <1>1, BusyType, FreshFits
<1>3. PICK k : k = AfterSaveFailed(j)
  OBVIOUS
<1>4. /\ Goes(p, k) /\ Follows(j, k)
      /\ \/ k = Idle
         \/ k.at = "drop" /\ j.op \in {"add", "watchnew"}
         \/ k.at = "gate" /\ j.op = "pts"
         \/ k.at = "member" /\ j.op = "message"
  BY <1>2, <1>3, SaveFailGoes, RefusedSound
<1>5. ASSUME k # Idle, k.fresh PROVE Fits(k, rows'[k.chat], torn')
  <2>1. k.chat = c /\ k.op = j.op /\ Fits(j, rows[c], torn) /\ c = j.chat
    BY <1>2, <1>4, <1>5 DEF Follows, Goes, Chat
  <2> HIDE DEF j, c
  <2>2. CASE k.at = "gate" \/ (k.at = "drop" /\ j.op \in {"add", "watchnew"})
    BY <2>1, <2>2 DEF Fits
  <2>3. CASE k.at = "member" /\ j.op = "message"
    BY <1>1, <2>1, <2>3, FlagOps DEF Fits
  <2> QED BY <1>4, <1>5, <2>2, <2>3
<1> QED BY <1>1, <1>4, <1>5, FreshStep DEF Goes

\* Where there is nothing to fit.
LEMMA NothingToFit ==
  ASSUME NEW k, Sound(k), NEW r, NEW bad,
         k.at \in {"delhook", "delrow", "drop", "ptsget", "gate", "purgeget"}
  PROVE  Fits(k, r, bad)
BY DEF Sound, JobOK, Fits

\* The reads: what they hand on fits what they read.  What the gate lets through
\* is watched in the table, unless the chat is torn.
LEMMA QuietFits ==
  ASSUME TypeOK, CacheInv, FreshInv, NEW p \in Procs,
         \/ ImportDone(p) \/ ImportFail(p)
         \/ PtsGet(p) \/ Gate(p) \/ HandlerGet(p)
         \/ MemberGet(p) \/ SkipMessage(p) \/ DeleteHandlerGet(p)
  PROVE  FreshInv'
<1> DEFINE r == rows[Chat(p)]
<1>1. /\ Busy(p) /\ rows' = rows /\ torn' = torn
      /\ job[p].fresh => Fits(job[p], r, torn)
  BY QuietGoes, FreshFits DEF store
<1>2. /\ Chat(p) \in Chats /\ Chat(p) = job[p].chat /\ Sound(job[p])
      /\ Watching(Chat(p)) /\ r # NoRow /\ Chat(p) \notin torn => "watching" \in r
  BY <1>1, BusyType DEF CacheInv, CachesAgree, Watching, Chat
<1>3. PICK k :
        /\ Goes(p, k)
        /\ \/ k = Idle
           \/ k.at = "drop"
           \/ k.at = "gate" /\ k.op = "pts"
           \/ k.at = "save" /\ k.op = "pts" /\ r # NoRow /\ k.row = r
           \/ k.at = "get" /\ Watching(Chat(p))
           \/ /\ k.at = "save" /\ k.op = "message" /\ job[p].at = "get"
              /\ r # NoRow /\ k.row = r \cup {"watching"}
              /\ k.fresh => job[p].fresh \/ "watching" \in r
           \/ /\ k.at \in {"index", "memberhook"} /\ job[p].at = "member"
              /\ k.fresh => job[p].fresh
           \/ k.at = "purge" /\ MayPurge(r)
  BY QuietGoes
<1>4. ASSUME k # Idle, k.fresh PROVE Fits(k, rows'[k.chat], torn')
  <2>1. Sound(k) /\ k.chat = Chat(p) /\ rows'[k.chat] = r
    BY <1>1, <1>3, <1>4 DEF Goes
  <2>2. CASE k.at \in {"drop", "gate"}
    BY <2>1, <2>2, NothingToFit
  <2>3. CASE k.at = "save" /\ k.op = "pts" /\ r # NoRow /\ k.row = r
    BY <2>1, <2>3, FlagOps DEF Fits
  <2>4. CASE k.at = "get" /\ Watching(Chat(p))
    BY <1>1, <1>2, <2>1, <2>4 DEF Fits
  <2>5. CASE /\ k.at = "save" /\ k.op = "message" /\ job[p].at = "get"
             /\ r # NoRow /\ k.row = r \cup {"watching"}
             /\ k.fresh => job[p].fresh \/ "watching" \in r
    <3>1. job[p].op = "message"
      BY <1>2, <2>5 DEF Sound, JobOK
    <3>2. Chat(p) \notin torn => "watching" \in r
      BY <1>1, <1>2, <1>4, <2>5, <3>1 DEF Fits
    <3> QED BY <1>1, <1>2, <2>1, <2>5, <3>2, FlagOps DEF Fits
  <2>6. CASE /\ k.at \in {"index", "memberhook"} /\ job[p].at = "member"
             /\ k.fresh => job[p].fresh
    <3>1. job[p].op = "message" /\ Fits(job[p], r, torn)
      BY <1>1, <1>2, <1>4, <2>6 DEF Sound, JobOK
    <3>2. r # NoRow /\ (Chat(p) \notin torn => "watching" \in r)
      BY <1>2, <2>6, <3>1 DEF Fits
    <3> QED BY <1>1, <1>2, <2>1, <2>6, <3>2 DEF Fits
  <2>7. CASE k.at = "purge" /\ MayPurge(r)
    <3>1. k.op = "delete"
      BY <2>1, <2>7 DEF Sound, JobOK
    <3> QED BY <2>1, <2>7, <3>1 DEF Fits, MayPurge
  <2> QED BY <1>3, <1>4, <2>2, <2>3, <2>4, <2>5, <2>6, <2>7
<1> QED BY <1>1, <1>3, <1>4, FreshStep DEF Goes

\* Every step of a handler keeps the fresh ones fitting.
LEMMA StepFits ==
  ASSUME TypeOK, CacheInv, FreshInv, NEW p \in Procs, Step(p)
  PROVE  FreshInv'
<1>1. CASE SaveUpdate(p) \/ SaveInsert(p) \/ SaveFail(p)
  BY <1>1, SaveUpdateFits, SaveInsertFits, SaveFailFits
<1>2. CASE DeleteHook(p) \/ DeleteRow(p) \/ DeleteFail(p) \/ DropDocuments(p) \/ DropFail(p)
  <2>1. \E k : Goes(p, k) /\ (k # Idle => k.at \in {"delhook", "delrow", "drop"})
    BY <1>2, DeleteHookGoes, DeleteRowGoes, DeleteFailGoes, DroppedGoes
  <2>2. torn \subseteq torn'
    BY <1>2 DEF DeleteHook, DeleteRow, DeleteFail, DropDocuments, DropFail, NoteOverlap, store
  <2> QED BY <2>1, <2>2, NothingToFit, FreshStep DEF Goes
<1>3. CASE \/ ImportDone(p) \/ ImportFail(p)
           \/ PtsGet(p) \/ Gate(p) \/ HandlerGet(p)
           \/ MemberGet(p) \/ SkipMessage(p) \/ DeleteHandlerGet(p)
  BY <1>3, QuietFits
<1>4. CASE MemberHook(p)
  <2>1. PICK k : Goes(p, k) /\ k.at = "index" /\ k.fresh = job[p].fresh
    BY <1>4, MemberHookGoes
  <2>2. /\ Busy(p) /\ job[p].at = "memberhook" /\ rows' = rows /\ torn \subseteq torn'
        /\ Sound(job[p])
    BY <1>4, MemberHookGoes, BusyType DEF MemberHook
  <2>3. ASSUME k # Idle, k.fresh PROVE Fits(k, rows'[k.chat], torn')
    <3>1. /\ Fits(job[p], rows[Chat(p)], torn) /\ k.chat = Chat(p) /\ job[p].op = "message"
          /\ job[p].chat = Chat(p)
      BY <2>1, <2>2, <2>3, FreshFits DEF Goes, Sound, JobOK, Chat
    <3> QED BY <2>1, <2>2, <3>1 DEF Fits
  <2> QED BY <2>1, <2>2, <2>3, FreshStep DEF Goes
<1>5. CASE IndexMessage(p) \/ PurgeMessage(p) \/ \E m \in Msgs : ImportBatch(p, m)
  <2>1. PICK k : Goes(p, k) /\ (k = Idle \/ k = job[p])
    BY <1>5, DocsGoes
  <2>2. Busy(p) /\ rows' = rows /\ torn' = torn
    BY <1>5, DocsGoes DEF store
  <2>3. k # Idle /\ k.fresh => Fits(k, rows'[k.chat], torn')
    BY <2>1, <2>2, FreshFits DEF Chat
  <2> QED BY <2>1, <2>2, <2>3, FreshStep DEF Goes
<1> QED BY <1>1, <1>2, <1>3, <1>4, <1>5 DEF Step

\* What a handler read fits the table until a change overtakes it, whatever the
\* handlers, their number and the faults.
THEOREM FreshCorrect == Spec => []FreshInv
<1>1. Init => FreshInv
  BY DEF Init, FreshInv, Busy
<1>2. TypeOK /\ CacheInv /\ FreshInv /\ [Next]_vars => FreshInv'
  <2> SUFFICES ASSUME TypeOK, CacheInv, FreshInv, [Next]_vars PROVE FreshInv'
    OBVIOUS
  <2>1. CASE Begin
    <3>1. Begun
      BY <2>1, BeginGoes
    <3>2. PICK p \in Procs : \E k : Begins(p, k)
      BY <3>1 DEF Begun
    <3>3. PICK k : Begins(p, k)
      BY <3>2
    <3>4. rows' = rows /\ torn' = torn
      BY <3>1 DEF Begun, store
    <3> QED BY <3>3, <3>4, FreshStep DEF Begins
  <2>2. CASE \E p \in Procs : Step(p)
    BY <2>2, StepFits
  <2>3. ASSUME NEW c \in Chats, ScopeApiKey(c) PROVE FreshInv'
    <3>1. JobsOK /\ (\A q \in Procs : Stays(q)) /\ torn \subseteq torn'
      BY <2>3, ScopeApiKeyStays DEF ScopeApiKey
    <3>2. ASSUME NEW q \in Procs, job'[q] # Idle, job'[q].fresh
          PROVE  Fits(job'[q], rows'[job'[q].chat], torn')
      <4>1. CASE job'[q] = job[q] /\ (Busy(q) => rows'[Chat(q)] = rows[Chat(q)])
        BY <3>1, <3>2, <4>1 DEF FreshInv, Busy, Chat, Fits
      <4>2. CASE Busy(q) /\ job'[q] = [job[q] EXCEPT !.fresh = FALSE]
        <5>1. ~job'[q].fresh
          BY <3>1, <4>2, JobSound, StaleSame
        <5> QED BY <3>2, <5>1
      <4> QED BY <3>1, <4>1, <4>2 DEF Stays
    <3> QED BY <3>2 DEF FreshInv, Busy, Chat
  <2>4. CASE Restart
    BY <2>4 DEF Restart, FreshInv, Busy
  <2>5. CASE UNCHANGED vars
    BY <2>5 DEF vars, FreshInv, Busy, Chat
  <2> QED BY <2>1, <2>2, <2>3, <2>4, <2>5 DEF Next
<1> QED BY <1>1, <1>2, TypeCorrect, CachesFollow, PTL DEF Spec

-----------------------------------------------------------------------------
(* What the replies add up to                                              *)

\* The row a fresh handler saves is what its reply makes of what was told.
LEMMA SaveUpdateTold ==
  ASSUME TypeOK, FreshInv, ToldInv, NEW p \in Procs, SaveUpdate(p)
  PROVE  ToldInv'
<1> DEFINE c == Chat(p)
           j == job[p]
           r == job[p].row
<1>1. Busy(p) /\ j.at = "save"
  BY DEF SaveUpdate, At
<1>2. /\ Sound(j) /\ c \in Chats /\ j.op \in Ops /\ r \in Rows /\ c = j.chat
      /\ rows \in [Chats -> Rows \cup {NoRow}] /\ told \in [Chats -> Rows \cup {NoRow}]
      /\ j.fresh => Fits(j, rows[c], torn)
  BY <1>1, BusyType, FreshFits, SaveUpdateGoes, TypeParts DEF Parts, Chat
<1>3. CASE rows[c] = NoRow
  BY <1>3 DEF SaveUpdate, ToldInv, GoTo
<1>4. CASE rows[c] # NoRow
  <2>1. /\ rows' = [rows EXCEPT ![c] = r] /\ Confirm(j.op, c, r) /\ NoteWrite(j, c)
    BY <1>4 DEF SaveUpdate, Write
  <2>2. ASSUME NEW d \in Chats \ unsaid', d # c PROVE rows'[d] = told'[d]
    <3>1. d \notin unsaid /\ told'[d] = told[d]
      BY <1>2, <2>1, <2>2 DEF NoteWrite, Confirm
    <3> QED BY <1>2, <2>1, <2>2, <3>1 DEF ToldInv
  <2>3. ASSUME c \notin unsaid' PROVE rows'[c] = told'[c]
    <3>1. /\ c \notin unsaid /\ j.fresh /\ ~(j.op = "message" /\ c \in torn)
      BY <2>1, <2>3 DEF NoteWrite
    <3>2. rows[c] = told[c] /\ rows'[c] = r /\ Fits(j, rows[c], torn)
      BY <1>2, <2>1, <3>1 DEF ToldInv
    <3>3. CASE j.op \in FlagCommands
      <4>1. told'[c] = Edited(j.op, told[c])
        BY <1>2, <1>4, <2>1, <3>2, <3>3, FlagOps DEF Confirm
      <4> QED BY <1>1, <3>2, <3>3, <4>1 DEF Fits
    <3>4. CASE j.op \in {"add", "watchnew"}
      BY <1>2, <2>1, <3>2, <3>4, FlagOps DEF Confirm
    <3>5. CASE j.op \in {"peers", "pts"}
      <4>1. told'[c] = told[c]
        BY <2>1, <3>5, FlagOps DEF Confirm
      <4> QED BY <1>1, <3>2, <3>5, <4>1 DEF Fits
    <3>6. CASE j.op = "message"
      <4>1. told'[c] = told[c]
        BY <2>1, <3>6, FlagOps DEF Confirm
      <4>2. "watching" \in rows[c] /\ r = rows[c] \cup {"watching"}
        BY <1>1, <1>2, <1>4, <3>1, <3>2, <3>6 DEF Fits
      <4> QED BY <3>2, <4>1, <4>2
    <3>7. j.op \notin {"del", "delete"}
      BY <1>1, <1>2 DEF Sound, JobOK
    <3> QED BY <1>2, <3>3, <3>4, <3>5, <3>6, <3>7, FlagOps
  <2> QED BY <2>2, <2>3 DEF ToldInv
<1> QED BY <1>3, <1>4

\* The row a fresh handler inserts is what its reply says.
LEMMA SaveInsertTold ==
  ASSUME TypeOK, FreshInv, ToldInv, NEW p \in Procs, SaveInsert(p)
  PROVE  ToldInv'
<1> DEFINE c == Chat(p)
           j == job[p]
           r == job[p].row
<1>1. Busy(p) /\ j.at = "insert"
  BY DEF SaveInsert, At
<1>2. /\ c \in Chats /\ rows \in [Chats -> Rows \cup {NoRow}]
      /\ told \in [Chats -> Rows \cup {NoRow}] /\ Sound(j)
      /\ j.fresh => Fits(j, rows[c], torn)
  BY <1>1, BusyType, FreshFits, TypeParts DEF Parts
<1>3. rows' = [rows EXCEPT ![c] = Inserted(r)] /\ Confirm(j.op, c, r) /\ NoteWrite(j, c)
  BY SaveInsertGoes DEF SaveInsert
<1>4. ASSUME NEW d \in Chats \ unsaid', d # c PROVE rows'[d] = told'[d]
  <2>1. d \notin unsaid /\ told'[d] = told[d]
    BY <1>2, <1>3, <1>4 DEF NoteWrite, Confirm
  <2> QED BY <1>2, <1>3, <1>4, <2>1 DEF ToldInv
<1>5. ASSUME c \notin unsaid' PROVE rows'[c] = told'[c]
  <2>1. j.op \in {"add", "watchnew"} /\ r = {"watching"}
    BY <1>1, <1>2, <1>3, <1>5 DEF NoteWrite, Fits
  <2>2. told'[c] = r
    BY <1>2, <1>3, <2>1, FlagOps DEF Confirm
  <2> QED BY <1>2, <1>3, <2>1, <2>2 DEF Inserted
<1> QED BY <1>4, <1>5 DEF ToldInv

\* A row that is deleted without its reply speaking of it is unsaid.
LEMMA DeleteRowTold ==
  ASSUME TypeOK, ToldInv, NEW p \in Procs, DeleteRow(p)
  PROVE  ToldInv'
<1> DEFINE c == Chat(p)
<1>1. Busy(p)
  BY DEF DeleteRow, At
<1>2. /\ c \in Chats /\ rows \in [Chats -> Rows \cup {NoRow}]
      /\ told \in [Chats -> Rows \cup {NoRow}]
  BY <1>1, BusyType, TypeParts DEF Parts
<1>3. /\ rows' = [rows EXCEPT ![c] = NoRow]
      /\ IF job[p].op = "del" \/ job[p].fresh
           THEN told' = [told EXCEPT ![c] = NoRow]
           ELSE UNCHANGED told
      /\ unsaid' = CASE job[p].op = "del" -> unsaid \ {c}
                     [] job[p].fresh      -> unsaid
                     [] OTHER             -> unsaid \cup {c}
  BY DeleteRowGoes DEF DeleteRow
<1> HIDE DEF c
<1>4. CASE job[p].op = "del" \/ job[p].fresh
  <2>1. unsaid \subseteq unsaid' \cup {c}
    BY <1>3, <1>4
  <2> QED BY <1>2, <1>3, <1>4, <2>1 DEF ToldInv
<1>5. CASE ~(job[p].op = "del" \/ job[p].fresh)
  BY <1>2, <1>3, <1>5 DEF ToldInv
<1> QED BY <1>4, <1>5

\* Every step of a handler keeps the table in line with the replies.
LEMMA StepTold ==
  ASSUME TypeOK, FreshInv, ToldInv, NEW p \in Procs, Step(p)
  PROVE  ToldInv'
<1>1. CASE SaveUpdate(p) \/ SaveInsert(p) \/ DeleteRow(p)
  BY <1>1, SaveUpdateTold, SaveInsertTold, DeleteRowTold
<1>2. CASE UNCHANGED <<rows, told, unsaid>>
  BY <1>2 DEF ToldInv
<1>3. CASE SaveFail(p) \/ DeleteHook(p) \/ DeleteFail(p) \/ MemberHook(p)
  BY <1>2, <1>3 DEF SaveFail, DeleteHook, DeleteFail, MemberHook, notes
<1>4. CASE DropDocuments(p) \/ DropFail(p)
  BY <1>2, <1>4 DEF DropDocuments, DropFail, store
<1>5. CASE \/ ImportDone(p) \/ ImportFail(p)
           \/ PtsGet(p) \/ Gate(p) \/ HandlerGet(p)
           \/ MemberGet(p) \/ SkipMessage(p) \/ DeleteHandlerGet(p)
  BY <1>2, <1>5, QuietGoes DEF store, notes
<1>6. CASE IndexMessage(p) \/ PurgeMessage(p) \/ \E m \in Msgs : ImportBatch(p, m)
  BY <1>2, <1>6, DocsGoes DEF store
<1> QED BY <1>1, <1>3, <1>4, <1>5, <1>6 DEF Step

\* The table says what the replies add up to, but where a handler wrote what it had
\* not seen, or a row came and went without a reply.
THEOREM ToldCorrect == Spec => []ToldInv
<1>1. Init => ToldInv
  BY DEF Init, ToldInv
<1>2. TypeOK /\ FreshInv /\ ToldInv /\ [Next]_vars => ToldInv'
  <2> SUFFICES ASSUME TypeOK, FreshInv, ToldInv, [Next]_vars PROVE ToldInv'
    OBVIOUS
  <2>1. CASE Begin
    BY <2>1, BeginGoes DEF Begun, store, notes, ToldInv
  <2>2. CASE \E p \in Procs : Step(p)
    BY <2>2, StepTold
  <2>3. ASSUME NEW c \in Chats, ScopeApiKey(c) PROVE ToldInv'
    <3>1. rows \in [Chats -> Rows \cup {NoRow}] /\ told' = told
      BY <2>3 DEF TypeOK, ScopeApiKey
    <3>2. CASE UNCHANGED <<rows, unsaid>>
      BY <3>1, <3>2 DEF ToldInv
    <3>3. CASE \E r : /\ rows' = [rows EXCEPT ![c] = r]
                      /\ unsaid' = IF r = rows[c] THEN unsaid ELSE unsaid \cup {c}
      BY <3>1, <3>3 DEF ToldInv
    <3> QED BY <2>3, <3>2, <3>3 DEF ScopeApiKey
  <2>4. CASE Restart
    BY <2>4 DEF Restart, ToldInv
  <2>5. CASE UNCHANGED vars
    BY <2>5 DEF vars, notes, ToldInv
  <2> QED BY <2>1, <2>2, <2>3, <2>4, <2>5 DEF Next
<1> QED BY <1>1, <1>2, TypeCorrect, FreshCorrect, PTL DEF Spec

-----------------------------------------------------------------------------
(* The documents of a chat                                                 *)

\* Which chats are being rolled back, after p has moved on to k.
LEMMA RollingMoves ==
  ASSUME JobsOK, NEW p \in Procs, NEW k, Moves(p, k), NEW c
  PROVE  RollingBack(c)' <=>
           \/ k # Idle /\ k.at \in {"delhook", "delrow"} /\ k.op = "add" /\ k.chat = c
           \/ \E q \in Procs : /\ q # p
                               /\ At(q, "delhook") \/ At(q, "delrow")
                               /\ Chat(q) = c /\ job[q].op = "add"
<1>1. \A q \in Procs : q # p =>
        /\ \A ph : At(q, ph)' <=> At(q, ph)
        /\ Busy(q) => job'[q].chat = job[q].chat /\ job'[q].op = job[q].op
  BY StaySame DEF Moves
<1>2. /\ job'[p] = k
      /\ \A ph : At(p, ph)' <=> k # Idle /\ k.at = ph
  BY DEF Moves, At, Busy
<1>3. \A q, ph : At(q, ph) => Busy(q)
  BY DEF At
<1> QED BY <1>1, <1>2, <1>3 DEF RollingBack, Chat

\* A phase stays pending while another process takes a step.
LEMMA PendingStays ==
  ASSUME JobsOK, NEW p \in Procs, NEW k, Moves(p, k), NEW ph, NEW c,
         ~At(p, ph), Pending(c, ph)
  PROVE  Pending(c, ph)'
<1>1. PICK q \in Procs : q # p /\ At(q, ph) /\ Chat(q) = c
  BY DEF Pending
<1> QED BY <1>1, PendingMoves

\* A step that hands the engine nothing and takes no row away keeps the documents in
\* order, unless its handler was about to drop some, or begins a rollback.
LEMMA DocsKept ==
  ASSUME JobsOK, DocsInv, NEW p \in Procs, NEW k, Moves(p, k),
         docs' = docs, left \subseteq left', ~At(p, "drop"),
         \A d \in Chats : rows'[d] = NoRow => rows[d] = NoRow,
         k # Idle /\ k.at \in {"delhook", "delrow"} /\ k.op = "add" => RollingBack(k.chat)
  PROVE  DocsInv'
<1>1. ASSUME NEW d \in Chats \ left', docs[d] # {}, rows'[d] = NoRow
      PROVE  Pending(d, "drop")'
  BY <1>1, PendingStays DEF DocsInv
<1>2. ASSUME NEW d \in Chats \ left', RollingBack(d)' PROVE docs[d] = {}
  <2>1. RollingBack(d)
    BY <1>2, RollingMoves DEF RollingBack
  <2> QED BY <2>1 DEF DocsInv
<1> QED BY <1>1, <1>2 DEF DocsInv

\* A handler leaves a chat without a row, or is about to drop the chat's documents.
LEMMA DeleteRowDocs ==
  ASSUME TypeOK, DocsInv, NEW p \in Procs, DeleteRow(p)
  PROVE  DocsInv'
<1> DEFINE c == Chat(p)
           k == AfterDeleted(job[p])
<1>1. Busy(p) /\ job[p].at = "delrow" /\ At(p, "delrow") /\ ~At(p, "drop")
  BY DEF DeleteRow, At
<1>2. /\ JobsOK /\ c \in Chats /\ rows \in [Chats -> Rows \cup {NoRow}]
      /\ job[p].op \in {"add", "del"}
  BY <1>1, BusyType DEF Sound, JobOK
<1>3. /\ rows' = [rows EXCEPT ![c] = NoRow] /\ docs' = docs /\ left' = left
      /\ Moves(p, k) /\ (k # Idle => k.at = "drop" /\ k.chat = c)
      /\ job[p].op = "del" => k # Idle
  BY DeleteRowGoes DEF DeleteRow, Goes
<1> HIDE DEF k
<1>4. ASSUME NEW d \in Chats \ left' PROVE RollingBack(d)' => docs[d] = {}
  <2>1. RollingBack(d)' => RollingBack(d)
    BY <1>2, <1>3, RollingMoves DEF RollingBack
  <2> QED BY <1>3, <1>4, <2>1 DEF DocsInv
<1>5. ASSUME NEW d \in Chats \ left', docs[d] # {}, rows'[d] = NoRow
      PROVE  Pending(d, "drop")'
  <2>1. CASE d # c
    <3>1. Pending(d, "drop")
      BY <1>2, <1>3, <1>5, <2>1 DEF DocsInv
    <3> QED BY <1>1, <1>2, <1>3, <3>1, PendingStays
  <2>2. CASE d = c /\ job[p].op = "del"
    BY <1>2, <1>3, <2>2, PendingMoves
  <2>3. CASE d = c /\ job[p].op = "add"
    <3>1. RollingBack(d)
      BY <1>1, <2>3 DEF RollingBack
    <3> QED BY <1>3, <1>5, <3>1 DEF DocsInv
  <2> QED BY <1>2, <2>1, <2>2, <2>3
<1> QED BY <1>3, <1>4, <1>5 DEF DocsInv

\* The documents of a chat are dropped, or the engine refuses and they are left.
LEMMA DropDocs ==
  ASSUME TypeOK, DocsInv, NEW p \in Procs, DropDocuments(p) \/ DropFail(p)
  PROVE  DocsInv'
<1> DEFINE c == Chat(p)
<1>1. Busy(p) /\ rows' = rows
  BY DEF DropDocuments, DropFail, At, store
<1>2. JobsOK /\ c \in Chats /\ docs \in [Chats -> SUBSET Msgs]
  BY <1>1, BusyType, TypeParts DEF Parts
<1>3. PICK k : Moves(p, k) /\ (k # Idle => k.chat = c)
  BY DroppedGoes DEF Goes
<1>4. \A d \in Chats \ {c} : docs'[d] = docs[d] /\ (d \in left <=> d \in left')
  BY <1>2 DEF DropDocuments, DropFail
<1>5. c \notin left' => docs'[c] = {}
  BY <1>2 DEF DropDocuments, DropFail
<1>6. ASSUME NEW d \in Chats \ left', d # c
      PROVE  /\ docs'[d] # {} /\ rows'[d] = NoRow => Pending(d, "drop")'
             /\ RollingBack(d)' => docs'[d] = {}
  <2>1. Pending(d, "drop") => Pending(d, "drop")'
    BY <1>2, <1>3, <1>6, PendingMoves DEF Pending
  <2>2. RollingBack(d)' => RollingBack(d)
    BY <1>2, <1>3, <1>6, RollingMoves DEF RollingBack
  <2> QED BY <1>1, <1>4, <1>6, <2>1, <2>2 DEF DocsInv
<1> QED BY <1>5, <1>6 DEF DocsInv

\* Documents are handed in past a row's removal only by an overtaken handler.
LEMMA AddDocs ==
  ASSUME TypeOK, FreshInv, DocsInv, NEW p \in Procs, NEW k, Goes(p, k),
         At(p, "import") \/ At(p, "index"), k = Idle \/ k = job[p],
         rows' = rows, NEW m, AddDocuments(p, m)
  PROVE  DocsInv'
<1> DEFINE c == Chat(p)
<1>1. Busy(p) /\ ~At(p, "drop") /\ ~At(p, "delhook") /\ ~At(p, "delrow")
      /\ job[p].at \in {"import", "index"} /\ Moves(p, k)
  BY DEF At, Goes
<1>2. /\ JobsOK /\ c \in Chats /\ docs \in [Chats -> SUBSET Msgs]
      /\ job[p].fresh => Fits(job[p], rows[c], torn)
  BY <1>1, BusyType, FreshFits, TypeParts DEF Parts
<1>3. /\ docs' = [docs EXCEPT ![c] = @ \cup {m}]
      /\ left \subseteq left'
      /\ c \notin left' => ~RollingBack(c) /\ ~(rows[c] = NoRow /\ ~job[p].fresh)
  BY DEF AddDocuments
<1>4. k = Idle \/ k.at \in {"import", "index"}
  BY <1>1
<1>5. ASSUME NEW d \in Chats \ left'
      PROVE  /\ docs'[d] # {} /\ rows'[d] = NoRow => Pending(d, "drop")'
             /\ RollingBack(d)' => docs'[d] = {}
  <2>1. Pending(d, "drop") => Pending(d, "drop")'
    BY <1>1, <1>2, PendingStays
  <2>2. RollingBack(d)' => RollingBack(d)
    BY <1>1, <1>2, <1>4, RollingMoves DEF RollingBack
  <2>3. CASE d = c
    <3>1. rows[c] # NoRow /\ ~RollingBack(c)
      BY <1>1, <1>2, <1>3, <1>5, <2>3, NoRowNotRow DEF Fits, NoRow
    <3> QED BY <2>2, <2>3, <3>1
  <2>4. CASE d # c
    BY <1>2, <1>3, <1>5, <2>1, <2>2, <2>4 DEF DocsInv
  <2> QED BY <2>3, <2>4
<1> QED BY <1>5 DEF DocsInv

\* Every step of a handler keeps the documents in order.
LEMMA StepDocs ==
  ASSUME TypeOK, FreshInv, DocsInv, NEW p \in Procs, Step(p)
  PROVE  DocsInv'
<1>0. JobsOK /\ rows \in [Chats -> Rows \cup {NoRow}] /\ Busy(p) /\ Sound(job[p])
      /\ docs \in [Chats -> SUBSET Msgs]
  BY TypeParts, StepGoes, BusyType DEF Parts
<1>1. CASE SaveUpdate(p) \/ SaveInsert(p)
  <2>1. ~At(p, "drop") /\ docs' = docs /\ left' = left
    BY <1>1 DEF SaveUpdate, SaveInsert, At
  <2>2. \E k, r : /\ Moves(p, k)
                  /\ k = Idle \/ k.at \notin {"delhook", "delrow"}
                  /\ rows' = rows \/ (r \in Rows /\ rows' = [rows EXCEPT ![Chat(p)] = r])
    BY <1>0, <1>1, SaveUpdateGoes, SaveInsertGoes, SavedSound DEF Goes
  <2> QED BY <1>0, <2>1, <2>2, DocsKept, NoRowNotRow
<1>2. CASE SaveFail(p)
  <2>1. /\ ~At(p, "drop") /\ docs' = docs /\ left' = left /\ rows' = rows
    BY <1>2 DEF SaveFail, At, notes
  <2>2. \E k : Moves(p, k) /\ (k = Idle \/ k.at \notin {"delhook", "delrow"})
    BY <1>0, <1>2, SaveFailGoes, RefusedSound DEF Goes
  <2> QED BY <1>0, <2>1, <2>2, DocsKept
<1>3. CASE DeleteHook(p)
  <2>1. /\ ~At(p, "drop") /\ docs' = docs /\ left' = left /\ rows' = rows
        /\ At(p, "delhook")
    BY <1>3 DEF DeleteHook, At, notes
  <2>2. \E k : Moves(p, k) /\ k.op = job[p].op /\ k.chat = Chat(p)
    <3>1. JobAt(job[p], "delrow") # Idle
      BY <1>0, JobAtSame DEF Sound, Phases
    <3> QED BY <1>3, <3>1, DeleteHookGoes DEF Goes
  <2>3. job[p].op = "add" => RollingBack(Chat(p))
    BY <2>1 DEF RollingBack
  <2> QED BY <1>0, <2>1, <2>2, <2>3, DocsKept
<1>4. CASE DeleteRow(p)
  BY <1>4, DeleteRowDocs
<1>5. CASE DeleteFail(p)
  <2>1. /\ ~At(p, "drop") /\ docs' = docs /\ left' = left /\ rows' = rows /\ Moves(p, Idle)
    BY <1>5, DeleteFailGoes DEF DeleteFail, At, notes, Goes
  <2> QED BY <1>0, <2>1, DocsKept
<1>6. CASE DropDocuments(p) \/ DropFail(p)
  BY <1>6, DropDocs
<1>7. CASE \/ ImportDone(p) \/ ImportFail(p)
           \/ PtsGet(p) \/ Gate(p) \/ HandlerGet(p)
           \/ MemberGet(p) \/ SkipMessage(p) \/ DeleteHandlerGet(p)
  <2>1. ~At(p, "drop") /\ docs' = docs /\ left' = left /\ rows' = rows
    BY <1>7, QuietGoes DEF At, notes, store
  <2>2. \E k : Moves(p, k) /\ (k = Idle \/ k.at \notin {"delhook", "delrow"})
    BY <1>7, QuietGoes DEF Goes
  <2> QED BY <1>0, <2>1, <2>2, DocsKept
<1>8. CASE MemberHook(p)
  <2>1. ~At(p, "drop") /\ docs' = docs /\ left' = left /\ rows' = rows
    BY <1>8, MemberHookGoes DEF At, notes, MemberHook
  <2>2. \E k : Moves(p, k) /\ k.at = "index"
    BY <1>8, MemberHookGoes DEF Goes
  <2> QED BY <1>0, <2>1, <2>2, DocsKept
<1>9. CASE IndexMessage(p) \/ \E m \in Msgs : ImportBatch(p, m)
  <2>1. /\ rows' = rows /\ (At(p, "import") \/ At(p, "index"))
        /\ \E m : AddDocuments(p, m)
    BY <1>9 DEF IndexMessage, ImportBatch, store
  <2>2. PICK k : Goes(p, k) /\ (k = Idle \/ k = job[p])
    BY <1>9, DocsGoes
  <2> QED BY <2>1, <2>2, AddDocs
<1>10. CASE PurgeMessage(p)
  <2>1. /\ rows' = rows /\ left' = left /\ ~At(p, "drop") /\ Chat(p) \in Chats
        /\ docs' = [docs EXCEPT ![Chat(p)] = @ \ {job[p].msg}]
    BY <1>0, <1>10, BusyType DEF PurgeMessage, At, store, notes
  <2>2. Moves(p, Idle)
    BY <1>0, <1>10, <2>1, FinishGoes DEF PurgeMessage, Goes
  <2>3. \A d \in Chats : docs'[d] \subseteq docs[d]
    BY <1>0, <2>1
  <2>4. ASSUME NEW d \in Chats
        PROVE  (Pending(d, "drop") => Pending(d, "drop")') /\ (RollingBack(d)' => RollingBack(d))
    BY <1>0, <2>1, <2>2, PendingMoves, RollingMoves DEF Pending, RollingBack
  <2> QED BY <2>1, <2>3, <2>4 DEF DocsInv
<1> QED BY <1>1, <1>2, <1>3, <1>4, <1>5, <1>6, <1>7, <1>8, <1>9, <1>10 DEF Step

\* The engine holds documents of registered chats only, or is about to be told to
\* drop them, but where one was handed in late or a drop was refused or cut short.
THEOREM DocumentsHaveRows == Spec => []DocsHaveRows
<1>1. Init => DocsInv
  BY DEF Init, DocsInv, RollingBack, At, Busy
<1>2. TypeOK /\ FreshInv /\ DocsInv /\ [Next]_vars => DocsInv'
  <2> SUFFICES ASSUME TypeOK, FreshInv, DocsInv, [Next]_vars PROVE DocsInv'
    OBVIOUS
  <2>0. JobsOK /\ rows \in [Chats -> Rows \cup {NoRow}]
    BY TypeParts DEF Parts
  <2>1. CASE Begin
    <3>1. Begun
      BY <2>1, BeginGoes
    <3>2. PICK p \in Procs : \E k : Begins(p, k)
      BY <3>1 DEF Begun
    <3>3. PICK k : Begins(p, k)
      BY <3>2
    <3>4. rows' = rows /\ docs' = docs /\ left' = left /\ ~At(p, "drop")
      BY <3>1, <3>3 DEF Begun, Begins, store, notes, Free, At, Busy
    <3> QED BY <2>0, <3>3, <3>4, DocsKept DEF Begins
  <2>2. CASE \E p \in Procs : Step(p)
    BY <2>2, StepDocs
  <2>3. ASSUME NEW c \in Chats, ScopeApiKey(c) PROVE DocsInv'
    <3>1. /\ \A q \in Procs : Stays(q)
          /\ docs' = docs /\ left' = left
      BY <2>3, ScopeApiKeyStays DEF ScopeApiKey
    <3>2. \A d \in Chats : rows'[d] = NoRow => rows[d] = NoRow
      BY <2>0, <2>3 DEF ScopeApiKey, Inserted
    <3>3. \A d : /\ Pending(d, "drop")' <=> Pending(d, "drop")
                 /\ RollingBack(d)' <=> RollingBack(d)
      BY <2>0, <3>1, StaySame DEF Pending, RollingBack, At, Chat
    <3> QED BY <3>1, <3>2, <3>3 DEF DocsInv
  <2>4. CASE Restart
    <3>1. \A c : ~RollingBack(c)'
      BY <2>4 DEF Restart, RollingBack, At, Busy
    <3> QED BY <2>4, <3>1 DEF Restart, DocsInv
  <2>5. CASE UNCHANGED vars
    BY <2>5 DEF vars, notes, DocsInv, RollingBack, Pending, At, Busy, Chat
  <2> QED BY <2>1, <2>2, <2>3, <2>4, <2>5 DEF Next
<1>3. DocsInv => DocsHaveRows
  BY DEF DocsInv, DocsHaveRows
<1> QED BY <1>1, <1>2, <1>3, TypeCorrect, FreshCorrect, PTL DEF Spec

-----------------------------------------------------------------------------
(* What is watched in the table is let through the gate                    *)

\* The outstanding statements of a chat stay as they are when p takes a step, if p
\* works on another chat, or neither leaves nor enters such a statement.
LEMMA StatementsKept ==
  ASSUME JobsOK, NEW p \in Procs, NEW k, Moves(p, k), NEW d,
         \A ph \in {"insert", "delrow"} :
           /\ ~(At(p, ph) /\ Chat(p) = d)
           /\ ~(k # Idle /\ k.at = ph /\ k.chat = d)
  PROVE  /\ Pending(d, "insert")' <=> Pending(d, "insert")
         /\ Pending(d, "delrow")' <=> Pending(d, "delrow")
         /\ InsertsWatch(d)' <=> InsertsWatch(d)
         /\ Inserting(d)' => Inserting(d)
<1>1. \A q \in Procs : q # p =>
        /\ At(q, "insert")' <=> At(q, "insert")
        /\ Busy(q) => /\ job'[q].chat = job[q].chat /\ job'[q].row = job[q].row
                      /\ job'[q].fresh => job[q].fresh
  BY StaySame DEF Moves
<1>2. /\ job'[p] = k
      /\ At(p, "insert")' <=> k # Idle /\ k.at = "insert"
  BY DEF Moves, At, Busy
<1>3. \A q : At(q, "insert") => Busy(q)
  BY DEF At
<1>4. Inserting(d)' => Inserting(d)
  BY <1>1, <1>2, <1>3 DEF Inserting, Chat
<1>5. InsertsWatch(d)' <=> InsertsWatch(d)
  BY <1>1, <1>2, <1>3 DEF InsertsWatch, Chat
<1>6. ASSUME NEW ph \in {"insert", "delrow"}
      PROVE  Pending(d, ph)' <=> Pending(d, ph)
  <2>1. Pending(d, ph)' <=> \E q \in Procs : q # p /\ At(q, ph) /\ Chat(q) = d
    BY <1>6, PendingMoves
  <2>2. Pending(d, ph) <=> \E q \in Procs : q # p /\ At(q, ph) /\ Chat(q) = d
    BY <1>6 DEF Pending
  <2> QED BY <2>1, <2>2
<1> QED BY <1>4, <1>5, <1>6

\* The gate of a chat stays as it is when nothing that it rests on changes.
LEMMA GateKept ==
  ASSUME JobsOK, GateInv, NEW p \in Procs, NEW k, Moves(p, k),
         NEW d \in Chats \ (torn \cup unsaid),
         \A ph \in {"insert", "delrow"} :
           /\ ~(At(p, ph) /\ Chat(p) = d)
           /\ ~(k # Idle /\ k.at = ph /\ k.chat = d),
         rows'[d] = rows[d], d \in watchedChatsID => d \in watchedChatsID'
  PROVE  GateOpen(d)'
<1>1. GateOpen(d)
  BY DEF GateInv
<1> QED BY <1>1, StatementsKept DEF GateOpen

\* The gate of every other chat.
LEMMA GateOthers ==
  ASSUME JobsOK, GateInv, NEW p \in Procs, NEW k, Goes(p, k),
         NEW d \in Chats \ (torn \cup unsaid), d # Chat(p),
         rows'[d] = rows[d], d \in watchedChatsID => d \in watchedChatsID'
  PROVE  GateOpen(d)'
BY GateKept DEF Goes

\* A chat with a row is not about to be inserted by a fresh handler.
LEMMA NoRowInserting ==
  ASSUME FreshInv', NEW c, Inserting(c)'
  PROVE  rows'[c] = NoRow
<1>1. PICK p \in Procs : At(p, "insert")' /\ Chat(p)' = c /\ job'[p].fresh
  BY DEF Inserting
<1>2. Fits(job'[p], rows'[c], torn') /\ job'[p].at = "insert"
  BY <1>1 DEF At, FreshInv
<1> QED BY <1>2 DEF Fits

\* The first statement of a Save opens or closes the gate with its hook.
LEMMA SaveUpdateGate ==
  ASSUME TypeOK, FreshInv', GateInv, NEW p \in Procs, SaveUpdate(p)
  PROVE  GateInv'
<1> DEFINE c == Chat(p)
           r == job[p].row
<1>1. Busy(p) /\ JobsOK /\ c \in Chats /\ r \in Rows /\ r # NoRow /\ Sound(job[p])
      /\ rows \in [Chats -> Rows \cup {NoRow}]
  BY BusyType, SaveUpdateGoes, NoRowNotRow DEF SaveUpdate, At
<1>2. /\ watchedChatsID' = IF "watching" \in r THEN watchedChatsID \cup {c}
                                               ELSE watchedChatsID \ {c}
      /\ torn \subseteq torn' /\ unsaid \subseteq unsaid'
  BY DEF SaveUpdate, AfterSave, NoteOverlap, NoteWrite
<1>3. PICK k : /\ Goes(p, k)
               /\ rows[c] = NoRow => rows' = rows /\ k = JobAt(job[p], "insert")
               /\ rows[c] # NoRow => rows' = [rows EXCEPT ![c] = r]
  BY SaveUpdateGoes
<1>4. ASSUME NEW d \in Chats \ (torn' \cup unsaid'), d # c PROVE GateOpen(d)'
  <2>1. rows'[d] = rows[d] /\ (d \in watchedChatsID => d \in watchedChatsID')
    BY <1>1, <1>2, <1>3, <1>4
  <2> QED BY <1>1, <1>2, <1>3, <1>4, <2>1, GateOthers
<1>5. ASSUME NEW d, d = c, "watching" \notin r, rows[c] # NoRow PROVE GateOpen(d)'
  <2>1. rows'[d] = r
    BY <1>1, <1>3, <1>5
  <2>2. ~Inserting(d)'
    BY <1>1, <2>1, NoRowInserting
  <2> QED BY <1>5, <2>1, <2>2 DEF GateOpen
<1>6. ASSUME NEW d, d = c, "watching" \notin r, rows[c] = NoRow PROVE GateOpen(d)'
  <2>1. /\ job'[p] = JobAt(job[p], "insert")
        /\ job'[p] # Idle /\ job'[p].at = "insert" /\ job'[p].chat = c /\ job'[p].row = r
    BY <1>1, <1>3, <1>6, JobAtSame DEF Goes, Moves, Sound, Phases, Chat
  <2>2. ~InsertsWatch(d)'
    BY <1>6, <2>1 DEF InsertsWatch, At, Busy, Chat
  <2> QED BY <2>2 DEF GateOpen
<1>7. ASSUME NEW d, d = c, "watching" \in r PROVE GateOpen(d)'
  BY <1>2, <1>7 DEF GateOpen
<1> QED BY <1>4, <1>5, <1>6, <1>7 DEF GateInv

\* The hook has let the chat through before its INSERT.
LEMMA SaveInsertGate ==
  ASSUME TypeOK, FreshInv, GateInv, NEW p \in Procs, SaveInsert(p)
  PROVE  GateInv'
<1> DEFINE c == Chat(p)
<1>1. Busy(p) /\ At(p, "insert") /\ job[p].at = "insert"
  BY DEF SaveInsert, At
<1>2. /\ JobsOK /\ c \in Chats /\ Sound(job[p]) /\ rows \in [Chats -> Rows \cup {NoRow}]
      /\ job[p].fresh => Fits(job[p], rows[c], torn)
  BY <1>1, BusyType, FreshFits
<1>3. /\ watchedChatsID' = watchedChatsID /\ torn \subseteq torn' /\ unsaid \subseteq unsaid'
      /\ c \notin unsaid' => job[p].fresh
      /\ rows' = [rows EXCEPT ![c] = Inserted(job[p].row)]
  BY SaveInsertGoes DEF SaveInsert, NoteOverlap, NoteWrite
<1>4. PICK k : Goes(p, k) /\ (k = Idle \/ k.at \notin {"insert", "delrow"})
  BY <1>2, SaveInsertGoes, SavedSound
<1>5. ASSUME NEW d \in Chats \ (torn' \cup unsaid'), d # c PROVE GateOpen(d)'
  <2>1. rows'[d] = rows[d]
    BY <1>2, <1>3, <1>5
  <2> QED BY <1>2, <1>3, <1>4, <1>5, <2>1, GateOthers
<1>6. ASSUME NEW d, d = c, d \notin torn' \cup unsaid', InsertsWatch(d)', ~Pending(d, "delrow")'
      PROVE  d \in watchedChatsID'
  <2>1. Inserting(c) /\ "watching" \in job[p].row
    BY <1>1, <1>2, <1>3, <1>6 DEF Inserting, Fits
  <2>2. ~Pending(d, "delrow")
    BY <1>1, <1>2, <1>4, <1>6, PendingStays DEF Goes, At
  <2>3. InsertsWatch(d)
    <3>1. \A q \in Procs : q # p /\ At(q, "insert") =>
            At(q, "insert")' /\ job'[q].chat = job[q].chat /\ job'[q].row = job[q].row
      BY <1>2, <1>4, StaySame DEF Goes, Moves, At
    <3> QED BY <1>6, <2>1, <3>1 DEF InsertsWatch, Chat
  <2>4. GateOpen(d)
    BY <1>2, <1>3, <1>6 DEF GateInv
  <2> QED BY <1>3, <1>6, <2>1, <2>2, <2>3, <2>4 DEF GateOpen
<1> QED BY <1>5, <1>6 DEF GateInv, GateOpen

\* The statement of a delete leaves no row that the gate should let through.
LEMMA DeleteRowGate ==
  ASSUME TypeOK, CacheInv, GateInv, NEW p \in Procs, DeleteRow(p)
  PROVE  GateInv'
<1> DEFINE c == Chat(p)
<1>1. Busy(p) /\ At(p, "delrow") /\ ~At(p, "insert")
  BY DEF DeleteRow, At
<1>2. JobsOK /\ c \in Chats /\ rows \in [Chats -> Rows \cup {NoRow}]
  BY <1>1, BusyType
<1>3. /\ watchedChatsID' = watchedChatsID /\ torn' = torn
      /\ \A d \in Chats \ {c} : d \in unsaid => d \in unsaid'
      /\ rows' = [rows EXCEPT ![c] = NoRow]
  BY DeleteRowGoes DEF DeleteRow
<1>4. PICK k : Goes(p, k) /\ (k = Idle \/ k.at = "drop")
  BY DeleteRowGoes
<1>5. ASSUME NEW d \in Chats \ (torn' \cup unsaid'), d # c PROVE GateOpen(d)'
  <2>1. rows'[d] = rows[d] /\ d \in Chats \ (torn \cup unsaid)
    BY <1>2, <1>3, <1>5
  <2> QED BY <1>2, <1>3, <1>4, <1>5, <2>1, GateOthers
<1>6. ASSUME NEW d, d = c, d \notin torn' PROVE GateOpen(d)'
  <2>1. ~Pending(d, "insert")
    BY <1>1, <1>2, <1>3, <1>6 DEF CacheInv, CachesAgree, Pending
  <2>2. ~Pending(d, "insert")'
    BY <1>1, <1>2, <1>4, <2>1, PendingKept DEF Goes
  <2>3. ~Inserting(d)'
    BY <2>2 DEF Inserting, Pending
  <2> QED BY <1>2, <1>3, <1>6, <2>3 DEF GateOpen
<1> QED BY <1>5, <1>6 DEF GateInv

\* The hook of the sender's association keeps the gate, or the chat is torn.
LEMMA MemberHookGate ==
  ASSUME TypeOK, FreshInv', GateInv, NEW p \in Procs, MemberHook(p)
  PROVE  GateInv'
<1> DEFINE c == Chat(p)
           r == job[p].row
<1>1. /\ Busy(p) /\ JobsOK /\ c \in Chats /\ rows' = rows
  BY MemberHookGoes, BusyType
<1>2. /\ watchedChatsID' = IF "watching" \in r THEN watchedChatsID \cup {c}
                                               ELSE watchedChatsID \ {c}
      /\ torn \subseteq torn' /\ unsaid' = unsaid
      /\ c \notin torn' => rows[c] # NoRow /\ ("watching" \in r <=> "watching" \in rows[c])
  BY DEF MemberHook, AfterSave, notes
<1>3. PICK k : Goes(p, k)
  BY MemberHookGoes
<1>4. ASSUME NEW d \in Chats \ (torn' \cup unsaid'), d # c PROVE GateOpen(d)'
  BY <1>1, <1>2, <1>3, <1>4, GateOthers
<1>5. ASSUME NEW d, d = c, d \notin torn' PROVE GateOpen(d)'
  <2>1. ~Inserting(d)'
    BY <1>1, <1>2, <1>5, NoRowInserting
  <2> QED BY <1>1, <1>2, <1>5, <2>1 DEF GateOpen
<1> QED BY <1>4, <1>5 DEF GateInv

\* Every step of a handler keeps the gate.
LEMMA StepGate ==
  ASSUME TypeOK, CacheInv, FreshInv, FreshInv', GateInv, NEW p \in Procs, Step(p)
  PROVE  GateInv'
<1>0. JobsOK /\ Busy(p) /\ Sound(job[p])
  BY StepGoes, BusyType
<1>1. CASE SaveUpdate(p) \/ SaveInsert(p) \/ DeleteRow(p) \/ MemberHook(p)
  BY <1>1, SaveUpdateGate, SaveInsertGate, DeleteRowGate, MemberHookGate
<1>2. ASSUME NEW k, Goes(p, k), rows' = rows, torn \subseteq torn', unsaid \subseteq unsaid',
             \A d \in Chats \ torn' : d \in watchedChatsID => d \in watchedChatsID',
             \/ Chat(p) \in torn'
             \/ /\ ~At(p, "insert") /\ ~At(p, "delrow")
                /\ k = Idle \/ k.at \notin {"insert", "delrow"}
      PROVE  GateInv'
  BY <1>0, <1>2, GateOthers, GateKept DEF GateInv, Goes
<1>3. CASE SaveFail(p)
  <2>1. \E k : Goes(p, k) /\ (k = Idle \/ k.at \notin {"insert", "delrow"}) /\ rows' = rows
    BY <1>0, <1>3, SaveFailGoes, RefusedSound
  <2>2. /\ unsaid' = unsaid /\ torn \subseteq torn' /\ ~At(p, "delrow")
        /\ \A d \in Chats \ torn' : d \in watchedChatsID => d \in watchedChatsID'
        /\ Chat(p) \in torn' \/ ~At(p, "insert")
    BY <1>3 DEF SaveFail, notes, AfterSave, At
  <2> QED BY <1>2, <2>1, <2>2
<1>4. CASE DeleteHook(p)
  <2> DEFINE c == Chat(p)
  <2>1. Goes(p, JobAt(job[p], "delrow")) /\ JobAt(job[p], "delrow").at = "delrow"
    BY <1>4, DeleteHookGoes
  <2>2. JobAt(job[p], "delrow") # Idle
    BY <1>0, JobAtSame DEF Sound, Phases
  <2>3. ASSUME NEW d, d = c PROVE Pending(d, "delrow")'
    BY <1>0, <2>1, <2>2, <2>3, PendingMoves DEF Goes
  <2>4. /\ rows' = rows /\ unsaid' = unsaid /\ torn \subseteq torn'
        /\ watchedChatsID' = watchedChatsID \ {c}
    BY <1>4 DEF DeleteHook, BeforeDelete, NoteOverlap, notes
  <2>5. ASSUME NEW d \in Chats \ (torn' \cup unsaid'), d # c PROVE GateOpen(d)'
    BY <1>0, <2>1, <2>4, <2>5, GateOthers
  <2> QED BY <2>3, <2>5 DEF GateInv, GateOpen
<1>5. CASE DeleteFail(p)
  <2>1. /\ Chat(p) \in torn' /\ torn \subseteq torn' /\ unsaid' = unsaid
        /\ watchedChatsID \subseteq watchedChatsID'
    BY <1>0, <1>5 DEF DeleteFail, notes
  <2>2. Goes(p, Idle) /\ rows' = rows
    BY <1>5, DeleteFailGoes
  <2> QED BY <1>2, <2>1, <2>2
<1>6. CASE DropDocuments(p) \/ DropFail(p)
  <2>1. /\ UNCHANGED <<store, unsaid>> /\ ~At(p, "insert") /\ ~At(p, "delrow")
    BY <1>6 DEF DropDocuments, DropFail, At
  <2> QED BY <1>2, <1>6, <2>1, DroppedGoes DEF store
<1>7. CASE \/ ImportDone(p) \/ ImportFail(p)
           \/ PtsGet(p) \/ Gate(p) \/ HandlerGet(p)
           \/ MemberGet(p) \/ SkipMessage(p) \/ DeleteHandlerGet(p)
  <2>1. /\ UNCHANGED <<store, unsaid>> /\ ~At(p, "insert") /\ ~At(p, "delrow")
    BY <1>7, QuietGoes DEF At, notes
  <2>2. \E k : Goes(p, k) /\ (k = Idle \/ k.at \notin {"insert", "delrow"})
    BY <1>7, QuietGoes
  <2> QED BY <1>2, <2>1, <2>2 DEF store
<1>8. CASE IndexMessage(p) \/ PurgeMessage(p) \/ \E m \in Msgs : ImportBatch(p, m)
  <2>1. /\ UNCHANGED <<store, unsaid>> /\ ~At(p, "insert") /\ ~At(p, "delrow")
    BY <1>8, DocsGoes DEF At, IndexMessage, PurgeMessage, ImportBatch
  <2>2. \E k : Goes(p, k) /\ (k = Idle \/ k = job[p])
    BY <1>8, DocsGoes
  <2> QED BY <1>0, <1>2, <2>1, <2>2 DEF store, At
<1> QED BY <1>1, <1>3, <1>4, <1>5, <1>6, <1>7, <1>8 DEF Step

\* A chat whose row says it is watched is let through the gate once no statement is
\* outstanding, unless it is torn or its row is unsaid.
THEOREM GateCorrect == Spec => []GateInv
<1>1. Init => GateInv
  BY DEF Init, GateInv, GateOpen, Inserting, At, Busy
<1>2. TypeOK /\ CacheInv /\ FreshInv /\ FreshInv' /\ GateInv /\ [Next]_vars => GateInv'
  <2> SUFFICES ASSUME TypeOK, CacheInv, FreshInv, FreshInv', GateInv, [Next]_vars
               PROVE  GateInv'
    OBVIOUS
  <2>0. JobsOK
    BY TypeParts DEF Parts
  <2>1. CASE Begin
    <3>1. Begun
      BY <2>1, BeginGoes
    <3>2. PICK p \in Procs : \E k : Begins(p, k)
      BY <3>1 DEF Begun
    <3>3. PICK k : Begins(p, k)
      BY <3>2
    <3>4. ~At(p, "insert") /\ ~At(p, "delrow") /\ UNCHANGED <<store, unsaid>>
      BY <3>1, <3>3 DEF Begun, Begins, notes, Free, At, Busy
    <3> QED BY <2>0, <3>3, <3>4, GateKept DEF Begins, GateInv, store
  <2>2. CASE \E p \in Procs : Step(p)
    BY <2>2, StepGate
  <2>3. ASSUME NEW c \in Chats, ScopeApiKey(c) PROVE GateInv'
    <3>1. /\ rows' = [rows EXCEPT ![c] = rows'[c]] /\ (\A q \in Procs : Stays(q))
          /\ watchedChatsID' = watchedChatsID \cup {c}
          /\ torn \subseteq torn' /\ unsaid \subseteq unsaid'
          /\ rows \in [Chats -> Rows \cup {NoRow}]
      BY <2>3, ScopeApiKeyStays DEF ScopeApiKey, AfterSave, Inserted, TypeOK
    <3>2. \A d : /\ Pending(d, "insert")' <=> Pending(d, "insert")
                 /\ Pending(d, "delrow")' <=> Pending(d, "delrow")
                 /\ InsertsWatch(d)' <=> InsertsWatch(d)
                 /\ Inserting(d)' => Inserting(d)
      BY <2>0, <3>1, StaySame DEF Pending, InsertsWatch, Inserting, At, Chat
    <3>3. ASSUME NEW d \in Chats \ (torn' \cup unsaid'), d # c PROVE GateOpen(d)'
      <4>1. GateOpen(d) /\ rows'[d] = rows[d]
        BY <3>1, <3>3 DEF GateInv
      <4> QED BY <3>1, <3>2, <4>1 DEF GateOpen
    <3>4. GateOpen(c)'
      BY <3>1 DEF GateOpen
    <3> QED BY <3>3, <3>4 DEF GateInv
  <2>4. CASE Restart
    <3>1. \A d : ~Inserting(d)'
      BY <2>4 DEF Restart, Inserting, At, Busy
    <3> QED BY <2>4, <3>1 DEF Restart, GateInv, GateOpen
  <2>5. CASE UNCHANGED vars
    BY <2>5 DEF vars, notes, GateInv, GateOpen, InsertsWatch, Inserting, Pending, At, Busy, Chat
  <2> QED BY <2>1, <2>2, <2>3, <2>4, <2>5 DEF Next
<1> QED BY <1>1, <1>2, TypeCorrect, CachesFollow, FreshCorrect, PTL DEF Spec

-----------------------------------------------------------------------------
(* What the admin was told holds                                           *)

\* The table says what the replies add up to, and the caches do too once no statement
\* is outstanding: for any number of handlers, but for the chats marked otherwise.
THEOREM CommandsLast == Spec => []CommandsStick
<1>1. TypeOK /\ CacheInv /\ ToldInv /\ GateInv => CommandsStick
  <2> SUFFICES ASSUME TypeOK, CacheInv, ToldInv, GateInv, NEW c \in Chats \ unsaid,
                      c \notin torn, Settled(c)
               PROVE  /\ c \in allChatIDs <=> rows[c] # NoRow
                      /\ c \in watchedChatsID <=> rows[c] # NoRow /\ "watching" \in rows[c]
    BY DEF CommandsStick, ToldInv
  <2>1. CachesAgree(c)
    BY DEF CacheInv
  <2>2. GateOpen(c) /\ InsertsWatch(c)
    BY DEF GateInv, Settled, Pending, InsertsWatch
  <2> QED BY <2>1, <2>2 DEF CachesAgree, GateOpen, Settled
<1> QED BY <1>1, TypeCorrect, CachesFollow, ToldCorrect, GateCorrect, PTL

\* Where the documents of a chat change.
LEMMA DocsChange ==
  ASSUME TypeOK, [Next]_vars, NEW c \in Chats
  PROVE  \/ docs'[c] = docs[c]
         \/ Pending(c, "drop") /\ docs'[c] = {}
         \/ \E p \in Procs : /\ At(p, "purge") /\ Chat(p) = c /\ Free(p)'
                             /\ docs'[c] \subseteq docs[c]
         \/ \E p \in Procs : /\ (At(p, "import") /\ job' = job) \/ (At(p, "index") /\ Free(p)')
                             /\ Chat(p) = c /\ docs[c] \subseteq docs'[c]
<1>1. CASE Begin
  BY <1>1, BeginGoes DEF Begun
<1>2. ASSUME NEW p \in Procs, Step(p), docs' # docs
      PROVE  \/ DropDocuments(p)
             \/ PurgeMessage(p)
             \/ IndexMessage(p)
             \/ \E m \in Msgs : ImportBatch(p, m)
  <2>1. ~(\/ ImportDone(p) \/ ImportFail(p) \/ PtsGet(p) \/ Gate(p) \/ HandlerGet(p)
          \/ MemberGet(p) \/ SkipMessage(p) \/ DeleteHandlerGet(p))
    BY <1>2, QuietGoes
  <2> QED BY <1>2, <2>1 DEF Step, SaveUpdate, SaveInsert, SaveFail, DeleteHook, DeleteRow,
             DeleteFail, DropFail, MemberHook
<1>3. ASSUME NEW p \in Procs, Busy(p)
      PROVE  /\ Chat(p) \in Chats /\ docs \in [Chats -> SUBSET Msgs]
             /\ job \in [Procs -> Jobs \cup {Idle}]
  BY <1>3, BusyType DEF TypeOK
<1>4. ASSUME NEW p \in Procs, DropDocuments(p), Chat(p) = c
      PROVE  Pending(c, "drop") /\ docs'[c] = {}
  BY <1>3, <1>4 DEF DropDocuments, At, Pending
<1>5. ASSUME NEW p \in Procs, PurgeMessage(p), Chat(p) = c
      PROVE  At(p, "purge") /\ Free(p)' /\ docs'[c] \subseteq docs[c]
  BY <1>3, <1>5 DEF PurgeMessage, At, Finish, Free
<1>6. ASSUME NEW p \in Procs, IndexMessage(p), Chat(p) = c
      PROVE  At(p, "index") /\ Free(p)' /\ docs[c] \subseteq docs'[c]
  BY <1>3, <1>6 DEF IndexMessage, AddDocuments, At, Finish, Free
<1>7. ASSUME NEW p \in Procs, NEW m \in Msgs, ImportBatch(p, m), Chat(p) = c
      PROVE  At(p, "import") /\ job' = job /\ docs[c] \subseteq docs'[c]
  BY <1>3, <1>7 DEF ImportBatch, AddDocuments, At
<1>8. ASSUME NEW p \in Procs, Chat(p) # c,
             \/ DropDocuments(p) \/ PurgeMessage(p) \/ IndexMessage(p)
             \/ \E m \in Msgs : ImportBatch(p, m)
      PROVE  docs'[c] = docs[c]
  BY <1>3, <1>8 DEF DropDocuments, PurgeMessage, IndexMessage, ImportBatch, AddDocuments, At
<1>9. CASE \E p \in Procs : Step(p)
  BY <1>2, <1>4, <1>5, <1>6, <1>7, <1>8, <1>9
<1>10. CASE (\E d \in Chats : ScopeApiKey(d)) \/ Restart \/ UNCHANGED vars
  BY <1>10 DEF ScopeApiKey, Restart, vars
<1> QED BY <1>1, <1>9, <1>10 DEF Next

\* A chat under /unwatchdel loses no document to a deletion on Telegram, unless the
\* handler of the deletion had read the row before the command.
THEOREM ProtectionHolds == Spec => ProtectedDocuments
<1>1. ASSUME TypeOK, FreshInv, ToldInv, [Next]_vars, NEW c \in Chats \ unsaid,
             told[c] # NoRow, "nodelete" \in told[c], ~(docs[c] \subseteq docs'[c])
      PROVE  (docs'[c] = {} /\ Pending(c, "drop")) \/ StaleStep(c, {"purge"})
  <2>1. CASE \E p \in Procs : /\ At(p, "purge") /\ Chat(p) = c /\ Free(p)'
                              /\ docs'[c] \subseteq docs[c]
    <3>1. PICK p \in Procs : At(p, "purge") /\ Chat(p) = c /\ Free(p)'
      BY <2>1
    <3>2. job[p].fresh => Fits(job[p], rows[c], torn)
      BY <1>1, <3>1, FreshFits DEF At
    <3>3. ~job[p].fresh
      BY <1>1, <3>1, <3>2 DEF Fits, ToldInv, At
    <3> QED BY <3>1, <3>3 DEF StaleStep
  <2> QED BY <1>1, <2>1, DocsChange
<1>2. TypeOK /\ FreshInv /\ ToldInv /\ [Next]_vars =>
        \A c \in Chats \ unsaid :
          told[c] # NoRow /\ "nodelete" \in told[c] /\ ~(docs[c] \subseteq docs'[c])
            => (docs'[c] = {} /\ Pending(c, "drop")) \/ StaleStep(c, {"purge"})
  BY <1>1
<1> QED BY <1>2, TypeCorrect, FreshCorrect, ToldCorrect, PTL DEF Spec, ProtectedDocuments

\* A chat the admin was told is unwatched gains no document, unless from a handler that
\* had passed the gate, or begun to import, before.
THEOREM UnwatchedStayAsTheyAre == Spec => UnwatchedGainNothing
<1>1. ASSUME TypeOK, FreshInv, ToldInv, [Next]_vars, NEW c \in Chats \ (torn \cup unsaid),
             told[c] # NoRow, "watching" \notin told[c], ~(docs'[c] \subseteq docs[c])
      PROVE  StaleStep(c, {"index", "import"})
  <2>1. CASE \E p \in Procs : /\ (At(p, "import") /\ job' = job) \/ (At(p, "index") /\ Free(p)')
                              /\ Chat(p) = c /\ docs[c] \subseteq docs'[c]
    <3>1. PICK p \in Procs : /\ (At(p, "import") /\ job' = job) \/ (At(p, "index") /\ Free(p)')
                             /\ Chat(p) = c
      BY <2>1
    <3>2. /\ job[p].fresh => Fits(job[p], rows[c], torn)
          /\ Sound(job[p]) /\ job[p].chat = c
      BY <1>1, <3>1, FreshFits, BusyType DEF At, Chat
    <3>3. job[p].at = "index" => job[p].op = "message"
      BY <3>2 DEF Sound, JobOK
    <3>4. ~job[p].fresh
      BY <1>1, <3>1, <3>2, <3>3 DEF Fits, ToldInv, At
    <3> QED BY <3>1, <3>4 DEF StaleStep
  <2> QED BY <1>1, <2>1, DocsChange
<1>2. TypeOK /\ FreshInv /\ ToldInv /\ [Next]_vars =>
        \A c \in Chats \ (torn \cup unsaid) :
          told[c] # NoRow /\ "watching" \notin told[c]
            => docs'[c] \subseteq docs[c] \/ StaleStep(c, {"index", "import"})
  BY <1>1
<1> QED BY <1>2, TypeCorrect, FreshCorrect, ToldCorrect, PTL DEF Spec, UnwatchedGainNothing
=============================================================================
