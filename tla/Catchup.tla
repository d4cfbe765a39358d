------------------------------- MODULE Catchup -------------------------------
(***************************************************************************)
(* How the user client follows Telegram's message boxes                    *)
(* (userclient/updates.go, client.go): SyncMissedUpdates at the start, the *)
(* goroutines that catch up with single channels, and the live handlers,   *)
(* all of which move a stored pts and put messages into the search engine. *)
(*                                                                         *)
(* A box is a log of events, and pts is a position in it.  An event is the *)
(* post of a message, which is then known by the event's position, or the  *)
(* deletion of the message it names.  Every chat here is a watched one.    *)
(***************************************************************************)
EXTENDS Naturals, Sequences

CONSTANTS
  Channels,   \* channels, each a box of its own
  Common,     \* the box that private chats share
  SliceSize,  \* events the server puts into a slice of the difference
  PageSize,   \* events the server puts into a channel difference
  Faults,     \* a subset of FaultKinds: what may fail
  MaxEvents,  \* how many events happen
  MaxStops    \* how often the process ends

\* An RPC, the engine or a Save fails, the process is killed at any moment, or
\* the server answers a gap of several events with a jump to the present.
FaultKinds == {"api", "engine", "save", "kill", "jump"}

ASSUME BoxAssumption == Common \notin Channels
ASSUME SizeAssumption == SliceSize \in Nat \ {0} /\ PageSize \in Nat \ {0}
ASSUME BoundAssumption ==
  Faults \subseteq FaultKinds /\ MaxEvents \in Nat /\ MaxStops \in Nat

Boxes == Channels \cup {Common}

VARIABLES
  log,    \* the server's event log of each box
  state,  \* table updates_state: pts of the common box, and what Date tells
          \* the server: the length of every channel's log at that time
  pts,    \* column index_chats.pts of each channel
  docs,   \* the messages of each box in the engine
  mode,   \* the process is down, in SyncMissedUpdates, or live
  sync,   \* where SyncMissedUpdates is, with its copy of the state
  bg,     \* the goroutine of each channel in syncChannelDifference
  live,   \* live updates whose handlers have not ended
  waived, \* history: messages the code has no means to index, or gave up on
  events, stops

vars == <<log, state, pts, docs, mode, sync, bg, live, waived, events, stops>>

Post == 0
IsPost(b, i) == log[b][i] = Post
Now(b) == Len(log[b])

\* The messages that the events after position lo, up to hi, are about.
About(b, lo, hi) == {IF IsPost(b, i) THEN i ELSE log[b][i] : i \in (lo + 1)..hi}

Posted(b)  == {i \in 1..Now(b) : IsPost(b, i)}
Deleted(b) == {log[b][i] : i \in 1..Now(b)} \ {Post}

Seen == [c \in Channels |-> Now(c)]  \* what the server's date stands for

Asleep == [at |-> "off", pts |-> 0, date |-> [c \in Channels |-> 0],
           upto |-> 0, tell |-> {}, more |-> FALSE]
Resting == [at |-> "off", base |-> 0, pts |-> 0, upto |-> 0, new |-> {}, gone |-> {},
            more |-> FALSE]

Waive(b, msgs) == waived' = [waived EXCEPT ![b] = @ \cup msgs]
SyncAt(ph)     == mode = "sync" /\ sync.at = ph
BgAt(c, ph)    == mode # "down" /\ bg[c].at = ph

-----------------------------------------------------------------------------
(* The server                                                              *)

\* Updates reach handlers only once StartWatch has registered them.
Push(b, m, kind) ==
  live' = IF mode = "live"
            THEN live \cup {[box |-> b, msg |-> m, kind |-> kind, at |-> "read"]}
            ELSE live

PostMessage(b) ==
  /\ events < MaxEvents
  /\ events' = events + 1
  /\ log' = [log EXCEPT ![b] = Append(@, Post)]
  /\ Push(b, Now(b) + 1, "post")
  /\ UNCHANGED <<state, pts, docs, mode, sync, bg, waived, stops>>

DeleteMessage(c, m) ==
  /\ events < MaxEvents
  /\ events' = events + 1
  /\ m \in Posted(c) \ Deleted(c)
  /\ log' = [log EXCEPT ![c] = Append(@, m)]
  /\ Push(c, m, "delete")
  /\ UNCHANGED <<state, pts, docs, mode, sync, bg, waived, stops>>

-----------------------------------------------------------------------------
(* SyncMissedUpdates                                                       *)

Unset(s) == s.pts = 0 /\ \A c \in Channels : s.date[c] = 0

StartWatch ==
  /\ mode = "down"
  /\ mode' = "sync"
  /\ sync' = [Asleep EXCEPT !.at = IF Unset(state) THEN "current" ELSE "fetch",
                            !.pts = state.pts, !.date = state.date]
  /\ UNCHANGED <<log, state, pts, docs, bg, live, waived, events, stops>>

\* The first start fetches nothing and begins at the present.
FetchCurrentState ==
  /\ SyncAt("current")
  /\ state' = [pts |-> Now(Common), date |-> Seen]
  /\ sync' = [sync EXCEPT !.at = "register", !.pts = Now(Common), !.date = Seen]
  /\ waived' = [b \in Boxes |-> waived[b] \cup Posted(b)]
  /\ UNCHANGED <<log, pts, docs, mode, bg, live, events, stops>>

\* An RPC fails: StartWatch logs the error and goes on to the handlers.
SyncFails ==
  /\ "api" \in Faults
  /\ SyncAt("current") \/ SyncAt("fetch")
  /\ sync' = [sync EXCEPT !.at = "register"]
  /\ UNCHANGED <<log, state, pts, docs, mode, bg, live, waived, events, stops>>

Gap == Now(Common) - sync.pts
Behind == {c \in Channels : Now(c) > sync.date[c]}

\* updates.getDifference and the four kinds of its answer.  Channels with news
\* since the date are named in the last one (UpdateChannelTooLong).
DifferenceEmpty ==
  /\ SyncAt("fetch") /\ Gap = 0 /\ Behind = {}
  /\ sync' = [sync EXCEPT !.at = "save", !.upto = sync.pts, !.date = Seen, !.more = FALSE]
  /\ UNCHANGED waived

Difference ==
  /\ SyncAt("fetch") /\ Gap <= SliceSize /\ ~(Gap = 0 /\ Behind = {})
  /\ sync' = [sync EXCEPT !.at = "process", !.upto = Now(Common), !.date = Seen,
                          !.tell = Behind, !.more = FALSE]
  /\ UNCHANGED waived

DifferenceSlice ==
  /\ SyncAt("fetch") /\ Gap > SliceSize
  /\ sync' = [sync EXCEPT !.at = "process", !.upto = sync.pts + SliceSize,
                          !.tell = {}, !.more = TRUE]
  /\ UNCHANGED waived

DifferenceTooLong ==
  /\ SyncAt("fetch") /\ Gap > SliceSize /\ "jump" \in Faults
  /\ sync' = [sync EXCEPT !.at = "save", !.upto = Now(Common), !.more = FALSE]
  /\ Waive(Common, About(Common, sync.pts, Now(Common)))

GetDifference ==
  /\ DifferenceEmpty \/ Difference \/ DifferenceSlice \/ DifferenceTooLong
  /\ UNCHANGED <<log, state, pts, docs, mode, bg, live, events, stops>>

\* Each channel the answer names gets a goroutine.
Spawn(c) == [Resting EXCEPT !.at = "load", !.base = pts[c]]

\* Slip: what a slice brings is not indexed.
ProcessLastOnly ==
  /\ SyncAt("process")
  /\ docs' = IF sync.more THEN docs
             ELSE [docs EXCEPT ![Common] = @ \cup About(Common, sync.pts, sync.upto)]
  /\ bg' = [c \in Channels |-> IF c \in sync.tell THEN Spawn(c) ELSE bg[c]]
  /\ sync' = [sync EXCEPT !.at = "save", !.tell = {}]
  /\ UNCHANGED <<log, state, pts, mode, live, waived, events, stops>>

\* processDifference; documents the engine refuses are logged and left out.
ProcessDifference ==
  /\ SyncAt("process")
  /\ LET new == About(Common, sync.pts, sync.upto)
     IN \/ /\ docs' = [docs EXCEPT ![Common] = @ \cup new]
           /\ UNCHANGED waived
        \/ /\ "engine" \in Faults
           /\ Waive(Common, new)
           /\ UNCHANGED docs
  /\ bg' = [c \in Channels |-> IF c \in sync.tell THEN Spawn(c) ELSE bg[c]]
  /\ sync' = [sync EXCEPT !.at = "save", !.tell = {}]
  /\ UNCHANGED <<log, state, pts, mode, live, events, stops>>

\* Slip: the next request repeats the old pts.
AfterSaveStuck == [sync EXCEPT !.at = IF sync.more THEN "fetch" ELSE "register"]

AfterSave == [sync EXCEPT !.at = IF sync.more THEN "fetch" ELSE "register",
                          !.pts = sync.upto]

\* Slip: a slice is stored as if it were the whole difference.
SaveStateFinal ==
  /\ SyncAt("save")
  /\ state' = [pts |-> Now(Common), date |-> sync.date]
  /\ sync' = AfterSave
  /\ UNCHANGED <<log, pts, docs, mode, bg, live, waived, events, stops>>

SaveState ==
  /\ SyncAt("save")
  /\ \/ state' = [pts |-> sync.upto, date |-> sync.date]
     \/ "save" \in Faults /\ UNCHANGED state
  /\ sync' = AfterSave
  /\ UNCHANGED <<log, pts, docs, mode, bg, live, waived, events, stops>>

\* Slip: the handlers are there, and the sync is still said to run.
RegisterHandlersKept ==
  /\ SyncAt("register")
  /\ mode' = "live"
  /\ UNCHANGED <<log, state, pts, docs, sync, bg, live, waived, events, stops>>

\* What no answer covered before the handlers are there is pushed to nobody.
RegisterHandlers ==
  /\ SyncAt("register")
  /\ mode' = "live"
  /\ sync' = Asleep
  /\ waived' = [b \in Boxes |-> waived[b] \cup
                 About(b, IF b = Common THEN sync.pts ELSE sync.date[b], Now(b))]
  /\ UNCHANGED <<log, state, pts, docs, bg, live, events, stops>>

-----------------------------------------------------------------------------
(* syncChannelDifference, one goroutine per channel                        *)

\* A live handler is still to run for the message's deletion.
Purging(c, m) == \E j \in live : j.box = c /\ j.msg = m /\ j.kind = "delete"

\* Messages that were deleted since they were read, and nobody is to purge.
Late(c, msgs) == {m \in msgs : m \in Deleted(c) /\ ~Purging(c, m)}

\* Without a pts the channel is skipped.  A live handler may have moved it.
LoadPts(c) ==
  /\ BgAt(c, "load")
  /\ IF pts[c] = 0
       THEN /\ bg' = [bg EXCEPT ![c] = Resting]
            /\ Waive(c, About(c, 0, Now(c)))
       ELSE /\ bg' = [bg EXCEPT ![c].at = "fetch", ![c].pts = pts[c], ![c].base = 0]
            /\ Waive(c, About(c, bg[c].base, pts[c]))
  /\ UNCHANGED <<log, state, pts, docs, mode, sync, live, events, stops>>

ChannelSyncFails(c) ==
  /\ "api" \in Faults
  /\ BgAt(c, "fetch")
  /\ bg' = [bg EXCEPT ![c] = Resting]
  /\ Waive(c, About(c, bg[c].pts, Now(c)))
  /\ UNCHANGED <<log, state, pts, docs, mode, sync, live, events, stops>>

ChannelGap(c) == Now(c) - bg[c].pts

ChannelEmpty(c) ==
  /\ BgAt(c, "fetch") /\ Now(c) <= bg[c].pts
  /\ bg' = [bg EXCEPT ![c].at = "save", ![c].upto = Now(c), ![c].more = FALSE]
  /\ UNCHANGED waived

\* A page of the channel's events: messages not deleted meanwhile, deletions.
ChannelPage(c) ==
  /\ BgAt(c, "fetch") /\ Now(c) > bg[c].pts
  /\ LET upto  == IF ChannelGap(c) <= PageSize THEN Now(c) ELSE bg[c].pts + PageSize
         range == (bg[c].pts + 1)..upto
     IN bg' = [bg EXCEPT ![c].at = "process", ![c].upto = upto,
                         ![c].new = (range \cap Posted(c)) \ Deleted(c),
                         ![c].gone = {log[c][i] : i \in range} \ {Post},
                         ![c].more = upto < Now(c)]
  /\ UNCHANGED waived

\* The answer holds the channel's latest messages and its present pts.
ChannelTooLong(c) ==
  /\ BgAt(c, "fetch") /\ ChannelGap(c) > PageSize /\ "jump" \in Faults
  /\ bg' = [bg EXCEPT ![c].at = "process", ![c].upto = Now(c),
                      ![c].new = Posted(c) \cap {Now(c)}, ![c].gone = {},
                      ![c].more = FALSE]
  /\ Waive(c, About(c, bg[c].pts, Now(c)) \ (Posted(c) \cap {Now(c)}))

GetChannelDifference(c) ==
  /\ ChannelEmpty(c) \/ ChannelPage(c) \/ ChannelTooLong(c)
  /\ UNCHANGED <<log, state, pts, docs, mode, sync, live, events, stops>>

ProcessChannelDifference(c) ==
  /\ BgAt(c, "process")
  /\ \/ /\ docs' = [docs EXCEPT ![c] = (@ \cup bg[c].new) \ bg[c].gone]
        /\ Waive(c, Late(c, bg[c].new))
     \/ /\ "engine" \in Faults
        /\ Waive(c, bg[c].new \cup bg[c].gone)
        /\ UNCHANGED docs
  /\ bg' = [bg EXCEPT ![c].at = "save", ![c].new = {}, ![c].gone = {}]
  /\ UNCHANGED <<log, state, pts, mode, sync, live, events, stops>>

\* UpdateChannelPts, and the end of the goroutine unless more is to come.
SaveChannelPts(c) ==
  /\ BgAt(c, "save")
  /\ \/ pts' = [pts EXCEPT ![c] = bg[c].upto]
     \/ "save" \in Faults /\ UNCHANGED pts
  /\ bg' = [bg EXCEPT ![c] = IF @.more THEN [@ EXCEPT !.at = "fetch", !.pts = bg[c].upto]
                                         ELSE Resting]
  /\ UNCHANGED <<log, state, docs, mode, sync, live, waived, events, stops>>

-----------------------------------------------------------------------------
(* The live handlers.  Group 0 stores the pts, the groups after it index.  *)

Move(j, ph) == live' = (live \ {j}) \cup {[j EXCEPT !.at = ph]}

\* updateStateFromUpdates reads the stored state and looks for a higher pts.
ReadState(j) ==
  /\ j.at = "read" /\ j.box = Common
  /\ IF j.msg > state.pts THEN Move(j, "save") ELSE Move(j, "index")
  /\ UNCHANGED <<log, state, pts, docs, mode, sync, bg, waived, events, stops>>

SaveLiveState(j) ==
  /\ j.at = "save"
  /\ \/ state' = [state EXCEPT !.pts = j.msg]
     \/ "save" \in Faults /\ UNCHANGED state
  /\ Move(j, "index")
  /\ UNCHANGED <<log, pts, docs, mode, sync, bg, waived, events, stops>>

\* UpdateChannelPts, whatever pts is stored.
SaveLivePts(j) ==
  /\ j.at = "read" /\ j.box \in Channels /\ j.kind = "post"
  /\ \/ pts' = [pts EXCEPT ![j.box] = j.msg]
     \/ "save" \in Faults /\ UNCHANGED pts
  /\ Move(j, "index")
  /\ UNCHANGED <<log, state, docs, mode, sync, bg, waived, events, stops>>

\* WatchHandler, which may be slow (OCR): a deletion can overtake it.
IndexLive(j) ==
  /\ j.at = "index"
  /\ \/ /\ docs' = [docs EXCEPT ![j.box] = @ \cup {j.msg}]
        /\ Waive(j.box, Late(j.box, {j.msg}))
     \/ /\ "engine" \in Faults
        /\ Waive(j.box, {j.msg})
        /\ UNCHANGED docs
  /\ live' = live \ {j}
  /\ UNCHANGED <<log, state, pts, mode, sync, bg, events, stops>>

\* DeleteHandler
PurgeLive(j) ==
  /\ j.at = "read" /\ j.kind = "delete"
  /\ \/ /\ docs' = [docs EXCEPT ![j.box] = @ \ {j.msg}]
        /\ UNCHANGED waived
     \/ /\ "engine" \in Faults
        /\ Waive(j.box, {j.msg})
        /\ UNCHANGED docs
  /\ live' = live \ {j}
  /\ UNCHANGED <<log, state, pts, mode, sync, bg, events, stops>>

-----------------------------------------------------------------------------
Idle == live = {} /\ \A c \in Channels : bg[c].at = "off"

\* The handlers in flight, and what the goroutines have not stored.
CutShort(b) ==
  {j.msg : j \in {k \in live : k.box = b}} \cup
  (IF b \in Channels /\ bg[b].at # "off"
     THEN About(b, IF bg[b].at = "load" THEN bg[b].base ELSE bg[b].pts, Now(b)) ELSE {})

\* The process ends: between two handlers, or anywhere.  Only a sync in flight
\* loses nothing by it.
Stop ==
  /\ mode # "down" /\ stops < MaxStops
  /\ Idle \/ "kill" \in Faults
  /\ mode' = "down"
  /\ stops' = stops + 1
  /\ sync' = Asleep
  /\ bg' = [c \in Channels |-> Resting]
  /\ live' = {}
  /\ waived' = [b \in Boxes |-> waived[b] \cup CutShort(b)]
  /\ UNCHANGED <<log, state, pts, docs, events>>

\* Nothing is stored before the first start; or an earlier run has followed the
\* boxes so far, and may not have seen a channel's pts yet.
Fresh ==
  /\ state = [pts |-> 0, date |-> [c \in Channels |-> 0]]
  /\ pts = [c \in Channels |-> 0]
  /\ waived = [b \in Boxes |-> {}]

Followed ==
  /\ state = [pts |-> 1, date |-> Seen]
  /\ pts \in [Channels -> {0, 1}]
  /\ waived = [b \in Boxes |-> {1}]

\* Telegram's counters are never zero: each box has an event in its past.
Init ==
  /\ log = [b \in Boxes |-> <<Post>>]
  /\ Fresh \/ Followed
  /\ docs = [b \in Boxes |-> {}]
  /\ mode = "down"
  /\ sync = Asleep
  /\ bg = [c \in Channels |-> Resting]
  /\ live = {}
  /\ events = 0
  /\ stops = 0

Server ==
  \/ \E b \in Boxes : PostMessage(b)
  \/ \E c \in Channels : \E m \in Posted(c) : DeleteMessage(c, m)

SyncStep ==
  \/ FetchCurrentState \/ SyncFails \/ GetDifference
  \/ ProcessDifference \/ SaveState \/ RegisterHandlers

ChannelStep(c) ==
  \/ LoadPts(c) \/ ChannelSyncFails(c) \/ GetChannelDifference(c)
  \/ ProcessChannelDifference(c) \/ SaveChannelPts(c)

Handle(j) ==
  ReadState(j) \/ SaveLiveState(j) \/ SaveLivePts(j) \/ IndexLive(j) \/ PurgeLive(j)

Next ==
  \/ Server \/ StartWatch \/ SyncStep \/ Stop
  \/ \E c \in Channels : ChannelStep(c)
  \/ \E j \in live : Handle(j)

Spec == Init /\ [][Next]_vars

\* Loops that run on as long as the process does.
Fairness == WF_vars(SyncStep) /\ \A c \in Channels : WF_vars(ChannelStep(c))

FairSpec == Spec /\ Fairness

-----------------------------------------------------------------------------
(* Properties *)

SyncPhases == {"off", "current", "fetch", "process", "save", "register"}
BgPhases   == {"off", "load", "fetch", "process", "save"}
Dates      == [Channels -> Nat]
Jobs == [box: Boxes, msg: Nat, kind: {"post", "delete"}, at: {"read", "save", "index"}]

\* Every variable stays in its type, and no handler outlives the process.
TypeOK ==
  /\ log \in [Boxes -> Seq(Nat)]
  /\ state \in [pts: Nat, date: Dates]
  /\ pts \in Dates
  /\ docs \in [Boxes -> SUBSET Nat]
  /\ mode \in {"down", "sync", "live"}
  /\ sync \in [at: SyncPhases, pts: Nat, date: Dates, upto: Nat,
               tell: SUBSET Channels, more: BOOLEAN]
  /\ bg \in [Channels -> [at: BgPhases, base: Nat, pts: Nat, upto: Nat,
                          new: SUBSET Nat, gone: SUBSET Nat, more: BOOLEAN]]
  /\ live \subseteq Jobs
  /\ waived \in [Boxes -> SUBSET Nat]
  /\ events \in Nat /\ stops \in Nat
  /\ mode # "live" => live = {}
  /\ mode = "sync" <=> sync.at # "off"
  /\ mode = "down" => Idle

\* The stored pts of the common box never runs ahead of the engine: a message
\* at or below it is indexed, or its live handler is on the way, or the code
\* gave up on it for one of the reasons above.  The sync indexes a slice and
\* stores the state after it, so that it may be killed anywhere.
CursorHonest ==
  \A m \in Posted(Common) :
    m <= state.pts =>
      m \in docs[Common] \cup waived[Common]
      \/ \E j \in live : j.box = Common /\ j.msg = m

\* Everything that was to happen has happened.
Settled == mode = "live" /\ Idle

\* When the client has caught up, the engine holds exactly the messages that
\* are posted and not deleted, however often the process was killed and
\* restarted on the way, leaving out what is waived.
CaughtUp ==
  Settled => \A b \in Boxes :
    docs[b] \ waived[b] = (Posted(b) \ Deleted(b)) \ waived[b]

\* Both loops over pages of differences come to an end: that of the common box,
\* so that the handlers are registered, and that of each channel.
LoopsEnd ==
  /\ mode = "sync" ~> mode # "sync"
  /\ \A c \in Channels : bg[c].at # "off" ~> bg[c].at = "off"

=============================================================================
