----------------------------- MODULE CatchupProofs -----------------------------
(***************************************************************************)
(* What the cursors of Catchup claim, and why nothing is missed between    *)
(* them.                                                                   *)
(*                                                                         *)
(* Every event of a box is handled once the engine shows what the event    *)
(* asks for, or a live handler or the channel's goroutine is on its way to *)
(* it, or the code has given it up.  A handled event stays handled, step   *)
(* by step, through kills and restarts too; every cursor (the stored pts   *)
(* of the common box, the date, the pts of a channel, and the copies the   *)
(* two loops carry) stands behind handled events only; and once the        *)
(* handlers are registered, every event is.                                *)
(***************************************************************************)
EXTENDS Catchup, TLAPS

Subject(b, i) == IF IsPost(b, i) THEN i ELSE log[b][i]

Delivering(b, m) == \E j \in live : j.box = b /\ j.msg = m /\ j.kind = "post"

\* The engine shows event i of box b, or a live handler will see to it.
Done(b, i) ==
  \/ Subject(b, i) \in waived[b]
  \/ IsPost(b, i) /\ (i \in docs[b] \/ i \in Deleted(b) \/ Delivering(b, i))
  \/ ~IsPost(b, i) /\ (log[b][i] \notin docs[b] \/ Purging(b, log[b][i]))

InPage(c, i) ==
  /\ i > bg[c].pts
  /\ IF IsPost(c, i) THEN i \in bg[c].new ELSE log[c][i] \in bg[c].gone

\* The channel's goroutine will come to event i.
Fetching(c, i) ==
  \/ bg[c].at = "load" /\ i > bg[c].base
  \/ bg[c].at = "fetch" /\ i > bg[c].pts
  \/ bg[c].at = "process" /\ InPage(c, i)
  \/ bg[c].at \in {"process", "save"} /\ bg[c].more /\ i > bg[c].upto

Handled(b, i) == Done(b, i) \/ (b \in Channels /\ Fetching(b, i))

HandledTo(b, hi) == \A i \in 1..Now(b) : i <= hi => Handled(b, i)

\* A deletion names a message posted before it; the common box has none.
LogInv ==
  /\ \A b \in Boxes : \A i \in 1..Now(b) :
       log[b][i] # Post => log[b][i] \in 1..(i - 1) /\ IsPost(b, log[b][i])
  /\ \A i \in 1..Now(Common) : IsPost(Common, i)

\* Cursors stand inside the logs.
BoundInv ==
  /\ state.pts <= Now(Common) /\ sync.pts <= Now(Common) /\ sync.upto <= Now(Common)
  /\ \A c \in Channels :
       /\ state.date[c] <= Now(c) /\ sync.date[c] <= Now(c) /\ pts[c] <= Now(c)
       /\ bg[c].base <= Now(c) /\ bg[c].pts <= Now(c) /\ bg[c].upto <= Now(c)

\* What is about a box is about a message posted there.
JobInv ==
  /\ \A b \in Boxes : docs[b] \subseteq Posted(b)
  /\ \A j \in live :
       /\ j.msg \in Posted(j.box)
       /\ j.kind = "delete" => j.box \in Channels /\ j.msg \in Deleted(j.box) /\ j.at = "read"
       /\ j.at = "save" => j.box = Common

\* While SyncMissedUpdates has not told the channels, no goroutine runs.
SyncInv ==
  /\ sync.tell # {} => sync.at = "process" /\ ~sync.more
  /\ \/ sync.at \in {"current", "fetch", "process"}
     \/ sync.at = "save" /\ sync.more
     => \A c \in Channels : bg[c].at = "off"

PageInv ==
  \A c \in Channels :
    /\ bg[c].new \subseteq Posted(c) /\ bg[c].gone \subseteq Deleted(c)
    /\ bg[c].at \in {"process", "save"} => bg[c].pts <= bg[c].upto

Shape == TypeOK /\ LogInv /\ BoundInv /\ JobInv /\ SyncInv /\ PageInv

\* What is stored stands behind handled events, and so does what the sync and
\* the goroutines go by.
StoredInv ==
  /\ HandledTo(Common, state.pts)
  /\ \A c \in Channels : HandledTo(c, state.date[c]) /\ HandledTo(c, pts[c])

SyncedInv ==
  /\ sync.at \in {"current", "fetch", "process", "register"} => HandledTo(Common, sync.pts)
  /\ sync.at = "save" => HandledTo(Common, sync.upto)
  /\ sync.at # "off" =>
       \A c \in Channels \ sync.tell : HandledTo(c, sync.date[c])

Fetched(c) ==
  /\ bg[c].at = "load" => HandledTo(c, bg[c].base)
  /\ bg[c].at = "fetch" => HandledTo(c, bg[c].pts)
  /\ bg[c].at \in {"process", "save"} => HandledTo(c, bg[c].upto)

FetchedInv == \A c \in Channels : Fetched(c)

\* Once the handlers are registered every event is handled.
LiveInv == mode = "live" => \A b \in Boxes : HandledTo(b, Now(b))

IInv == Shape /\ StoredInv /\ SyncedInv /\ FetchedInv /\ LiveInv

-----------------------------------------------------------------------------
(* The log                                                                 *)

USE DEF Boxes

LEMMA LogFacts ==
  ASSUME TypeOK, NEW b \in Boxes
  PROVE  Now(b) \in Nat /\ \A i \in 1..Now(b) : log[b][i] \in Nat
BY DEF TypeOK, Now

\* A log only grows, at its end.
Grows ==
  \A b \in Boxes :
    /\ Now(b) <= Now(b)' /\ Now(b)' \in Nat
    /\ \A i \in 1..Now(b) : log'[b][i] = log[b][i]

LEMMA GrowsStill == ASSUME TypeOK, UNCHANGED log PROVE Grows
BY LogFacts DEF Grows, Now

LEMMA Appended ==
  ASSUME TypeOK, NEW b \in Boxes, NEW e \in Nat, log' = [log EXCEPT ![b] = Append(@, e)]
  PROVE  /\ log' \in [Boxes -> Seq(Nat)] /\ Grows
         /\ Now(b)' = Now(b) + 1 /\ log'[b][Now(b) + 1] = e
         /\ \A a \in Boxes : a # b => log'[a] = log[a]
<1>1. /\ log'[b] = Append(log[b], e) /\ log[b] \in Seq(Nat)
      /\ \A a \in Boxes : a # b => log'[a] = log[a]
      /\ log' \in [Boxes -> Seq(Nat)]
  BY DEF TypeOK
<1>2. /\ Now(b)' = Now(b) + 1 /\ log'[b][Now(b) + 1] = e
      /\ \A i \in 1..Now(b) : log'[b][i] = log[b][i]
  BY <1>1 DEF Now
<1>3. \A a \in Boxes : a # b => Now(a)' = Now(a)
  BY <1>1 DEF Now
<1>4. \A a \in Boxes : Now(a) \in Nat
  BY LogFacts
<1>5. Grows
  <2> SUFFICES ASSUME NEW a \in Boxes
               PROVE  /\ Now(a) <= Now(a)' /\ Now(a)' \in Nat
                      /\ \A i \in 1..Now(a) : log'[a][i] = log[a][i]
    BY DEF Grows
  <2>1. CASE a = b
    BY <1>2, <1>4, <2>1 DEF Now
  <2>2. CASE a # b
    BY <1>1, <1>3, <1>4, <2>2
  <2> QED
    BY <2>1, <2>2
<1> QED
  BY <1>1, <1>2, <1>5

LEMMA GrowsFacts ==
  ASSUME TypeOK, Grows, NEW b \in Boxes
  PROVE  /\ Posted(b) \subseteq Posted(b)' /\ Deleted(b) \subseteq Deleted(b)'
         /\ \A i \in 1..Now(b) : /\ i \in 1..Now(b)'
                                 /\ IsPost(b, i)' <=> IsPost(b, i)
                                 /\ Subject(b, i)' = Subject(b, i)
<1>1. Now(b) \in Nat /\ Now(b)' \in Nat /\ Now(b) <= Now(b)'
  BY LogFacts DEF Grows
<1>2. \A i \in 1..Now(b) : i \in 1..Now(b)' /\ log'[b][i] = log[b][i]
  BY <1>1 DEF Grows
<1> QED
  BY <1>2 DEF Posted, Deleted, IsPost, Subject

LEMMA AboutFacts ==
  ASSUME TypeOK, LogInv, NEW b \in Boxes, NEW lo \in Nat, NEW hi \in Nat, hi <= Now(b)
  PROVE  /\ About(b, lo, hi) \subseteq Posted(b)
         /\ \A i \in 1..Now(b) : i > lo /\ i <= hi => Subject(b, i) \in About(b, lo, hi)
<1>1. Now(b) \in Nat
  BY LogFacts
<1>2. \A i \in (lo + 1)..hi : i \in 1..Now(b)
  BY <1>1
<1>3. \A i \in 1..Now(b) : Subject(b, i) \in Posted(b)
  BY LogFacts DEF LogInv, Subject, Posted, IsPost
<1>4. About(b, lo, hi) = {Subject(b, i) : i \in (lo + 1)..hi}
  BY DEF About, Subject
<1>5. \A i \in 1..Now(b) : i > lo /\ i <= hi => i \in (lo + 1)..hi
  BY <1>1
<1> QED
  BY <1>2, <1>3, <1>4, <1>5

LEMMA PostedNat == ASSUME TypeOK, NEW b \in Boxes PROVE Posted(b) \subseteq Nat
BY LogFacts DEF Posted

LEMMA DeletedNat ==
  ASSUME TypeOK, LogInv, NEW b \in Boxes PROVE Deleted(b) \subseteq Posted(b)
BY LogFacts DEF Deleted, Posted, LogInv, IsPost

LEMMA LogStill ==
  ASSUME UNCHANGED log
  PROVE  /\ LogInv => LogInv'
         /\ \A b \in Boxes : /\ Now(b)' = Now(b)
                             /\ Posted(b)' = Posted(b) /\ Deleted(b)' = Deleted(b)
                             /\ \A i \in 1..Now(b) : /\ IsPost(b, i)' <=> IsPost(b, i)
                                                     /\ Subject(b, i)' = Subject(b, i)
BY DEF LogInv, Now, Posted, Deleted, IsPost, Subject

-----------------------------------------------------------------------------
(* The shape of the state: types, and what stands inside what              *)

LEMMA InitShape == ASSUME Init PROVE Shape
<1>1. /\ log = [b \in Boxes |-> <<Post>>] /\ mode = "down" /\ sync = Asleep
      /\ bg = [c \in Channels |-> Resting] /\ live = {} /\ docs = [b \in Boxes |-> {}]
      /\ events = 0 /\ stops = 0
  BY DEF Init
<1>2. \A b \in Boxes : log[b] = <<0>> /\ Now(b) = 1
  BY <1>1 DEF Now, Post
<1>3. /\ state \in [pts: {0, 1}, date: [Channels -> {0, 1}]]
      /\ pts \in [Channels -> {0, 1}] /\ waived \in [Boxes -> SUBSET {1}]
  BY <1>2 DEF Init, Fresh, Followed, Seen
<1>4. TypeOK
  <2>1. log \in [Boxes -> Seq(Nat)]
    BY <1>1 DEF Post
  <2>2. /\ state \in [pts: Nat, date: Dates] /\ pts \in Dates
        /\ waived \in [Boxes -> SUBSET Nat]
    BY <1>3 DEF Dates
  <2> QED
    BY <1>1, <2>1, <2>2 DEF TypeOK, Asleep, Resting, SyncPhases, BgPhases, Dates, Idle
<1>5. LogInv /\ JobInv
  BY <1>1, <1>2 DEF LogInv, IsPost, Post, JobInv
<1>6. BoundInv /\ SyncInv /\ PageInv
  BY <1>1, <1>2, <1>3 DEF BoundInv, SyncInv, PageInv, Asleep, Resting
<1> QED
  BY <1>4, <1>5, <1>6 DEF Shape

LEMMA BoundKept ==
  ASSUME TypeOK, BoundInv, Grows, UNCHANGED <<state, sync, pts, bg>>
  PROVE  BoundInv'
<1>1. \A b \in Boxes : Now(b) \in Nat /\ Now(b)' \in Nat /\ Now(b) <= Now(b)'
  BY LogFacts DEF Grows
<1>2. /\ state.pts \in Nat /\ sync.pts \in Nat /\ sync.upto \in Nat
      /\ \A c \in Channels : /\ state.date[c] \in Nat /\ sync.date[c] \in Nat /\ pts[c] \in Nat
                            /\ bg[c].base \in Nat /\ bg[c].pts \in Nat /\ bg[c].upto \in Nat
  BY DEF TypeOK, Dates
<1> QED
  BY <1>1, <1>2 DEF BoundInv

\* What the boxes' cursors and goroutines stand for survives a new event.
LEMMA AppendShape ==
  ASSUME Shape, NEW b \in Boxes, NEW e \in Nat,
         log' = [log EXCEPT ![b] = Append(@, e)], NEW k \in {"post", "delete"},
         NEW m \in Nat, Push(b, m, k),
         UNCHANGED <<state, pts, docs, mode, sync, bg, waived, stops>>,
         events' \in Nat,
         e # Post => b \in Channels /\ e \in Posted(b),
         k = "post" => e = Post /\ m = Now(b) + 1,
         k = "delete" => e # Post /\ e = m
  PROVE  Shape'
<1>1. /\ log' \in [Boxes -> Seq(Nat)] /\ Grows
      /\ Now(b)' = Now(b) + 1 /\ log'[b][Now(b) + 1] = e
      /\ \A a \in Boxes : a # b => log'[a] = log[a]
  BY Appended DEF Shape
<1>2. \A a \in Boxes : Now(a) \in Nat /\ Now(a)' \in Nat /\ Now(a) <= Now(a)'
  BY <1>1, LogFacts DEF Grows, Shape
<1>3. \A a \in Boxes : Posted(a) \subseteq Posted(a)' /\ Deleted(a) \subseteq Deleted(a)'
  BY <1>1, GrowsFacts DEF Shape
<1>4. /\ live' \subseteq live \cup {[box |-> b, msg |-> m, kind |-> k, at |-> "read"]}
      /\ mode # "live" => live' = live
  BY DEF Push
<1>5. TypeOK'
  <2>1. live' \subseteq Jobs
    BY <1>4 DEF Shape, TypeOK, Jobs
  <2> QED
    BY <1>1, <1>4, <2>1 DEF Shape, TypeOK, Idle
<1>6. \A a \in Boxes : \A i \in 1..Now(a)' :
        \/ i \in 1..Now(a) /\ log'[a][i] = log[a][i]
        \/ a = b /\ i = Now(b) + 1 /\ log'[a][i] = e
  BY <1>1, <1>2 DEF Grows, Now
<1>7. LogInv'
  <2>1. \A a \in Boxes : \A i \in 1..Now(a)' :
          log'[a][i] # Post => log'[a][i] \in 1..(i - 1) /\ log'[a][log'[a][i]] = Post
    <3> SUFFICES ASSUME NEW a \in Boxes, NEW i \in 1..Now(a)', log'[a][i] # Post
                 PROVE  log'[a][i] \in 1..(i - 1) /\ log'[a][log'[a][i]] = Post
      OBVIOUS
    <3>1. CASE i \in 1..Now(a) /\ log'[a][i] = log[a][i]
      <4>1. log[a][i] \in 1..(i - 1) /\ log[a][log[a][i]] = Post
        BY <3>1 DEF Shape, LogInv, IsPost
      <4>2. log[a][i] \in 1..Now(a)
        BY <1>2, <3>1, <4>1
      <4>3. log'[a][log[a][i]] = log[a][log[a][i]]
        BY <1>1, <4>2 DEF Grows
      <4> QED
        BY <3>1, <4>1, <4>3
    <3>2. CASE a = b /\ i = Now(b) + 1 /\ log'[a][i] = e
      <4>1. e \in 1..Now(b) /\ log[b][e] = Post
        BY <3>2 DEF Posted, IsPost
      <4>2. log'[b][e] = log[b][e]
        BY <1>1, <4>1 DEF Grows
      <4>3. e \in 1..(i - 1)
        BY <1>2, <3>2, <4>1
      <4> QED
        BY <3>2, <4>1, <4>2, <4>3
    <3> QED
      BY <1>6, <3>1, <3>2
  <2>2. \A i \in 1..Now(Common)' : IsPost(Common, i)'
    BY <1>6, BoxAssumption DEF Shape, LogInv, IsPost
  <2> QED
    BY <2>1, <2>2 DEF LogInv, IsPost
<1>8. BoundInv'
  BY <1>2, BoundKept, <1>1 DEF Shape
<1>9. JobInv'
  <2>1. \A a \in Boxes : docs[a] \subseteq Posted(a)'
    BY <1>3 DEF Shape, JobInv
  <2>2. \A j \in live : /\ j.msg \in Posted(j.box)'
                        /\ j.kind = "delete" => /\ j.box \in Channels /\ j.msg \in Deleted(j.box)'
                                                /\ j.at = "read"
                        /\ j.at = "save" => j.box = Common
    BY <1>3 DEF Shape, JobInv, TypeOK, Jobs
  <2>3. k = "post" => m \in Posted(b)'
    <3>1. Now(b) + 1 \in 1..Now(b)'
      BY <1>1, <1>2
    <3> QED
      BY <1>1, <3>1 DEF Posted, IsPost
  <2>4. k = "delete" => m \in Posted(b)' /\ m \in Deleted(b)'
    BY <1>1, <1>2, <1>3 DEF Deleted
  <2> QED
    BY <1>4, <2>1, <2>2, <2>3, <2>4 DEF JobInv
<1>10. SyncInv' /\ PageInv'
  BY <1>3 DEF Shape, SyncInv, PageInv
<1> QED
  BY <1>5, <1>7, <1>8, <1>9, <1>10 DEF Shape

LEMMA CursorFacts ==
  ASSUME Shape
  PROVE  /\ state.pts \in Nat /\ state.date \in Dates
         /\ sync.pts \in Nat /\ sync.upto \in Nat /\ sync.date \in Dates
         /\ \A b \in Boxes : Now(b) \in Nat
         /\ \A c \in Channels :
              /\ state.date[c] \in Nat /\ sync.date[c] \in Nat /\ pts[c] \in Nat
              /\ bg[c].base \in Nat /\ bg[c].pts \in Nat /\ bg[c].upto \in Nat
BY LogFacts DEF Shape, TypeOK, Dates

LEMMA SeenFacts ==
  ASSUME Shape PROVE Seen \in Dates /\ \A c \in Channels : Seen[c] = Now(c)
BY LogFacts DEF Shape, Seen, Dates

Syncing == [at: SyncPhases \ {"off"}, pts: Nat, date: Dates, upto: Nat,
            tell: SUBSET Channels, more: BOOLEAN]

\* A step of SyncMissedUpdates that only moves its own place and the state.
LEMMA SyncShape ==
  ASSUME Shape, mode' = "sync", mode # "live",
         UNCHANGED <<log, pts, docs, bg, live, events, stops>>,
         sync' \in Syncing,
         state' \in [pts: Nat, date: Dates], waived' \in [Boxes -> SUBSET Nat],
         state'.pts <= Now(Common), sync'.pts <= Now(Common), sync'.upto <= Now(Common),
         \A c \in Channels : state'.date[c] <= Now(c) /\ sync'.date[c] <= Now(c),
         SyncInv'
  PROVE  Shape'
<1>1. TypeOK'
  BY DEF Shape, TypeOK, Syncing
<1>2. LogInv' /\ JobInv' /\ PageInv'
  BY LogStill DEF Shape, JobInv, PageInv, TypeOK, Jobs
<1>3. BoundInv'
  BY LogStill DEF Shape, BoundInv
<1> QED
  BY <1>1, <1>2, <1>3 DEF Shape

LEMMA StartShape == ASSUME Shape, StartWatch PROVE Shape'
<1>1. /\ mode = "down" /\ mode' = "sync" /\ UNCHANGED <<log, state, pts, docs, bg, live, waived, events, stops>>
      /\ sync'.at \in {"current", "fetch"} /\ sync'.pts = state.pts /\ sync'.date = state.date
      /\ sync'.upto = 0 /\ sync'.tell = {} /\ sync'.more = FALSE
      /\ sync' \in Syncing
  BY CursorFacts DEF StartWatch, Asleep, SyncPhases, Syncing
<1>2. SyncInv'
  BY <1>1 DEF Shape, TypeOK, Idle, SyncInv
<1> QED
  BY <1>1, <1>2, SyncShape, CursorFacts DEF Shape, TypeOK, BoundInv

LEMMA CurrentShape == ASSUME Shape, FetchCurrentState PROVE Shape'
<1>1. /\ mode = "sync" /\ sync.at = "current" /\ mode' = mode
      /\ UNCHANGED <<log, pts, docs, bg, live, events, stops>>
      /\ state' = [pts |-> Now(Common), date |-> Seen]
      /\ sync' = [sync EXCEPT !.at = "register", !.pts = Now(Common), !.date = Seen]
      /\ waived' = [b \in Boxes |-> waived[b] \cup Posted(b)]
  BY DEF FetchCurrentState, SyncAt
<1>2. waived' \in [Boxes -> SUBSET Nat]
  BY <1>1, PostedNat DEF Shape, TypeOK
<1>3. sync' \in Syncing
  BY <1>1, CursorFacts, SeenFacts DEF Shape, TypeOK, SyncPhases, Syncing
<1>4. sync'.pts = Now(Common) /\ sync'.upto = sync.upto /\ sync'.date = Seen
      /\ sync'.at = "register" /\ sync'.tell = sync.tell
  BY <1>1 DEF Shape, TypeOK
<1>5. SyncInv'
  BY <1>1, <1>4 DEF Shape, SyncInv
<1> QED
  BY <1>1, <1>2, <1>3, <1>4, <1>5, SyncShape, CursorFacts, SeenFacts DEF Shape, BoundInv

LEMMA SyncFailsShape == ASSUME Shape, SyncFails PROVE Shape'
<1>1. /\ mode = "sync" /\ sync.at \in {"current", "fetch"} /\ mode' = mode
      /\ UNCHANGED <<log, state, pts, docs, bg, live, waived, events, stops>>
      /\ sync' = [sync EXCEPT !.at = "register"]
  BY DEF SyncFails, SyncAt
<1>2. sync' \in Syncing
  BY <1>1 DEF Shape, TypeOK, SyncPhases, Syncing
<1>3. sync'.pts = sync.pts /\ sync'.upto = sync.upto /\ sync'.date = sync.date
      /\ sync'.at = "register" /\ sync'.tell = sync.tell
  BY <1>1 DEF Shape, TypeOK
<1>4. SyncInv'
  BY <1>1, <1>3 DEF Shape, SyncInv
<1> QED
  BY <1>1, <1>2, <1>3, <1>4, SyncShape, CursorFacts DEF Shape, BoundInv, TypeOK

\* The four answers, told apart by where they leave the sync.
LEMMA DifferenceFacts ==
  ASSUME Shape, GetDifference
  PROVE  /\ mode = "sync" /\ sync.at = "fetch" /\ mode' = mode
         /\ UNCHANGED <<log, state, pts, docs, bg, live, events, stops>>
         /\ sync'.pts = sync.pts /\ sync.pts <= sync'.upto /\ sync'.upto <= Now(Common)
         /\ sync'.at \in {"process", "save"}
         /\ sync'.tell # {} => sync'.at = "process" /\ ~sync'.more
         /\ sync'.date \in {sync.date, Seen}
         /\ sync'.date = Seen \/ sync'.tell = {}
         /\ sync'.date = sync.date
            \/ \A c \in Channels \ sync'.tell : Now(c) <= sync.date[c]
         /\ sync' \in Syncing
         /\ waived' \in [Boxes -> SUBSET Nat]
         /\ \A b \in Boxes : waived[b] \subseteq waived'[b]
         /\ sync'.at = "save" /\ sync'.upto # sync.pts =>
              About(Common, sync.pts, sync'.upto) \subseteq waived'[Common]
<1>1. /\ mode = "sync" /\ sync.at = "fetch" /\ mode' = mode
      /\ UNCHANGED <<log, state, pts, docs, bg, live, events, stops>>
      /\ sync.tell = {}
  BY DEF GetDifference, DifferenceEmpty, Difference, DifferenceSlice, DifferenceTooLong,
         SyncAt, Shape, SyncInv
<1>2. /\ sync.pts \in Nat /\ sync.pts <= Now(Common) /\ Now(Common) \in Nat /\ Gap \in Nat
      /\ Gap = Now(Common) - sync.pts
  BY CursorFacts DEF Shape, BoundInv, Gap
<1>3. Seen \in Dates /\ \A c \in Channels : Seen[c] = Now(c)
  BY SeenFacts
<1>4. Behind \subseteq Channels /\ \A c \in Channels \ Behind : Now(c) <= sync.date[c]
  BY CursorFacts DEF Behind
<1>5. CASE DifferenceEmpty
  <2>1. /\ sync' = [sync EXCEPT !.at = "save", !.upto = sync.pts, !.date = Seen, !.more = FALSE]
        /\ waived' = waived /\ Behind = {}
    BY <1>5 DEF DifferenceEmpty
  <2>2. /\ sync'.at = "save" /\ sync'.upto = sync.pts /\ sync'.pts = sync.pts
        /\ sync'.date = Seen /\ sync'.tell = sync.tell /\ sync' \in Syncing
    BY <1>2, <1>3, <2>1 DEF Shape, TypeOK, SyncPhases, Syncing
  <2> QED
    BY <1>1, <1>2, <1>4, <2>1, <2>2 DEF Shape, TypeOK
<1>6. CASE Difference
  <2>1. /\ sync' = [sync EXCEPT !.at = "process", !.upto = Now(Common), !.date = Seen,
                                !.tell = Behind, !.more = FALSE]
        /\ waived' = waived
    BY <1>6 DEF Difference
  <2>2. /\ sync'.at = "process" /\ sync'.upto = Now(Common) /\ sync'.pts = sync.pts
        /\ sync'.date = Seen /\ sync'.tell = Behind /\ ~sync'.more /\ sync' \in Syncing
    BY <1>2, <1>3, <1>4, <2>1 DEF Shape, TypeOK, SyncPhases, Syncing
  <2> QED
    BY <1>1, <1>2, <1>4, <2>1, <2>2 DEF Shape, TypeOK
<1>7. CASE DifferenceSlice
  <2>1. /\ sync' = [sync EXCEPT !.at = "process", !.upto = sync.pts + SliceSize,
                                !.tell = {}, !.more = TRUE]
        /\ waived' = waived /\ Gap > SliceSize
    BY <1>7 DEF DifferenceSlice
  <2>2. sync.pts + SliceSize \in Nat /\ sync.pts <= sync.pts + SliceSize
        /\ sync.pts + SliceSize <= Now(Common)
    BY <1>2, <2>1, SizeAssumption
  <2>3. /\ sync'.at = "process" /\ sync'.upto = sync.pts + SliceSize /\ sync'.pts = sync.pts
        /\ sync'.date = sync.date /\ sync'.tell = {} /\ sync' \in Syncing
    BY <2>1, <2>2 DEF Shape, TypeOK, SyncPhases, Syncing
  <2> QED
    BY <1>1, <2>1, <2>2, <2>3 DEF Shape, TypeOK
<1>8. CASE DifferenceTooLong
  <2>1. /\ sync' = [sync EXCEPT !.at = "save", !.upto = Now(Common), !.more = FALSE]
        /\ waived' = [waived EXCEPT ![Common] = @ \cup About(Common, sync.pts, Now(Common))]
    BY <1>8 DEF DifferenceTooLong, Waive
  <2>2. About(Common, sync.pts, Now(Common)) \subseteq Nat
    BY <1>2, AboutFacts, PostedNat DEF Shape
  <2>3. /\ sync'.at = "save" /\ sync'.upto = Now(Common) /\ sync'.pts = sync.pts
        /\ sync'.date = sync.date /\ sync'.tell = sync.tell /\ sync' \in Syncing
    BY <1>2, <2>1 DEF Shape, TypeOK, SyncPhases, Syncing
  <2>4. /\ waived' \in [Boxes -> SUBSET Nat] /\ \A b \in Boxes : waived[b] \subseteq waived'[b]
        /\ About(Common, sync.pts, Now(Common)) \subseteq waived'[Common]
    BY <2>1, <2>2 DEF Shape, TypeOK
  <2> QED
    BY <1>1, <1>2, <2>3, <2>4
<1> QED
  BY <1>5, <1>6, <1>7, <1>8 DEF GetDifference

LEMMA DifferenceShape == ASSUME Shape, GetDifference PROVE Shape'
<1>1. SyncInv'
  BY DifferenceFacts DEF Shape, SyncInv
<1>2. \A c \in Channels : sync'.date[c] <= Now(c)
  BY DifferenceFacts, SeenFacts, CursorFacts DEF Shape, BoundInv
<1> QED
  BY <1>1, <1>2, DifferenceFacts, SyncShape, CursorFacts DEF Shape, BoundInv, TypeOK

LEMMA ProcessShape == ASSUME Shape, ProcessDifference PROVE Shape'
<1>1. /\ mode = "sync" /\ sync.at = "process" /\ mode' = mode
      /\ UNCHANGED <<log, state, pts, live, events, stops>>
      /\ bg' = [c \in Channels |-> IF c \in sync.tell THEN Spawn(c) ELSE bg[c]]
      /\ sync' = [sync EXCEPT !.at = "save", !.tell = {}]
  BY DEF ProcessDifference, SyncAt
<1>2. About(Common, sync.pts, sync.upto) \subseteq Posted(Common)
  BY AboutFacts, CursorFacts DEF Shape, BoundInv
<1>3. /\ docs' \in [Boxes -> SUBSET Nat] /\ waived' \in [Boxes -> SUBSET Nat]
      /\ \A b \in Boxes : docs'[b] \subseteq Posted(b)
  <2>1. \/ docs' = [docs EXCEPT ![Common] = @ \cup About(Common, sync.pts, sync.upto)]
           /\ waived' = waived
        \/ waived' = [waived EXCEPT ![Common] = @ \cup About(Common, sync.pts, sync.upto)]
           /\ docs' = docs
    BY DEF ProcessDifference, Waive
  <2> QED
    BY <1>2, <2>1, PostedNat DEF Shape, TypeOK, JobInv
<1>4. /\ sync'.at = "save" /\ sync'.pts = sync.pts /\ sync'.upto = sync.upto /\ sync'.tell = {}
      /\ sync'.date = sync.date /\ sync'.more = sync.more
      /\ sync' \in [at: SyncPhases, pts: Nat, date: Dates, upto: Nat,
                    tell: SUBSET Channels, more: BOOLEAN]
  BY <1>1 DEF Shape, TypeOK, SyncPhases
<1>5. \A c \in Channels : bg'[c] = bg[c] \/ (c \in sync.tell /\ bg'[c] = Spawn(c))
  BY <1>1
<1>6. \A c \in Channels :
        /\ Spawn(c) \in [at: BgPhases, base: Nat, pts: Nat, upto: Nat,
                         new: SUBSET Nat, gone: SUBSET Nat, more: BOOLEAN]
        /\ Spawn(c).at = "load" /\ Spawn(c).base = pts[c] /\ Spawn(c).pts = 0
        /\ Spawn(c).upto = 0 /\ Spawn(c).new = {} /\ Spawn(c).gone = {}
  BY CursorFacts DEF Spawn, Resting, BgPhases
<1>7. TypeOK'
  <2>1. bg' \in [Channels -> [at: BgPhases, base: Nat, pts: Nat, upto: Nat,
                              new: SUBSET Nat, gone: SUBSET Nat, more: BOOLEAN]]
    BY <1>1, <1>5, <1>6 DEF Shape, TypeOK
  <2> QED
    BY <1>1, <1>3, <1>4, <2>1 DEF Shape, TypeOK, Idle
<1>8. LogInv' /\ JobInv'
  BY <1>1, <1>3, LogStill DEF Shape, JobInv, TypeOK, Jobs
<1>9. BoundInv'
  BY <1>1, <1>4, <1>5, <1>6, CursorFacts, LogStill DEF Shape, BoundInv
<1>10. PageInv'
  BY <1>1, <1>5, <1>6, LogStill DEF Shape, PageInv
<1>11. SyncInv'
  BY <1>1, <1>4 DEF Shape, SyncInv
<1> QED
  BY <1>7, <1>8, <1>9, <1>10, <1>11 DEF Shape

LEMMA SaveShape == ASSUME Shape, SaveState PROVE Shape'
<1>1. /\ mode = "sync" /\ sync.at = "save" /\ mode' = mode
      /\ UNCHANGED <<log, pts, docs, bg, live, waived, events, stops>>
      /\ state' = [pts |-> sync.upto, date |-> sync.date] \/ state' = state
      /\ sync' = [sync EXCEPT !.at = IF sync.more THEN "fetch" ELSE "register",
                              !.pts = sync.upto]
  BY DEF SaveState, SyncAt, AfterSave
<1>2. sync' \in Syncing /\ state' \in [pts: Nat, date: Dates]
  <2> DEFINE at == IF sync.more THEN "fetch" ELSE "register"
  <2>1. at \in SyncPhases \ {"off"}
    BY DEF SyncPhases
  <2>2. sync' = [sync EXCEPT !.at = at, !.pts = sync.upto]
    BY <1>1
  <2> HIDE DEF at
  <2>3. sync' \in Syncing
    BY <2>1, <2>2 DEF Shape, TypeOK, Syncing
  <2>4. state' \in [pts: Nat, date: Dates]
    BY <1>1, CursorFacts DEF Shape, TypeOK
  <2> QED
    BY <2>3, <2>4
<1>3. /\ sync'.pts = sync.upto /\ sync'.upto = sync.upto /\ sync'.date = sync.date
      /\ sync'.at = (IF sync.more THEN "fetch" ELSE "register") /\ sync'.tell = sync.tell
  BY <1>1 DEF Shape, TypeOK
<1>4. SyncInv'
  BY <1>1, <1>3 DEF Shape, SyncInv
<1>5. /\ state'.pts <= Now(Common) /\ sync'.pts <= Now(Common) /\ sync'.upto <= Now(Common)
      /\ \A c \in Channels : state'.date[c] <= Now(c) /\ sync'.date[c] <= Now(c)
  BY <1>1, <1>3, CursorFacts DEF Shape, BoundInv
<1> QED
  BY <1>1, <1>2, <1>4, <1>5, SyncShape DEF Shape, TypeOK

LEMMA RegisterShape == ASSUME Shape, RegisterHandlers PROVE Shape'
<1>1. /\ mode = "sync" /\ sync.at = "register" /\ mode' = "live" /\ sync' = Asleep
      /\ waived' = [b \in Boxes |-> waived[b] \cup
                     About(b, IF b = Common THEN sync.pts ELSE sync.date[b], Now(b))]
      /\ UNCHANGED <<log, state, pts, docs, bg, live, events, stops>>
  BY DEF RegisterHandlers, SyncAt
<1>2. waived' \in [Boxes -> SUBSET Nat]
  <2>1. \A b \in Boxes : About(b, IF b = Common THEN sync.pts ELSE sync.date[b], Now(b)) \subseteq Nat
    <3> SUFFICES ASSUME NEW b \in Boxes
                 PROVE  About(b, IF b = Common THEN sync.pts ELSE sync.date[b], Now(b)) \subseteq Nat
      OBVIOUS
    <3> DEFINE lo == IF b = Common THEN sync.pts ELSE sync.date[b]
    <3>1. lo \in Nat /\ Now(b) \in Nat /\ Now(b) <= Now(b)
      BY CursorFacts
    <3> HIDE DEF lo
    <3>2. About(b, lo, Now(b)) \subseteq Nat
      BY <3>1, AboutFacts, PostedNat DEF Shape
    <3> QED
      BY <3>2 DEF lo
  <2> QED
    BY <1>1, <2>1 DEF Shape, TypeOK
<1>3. /\ Asleep.at = "off" /\ Asleep.pts = 0 /\ Asleep.upto = 0 /\ Asleep.tell = {}
      /\ \A c \in Channels : Asleep.date[c] = 0
      /\ Asleep \in [at: SyncPhases, pts: Nat, date: Dates, upto: Nat,
                     tell: SUBSET Channels, more: BOOLEAN]
  BY DEF Asleep, SyncPhases, Dates
<1>4. TypeOK'
  BY <1>1, <1>2, <1>3 DEF Shape, TypeOK
<1>5. LogInv' /\ JobInv' /\ PageInv'
  BY <1>1, LogStill DEF Shape, JobInv, PageInv, TypeOK, Jobs
<1>6. BoundInv'
  BY <1>1, <1>3, CursorFacts, LogStill DEF Shape, BoundInv
<1>7. SyncInv'
  BY <1>1, <1>3 DEF SyncInv
<1> QED
  BY <1>4, <1>5, <1>6, <1>7 DEF Shape

LEMMA StopShape == ASSUME Shape, Stop PROVE Shape'
<1>1. /\ mode' = "down" /\ stops' = stops + 1 /\ sync' = Asleep
      /\ bg' = [c \in Channels |-> Resting] /\ live' = {}
      /\ waived' = [b \in Boxes |-> waived[b] \cup CutShort(b)]
      /\ UNCHANGED <<log, state, pts, docs, events>>
  BY DEF Stop
<1>2. \A b \in Boxes : CutShort(b) \subseteq Nat
  <2> SUFFICES ASSUME NEW b \in Boxes PROVE CutShort(b) \subseteq Nat
    OBVIOUS
  <2>1. {j.msg : j \in {k \in live : k.box = b}} \subseteq Nat
    BY DEF Shape, TypeOK, Jobs
  <2>2. b \in Channels =>
          /\ About(b, bg[b].base, Now(b)) \subseteq Nat
          /\ About(b, bg[b].pts, Now(b)) \subseteq Nat
    BY AboutFacts, PostedNat, CursorFacts DEF Shape
  <2> QED
    BY <2>1, <2>2 DEF CutShort
<1>3. waived' \in [Boxes -> SUBSET Nat]
  BY <1>1, <1>2 DEF Shape, TypeOK
<1>4. /\ Asleep.at = "off" /\ Asleep.pts = 0 /\ Asleep.upto = 0 /\ Asleep.tell = {}
      /\ \A c \in Channels : Asleep.date[c] = 0
      /\ Asleep \in [at: SyncPhases, pts: Nat, date: Dates, upto: Nat,
                     tell: SUBSET Channels, more: BOOLEAN]
  BY DEF Asleep, SyncPhases, Dates
<1>5. /\ Resting.at = "off" /\ Resting.base = 0 /\ Resting.pts = 0 /\ Resting.upto = 0
      /\ Resting.new = {} /\ Resting.gone = {}
      /\ Resting \in [at: BgPhases, base: Nat, pts: Nat, upto: Nat,
                      new: SUBSET Nat, gone: SUBSET Nat, more: BOOLEAN]
  BY DEF Resting, BgPhases
<1>6. TypeOK'
  BY <1>1, <1>3, <1>4, <1>5 DEF Shape, TypeOK, Idle
<1>7. LogInv' /\ JobInv'
  BY <1>1, LogStill DEF Shape, JobInv
<1>8. BoundInv' /\ SyncInv' /\ PageInv'
  BY <1>1, <1>4, <1>5, CursorFacts, LogStill DEF Shape, BoundInv, SyncInv, PageInv
<1> QED
  BY <1>6, <1>7, <1>8 DEF Shape

\* A step of one channel's goroutine, which says what it makes of it.
Syncers == [at: BgPhases, base: Nat, pts: Nat, upto: Nat,
            new: SUBSET Nat, gone: SUBSET Nat, more: BOOLEAN]

LEMMA GoroutineShape ==
  ASSUME Shape, NEW c \in Channels, NEW g \in Syncers, bg[c].at # "off", mode # "down",
         bg' = [bg EXCEPT ![c] = g],
         UNCHANGED <<log, state, mode, sync, live, events, stops>>,
         docs' \in [Boxes -> SUBSET Nat], waived' \in [Boxes -> SUBSET Nat], pts' \in Dates,
         \A b \in Boxes : docs'[b] \subseteq Posted(b),
         \A d \in Channels : pts'[d] <= Now(d),
         g.base <= Now(c), g.pts <= Now(c), g.upto <= Now(c),
         g.new \subseteq Posted(c), g.gone \subseteq Deleted(c),
         g.at \in {"process", "save"} => g.pts <= g.upto
  PROVE  Shape'
<1>1. \A d \in Channels : bg'[d] = IF d = c THEN g ELSE bg[d]
  BY DEF Shape, TypeOK
<1>2. TypeOK'
  BY DEF Shape, TypeOK, Idle, Syncers
<1>3. LogInv' /\ JobInv'
  BY LogStill DEF Shape, JobInv, TypeOK, Jobs
<1>4. BoundInv'
  BY <1>1, LogStill DEF Shape, BoundInv
<1>5. PageInv'
  BY <1>1, LogStill DEF Shape, PageInv
<1>6. SyncInv'
  BY <1>1 DEF Shape, SyncInv
<1> QED
  BY <1>2, <1>3, <1>4, <1>5, <1>6 DEF Shape

LEMMA QuietShape ==
  ASSUME Shape, NEW c \in Channels, NEW g \in Syncers, bg[c].at # "off", mode # "down",
         bg' = [bg EXCEPT ![c] = g],
         UNCHANGED <<log, state, pts, docs, mode, sync, live, events, stops>>,
         waived' \in [Boxes -> SUBSET Nat],
         g.base <= Now(c), g.pts <= Now(c), g.upto <= Now(c),
         g.new \subseteq Posted(c), g.gone \subseteq Deleted(c),
         g.at \in {"process", "save"} => g.pts <= g.upto
  PROVE  Shape'
<1>1. /\ docs' \in [Boxes -> SUBSET Nat] /\ pts' \in Dates
      /\ \A b \in Boxes : docs'[b] \subseteq Posted(b)
      /\ \A d \in Channels : pts'[d] <= Now(d)
  BY DEF Shape, TypeOK, JobInv, BoundInv
<1>2. UNCHANGED <<log, state, mode, sync, live, events, stops>>
  OBVIOUS
<1> QED
  BY <1>1, <1>2, GoroutineShape

LEMMA RestShape ==
  ASSUME Shape, NEW c \in Channels, bg[c].at # "off", mode # "down",
         bg' = [bg EXCEPT ![c] = Resting],
         UNCHANGED <<log, state, pts, docs, mode, sync, live, events, stops>>,
         waived' \in [Boxes -> SUBSET Nat]
  PROVE  Shape'
<1>1. Resting \in Syncers /\ Resting.at = "off" /\ Resting.new = {} /\ Resting.gone = {}
  BY DEF Resting, Syncers, BgPhases
<1>2. Resting.base <= Now(c) /\ Resting.pts <= Now(c) /\ Resting.upto <= Now(c)
  BY CursorFacts DEF Resting
<1> QED
  BY <1>1, <1>2, QuietShape

LEMMA RestingFacts ==
  /\ Resting \in Syncers /\ Resting.at = "off" /\ Resting.base = 0 /\ Resting.pts = 0
  /\ Resting.upto = 0 /\ Resting.new = {} /\ Resting.gone = {}
BY DEF Resting, Syncers, BgPhases

LEMMA WaiveType ==
  ASSUME Shape, NEW b \in Boxes, NEW msgs \in SUBSET Posted(b), Waive(b, msgs)
  PROVE  waived' \in [Boxes -> SUBSET Nat]
BY PostedNat DEF Shape, TypeOK, Waive

LEMMA GoroutineFacts ==
  ASSUME Shape, NEW c \in Channels
  PROVE  /\ bg[c] \in Syncers /\ Now(c) \in Nat
         /\ bg[c].base <= Now(c) /\ bg[c].pts <= Now(c) /\ bg[c].upto <= Now(c)
         /\ pts[c] \in Nat /\ pts[c] <= Now(c)
         /\ bg[c].new \subseteq Posted(c) /\ bg[c].gone \subseteq Deleted(c)
         /\ Deleted(c) \subseteq Posted(c) /\ Posted(c) \subseteq Nat
         /\ docs \in [Boxes -> SUBSET Nat] /\ waived \in [Boxes -> SUBSET Nat] /\ pts \in Dates
         /\ \A b \in Boxes : docs[b] \subseteq Posted(b)
         /\ \A d \in Channels : pts[d] <= Now(d)
         /\ \A lo \in Nat : About(c, lo, Now(c)) \subseteq Posted(c)
         /\ \A lo \in Nat, hi \in Nat : hi <= Now(c) => About(c, lo, hi) \subseteq Posted(c)
         /\ bg \in [Channels -> Syncers]
         /\ bg[c].at \in {"process", "save"} => bg[c].pts <= bg[c].upto
<1>1. Now(c) \in Nat /\ Now(c) <= Now(c)
  BY CursorFacts
<1> QED
  BY <1>1, CursorFacts, AboutFacts, PostedNat, DeletedNat
     DEF Shape, TypeOK, BoundInv, JobInv, PageInv, Syncers

LEMMA LoadShape == ASSUME Shape, NEW c \in Channels, LoadPts(c) PROVE Shape'
<1>1. /\ bg[c].at = "load" /\ mode # "down"
      /\ UNCHANGED <<log, state, pts, docs, mode, sync, live, events, stops>>
  BY DEF LoadPts, BgAt
<1>2. CASE pts[c] = 0
  <2>1. bg' = [bg EXCEPT ![c] = Resting] /\ Waive(c, About(c, 0, Now(c)))
    BY <1>2 DEF LoadPts
  <2>2. waived' \in [Boxes -> SUBSET Nat]
    BY <2>1, WaiveType, GoroutineFacts
  <2> QED
    BY <1>1, <2>1, <2>2, RestShape
<1>3. CASE pts[c] # 0
  <2> DEFINE g == [bg[c] EXCEPT !.at = "fetch", !.pts = pts[c], !.base = 0]
  <2>1. bg' = [bg EXCEPT ![c] = g] /\ Waive(c, About(c, bg[c].base, pts[c]))
    BY <1>3, GoroutineFacts DEF LoadPts
  <2>2. waived' \in [Boxes -> SUBSET Nat]
    BY <2>1, WaiveType, GoroutineFacts DEF Syncers
  <2>3. /\ g \in Syncers /\ g.at = "fetch" /\ g.base = 0 /\ g.pts = pts[c] /\ g.upto = bg[c].upto
        /\ g.new = bg[c].new /\ g.gone = bg[c].gone
    BY GoroutineFacts DEF Syncers, BgPhases
  <2>4. /\ g.base <= Now(c) /\ g.pts <= Now(c) /\ g.upto <= Now(c)
        /\ g.new \subseteq Posted(c) /\ g.gone \subseteq Deleted(c)
    BY <2>3, CursorFacts, GoroutineFacts
  <2> HIDE DEF g
  <2> QED
    BY <1>1, <2>1, <2>2, <2>3, <2>4, QuietShape
<1> QED
  BY <1>2, <1>3

LEMMA FailsShape == ASSUME Shape, NEW c \in Channels, ChannelSyncFails(c) PROVE Shape'
<1>1. /\ bg[c].at = "fetch" /\ mode # "down"
      /\ UNCHANGED <<log, state, pts, docs, mode, sync, live, events, stops>>
      /\ bg' = [bg EXCEPT ![c] = Resting] /\ Waive(c, About(c, bg[c].pts, Now(c)))
  BY DEF ChannelSyncFails, BgAt
<1>2. waived' \in [Boxes -> SUBSET Nat]
  BY <1>1, WaiveType, GoroutineFacts DEF Syncers
<1> QED
  BY <1>1, <1>2, RestShape

\* What the three answers make of the goroutine.
Answer(c, g) ==
  /\ g.base = bg[c].base /\ g.pts = bg[c].pts
  /\ \/ /\ g.at = "save" /\ g.upto = Now(c) /\ ~g.more /\ bg[c].pts = Now(c)
        /\ g.new = bg[c].new /\ g.gone = bg[c].gone /\ waived' = waived
     \/ /\ g.at = "process" /\ bg[c].pts <= g.upto /\ g.upto <= Now(c)
        /\ g.new = (((bg[c].pts + 1)..g.upto) \cap Posted(c)) \ Deleted(c)
        /\ g.gone = {log[c][i] : i \in (bg[c].pts + 1)..g.upto} \ {Post}
        /\ g.upto < Now(c) => g.more
        /\ waived' = waived
     \/ /\ g.at = "process" /\ bg[c].pts < Now(c) /\ g.upto = Now(c) /\ ~g.more
        /\ g.new = Posted(c) \cap {Now(c)} /\ g.gone = {}
        /\ Waive(c, About(c, bg[c].pts, Now(c)) \ (Posted(c) \cap {Now(c)}))

LEMMA AnswerFacts ==
  ASSUME Shape, NEW c \in Channels, GetChannelDifference(c)
  PROVE  /\ bg[c].at = "fetch" /\ mode # "down"
         /\ UNCHANGED <<log, state, pts, docs, mode, sync, live, events, stops>>
         /\ \E g \in Syncers : bg' = [bg EXCEPT ![c] = g] /\ Answer(c, g)
<1>1. /\ bg[c].at = "fetch" /\ mode # "down"
      /\ UNCHANGED <<log, state, pts, docs, mode, sync, live, events, stops>>
  BY DEF GetChannelDifference, ChannelEmpty, ChannelPage, ChannelTooLong, BgAt
<1>2. /\ bg \in [Channels -> Syncers] /\ bg[c].pts \in Nat /\ bg[c].pts <= Now(c) /\ Now(c) \in Nat
      /\ bg[c] \in Syncers
      /\ Posted(c) \subseteq Nat /\ \A i \in 1..Now(c) : log[c][i] \in Nat
  BY GoroutineFacts, LogFacts DEF Syncers, Shape
<1>3. CASE ChannelEmpty(c)
  <2> DEFINE g == [bg[c] EXCEPT !.at = "save", !.upto = Now(c), !.more = FALSE]
  <2>1. bg' = [bg EXCEPT ![c] = g] /\ Now(c) <= bg[c].pts /\ waived' = waived
    BY <1>2, <1>3 DEF ChannelEmpty
  <2>2. g \in Syncers /\ g.at = "save" /\ g.upto = Now(c) /\ ~g.more /\ g.base = bg[c].base
        /\ g.pts = bg[c].pts /\ g.new = bg[c].new /\ g.gone = bg[c].gone
    BY <1>2 DEF Syncers, BgPhases
  <2> HIDE DEF g
  <2>3. Answer(c, g)
    BY <1>2, <2>1, <2>2 DEF Answer
  <2> QED
    BY <1>1, <2>1, <2>2, <2>3
<1>4. CASE ChannelPage(c)
  <2> DEFINE upto == IF ChannelGap(c) <= PageSize THEN Now(c) ELSE bg[c].pts + PageSize
             new == (((bg[c].pts + 1)..upto) \cap Posted(c)) \ Deleted(c)
             gone == {log[c][i] : i \in (bg[c].pts + 1)..upto} \ {Post}
             more == upto < Now(c)
             g == [bg[c] EXCEPT !.at = "process", !.upto = upto, !.new = new, !.gone = gone,
                                !.more = more]
  <2>1. bg' = [bg EXCEPT ![c] = g] /\ Now(c) > bg[c].pts /\ waived' = waived
    BY <1>2, <1>4 DEF ChannelPage
  <2>2. upto \in Nat /\ bg[c].pts <= upto /\ upto <= Now(c)
    BY <1>2, <2>1, SizeAssumption DEF ChannelGap
  <2> HIDE DEF upto
  <2>3. new \in SUBSET Nat /\ gone \in SUBSET Nat /\ more \in BOOLEAN
    BY <1>2, <2>2
  <2> HIDE DEF new, gone, more
  <2>4. g \in Syncers /\ g.at = "process" /\ g.upto = upto /\ g.more = more
        /\ g.base = bg[c].base /\ g.pts = bg[c].pts /\ g.new = new /\ g.gone = gone
    BY <1>2, <2>2, <2>3 DEF Syncers, BgPhases
  <2> HIDE DEF g
  <2>5. Answer(c, g)
    BY <2>1, <2>2, <2>4 DEF Answer, new, gone, more
  <2> QED
    BY <1>1, <2>1, <2>4, <2>5
<1>5. CASE ChannelTooLong(c)
  <2> DEFINE g == [bg[c] EXCEPT !.at = "process", !.upto = Now(c),
                                !.new = Posted(c) \cap {Now(c)}, !.gone = {}, !.more = FALSE]
  <2>1. /\ bg' = [bg EXCEPT ![c] = g] /\ ChannelGap(c) > PageSize
        /\ Waive(c, About(c, bg[c].pts, Now(c)) \ (Posted(c) \cap {Now(c)}))
    BY <1>2, <1>5 DEF ChannelTooLong
  <2>2. bg[c].pts < Now(c)
    BY <1>2, <2>1, SizeAssumption DEF ChannelGap
  <2>3. g \in Syncers /\ g.at = "process" /\ g.upto = Now(c) /\ ~g.more /\ g.base = bg[c].base
        /\ g.pts = bg[c].pts /\ g.new = Posted(c) \cap {Now(c)} /\ g.gone = {}
    BY <1>2 DEF Syncers, BgPhases
  <2> HIDE DEF g
  <2>4. Answer(c, g)
    BY <2>1, <2>2, <2>3 DEF Answer
  <2> QED
    BY <1>1, <2>1, <2>3, <2>4
<1> QED
  BY <1>3, <1>4, <1>5 DEF GetChannelDifference

LEMMA AnswerShape == ASSUME Shape, NEW c \in Channels, GetChannelDifference(c) PROVE Shape'
<1>1. PICK g \in Syncers : bg' = [bg EXCEPT ![c] = g] /\ Answer(c, g)
  BY AnswerFacts
<1>2. /\ bg[c].pts \in Nat /\ bg[c].base \in Nat /\ g.upto \in Nat /\ Now(c) \in Nat
      /\ bg[c].pts <= Now(c) /\ bg[c].base <= Now(c)
  BY GoroutineFacts DEF Syncers
<1>3. g.base <= Now(c) /\ g.pts <= Now(c) /\ g.upto <= Now(c) /\ g.pts <= g.upto
  BY <1>1, <1>2 DEF Answer
<1>4. g.new \subseteq Posted(c)
  BY <1>1, GoroutineFacts DEF Answer
<1>5. g.gone \subseteq Deleted(c)
  BY <1>1, <1>2, GoroutineFacts DEF Answer, Deleted
<1>6. waived' \in [Boxes -> SUBSET Nat]
  <2>1. CASE waived' = waived
    BY <2>1, GoroutineFacts
  <2>2. CASE Waive(c, About(c, bg[c].pts, Now(c)) \ (Posted(c) \cap {Now(c)}))
    BY <1>2, <2>2, GoroutineFacts, WaiveType
  <2> QED
    BY <1>1, <2>1, <2>2 DEF Answer
<1> QED
  BY <1>1, <1>3, <1>4, <1>5, <1>6, AnswerFacts, QuietShape

LEMMA PageShape == ASSUME Shape, NEW c \in Channels, ProcessChannelDifference(c) PROVE Shape'
<1> DEFINE g == [bg[c] EXCEPT !.at = "save", !.new = {}, !.gone = {}]
<1>1. /\ bg[c].at = "process" /\ mode # "down"
      /\ UNCHANGED <<log, state, pts, mode, sync, live, events, stops>>
      /\ bg' = [bg EXCEPT ![c] = g]
      /\ \/ /\ docs' = [docs EXCEPT ![c] = (@ \cup bg[c].new) \ bg[c].gone]
            /\ Waive(c, Late(c, bg[c].new))
         \/ Waive(c, bg[c].new \cup bg[c].gone) /\ docs' = docs
  BY GoroutineFacts DEF ProcessChannelDifference, BgAt
<1>2. /\ g \in Syncers /\ g.at = "save" /\ g.base = bg[c].base /\ g.pts = bg[c].pts
      /\ g.upto = bg[c].upto /\ g.new = {} /\ g.gone = {}
  BY GoroutineFacts DEF Syncers, BgPhases
<1> HIDE DEF g
<1>3. Late(c, bg[c].new) \subseteq Posted(c) /\ bg[c].new \cup bg[c].gone \subseteq Posted(c)
  BY GoroutineFacts DEF Late
<1>4. waived' \in [Boxes -> SUBSET Nat]
  BY <1>1, <1>3, WaiveType
<1>5. /\ docs' \in [Boxes -> SUBSET Nat] /\ pts' \in Dates
      /\ \A b \in Boxes : docs'[b] \subseteq Posted(b)
      /\ \A d \in Channels : pts'[d] <= Now(d)
  BY <1>1, GoroutineFacts
<1>6. g.pts <= g.upto
  BY <1>1, <1>2, GoroutineFacts
<1>7. g.base <= Now(c) /\ g.pts <= Now(c) /\ g.upto <= Now(c)
  BY <1>2, GoroutineFacts
<1>8. UNCHANGED <<log, state, mode, sync, live, events, stops>>
  BY <1>1
<1>9. g.new \subseteq Posted(c) /\ g.gone \subseteq Deleted(c)
  BY <1>2
<1>10. bg[c].at # "off"
  BY <1>1
<1> QED
  BY <1>1, <1>2, <1>4, <1>5, <1>6, <1>7, <1>8, <1>9, <1>10, GoroutineShape

\* Where a save leaves the goroutine.
AfterPage(c) == IF bg[c].more THEN [bg[c] EXCEPT !.at = "fetch", !.pts = bg[c].upto] ELSE Resting

LEMMA AfterPageFacts ==
  ASSUME Shape, NEW c \in Channels
  PROVE  /\ AfterPage(c) \in Syncers
         /\ bg[c].more => /\ AfterPage(c).at = "fetch" /\ AfterPage(c).pts = bg[c].upto
                          /\ AfterPage(c).base = bg[c].base /\ AfterPage(c).upto = bg[c].upto
                          /\ AfterPage(c).new = bg[c].new /\ AfterPage(c).gone = bg[c].gone
         /\ ~bg[c].more => AfterPage(c) = Resting
<1>1. CASE bg[c].more
  BY <1>1, GoroutineFacts DEF AfterPage, Syncers, BgPhases
<1>2. CASE ~bg[c].more
  BY <1>2, RestingFacts DEF AfterPage
<1> QED
  BY <1>1, <1>2

LEMMA SavePtsFacts ==
  ASSUME Shape, NEW c \in Channels, SaveChannelPts(c)
  PROVE  /\ bg[c].at = "save" /\ mode # "down"
         /\ UNCHANGED <<log, state, docs, mode, sync, live, waived, events, stops>>
         /\ bg' = [bg EXCEPT ![c] = AfterPage(c)]
         /\ pts' \in Dates
         /\ \A d \in Channels : pts'[d] = pts[d] \/ (d = c /\ pts'[d] = bg[c].upto)
<1>1. /\ bg[c].at = "save" /\ mode # "down"
      /\ UNCHANGED <<log, state, docs, mode, sync, live, waived, events, stops>>
      /\ bg' = [bg EXCEPT ![c] = AfterPage(c)]
      /\ pts' = [pts EXCEPT ![c] = bg[c].upto] \/ pts' = pts
  BY GoroutineFacts DEF SaveChannelPts, BgAt, AfterPage
<1> QED
  BY <1>1, GoroutineFacts DEF Dates, Syncers

LEMMA SavePtsShape == ASSUME Shape, NEW c \in Channels, SaveChannelPts(c) PROVE Shape'
<1>1. /\ AfterPage(c).base <= Now(c) /\ AfterPage(c).pts <= Now(c) /\ AfterPage(c).upto <= Now(c)
      /\ AfterPage(c).new \subseteq Posted(c) /\ AfterPage(c).gone \subseteq Deleted(c)
      /\ AfterPage(c).at \in {"process", "save"} => AfterPage(c).pts <= AfterPage(c).upto
      /\ AfterPage(c) \in Syncers
  BY AfterPageFacts, GoroutineFacts, RestingFacts
<1>2. /\ docs' \in [Boxes -> SUBSET Nat] /\ waived' \in [Boxes -> SUBSET Nat] /\ pts' \in Dates
      /\ \A b \in Boxes : docs'[b] \subseteq Posted(b)
      /\ \A d \in Channels : pts'[d] <= Now(d)
  BY SavePtsFacts, GoroutineFacts
<1>3. /\ UNCHANGED <<log, state, mode, sync, live, events, stops>>
      /\ bg[c].at # "off" /\ mode # "down" /\ bg' = [bg EXCEPT ![c] = AfterPage(c)]
  BY SavePtsFacts
<1> QED
  BY <1>1, <1>2, <1>3, GoroutineShape

\* A step of a live handler: it moves on, or it ends.
LEMMA HandlerShape ==
  ASSUME Shape, NEW j \in live, UNCHANGED <<log, mode, sync, bg, events, stops>>,
         \/ live' = live \ {j}
         \/ \E k \in Jobs : /\ live' = (live \ {j}) \cup {k}
                            /\ k.box = j.box /\ k.msg = j.msg /\ k.kind = j.kind
                            /\ k.kind = "delete" => k.at = "read"
                            /\ k.at = "save" => k.box = Common,
         state' \in [pts: Nat, date: Dates], pts' \in Dates,
         docs' \in [Boxes -> SUBSET Nat], waived' \in [Boxes -> SUBSET Nat],
         \A b \in Boxes : docs'[b] \subseteq Posted(b),
         state'.pts <= Now(Common),
         \A c \in Channels : state'.date[c] <= Now(c) /\ pts'[c] <= Now(c)
  PROVE  Shape'
<1>1. mode = "live"
  BY DEF Shape, TypeOK
<1>2. TypeOK'
  <2>1. live' \subseteq Jobs
    BY DEF Shape, TypeOK
  <2> QED
    BY <1>1, <2>1 DEF Shape, TypeOK
<1>3. LogInv' /\ PageInv' /\ SyncInv'
  BY LogStill DEF Shape, PageInv, SyncInv
<1>4. BoundInv'
  BY LogStill DEF Shape, BoundInv
<1>5. JobInv'
  BY LogStill DEF Shape, JobInv, TypeOK, Jobs
<1> QED
  BY <1>2, <1>3, <1>4, <1>5 DEF Shape

LEMMA JobFacts ==
  ASSUME Shape, NEW j \in live
  PROVE  /\ j.box \in Boxes /\ j.msg \in Nat /\ j.kind \in {"post", "delete"} /\ j \in Jobs
         /\ j.msg \in Posted(j.box) /\ j.msg <= Now(j.box) /\ j.msg \in 1..Now(j.box)
         /\ j.kind = "delete" => j.box \in Channels /\ j.msg \in Deleted(j.box) /\ j.at = "read"
         /\ j.at = "save" => j.box = Common
         /\ mode = "live"
<1>1. j \in Jobs /\ j.msg \in Posted(j.box) /\ j.box \in Boxes
  BY DEF Shape, TypeOK, JobInv, Jobs
<1>2. Now(j.box) \in Nat
  BY <1>1, CursorFacts
<1>3. j.msg \in 1..Now(j.box) /\ j.msg <= Now(j.box)
  BY <1>1, <1>2 DEF Posted
<1>4. /\ j.kind = "delete" => j.box \in Channels /\ j.msg \in Deleted(j.box) /\ j.at = "read"
      /\ j.at = "save" => j.box = Common
      /\ mode = "live"
  BY DEF Shape, TypeOK, JobInv
<1> QED
  BY <1>1, <1>3, <1>4 DEF Jobs

LEMMA MovedJob ==
  ASSUME Shape, NEW j \in live, NEW ph \in {"save", "index"}, Move(j, ph)
  PROVE  \E k \in Jobs : /\ live' = (live \ {j}) \cup {k}
                         /\ k.box = j.box /\ k.msg = j.msg /\ k.kind = j.kind /\ k.at = ph
<1> DEFINE k == [j EXCEPT !.at = ph]
<1>1. k \in Jobs /\ k.box = j.box /\ k.msg = j.msg /\ k.kind = j.kind /\ k.at = ph
  BY JobFacts DEF Jobs
<1>2. live' = (live \ {j}) \cup {k}
  BY DEF Move
<1> QED
  BY <1>1, <1>2

LEMMA KeptFacts ==
  ASSUME Shape
  PROVE  /\ state \in [pts: Nat, date: Dates] /\ pts \in Dates
         /\ docs \in [Boxes -> SUBSET Nat] /\ waived \in [Boxes -> SUBSET Nat]
         /\ \A b \in Boxes : docs[b] \subseteq Posted(b)
         /\ state.pts <= Now(Common)
         /\ \A c \in Channels : state.date[c] <= Now(c) /\ pts[c] <= Now(c)
BY DEF Shape, TypeOK, JobInv, BoundInv

LEMMA HandleShape == ASSUME Shape, NEW j \in live, Handle(j) PROVE Shape'
<1>1. CASE ReadState(j)
  <2>1. /\ j.at = "read" /\ j.box = Common
        /\ Move(j, "save") \/ Move(j, "index")
        /\ UNCHANGED <<log, state, pts, docs, mode, sync, bg, waived, events, stops>>
    BY <1>1 DEF ReadState
  <2>2. \E k \in Jobs : /\ live' = (live \ {j}) \cup {k}
                        /\ k.box = j.box /\ k.msg = j.msg /\ k.kind = j.kind
                        /\ k.kind = "delete" => k.at = "read"
                        /\ k.at = "save" => k.box = Common
    BY <2>1, MovedJob, JobFacts, BoxAssumption
  <2> QED
    BY <2>1, <2>2, KeptFacts, HandlerShape
<1>2. CASE SaveLiveState(j)
  <2>1. /\ j.at = "save" /\ Move(j, "index")
        /\ state' = [state EXCEPT !.pts = j.msg] \/ state' = state
        /\ UNCHANGED <<log, pts, docs, mode, sync, bg, waived, events, stops>>
    BY <1>2 DEF SaveLiveState
  <2>2. \E k \in Jobs : /\ live' = (live \ {j}) \cup {k}
                        /\ k.box = j.box /\ k.msg = j.msg /\ k.kind = j.kind
                        /\ k.kind = "delete" => k.at = "read"
                        /\ k.at = "save" => k.box = Common
    BY <2>1, MovedJob, JobFacts
  <2>3. state' \in [pts: Nat, date: Dates] /\ state'.pts \in {j.msg, state.pts}
        /\ state'.date = state.date
    BY <2>1, JobFacts, KeptFacts
  <2> QED
    BY <2>1, <2>2, <2>3, JobFacts, KeptFacts, HandlerShape
<1>3. CASE SaveLivePts(j)
  <2>1. /\ j.at = "read" /\ j.box \in Channels /\ j.kind = "post" /\ Move(j, "index")
        /\ pts' = [pts EXCEPT ![j.box] = j.msg] \/ pts' = pts
        /\ UNCHANGED <<log, state, docs, mode, sync, bg, waived, events, stops>>
    BY <1>3 DEF SaveLivePts
  <2>2. \E k \in Jobs : /\ live' = (live \ {j}) \cup {k}
                        /\ k.box = j.box /\ k.msg = j.msg /\ k.kind = j.kind
                        /\ k.kind = "delete" => k.at = "read"
                        /\ k.at = "save" => k.box = Common
    BY <2>1, MovedJob
  <2>3. pts' \in Dates /\ \A c \in Channels : pts'[c] <= Now(c)
    BY <2>1, JobFacts, KeptFacts DEF Dates
  <2> QED
    BY <2>1, <2>2, <2>3, KeptFacts, HandlerShape
<1>4. CASE IndexLive(j)
  <2>1. /\ live' = live \ {j}
        /\ UNCHANGED <<log, state, pts, mode, sync, bg, events, stops>>
        /\ \/ /\ docs' = [docs EXCEPT ![j.box] = @ \cup {j.msg}]
              /\ Waive(j.box, Late(j.box, {j.msg}))
           \/ Waive(j.box, {j.msg}) /\ docs' = docs
    BY <1>4 DEF IndexLive
  <2>2. {j.msg} \in SUBSET Posted(j.box) /\ Late(j.box, {j.msg}) \in SUBSET Posted(j.box)
    BY JobFacts DEF Late
  <2>3. waived' \in [Boxes -> SUBSET Nat]
    BY <2>1, <2>2, JobFacts, WaiveType
  <2>4. docs' \in [Boxes -> SUBSET Nat] /\ \A b \in Boxes : docs'[b] \subseteq Posted(b)
    BY <2>1, JobFacts, KeptFacts
  <2> QED
    BY <2>1, <2>3, <2>4, KeptFacts, HandlerShape
<1>5. CASE PurgeLive(j)
  <2>1. /\ live' = live \ {j}
        /\ UNCHANGED <<log, state, pts, mode, sync, bg, events, stops>>
        /\ \/ docs' = [docs EXCEPT ![j.box] = @ \ {j.msg}] /\ waived' = waived
           \/ Waive(j.box, {j.msg}) /\ docs' = docs
    BY <1>5 DEF PurgeLive
  <2>2. {j.msg} \in SUBSET Posted(j.box)
    BY JobFacts
  <2>3. waived' \in [Boxes -> SUBSET Nat]
    BY <2>1, <2>2, JobFacts, KeptFacts, WaiveType
  <2>4. docs' \in [Boxes -> SUBSET Nat] /\ \A b \in Boxes : docs'[b] \subseteq Posted(b)
    BY <2>1, JobFacts, KeptFacts
  <2> QED
    BY <2>1, <2>3, <2>4, KeptFacts, HandlerShape
<1> QED
  BY <1>1, <1>2, <1>3, <1>4, <1>5 DEF Handle

LEMMA PostShape == ASSUME Shape, NEW b \in Boxes, PostMessage(b) PROVE Shape'
<1>1. /\ log' = [log EXCEPT ![b] = Append(@, Post)] /\ Push(b, Now(b) + 1, "post")
      /\ UNCHANGED <<state, pts, docs, mode, sync, bg, waived, stops>> /\ events' = events + 1
  BY DEF PostMessage
<1>2. events' \in Nat /\ Post \in Nat /\ Now(b) + 1 \in Nat
  BY <1>1, CursorFacts DEF Shape, TypeOK, Post
<1> QED
  BY <1>1, <1>2, AppendShape

LEMMA DeleteShape ==
  ASSUME Shape, NEW c \in Channels, NEW m \in Posted(c), DeleteMessage(c, m) PROVE Shape'
<1>1. /\ log' = [log EXCEPT ![c] = Append(@, m)] /\ Push(c, m, "delete")
      /\ UNCHANGED <<state, pts, docs, mode, sync, bg, waived, stops>> /\ events' = events + 1
  BY DEF DeleteMessage
<1>2. events' \in Nat /\ m \in Nat /\ m # Post
  BY <1>1 DEF Shape, TypeOK, Posted, Post
<1> QED
  BY <1>1, <1>2, AppendShape

LEMMA NextShape == ASSUME Shape, Next PROVE Shape'
<1>1. CASE Server
  BY <1>1, PostShape, DeleteShape DEF Server
<1>2. CASE SyncStep
  BY <1>2, CurrentShape, SyncFailsShape, DifferenceShape, ProcessShape, SaveShape,
     RegisterShape DEF SyncStep
<1>3. CASE \E c \in Channels : ChannelStep(c)
  BY <1>3, LoadShape, FailsShape, AnswerShape, PageShape, SavePtsShape DEF ChannelStep
<1> QED
  BY <1>1, <1>2, <1>3, StartShape, StopShape, HandleShape DEF Next

-----------------------------------------------------------------------------
(* What is handled stays handled                                           *)

\* What a step owes each message of a box.
Careful ==
  \A b \in Boxes :
    /\ waived[b] \subseteq waived'[b]
    /\ \A m \in Posted(b) :
         \/ m \in waived'[b]
         \/ /\ m \in docs[b] => m \in docs'[b] \/ m \in Deleted(b)
            /\ Delivering(b, m) => m \in docs'[b] \/ Delivering(b, m)'
            /\ m \in Deleted(b) /\ m \in docs'[b] => m \in docs[b] \/ Purging(b, m)'
            /\ Purging(b, m) => m \notin docs'[b] \/ Purging(b, m)'

LEMMA DoneKept ==
  ASSUME Shape, Grows, Careful, NEW b \in Boxes, NEW i \in 1..Now(b), Done(b, i)
  PROVE  Done(b, i)'
<1>1. /\ i \in 1..Now(b)' /\ Subject(b, i)' = Subject(b, i)
      /\ IsPost(b, i)' <=> IsPost(b, i)
      /\ Deleted(b) \subseteq Deleted(b)' /\ log'[b][i] = log[b][i]
  BY GrowsFacts DEF Shape, Grows
<1>2. CASE IsPost(b, i)
  <2>1. i \in Posted(b) /\ Subject(b, i) = i
    BY <1>2 DEF Posted, Subject
  <2>2. i \in waived[b] \/ i \in docs[b] \/ i \in Deleted(b) \/ Delivering(b, i)
    BY <1>2, <2>1 DEF Done
  <2>3. i \in waived'[b] \/ i \in docs'[b] \/ i \in Deleted(b)' \/ Delivering(b, i)'
    BY <1>1, <2>1, <2>2 DEF Careful
  <2> QED
    BY <1>1, <1>2, <2>1, <2>3 DEF Done
<1>3. CASE ~IsPost(b, i)
  <2>1. PICK m \in Posted(b) : m = log[b][i] /\ m \in Deleted(b) /\ Subject(b, i) = m
    BY <1>3, LogFacts DEF Shape, LogInv, Posted, Deleted, Subject, IsPost
  <2>2. m \in waived[b] \/ m \notin docs[b] \/ Purging(b, m)
    BY <1>3, <2>1 DEF Done
  <2>3. m \in waived'[b] \/ m \notin docs'[b] \/ Purging(b, m)'
    BY <2>1, <2>2 DEF Careful
  <2>4. m \in waived'[b] \/ m \notin docs'[b]
        \/ \E j \in live' : j.box = b /\ j.msg = m /\ j.kind = "delete"
    BY <2>3 DEF Purging
  <2>5. log'[b][i] = m /\ ~IsPost(b, i)' /\ Subject(b, i)' = m
    BY <1>1, <1>3, <2>1
  <2> QED
    BY <2>4, <2>5 DEF Done, Purging
<1> QED
  BY <1>2, <1>3

LEMMA CarefulStill ==
  ASSUME UNCHANGED <<docs, live>>, \A b \in Boxes : waived[b] \subseteq waived'[b]
  PROVE  Careful
BY DEF Careful, Delivering, Purging

Steady == \A b \in Boxes : \A i \in 1..Now(b) : Handled(b, i) => Handled(b, i)'

LEMMA FetchingStill ==
  ASSUME Shape, Grows, NEW c \in Channels, bg'[c] = bg[c], NEW i \in 1..Now(c), Fetching(c, i)
  PROVE  Fetching(c, i)'
<1>1. (IsPost(c, i)' <=> IsPost(c, i)) /\ log'[c][i] = log[c][i]
  BY GrowsFacts DEF Shape, Grows
<1> QED
  BY <1>1 DEF Fetching, InPage

LEMMA SteadyStill ==
  ASSUME Shape, Grows, Careful, UNCHANGED bg
  PROVE  Steady
<1> SUFFICES ASSUME NEW b \in Boxes, NEW i \in 1..Now(b), Handled(b, i) PROVE Handled(b, i)'
  BY DEF Steady
<1>1. CASE Done(b, i)
  BY <1>1, DoneKept DEF Handled
<1>2. CASE b \in Channels /\ Fetching(b, i)
  BY <1>2, FetchingStill DEF Handled
<1> QED
  BY <1>1, <1>2 DEF Handled

LEMMA SteadyGoroutine ==
  ASSUME Shape, UNCHANGED log, Careful, NEW c \in Channels,
         \A d \in Channels : d # c => bg'[d] = bg[d],
         \A i \in 1..Now(c) : Fetching(c, i) => Fetching(c, i)' \/ Done(c, i)'
  PROVE  Steady
<1> SUFFICES ASSUME NEW b \in Boxes, NEW i \in 1..Now(b), Handled(b, i) PROVE Handled(b, i)'
  BY DEF Steady
<1>1. Grows
  BY GrowsStill DEF Shape
<1>2. CASE Done(b, i)
  BY <1>1, <1>2, DoneKept DEF Handled
<1>3. CASE b \in Channels /\ b # c /\ Fetching(b, i)
  BY <1>1, <1>3, FetchingStill DEF Handled
<1>4. CASE b = c /\ Fetching(b, i)
  <2>1. Fetching(c, i)' \/ Done(c, i)'
    BY <1>4
  <2> QED
    BY <1>4, <2>1 DEF Handled, Fetching, Done, InPage, Subject, Delivering, Purging, IsPost, Deleted, Now
<1> QED
  BY <1>2, <1>3, <1>4 DEF Handled

LEMMA PushSteady ==
  ASSUME Shape, NEW b \in Boxes, NEW e \in Nat, log' = [log EXCEPT ![b] = Append(@, e)],
         NEW k, NEW m, Push(b, m, k), UNCHANGED <<docs, bg, waived>>
  PROVE  Grows /\ Steady
<1>1. Grows
  BY Appended DEF Shape
<1>2. live \subseteq live'
  BY DEF Push
<1>3. Careful
  BY <1>2 DEF Careful, Delivering, Purging
<1> QED
  BY <1>1, <1>3, SteadyStill

LEMMA SyncSteady ==
  ASSUME Shape, SyncStep
  PROVE  Grows /\ Steady
<1>1. UNCHANGED log
  BY DEF SyncStep, FetchCurrentState, SyncFails, GetDifference, ProcessDifference, SaveState,
         RegisterHandlers
<1>2. Grows
  BY <1>1, GrowsStill DEF Shape
<1>3. CASE ProcessDifference
  <2>1. /\ sync.at = "process" /\ UNCHANGED live
        /\ bg' = [c \in Channels |-> IF c \in sync.tell THEN Spawn(c) ELSE bg[c]]
        /\ \/ docs' = [docs EXCEPT ![Common] = @ \cup About(Common, sync.pts, sync.upto)]
              /\ waived' = waived
           \/ waived' = [waived EXCEPT ![Common] = @ \cup About(Common, sync.pts, sync.upto)]
              /\ docs' = docs
    BY <1>3 DEF ProcessDifference, SyncAt, Waive
  <2>2. Deleted(Common) = {}
    BY DEF Shape, LogInv, Deleted, IsPost
  <2>3. \A b \in Boxes : waived[b] \subseteq waived'[b] /\ docs[b] \subseteq docs'[b]
                         /\ (b # Common => docs'[b] = docs[b])
    BY <2>1, KeptFacts
  <2>4. Careful
    BY <2>1, <2>2, <2>3 DEF Careful, Delivering, Purging
  <2>5. \A c \in Channels : bg[c].at = "off"
    BY <2>1 DEF Shape, SyncInv
  <2>6. \A c \in Channels : \A i \in 1..Now(c) : ~Fetching(c, i)
    BY <2>5 DEF Fetching
  <2> QED
    BY <1>2, <2>4, <2>6, DoneKept DEF Steady, Handled
<1>4. CASE ~ProcessDifference
  <2>1. UNCHANGED <<docs, live, bg>>
    BY <1>4 DEF SyncStep, FetchCurrentState, SyncFails, GetDifference, SaveState,
           RegisterHandlers
  <2>2. \A b \in Boxes : waived[b] \subseteq waived'[b]
    <3>1. CASE FetchCurrentState
      BY <3>1 DEF FetchCurrentState
    <3>2. CASE GetDifference
      BY <3>2, DifferenceFacts
    <3>3. CASE RegisterHandlers
      BY <3>3 DEF RegisterHandlers
    <3> QED
      BY <1>4, <3>1, <3>2, <3>3 DEF SyncStep, SyncFails, SaveState
  <2> QED
    BY <1>2, <2>1, <2>2, CarefulStill, SteadyStill
<1> QED
  BY <1>3, <1>4

LEMMA WaivedDone ==
  ASSUME Shape, Grows, NEW b \in Boxes, NEW i \in 1..Now(b), Subject(b, i) \in waived'[b]
  PROVE  Done(b, i)'
BY GrowsFacts DEF Shape, Done

LEMMA WaiveFacts ==
  ASSUME Shape, NEW b \in Boxes, NEW msgs, Waive(b, msgs)
  PROVE  /\ msgs \subseteq waived'[b]
         /\ \A a \in Boxes : waived[a] \subseteq waived'[a]
BY KeptFacts DEF Waive

\* A goroutine that ends gives up what it had not come to.
LEMMA GivenUp ==
  ASSUME Shape, UNCHANGED log, NEW c \in Channels, NEW lo \in Nat,
         About(c, lo, Now(c)) \subseteq waived'[c]
  PROVE  \A i \in 1..Now(c) : i > lo => Done(c, i)'
<1> SUFFICES ASSUME NEW i \in 1..Now(c), i > lo PROVE Done(c, i)'
  OBVIOUS
<1>1. Now(c) \in Nat /\ Now(c) <= Now(c) /\ i <= Now(c)
  BY CursorFacts
<1>2. Subject(c, i) \in waived'[c]
  BY <1>1, AboutFacts DEF Shape
<1> QED
  BY <1>2, WaivedDone, GrowsStill DEF Shape

LEMMA LoadSteady == ASSUME Shape, NEW c \in Channels, LoadPts(c) PROVE Steady
<1>1. bg[c].at = "load" /\ UNCHANGED <<log, docs, live>>
  BY DEF LoadPts, BgAt
<1>2. CASE pts[c] = 0
  <2>1. bg' = [bg EXCEPT ![c] = Resting] /\ Waive(c, About(c, 0, Now(c)))
    BY <1>2 DEF LoadPts
  <2>2. \A i \in 1..Now(c) : Done(c, i)'
    BY <1>1, <2>1, WaiveFacts, GivenUp
  <2> QED
    BY <1>1, <2>1, <2>2, WaiveFacts, CarefulStill, SteadyGoroutine
<1>3. CASE pts[c] # 0
  <2>1. /\ bg' = [bg EXCEPT ![c].at = "fetch", ![c].pts = pts[c], ![c].base = 0]
        /\ Waive(c, About(c, bg[c].base, pts[c]))
    BY <1>3 DEF LoadPts
  <2>2. bg'[c].at = "fetch" /\ bg'[c].pts = pts[c] /\ \A d \in Channels : d # c => bg'[d] = bg[d]
    BY <2>1, GoroutineFacts DEF Syncers
  <2>3. ASSUME NEW i \in 1..Now(c), Fetching(c, i) PROVE Fetching(c, i)' \/ Done(c, i)'
    <3>1. i > bg[c].base
      BY <1>1, <2>3 DEF Fetching
    <3>2. CASE i > pts[c]
      BY <2>2, <3>2 DEF Fetching
    <3>3. CASE i <= pts[c]
      <4>1. Subject(c, i) \in About(c, bg[c].base, pts[c])
        BY <3>1, <3>3, AboutFacts, GoroutineFacts, CursorFacts DEF Shape
      <4> QED
        BY <1>1, <2>1, <4>1, WaiveFacts, WaivedDone, GrowsStill DEF Shape
    <3> QED
      BY <3>2, <3>3, CursorFacts
  <2> QED
    BY <1>1, <2>1, <2>2, <2>3, WaiveFacts, CarefulStill, SteadyGoroutine
<1> QED
  BY <1>2, <1>3

LEMMA FailsSteady == ASSUME Shape, NEW c \in Channels, ChannelSyncFails(c) PROVE Steady
<1>1. /\ bg[c].at = "fetch" /\ UNCHANGED <<log, docs, live>>
      /\ bg' = [bg EXCEPT ![c] = Resting] /\ Waive(c, About(c, bg[c].pts, Now(c)))
  BY DEF ChannelSyncFails, BgAt
<1>2. \A i \in 1..Now(c) : Fetching(c, i) => Done(c, i)'
  BY <1>1, WaiveFacts, GivenUp, CursorFacts DEF Fetching
<1> QED
  BY <1>1, <1>2, WaiveFacts, CarefulStill, SteadyGoroutine

\* Every event after the goroutine's pts is done, in the page, or on a later one.
LEMMA AnswerCovers ==
  ASSUME Shape, NEW c \in Channels, GetChannelDifference(c), NEW i \in 1..Now(c),
         i > bg[c].pts
  PROVE  Fetching(c, i)' \/ Done(c, i)'
<1>1. PICK g \in Syncers : bg' = [bg EXCEPT ![c] = g] /\ Answer(c, g)
  BY AnswerFacts
<1>2. bg'[c] = g /\ UNCHANGED <<log, docs, live>> /\ Grows
  BY <1>1, AnswerFacts, GoroutineFacts, GrowsStill DEF Shape
<1>3. /\ bg[c].pts \in Nat /\ Now(c) \in Nat /\ g.upto \in Nat /\ g.pts = bg[c].pts
      /\ i \in 1..Now(c)' /\ log'[c][i] = log[c][i]
      /\ IsPost(c, i)' <=> IsPost(c, i)
  BY <1>1, <1>2, GoroutineFacts, GrowsFacts DEF Answer, Syncers, Shape
<1>4. ~(g.at = "save" /\ bg[c].pts = Now(c))
  BY <1>3
<1>5. CASE /\ g.at = "process" /\ bg[c].pts <= g.upto /\ g.upto <= Now(c)
           /\ g.new = (((bg[c].pts + 1)..g.upto) \cap Posted(c)) \ Deleted(c)
           /\ g.gone = {log[c][k] : k \in (bg[c].pts + 1)..g.upto} \ {Post}
           /\ g.upto < Now(c) => g.more
  <2>1. CASE i > g.upto
    BY <1>2, <1>3, <1>5, <2>1 DEF Fetching
  <2>2. CASE i <= g.upto
    <3>1. i \in (bg[c].pts + 1)..g.upto
      BY <1>3, <2>2
    <3>2. CASE ~IsPost(c, i)
      <4>1. log[c][i] \in g.gone
        BY <1>5, <3>1, <3>2 DEF IsPost
      <4> QED
        BY <1>2, <1>3, <1>5, <3>2, <4>1 DEF Fetching, InPage
    <3>3. CASE IsPost(c, i) /\ i \in Deleted(c)
      <4>1. Deleted(c)' = Deleted(c)
        BY <1>2, LogStill
      <4> QED
        BY <1>3, <3>3, <4>1 DEF Done
    <3>4. CASE IsPost(c, i) /\ i \notin Deleted(c)
      <4>1. i \in g.new
        BY <1>5, <3>1, <3>4 DEF Posted
      <4> QED
        BY <1>2, <1>3, <1>5, <3>4, <4>1 DEF Fetching, InPage
    <3> QED
      BY <3>2, <3>3, <3>4
  <2> QED
    BY <1>3, <2>1, <2>2
<1>6. CASE /\ g.at = "process" /\ bg[c].pts < Now(c) /\ g.upto = Now(c)
           /\ g.new = Posted(c) \cap {Now(c)}
           /\ Waive(c, About(c, bg[c].pts, Now(c)) \ (Posted(c) \cap {Now(c)}))
  <2>1. CASE i \in g.new
    <3>1. IsPost(c, i)
      BY <1>6, <2>1 DEF Posted
    <3> QED
      BY <1>2, <1>3, <1>6, <2>1, <3>1 DEF Fetching, InPage
  <2>2. CASE i \notin g.new
    <3>1. Subject(c, i) \in About(c, bg[c].pts, Now(c))
      BY <1>3, AboutFacts DEF Shape
    <3>2. Subject(c, i) \notin Posted(c) \cap {Now(c)}
      <4>1. CASE IsPost(c, i)
        BY <1>6, <2>2, <4>1 DEF Subject
      <4>2. CASE ~IsPost(c, i)
        <5>1. log[c][i] \in 1..(i - 1)
          BY <4>2 DEF Shape, LogInv, IsPost
        <5> QED
          BY <1>3, <4>2, <5>1 DEF Subject
      <4> QED
        BY <4>1, <4>2
    <3> QED
      BY <1>2, <1>6, <3>1, <3>2, WaiveFacts, WaivedDone
  <2> QED
    BY <2>1, <2>2
<1> QED
  BY <1>1, <1>4, <1>5, <1>6 DEF Answer

LEMMA AnswerSteady == ASSUME Shape, NEW c \in Channels, GetChannelDifference(c) PROVE Steady
<1>1. PICK g \in Syncers : bg' = [bg EXCEPT ![c] = g] /\ Answer(c, g)
  BY AnswerFacts
<1>2. UNCHANGED <<log, docs, live>> /\ bg[c].at = "fetch"
  BY AnswerFacts
<1>3. \A b \in Boxes : waived[b] \subseteq waived'[b]
  BY <1>1, WaiveFacts DEF Answer
<1>4. \A i \in 1..Now(c) : Fetching(c, i) => Fetching(c, i)' \/ Done(c, i)'
  BY <1>2, AnswerCovers DEF Fetching
<1> QED
  BY <1>1, <1>2, <1>3, <1>4, CarefulStill, SteadyGoroutine

LEMMA PageSteady == ASSUME Shape, NEW c \in Channels, ProcessChannelDifference(c) PROVE Steady
<1>1. /\ bg[c].at = "process" /\ UNCHANGED <<log, live>>
      /\ bg' = [bg EXCEPT ![c].at = "save", ![c].new = {}, ![c].gone = {}]
      /\ \/ /\ docs' = [docs EXCEPT ![c] = (@ \cup bg[c].new) \ bg[c].gone]
            /\ Waive(c, Late(c, bg[c].new))
         \/ Waive(c, bg[c].new \cup bg[c].gone) /\ docs' = docs
  BY DEF ProcessChannelDifference, BgAt
<1>2. /\ bg'[c].at = "save" /\ bg'[c].more = bg[c].more /\ bg'[c].upto = bg[c].upto
      /\ \A d \in Channels : d # c => bg'[d] = bg[d]
  BY <1>1, GoroutineFacts DEF Syncers
<1>3. \/ docs'[c] = (docs[c] \cup bg[c].new) \ bg[c].gone /\ Late(c, bg[c].new) \subseteq waived'[c]
      \/ bg[c].new \cup bg[c].gone \subseteq waived'[c] /\ docs' = docs
  BY <1>1, WaiveFacts, KeptFacts
<1>4. \A a \in Boxes : waived[a] \subseteq waived'[a] /\ (a # c => docs'[a] = docs[a])
  BY <1>1, WaiveFacts, KeptFacts
<1>5. bg[c].gone \subseteq Deleted(c) /\ Grows
  BY <1>1, GoroutineFacts, GrowsStill DEF Shape
<1>6. Careful
  BY <1>1, <1>3, <1>4, <1>5 DEF Careful, Delivering, Purging, Late
<1>7. ASSUME NEW i \in 1..Now(c), Fetching(c, i) PROVE Fetching(c, i)' \/ Done(c, i)'
  <2>1. CASE InPage(c, i)
    <3>1. /\ Subject(c, i)' = Subject(c, i) /\ log'[c][i] = log[c][i]
          /\ IsPost(c, i)' <=> IsPost(c, i)
          /\ Deleted(c)' = Deleted(c)
      BY <1>1, LogStill
    <3>2. CASE IsPost(c, i)
      <4>1. i \in bg[c].new /\ Subject(c, i) = i
        BY <2>1, <3>2 DEF InPage, Subject
      <4> QED
        BY <1>3, <1>5, <3>1, <3>2, <4>1 DEF Done
    <3>3. CASE ~IsPost(c, i)
      <4>1. log[c][i] \in bg[c].gone /\ Subject(c, i) = log[c][i]
        BY <2>1, <3>3 DEF InPage, Subject
      <4> QED
        BY <1>3, <3>1, <3>3, <4>1 DEF Done
    <3> QED
      BY <3>2, <3>3
  <2>2. CASE bg[c].more /\ i > bg[c].upto
    BY <1>2, <2>2 DEF Fetching
  <2> QED
    BY <1>1, <1>7, <2>1, <2>2 DEF Fetching
<1> QED
  BY <1>1, <1>2, <1>6, <1>7, SteadyGoroutine

LEMMA SavePtsSteady == ASSUME Shape, NEW c \in Channels, SaveChannelPts(c) PROVE Steady
<1>1. /\ bg[c].at = "save" /\ UNCHANGED <<log, docs, live, waived>>
      /\ bg' = [bg EXCEPT ![c] = AfterPage(c)]
  BY SavePtsFacts
<1>2. bg'[c] = AfterPage(c) /\ \A d \in Channels : d # c => bg'[d] = bg[d]
  BY <1>1, GoroutineFacts
<1>3. \A i \in 1..Now(c) : Fetching(c, i) => Fetching(c, i)'
  BY <1>1, <1>2, AfterPageFacts DEF Fetching
<1> QED
  BY <1>1, <1>2, <1>3, CarefulStill, SteadyGoroutine

LEMMA HandleSteady == ASSUME Shape, NEW j \in live, Handle(j) PROVE Grows /\ Steady
<1>1. UNCHANGED <<log, bg>>
  BY DEF Handle, ReadState, SaveLiveState, SaveLivePts, IndexLive, PurgeLive
<1>2. Grows
  BY <1>1, GrowsStill DEF Shape
<1>3. CASE /\ UNCHANGED <<docs, waived>>
           /\ \E k \in Jobs : /\ live' = (live \ {j}) \cup {k}
                              /\ k.box = j.box /\ k.msg = j.msg /\ k.kind = j.kind
  <2>1. \A b \in Boxes : \A m \in Posted(b) :
          /\ Delivering(b, m) => Delivering(b, m)'
          /\ Purging(b, m) => Purging(b, m)'
    BY <1>3 DEF Delivering, Purging
  <2> QED
    BY <1>1, <1>2, <1>3, <2>1, SteadyStill DEF Careful
<1>4. CASE IndexLive(j)
  <2>1. /\ live' = live \ {j} /\ j.kind = "post" /\ j.box \in Boxes
        /\ \/ /\ docs' = [docs EXCEPT ![j.box] = @ \cup {j.msg}]
              /\ Waive(j.box, Late(j.box, {j.msg}))
           \/ Waive(j.box, {j.msg}) /\ docs' = docs
    BY <1>4, JobFacts DEF IndexLive
  <2>2. \A b \in Boxes : /\ waived[b] \subseteq waived'[b] /\ docs[b] \subseteq docs'[b]
                         /\ b # j.box => docs'[b] = docs[b]
    BY <2>1, WaiveFacts, KeptFacts
  <2>3. \/ docs'[j.box] = docs[j.box] \cup {j.msg} /\ Late(j.box, {j.msg}) \subseteq waived'[j.box]
        \/ j.msg \in waived'[j.box] /\ docs' = docs
    BY <2>1, WaiveFacts, KeptFacts
  <2>4. \A b \in Boxes : \A m \in Posted(b) :
          /\ Delivering(b, m) => Delivering(b, m)' \/ (b = j.box /\ m = j.msg)
          /\ Purging(b, m) => Purging(b, m)'
    BY <2>1 DEF Delivering, Purging
  <2>5. Careful
    BY <2>2, <2>3, <2>4 DEF Careful, Late
  <2> QED
    BY <1>1, <1>2, <2>5, SteadyStill
<1>5. CASE PurgeLive(j)
  <2>1. /\ live' = live \ {j} /\ j.kind = "delete" /\ j.box \in Boxes
        /\ j.msg \in Deleted(j.box)
        /\ \/ docs' = [docs EXCEPT ![j.box] = @ \ {j.msg}] /\ waived' = waived
           \/ Waive(j.box, {j.msg}) /\ docs' = docs
    BY <1>5, JobFacts DEF PurgeLive
  <2>2. \A b \in Boxes : /\ waived[b] \subseteq waived'[b] /\ docs'[b] \subseteq docs[b]
                         /\ b # j.box => docs'[b] = docs[b]
    BY <2>1, WaiveFacts, KeptFacts
  <2>3. \/ docs'[j.box] = docs[j.box] \ {j.msg}
        \/ j.msg \in waived'[j.box] /\ docs' = docs
    BY <2>1, WaiveFacts, KeptFacts
  <2>4. \A b \in Boxes : \A m \in Posted(b) :
          /\ Delivering(b, m) => Delivering(b, m)'
          /\ Purging(b, m) => Purging(b, m)' \/ (b = j.box /\ m = j.msg)
    BY <2>1 DEF Delivering, Purging
  <2>5. Careful
    BY <2>1, <2>2, <2>3, <2>4 DEF Careful
  <2> QED
    BY <1>1, <1>2, <2>5, SteadyStill
<1>6. CASE ReadState(j) \/ SaveLiveState(j) \/ SaveLivePts(j)
  <2>1. /\ UNCHANGED <<docs, waived>>
        /\ Move(j, "save") \/ Move(j, "index")
    BY <1>6 DEF ReadState, SaveLiveState, SaveLivePts
  <2>2. \E k \in Jobs : /\ live' = (live \ {j}) \cup {k}
                        /\ k.box = j.box /\ k.msg = j.msg /\ k.kind = j.kind
    BY <2>1, MovedJob
  <2> QED
    BY <1>3, <2>1, <2>2
<1> QED
  BY <1>4, <1>5, <1>6 DEF Handle

\* What was on its way when the process ends is given up.
LEMMA StopSteady == ASSUME Shape, Stop PROVE Grows /\ Steady
<1>1. /\ UNCHANGED <<log, docs>> /\ live' = {}
      /\ waived' = [b \in Boxes |-> waived[b] \cup CutShort(b)]
  BY DEF Stop
<1>2. Grows
  BY <1>1, GrowsStill DEF Shape
<1>3. \A b \in Boxes : waived[b] \subseteq waived'[b] /\ CutShort(b) \subseteq waived'[b]
  BY <1>1
<1>4. \A b \in Boxes : \A m \in Posted(b) :
        /\ Delivering(b, m) => m \in CutShort(b)
        /\ Purging(b, m) => m \in CutShort(b)
  BY DEF Delivering, Purging, CutShort
<1>5. Careful
  BY <1>1, <1>3, <1>4 DEF Careful
<1>6. ASSUME NEW c \in Channels, NEW i \in 1..Now(c), Fetching(c, i) PROVE Done(c, i)'
  <2>1. bg[c].at # "off"
    BY <1>6 DEF Fetching
  <2>2. CASE bg[c].at = "load"
    <3>1. i > bg[c].base
      BY <1>6, <2>2 DEF Fetching
    <3>2. About(c, bg[c].base, Now(c)) \subseteq waived'[c]
      BY <1>3, <2>2 DEF CutShort
    <3> QED
      BY <1>1, <3>1, <3>2, GivenUp, CursorFacts
  <2>3. CASE bg[c].at # "load"
    <3>1. i > bg[c].pts
      BY <1>6, <2>3, CursorFacts DEF Fetching, InPage, Shape, PageInv
    <3>2. About(c, bg[c].pts, Now(c)) \subseteq waived'[c]
      BY <1>3, <2>1, <2>3 DEF CutShort
    <3> QED
      BY <1>1, <3>1, <3>2, GivenUp, CursorFacts
  <2> QED
    BY <2>2, <2>3
<1>7. Steady
  BY <1>2, <1>5, <1>6, DoneKept DEF Steady, Handled
<1> QED
  BY <1>2, <1>7

\* No step of the server, the sync, a goroutine, a handler or the process
\* loses an event that was handled.
LEMMA NextSteady == ASSUME Shape, Next PROVE Grows /\ Steady
<1>1. CASE Server
  <2>1. ASSUME NEW b \in Boxes, PostMessage(b) PROVE Grows /\ Steady
    <3>1. /\ log' = [log EXCEPT ![b] = Append(@, Post)] /\ Push(b, Now(b) + 1, "post")
          /\ UNCHANGED <<docs, bg, waived>> /\ Post \in Nat
      BY <2>1 DEF PostMessage, Post
    <3> QED
      BY <3>1, PushSteady
  <2>2. ASSUME NEW c \in Channels, NEW m \in Posted(c), DeleteMessage(c, m)
        PROVE  Grows /\ Steady
    <3>1. /\ log' = [log EXCEPT ![c] = Append(@, m)] /\ Push(c, m, "delete")
          /\ UNCHANGED <<docs, bg, waived>> /\ m \in Nat
      BY <2>2, GoroutineFacts DEF DeleteMessage
    <3> QED
      BY <3>1, PushSteady
  <2> QED
    BY <1>1, <2>1, <2>2 DEF Server
<1>2. CASE StartWatch
  <2>1. UNCHANGED <<log, docs, live, bg, waived>>
    BY <1>2 DEF StartWatch
  <2> QED
    BY <2>1, GrowsStill, CarefulStill, SteadyStill DEF Shape
<1>3. CASE \E c \in Channels : ChannelStep(c)
  <2>1. PICK c \in Channels : ChannelStep(c)
    BY <1>3
  <2>2. UNCHANGED log
    BY <2>1 DEF ChannelStep, LoadPts, ChannelSyncFails, GetChannelDifference,
                ProcessChannelDifference, SaveChannelPts
  <2>3. Steady
    BY <2>1, LoadSteady, FailsSteady, AnswerSteady, PageSteady, SavePtsSteady DEF ChannelStep
  <2> QED
    BY <2>2, <2>3, GrowsStill DEF Shape
<1> QED
  BY <1>1, <1>2, <1>3, SyncSteady, StopSteady, HandleSteady DEF Next

-----------------------------------------------------------------------------
(* The cursors stand behind handled events                                 *)

LEMMA HandledKept ==
  ASSUME Shape, Grows, Steady, NEW b \in Boxes, NEW hi \in Nat, hi <= Now(b),
         \A i \in 1..Now(b) : i <= hi => Handled(b, i)
  PROVE  \A i \in 1..Now(b)' : i <= hi => Handled(b, i)'
<1>1. Now(b) \in Nat /\ Now(b)' \in Nat
  BY CursorFacts DEF Grows
<1> QED
  BY <1>1 DEF Steady

LEMMA InBounds ==
  ASSUME Shape
  PROVE  /\ state.pts <= Now(Common) /\ sync.pts <= Now(Common) /\ sync.upto <= Now(Common)
         /\ \A c \in Channels :
              /\ state.date[c] <= Now(c) /\ sync.date[c] <= Now(c) /\ pts[c] <= Now(c)
              /\ bg[c].base <= Now(c) /\ bg[c].pts <= Now(c) /\ bg[c].upto <= Now(c)
BY DEF Shape, BoundInv

LEMMA StoredKept ==
  ASSUME IInv, Grows, Steady, UNCHANGED <<state, pts>> PROVE StoredInv'
<1>1. /\ \A i \in 1..Now(Common)' : i <= state.pts => Handled(Common, i)'
      /\ \A c \in Channels : /\ \A i \in 1..Now(c)' : i <= state.date[c] => Handled(c, i)'
                             /\ \A i \in 1..Now(c)' : i <= pts[c] => Handled(c, i)'
  BY HandledKept, InBounds, CursorFacts DEF IInv, StoredInv, HandledTo
<1> QED
  BY <1>1 DEF StoredInv, HandledTo

LEMMA SyncedKept ==
  ASSUME IInv, Grows, Steady, UNCHANGED sync PROVE SyncedInv'
<1>1. /\ sync.at \in {"current", "fetch", "process", "register"} =>
           \A i \in 1..Now(Common)' : i <= sync.pts => Handled(Common, i)'
      /\ sync.at = "save" => \A i \in 1..Now(Common)' : i <= sync.upto => Handled(Common, i)'
      /\ sync.at # "off" => \A c \in Channels \ sync.tell :
           \A i \in 1..Now(c)' : i <= sync.date[c] => Handled(c, i)'
  BY HandledKept, InBounds, CursorFacts DEF IInv, SyncedInv, HandledTo
<1> QED
  BY <1>1 DEF SyncedInv, HandledTo

LEMMA FetchedKept ==
  ASSUME IInv, Grows, Steady, NEW c \in Channels, bg'[c] = bg[c] PROVE Fetched(c)'
<1>1. /\ bg[c].at = "load" => \A i \in 1..Now(c)' : i <= bg[c].base => Handled(c, i)'
      /\ bg[c].at = "fetch" => \A i \in 1..Now(c)' : i <= bg[c].pts => Handled(c, i)'
      /\ bg[c].at \in {"process", "save"} =>
           \A i \in 1..Now(c)' : i <= bg[c].upto => Handled(c, i)'
  BY HandledKept, InBounds, CursorFacts DEF IInv, FetchedInv, Fetched, HandledTo
<1> QED
  BY <1>1 DEF Fetched, HandledTo

LEMMA FetchedStill ==
  ASSUME IInv, Grows, Steady, UNCHANGED bg PROVE FetchedInv'
BY FetchedKept DEF FetchedInv

LEMMA LiveKept ==
  ASSUME IInv, Grows, Steady, UNCHANGED log, mode' = "live" => mode = "live" PROVE LiveInv'
<1>1. mode' = "live" => \A b \in Boxes : \A i \in 1..Now(b) : Handled(b, i)'
  BY CursorFacts DEF IInv, LiveInv, HandledTo, Steady
<1>2. \A b \in Boxes : Now(b)' = Now(b)
  BY LogStill
<1> QED
  BY <1>1, <1>2 DEF LiveInv, HandledTo

Covered == StoredInv /\ SyncedInv /\ FetchedInv /\ LiveInv

LEMMA InitCovered == ASSUME Init PROVE Covered
<1>1. Shape
  BY InitShape
<1>2. /\ mode = "down" /\ sync.at = "off" /\ \A c \in Channels : bg[c].at = "off"
      /\ \A b \in Boxes : log[b] = <<0>> /\ Now(b) = 1
  BY DEF Init, Asleep, Resting, Now, Post
<1>3. SyncedInv /\ FetchedInv /\ LiveInv
  BY <1>2 DEF SyncedInv, FetchedInv, Fetched, LiveInv
<1>4. CASE Fresh
  <2>1. state.pts = 0 /\ \A c \in Channels : state.date[c] = 0 /\ pts[c] = 0
    BY <1>4 DEF Fresh
  <2>2. \A b \in Boxes : \A i \in 1..Now(b) : ~(i <= 0)
    BY <1>2
  <2> QED
    BY <1>3, <2>1, <2>2 DEF Covered, StoredInv, HandledTo
<1>5. CASE Followed
  <2>1. \A b \in Boxes : waived[b] = {1}
    BY <1>5 DEF Followed
  <2>2. \A b \in Boxes : \A i \in 1..Now(b) : Done(b, i)
    BY <1>2, <2>1 DEF Done, Subject, IsPost, Post
  <2> QED
    BY <1>3, <2>2 DEF Covered, StoredInv, HandledTo, Handled
<1> QED
  BY <1>4, <1>5 DEF Init

\* A new event is pushed to a handler once the handlers are registered.
LEMMA PushCovered ==
  ASSUME IInv, Shape', Grows, Steady, NEW b \in Boxes, NEW e \in Nat,
         log' = [log EXCEPT ![b] = Append(@, e)],
         NEW k \in {"post", "delete"}, NEW m \in Nat, Push(b, m, k),
         UNCHANGED <<state, pts, mode, sync, bg>>,
         IF k = "post" THEN e = Post /\ m = Now(b) + 1 ELSE e # Post /\ e = m
  PROVE  Covered'
<1>1. StoredInv' /\ SyncedInv' /\ FetchedInv'
  BY StoredKept, SyncedKept, FetchedStill
<1>2. LiveInv'
  <2> SUFFICES ASSUME mode' = "live", NEW a \in Boxes, NEW i \in 1..Now(a)'
               PROVE  Handled(a, i)'
    BY DEF LiveInv, HandledTo
  <2>1. CASE i \in 1..Now(a)
    <3>1. Handled(a, i)
      BY <2>1, CursorFacts DEF IInv, LiveInv, HandledTo
    <3> QED
      BY <2>1, <3>1 DEF Steady
  <2>2. CASE i \notin 1..Now(a)
    <3>1. /\ Now(b)' = Now(b) + 1 /\ log'[b][Now(b) + 1] = e
          /\ \A d \in Boxes : d # b => log'[d] = log[d]
      BY Appended DEF IInv, Shape
    <3>2. a = b /\ i = Now(b) + 1
      BY <2>2, <3>1, CursorFacts DEF IInv, Now
    <3>3. [box |-> b, msg |-> m, kind |-> k, at |-> "read"] \in live'
      BY DEF Push
    <3>4. CASE k = "post"
      <4>1. \E j \in live' : j.box = b /\ j.msg = i /\ j.kind = "post"
        BY <3>2, <3>3, <3>4
      <4>2. log'[a][i] = Post
        BY <3>1, <3>2, <3>4
      <4> QED
        BY <3>2, <4>1, <4>2 DEF Handled, Done, Delivering, IsPost
    <3>5. CASE k = "delete"
      <4>1. \E j \in live' : j.box = b /\ j.msg = m /\ j.kind = "delete"
        BY <3>3, <3>5
      <4>2. log'[a][i] = m /\ log'[a][i] # Post
        BY <3>1, <3>2, <3>5
      <4> QED
        BY <3>2, <4>1, <4>2 DEF Handled, Done, Purging, IsPost
    <3> QED
      BY <3>4, <3>5
  <2> QED
    BY <2>1, <2>2
<1> QED
  BY <1>1, <1>2 DEF Covered

\* A step of SyncMissedUpdates, by what its new cursors stand behind.
LEMMA SyncCovered ==
  ASSUME IInv, Grows, Steady, UNCHANGED <<log, pts, bg>>, mode' # "live",
         \/ UNCHANGED state
         \/ /\ HandledTo(Common, state.pts)'
            /\ \A c \in Channels : HandledTo(c, state.date[c])',
         SyncedInv'
  PROVE  Covered'
<1>1. FetchedInv'
  BY FetchedStill
<1>2. LiveInv'
  BY DEF LiveInv
<1>3. StoredInv'
  <2>1. CASE UNCHANGED state
    BY <2>1, StoredKept
  <2>2. CASE HandledTo(Common, state.pts)' /\ \A c \in Channels : HandledTo(c, state.date[c])'
    <3>1. \A c \in Channels : \A i \in 1..Now(c)' : i <= pts[c] => Handled(c, i)'
      BY HandledKept, InBounds, CursorFacts DEF IInv, StoredInv, HandledTo
    <3> QED
      BY <2>2, <3>1 DEF StoredInv, HandledTo
  <2> QED
    BY <2>1, <2>2
<1> QED
  BY <1>1, <1>2, <1>3 DEF Covered

LEMMA StartCovered == ASSUME IInv, Grows, Steady, StartWatch PROVE Covered'
<1>1. /\ UNCHANGED <<log, state, pts, bg>> /\ mode' = "sync"
      /\ sync'.at \in {"current", "fetch"} /\ sync'.pts = state.pts /\ sync'.date = state.date
      /\ sync'.tell = {}
  BY DEF StartWatch, Asleep
<1>2. /\ \A i \in 1..Now(Common)' : i <= state.pts => Handled(Common, i)'
      /\ \A c \in Channels : \A i \in 1..Now(c)' : i <= state.date[c] => Handled(c, i)'
  BY HandledKept, InBounds, CursorFacts DEF IInv, StoredInv, HandledTo
<1>3. SyncedInv'
  BY <1>1, <1>2 DEF SyncedInv, HandledTo
<1> QED
  BY <1>1, <1>3, SyncCovered

LEMMA CurrentCovered == ASSUME IInv, Grows, Steady, FetchCurrentState PROVE Covered'
<1>1. /\ UNCHANGED <<log, pts, bg>> /\ mode' = "sync"
      /\ sync'.at = "register"
      /\ \A b \in Boxes : Posted(b) \subseteq waived'[b]
  BY DEF FetchCurrentState, SyncAt, IInv, Shape, TypeOK
<1>2. \A b \in Boxes : \A i \in 1..Now(b) : Done(b, i)'
  <2> SUFFICES ASSUME NEW b \in Boxes, NEW i \in 1..Now(b) PROVE Done(b, i)'
    OBVIOUS
  <2>1. Subject(b, i) \in Posted(b)
    BY LogFacts DEF IInv, Shape, LogInv, Posted, Subject, IsPost
  <2> QED
    BY <1>1, <2>1, WaivedDone DEF IInv
<1>3. \A b \in Boxes : \A i \in 1..Now(b)' : Handled(b, i)'
  BY <1>1, <1>2, LogStill DEF Handled
<1>4. SyncedInv'
  BY <1>3 DEF SyncedInv, HandledTo
<1>5. HandledTo(Common, state.pts)' /\ \A c \in Channels : HandledTo(c, state.date[c])'
  BY <1>3 DEF HandledTo
<1> QED
  BY <1>1, <1>4, <1>5, SyncCovered

LEMMA SyncFailsCovered == ASSUME IInv, Grows, Steady, SyncFails PROVE Covered'
<1>1. /\ UNCHANGED <<log, state, pts, bg>> /\ mode' = "sync" /\ sync.at \in {"current", "fetch"}
      /\ sync'.at = "register" /\ sync'.pts = sync.pts /\ sync'.date = sync.date
      /\ sync'.tell = sync.tell
  BY DEF SyncFails, SyncAt, IInv, Shape, TypeOK
<1>2. /\ \A i \in 1..Now(Common)' : i <= sync.pts => Handled(Common, i)'
      /\ \A c \in Channels \ sync.tell : \A i \in 1..Now(c)' : i <= sync.date[c] => Handled(c, i)'
  BY <1>1, HandledKept, InBounds, CursorFacts DEF IInv, SyncedInv, HandledTo
<1>3. SyncedInv'
  BY <1>1, <1>2 DEF SyncedInv, HandledTo
<1> QED
  BY <1>1, <1>3, SyncCovered

LEMMA DifferenceCovered == ASSUME IInv, Grows, Steady, GetDifference PROVE Covered'
<1>1. /\ UNCHANGED <<log, state, pts, bg>> /\ mode' = "sync" /\ sync.at = "fetch"
      /\ sync.tell = {} /\ sync'.pts = sync.pts /\ sync'.at \in {"process", "save"}
      /\ sync.pts <= sync'.upto /\ sync'.upto <= Now(Common) /\ sync'.upto \in Nat
  BY DifferenceFacts DEF IInv, Shape, SyncInv, Syncing
<1>2. /\ \A i \in 1..Now(Common)' : i <= sync.pts => Handled(Common, i)'
      /\ \A c \in Channels : \A i \in 1..Now(c)' : i <= sync.date[c] => Handled(c, i)'
  BY <1>1, HandledKept, InBounds, CursorFacts DEF IInv, SyncedInv, HandledTo
<1>3. \A b \in Boxes : Now(b)' = Now(b) /\ Now(b) \in Nat
  BY <1>1, LogStill, CursorFacts DEF IInv
<1>4. ASSUME sync'.at = "save", NEW i \in 1..Now(Common)', i <= sync'.upto
      PROVE  Handled(Common, i)'
  <2>1. CASE i <= sync.pts
    BY <1>2, <2>1
  <2>2. CASE i > sync.pts
    <3>1. About(Common, sync.pts, sync'.upto) \subseteq waived'[Common]
      BY <1>1, <1>3, <1>4, <2>2, CursorFacts, DifferenceFacts DEF IInv
    <3>2. i \in 1..Now(Common) /\ Subject(Common, i) \in About(Common, sync.pts, sync'.upto)
      BY <1>1, <1>3, <1>4, <2>2, CursorFacts, AboutFacts DEF IInv, Shape
    <3> QED
      BY <3>1, <3>2, WaivedDone DEF IInv, Handled
  <2> QED
    BY <1>3, <2>1, <2>2, CursorFacts DEF IInv
<1>5. ASSUME NEW c \in Channels \ sync'.tell, NEW i \in 1..Now(c)', i <= sync'.date[c]
      PROVE  Handled(c, i)'
  <2>1. CASE sync'.date = sync.date
    BY <1>2, <1>5, <2>1
  <2>2. CASE Now(c) <= sync.date[c]
    BY <1>2, <1>3, <1>5, <2>2, CursorFacts DEF IInv
  <2> QED
    BY <1>5, <2>1, <2>2, DifferenceFacts DEF IInv
<1>6. SyncedInv'
  BY <1>1, <1>2, <1>4, <1>5 DEF SyncedInv, HandledTo
<1> QED
  BY <1>1, <1>6, SyncCovered

\* The answer's messages are indexed before the state is stored, and a channel
\* it tells has its goroutine, from the pts on that it is behind.
LEMMA ProcessCovered == ASSUME IInv, Grows, Steady, ProcessDifference PROVE Covered'
<1>1. /\ UNCHANGED <<log, state, pts>> /\ mode' = "sync" /\ sync.at = "process"
      /\ sync'.at = "save" /\ sync'.upto = sync.upto /\ sync'.date = sync.date
      /\ sync'.tell = {}
      /\ bg' = [c \in Channels |-> IF c \in sync.tell THEN Spawn(c) ELSE bg[c]]
      /\ \/ docs' = [docs EXCEPT ![Common] = @ \cup About(Common, sync.pts, sync.upto)]
         \/ waived' = [waived EXCEPT ![Common] = @ \cup About(Common, sync.pts, sync.upto)]
  BY DEF ProcessDifference, SyncAt, IInv, Shape, TypeOK, Waive
<1>2. StoredInv'
  BY <1>1, StoredKept
<1>3. LiveInv'
  BY <1>1 DEF LiveInv
<1>4. \A b \in Boxes : Now(b)' = Now(b) /\ Now(b) \in Nat
  BY <1>1, LogStill, CursorFacts DEF IInv
<1>5. \A c \in sync.tell : /\ c \in Channels
                           /\ bg'[c].at = "load" /\ bg'[c].base = pts[c]
  BY <1>1 DEF IInv, Shape, TypeOK, Spawn, Resting
<1>6. /\ \A i \in 1..Now(Common)' : i <= sync.pts => Handled(Common, i)'
      /\ \A c \in Channels \ sync.tell :
           \A i \in 1..Now(c)' : i <= sync.date[c] => Handled(c, i)'
      /\ \A c \in Channels : \A i \in 1..Now(c)' : i <= pts[c] => Handled(c, i)'
  BY <1>1, HandledKept, InBounds, CursorFacts DEF IInv, SyncedInv, StoredInv, HandledTo
<1>7. FetchedInv'
  <2> SUFFICES ASSUME NEW c \in Channels PROVE Fetched(c)'
    BY DEF FetchedInv
  <2>1. CASE c \in sync.tell
    BY <1>5, <1>6, <2>1 DEF Fetched, HandledTo
  <2>2. CASE c \notin sync.tell
    BY <1>1, <2>2, FetchedKept
  <2> QED
    BY <2>1, <2>2
<1>8. ASSUME NEW i \in 1..Now(Common)', i <= sync.upto PROVE Handled(Common, i)'
  <2>1. CASE i <= sync.pts
    BY <1>6, <2>1
  <2>2. CASE i > sync.pts
    <3>1. i \in 1..Now(Common) /\ IsPost(Common, i)
      BY <1>4 DEF IInv, Shape, LogInv
    <3>2. i \in About(Common, sync.pts, sync.upto)
      BY <1>8, <2>2, <3>1, AboutFacts, CursorFacts, InBounds DEF IInv, Shape, Subject
    <3>3. i \in docs'[Common] \/ i \in waived'[Common]
      BY <1>1, <3>2, KeptFacts DEF IInv
    <3>4. IsPost(Common, i)' /\ Subject(Common, i)' = i
      BY <1>1, <3>1, LogStill DEF Subject
    <3> QED
      BY <3>3, <3>4 DEF Handled, Done
  <2> QED
    BY <1>4, <2>1, <2>2, CursorFacts DEF IInv
<1>9. ASSUME NEW c \in Channels, NEW i \in 1..Now(c)', i <= sync.date[c] PROVE Handled(c, i)'
  <2>1. CASE c \notin sync.tell
    BY <1>6, <1>9, <2>1
  <2>2. CASE c \in sync.tell /\ i <= pts[c]
    BY <1>6, <2>2
  <2>3. CASE c \in sync.tell /\ i > pts[c]
    BY <1>5, <2>3 DEF Handled, Fetching
  <2> QED
    BY <1>4, <2>1, <2>2, <2>3, CursorFacts DEF IInv
<1>10. SyncedInv'
  BY <1>1, <1>8, <1>9 DEF SyncedInv, HandledTo
<1> QED
  BY <1>2, <1>3, <1>7, <1>10 DEF Covered

LEMMA SaveCovered == ASSUME IInv, Grows, Steady, SaveState PROVE Covered'
<1>1. /\ UNCHANGED <<log, pts, bg>> /\ mode' = "sync" /\ sync.at = "save" /\ sync.tell = {}
      /\ state' = [pts |-> sync.upto, date |-> sync.date] \/ state' = state
      /\ sync'.at # "save" /\ sync'.pts = sync.upto /\ sync'.date = sync.date
  BY DEF SaveState, SyncAt, AfterSave, IInv, Shape, SyncInv, TypeOK
<1>2. /\ \A i \in 1..Now(Common)' : i <= sync.upto => Handled(Common, i)'
      /\ \A c \in Channels : \A i \in 1..Now(c)' : i <= sync.date[c] => Handled(c, i)'
  BY <1>1, HandledKept, InBounds, CursorFacts DEF IInv, SyncedInv, HandledTo
<1>3. SyncedInv'
  BY <1>1, <1>2 DEF SyncedInv, HandledTo
<1>4. CASE state' = state
  BY <1>1, <1>3, <1>4, SyncCovered
<1>5. CASE state' = [pts |-> sync.upto, date |-> sync.date]
  <2>1. HandledTo(Common, state.pts)' /\ \A c \in Channels : HandledTo(c, state.date[c])'
    BY <1>2, <1>5 DEF HandledTo
  <2> QED
    BY <1>1, <1>3, <2>1, SyncCovered
<1> QED
  BY <1>1, <1>4, <1>5

\* What no cursor covers when the handlers are registered is given up.
LEMMA RegisterCovered == ASSUME IInv, Grows, Steady, RegisterHandlers PROVE Covered'
<1>1. /\ UNCHANGED <<log, state, pts, bg>> /\ sync.at = "register" /\ sync' = Asleep
      /\ sync.tell = {}
      /\ \A b \in Boxes :
           About(b, IF b = Common THEN sync.pts ELSE sync.date[b], Now(b)) \subseteq waived'[b]
  BY DEF RegisterHandlers, SyncAt, IInv, Shape, SyncInv
<1>2. StoredInv' /\ FetchedInv'
  BY <1>1, StoredKept, FetchedStill
<1>3. SyncedInv'
  BY <1>1 DEF SyncedInv, Asleep
<1>4. /\ \A i \in 1..Now(Common)' : i <= sync.pts => Handled(Common, i)'
      /\ \A c \in Channels : \A i \in 1..Now(c)' : i <= sync.date[c] => Handled(c, i)'
  BY <1>1, HandledKept, InBounds, CursorFacts DEF IInv, SyncedInv, HandledTo
<1>5. \A b \in Boxes : Now(b)' = Now(b) /\ Now(b) \in Nat
  BY <1>1, LogStill, CursorFacts DEF IInv
<1>6. ASSUME NEW b \in Boxes, NEW i \in 1..Now(b)' PROVE Handled(b, i)'
  <2> DEFINE lo == IF b = Common THEN sync.pts ELSE sync.date[b]
  <2>1. PICK hi \in Nat : hi = lo
    BY CursorFacts DEF IInv
  <2>2. CASE i <= hi
    BY <1>4, <2>1, <2>2
  <2>3. CASE i > hi
    <3>1. Subject(b, i) \in About(b, hi, Now(b)) /\ i \in 1..Now(b)
      BY <1>5, <2>3, AboutFacts DEF IInv, Shape
    <3> QED
      BY <1>1, <2>1, <3>1, WaivedDone DEF IInv, Handled
  <2> QED
    BY <1>5, <2>2, <2>3
<1>7. LiveInv'
  BY <1>6 DEF LiveInv, HandledTo
<1> QED
  BY <1>2, <1>3, <1>7 DEF Covered

LEMMA StopCovered == ASSUME IInv, Grows, Steady, Stop PROVE Covered'
<1>1. UNCHANGED <<state, pts>> /\ mode' = "down" /\ sync' = Asleep
      /\ bg' = [c \in Channels |-> Resting]
  BY DEF Stop
<1> QED
  BY <1>1, StoredKept
     DEF Covered, SyncedInv, FetchedInv, Fetched, LiveInv, Asleep, Resting

\* A step of channel c's goroutine that stores no pts.
LEMMA GoroutineCovered ==
  ASSUME IInv, Grows, Steady, NEW c \in Channels, UNCHANGED <<log, state, pts, mode, sync>>,
         \A d \in Channels : d # c => bg'[d] = bg[d], Fetched(c)'
  PROVE  Covered'
<1>1. FetchedInv'
  <2> SUFFICES ASSUME NEW d \in Channels, d # c PROVE Fetched(d)'
    BY DEF FetchedInv
  <2> QED
    BY FetchedKept
<1> QED
  BY <1>1, StoredKept, SyncedKept, LiveKept DEF Covered

LEMMA ChannelCovered ==
  ASSUME IInv, Grows, Steady, NEW c \in Channels, ChannelStep(c) PROVE Covered'
<1> USE DEF IInv
<1>1. \A d \in Channels : d # c => bg'[d] = bg[d]
  BY GoroutineFacts DEF ChannelStep, LoadPts, ChannelSyncFails, GetChannelDifference,
     ChannelEmpty, ChannelPage, ChannelTooLong, ProcessChannelDifference, SaveChannelPts
<1>2. CASE LoadPts(c)
  <2>1. /\ UNCHANGED <<log, state, pts, mode, sync>>
        /\ bg'[c].at = "off" \/ (bg'[c].at = "fetch" /\ bg'[c].pts = pts[c])
    BY <1>2, GoroutineFacts, RestingFacts DEF LoadPts, Syncers
  <2>2. \A i \in 1..Now(c)' : i <= pts[c] => Handled(c, i)'
    BY HandledKept, InBounds, CursorFacts DEF StoredInv, HandledTo
  <2>3. Fetched(c)'
    BY <2>1, <2>2 DEF Fetched, HandledTo
  <2> QED
    BY <1>1, <2>1, <2>3, GoroutineCovered
<1>3. CASE ChannelSyncFails(c)
  <2>1. UNCHANGED <<log, state, pts, mode, sync>> /\ bg'[c].at = "off"
    BY <1>3, GoroutineFacts, RestingFacts DEF ChannelSyncFails
  <2>2. Fetched(c)'
    BY <2>1 DEF Fetched
  <2> QED
    BY <1>1, <2>1, <2>2, GoroutineCovered
<1>4. CASE GetChannelDifference(c)
  <2>1. PICK g \in Syncers : bg' = [bg EXCEPT ![c] = g] /\ Answer(c, g)
    BY <1>4, AnswerFacts
  <2>2. /\ UNCHANGED <<log, state, pts, mode, sync>> /\ bg[c].at = "fetch"
        /\ bg'[c].at \in {"process", "save"}
    BY <1>4, <2>1, AnswerFacts, GoroutineFacts DEF Answer
  <2>3. \A i \in 1..Now(c)' : i <= bg[c].pts => Handled(c, i)'
    BY <2>2, HandledKept, InBounds, CursorFacts DEF FetchedInv, Fetched, HandledTo
  <2>4. Now(c)' = Now(c) /\ Now(c) \in Nat
    BY <2>2, LogStill, CursorFacts
  <2>5. \A i \in 1..Now(c)' : Handled(c, i)'
    <3> SUFFICES ASSUME NEW i \in 1..Now(c)' PROVE Handled(c, i)'
      OBVIOUS
    <3>1. CASE i <= bg[c].pts
      BY <2>3, <3>1
    <3>2. CASE i > bg[c].pts
      BY <1>4, <2>4, <3>2, AnswerCovers DEF Handled
    <3> QED
      BY <2>4, <3>1, <3>2, CursorFacts
  <2>6. Fetched(c)'
    BY <2>2, <2>5 DEF Fetched, HandledTo
  <2> QED
    BY <1>1, <2>2, <2>6, GoroutineCovered
<1>5. CASE ProcessChannelDifference(c)
  <2>1. /\ UNCHANGED <<log, state, pts, mode, sync>> /\ bg[c].at = "process"
        /\ bg'[c].at = "save" /\ bg'[c].upto = bg[c].upto
    BY <1>5, GoroutineFacts DEF ProcessChannelDifference, BgAt, Syncers
  <2>2. \A i \in 1..Now(c)' : i <= bg[c].upto => Handled(c, i)'
    BY <2>1, HandledKept, InBounds, CursorFacts DEF FetchedInv, Fetched, HandledTo
  <2>3. Fetched(c)'
    BY <2>1, <2>2 DEF Fetched, HandledTo
  <2> QED
    BY <1>1, <2>1, <2>3, GoroutineCovered
<1>6. CASE SaveChannelPts(c)
  <2>1. /\ bg[c].at = "save" /\ UNCHANGED <<log, state, mode, sync>>
        /\ bg'[c] = AfterPage(c)
        /\ \A d \in Channels : pts'[d] = pts[d] \/ (d = c /\ pts'[d] = bg[c].upto)
    BY <1>6, SavePtsFacts, GoroutineFacts
  <2>2. /\ \A i \in 1..Now(c)' : i <= bg[c].upto => Handled(c, i)'
        /\ \A d \in Channels : \A i \in 1..Now(d)' : i <= pts[d] => Handled(d, i)'
        /\ \A d \in Channels : \A i \in 1..Now(d)' : i <= state.date[d] => Handled(d, i)'
        /\ \A i \in 1..Now(Common)' : i <= state.pts => Handled(Common, i)'
    BY <2>1, HandledKept, InBounds, CursorFacts DEF FetchedInv, Fetched, StoredInv, HandledTo
  <2>3. StoredInv'
    BY <2>1, <2>2 DEF StoredInv, HandledTo
  <2>4. bg'[c].at = "off" \/ (bg'[c].at = "fetch" /\ bg'[c].pts = bg[c].upto)
    BY <2>1, AfterPageFacts, RestingFacts
  <2>5. Fetched(c)'
    BY <2>2, <2>4 DEF Fetched, HandledTo
  <2>6. FetchedInv'
    BY <1>1, <2>5, FetchedKept DEF FetchedInv
  <2> QED
    BY <2>1, <2>3, <2>6, SyncedKept, LiveKept DEF Covered
<1> QED
  BY <1>2, <1>3, <1>4, <1>5, <1>6 DEF ChannelStep

\* A handler stores a pts only while every event is handled.
LEMMA HandleCovered == ASSUME IInv, Grows, Steady, NEW j \in live, Handle(j) PROVE Covered'
<1>1. /\ UNCHANGED <<log, mode, sync, bg>> /\ mode = "live"
  BY JobFacts DEF IInv, Handle, ReadState, SaveLiveState, SaveLivePts, IndexLive, PurgeLive
<1>2. SyncedInv' /\ FetchedInv' /\ LiveInv'
  BY <1>1, SyncedKept, FetchedStill, LiveKept
<1>3. \A b \in Boxes : \A i \in 1..Now(b)' : Handled(b, i)'
  BY <1>1, <1>2, LogStill, CursorFacts DEF IInv, LiveInv, HandledTo
<1>4. StoredInv'
  BY <1>3 DEF StoredInv, HandledTo
<1> QED
  BY <1>2, <1>4 DEF Covered

LEMMA NextCovered == ASSUME IInv, Next PROVE Covered'
<1>1. Grows /\ Steady /\ Shape'
  BY NextSteady, NextShape DEF IInv
<1>2. CASE Server
  <2>1. ASSUME NEW b \in Boxes, PostMessage(b) PROVE Covered'
    <3>1. /\ log' = [log EXCEPT ![b] = Append(@, Post)] /\ Push(b, Now(b) + 1, "post")
          /\ UNCHANGED <<state, pts, mode, sync, bg>> /\ Post \in Nat /\ Now(b) + 1 \in Nat
      BY <2>1, CursorFacts DEF PostMessage, Post, IInv
    <3> QED
      BY <1>1, <3>1, PushCovered
  <2>2. ASSUME NEW c \in Channels, NEW m \in Posted(c), DeleteMessage(c, m) PROVE Covered'
    <3>1. /\ log' = [log EXCEPT ![c] = Append(@, m)] /\ Push(c, m, "delete")
          /\ UNCHANGED <<state, pts, mode, sync, bg>> /\ m \in Nat /\ m # Post
      BY <2>2, GoroutineFacts DEF DeleteMessage, IInv, Posted, Post
    <3> QED
      BY <1>1, <3>1, PushCovered
  <2> QED
    BY <1>2, <2>1, <2>2 DEF Server
<1>3. CASE SyncStep
  BY <1>1, <1>3, CurrentCovered, SyncFailsCovered, DifferenceCovered, ProcessCovered,
     SaveCovered, RegisterCovered DEF SyncStep
<1> QED
  BY <1>1, <1>2, <1>3, StartCovered, StopCovered, ChannelCovered, HandleCovered DEF Next

-----------------------------------------------------------------------------
(* The theorems                                                            *)

\* Every cursor stands behind handled events, and once the handlers are
\* registered every event is handled.
THEOREM Invariance == Spec => []IInv
<1>1. Init => IInv
  BY InitShape, InitCovered DEF IInv, Covered
<1>2. IInv /\ [Next]_vars => IInv'
  <2> SUFFICES ASSUME IInv, [Next]_vars PROVE IInv'
    OBVIOUS
  <2>1. CASE Next
    BY <2>1, NextShape, NextCovered DEF IInv, Covered
  <2>2. CASE UNCHANGED vars
    <3>1. Shape'
      BY <2>2 DEF vars, IInv, Shape, TypeOK, LogInv, BoundInv, JobInv, SyncInv, PageInv, Idle,
         Now, Posted, Deleted, IsPost
    <3>2. Grows /\ Careful
      BY <2>2, GrowsStill, CarefulStill DEF vars, IInv, Shape
    <3>3. Steady
      BY <2>2, <3>2, SteadyStill DEF vars, IInv
    <3>4. Covered'
      BY <2>2, <3>2, <3>3, StoredKept, SyncedKept, FetchedStill, LiveKept DEF vars, Covered
    <3> QED
      BY <3>1, <3>4 DEF IInv, Covered
  <2> QED
    BY <2>1, <2>2
<1> QED
  BY <1>1, <1>2, PTL DEF Spec

THEOREM TypeCorrect == Spec => []TypeOK
<1>1. IInv => TypeOK
  BY DEF IInv, Shape
<1> QED
  BY <1>1, Invariance, PTL

\* The stored pts of the common box never runs ahead of the engine: a message
\* at or below it is indexed, on its way to it, or given up.
THEOREM PtsHonest == Spec => []CursorHonest
<1>1. ASSUME IInv PROVE CursorHonest
  <2> SUFFICES ASSUME NEW m \in Posted(Common), m <= state.pts
               PROVE  \/ m \in docs[Common] \cup waived[Common]
                      \/ \E j \in live : j.box = Common /\ j.msg = m
    BY DEF CursorHonest
  <2>1. m \in 1..Now(Common) /\ IsPost(Common, m) /\ Subject(Common, m) = m
    BY DEF Posted, Subject
  <2>2. Handled(Common, m)
    BY <1>1, <2>1 DEF IInv, StoredInv, HandledTo
  <2>3. Deleted(Common) = {}
    BY <1>1 DEF IInv, Shape, LogInv, Deleted, IsPost
  <2> QED
    BY <2>1, <2>2, <2>3, BoxAssumption DEF Handled, Done, Delivering
<1> QED
  BY <1>1, Invariance, PTL

\* When nothing is on its way any more, the engine holds exactly the messages
\* that are posted and not deleted, leaving out what the code gave up, however
\* the sync, the goroutines, the handlers and the kills were interleaved.
THEOREM NothingMissed == Spec => []CaughtUp
<1>1. ASSUME IInv PROVE CaughtUp
  <2> SUFFICES ASSUME Settled, NEW b \in Boxes, NEW m
               PROVE  m \in docs[b] \ waived[b]
                        <=> m \in (Posted(b) \ Deleted(b)) \ waived[b]
    BY DEF CaughtUp
  <2>1. mode = "live" /\ live = {} /\ \A c \in Channels : bg[c].at = "off"
    BY DEF Settled, Idle
  <2>2. \A i \in 1..Now(b) : Done(b, i)
    BY <1>1, <2>1, CursorFacts DEF IInv, LiveInv, HandledTo, Handled, Fetching
  <2>3. ASSUME m \in docs[b], m \notin waived[b] PROVE m \in Posted(b) /\ m \notin Deleted(b)
    <3>1. m \in Posted(b)
      BY <1>1, <2>3 DEF IInv, Shape, JobInv
    <3>2. ASSUME NEW i \in 1..Now(b), log[b][i] = m, m # Post PROVE FALSE
      BY <2>1, <2>2, <2>3, <3>2 DEF Done, Subject, IsPost, Purging
    <3> QED
      BY <3>1, <3>2 DEF Deleted
  <2>4. ASSUME m \in Posted(b), m \notin Deleted(b), m \notin waived[b] PROVE m \in docs[b]
    <3>1. m \in 1..Now(b) /\ IsPost(b, m)
      BY <2>4 DEF Posted
    <3> QED
      BY <2>1, <2>2, <2>4, <3>1 DEF Done, Subject, Delivering
  <2> QED
    BY <2>3, <2>4
<1> QED
  BY <1>1, Invariance, PTL

=============================================================================
