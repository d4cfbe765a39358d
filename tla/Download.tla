------------------------------- MODULE Download -------------------------------
(***************************************************************************)
(* /dl (bot/dl.go): the messages of a range of ids are fetched a page at a *)
(* time and their documents added, through the middlewares, which other    *)
(* calls of the user's account share, and while messages come and go.      *)
(* Its Init, Next and Spec carry its name, as PagingProofs extends it      *)
(* together with Takeout.                                                  *)
(***************************************************************************)
EXTENDS Middleware, FiniteSets

CONSTANTS
  Dl,        \* the command, among the callers
  MaxId,     \* bound: messages have the ids 1 .. MaxId
  PageSize,  \* how many messages GetHistory is asked for: 100
  NoPage     \* no page has been fetched

Ids == 1 .. MaxId

ASSUME DownloadAssumption ==
  /\ Dl \in Calls /\ MaxId \in Nat /\ PageSize \in Nat \ {0}
  /\ \A ms \in SUBSET Ids : ms # NoPage

VARIABLES
  present,   \* the chat's messages on Telegram's side
  stage,     \* how far the command is
  first,     \* startMsgID
  end,       \* endMsgID
  done,      \* i, how many ids of the range are behind it
  page,      \* the messages fetched and not added yet, or NoPage
  added,     \* the messages whose documents it added
  skipped,   \* messages of pages that it failed to add, or could not read
  lasting    \* history: the messages that have been there since it began

range == <<first, end>>

downloadVars ==
  <<calls, present, stage, range, done, page, added, skipped, lasting>>

-----------------------------------------------------------------------------
(* MessagesGetHistory, as far as the command relies on it *)

\* With an AddOffset of -n it answers with the n oldest messages that are not
\* older than offset, if there are so many, and fills up with older ones.
Newer(offset, n) ==
  {m \in present : m >= offset /\ Cardinality({k \in present : offset <= k /\ k < m}) < n}

Older(offset, n) ==
  {m \in present : m < offset /\ Cardinality({k \in present : m < k /\ k < offset}) < n}

\* An offset of 0 stands for the newest message, which nothing is newer than.
Offset(id) == IF id = 0 THEN MaxId + 1 ELSE id

\* If there are fewer newer ones, the room that they leave is filled, or not.
History(id, n) ==
  LET newer == Newer(Offset(id), n)
  IN  {ms \in SUBSET present : \E size \in {n, Cardinality(newer)} :
         ms = newer \cup Older(Offset(id), PageSize - size)}

-----------------------------------------------------------------------------
\* The arguments are those that the command goes on with, 0 among them.
Start(s, e) ==
  /\ stage = "idle" /\ s < e
  /\ stage' = "loop" /\ first' = s /\ end' = e /\ done' = 0
  /\ lasting' = present
  /\ UNCHANGED <<calls, present, page, added, skipped>>

\* A slip: the page ends one short of the next one.
PageEndShort == IF first + done + PageSize - 1 < end THEN first + done + PageSize - 1 ELSE end

PageEnd == IF first + done + PageSize < end THEN first + done + PageSize ELSE end

Ask ==
  /\ stage = "loop" /\ done < end - first
  /\ BeginCall(Dl)
  /\ stage' = "asked"
  /\ UNCHANGED <<present, range, done, page, added, skipped, lasting>>

\* The answer comes, and it may be of a type that the command passes over.
Fetch ==
  /\ stage = "asked" /\ Succeed(Dl)
  /\ \E ms \in History(first + done, PageEnd - (first + done)) :
       \/ stage' = "add" /\ page' = ms /\ UNCHANGED <<done, skipped>>
       \/ /\ stage' = "loop" /\ done' = done + PageSize
          /\ skipped' = skipped \cup ms /\ UNCHANGED page
  /\ UNCHANGED <<present, range, added, lasting>>

FetchFail ==
  /\ stage = "asked" /\ Fail(Dl)
  /\ stage' = "failed"
  /\ UNCHANGED <<present, range, done, page, added, skipped, lasting>>

\* An empty page is not added at all.  A failure is logged only.
AddPage ==
  /\ stage = "add"
  /\ stage' = "loop" /\ done' = done + PageSize /\ page' = NoPage
  /\ \/ added' = added \cup page /\ UNCHANGED skipped
     \/ skipped' = skipped \cup page /\ UNCHANGED added
  /\ UNCHANGED <<calls, present, range, lasting>>

Finish ==
  /\ stage = "loop" /\ done >= end - first
  /\ stage' = "done"
  /\ UNCHANGED <<calls, present, range, done, page, added, skipped, lasting>>

-----------------------------------------------------------------------------
\* Bound: messages come and go while the command waits for a page; between two
\* pages it looks at none.
Fetching == stage = "asked"

\* Messages get growing ids.
Arrive(m) ==
  /\ Fetching
  /\ \A k \in present : k < m
  /\ present' = present \cup {m}
  /\ UNCHANGED <<calls, stage, range, done, page, added, skipped, lasting>>

Vanish(m) ==
  /\ Fetching /\ m \in present
  /\ present' = present \ {m} /\ lasting' = lasting \ {m}
  /\ UNCHANGED <<calls, stage, range, done, page, added, skipped>>

InitDownload ==
  /\ present \in SUBSET Ids /\ lasting = {}
  /\ stage = "idle" /\ first = 0 /\ end = 0 /\ done = 0
  /\ page = NoPage /\ added = {} /\ skipped = {}
  /\ InitCalls

Command == (\E s \in Ids \cup {0}, e \in Ids : Start(s, e)) \/ Ask \/ Fetch \/ FetchFail \/ AddPage \/ Finish

Chat == \E m \in Ids : Arrive(m) \/ Vanish(m)

Answer(c) == Succeed(c) \/ Fail(c)

\* The calls of others, and what happens to any.
Elsewhere ==
  /\ \/ \E c \in Calls \ {Dl} : BeginCall(c) \/ Answer(c)
     \/ \E c \in Calls : Inside(c) \/ Cancel(c)
     \/ Tick \/ Interrupt
  /\ UNCHANGED <<present, stage, range, done, page, added, skipped, lasting>>

NextDownload == Command \/ Chat \/ Elsewhere

\* Time passes, waits end and so does every try of a call, for better or worse
\* (the client sees to that); the command's goroutine goes on.
Fairness ==
  /\ WF_calls(Tick)
  /\ \A c \in Calls : WF_calls(Wake(c))
  /\ \A c \in Calls \ {Dl} : WF_calls(Retry(c) \/ Recover(c) \/ Answer(c))
  /\ WF_calls(Retry(Dl) \/ Recover(Dl) \/ Fetch \/ FetchFail)
  /\ WF_downloadVars(Ask \/ AddPage \/ Finish)

DownloadSpec == InitDownload /\ [][NextDownload]_downloadVars /\ Fairness

-----------------------------------------------------------------------------
\* Every variable has its type, and the command waits for a call exactly while
\* one of its calls is under way.
DownloadOK ==
  /\ CallsOK
  /\ present \subseteq Ids /\ added \subseteq Ids /\ skipped \subseteq Ids
  /\ lasting \subseteq present
  /\ stage \in {"idle", "loop", "asked", "add", "done", "failed"}
  /\ first \in 0 .. MaxId /\ end \in 0 .. MaxId /\ done \in Nat
  /\ IF stage = "add" THEN page \in SUBSET Ids ELSE page = NoPage
  /\ call[Dl] = Idle <=> stage # "asked"

\* From 0 on, the first page is one of the newest messages.
RangeStart == IF first = 0 THEN PageSize ELSE first

\* When /dl answers that it is through, it has had in its hands every message of
\* the range that was there all the time, the last one excepted: gaps between the
\* ids and messages deleted between two pages make it miss none.  A range that
\* begins at 0 makes it miss those of its first page, and no others.
RangeDownloaded ==
  stage = "done" => lasting \cap (RangeStart .. end - 1) \subseteq added \cup skipped

=============================================================================
