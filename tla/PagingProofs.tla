----------------------------- MODULE PagingProofs -----------------------------
(***************************************************************************)
(* The two commands that page through what Telegram holds.                 *)
(*                                                                         *)
(* /dl misses nothing in its range, unless this begins at 0, for every     *)
(* size of a page, every set of messages, and any number of other calls    *)
(* that share the middlewares: the invariant says what is behind the       *)
(* command and what its page holds.                                        *)
(*                                                                         *)
(* The takeout leaves no holes, exports what it says, and writes nothing   *)
(* that it was not to export, for every account, split, page size and      *)
(* number of failures: its invariant says the same of windows and entries. *)
(***************************************************************************)
EXTENDS Download, Takeout, FiniteSetTheorems, WellFoundedInduction, TLAPS

Underway == stage \in {"loop", "asked", "add", "done"}

RangeInv ==
  /\ Underway => \A m \in lasting :
       RangeStart <= m /\ m < first + done /\ m < end => m \in added \cup skipped
  /\ stage = "add" => \A m \in lasting :
       RangeStart <= m /\ first + done <= m /\ m < PageEnd => m \in page
  /\ stage = "done" => done >= end - first

DownloadInv == DownloadOK /\ RangeInv

-----------------------------------------------------------------------------
\* The n messages that GetHistory fetches from an id on include every one with
\* an id below from + n, whatever gaps there are.
LEMMA NewerCovers ==
  ASSUME present \subseteq Ids, NEW m \in present, NEW from \in Nat, NEW n \in Nat,
         from <= m, m < from + n
  PROVE  m \in Newer(from, n)
<1> DEFINE before == {k \in present : from <= k /\ k < m}
<1>1. m \in Nat
  BY DownloadAssumption DEF Ids
<1>2. before \subseteq from .. (m - 1)
  <2> SUFFICES ASSUME NEW k \in before
               PROVE  k \in from .. (m - 1)
    OBVIOUS
  <2>1. k \in Nat /\ from <= k /\ k < m
    BY DownloadAssumption DEF Ids
  <2> QED
    BY <1>1, <2>1
<1>3. IsFiniteSet(from .. (m - 1)) /\ Cardinality(from .. (m - 1)) <= m - from
  <2>1. from \in Int /\ m - 1 \in Int /\ m - from >= 0
    BY <1>1
  <2>2. IsFiniteSet(from .. (m - 1))
    BY <2>1, FS_Interval
  <2>3. Cardinality(from .. (m - 1)) = IF from > m - 1 THEN 0 ELSE (m - 1) - from + 1
    BY <2>1, FS_Interval
  <2> QED
    BY <1>1, <2>1, <2>2, <2>3
<1>4. IsFiniteSet(before) /\ Cardinality(before) <= Cardinality(from .. (m - 1))
  BY <1>2, <1>3, FS_Subset
<1>5. Cardinality(before) \in Nat /\ Cardinality(from .. (m - 1)) \in Nat
  BY <1>3, <1>4, FS_CardinalityType
<1>6. Cardinality(before) < n
  BY <1>1, <1>3, <1>4, <1>5
<1> QED
  BY <1>6 DEF Newer

\* The middlewares keep their types whichever of their steps is taken.
LEMMA CallsKept ==
  ASSUME CallsOK, NEW c \in Calls,
         BeginCall(c) \/ Succeed(c) \/ Fail(c) \/ Inside(c) \/ Cancel(c) \/ Tick \/ Interrupt
  PROVE  CallsOK'
<1> USE MiddlewareAssumption DEF CallsOK, Idle, Sleep, Invoke
<1>1. CASE BeginCall(c)
  BY <1>1 DEF BeginCall
<1>2. CASE Succeed(c) \/ Fail(c)
  BY <1>2 DEF Succeed, Fail, Refused, GiveUp, EndCall
<1>3. CASE Retry(c)
  <2>1. call[c] \in [at : {"invoke"}, tries : 0 .. MaxRetries - 1]
    BY <1>3 DEF Retry
  <2>2. [call[c] EXCEPT !.tries = @ + 1] \in [at : {"invoke"}, tries : 0 .. MaxRetries - 1]
    BY <1>3, <2>1 DEF Retry
  <2>3. call' = [call EXCEPT ![c] = [call[c] EXCEPT !.tries = @ + 1]]
    BY <1>3 DEF Retry
  <2>4. [call[c] EXCEPT !.tries = @ + 1] # Idle
    BY <2>2
  <2> QED
    BY <1>3, <2>2, <2>3, <2>4 DEF Retry
<1>4. CASE Recover(c)
  BY <1>4 DEF Recover
<1>5. CASE Wake(c)
  BY <1>5 DEF Wake
<1>6. CASE Cancel(c)
  BY <1>6 DEF Cancel
<1>7. CASE Tick
  BY <1>7 DEF Tick
<1>8. CASE Interrupt
  BY <1>8 DEF Interrupt
<1> QED
  BY <1>1, <1>2, <1>3, <1>4, <1>5, <1>6, <1>7, <1>8 DEF Inside

-----------------------------------------------------------------------------
LEMMA DownloadStarts == InitDownload => DownloadInv
<1> SUFFICES ASSUME InitDownload PROVE DownloadInv
  OBVIOUS
<1> USE DownloadAssumption, MiddlewareAssumption DEF InitDownload, InitCalls
<1>1. call \in [Calls -> {Idle, Sleep} \cup [at : {"invoke"}, tries : 0 .. MaxRetries - 1]]
  BY DEF Idle, Sleep
<1>2. elapsed \in 0 .. MaxElapsed /\ cancelled = {} /\ stopped \in BOOLEAN
  <2>1. stopped \in BOOLEAN
    BY Zenon
  <2> QED
    BY <2>1
<1>3. CallsOK
  BY <1>1, <1>2 DEF CallsOK
<1>4. present \subseteq Ids /\ added \subseteq Ids /\ skipped \subseteq Ids /\ lasting \subseteq present
  OBVIOUS
<1>5. first \in 0 .. MaxId /\ end \in 0 .. MaxId /\ done \in Nat
  OBVIOUS
<1>6. call[Dl] = Idle
  OBVIOUS
<1>7. DownloadOK
  BY <1>3, <1>4, <1>5, <1>6 DEF DownloadOK
<1>8. RangeInv
  BY DEF RangeInv, RangeStart, Underway
<1> QED
  BY <1>7, <1>8 DEF DownloadInv

LEMMA StartStep ==
  ASSUME DownloadInv, NEW s \in Ids \cup {0}, NEW e \in Ids, Start(s, e)
  PROVE  DownloadInv'
BY DownloadAssumption DEF DownloadInv, DownloadOK, CallsOK, RangeInv, RangeStart, Underway, Start,
   calls, Idle, Ids

LEMMA AskStep == ASSUME DownloadInv, Ask PROVE DownloadInv'
<1> USE DEF DownloadInv, Ask, BeginCall
<1>1. CallsOK'
  BY CallsKept, DownloadAssumption DEF DownloadOK
<1>2. DownloadOK'
  BY <1>1, DownloadAssumption DEF DownloadOK, CallsOK, Idle, Invoke, range
<1>3. RangeInv'
  BY DEF RangeInv, RangeStart, Underway, range, DownloadOK
<1> QED
  BY <1>2, <1>3

LEMMA FetchStep == ASSUME DownloadInv, Fetch PROVE DownloadInv'
<1> USE DEF DownloadInv, range
<1>1. CallsOK'
  BY CallsKept, DownloadAssumption DEF DownloadOK, Fetch
<1>2. call[Dl]' = Idle
  BY DownloadAssumption DEF Fetch, Succeed, EndCall, DownloadOK, CallsOK
<1>3. PICK ms \in History(first + done, PageEnd - (first + done)) :
        \/ stage' = "add" /\ page' = ms /\ UNCHANGED <<done, skipped>>
        \/ /\ stage' = "loop" /\ done' = done + PageSize
           /\ skipped' = skipped \cup ms /\ UNCHANGED page
  BY DEF Fetch
<1>4. ms \subseteq present /\ Newer(Offset(first + done), PageEnd - (first + done)) \subseteq ms
  BY <1>3 DEF History
<1>5. UNCHANGED <<present, first, end, added, lasting>> /\ stage = "asked"
  BY DEF Fetch
<1>6. DownloadOK'
  BY <1>1, <1>2, <1>3, <1>4, <1>5, DownloadAssumption DEF DownloadOK
<1>7. ASSUME NEW m \in lasting, RangeStart <= m, first + done <= m, m < PageEnd
      PROVE  m \in ms
  <2>1. first + done \in Nat /\ PageEnd \in Nat /\ PageEnd - (first + done) \in Nat /\ m \in Nat
    BY <1>7, DownloadAssumption DEF DownloadOK, PageEnd, Ids
  <2>2. m < (first + done) + (PageEnd - (first + done))
    BY <1>7, <2>1
  <2>3. m \in Newer(first + done, PageEnd - (first + done))
    BY <1>7, <2>1, <2>2, NewerCovers DEF DownloadOK
  <2>4. first + done # 0
    BY <1>7, <2>1, DownloadAssumption DEF DownloadOK, RangeStart, PageEnd, Ids
  <2> QED
    BY <2>3, <2>4, <1>4 DEF Offset
<1>8. PageEnd' = PageEnd \/ done' # done
  BY <1>3, <1>5 DEF PageEnd
<1>9. CASE stage' = "add" /\ page' = ms /\ UNCHANGED <<done, skipped>>
  BY <1>5, <1>6, <1>7, <1>9 DEF RangeInv, RangeStart, Underway, PageEnd
<1>10. CASE /\ stage' = "loop" /\ done' = done + PageSize
            /\ skipped' = skipped \cup ms /\ UNCHANGED page
  BY <1>5, <1>6, <1>7, <1>10, DownloadAssumption DEF RangeInv, RangeStart, Underway, PageEnd, DownloadOK, Ids
<1> QED
  BY <1>3, <1>9, <1>10

LEMMA FetchFailStep == ASSUME DownloadInv, FetchFail PROVE DownloadInv'
<1> USE DEF DownloadInv, FetchFail, range
<1>1. CallsOK'
  BY CallsKept, DownloadAssumption DEF DownloadOK
<1>2. call[Dl]' = Idle
  BY DownloadAssumption DEF Fail, Refused, GiveUp, EndCall, DownloadOK, CallsOK
<1>3. DownloadOK'
  BY <1>1, <1>2 DEF DownloadOK
<1> QED
  BY <1>3 DEF RangeInv, RangeStart, Underway

LEMMA AddPageStep == ASSUME DownloadInv, AddPage PROVE DownloadInv'
<1> USE DEF DownloadInv, AddPage, range
<1>1. CallsOK' /\ call' = call
  BY DEF DownloadOK, CallsOK, calls
<1>2. page \subseteq Ids /\ added' \subseteq Ids /\ skipped' \subseteq Ids
  <2>1. page \in SUBSET Ids
    BY DEF DownloadOK
  <2> QED
    BY <2>1 DEF DownloadOK
<1>3. DownloadOK'
  <2>1. done' \in Nat /\ page' = NoPage /\ stage' = "loop" /\ stage = "add"
    BY DownloadAssumption DEF DownloadOK
  <2>2. UNCHANGED <<present, first, end, lasting>>
    OBVIOUS
  <2> QED
    BY <1>1, <1>2, <2>1, <2>2 DEF DownloadOK
<1>4. \A m \in lasting :
        RangeStart <= m /\ first + done <= m /\ m < PageEnd => m \in added' \cup skipped'
  BY DEF RangeInv
<1>5. added \cup skipped \subseteq added' \cup skipped'
  OBVIOUS
<1>6. RangeInv'
  BY <1>4, <1>5, DownloadAssumption DEF RangeInv, RangeStart, Underway, PageEnd, DownloadOK, Ids
<1> QED
  BY <1>3, <1>6

LEMMA FinishStep == ASSUME DownloadInv, Finish PROVE DownloadInv'
BY DEF DownloadInv, Finish, DownloadOK, CallsOK, calls, RangeInv, RangeStart, Underway, range

LEMMA ChatStep == ASSUME DownloadInv, Chat PROVE DownloadInv'
BY DEF DownloadInv, Chat, Arrive, Vanish, Fetching, DownloadOK, CallsOK, calls, RangeInv, RangeStart, Underway, range, PageEnd

LEMMA ElsewhereStep == ASSUME DownloadInv, Elsewhere PROVE DownloadInv'
<1>1. CallsOK'
  BY CallsKept, DownloadAssumption DEF DownloadInv, DownloadOK, Elsewhere, Answer
<1>2. call[Dl]' = Idle <=> call[Dl] = Idle
  <2> USE DownloadAssumption DEF DownloadInv, DownloadOK, CallsOK, Idle, Invoke, Sleep
  <2>1. ASSUME NEW c \in Calls \ {Dl}, BeginCall(c) \/ Answer(c)
        PROVE  call[Dl]' = call[Dl]
    BY <2>1 DEF BeginCall, Answer, Succeed, Fail, Refused, GiveUp, EndCall
  <2>2. ASSUME NEW c \in Calls, Inside(c) \/ Cancel(c)
        PROVE  call[Dl]' = Idle <=> call[Dl] = Idle
    <3>1. CASE Retry(c)
      <4>1. call[c] # Idle
        BY <3>1 DEF Retry
      <4>2. call[c]' # Idle
        BY <3>1 DEF Retry
      <4> QED
        BY <3>1, <4>1, <4>2 DEF Retry
    <3>2. CASE Recover(c) \/ Wake(c)
      BY <3>2 DEF Recover, Wake
    <3>3. CASE Cancel(c)
      BY <3>3 DEF Cancel
    <3> QED
      BY <2>2, <3>1, <3>2, <3>3 DEF Inside
  <2>3. CASE Tick \/ Interrupt
    BY <2>3 DEF Tick, Interrupt
  <2> QED
    BY <2>1, <2>2, <2>3 DEF Elsewhere
<1>3. UNCHANGED <<present, stage, first, end, done, page, added, skipped, lasting>>
  BY DEF Elsewhere, range
<1>4. DownloadOK'
  BY <1>1, <1>2, <1>3 DEF DownloadInv, DownloadOK
<1>5. RangeInv'
  BY <1>3 DEF DownloadInv, RangeInv, RangeStart, Underway, PageEnd
<1> QED
  BY <1>4, <1>5 DEF DownloadInv

THEOREM DownloadInvariance == DownloadSpec => []DownloadInv
<1>1. InitDownload => DownloadInv
  BY DownloadStarts
<1>2. DownloadInv /\ [NextDownload]_downloadVars => DownloadInv'
  <2> SUFFICES ASSUME DownloadInv, [NextDownload]_downloadVars PROVE DownloadInv'
    OBVIOUS
  <2>1. CASE Command
    BY <2>1, StartStep, AskStep, FetchStep, FetchFailStep, AddPageStep, FinishStep DEF Command
  <2>2. CASE Chat
    BY <2>2, ChatStep
  <2>3. CASE Elsewhere
    BY <2>3, ElsewhereStep
  <2>4. CASE UNCHANGED downloadVars
    BY <2>4 DEF downloadVars, calls, range, DownloadInv, DownloadOK, CallsOK, RangeInv, RangeStart, Underway, PageEnd
  <2> QED
    BY <2>1, <2>2, <2>3, <2>4 DEF NextDownload
<1> QED
  BY <1>1, <1>2, PTL DEF DownloadSpec

\* Every variable always has its type, and the command waits for a call exactly
\* while one of its calls passes through the middlewares.
THEOREM DownloadTypes == DownloadSpec => []DownloadOK
<1>1. DownloadInv => DownloadOK
  BY DEF DownloadInv
<1> QED
  BY <1>1, DownloadInvariance, PTL

\* A /dl that says it is through has had every message of the range in its hands
\* that was there all the time, but for those of the first page if it begins at 0.
THEOREM RangeIsDownloaded == DownloadSpec => []RangeDownloaded
<1>1. DownloadInv => RangeDownloaded
  <2> SUFFICES ASSUME DownloadInv, stage = "done", NEW m \in lasting \cap (RangeStart .. end - 1)
               PROVE  m \in added \cup skipped
    BY DEF RangeDownloaded
  <2>1. RangeStart <= m /\ m < end /\ m < first + done
    BY DownloadAssumption DEF DownloadInv, RangeInv, RangeStart, DownloadOK
  <2> QED
    BY <2>1 DEF DownloadInv, RangeInv, RangeStart, Underway
<1> QED
  BY <1>1, DownloadInvariance, PTL

-----------------------------------------------------------------------------
(* The export.  What it is through with is told from the entries left, the *)
(* window, and the offset into it.                                         *)

Paging == phase \in {"history", "index"}

Indexable(d) == d \notin hurt /\ Kind[d] # "chats"

PlainDialog(d) == Indexable(d) /\ InScope(d) /\ PostsOf(d) = DOMAIN history[d]

\* The posts of a window are in the engine, as far as a position.
Reached(d, w, n) == \A p \in PostsOf(d) : w.lo < p /\ p <= n => p \in docs[d]

WindowInv == phase \in {"dialogs", "history", "index"} => r \in DOMAIN Windows

EntriesInv == phase \in {"chat", "history", "index"} => \A e \in found : InScope(e[2])

ChatsInv == \A d \in Dialogs : Kind[d] = "chats" => docs[d] = {}

PageInv ==
  /\ phase = "index" => batch = Extracted
  /\ Paging /\ Indexable(Exporting) => Reached(Exporting, Window, Window.lo + offset)

ListInv ==
  phase = "dialogs" => \A d \in Dialogs : PlainDialog(d) =>
    /\ \A j \in 1 .. r - 1 : d \in Listed(Windows[j]) => Entry(j, d) \in found
    /\ d \in Listed(Window) /\ d <= offset => Entry(r, d) \in found

LeftInv ==
  phase \in {"filter", "chat", "history", "index"} =>
    \A d \in Dialogs : PlainDialog(d) => PostsOf(d) \subseteq docs[d] \/ \E e \in found : e[2] = d

BehindInv ==
  Paging /\ PlainDialog(Exporting) =>
    \A j \in 1 .. r - 1 : Reached(Exporting, Windows[j], Windows[j].hi)

Progress ==
  WindowInv /\ EntriesInv /\ PageInv /\ ListInv /\ LeftInv /\ BehindInv /\ PlainExported

ExportInv == TypeOK /\ PrefixIndexed /\ ChatsInv /\ Progress

-----------------------------------------------------------------------------
\* A set of naturals has a least element, and a bounded one a greatest.
LEMMA Smallest ==
  ASSUME NEW S \in SUBSET Nat, S # {}
  PROVE  \E x \in S : \A y \in S : x <= y
<1>1. PICK x \in S : \A y \in S : ~ (<<y, x>> \in OpToRel(<, Nat))
  BY NatLessThanWellFounded, WFMin
<1>2. \A y \in S : ~ (y < x)
  BY <1>1 DEF OpToRel
<1> QED
  BY <1>2

LEMMA LastIsGreatest ==
  ASSUME NEW S \in SUBSET Nat, S # {}, NEW n \in Nat, \A s \in S : s <= n
  PROVE  LastOf(S) \in S /\ \A s \in S : s <= LastOf(S)
<1> DEFINE gaps == {k \in Nat : n - k \in S}
<1>1. gaps # {}
  <2>1. PICK s \in S : TRUE
    OBVIOUS
  <2>2. n - s \in Nat /\ n - (n - s) = s
    OBVIOUS
  <2> QED
    BY <2>1, <2>2
<1>2. PICK k \in gaps : \A j \in gaps : k <= j
  <2>1. gaps \in SUBSET Nat
    OBVIOUS
  <2> HIDE DEF gaps
  <2> QED
    BY <1>1, <2>1, Smallest
<1>3. \A s \in S : n - s \in gaps
  OBVIOUS
<1>4. n - k \in S /\ \A s \in S : s <= n - k
  BY <1>2, <1>3
<1> QED
  BY <1>4 DEF LastOf

-----------------------------------------------------------------------------
\* The windows are ranges of positions, and each message is in one of them,
\* whichever way the export pages.
LEMMA WholeIsAll ==
  /\ Whole \in [lo : Nat, hi : Nat] /\ Whole.lo = 0
  /\ \A h \in Histories : Len(h) \in Nat /\ Len(h) < Whole.hi
<1> DEFINE longest == CHOOSE h \in Histories : \A g \in Histories : Len(g) <= Len(h)
<1>1. longest \in Histories /\ \A g \in Histories : Len(g) <= Len(longest)
  BY DialogsAssumption
<1>2. \A h \in Histories : Len(h) \in Nat
  BY DialogsAssumption
<1>3. Whole = [lo |-> 0, hi |-> 1 + Len(longest)]
  BY DEF Whole
<1> HIDE DEF longest
<1> QED
  BY <1>1, <1>2, <1>3

LEMMA RangesTyped ==
  /\ Len(Ranges) \in Nat \ {0} /\ DOMAIN Ranges = 1 .. Len(Ranges)
  /\ \A i \in DOMAIN Ranges : Ranges[i] \in [lo : Nat, hi : Nat]
<1> DEFINE W == [lo : Nat, hi : Nat]
<1>1. Ranges \in Seq(W) /\ Ranges # <<>>
  BY RangesAssumption
<1> HIDE DEF W
<1>2. Len(Ranges) \in Nat \ {0} /\ DOMAIN Ranges = 1 .. Len(Ranges)
  BY <1>1
<1>3. \A i \in DOMAIN Ranges : Ranges[i] \in W
  BY <1>1, <1>2
<1> QED
  BY <1>2, <1>3 DEF W

LEMMA WindowsCover ==
  ASSUME TypeOK
  PROVE  /\ Windows \in Seq([lo : Nat, hi : Nat]) /\ Len(Windows) \in Nat \ {0}
         /\ DOMAIN Windows = 1 .. Len(Windows)
         /\ \A i \in 1 .. Len(Windows) : Windows[i] \in [lo : Nat, hi : Nat]
         /\ \A d \in Dialogs : \A p \in PostsOf(d) : \E i \in 1 .. Len(Windows) :
              Windows[i].lo < p /\ p <= Windows[i].hi
<1>1. CASE plain
  <2>1. Windows = <<Whole>>
    BY <1>1 DEF Windows
  <2>2. Len(Windows) = 1 /\ Windows[1] = Whole /\ Windows \in Seq([lo : Nat, hi : Nat])
    BY <2>1, WholeIsAll
  <2>3. \A d \in Dialogs : \A p \in PostsOf(d) : Whole.lo < p /\ p <= Whole.hi
    BY WholeIsAll, DialogsAssumption DEF TypeOK, PostsOf
  <2>4. 1 .. Len(Windows) = {1}
    BY <2>2
  <2> QED
    BY <2>2, <2>3, <2>4, WholeIsAll
<1>2. CASE ~plain
  <2>1. Windows = Ranges
    BY <1>2 DEF Windows
  <2>2. \A d \in Dialogs : \A p \in PostsOf(d) : p \in DOMAIN history[d] /\ history[d] \in Histories
    BY DEF TypeOK, PostsOf
  <2>3. \A d \in Dialogs : \A p \in PostsOf(d) : \E i \in DOMAIN Ranges :
          Ranges[i].lo < p /\ p <= Ranges[i].hi
    BY <2>2, RangesAssumption
  <2> QED
    BY <2>1, <2>3, RangesTyped, RangesAssumption
<1> QED
  BY <1>1, <1>2

\* What a step that leaves the two stores alone has no part in.
LEMMA Quiet ==
  ASSUME ExportInv, UNCHANGED <<history, scope, docs>>, hurt \subseteq hurt'
  PROVE  PrefixIndexed' /\ ChatsInv'
<1>1. PrefixIndexed'
  BY DEF ExportInv, PrefixIndexed, PostsOf
<1>2. ChatsInv'
  BY DEF ExportInv, ChatsInv
<1> QED
  BY <1>1, <1>2

-----------------------------------------------------------------------------
\* A page of dialogs that is not full has all that follow the offset; any has
\* all up to its last one.
LEMMA PageIsFinite ==
  ASSUME TypeOK, NEW S \in SUBSET Listed(Window)
  PROVE  IsFiniteSet(S) /\ Cardinality(S) \in Nat
<1>1. S \subseteq Dialogs /\ IsFiniteSet(Dialogs)
  BY FS_Interval, DialogsAssumption DEF Listed, Dialogs
<1>2. IsFiniteSet(S)
  BY <1>1, FS_Subset
<1> QED
  BY <1>2, FS_CardinalityType

LEMMA ShortPage ==
  ASSUME TypeOK, Cardinality(DialogPage) < DialogLimit,
         NEW d \in Listed(Window), offset < d
  PROVE  d \in DialogPage
<1> DEFINE L == Listed(Window)
           before(x) == {c \in L : offset < c /\ c < x}
           missing == {x \in L : offset < x /\ x \notin DialogPage}
<1>1. L \subseteq Nat
  BY DialogsAssumption DEF Listed, Dialogs
<1>2. SUFFICES ASSUME d \notin DialogPage PROVE FALSE
  OBVIOUS
<1>3. PICK x \in missing : \A y \in missing : x <= y
  <2>1. missing \in SUBSET Nat /\ missing # {}
    BY <1>1, <1>2
  <2> HIDE DEF missing
  <2> QED
    BY <2>1, Smallest
<1>4. before(x) \subseteq DialogPage
  BY <1>1, <1>3
<1>5. ~ (Cardinality(before(x)) < DialogLimit)
  BY <1>3 DEF DialogPage
<1>6. /\ IsFiniteSet(DialogPage) /\ Cardinality(DialogPage) \in Nat
      /\ Cardinality(before(x)) \in Nat
  <2>1. DialogPage \in SUBSET L /\ before(x) \in SUBSET L
    BY DEF DialogPage
  <2> QED
    BY <2>1, PageIsFinite
<1>7. Cardinality(before(x)) <= Cardinality(DialogPage)
  BY <1>4, <1>6, FS_Subset
<1> QED
  BY <1>5, <1>6, <1>7, LimitAssumption

LEMMA UpToLast ==
  ASSUME TypeOK, NEW last \in DialogPage,
         NEW d \in Listed(Window), offset < d, d <= last
  PROVE  d \in DialogPage
<1> DEFINE L == Listed(Window)
           before(x) == {c \in L : offset < c /\ c < x}
<1>1. L \subseteq Nat /\ last \in L
  BY DialogsAssumption DEF Listed, Dialogs, DialogPage
<1>2. before(d) \subseteq before(last)
  BY <1>1
<1>3. IsFiniteSet(before(last)) /\ Cardinality(before(last)) \in Nat /\ Cardinality(before(d)) \in Nat
  <2>1. before(last) \in SUBSET L /\ before(d) \in SUBSET L
    OBVIOUS
  <2> QED
    BY <2>1, PageIsFinite
<1>4. Cardinality(before(d)) <= Cardinality(before(last))
  BY <1>2, <1>3, FS_Subset
<1>5. Cardinality(before(last)) < DialogLimit
  BY DEF DialogPage
<1>6. Cardinality(before(d)) < DialogLimit
  BY <1>3, <1>4, <1>5, LimitAssumption
<1> QED
  BY <1>6 DEF DialogPage

-----------------------------------------------------------------------------
\* The posts that a page holds; a full one is a whole interval, and a short one
\* of a history without service messages is the last of its window.
LEMMA PageBounds ==
  ASSUME TypeOK, Paging, WindowInv
  PROVE  /\ Exporting \in Dialogs /\ Window \in [lo : Nat, hi : Nat]
         /\ history[Exporting] \in Seq(MessageKinds)
         /\ \A p \in Extracted : /\ p \in PostsOf(Exporting)
                                 /\ Window.lo + offset < p /\ p <= Window.hi
                                 /\ p <= Window.lo + offset + BatchSize
         /\ \A p \in PostsOf(Exporting) :
              Window.lo + offset < p /\ p <= Window.hi /\ p <= Window.lo + offset + BatchSize
                => p \in Extracted
<1>1. Exporting \in Dialogs
  BY DEF TypeOK, Paging, Exporting
<1>2. Window \in [lo : Nat, hi : Nat]
  BY WindowsCover DEF WindowInv, Paging, Window
<1>3. history[Exporting] \in Seq(MessageKinds)
  BY <1>1, DialogsAssumption DEF TypeOK
<1>4. Len(history[Exporting]) \in Nat /\ DOMAIN history[Exporting] = 1 .. Len(history[Exporting])
  BY <1>3
<1>5. offset \in Nat /\ BatchSize \in Nat /\ Window.lo \in Nat /\ Window.hi \in Nat
  BY <1>2, LimitAssumption DEF TypeOK
<1>6. \A p \in Extracted : /\ p \in PostsOf(Exporting)
                           /\ Window.lo + offset < p /\ p <= Window.hi
                           /\ p <= Window.lo + offset + BatchSize
  BY <1>4, <1>5 DEF Extracted, PostsOf, SetMin
<1>7. \A p \in PostsOf(Exporting) :
        Window.lo + offset < p /\ p <= Window.hi /\ p <= Window.lo + offset + BatchSize
          => p \in Extracted
  BY <1>4, <1>5 DEF Extracted, PostsOf, SetMin
<1> QED
  BY <1>1, <1>2, <1>3, <1>6, <1>7

LEMMA PageIsBounded ==
  ASSUME TypeOK, Paging, WindowInv
  PROVE  /\ Extracted \subseteq Window.lo + offset + 1 .. Window.lo + offset + BatchSize
         /\ IsFiniteSet(Extracted) /\ Cardinality(Extracted) \in 0 .. BatchSize
         /\ Cardinality(Extracted) = BatchSize =>
              Extracted = Window.lo + offset + 1 .. Window.lo + offset + BatchSize
<1> DEFINE first_ == Window.lo + offset
           whole == first_ + 1 .. first_ + BatchSize
<1>1. first_ \in Nat /\ BatchSize \in Nat \ {0}
  BY PageBounds, LimitAssumption DEF TypeOK
<1>2. Extracted \subseteq whole
  BY <1>1, PageBounds, DialogsAssumption DEF PostsOf
<1> HIDE DEF first_
<1>3. IsFiniteSet(whole) /\ Cardinality(whole) = BatchSize
  <2>1. first_ + 1 \in Int /\ first_ + BatchSize \in Int
    BY <1>1
  <2> QED
    BY <1>1, <2>1, FS_Interval
<1>4. /\ IsFiniteSet(Extracted) /\ Cardinality(Extracted) <= Cardinality(whole)
      /\ Cardinality(whole) = Cardinality(Extracted) => whole = Extracted
  BY <1>2, <1>3, FS_Subset
<1>5. Cardinality(Extracted) \in Nat
  BY <1>4, FS_CardinalityType
<1> QED
  BY <1>1, <1>2, <1>3, <1>4, <1>5 DEF first_

LEMMA FullPage ==
  ASSUME TypeOK, Paging, WindowInv, ~ (Cardinality(Extracted) < BatchSize)
  PROVE  LastOf(Extracted) = Window.lo + offset + BatchSize
<1> DEFINE last == Window.lo + offset + BatchSize
<1>1. last \in Nat /\ BatchSize \in Nat \ {0} /\ Window.lo + offset \in Nat
  BY PageBounds, LimitAssumption DEF TypeOK
<1>2. Extracted = Window.lo + offset + 1 .. last
  BY <1>1, PageIsBounded
<1>3. last \in Extracted /\ Extracted \in SUBSET Nat /\ \A p \in Extracted : p <= last
  BY <1>1, <1>2
<1> HIDE DEF last
<1>4. LastOf(Extracted) \in Extracted /\ \A p \in Extracted : p <= LastOf(Extracted)
  BY <1>1, <1>3, LastIsGreatest
<1>5. LastOf(Extracted) \in Nat /\ LastOf(Extracted) <= last /\ last <= LastOf(Extracted)
  BY <1>3, <1>4
<1>6. LastOf(Extracted) = last
  BY <1>1, <1>5
<1> QED
  BY <1>6 DEF last

LEMMA LastPage ==
  ASSUME TypeOK, Paging, WindowInv, Cardinality(Extracted) < BatchSize,
         PostsOf(Exporting) = DOMAIN history[Exporting],
         NEW p \in PostsOf(Exporting), Window.lo + offset < p, p <= Window.hi
  PROVE  p \in Extracted
<1> DEFINE first_ == Window.lo + offset
           whole == first_ + 1 .. first_ + BatchSize
<1>1. first_ \in Nat /\ BatchSize \in Nat \ {0} /\ p \in Nat /\ Window.hi \in Nat
  BY PageBounds, LimitAssumption DEF TypeOK, PostsOf
<1>2. SUFFICES ASSUME p > first_ + BatchSize PROVE FALSE
  BY <1>1, PageBounds
<1>3. \A k \in whole : k \in PostsOf(Exporting) /\ k <= Window.hi
  <2>1. DOMAIN history[Exporting] = 1 .. Len(history[Exporting]) /\ Len(history[Exporting]) \in Nat
    BY PageBounds
  <2>2. p <= Len(history[Exporting])
    BY <2>1
  <2> QED
    BY <1>1, <1>2, <2>1, <2>2
<1>4. whole \subseteq Extracted
  BY <1>1, <1>3, PageBounds
<1> HIDE DEF first_
<1>5. Cardinality(whole) = BatchSize
  <2>1. first_ + 1 \in Int /\ first_ + BatchSize \in Int
    BY <1>1
  <2>2. Cardinality(whole) = IF first_ + 1 > first_ + BatchSize
                               THEN 0 ELSE (first_ + BatchSize) - (first_ + 1) + 1
    BY <2>1, FS_Interval
  <2> QED
    BY <1>1, <2>2
<1>6. Cardinality(whole) <= Cardinality(Extracted) /\ Cardinality(Extracted) \in Nat
  BY <1>4, PageIsBounded, FS_Subset, FS_CardinalityType
<1> QED
  BY <1>1, <1>5, <1>6

-----------------------------------------------------------------------------
\* The export goes on to the next window or the next chat once it has what this
\* one holds, whatever else the step did.
Carried ==
  /\ UNCHANGED <<history, scope, plain, chat>>
  /\ hurt \subseteq hurt' /\ batch' = {}
  /\ \A d \in Dialogs : docs[d] \subseteq docs'[d]

LEMMA ChatEnds ==
  ASSUME ExportInv, Paging, Carried, NextChat,
         PlainDialog(Exporting)' => PostsOf(Exporting) \subseteq docs'[Exporting]
  PROVE  Progress' /\ found' \subseteq found
<1> USE DEF ExportInv, Progress, Carried, NextChat
<1>1. found' = found \ {chat} /\ phase' = "chat"
  OBVIOUS
<1>2. WindowInv' /\ PageInv' /\ ListInv' /\ BehindInv' /\ PlainExported'
  BY <1>1 DEF WindowInv, PageInv, ListInv, BehindInv, PlainExported, Paging
<1>3. EntriesInv'
  BY <1>1 DEF EntriesInv, Paging, InScope
<1>4. ASSUME NEW d \in Dialogs, PlainDialog(d)'
      PROVE  PostsOf(d) \subseteq docs'[d] \/ \E e \in found' : e[2] = d
  <2>1. PlainDialog(d)
    BY <1>4 DEF PlainDialog, Indexable, InScope, PostsOf
  <2>2. PostsOf(d) \subseteq docs[d] \/ \E e \in found : e[2] = d
    BY <2>1 DEF LeftInv, Paging
  <2>3. CASE d = Exporting
    BY <1>4, <2>3 DEF Exporting
  <2>4. CASE d # Exporting
    BY <1>1, <2>2, <2>4 DEF Exporting
  <2> QED
    BY <2>3, <2>4
<1>5. LeftInv'
  BY <1>4 DEF LeftInv, PostsOf
<1> QED
  BY <1>1, <1>2, <1>3, <1>5

LEMMA WindowEnds ==
  ASSUME ExportInv, Paging, Carried, NextWindow,
         PlainDialog(Exporting)' =>
           \A p \in PostsOf(Exporting) : Window.lo < p /\ p <= Window.hi => p \in docs'[Exporting]
  PROVE  Progress' /\ found' \subseteq found
<1> USE DEF ExportInv, Progress
<1>0. Windows' = Windows /\ Exporting' = Exporting /\ Exporting \in Dialogs
      /\ r \in 1 .. Len(Windows) /\ r \in Nat /\ Len(Windows) \in Nat
  BY WindowsCover DEF Carried, Windows, Exporting, WindowInv, Paging, TypeOK
<1>1. ASSUME PlainDialog(Exporting)'
      PROVE  \A j \in 1 .. r : \A p \in PostsOf(Exporting) :
               Windows[j].lo < p /\ p <= Windows[j].hi => p \in docs'[Exporting]
  <2>1. PlainDialog(Exporting)
    BY <1>0, <1>1 DEF PlainDialog, Indexable, InScope, PostsOf, Carried
  <2>2. \A j \in 1 .. r - 1 : Reached(Exporting, Windows[j], Windows[j].hi)
    BY <2>1 DEF BehindInv
  <2>3. docs[Exporting] \subseteq docs'[Exporting]
    BY <1>0 DEF Carried
  <2>4. \A p \in PostsOf(Exporting) : Windows[r].lo < p /\ p <= Windows[r].hi => p \in docs'[Exporting]
    BY <1>1 DEF Window
  <2>5. \A j \in 1 .. r : j = r \/ j \in 1 .. r - 1
    BY DEF TypeOK
  <2> QED
    BY <2>2, <2>3, <2>4, <2>5 DEF Reached
<1>2. CASE r < Len(Windows)
  <2>1. r' = r + 1 /\ offset' = 0 /\ phase' = "history" /\ found' = found
    BY <1>2 DEF NextWindow
  <2>2. WindowInv'
    BY <1>0, <1>2, <2>1, WindowsCover DEF WindowInv, TypeOK
  <2>3. EntriesInv' /\ ListInv' /\ PlainExported'
    BY <2>1 DEF EntriesInv, ListInv, PlainExported, Paging, InScope, Carried
  <2>4. PageInv'
    <3>1. Window' = Windows[r + 1]
      BY <1>0, <2>1 DEF Window
    <3>3. r + 1 \in 1 .. Len(Windows)
      BY <1>0, <1>2
    <3>4. Windows[r + 1].lo \in Nat
      BY <3>3, WindowsCover
    <3>2. \A p \in PostsOf(Exporting)' : p \in Nat
      BY <1>0, DialogsAssumption DEF PostsOf, TypeOK, Carried
    <3> QED
      BY <1>0, <2>1, <3>1, <3>2, <3>4 DEF PageInv, Reached, Paging
  <2>5. LeftInv'
    BY <2>1 DEF LeftInv, PlainDialog, Indexable, InScope, PostsOf, Carried, Paging
  <2>6. BehindInv'
    <3>1. 1 .. r' - 1 = 1 .. r
      BY <2>1 DEF TypeOK
    <3>2. PostsOf(Exporting)' = PostsOf(Exporting)
      BY <1>0 DEF PostsOf, Carried
    <3> QED
      BY <1>0, <1>1, <3>1, <3>2 DEF BehindInv, Reached
  <2> QED
    BY <2>1, <2>2, <2>3, <2>4, <2>5, <2>6
<1>3. CASE ~ (r < Len(Windows))
  <2>1. NextChat
    BY <1>3 DEF NextWindow
  <2>2. r = Len(Windows)
    BY <1>0, <1>3
  <2>3. PlainDialog(Exporting)' => PostsOf(Exporting) \subseteq docs'[Exporting]
    BY <1>0, <1>1, <2>2, WindowsCover
  <2> QED
    BY <2>1, <2>3, ChatEnds
<1> QED
  BY <1>2, <1>3

-----------------------------------------------------------------------------
\* Failures are counted up to the bound, and leave their mark for good.
LEMMA FaultsKept ==
  ASSUME TypeOK, NEW kind, NEW ds \in SUBSET Dialogs, Fails(kind, ds) \/ Fine
  PROVE  hurt \subseteq hurt' /\ hurt' \subseteq Dialogs /\ faults' \in 0 .. MaxFaults
<1>1. CASE Fails(kind, ds)
  BY <1>1, BoundAssumption DEF TypeOK, Fails
<1>2. CASE Fine
  BY <1>2 DEF TypeOK, Fine
<1> QED
  BY <1>1, <1>2

\* There is a first window, whichever way the export is about to page.
LEMMA FirstWindow ==
  ASSUME plain' \in BOOLEAN, r' = 1
  PROVE  r' \in (DOMAIN Windows)' /\ Window' \in [lo : Nat, hi : Nat]
<1>1. CASE plain'
  <2>1. Windows' = <<Whole>>
    BY <1>1 DEF Windows
  <2> QED
    BY <2>1, WholeIsAll DEF Window
<1>2. CASE ~plain'
  <2>1. Windows' = Ranges /\ 1 \in DOMAIN Ranges
    BY <1>2, RangesTyped DEF Windows
  <2> QED
    BY <2>1, RangesTyped DEF Window
<1> QED
  BY <1>1, <1>2

\* A run that begins, or that has come to nothing, holds nothing.
LEMMA BlankType ==
  ASSUME Blank
  PROVE  /\ plain' \in BOOLEAN /\ updated' \in BOOLEAN
         /\ r' \in Nat \ {0} /\ offset' \in Nat
         /\ found' \subseteq (Nat \ {0}) \X Dialogs
         /\ chat' \in Nat \X Nat
         /\ batch' \subseteq Nat /\ batch' = {}
<1>1. plain' \in BOOLEAN /\ updated' \in BOOLEAN
  BY DEF Blank
<1>2. chat' \in Nat \X Nat
  BY DEF Blank, NoEntry, Entry
<1> QED
  BY <1>1, <1>2 DEF Blank

LEMMA ExportStarts == Init => ExportInv
<1> SUFFICES ASSUME Init PROVE ExportInv
  OBVIOUS
<1> USE DEF Init
<1>1. TypeOK
  <2>1. plain \in BOOLEAN /\ updated \in BOOLEAN
    OBVIOUS
  <2>2. chat \in Nat \X Nat
    BY DEF NoEntry, Entry
  <2>3. rows \in [Dialogs -> {"none", "watched", "unwatched"}]
    BY DialogsAssumption
  <2>4. docs \in [Dialogs -> SUBSET Nat]
    OBVIOUS
  <2>5. faults \in 0 .. MaxFaults /\ runs \in 0 .. MaxRuns
    BY BoundAssumption
  <2> QED
    BY <2>1, <2>2, <2>3, <2>4, <2>5 DEF TypeOK, Phases
<1>2. PrefixIndexed /\ ChatsInv
  BY DEF PrefixIndexed, ChatsInv, PostsOf
<1>3. Progress
  BY DEF Progress, WindowInv, EntriesInv, PageInv, ListInv, LeftInv, BehindInv, PlainExported, Paging
<1> QED
  BY <1>1, <1>2, <1>3 DEF ExportInv

LEMMA BeginStep == ASSUME ExportInv, Begin PROVE ExportInv'
<1> USE DEF Begin, store
<1>1. TypeOK'
  <2>1. runs' \in 0 .. MaxRuns /\ phase' = "ranges"
    BY BoundAssumption DEF ExportInv, TypeOK
  <2>2. UNCHANGED <<history, scope, rows, docs, hurt, faults>> /\ Blank
    OBVIOUS
  <2> QED
    BY <2>1, <2>2, BlankType DEF ExportInv, TypeOK, Phases
<1>2. PrefixIndexed' /\ ChatsInv'
  BY Quiet
<1>3. Progress'
  BY DEF Progress, WindowInv, EntriesInv, PageInv, ListInv, LeftInv, BehindInv, PlainExported, Paging
<1> QED
  BY <1>1, <1>2, <1>3 DEF ExportInv

LEMMA KillStep == ASSUME ExportInv, Kill PROVE ExportInv'
<1> USE DEF Kill, store, counts
<1>1. TypeOK'
  <2>1. UNCHANGED <<history, scope, rows, docs, hurt, faults, runs>> /\ Blank /\ phase' = "idle"
    OBVIOUS
  <2> QED
    BY <2>1, BlankType DEF ExportInv, TypeOK, Phases
<1>2. PrefixIndexed' /\ ChatsInv'
  BY Quiet
<1>3. Progress'
  BY DEF Progress, WindowInv, EntriesInv, PageInv, ListInv, LeftInv, BehindInv, PlainExported, Paging
<1> QED
  BY <1>1, <1>2, <1>3 DEF ExportInv

LEMMA GetRangesStep == ASSUME ExportInv, GetRanges PROVE ExportInv'
<1> USE DEF GetRanges, store
<1>1. hurt \subseteq hurt' /\ hurt' \subseteq Dialogs /\ faults' \in 0 .. MaxFaults
  BY FaultsKept DEF ExportInv
<1>2. TypeOK'
  BY <1>1 DEF ExportInv, TypeOK, Phases
<1>3. PrefixIndexed' /\ ChatsInv'
  BY <1>1, Quiet
<1>4. Progress'
  <2>1. WindowInv'
    BY <1>2, FirstWindow DEF WindowInv, TypeOK
  <2>2. ListInv'
    BY DialogsAssumption DEF ListInv, Dialogs
  <2>3. EntriesInv' /\ PageInv' /\ LeftInv' /\ BehindInv' /\ PlainExported'
    BY DEF EntriesInv, PageInv, LeftInv, BehindInv, PlainExported, Paging
  <2> QED
    BY <2>1, <2>2, <2>3 DEF Progress
<1> QED
  BY <1>2, <1>3, <1>4 DEF ExportInv

\* A window is through once each dialog with messages there has been listed.
LEMMA RangeListed ==
  ASSUME ExportInv, phase = "dialogs", UNCHANGED <<history, scope, docs, plain>>,
         hurt \subseteq hurt', NextDialogRange, found \subseteq found',
         \A d \in Dialogs : PlainDialog(d)' /\ d \in Listed(Window) => Entry(r, d) \in found'
  PROVE  Progress'
<1> USE DEF ExportInv, Progress
<1>0. Windows' = Windows /\ r \in 1 .. Len(Windows) /\ r \in Nat /\ Len(Windows) \in Nat
  BY WindowsCover DEF Windows, WindowInv, TypeOK
<1>1. ASSUME NEW d \in Dialogs, PlainDialog(d)', NEW j \in 1 .. r, d \in Listed(Windows[j])
      PROVE  Entry(j, d) \in found'
  <2>1. PlainDialog(d)
    BY <1>1 DEF PlainDialog, Indexable, InScope, PostsOf
  <2>2. CASE j = r
    BY <1>1, <2>2 DEF Window
  <2>3. CASE j # r
    <3>1. j \in 1 .. r - 1
      BY <1>0, <2>3
    <3> QED
      BY <1>1, <2>1, <3>1 DEF ListInv
  <2> QED
    BY <2>2, <2>3
<1>2. CASE r < Len(Windows)
  <2>1. r' = r + 1 /\ offset' = 0 /\ phase' = "dialogs"
    BY <1>2 DEF NextDialogRange
  <2>2. WindowInv'
    BY <1>0, <1>2, <2>1, WindowsCover DEF WindowInv
  <2>3. ListInv'
    <3>1. 1 .. r' - 1 = 1 .. r
      BY <1>0, <2>1
    <3>2. \A d \in Dialogs : ~ (d <= offset')
      BY <2>1, DialogsAssumption DEF Dialogs
    <3>3. \A w : Listed(w)' = Listed(w)
      BY DEF Listed
    <3> QED
      BY <1>0, <1>1, <3>1, <3>2, <3>3 DEF ListInv
  <2>4. EntriesInv' /\ PageInv' /\ LeftInv' /\ BehindInv' /\ PlainExported'
    BY <2>1 DEF EntriesInv, PageInv, LeftInv, BehindInv, PlainExported, Paging
  <2> QED
    BY <2>2, <2>3, <2>4
<1>3. CASE ~ (r < Len(Windows))
  <2>1. r = Len(Windows) /\ phase' = "filter"
    BY <1>0, <1>3 DEF NextDialogRange
  <2>2. LeftInv'
    <3>1. SUFFICES ASSUME NEW d \in Dialogs, PlainDialog(d)', PostsOf(d) # {}
                   PROVE  \E e \in found' : e[2] = d
      BY DEF LeftInv, PostsOf
    <3>2. PICK p \in PostsOf(d) : TRUE
      BY <3>1
    <3>3. PICK i \in 1 .. Len(Windows) : Windows[i].lo < p /\ p <= Windows[i].hi
      BY WindowsCover
    <3>4. p \in Nat /\ p <= Len(history[d]) /\ Len(history[d]) \in Nat
      BY DialogsAssumption DEF PostsOf, TypeOK
    <3>5. Windows[i].lo \in Nat
      BY WindowsCover
    <3>6. d \in Listed(Windows[i])
      BY <3>3, <3>4, <3>5 DEF Listed
    <3>7. Entry(i, d) \in found'
      BY <1>1, <2>1, <3>1, <3>6
    <3> QED
      BY <3>7 DEF Entry
  <2>3. WindowInv' /\ ListInv' /\ EntriesInv' /\ PageInv' /\ BehindInv' /\ PlainExported'
    BY <2>1 DEF WindowInv, ListInv, EntriesInv, PageInv, BehindInv, PlainExported, Paging
  <2> QED
    BY <2>2, <2>3
<1> QED
  BY <1>2, <1>3

LEMMA FetchDialogsStep == ASSUME ExportInv, FetchDialogs PROVE ExportInv'
<1> USE DEF FetchDialogs, store, Fine
<1>1. phase = "dialogs" /\ r \in DOMAIN Windows /\ TypeOK
  BY DEF ExportInv, Progress, WindowInv
<1>2. PrefixIndexed' /\ ChatsInv'
  BY Quiet
<1>3. DialogPage \subseteq Listed(Window) /\ Listed(Window) \subseteq Dialogs /\ Dialogs \subseteq Nat \ {0}
  BY DialogsAssumption DEF DialogPage, Listed, Dialogs
<1>4. found' = found \cup {Entry(r, d) : d \in DialogPage}
  OBVIOUS
<1>5. found' \subseteq (Nat \ {0}) \X Dialogs
  BY <1>1, <1>3, <1>4 DEF TypeOK, Entry
<1>6. \A d \in DialogPage : Entry(r, d) \in found'
  BY <1>4
<1>7. CASE Cardinality(DialogPage) < DialogLimit
  <2>1. NextDialogRange /\ UNCHANGED <<history, scope, rows, docs, plain, chat, batch, updated, runs, hurt, faults>>
    BY <1>7
  <2>2. TypeOK'
    <3>1. r' \in Nat \ {0} /\ offset' \in Nat /\ phase' \in {"dialogs", "filter"}
      BY <1>1, <2>1 DEF NextDialogRange, TypeOK
    <3>2. chat \in Nat \X Nat
      BY <1>1 DEF TypeOK
    <3> QED
      BY <1>1, <1>5, <2>1, <3>1, <3>2 DEF TypeOK, Phases
  <2>3. ASSUME NEW d \in Dialogs, PlainDialog(d)', d \in Listed(Window)
        PROVE  Entry(r, d) \in found'
    <3>1. PlainDialog(d)
      BY <2>1, <2>3 DEF PlainDialog, Indexable, InScope, PostsOf
    <3>2. CASE d <= offset
      BY <1>1, <1>4, <2>3, <3>1, <3>2 DEF ExportInv, Progress, ListInv
    <3>3. CASE offset < d
      BY <1>1, <1>6, <1>7, <2>3, <3>3, ShortPage
    <3> QED
      BY <1>1, <1>3, <2>3, <3>2, <3>3 DEF TypeOK
  <2>4. Progress'
    BY <1>1, <1>4, <2>1, <2>3, RangeListed
  <2> QED
    BY <1>2, <2>2, <2>4 DEF ExportInv
<1>8. CASE ~ (Cardinality(DialogPage) < DialogLimit)
  <2>1. /\ offset' = IF TopIsPost(LastOf(DialogPage), Window) THEN LastOf(DialogPage) ELSE offset
        /\ UNCHANGED <<history, scope, rows, docs, plain, chat, batch, updated, runs, hurt, faults, phase, r>>
    BY <1>8
  <2>2. LastOf(DialogPage) \in DialogPage /\ \A d \in DialogPage : d <= LastOf(DialogPage)
    <3>1. DialogPage # {}
      BY <1>8, FS_EmptySet, LimitAssumption
    <3>2. DialogPage \in SUBSET Nat /\ \A d \in DialogPage : d <= NumDialogs
      BY <1>3, DialogsAssumption DEF Dialogs
    <3> QED
      BY <3>1, <3>2, DialogsAssumption, LastIsGreatest
  <2>3. offset' \in Nat
    BY <1>1, <1>3, <2>1, <2>2 DEF TypeOK
  <2>4. TypeOK'
    BY <1>1, <1>5, <2>1, <2>3 DEF TypeOK, Phases
  <2>5. Windows' = Windows /\ Window' = Window /\ Listed(Window)' = Listed(Window)
    BY <2>1 DEF Windows, Window, Listed
  <2>6. ListInv'
    <3>1. SUFFICES ASSUME NEW d \in Dialogs, PlainDialog(d)'
                   PROVE  /\ \A j \in 1 .. r - 1 : d \in Listed(Windows[j])' => Entry(j, d) \in found'
                          /\ d \in Listed(Window) /\ d <= offset' => Entry(r, d) \in found'
      BY <2>1, <2>5 DEF ListInv
    <3>2. PlainDialog(d)
      BY <2>1, <3>1 DEF PlainDialog, Indexable, InScope, PostsOf
    <3>3. \A j \in 1 .. r - 1 : d \in Listed(Windows[j])' => Entry(j, d) \in found'
      BY <1>1, <1>4, <2>1, <2>5, <3>2 DEF ExportInv, Progress, ListInv, Listed
    <3>4. ASSUME d \in Listed(Window), d <= offset' PROVE Entry(r, d) \in found'
      <4>1. CASE d <= offset
        BY <1>1, <1>4, <3>2, <3>4, <4>1 DEF ExportInv, Progress, ListInv
      <4>2. CASE offset < d
        <5>1. offset' = LastOf(DialogPage)
          BY <1>1, <1>3, <2>1, <2>3, <3>4, <4>2 DEF TypeOK
        <5>2. d \in DialogPage
          BY <1>1, <2>2, <3>4, <4>2, <5>1, UpToLast
        <5> QED
          BY <1>6, <5>2
      <4> QED
        BY <1>1, <1>3, <3>4, <4>1, <4>2 DEF TypeOK
    <3> QED
      BY <3>3, <3>4
  <2>7. WindowInv'
    BY <1>1, <2>1, <2>5 DEF WindowInv
  <2>8. EntriesInv' /\ PageInv' /\ LeftInv' /\ BehindInv' /\ PlainExported'
    BY <1>1, <2>1 DEF EntriesInv, PageInv, LeftInv, BehindInv, PlainExported, Paging
  <2> QED
    BY <1>2, <2>4, <2>6, <2>7, <2>8 DEF ExportInv, Progress
<1> QED
  BY <1>7, <1>8

LEMMA DialogsFailStep == ASSUME ExportInv, DialogsFail PROVE ExportInv'
<1> USE DEF DialogsFail, store
<1>1. hurt \subseteq hurt' /\ hurt' \subseteq Dialogs /\ faults' \in 0 .. MaxFaults
  BY FaultsKept DEF ExportInv
<1>2. Dialogs \subseteq hurt'
  BY DEF Fails
<1>3. PrefixIndexed' /\ ChatsInv'
  BY <1>1, Quiet
<1>4. \A d \in Dialogs : ~ PlainDialog(d)'
  BY <1>2 DEF PlainDialog, Indexable
<1>5. CASE plain
  <2>1. phase' = "failed" /\ r' = r /\ offset' = offset
    BY <1>5
  <2>2. TypeOK'
    BY <1>1, <2>1 DEF ExportInv, TypeOK, Phases
  <2>3. Progress'
    BY <2>1 DEF Progress, WindowInv, EntriesInv, PageInv, ListInv, LeftInv, BehindInv, PlainExported, Paging
  <2> QED
    BY <1>3, <2>2, <2>3 DEF ExportInv
<1>6. CASE ~plain
  <2>1. NextDialogRange
    BY <1>6
  <2>2. TypeOK'
    <3>1. r' \in Nat \ {0} /\ offset' \in Nat /\ phase' \in {"dialogs", "filter"}
      BY <2>1 DEF ExportInv, NextDialogRange, TypeOK
    <3>2. chat \in Nat \X Nat
      BY DEF ExportInv, TypeOK
    <3> QED
      BY <1>1, <3>1, <3>2 DEF ExportInv, TypeOK, Phases
  <2>3. Progress'
    BY <1>1, <1>4, <2>1, RangeListed
  <2> QED
    BY <1>3, <2>2, <2>3 DEF ExportInv
<1> QED
  BY <1>5, <1>6

-----------------------------------------------------------------------------
LEMMA FilterStep == ASSUME ExportInv, Filter PROVE ExportInv'
<1> USE DEF Filter, store
<1>1. PICK failing \in SUBSET Unsure :
        /\ IF failing = {} THEN Fine ELSE Fails("classify", {e[2] : e \in failing})
        /\ found' = Passing \ failing
  OBVIOUS
<1>2. TypeOK /\ phase = "filter" /\ phase' = "chat"
  BY DEF ExportInv
<1>3. UNCHANGED <<history, scope, rows, docs, plain, r, offset, chat, batch, updated, runs>>
  OBVIOUS
<1>4. \A e \in found : e[2] \in Dialogs
  BY <1>2 DEF TypeOK
<1>5. {e[2] : e \in failing} \subseteq Dialogs
  BY <1>1, <1>4 DEF Unsure
<1>6. hurt \subseteq hurt' /\ hurt' \subseteq Dialogs /\ faults' \in 0 .. MaxFaults
  BY <1>1, <1>2, <1>5, FaultsKept
<1>7. \A e \in failing : e[2] \in hurt'
  BY <1>1 DEF Fails
<1>8. found' \subseteq found /\ \A e \in found' : InScope(e[2])
  BY <1>1 DEF Passing
<1>9. TypeOK'
  <2>1. chat \in Nat \X Nat
    BY <1>2 DEF TypeOK
  <2> QED
    BY <1>2, <1>3, <1>6, <1>8, <2>1 DEF TypeOK, Phases
<1>10. PrefixIndexed' /\ ChatsInv'
  BY <1>6, Quiet
<1>11. LeftInv'
  <2>1. SUFFICES ASSUME NEW d \in Dialogs, PlainDialog(d)'
                 PROVE  PostsOf(d) \subseteq docs[d] \/ \E e \in found' : e[2] = d
    BY <1>3 DEF LeftInv, PostsOf
  <2>2. PlainDialog(d) /\ d \notin hurt'
    BY <1>3, <1>6, <2>1 DEF PlainDialog, Indexable, InScope, PostsOf
  <2>3. PostsOf(d) \subseteq docs[d] \/ \E e \in found : e[2] = d
    BY <1>2, <2>2 DEF ExportInv, Progress, LeftInv
  <2>4. ASSUME NEW e \in found, e[2] = d
        PROVE  e \in found'
    BY <1>1, <1>7, <2>2, <2>4 DEF Passing, PlainDialog
  <2> QED
    BY <2>3, <2>4
<1>12. EntriesInv'
  BY <1>3, <1>8 DEF EntriesInv, InScope
<1>13. WindowInv' /\ PageInv' /\ ListInv' /\ BehindInv' /\ PlainExported'
  BY <1>2 DEF WindowInv, PageInv, ListInv, BehindInv, PlainExported, Paging
<1> QED
  BY <1>9, <1>10, <1>11, <1>12, <1>13 DEF ExportInv, Progress

LEMMA BeginChatStep == ASSUME ExportInv, BeginChat PROVE ExportInv'
<1> USE DEF BeginChat, store
<1>1. TypeOK /\ phase = "chat" /\ phase' = "history" /\ r' = 1 /\ offset' = 0 /\ updated' = FALSE
  BY DEF ExportInv
<1>2. UNCHANGED <<history, scope, rows, docs, found, batch, runs>> /\ chat' \in found
  OBVIOUS
<1>3. hurt \subseteq hurt' /\ hurt' \subseteq Dialogs /\ faults' \in 0 .. MaxFaults
  BY <1>1, FaultsKept
<1>4. plain' \in BOOLEAN /\ updated' \in BOOLEAN
  OBVIOUS
<1>5. TypeOK'
  BY <1>1, <1>2, <1>3, <1>4 DEF TypeOK, Phases
<1>6. PrefixIndexed' /\ ChatsInv'
  BY <1>2, <1>3, Quiet
<1>7. r' \in (DOMAIN Windows)' /\ Window' \in [lo : Nat, hi : Nat]
  BY <1>1, <1>4, FirstWindow
<1>8. PageInv'
  <2>1. Exporting' \in Dialogs
    BY <1>1, <1>2 DEF Exporting, TypeOK
  <2>2. \A p \in PostsOf(Exporting)' : p \in Nat
    BY <1>1, <1>2, <2>1, DialogsAssumption DEF PostsOf, TypeOK
  <2>3. Reached(Exporting, Window, Window.lo + offset)'
    BY <1>1, <1>7, <2>2 DEF Reached
  <2> QED
    BY <1>1, <2>3 DEF PageInv
<1>9. LeftInv'
  BY <1>1, <1>2, <1>3 DEF ExportInv, Progress, LeftInv, PlainDialog, Indexable, InScope, PostsOf
<1>10. EntriesInv'
  BY <1>1, <1>2 DEF ExportInv, Progress, EntriesInv, InScope
<1>11. BehindInv'
  BY <1>1 DEF BehindInv
<1>12. WindowInv' /\ ListInv' /\ PlainExported'
  BY <1>1, <1>7 DEF WindowInv, ListInv, PlainExported
<1> QED
  BY <1>5, <1>6, <1>8, <1>9, <1>10, <1>11, <1>12 DEF ExportInv, Progress

\* Where the next window or the next chat begins.
LEMMA NextIsTyped ==
  ASSUME TypeOK, Paging, NextWindow \/ NextChat
  PROVE  /\ r' \in Nat \ {0} /\ offset' \in Nat /\ phase' \in {"history", "chat"}
         /\ found' \subseteq found /\ (phase' = "history" => found' = found)
         /\ chat \in found /\ chat \in Nat \X Nat
<1>1. chat \in found
  BY DEF TypeOK, Paging
<1>2. chat \in Nat \X Nat
  BY <1>1, DialogsAssumption DEF TypeOK, Dialogs
<1> QED
  BY <1>1, <1>2 DEF NextWindow, NextChat, TypeOK

\* Metadata are of no consequence for the documents.
LEMMA MetadataSaved ==
  ASSUME TypeOK, NEW d \in Dialogs, SaveMetadata(d)
  PROVE  /\ rows' \in [Dialogs -> {"none", "watched", "unwatched"}]
         /\ \A e \in Dialogs \ {d} : rows'[e] = rows[e]
         /\ hurt \subseteq hurt' /\ hurt' \subseteq Dialogs /\ faults' \in 0 .. MaxFaults
<1>1. hurt \subseteq hurt' /\ hurt' \subseteq Dialogs /\ faults' \in 0 .. MaxFaults
  BY FaultsKept DEF SaveMetadata
<1>2. rows \in [Dialogs -> {"none", "watched", "unwatched"}]
  BY DEF TypeOK
<1>3. /\ rows' \in [Dialogs -> {"none", "watched", "unwatched"}]
      /\ \A e \in Dialogs \ {d} : rows'[e] = rows[e]
  BY <1>2 DEF SaveMetadata
<1> QED
  BY <1>1, <1>3

LEMMA HistoryPageStep == ASSUME ExportInv, HistoryPage PROVE ExportInv'
<1> USE DEF HistoryPage, store
<1>1. TypeOK /\ phase = "history" /\ Paging /\ WindowInv /\ Exporting \in Dialogs
  BY DEF ExportInv, Progress, Paging, TypeOK, Exporting
<1>2. UNCHANGED <<history, scope, docs, plain, chat, runs>>
  OBVIOUS
<1>3. CASE Extracted = {}
  <2>1. NextWindow /\ Fine /\ UNCHANGED <<rows, batch, updated>>
    BY <1>3
  <2>2. batch = {}
    BY <1>1 DEF TypeOK
  <2>3. hurt' = hurt /\ faults' = faults
    BY <2>1 DEF Fine
  <2>4. TypeOK'
    BY <1>1, <1>2, <2>1, <2>2, <2>3, NextIsTyped DEF TypeOK, Phases
  <2>5. PrefixIndexed' /\ ChatsInv'
    BY <1>2, <2>3, Quiet
  <2>6. ASSUME PlainDialog(Exporting)', NEW p \in PostsOf(Exporting), Window.lo < p, p <= Window.hi
        PROVE  p \in docs'[Exporting]
    <3>1. PlainDialog(Exporting)
      BY <1>2, <2>3, <2>6 DEF PlainDialog, Indexable, InScope, PostsOf, Exporting
    <3>2. Reached(Exporting, Window, Window.lo + offset)
      BY <1>1, <3>1 DEF ExportInv, Progress, PageInv, PlainDialog
    <3>3. ~ (Window.lo + offset < p)
      <4>1. Cardinality(Extracted) < BatchSize
        BY <1>3, FS_EmptySet, LimitAssumption
      <4> QED
        BY <1>1, <1>3, <2>6, <3>1, <4>1, LastPage DEF PlainDialog
    <3>4. p \in Nat /\ Window.lo + offset \in Nat
      BY <1>1, PageBounds DEF TypeOK, PostsOf
    <3> QED
      BY <1>2, <2>6, <3>2, <3>3, <3>4 DEF Reached
  <2>7. Progress'
    <3>1. Carried
      BY <1>2, <2>1, <2>2, <2>3 DEF Carried
    <3> QED
      BY <1>1, <2>1, <2>6, <3>1, WindowEnds
  <2> QED
    BY <2>4, <2>5, <2>7 DEF ExportInv
<1>4. CASE Extracted # {}
  <2>1. batch' = Extracted /\ phase' = "index" /\ updated' = TRUE /\ UNCHANGED <<r, offset, found>>
    BY <1>4
  <2>2. IF updated THEN Fine /\ UNCHANGED rows ELSE SaveMetadata(Exporting)
    BY <1>4
  <2>3. /\ rows' \in [Dialogs -> {"none", "watched", "unwatched"}]
        /\ hurt \subseteq hurt' /\ hurt' \subseteq Dialogs /\ faults' \in 0 .. MaxFaults
    BY <1>1, <2>2, MetadataSaved DEF Fine, TypeOK
  <2>4. Extracted \subseteq Nat
    BY <1>1, PageBounds DEF PostsOf
  <2>5. updated' \in BOOLEAN
    BY <2>1
  <2>6. TypeOK'
    BY <1>1, <1>2, <1>4, <2>1, <2>3, <2>4, <2>5 DEF TypeOK, Phases
  <2>7. PrefixIndexed' /\ ChatsInv'
    BY <1>2, <2>3, Quiet
  <2>8. Windows' = Windows /\ Window' = Window /\ Exporting' = Exporting
    BY <1>2, <2>1 DEF Windows, Window, Exporting
  <2>9. PageInv'
    <3>1. Extracted' = Extracted
      BY <1>2, <2>1, <2>8 DEF Extracted
    <3> QED
      BY <1>1, <1>2, <2>1, <2>3, <2>8, <3>1
         DEF ExportInv, Progress, PageInv, Paging, Reached, Indexable, PostsOf
  <2>10. LeftInv'
    BY <1>1, <1>2, <2>1, <2>3 DEF ExportInv, Progress, LeftInv, PlainDialog, Indexable, InScope, PostsOf
  <2>11. BehindInv'
    BY <1>1, <1>2, <2>1, <2>3, <2>8
       DEF ExportInv, Progress, BehindInv, Paging, Reached, PlainDialog, Indexable, InScope, PostsOf
  <2>12. WindowInv' /\ EntriesInv'
    BY <1>1, <1>2, <2>1, <2>8 DEF ExportInv, Progress, WindowInv, EntriesInv, InScope
  <2>13. ListInv' /\ PlainExported'
    BY <2>1 DEF ListInv, PlainExported
  <2> QED
    BY <2>6, <2>7, <2>9, <2>10, <2>11, <2>12, <2>13 DEF ExportInv, Progress
<1> QED
  BY <1>3, <1>4

LEMMA HistoryFailStep == ASSUME ExportInv, HistoryFail PROVE ExportInv'
<1> USE DEF HistoryFail, store
<1>1. TypeOK /\ phase = "history" /\ Paging /\ Exporting \in Dialogs /\ batch = {}
  BY DEF ExportInv, Paging, TypeOK, Exporting
<1>2. UNCHANGED <<history, scope, rows, docs, plain, chat, batch, updated, runs>>
  OBVIOUS
<1>3. hurt \subseteq hurt' /\ hurt' \subseteq Dialogs /\ faults' \in 0 .. MaxFaults
  BY <1>1, FaultsKept
<1>4. Exporting \in hurt' /\ Exporting' = Exporting
  BY <1>2 DEF Fails, Exporting
<1>5. ~ PlainDialog(Exporting)'
  BY <1>4 DEF PlainDialog, Indexable
<1>6. NextWindow \/ NextChat
  OBVIOUS
<1>7. TypeOK'
  BY <1>1, <1>2, <1>3, <1>6, NextIsTyped DEF TypeOK, Phases
<1>8. PrefixIndexed' /\ ChatsInv'
  BY <1>2, <1>3, Quiet
<1>9. Carried
  BY <1>1, <1>2, <1>3 DEF Carried
<1>10. Progress'
  BY <1>1, <1>5, <1>6, <1>9, ChatEnds, WindowEnds
<1> QED
  BY <1>7, <1>8, <1>10 DEF ExportInv

LEMMA CompleteStep == ASSUME ExportInv, Complete PROVE ExportInv'
<1> USE DEF Complete, store, counts
<1>1. UNCHANGED <<history, scope, rows, docs, plain, r, offset, found, chat, batch, updated, hurt, faults, runs>>
  OBVIOUS
<1>2. phase = "chat" /\ phase' = "done" /\ found = {}
  OBVIOUS
<1>3. TypeOK'
  BY <1>1, <1>2 DEF ExportInv, TypeOK, Phases
<1>4. PrefixIndexed' /\ ChatsInv'
  BY <1>1, Quiet
<1>5. PlainExported'
  BY <1>1, <1>2 DEF ExportInv, Progress, LeftInv, PlainExported, PlainDialog, Indexable, InScope, PostsOf
<1>6. WindowInv' /\ EntriesInv' /\ PageInv' /\ ListInv' /\ LeftInv' /\ BehindInv'
  BY <1>2 DEF WindowInv, EntriesInv, PageInv, ListInv, LeftInv, BehindInv, Paging
<1> QED
  BY <1>3, <1>4, <1>5, <1>6 DEF ExportInv, Progress

-----------------------------------------------------------------------------
\* The documents of a page go to the engine, or the dialog is marked.
LEMMA PageWritten ==
  ASSUME ExportInv, IndexPage
  PROVE  /\ docs' \in [Dialogs -> SUBSET Nat] /\ ChatsInv'
         /\ hurt \subseteq hurt' /\ hurt' \subseteq Dialogs /\ faults' \in 0 .. MaxFaults
         /\ \A d \in Dialogs : docs[d] \subseteq docs'[d] /\ docs'[d] \subseteq docs[d] \cup batch
         /\ \A d \in Dialogs \ {Exporting} : docs'[d] = docs[d]
         /\ Indexable(Exporting)' => batch \subseteq docs'[Exporting]
<1> USE DEF IndexPage
<1>1. TypeOK /\ Exporting \in Dialogs /\ Exporting' = Exporting
  BY DEF ExportInv, TypeOK, Exporting
<1>2. docs \in [Dialogs -> SUBSET Nat] /\ batch \subseteq Nat
  BY <1>1 DEF TypeOK
<1>3. hurt \subseteq hurt' /\ hurt' \subseteq Dialogs /\ faults' \in 0 .. MaxFaults
  BY <1>1, FaultsKept
<1>4. CASE docs' = [docs EXCEPT ![Exporting] = @ \cup Documents(Exporting, batch)]
  <2>1. Documents(Exporting, batch) \subseteq batch
    BY DEF Documents
  <2>2. docs'[Exporting] = docs[Exporting] \cup Documents(Exporting, batch)
    BY <1>1, <1>2, <1>4
  <2>3. \A d \in Dialogs \ {Exporting} : docs'[d] = docs[d]
    BY <1>2, <1>4
  <2>4. docs' \in [Dialogs -> SUBSET Nat]
    BY <1>2, <1>4, <2>1
  <2>5. ChatsInv'
    BY <1>1, <2>2, <2>3 DEF ExportInv, ChatsInv, Documents
  <2>6. Indexable(Exporting)' => batch \subseteq docs'[Exporting]
    BY <1>1, <2>2 DEF Indexable, Documents
  <2> QED
    BY <1>1, <1>3, <2>1, <2>2, <2>3, <2>4, <2>5, <2>6
<1>5. CASE Fails("engine", {Exporting}) /\ UNCHANGED docs
  <2>1. ~ Indexable(Exporting)'
    BY <1>1, <1>5 DEF Fails, Indexable
  <2>2. ChatsInv'
    BY <1>5 DEF ExportInv, ChatsInv
  <2> QED
    BY <1>2, <1>3, <1>5, <2>1, <2>2
<1> QED
  BY <1>4, <1>5

\* What is in the engine of a window, and of the range that it is, goes back to
\* the newest message without a gap.
LEMMA NoHoleLeft ==
  ASSUME ExportInv, IndexPage
  PROVE  PrefixIndexed'
<1>0. TypeOK /\ phase = "index" /\ Paging /\ WindowInv /\ batch = Extracted /\ UNCHANGED <<history, chat>>
  BY DEF ExportInv, Progress, PageInv, IndexPage, Paging
<1>1. SUFFICES ASSUME NEW d \in Dialogs, d \notin hurt', NEW i \in DOMAIN Ranges,
                      NEW p \in PostsOf(d), NEW q \in PostsOf(d),
                      Ranges[i].lo < p, p < q, q <= Ranges[i].hi, q \in docs'[d]
               PROVE  p \in docs'[d]
  <2>1. \A j \in DOMAIN Ranges : Ranges[j].lo \in Nat /\ Ranges[j].hi \in Nat
    BY RangesTyped
  <2>2. \A e \in Dialogs : PostsOf(e)' = PostsOf(e) /\ PostsOf(e) \subseteq Nat
    BY <1>0, DialogsAssumption DEF PostsOf, TypeOK
  <2> QED
    BY <1>1, <2>1, <2>2 DEF PrefixIndexed
<1>2. d \notin hurt /\ p \in Nat \ {0} /\ q \in Nat /\ Ranges[i].lo \in Nat /\ Ranges[i].hi \in Nat
  <2>1. d \notin hurt
    BY <1>1, PageWritten
  <2>2. p \in Nat \ {0} /\ q \in Nat
    BY <1>0, DialogsAssumption DEF PostsOf, TypeOK
  <2>3. Ranges[i].lo \in Nat /\ Ranges[i].hi \in Nat
    BY RangesTyped
  <2> QED
    BY <2>1, <2>2, <2>3
<1>3. CASE q \in docs[d]
  <2>1. p \in docs[d]
    BY <1>1, <1>2, <1>3 DEF ExportInv, PrefixIndexed
  <2> QED
    BY <2>1, PageWritten
<1>4. CASE q \notin docs[d]
  <2>1. d = Exporting /\ q \in Extracted
    BY <1>0, <1>1, <1>4, PageWritten
  <2>2. Indexable(Exporting)' /\ Indexable(Exporting)
    <3>1. Kind[d] # "chats"
      BY <1>1, PageWritten DEF ChatsInv
    <3> QED
      BY <1>0, <1>1, <1>2, <2>1, <3>1 DEF Indexable, Exporting
  <2>3. /\ Window.lo \in Nat /\ Window.hi \in Nat /\ offset \in Nat /\ BatchSize \in Nat
        /\ Window.lo + offset < q /\ q <= Window.hi /\ q <= Window.lo + offset + BatchSize
    BY <1>0, <2>1, PageBounds, LimitAssumption DEF TypeOK
  <2>4. Window.lo < p
    <3>1. CASE plain
      <4>1. Windows = <<Whole>> /\ r \in DOMAIN Windows
        BY <1>0, <3>1 DEF Windows, WindowInv
      <4>2. Window = Whole
        BY <4>1 DEF Window
      <4> QED
        BY <1>2, <4>2, WholeIsAll
    <3>2. CASE ~plain
      <4>1. Window = Ranges[r] /\ r \in DOMAIN Ranges
        BY <1>0, <3>2 DEF Windows, Window, WindowInv
      <4>2. CASE i = r
        BY <1>1, <4>1, <4>2
      <4>3. CASE i # r
        <5>1. Ranges[i].hi <= Window.lo \/ Window.hi <= Ranges[i].lo
          BY <4>1, <4>3, RangesAssumption
        <5> QED
          BY <1>1, <1>2, <2>3, <5>1
      <4> QED
        BY <4>2, <4>3
    <3> QED
      BY <3>1, <3>2
  <2>5. CASE p <= Window.lo + offset
    <3>1. p \in docs[Exporting]
      BY <1>0, <1>1, <2>1, <2>2, <2>4, <2>5 DEF ExportInv, Progress, PageInv, Reached
    <3> QED
      BY <2>1, <3>1, PageWritten
  <2>6. CASE ~ (p <= Window.lo + offset)
    <3>1. p \in Extracted
      <4>1. Window.lo + offset < p /\ p <= Window.hi /\ p <= Window.lo + offset + BatchSize
        BY <1>1, <1>2, <2>3, <2>6
      <4> QED
        BY <1>0, <1>1, <2>1, <4>1, PageBounds
    <3> QED
      BY <1>0, <2>1, <2>2, <3>1, PageWritten
  <2> QED
    BY <2>5, <2>6
<1> QED
  BY <1>3, <1>4

LEMMA IndexPageStep == ASSUME ExportInv, IndexPage PROVE ExportInv'
<1>1. /\ TypeOK /\ phase = "index" /\ Paging /\ WindowInv /\ Exporting \in Dialogs
      /\ batch = Extracted /\ batch' = {}
      /\ UNCHANGED <<history, scope, rows, plain, chat, updated, runs>>
  BY DEF ExportInv, Progress, PageInv, IndexPage, Paging, TypeOK, Exporting
<1>2. /\ docs' \in [Dialogs -> SUBSET Nat] /\ ChatsInv'
      /\ hurt \subseteq hurt' /\ hurt' \subseteq Dialogs /\ faults' \in 0 .. MaxFaults
      /\ \A d \in Dialogs : docs[d] \subseteq docs'[d]
      /\ Indexable(Exporting)' => Extracted \subseteq docs'[Exporting]
  BY <1>1, PageWritten
<1>3. PrefixIndexed'
  BY NoHoleLeft
<1>4. Carried
  BY <1>1, <1>2 DEF Carried
<1>5. Exporting' = Exporting /\ (Indexable(Exporting)' => Indexable(Exporting))
      /\ (PlainDialog(Exporting)' => PlainDialog(Exporting))
  BY <1>1, <1>2 DEF Exporting, PlainDialog, Indexable, InScope, PostsOf
<1>6. CASE Cardinality(batch) < BatchSize
  <2>1. NextWindow
    BY <1>6 DEF IndexPage
  <2>2. TypeOK'
    BY <1>1, <1>2, <2>1, NextIsTyped DEF TypeOK, Phases
  <2>3. ASSUME PlainDialog(Exporting)', NEW p \in PostsOf(Exporting), Window.lo < p, p <= Window.hi
        PROVE  p \in docs'[Exporting]
    <3>1. PlainDialog(Exporting) /\ Indexable(Exporting)'
      BY <1>5, <2>3 DEF PlainDialog
    <3>2. CASE p <= Window.lo + offset
      BY <1>1, <1>2, <2>3, <3>1, <3>2 DEF ExportInv, Progress, PageInv, PlainDialog, Reached
    <3>3. CASE Window.lo + offset < p
      BY <1>1, <1>2, <1>6, <2>3, <3>1, <3>3, LastPage DEF PlainDialog
    <3>4. p \in Nat /\ Window.lo + offset \in Nat
      BY <1>1, PageBounds DEF TypeOK, PostsOf
    <3> QED
      BY <3>2, <3>3, <3>4
  <2>4. Progress'
    BY <1>1, <1>4, <2>1, <2>3, WindowEnds
  <2> QED
    BY <1>2, <1>3, <2>2, <2>4 DEF ExportInv
<1>7. CASE ~ (Cardinality(batch) < BatchSize)
  <2>1. offset' = LastOf(batch) - Window.lo /\ phase' = "history" /\ UNCHANGED <<r, found>>
    BY <1>7 DEF IndexPage
  <2>2. Window \in [lo : Nat, hi : Nat] /\ offset \in Nat /\ BatchSize \in Nat
    BY <1>1, PageBounds, LimitAssumption DEF TypeOK
  <2>3. offset' = offset + BatchSize /\ offset' \in Nat
    BY <1>1, <1>7, <2>1, <2>2, FullPage
  <2>4. TypeOK'
    BY <1>1, <1>2, <2>1, <2>3 DEF TypeOK, Phases
  <2>5. Windows' = Windows /\ Window' = Window
    BY <1>1, <2>1 DEF Windows, Window
  <2>6. PageInv'
    <3>1. SUFFICES ASSUME Indexable(Exporting)'
                   PROVE  Reached(Exporting, Window, Window.lo + offset)'
      BY <2>1 DEF PageInv
    <3>2. SUFFICES ASSUME NEW p \in PostsOf(Exporting), Window.lo < p, p <= Window.lo + offset'
                   PROVE  p \in docs'[Exporting]
      BY <1>1, <1>5, <2>5 DEF Reached, PostsOf
    <3>3. p \in Nat
      BY <1>1, PageBounds DEF PostsOf
    <3>4. CASE p <= Window.lo + offset
      BY <1>1, <1>2, <1>5, <3>1, <3>2, <3>4 DEF ExportInv, Progress, PageInv, Reached
    <3>5. CASE Window.lo + offset < p
      <4>1. Cardinality(Extracted) = BatchSize
        BY <1>1, <1>7, <2>2, PageIsBounded
      <4>2. p \in Window.lo + offset + 1 .. Window.lo + offset + BatchSize
        BY <2>2, <2>3, <3>2, <3>3, <3>5
      <4>3. p \in Extracted
        BY <1>1, <4>1, <4>2, PageIsBounded
      <4> QED
        BY <1>2, <3>1, <4>3
    <3> QED
      BY <2>2, <3>3, <3>4, <3>5
  <2>7. LeftInv'
    BY <1>1, <1>2, <2>1 DEF ExportInv, Progress, LeftInv, PlainDialog, Indexable, InScope, PostsOf
  <2>8. BehindInv'
    <3>1. ASSUME PlainDialog(Exporting)', NEW j \in 1 .. r - 1
          PROVE  Reached(Exporting, Windows[j], Windows[j].hi)'
      <4>1. Reached(Exporting, Windows[j], Windows[j].hi)
        BY <1>1, <1>5, <3>1 DEF ExportInv, Progress, BehindInv
      <4> QED
        BY <1>1, <1>2, <1>5, <2>5, <4>1 DEF Reached, PostsOf
    <3> QED
      BY <2>1, <2>5, <3>1 DEF BehindInv
  <2>9. WindowInv' /\ EntriesInv'
    BY <1>1, <2>1, <2>5 DEF ExportInv, Progress, WindowInv, EntriesInv, InScope
  <2>10. ListInv' /\ PlainExported'
    BY <2>1 DEF ListInv, PlainExported
  <2> QED
    BY <1>2, <1>3, <2>4, <2>6, <2>7, <2>8, <2>9, <2>10 DEF ExportInv, Progress
<1> QED
  BY <1>6, <1>7

-----------------------------------------------------------------------------
LEMMA ExportStep == ASSUME ExportInv, [Next]_vars PROVE ExportInv'
<1>1. CASE UNCHANGED vars
  BY <1>1 DEF vars, ExportInv, TypeOK, PrefixIndexed, ChatsInv, Progress, WindowInv, EntriesInv,
              PageInv, ListInv, LeftInv, BehindInv, PlainExported, Paging, PlainDialog, Indexable,
              InScope, Reached, PostsOf, Windows, Window, Listed, Exporting, Extracted
<1> QED
  BY <1>1, BeginStep, KillStep, GetRangesStep, FetchDialogsStep, DialogsFailStep, FilterStep,
     BeginChatStep, HistoryPageStep, HistoryFailStep, IndexPageStep, CompleteStep
     DEF Next, Step

THEOREM ExportInvariance == Spec => []ExportInv
<1>1. Init => ExportInv
  BY ExportStarts
<1>2. ExportInv /\ [Next]_vars => ExportInv'
  BY ExportStep
<1> QED
  BY <1>1, <1>2, PTL DEF Spec

\* Every variable of the export always has its type, and a page is in hand
\* exactly while its documents are to be written.
THEOREM ExportTypes == Spec => []TypeOK
<1>1. ExportInv => TypeOK
  BY DEF ExportInv
<1> QED
  BY <1>1, ExportInvariance, PTL

\* However often an export is killed, and whichever way it paged: of each range,
\* what the engine holds of a dialog goes back to the newest post without a gap.
THEOREM NoHoles == Spec => []PrefixIndexed
<1>1. ExportInv => PrefixIndexed
  BY DEF ExportInv
<1> QED
  BY <1>1, ExportInvariance, PTL

\* A command that says it is done has put the whole history into the engine of
\* every dialog that it was to export, if the history holds nothing but posts
\* and no failure touched it.
THEOREM PlainAreExported == Spec => []PlainExported
<1>1. ExportInv => PlainExported
  BY DEF ExportInv, Progress
<1> QED
  BY <1>1, ExportInvariance, PTL

\* No step writes a row or a document of a dialog that the flags excluded.
THEOREM ExcludedAreKept == Spec => ScopeKept
<1>1. ExportInv /\ [Next]_vars =>
        [\A d \in Dialogs : rows'[d] # rows[d] \/ docs'[d] # docs[d] => InScope(d)]_vars
  <2> SUFFICES ASSUME ExportInv, Next, NEW d \in Dialogs, rows'[d] # rows[d] \/ docs'[d] # docs[d]
               PROVE  InScope(d)
    OBVIOUS
  <2>1. CASE HistoryPage
    <3>1. TypeOK /\ phase = "history" /\ Exporting \in Dialogs
      BY <2>1 DEF ExportInv, HistoryPage, TypeOK, Exporting
    <3>2. docs' = docs /\ (UNCHANGED rows \/ SaveMetadata(Exporting))
      BY <2>1 DEF HistoryPage
    <3>3. d = Exporting
      BY <3>1, <3>2, MetadataSaved
    <3>4. chat \in found /\ \A e \in found : InScope(e[2])
      BY <3>1 DEF ExportInv, Progress, EntriesInv, TypeOK
    <3> QED
      BY <3>3, <3>4 DEF Exporting
  <2>2. CASE IndexPage
    <3>1. TypeOK /\ phase = "index" /\ rows' = rows
      BY <2>2 DEF ExportInv, IndexPage
    <3>2. d = Exporting
      BY <2>2, <3>1, PageWritten
    <3>3. chat \in found /\ \A e \in found : InScope(e[2])
      BY <3>1 DEF ExportInv, Progress, EntriesInv, TypeOK
    <3> QED
      BY <3>2, <3>3 DEF Exporting
  <2>3. CASE Begin \/ Kill \/ GetRanges \/ FetchDialogs \/ DialogsFail \/ Filter
             \/ BeginChat \/ HistoryFail \/ Complete
    BY <2>3 DEF Begin, Kill, GetRanges, FetchDialogs, DialogsFail, Filter, BeginChat, HistoryFail,
                Complete, store
  <2> QED
    BY <2>1, <2>2, <2>3 DEF Next, Step
<1> QED
  BY <1>1, ExportInvariance, PTL DEF Spec, ScopeKept

=============================================================================
