---------------------------- MODULE FileCacheProofs ----------------------------
(***************************************************************************)
(* FileCache implements Blob, for any requests, size of the file, config,  *)
(* bound on requests in flight and number of crashes.                      *)
(***************************************************************************)
EXTENDS FileCache, FiniteSetTheorems, TLAPS

\* A request that has changed one of the two files and not yet the other.
Halfway(r) == pc[r] \in {"dropmeta", "truncmeta", "writemeta"}

\* While the promise holds, one at a time changes the files; a meta file that says
\* "complete" lies beside a whole file, or is about to go; and who writes one lies
\* beside its own download.
Agree ==
  /\ \A r \in Requests : Halfway(r) => cleaner # "meta" /\ \A q \in Requests : Halfway(q) => q = r
  /\ meta = "complete" /\ cache # NoFile => cache.blocks = Size
  /\ meta = "complete" /\ cache = NoFile => cleaner = "meta" \/ \E r \in Requests : pc[r] = "dropmeta"
  /\ \A r \in Requests : pc[r] \in {"truncmeta", "writemeta"} =>
       cache # NoFile /\ cache.blocks = written[r] /\ meta # "complete"

IInv == TypeOK /\ (~torn /\ ~raced => Agree)

LEMMA InitIInv == ASSUME Init PROVE IInv
<1>1. /\ pc \in [Requests -> Phases] /\ written \in [Requests -> 0 .. Size]
      /\ \A r \in Requests : pc[r] = "idle"
  BY SizeAssumption DEF Init, Phases
<1>2. TypeOK
  <2>1. crashes \in 0 .. MaxCrashes /\ tmps \in Nat
    BY BoundAssumption DEF Init
  <2>2. /\ disable \in Settings /\ cache \in Files \cup {NoFile} /\ meta \in Metas
        /\ cleaner \in {"off", "idle", "cache", "meta"} /\ served = {}
        /\ torn \in BOOLEAN /\ raced \in BOOLEAN
    BY DEF Init, Metas
  <2> QED
    BY <1>1, <2>1, <2>2 DEF TypeOK
<1>3. Agree
  BY <1>1 DEF Init, Agree, Halfway
<1> QED
  BY <1>2, <1>3 DEF IInv

-----------------------------------------------------------------------------
(* Types *)

\* A request moves on.
LEMMA GotoType ==
  ASSUME TypeOK, NEW r \in Requests, NEW from, NEW to \in Phases, Goto(r, from, to)
  PROVE  /\ pc[r] = from /\ pc' \in [Requests -> Phases] /\ pc'[r] = to
         /\ \A q \in Requests \ {r} : pc'[q] = pc[q]
BY DEF Goto, TypeOK

\* What a step of a request leaves to be shown of its types.
LEMMA StepType ==
  ASSUME TypeOK, NEW r \in Requests, NEW from, NEW to \in Phases, Goto(r, from, to),
         to \in {"close", "rename"} => written'[r] > 0,
         written' = written \/ (written' = [written EXCEPT ![r] = 0] /\ to \notin {"close", "rename"}),
         cache' \in Files \cup {NoFile}, meta' \in Metas,
         cleaner' \in {"off", "idle", "cache", "meta"},
         served' \subseteq {"missing", "whole", "cut"}, raced' \in BOOLEAN,
         UNCHANGED <<tmps, kept>>
  PROVE  TypeOK'
<1>1. /\ pc' \in [Requests -> Phases] /\ pc'[r] = to
      /\ \A q \in Requests \ {r} : pc'[q] = pc[q]
  BY GotoType
<1>2. written' \in [Requests -> 0 .. Size] /\ \A q \in Requests \ {r} : written'[q] = written[q]
  BY SizeAssumption DEF TypeOK
<1>3. \A q \in Requests : pc'[q] \in {"close", "rename"} => written'[q] > 0
  BY <1>1, <1>2 DEF TypeOK
<1> QED
  BY <1>1, <1>2, <1>3 DEF TypeOK, kept

LEMMA LookupType ==
  ASSUME TypeOK, NEW r \in Requests,
         Begin(r) \/ Stat(r) \/ ReadMeta(r) \/ DropCache(r) \/ DropMeta(r) \/ Open(r) \/ Send(r)
  PROVE  TypeOK'
<1>1. CASE Begin(r)
  BY <1>1, StepType DEF Begin, files, others, kept, TypeOK, Phases
<1>2. CASE Stat(r)
  BY <1>2, StepType DEF Stat, files, others, kept, TypeOK, Phases
<1>3. CASE ReadMeta(r)
  BY <1>3, StepType DEF ReadMeta, files, others, kept, TypeOK, Phases
<1>4. CASE DropCache(r)
  <2>1. CASE Goto(r, "dropboth", "dropmeta")
    BY <1>4, <2>1, StepType DEF DropCache, kept, TypeOK, Phases, HalfChanged
  <2>2. CASE Goto(r, "dropcache", "fetch")
    BY <1>4, <2>2, StepType DEF DropCache, kept, TypeOK, Phases, HalfChanged
  <2> QED
    BY <1>4, <2>1, <2>2 DEF DropCache
<1>5. CASE DropMeta(r)
  BY <1>5, StepType DEF DropMeta, others, kept, TypeOK, Phases, Metas
<1>6. CASE Open(r)
  BY <1>6, StepType DEF Open, files, others, kept, TypeOK, Phases
<1>7. CASE Send(r)
  BY <1>7, StepType DEF Send, files, others, kept, TypeOK, Phases, Outcome
<1> QED
  BY <1>1, <1>2, <1>3, <1>4, <1>5, <1>6, <1>7

LEMMA DownloadType ==
  ASSUME TypeOK, NEW r \in Requests,
         \/ FetchFail(r) \/ Fetch(r) \/ Read(r) \/ Close(r) \/ ClosePlain(r) \/ CloseFailed(r)
         \/ CloseStat(r) \/ Rename(r) \/ TruncMeta(r) \/ WriteMeta(r)
  PROVE  TypeOK'
<1>1. CASE FetchFail(r)
  BY <1>1, StepType DEF FetchFail, files, others, kept, TypeOK, Phases
<1>2. CASE Fetch(r)
  BY <1>2, StepType DEF Fetch, files, others, kept, TypeOK, Phases
<1>3. CASE Read(r)
  BY <1>3, SizeAssumption DEF Read, files, others, kept, TypeOK
<1>4. CASE Close(r)
  BY <1>4, StepType DEF Close, files, others, kept, TypeOK, Phases
<1>5. CASE ClosePlain(r)
  BY <1>5, StepType DEF ClosePlain, files, others, kept, TypeOK, Phases
<1>6. CASE CloseFailed(r)
  BY <1>6, StepType DEF CloseFailed, files, others, kept, TypeOK, Phases
<1>7. CASE CloseStat(r)
  <2>1. pc[r] = "close" /\ written[r] > 0
    BY <1>7 DEF CloseStat, Goto, TypeOK
  <2> QED
    BY <1>7, <2>1, StepType DEF CloseStat, files, others, kept, TypeOK, Phases
<1>8. CASE Rename(r)
  <2>1. pc[r] = "rename" /\ written[r] > 0 /\ written[r] \in 0 .. Size
    BY <1>8 DEF Rename, Goto, TypeOK
  <2>2. cache' \in Files
    BY <1>8, <2>1, SizeAssumption DEF Rename, Files
  <2> QED
    BY <1>8, <2>2, StepType DEF Rename, files, others, kept, TypeOK, Phases, HalfChanged
<1>9. CASE TruncMeta(r)
  BY <1>9, StepType DEF TruncMeta, others, kept, TypeOK, Phases, Metas
<1>10. CASE WriteMeta(r)
  BY <1>10, StepType DEF WriteMeta, others, kept, TypeOK, Phases, Metas
<1> QED
  BY <1>1, <1>2, <1>3, <1>4, <1>5, <1>6, <1>7, <1>8, <1>9, <1>10

LEMMA WorldType == ASSUME TypeOK, Expire \/ Clean \/ CleanTmp \/ Crash PROVE TypeOK'
<1>1. CASE Expire
  BY <1>1 DEF Expire, files, others, kept, TypeOK, Files, NoFile
<1>2. CASE Clean
  BY <1>2 DEF Clean, CleanStat, CleanCache, CleanMeta, files, others, kept, TypeOK, Metas, HalfChanged
<1>3. CASE CleanTmp
  BY <1>3 DEF CleanTmp, others, kept, TypeOK
<1>4. CASE Crash
  <2> DEFINE cut == {r \in Requests : pc[r] \in {"stream", "close", "rename"}}
  <2>1. Cardinality(cut) \in Nat
    BY RequestsAssumption, FS_Subset, FS_CardinalityType
  <2>2. tmps' \in Nat
    BY <1>4, <2>1 DEF Crash, TypeOK
  <2>3. /\ pc' \in [Requests -> Phases] /\ written' \in [Requests -> 0 .. Size]
        /\ \A r \in Requests : pc'[r] = "idle"
    BY <1>4, SizeAssumption DEF Crash, Phases
  <2>4. torn' \in BOOLEAN /\ crashes' \in 0 .. MaxCrashes
    BY <1>4, BoundAssumption DEF Crash, TypeOK, HalfChanged
  <2> QED
    BY <1>4, <2>2, <2>3, <2>4 DEF Crash, TypeOK
<1> QED
  BY <1>1, <1>2, <1>3, <1>4

LEMMA TypeStep == ASSUME TypeOK, [Next]_vars PROVE TypeOK'
<1>1. CASE UNCHANGED vars
  BY <1>1 DEF vars, kept, TypeOK
<1> QED
  BY <1>1, LookupType, DownloadType, WorldType DEF Next, Step

-----------------------------------------------------------------------------
(* The two files agree *)

Void == torn \/ raced

\* What the steps that change neither file leave to be shown.
LEMMA FilesKept ==
  ASSUME IInv, ~Void', Void => Void', UNCHANGED <<cache, meta>>,
         cleaner' = "meta" <=> cleaner = "meta",
         \A r \in Requests : Halfway(r)' => Halfway(r) /\ pc'[r] = pc[r] /\ written'[r] = written[r],
         \A r \in Requests : pc[r] = "dropmeta" => pc'[r] = "dropmeta"
  PROVE  Agree'
BY DEF IInv, Void, Agree, Halfway

\* Likewise for the steps of one request.
LEMMA RequestKept ==
  ASSUME IInv, ~Void', NEW r \in Requests, NEW from, NEW to, Goto(r, from, to),
         from # "dropmeta", to \notin {"dropmeta", "truncmeta", "writemeta"},
         \A q \in Requests \ {r} : written'[q] = written[q],
         cleaner' = "meta" <=> cleaner = "meta", UNCHANGED <<cache, meta, others>>
  PROVE  Agree'
<1>1. /\ pc[r] = from /\ pc'[r] = to
      /\ \A q \in Requests \ {r} : pc'[q] = pc[q]
  BY DEF Goto, IInv, TypeOK
<1>2. Void => Void'
  BY DEF Void, others, kept
<1>3. \A q \in Requests : Halfway(q)' => Halfway(q) /\ pc'[q] = pc[q] /\ written'[q] = written[q]
  BY <1>1 DEF Halfway
<1> QED
  BY <1>1, <1>2, <1>3, FilesKept

LEMMA PassingAgree ==
  ASSUME IInv, ~Void', NEW r \in Requests,
         \/ Begin(r) \/ Stat(r) \/ ReadMeta(r) \/ Open(r) \/ Send(r) \/ FetchFail(r) \/ Fetch(r)
         \/ Close(r) \/ ClosePlain(r) \/ CloseFailed(r) \/ CloseStat(r)
  PROVE  Agree'
<1> USE DEF files
<1>1. CASE Begin(r)
  BY <1>1, RequestKept DEF Begin
<1>2. CASE Stat(r)
  BY <1>2, RequestKept DEF Stat
<1>3. CASE ReadMeta(r)
  BY <1>3, RequestKept DEF ReadMeta
<1>4. CASE Open(r)
  BY <1>4, RequestKept DEF Open
<1>5. CASE Send(r)
  BY <1>5, RequestKept DEF Send
<1>6. CASE FetchFail(r)
  BY <1>6, RequestKept DEF FetchFail
<1>7. CASE Fetch(r)
  <2>1. \A q \in Requests \ {r} : written'[q] = written[q]
    BY <1>7 DEF Fetch, IInv, TypeOK
  <2> QED
    BY <1>7, <2>1, RequestKept DEF Fetch
<1>8. CASE Close(r)
  BY <1>8, RequestKept DEF Close
<1>9. CASE ClosePlain(r)
  BY <1>9, RequestKept DEF ClosePlain
<1>10. CASE CloseFailed(r)
  BY <1>10, RequestKept DEF CloseFailed
<1>11. CASE CloseStat(r)
  BY <1>11, RequestKept DEF CloseStat
<1> QED
  BY <1>1, <1>2, <1>3, <1>4, <1>5, <1>6, <1>7, <1>8, <1>9, <1>10, <1>11

LEMMA ReadAgree == ASSUME IInv, ~Void', NEW r \in Requests, Read(r) PROVE Agree'
<1>1. \A q \in Requests : q = r \/ written'[q] = written[q]
  BY DEF Read, IInv, TypeOK
<1>2. ~Halfway(r)
  BY DEF Read, Halfway
<1>3. Void => Void'
  BY DEF Read, Void, others, kept
<1> QED
  BY <1>1, <1>2, <1>3, FilesKept DEF Read, files, Halfway

\* The steps that change a file, with the race that voids the promise excluded.
LEMMA ChangingAgree ==
  ASSUME IInv, ~Void', NEW r \in Requests,
         DropCache(r) \/ DropMeta(r) \/ Rename(r) \/ TruncMeta(r) \/ WriteMeta(r)
  PROVE  Agree'
<1>1. ASSUME NEW from, NEW to, Goto(r, from, to)
      PROVE  /\ pc[r] = from /\ pc'[r] = to
             /\ \A q \in Requests \ {r} : pc'[q] = pc[q]
  BY <1>1 DEF Goto, IInv, TypeOK
<1>2. ASSUME torn' = torn, raced => raced' PROVE Agree
  BY <1>2 DEF Void, IInv
<1>3. CASE DropCache(r)
  <2>1. Agree /\ ~HalfChanged /\ cache' = NoFile
    BY <1>2, <1>3 DEF DropCache, kept, Void
  <2>2. CASE Goto(r, "dropboth", "dropmeta")
    BY <1>1, <1>3, <2>1, <2>2 DEF DropCache, Agree, Halfway, HalfChanged
  <2>3. CASE Goto(r, "dropcache", "fetch") /\ meta # "complete"
    BY <1>1, <1>3, <2>1, <2>3 DEF DropCache, Agree, Halfway, HalfChanged
  <2> QED
    BY <1>3, <2>2, <2>3 DEF DropCache, Void
<1>4. CASE DropMeta(r)
  <2>1. Agree
    BY <1>2, <1>4 DEF DropMeta, others, kept
  <2> QED
    BY <1>1, <1>4, <2>1 DEF DropMeta, Agree, Halfway
<1>5. CASE Rename(r)
  <2>1. Agree /\ ~HalfChanged /\ cache = NoFile /\ meta # "complete"
    BY <1>2, <1>5 DEF Rename, kept, Void, Agree, HalfChanged
  <2>2. cache' # NoFile /\ cache'.blocks = written'[r]
    BY <1>1, <1>5 DEF Rename, NoFile, IInv, TypeOK
  <2> QED
    BY <1>1, <1>5, <2>1, <2>2 DEF Rename, Agree, Halfway, HalfChanged
<1>6. CASE TruncMeta(r)
  <2>1. Agree
    BY <1>2, <1>6 DEF TruncMeta, others, kept
  <2> QED
    BY <1>1, <1>6, <2>1 DEF TruncMeta, Agree, Halfway
<1>7. CASE WriteMeta(r)
  <2>1. Agree
    BY <1>2, <1>7 DEF WriteMeta, others, kept
  <2> QED
    BY <1>1, <1>7, <2>1 DEF WriteMeta, Agree, Halfway, Complete
<1> QED
  BY <1>3, <1>4, <1>5, <1>6, <1>7

LEMMA WorldAgree == ASSUME IInv, ~Void', Expire \/ Clean \/ CleanTmp \/ Crash PROVE Agree'
<1>1. CASE Expire
  <2>1. Agree
    BY <1>1 DEF Expire, others, kept, Void, IInv
  <2>2. cache' # NoFile /\ cache'.blocks = cache.blocks
    BY <1>1 DEF Expire, IInv, TypeOK, Files, NoFile
  <2> QED
    BY <1>1, <2>1, <2>2 DEF Expire, Agree, Halfway
<1>2. CASE CleanStat \/ CleanTmp
  BY <1>2, FilesKept DEF CleanStat, CleanTmp, files, others, kept, Void, Halfway
<1>3. CASE CleanCache
  <2>1. Agree /\ ~HalfChanged
    BY <1>3 DEF CleanCache, kept, Void, IInv
  <2> QED
    BY <1>3, <2>1 DEF CleanCache, Agree, Halfway, HalfChanged
<1>4. CASE CleanMeta
  <2>1. Agree
    BY <1>4 DEF CleanMeta, others, kept, Void, IInv
  <2> QED
    BY <1>4, <2>1 DEF CleanMeta, Agree, Halfway
<1>5. CASE Crash
  <2>1. ~HalfChanged /\ Agree
    BY <1>5 DEF Crash, Void, IInv
  <2>2. \A r \in Requests : pc'[r] = "idle"
    BY <1>5 DEF Crash
  <2> QED
    BY <1>5, <2>1, <2>2 DEF Crash, Agree, Halfway, HalfChanged
<1> QED
  BY <1>1, <1>2, <1>3, <1>4, <1>5 DEF Clean

LEMMA Inductive == ASSUME IInv, [Next]_vars PROVE IInv'
<1>1. TypeOK'
  BY TypeStep DEF IInv
<1>2. ASSUME ~Void' PROVE Agree'
  <2>1. CASE UNCHANGED vars
    BY <1>2, <2>1, FilesKept DEF vars, kept, Void, Halfway
  <2> QED
    BY <1>2, <2>1, PassingAgree, ReadAgree, ChangingAgree, WorldAgree DEF Next, Step
<1> QED
  BY <1>1, <1>2 DEF IInv, Void

-----------------------------------------------------------------------------
(* The steps of Blob *)

Found == {r \in Requests : pc[r] \in {"open", "send"}}

LEMMA FoundByOne ==
  ASSUME TypeOK, NEW r \in Requests, NEW from, NEW to, Goto(r, from, to)
  PROVE  /\ to \in {"open", "send"} => Found' = Found \cup {r}
         /\ to \notin {"open", "send"} => Found' = Found \ {r}
         /\ from \in {"open", "send"} <=> r \in Found
BY DEF Goto, TypeOK, Found

\* A step that no other component sees.
LEMMA Unseen ==
  ASSUME Entry' = Entry, Found' = Found, UNCHANGED <<served, torn, raced>>
  PROVE  [Cached!Next]_(Cached!vars)
BY DEF Cached!vars, Found

\* Once the promise is void Blob allows everything.
LEMMA VoidStep == ASSUME Void' PROVE [Cached!Next]_(Cached!vars)
BY DEF Cached!Next, Void

LEMMA LookupSteps ==
  ASSUME IInv, IInv', ~Void', NEW r \in Requests,
         Begin(r) \/ Stat(r) \/ ReadMeta(r) \/ DropCache(r) \/ DropMeta(r) \/ Open(r) \/ Send(r)
  PROVE  [Cached!Next]_(Cached!vars)
<1> USE DEF files, others, kept
<1>0. TypeOK
  BY DEF IInv
<1>1. CASE Begin(r)
  BY <1>0, <1>1, FoundByOne, Unseen DEF Begin, Entry
<1>2. CASE Stat(r)
  BY <1>0, <1>2, FoundByOne, Unseen DEF Stat, Entry
<1>3. CASE ReadMeta(r)
  <2>1. CASE meta = "complete"
    <3>1. Found' = Found \cup {r}
      BY <1>0, <1>3, <2>1, FoundByOne DEF ReadMeta
    <3>2. Entry # "cut"
      BY <1>3, <2>1 DEF ReadMeta, Entry, IInv, Void, Agree
    <3>3. Entry' = Entry /\ UNCHANGED <<served, torn, raced>>
      BY <1>3 DEF ReadMeta, Entry
    <3>4. Cached!Find(r)
      BY <3>1, <3>2, <3>3 DEF Cached!Find, Found
    <3> QED
      BY <3>4 DEF Cached!Next
  <2>2. CASE meta # "complete"
    BY <1>0, <1>3, <2>2, FoundByOne, Unseen DEF ReadMeta, Entry
  <2> QED
    BY <2>1, <2>2
<1>4. CASE DropCache(r)
  <2>1. Found' = Found
    BY <1>0, <1>4, FoundByOne DEF DropCache
  <2>2. Entry' = "none" /\ UNCHANGED <<served, torn, raced>>
    BY <1>0, <1>4 DEF DropCache, Entry, Void, TypeOK
  <2>3. Cached!Remove
    BY <2>1, <2>2 DEF Cached!Remove, Found
  <2> QED
    BY <2>3 DEF Cached!Next
<1>5. CASE DropMeta(r)
  BY <1>0, <1>5, FoundByOne, Unseen DEF DropMeta, Entry
<1>6. CASE Open(r)
  <2>1. CASE cache = NoFile
    <3>1. Found' = Found \ {r} /\ Entry = "none"
      BY <1>0, <1>6, <2>1, FoundByOne DEF Open, Entry
    <3>2. Entry' = Entry /\ UNCHANGED <<served, torn, raced>>
      BY <1>6 DEF Open, Entry
    <3>3. Cached!Miss(r)
      BY <3>1, <3>2 DEF Cached!Miss, Found
    <3> QED
      BY <3>3 DEF Cached!Next
  <2>2. CASE cache # NoFile
    <3>1. Found' = Found
      BY <1>0, <1>6, <2>2, FoundByOne DEF Open
    <3> QED
      BY <1>6, <3>1, Unseen DEF Open, Entry
  <2> QED
    BY <2>1, <2>2
<1>7. CASE Send(r)
  <2>1. r \in Found /\ Found' = Found \ {r}
    BY <1>0, <1>7, FoundByOne DEF Send
  <2>2. Outcome(cache) = IF Entry = "none" THEN "missing" ELSE Entry
    BY DEF Outcome, Entry
  <2>3. Entry' = Entry /\ UNCHANGED <<torn, raced>>
    BY <1>7 DEF Send, Entry
  <2>4. Cached!Give(r)
    BY <1>7, <2>1, <2>2, <2>3 DEF Send, Cached!Give, Found
  <2> QED
    BY <2>4 DEF Cached!Next
<1> QED
  BY <1>1, <1>2, <1>3, <1>4, <1>5, <1>6, <1>7

LEMMA DownloadSteps ==
  ASSUME IInv, IInv', ~Void', NEW r \in Requests,
         \/ FetchFail(r) \/ Fetch(r) \/ Read(r) \/ Close(r) \/ ClosePlain(r) \/ CloseFailed(r)
         \/ CloseStat(r) \/ Rename(r) \/ TruncMeta(r) \/ WriteMeta(r)
  PROVE  [Cached!Next]_(Cached!vars)
<1> USE DEF files, others, kept
<1>0. TypeOK
  BY DEF IInv
<1>1. CASE FetchFail(r)
  BY <1>0, <1>1, FoundByOne, Unseen DEF FetchFail, Entry
<1>2. CASE Fetch(r)
  BY <1>0, <1>2, FoundByOne, Unseen DEF Fetch, Entry
<1>3. CASE Read(r)
  BY <1>3, Unseen DEF Read, Entry, Found
<1>4. CASE Close(r)
  BY <1>0, <1>4, FoundByOne, Unseen DEF Close, Entry
<1>5. CASE ClosePlain(r)
  BY <1>0, <1>5, FoundByOne, Unseen DEF ClosePlain, Entry
<1>6. CASE CloseFailed(r)
  BY <1>0, <1>6, FoundByOne, Unseen DEF CloseFailed, Entry
<1>7. CASE CloseStat(r)
  BY <1>0, <1>7, FoundByOne, Unseen DEF CloseStat, Entry
<1>8. CASE Rename(r)
  <2>1. Found' = Found
    BY <1>0, <1>8, FoundByOne DEF Rename
  <2>2. cache = NoFile /\ cache' # NoFile /\ UNCHANGED <<served, torn, raced>>
    <3>1. written[r] > 0 /\ written[r] \in 0 .. Size
      BY <1>0, <1>8 DEF Rename, Goto, TypeOK
    <3>2. cache' # NoFile
      BY <1>8, <3>1 DEF Rename, NoFile
    <3>3. cache = NoFile /\ UNCHANGED <<served, torn, raced>>
      BY <1>0, <1>8 DEF Rename, Void, TypeOK
    <3> QED
      BY <3>2, <3>3
  <2>3. Entry = "none" /\ Entry' \in {"whole", "cut"}
    BY <2>2 DEF Entry
  <2>4. Cached!Put
    BY <2>1, <2>2, <2>3 DEF Cached!Put, Found
  <2> QED
    BY <2>4 DEF Cached!Next
<1>9. CASE TruncMeta(r)
  BY <1>0, <1>9, FoundByOne, Unseen DEF TruncMeta, Entry
<1>10. CASE WriteMeta(r)
  BY <1>0, <1>10, FoundByOne, Unseen DEF WriteMeta, Entry
<1> QED
  BY <1>1, <1>2, <1>3, <1>4, <1>5, <1>6, <1>7, <1>8, <1>9, <1>10

LEMMA WorldSteps ==
  ASSUME IInv, IInv', ~Void', Expire \/ Clean \/ CleanTmp \/ Crash
  PROVE  [Cached!Next]_(Cached!vars)
<1> USE DEF files, others, kept
<1>1. CASE Expire
  <2>1. Entry' = Entry
    BY <1>1 DEF Expire, Entry, IInv, TypeOK, Files, NoFile
  <2> QED
    BY <1>1, <2>1, Unseen DEF Expire, Found
<1>2. CASE CleanStat \/ CleanMeta \/ CleanTmp
  BY <1>2, Unseen DEF CleanStat, CleanMeta, CleanTmp, Entry, Found
<1>3. CASE CleanCache
  <2>1. Entry' = "none" /\ Found' = Found /\ UNCHANGED <<served, torn, raced>>
    BY <1>3 DEF CleanCache, Entry, Found, Void, IInv, TypeOK
  <2>2. Cached!Remove
    BY <2>1 DEF Cached!Remove, Found
  <2> QED
    BY <2>2 DEF Cached!Next
<1>4. CASE Crash
  <2>1. Entry' = Entry /\ Found' = {} /\ UNCHANGED <<served, torn, raced>>
    BY <1>4 DEF Crash, Entry, Found, Void, IInv, TypeOK
  <2>2. Cached!Stop
    BY <2>1 DEF Cached!Stop, Found
  <2> QED
    BY <2>2 DEF Cached!Next
<1> QED
  BY <1>1, <1>2, <1>3, <1>4 DEF Clean

-----------------------------------------------------------------------------
(* The theorems *)

\* Both files agree for as long as the promise holds.
THEOREM Invariance == Spec => []IInv
<1>1. Init => IInv
  BY InitIInv
<1>2. IInv /\ [Next]_vars => IInv'
  BY Inductive
<1> QED
  BY <1>1, <1>2, PTL DEF Spec

\* Every variable stays in its type, and no empty file is published.
THEOREM TypeCorrect == Spec => []TypeOK
<1>1. IInv => TypeOK
  BY DEF IInv
<1> QED
  BY <1>1, Invariance, PTL

\* The cache file and its meta file behave as the one file that Blob describes
\* (service/file_cache.go), until a crash parts them or two change them at once.
THEOREM Refinement == Spec => ImplementsBlob
<1>1. Init => Cached!Init
  <2>1. ASSUME Init PROVE Entry = "none" /\ Found = {} /\ served = {} /\ (torn \/ raced) = FALSE
    BY <2>1 DEF Init, Entry, Found
  <2> QED
    BY <2>1 DEF Cached!Init, Found
<1>2. ASSUME IInv, IInv', [Next]_vars
      PROVE  [Cached!Next]_(Cached!vars)
  <2>1. CASE Void'
    BY <2>1, VoidStep
  <2>2. CASE UNCHANGED vars
    BY <2>2, Unseen DEF vars, kept, Entry, Found
  <2>3. CASE ~Void' /\ Next
    BY <1>2, <2>3, LookupSteps, DownloadSteps, WorldSteps DEF Next, Step
  <2> QED
    BY <1>2, <2>1, <2>2, <2>3
<1> QED
  BY <1>1, <1>2, Invariance, PTL DEF Spec, Cached!Spec, ImplementsBlob

=============================================================================
