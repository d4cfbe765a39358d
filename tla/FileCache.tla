------------------------------ MODULE FileCache ------------------------------
(***************************************************************************)
(* The disk cache of downloaded files (service/file_cache.go, file.go) for *)
(* one message: requests that look the file up, download and store it, and *)
(* the cleaner that removes what expired.  Nothing locks the two files, so *)
(* every file operation is a step of its own.                              *)
(*                                                                         *)
(* A file's content is the number of blocks it holds: each temporary file  *)
(* has one writer and is a prefix of the download.                         *)
(***************************************************************************)
EXTENDS FiniteSets, Naturals

CONSTANTS
  Requests,     \* goroutines that serve a request for the file
  Size,         \* blocks of the whole file
  SizeKnown,    \* FALSE for a photo, whose size FileFromMedia leaves at 0
  Settings,     \* what file_cache.disable may be in the config
  MaxInFlight,  \* requests served at the same time; 1 is a serial run
  MaxCrashes    \* how often the process stops

ASSUME RequestsAssumption == IsFiniteSet(Requests)
ASSUME SizeAssumption == Size \in Nat \ {0}
ASSUME FlagAssumption == SizeKnown \in BOOLEAN /\ Settings \subseteq BOOLEAN
ASSUME BoundAssumption == MaxInFlight \in Nat /\ MaxCrashes \in Nat

VARIABLES
  disable,  \* file_cache.disable of the running process
  cache,    \* the .cache file: its blocks and whether its TTL has passed
  meta,     \* the .meta file: absent, cut short, or what its Complete says
  pc,       \* what each request is doing
  written,  \* blocks in the temporary file of each request
  tmps,     \* temporary files that a crash left behind
  cleaner,  \* what the cleanup loop is doing: not started, or between two files
  served,   \* history: how the requests answered from the cache ended
  torn,     \* history: a crash parted the cache file from its meta file
  raced,    \* history: the two files were changed by two at once
  crashes

vars == <<disable, cache, meta, pc, written, tmps, cleaner, served, torn, raced, crashes>>
files == <<cache, meta, tmps>>
kept  == <<disable, torn, crashes>>   \* only a crash changes these
\* only who changes the first of the two files changes this
others == <<kept, raced>>

NoFile == [blocks |-> 0, old |-> FALSE]   \* no file is published empty
Files  == [blocks: 1..Size, old: BOOLEAN]
Metas  == {"absent", "empty", "complete", "partial"}

Phases == {"idle", "stat", "dropboth", "dropmeta", "readmeta", "dropcache",
           "open", "send", "fetch", "stream", "plain", "close", "rename",
           "truncmeta", "writemeta"}

Goto(r, from, to) == pc[r] = from /\ pc' = [pc EXCEPT ![r] = to]

InFlight == {r \in Requests : pc[r] # "idle"}

\* Both uses of the cache test the flag this way.
CacheUsed == disable

-----------------------------------------------------------------------------
(* GetTGFileReader, StreamFile: a request arrives.  The first one that uses *)
(* the cache starts the cleanup loop (initFileCache).  Bound: one at a time  *)
(* once the promise of Blob is void.                                        *)

Begin(r) ==
  /\ Cardinality(InFlight) < IF torn \/ raced THEN 1 ELSE MaxInFlight
  /\ Goto(r, "idle", IF CacheUsed THEN "stat" ELSE "fetch")
  /\ cleaner' = IF CacheUsed /\ cleaner = "off" THEN "idle" ELSE cleaner
  /\ UNCHANGED <<files, written, served, others>>

\* getCachedFileReader
Stat(r) ==
  /\ Goto(r, "stat", IF cache = NoFile THEN "fetch"
                     ELSE IF cache.old THEN "dropboth" ELSE "readmeta")
  /\ UNCHANGED <<files, written, cleaner, served, others>>

\* Slip: a file that is marked partial is served.
ReadMetaPresent(r) ==
  /\ Goto(r, "readmeta", IF meta \in {"complete", "partial"} THEN "open" ELSE "dropcache")
  /\ UNCHANGED <<files, written, cleaner, served, others>>

ReadMeta(r) ==
  /\ Goto(r, "readmeta", CASE meta = "complete" -> "open"
                           [] meta = "partial"  -> "dropboth"
                           [] OTHER             -> "dropcache")
  /\ UNCHANGED <<files, written, cleaner, served, others>>

\* One of the two files is changed and the other is not yet.
HalfChanged ==
  cleaner = "meta" \/ \E r \in Requests : pc[r] \in {"dropmeta", "truncmeta", "writemeta"}

\* A lookup that found no meta file drops the cache file alone; the meta file may
\* have been written since.
DropCache(r) ==
  /\ \/ Goto(r, "dropboth", "dropmeta") /\ raced' = (raced \/ HalfChanged)
     \/ Goto(r, "dropcache", "fetch") /\ raced' = (raced \/ HalfChanged \/ meta = "complete")
  /\ cache' = NoFile
  /\ UNCHANGED <<meta, tmps, written, cleaner, served, kept>>

DropMeta(r) ==
  /\ Goto(r, "dropmeta", "fetch")
  /\ meta' = "absent"
  /\ UNCHANGED <<cache, tmps, written, cleaner, served, others>>

Open(r) ==
  /\ Goto(r, "open", IF cache = NoFile THEN "fetch" ELSE "send")
  /\ UNCHANGED <<files, written, cleaner, served, others>>

Outcome(f) ==
  IF f = NoFile THEN "missing" ELSE IF f.blocks = Size THEN "whole" ELSE "cut"

\* StreamFile closes the file it was given and sends the path.
Send(r) ==
  /\ Goto(r, "send", "idle")
  /\ served' = served \cup {Outcome(cache)}
  /\ UNCHANGED <<files, written, cleaner, others>>

-----------------------------------------------------------------------------
(* The download, with the cacheWriter around it *)

\* The message or its media cannot be had.
FetchFail(r) ==
  /\ Goto(r, "fetch", "idle")
  /\ UNCHANGED <<files, written, cleaner, served, others>>

Fetch(r) ==
  /\ Goto(r, "fetch", IF CacheUsed THEN "stream" ELSE "plain")
  /\ written' = [written EXCEPT ![r] = 0]
  /\ UNCHANGED <<files, cleaner, served, others>>

Read(r) ==
  /\ pc[r] \in {"stream", "plain"}
  /\ written[r] < Size
  /\ written' = [written EXCEPT ![r] = @ + 1]
  /\ UNCHANGED <<files, pc, cleaner, served, others>>

\* Slip: a download that yielded nothing is published.
CloseEmpty(r) ==
  /\ Goto(r, "stream", "close")
  /\ UNCHANGED <<files, written, cleaner, served, others>>

\* The end of the stream, a broken download or a client that went away: the
\* reader is closed with whatever was read.  An empty file is not published.
Close(r) ==
  /\ Goto(r, "stream", IF written[r] > 0 THEN "close" ELSE "idle")
  /\ UNCHANGED <<files, written, cleaner, served, others>>

ClosePlain(r) ==
  /\ Goto(r, "plain", "idle")
  /\ UNCHANGED <<files, written, cleaner, served, others>>

\* A write to the temporary file or the rename failed: nothing is published.  A
\* meta file that cannot be written is left as it is.
CloseFailed(r) ==
  /\ \E from \in {"stream", "rename", "truncmeta", "writemeta"} : Goto(r, from, "idle")
  /\ UNCHANGED <<files, written, cleaner, served, others>>

\* Another request's file is kept.
CloseStat(r) ==
  /\ Goto(r, "close", IF cache # NoFile THEN "idle" ELSE "rename")
  /\ UNCHANGED <<files, written, cleaner, served, others>>

Rename(r) ==
  /\ Goto(r, "rename", "truncmeta")
  /\ cache' = [blocks |-> written[r], old |-> FALSE]
  /\ raced' = (raced \/ HalfChanged \/ cache # NoFile)
  /\ UNCHANGED <<meta, tmps, written, cleaner, served, kept>>

\* os.WriteFile truncates the file and then writes it.
TruncMeta(r) ==
  /\ Goto(r, "truncmeta", "writemeta")
  /\ meta' = "empty"
  /\ UNCHANGED <<cache, tmps, written, cleaner, served, others>>

Complete(r) == SizeKnown /\ written[r] = Size

WriteMeta(r) ==
  /\ Goto(r, "writemeta", "idle")
  /\ meta' = IF Complete(r) THEN "complete" ELSE "partial"
  /\ UNCHANGED <<cache, tmps, written, cleaner, served, others>>

-----------------------------------------------------------------------------
(* Time, the cleanup loop, and the process's end *)

Expire ==
  /\ cache # NoFile /\ ~cache.old
  /\ cache' = [cache EXCEPT !.old = TRUE]
  /\ UNCHANGED <<meta, tmps, pc, written, cleaner, served, others>>

CleanStat ==
  /\ cleaner = "idle" /\ cache # NoFile /\ cache.old
  /\ cleaner' = "cache"
  /\ UNCHANGED <<files, pc, written, served, others>>

CleanCache ==
  /\ cleaner = "cache"
  /\ cleaner' = "meta"
  /\ cache' = NoFile
  /\ raced' = (raced \/ HalfChanged)
  /\ UNCHANGED <<meta, tmps, pc, written, served, kept>>

CleanMeta ==
  /\ cleaner = "meta"
  /\ cleaner' = "idle"
  /\ meta' = "absent"
  /\ UNCHANGED <<cache, tmps, pc, written, served, others>>

\* Slip: temporary files go only along with a cache file.
CleanTmpBesideCache ==
  /\ cleaner # "off" /\ tmps > 0 /\ cache # NoFile
  /\ tmps' = tmps - 1
  /\ UNCHANGED <<cache, meta, pc, written, cleaner, served, others>>

\* A temporary file nobody has written to for the TTL.
CleanTmp ==
  /\ cleaner # "off" /\ tmps > 0
  /\ tmps' = tmps - 1
  /\ UNCHANGED <<cache, meta, pc, written, cleaner, served, others>>

\* The process stops.  The next one may run with another config.
Crash ==
  /\ crashes < MaxCrashes
  /\ crashes' = crashes + 1
  /\ disable' \in Settings
  /\ torn' = (torn \/ HalfChanged)
  /\ tmps' = tmps + Cardinality({r \in Requests : pc[r] \in {"stream", "close", "rename"}})
  /\ pc' = [r \in Requests |-> "idle"]
  /\ written' = [r \in Requests |-> 0]
  /\ cleaner' = "off"
  /\ UNCHANGED <<cache, meta, served, raced>>

Init ==
  /\ disable \in Settings
  /\ cache = NoFile
  /\ meta = "absent"
  /\ pc = [r \in Requests |-> "idle"]
  /\ written = [r \in Requests |-> 0]
  /\ tmps = 0
  /\ cleaner = "off"
  /\ served = {}
  /\ torn = FALSE
  /\ raced = FALSE
  /\ crashes = 0

Step(r) ==
  \/ Stat(r) \/ ReadMeta(r) \/ DropCache(r) \/ DropMeta(r) \/ Open(r) \/ Send(r)
  \/ FetchFail(r) \/ Fetch(r) \/ Read(r) \/ Close(r) \/ ClosePlain(r)
  \/ CloseFailed(r) \/ CloseStat(r) \/ Rename(r) \/ TruncMeta(r) \/ WriteMeta(r)

Clean == CleanStat \/ CleanCache \/ CleanMeta

Next == (\E r \in Requests : Begin(r) \/ Step(r)) \/ Expire \/ Clean \/ CleanTmp \/ Crash

\* The cleanup ticker fires for as long as the process runs.  Nothing is asked
\* of a request, whose download may hang.
Fairness == WF_vars(Clean) /\ WF_vars(CleanTmp)

Spec == Init /\ [][Next]_vars
FairSpec == Spec /\ Fairness

-----------------------------------------------------------------------------
(* Properties *)

\* Every variable stays in its type, and no empty file is published.
TypeOK ==
  /\ disable \in Settings
  /\ cache \in Files \cup {NoFile}
  /\ meta \in Metas
  /\ pc \in [Requests -> Phases]
  /\ written \in [Requests -> 0..Size]
  /\ \A r \in Requests : pc[r] \in {"close", "rename"} => written[r] > 0
  /\ tmps \in Nat
  /\ cleaner \in {"off", "idle", "cache", "meta"}
  /\ served \subseteq {"missing", "whole", "cut"}
  /\ torn \in BOOLEAN /\ raced \in BOOLEAN
  /\ crashes \in 0..MaxCrashes

Entry == IF cache = NoFile THEN "none" ELSE IF cache.blocks = Size THEN "whole" ELSE "cut"

Cached == INSTANCE Blob WITH
  entry <- Entry,
  found <- {r \in Requests : pc[r] \in {"open", "send"}},
  told  <- served,
  void  <- torn \/ raced

\* The two files behave as the one that Blob describes: a download that was cut
\* short is never taken for a whole one, whatever lookups, downloads and cleanups
\* run beside each other, until a crash parts the two files or two of them change
\* the files at once.
ImplementsBlob == Cached!Spec

\* Once the cleanup loop runs, an expired file goes, with or without requests,
\* and so does what a crash left of a download.
LeftoversGo ==
  /\ cleaner # "off" /\ cache # NoFile /\ cache.old
       ~> (cache = NoFile \/ ~cache.old \/ cleaner = "off")
  /\ cleaner # "off" /\ tmps > 0 ~> (tmps = 0 \/ cleaner = "off")

=============================================================================
