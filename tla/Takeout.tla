------------------------------- MODULE Takeout -------------------------------
(***************************************************************************)
(* The one-time export of `btts takeout` (userclient/takeout.go): list the *)
(* account's dialogs, keep those in scope, and page through the history of *)
(* each, writing rows of index_chats and documents of the search engine.   *)
(*                                                                         *)
(* A history is the sequence of a dialog's messages, the newest first, and *)
(* a message is known by its position in it.  Telegram splits the messages *)
(* into ranges that are paged one by one; without ranges the code falls    *)
(* back to a single window over everything.                                *)
(*                                                                         *)
(* A dialog is listed once in every window that holds messages of it: the  *)
(* list is a set of entries, each a window and a dialog, in this order.    *)
(***************************************************************************)
EXTENDS Naturals, Sequences, FiniteSets

CONSTANTS
  NumDialogs,      \* how many dialogs the account has
  Kind,            \* the kind of each dialog
  Histories,       \* the histories a dialog may have
  Scopes,          \* the sets of kinds the command may be asked to export
  Tables,          \* what index_chats may hold before the export
  Ranges,          \* Telegram's split, a sequence of windows
  DialogLimit,     \* dialogs in a page (100 in the code)
  BatchSize,       \* messages in a page (100 in the code)
  EnableWatching,  \* the flag --watch
  Faults,          \* a subset of FaultKinds: what may fail
  MaxFaults,       \* how many calls fail
  MaxRuns          \* how often the command is started

Kinds == {"users", "chats", "megagroups", "channels"}
Dialogs == 1..NumDialogs  \* the most recent one first
MessageKinds == {"post", "service"}

\* Whole-call failures: the split, a page of dialogs, a page of history, the
\* classification of a channel, the engine, a Save; a read of index_chats that
\* fails though the row is there; and the process being killed.
FaultKinds == {"ranges", "dialogs", "history", "classify", "engine", "save", "read", "kill"}

ASSUME DialogsAssumption ==
  /\ NumDialogs \in Nat
  /\ Kind \in [Dialogs -> Kinds]
  /\ Histories \subseteq Seq(MessageKinds)
  /\ \E h \in Histories : \A g \in Histories : Len(g) <= Len(h)
  /\ Scopes \subseteq SUBSET Kinds
  /\ Tables \subseteq [Dialogs -> {"none", "watched", "unwatched"}]
\* Telegram's ranges split the messages: each is in exactly one of them.
ASSUME RangesAssumption ==
  /\ Ranges \in Seq([lo: Nat, hi: Nat]) /\ Ranges # <<>>
  /\ \A i \in DOMAIN Ranges : Ranges[i].lo < Ranges[i].hi
  /\ \A i, j \in DOMAIN Ranges :
       i # j => Ranges[i].hi <= Ranges[j].lo \/ Ranges[j].hi <= Ranges[i].lo
  /\ \A h \in Histories : \A p \in DOMAIN h :
       \E i \in DOMAIN Ranges : Ranges[i].lo < p /\ p <= Ranges[i].hi
ASSUME LimitAssumption == DialogLimit \in Nat \ {0} /\ BatchSize \in Nat \ {0}
ASSUME BoundAssumption ==
  /\ Faults \subseteq FaultKinds /\ EnableWatching \in BOOLEAN
  /\ MaxFaults \in Nat /\ MaxRuns \in Nat

VARIABLES
  history,  \* the messages of each dialog, which stay the same
  scope,    \* the kinds of dialogs to export
  rows,     \* table index_chats: watched, unwatched or no row
  docs,     \* the messages of each dialog in the engine
  phase,    \* where the export is
  plain,    \* paging without ranges
  r,        \* the window being paged
  offset,   \* how far into the window the pages have come: a dialog, a message
  found,    \* the entries that were listed; after the filter those left to export
  chat,     \* the entry being exported
  batch,    \* the messages of the page in hand
  updated,  \* metadataUpdated
  hurt,     \* history: dialogs that a failure has touched
  faults, runs

vars == <<history, scope, rows, docs, phase, plain, r, offset, found, chat, batch,
          updated, hurt, faults, runs>>

store == <<history, scope, rows, docs>>
counts == <<faults, runs>>

SetMin(a, b) == IF a <= b THEN a ELSE b

\* The server has no range to offer: the fallback, as after a failed call.
Whole == [lo |-> 0, hi |-> 1 + Len(CHOOSE h \in Histories :
                                     \A g \in Histories : Len(g) <= Len(h))]
Windows == IF plain THEN <<Whole>> ELSE Ranges
Window == Windows[r]

\* The entry of a dialog that was listed in a window.
Entry(w, d) == <<w, d>>
NoEntry == Entry(0, 0)

Running == phase \notin {"idle", "done", "failed"}
InScope(d) == Kind[d] \in scope

\* A failure of the kind given, which touches the dialogs given.
Fails(kind, ds) ==
  /\ kind \in Faults /\ faults < MaxFaults
  /\ faults' = faults + 1
  /\ hurt' = hurt \cup ds

Fine == UNCHANGED <<hurt, faults>>

-----------------------------------------------------------------------------
(* getAllDialogs, getAllDialogsWithoutRanges                               *)

Blank ==
  /\ plain' = FALSE /\ r' = 1 /\ offset' = 0 /\ found' = {}
  /\ chat' = NoEntry /\ batch' = {} /\ updated' = FALSE

\* The command can be given again once it has ended.
Begin ==
  /\ ~Running /\ runs < MaxRuns
  /\ phase' = "ranges"
  /\ runs' = runs + 1
  /\ Blank
  /\ UNCHANGED <<store, hurt, faults>>

\* The server may have no ranges to offer; the export fails if the call does.
GetRanges ==
  /\ phase = "ranges"
  /\ \/ /\ phase' = "dialogs" /\ Fine
        /\ plain' \in BOOLEAN
     \/ /\ phase' = "failed" /\ Fails("ranges", {})
        /\ UNCHANGED plain
  /\ r' = 1 /\ offset' = 0 /\ found' = {}
  /\ UNCHANGED <<store, chat, batch, updated, runs>>

\* The dialogs that have a message in a window, and whether the newest one
\* there is a post.
Listed(w) == {d \in Dialogs : Len(history[d]) > w.lo}
TopIsPost(d, w) == history[d][w.lo + 1] = "post"

\* A page: the first dialogs after the offset, as many as fit.
DialogPage ==
  {d \in Listed(Window) :
     offset < d /\ Cardinality({c \in Listed(Window) : offset < c /\ c < d}) < DialogLimit}

LastOf(ps) == CHOOSE p \in ps : \A q \in ps : q <= p

NextDialogRange ==
  IF r < Len(Windows) THEN r' = r + 1 /\ offset' = 0 /\ phase' = "dialogs"
                      ELSE r' = 1 /\ offset' = 0 /\ phase' = "filter"

\* Slip: the offset stays.
FetchDialogsStuck ==
  /\ phase = "dialogs"
  /\ found' = found \cup {Entry(r, d) : d \in DialogPage}
  /\ IF Cardinality(DialogPage) < DialogLimit
       THEN NextDialogRange ELSE UNCHANGED <<phase, r, offset>>
  /\ Fine
  /\ UNCHANGED <<store, plain, chat, batch, updated, runs>>

\* The offset moves only past a dialog whose top message is a post; where it
\* stays, the same page is fetched for ever.
FetchDialogs ==
  /\ phase = "dialogs"
  /\ found' = found \cup {Entry(r, d) : d \in DialogPage}
  /\ IF Cardinality(DialogPage) < DialogLimit
       THEN NextDialogRange
       ELSE /\ offset' = IF TopIsPost(LastOf(DialogPage), Window)
                           THEN LastOf(DialogPage) ELSE offset
            /\ UNCHANGED <<phase, r>>
  /\ Fine
  /\ UNCHANGED <<store, plain, chat, batch, updated, runs>>

\* In a range: on to the next one with what was listed.  In the fallback: over.
DialogsFail ==
  /\ phase = "dialogs"
  /\ Fails("dialogs", Dialogs)
  /\ IF plain THEN phase' = "failed" /\ UNCHANGED <<r, offset>> ELSE NextDialogRange
  /\ UNCHANGED <<store, plain, found, chat, batch, updated, runs>>

-----------------------------------------------------------------------------
(* filterDialogsByTakeoutConfig                                            *)

ChannelKinds == {"megagroups", "channels"}

\* isMegagroup is asked when exactly one of the two kinds is to be exported.
Unsure == {e \in found : Kind[e[2]] \in ChannelKinds
                         /\ ChannelKinds \cap scope \notin {{}, ChannelKinds}}

\* An answer is kept for the copies that follow, a failure is not.
MayFail(failing) ==
  \A e \in failing, f \in Unsure : f[2] = e[2] /\ f[1] < e[1] => f \in failing

Passing == {e \in found : InScope(e[2])}

\* Slip: a channel that could not be classified is exported.
FilterKeepsUnsure ==
  /\ phase = "filter"
  /\ \E failing \in SUBSET Unsure :
       /\ MayFail(failing)
       /\ IF failing = {} THEN Fine ELSE Fails("classify", {e[2] : e \in failing})
       /\ found' = Passing \cup failing
  /\ phase' = "chat"
  /\ UNCHANGED <<store, plain, r, offset, chat, batch, updated, runs>>

Filter ==
  /\ phase = "filter"
  /\ \E failing \in SUBSET Unsure :
       /\ MayFail(failing)
       /\ IF failing = {} THEN Fine ELSE Fails("classify", {e[2] : e \in failing})
       /\ found' = Passing \ failing
  /\ phase' = "chat"
  /\ UNCHANGED <<store, plain, r, offset, chat, batch, updated, runs>>

-----------------------------------------------------------------------------
(* exportChatHistory, exportChatHistoryWithoutRanges                       *)

Exporting == chat[2]

\* The order of the list.
Precedes(e, f) == e[1] < f[1] \/ (e[1] = f[1] /\ e[2] < f[2])

\* The split is asked for again; a failure is answered with the fallback.
BeginChat ==
  /\ phase = "chat"
  /\ chat' \in {e \in found : \A f \in found : f # e => Precedes(e, f)}
  /\ \/ plain' \in BOOLEAN /\ Fine
     \/ plain' = TRUE /\ Fails("ranges", {})
  /\ phase' = "history" /\ r' = 1 /\ offset' = 0 /\ updated' = FALSE
  /\ UNCHANGED <<store, found, batch, runs>>

\* The posts of a page of the window; extractMessages leaves the rest out.
Extracted ==
  LET first == Window.lo + offset
      last  == SetMin(first + BatchSize, SetMin(Window.hi, Len(history[Exporting])))
  IN {p \in (first + 1)..last : history[Exporting][p] = "post"}

NextChat == phase' = "chat" /\ found' = found \ {chat} /\ UNCHANGED <<r, offset>>

NextWindow ==
  IF r < Len(Windows)
    THEN r' = r + 1 /\ offset' = 0 /\ phase' = "history" /\ UNCHANGED found
    ELSE NextChat

SaveMetadata(d) ==
  \/ /\ rows' = [rows EXCEPT ![d] = IF @ = "none" THEN "watched" ELSE @]
     /\ Fine
  \/ /\ rows[d] # "none"
     /\ rows' = [rows EXCEPT ![d] = IF EnableWatching THEN "watched" ELSE "unwatched"]
     /\ Fails("read", {d})
  \/ Fails("save", {d}) /\ UNCHANGED rows

\* Slip: a page without posts is indexed like the others.
HistoryPageEmpty ==
  /\ phase = "history"
  /\ batch' = Extracted
  /\ phase' = "index"
  /\ updated' = TRUE
  /\ IF updated THEN Fine /\ UNCHANGED rows ELSE SaveMetadata(Exporting)
  /\ UNCHANGED <<history, scope, docs, plain, found, chat, runs, r, offset>>

\* A page without posts ends the window.
HistoryPage ==
  /\ phase = "history"
  /\ IF Extracted = {}
       THEN NextWindow /\ Fine /\ UNCHANGED <<rows, batch, updated>>
       ELSE /\ batch' = Extracted
            /\ phase' = "index"
            /\ updated' = TRUE
            /\ IF updated THEN Fine /\ UNCHANGED rows ELSE SaveMetadata(Exporting)
            /\ UNCHANGED <<r, offset, found>>
  /\ UNCHANGED <<history, scope, docs, plain, chat, runs>>

\* In a range: on to the next one, and the chat counts as exported.  In the
\* fallback: the chat counts as failed.
HistoryFail ==
  /\ phase = "history"
  /\ Fails("history", {Exporting})
  /\ IF plain THEN NextChat ELSE NextWindow
  /\ UNCHANGED <<store, plain, chat, batch, updated, runs>>

\* DocumentsFromMessages finds no sender for the messages of a basic group, and
\* leaves them out.
Documents(d, ps) == IF Kind[d] = "chats" THEN {} ELSE ps

\* Slip: a full page is taken for the last one as well.
IndexPageShort ==
  /\ phase = "index"
  /\ docs' = [docs EXCEPT ![Exporting] = @ \cup Documents(Exporting, batch)]
  /\ Fine
  /\ batch' = {}
  /\ IF Cardinality(batch) <= BatchSize
       THEN NextWindow
       ELSE /\ offset' = LastOf(batch) - Window.lo
            /\ phase' = "history"
            /\ UNCHANGED <<r, found>>
  /\ UNCHANGED <<history, scope, rows, plain, chat, updated, runs>>

\* Slip: the next page skips the message after the last one read.
IndexPageSkips ==
  /\ phase = "index"
  /\ docs' = [docs EXCEPT ![Exporting] = @ \cup Documents(Exporting, batch)]
  /\ Fine
  /\ batch' = {}
  /\ IF Cardinality(batch) < BatchSize
       THEN NextWindow
       ELSE /\ offset' = LastOf(batch) + 1 - Window.lo
            /\ phase' = "history"
            /\ UNCHANGED <<r, found>>
  /\ UNCHANGED <<history, scope, rows, plain, chat, updated, runs>>

\* Documents the engine refuses are logged.  The page counts as full if its
\* posts, and not its messages, reach the limit.
IndexPage ==
  /\ phase = "index"
  /\ \/ /\ docs' = [docs EXCEPT ![Exporting] = @ \cup Documents(Exporting, batch)]
        /\ Fine
     \/ Fails("engine", {Exporting}) /\ UNCHANGED docs
  /\ batch' = {}
  /\ IF Cardinality(batch) < BatchSize
       THEN NextWindow
       ELSE /\ offset' = LastOf(batch) - Window.lo
            /\ phase' = "history"
            /\ UNCHANGED <<r, found>>
  /\ UNCHANGED <<history, scope, rows, plain, chat, updated, runs>>

Complete ==
  /\ phase = "chat" /\ found = {}
  /\ phase' = "done"
  /\ UNCHANGED <<store, plain, r, offset, found, chat, batch, updated, hurt, counts>>

-----------------------------------------------------------------------------
\* Nothing of a run outlives it but the two stores.
Kill ==
  /\ "kill" \in Faults /\ Running
  /\ phase' = "idle"
  /\ Blank
  /\ UNCHANGED <<store, hurt, counts>>

Init ==
  /\ history \in [Dialogs -> Histories]
  /\ scope \in Scopes
  /\ rows \in Tables
  /\ docs = [d \in Dialogs |-> {}]
  /\ phase = "idle" /\ plain = FALSE /\ r = 1 /\ offset = 0 /\ found = {}
  /\ chat = NoEntry /\ batch = {} /\ updated = FALSE
  /\ hurt = {} /\ faults = 0 /\ runs = 0

Step ==
  \/ GetRanges \/ FetchDialogs \/ DialogsFail \/ Filter
  \/ BeginChat \/ HistoryPage \/ HistoryFail \/ IndexPage \/ Complete

Next == Begin \/ Step \/ Kill

Spec == Init /\ [][Next]_vars

\* The export is one sequential run of the program.
FairSpec == Spec /\ WF_vars(Step)

-----------------------------------------------------------------------------
(* Properties *)

Phases == {"idle", "ranges", "dialogs", "filter", "chat", "history", "index", "done", "failed"}

\* Every variable stays in its type; a page is in hand exactly while its
\* documents are to be written, and it is never empty.
TypeOK ==
  /\ history \in [Dialogs -> Histories] /\ scope \in Scopes
  /\ rows \in [Dialogs -> {"none", "watched", "unwatched"}]
  /\ docs \in [Dialogs -> SUBSET Nat]
  /\ phase \in Phases /\ plain \in BOOLEAN /\ updated \in BOOLEAN
  /\ r \in Nat \ {0} /\ offset \in Nat
  /\ found \subseteq (Nat \ {0}) \X Dialogs
  /\ IF phase \in {"history", "index"} THEN chat \in found ELSE chat \in Nat \X Nat
  /\ batch \subseteq Nat /\ (phase = "index" <=> batch # {})
  /\ hurt \subseteq Dialogs
  /\ faults \in 0..MaxFaults /\ runs \in 0..MaxRuns

PostsOf(d) == {p \in DOMAIN history[d] : history[d][p] = "post"}

\* What a cut export leaves in the engine has no holes: in each range, every
\* post newer than an indexed one is indexed too, however often the command
\* was killed, and whichever of the two ways of paging each run took.
PrefixIndexed ==
  \A d \in Dialogs \ hurt, i \in DOMAIN Ranges :
    \A p, q \in PostsOf(d) \cap (Ranges[i].lo + 1)..Ranges[i].hi :
      q \in docs[d] /\ p < q => p \in docs[d]

\* When the command says that it is done, the history of a dialog in scope is
\* in the engine, if it holds nothing but posts and no failure touched it.
PlainExported ==
  phase = "done" =>
    \A d \in Dialogs \ hurt :
      InScope(d) /\ Kind[d] # "chats" /\ PostsOf(d) = DOMAIN history[d] =>
        PostsOf(d) \subseteq docs[d]

\* Whatever fails, nothing is written about a dialog that the flags excluded.
ScopeKept ==
  [][\A d \in Dialogs :
       rows'[d] # rows[d] \/ docs'[d] # docs[d] => InScope(d)]_vars

\* No full page of dialogs ends in one whose top message is a service message.
Pageable ==
  \A w \in {Whole} \cup {Ranges[i] : i \in DOMAIN Ranges} :
    \A d \in Listed(w) :
      Cardinality({c \in Listed(w) : c <= d}) % DialogLimit = 0 => TopIsPost(d, w)

\* The export ends, whatever fails, for every account that is Pageable.
Ends == (Running /\ Pageable) ~> ~Running

\* The command's description: all messages of each dialog in scope are indexed.
AllExported ==
  phase = "done" => \A d \in Dialogs : InScope(d) => PostsOf(d) \subseteq docs[d]

=============================================================================
