--------------------------------- MODULE Blob ---------------------------------
(***************************************************************************)
(* What a cache of one file promises: the file is put there whole or cut,  *)
(* in one step and never over another one, and taken away in one step.  A  *)
(* lookup never accepts a cut file.  It yields a path, though, and what is *)
(* sent is what lies there by then.  Once the promise is void, anything    *)
(* may happen.  FileCache implements this.                                 *)
(***************************************************************************)
CONSTANT Requests

VARIABLES
  entry,  \* what the cache holds: "none", "whole" or "cut"
  found,  \* the requests whose lookup succeeded
  told,   \* what such requests were sent: "missing", "whole" or "cut"
  void    \* the promise does not hold any more

vars == <<entry, found, told, void>>

Put ==
  /\ entry = "none"
  /\ entry' \in {"whole", "cut"}
  /\ UNCHANGED <<found, told, void>>

Remove ==
  /\ entry' = "none"
  /\ UNCHANGED <<found, told, void>>

Find(r) ==
  /\ entry # "cut"
  /\ found' = found \cup {r}
  /\ UNCHANGED <<entry, told, void>>

\* The file is gone: it is fetched anew.
Miss(r) ==
  /\ entry = "none"
  /\ found' = found \ {r}
  /\ UNCHANGED <<entry, told, void>>

Give(r) ==
  /\ r \in found
  /\ found' = found \ {r}
  /\ told' = told \cup {IF entry = "none" THEN "missing" ELSE entry}
  /\ UNCHANGED <<entry, void>>

\* The process stops: the file stays.
Stop ==
  /\ found' = {}
  /\ UNCHANGED <<entry, told, void>>

Init == entry = "none" /\ found = {} /\ told = {} /\ void = FALSE

Next ==
  \/ Put \/ Remove \/ Stop
  \/ \E r \in Requests : Find(r) \/ Miss(r) \/ Give(r)
  \/ void'

Spec == Init /\ [][Next]_vars

=============================================================================
