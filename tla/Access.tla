-------------------------------- MODULE Access --------------------------------
(***************************************************************************)
(* What the API promises about sub keys, whatever is asked and however     *)
(* keys, chats and documents change meanwhile: chats are given to a key    *)
(* and taken from it all at once, and an answer shows nothing but chats    *)
(* that the key had when it asked.  ApiScope implements this.              *)
(***************************************************************************)
CONSTANTS Chats, Keys, Workers

VARIABLES
  granted,  \* of each sub key, the chats it may see
  session   \* what each worker does for a sub key

vars == <<granted, session>>

\* No request, one that waits for its answer, or one that has it.
Free          == [at |-> "free", may |-> {}, shown |-> {}]
Asked(cs)     == [at |-> "asked", may |-> cs, shown |-> {}]
Told(may, cs) == [at |-> "told", may |-> may, shown |-> cs]

Give(k, cs) ==
  /\ granted' = [granted EXCEPT ![k] = @ \cup cs]
  /\ UNCHANGED session

TakeAll(k) ==
  /\ granted' = [granted EXCEPT ![k] = {}]
  /\ UNCHANGED session

\* A request may be refused at once.
Ask(w, k) ==
  /\ session[w] = Free
  /\ \E answer \in {Asked(granted[k]), Told(granted[k], {})} :
       session' = [session EXCEPT ![w] = answer]
  /\ UNCHANGED granted

Show(w, cs) ==
  /\ session[w] = Asked(session[w].may) /\ cs \subseteq session[w].may
  /\ session' = [session EXCEPT ![w] = Told(session[w].may, cs)]
  /\ UNCHANGED granted

Leave(w) ==
  /\ session[w].at = "told"
  /\ session' = [session EXCEPT ![w] = Free]
  /\ UNCHANGED granted

Init ==
  /\ granted = [k \in Keys |-> {}]
  /\ session = [w \in Workers |-> Free]

Next ==
  \/ \E k \in Keys, cs \in SUBSET Chats : Give(k, cs)
  \/ \E k \in Keys : TakeAll(k)
  \/ \E w \in Workers, k \in Keys : Ask(w, k)
  \/ \E w \in Workers, cs \in SUBSET Chats : Show(w, cs)
  \/ \E w \in Workers : Leave(w)

Spec == Init /\ [][Next]_vars

=============================================================================
