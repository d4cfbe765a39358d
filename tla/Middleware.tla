------------------------------ MODULE Middleware ------------------------------
(***************************************************************************)
(* What every call to Telegram passes through (middlewares.go): recovery   *)
(* outside, which repeats a call after a lost connection, and retry        *)
(* inside, which repeats it at once after an internal error of Telegram's. *)
(* The innermost part, which sits out flood waits, is a library's.         *)
(*                                                                         *)
(* All calls of a client share one ExponentialBackOff.  Each call that     *)
(* begins resets it, and so restarts the clock that limits the others.     *)
(***************************************************************************)
EXTENDS Naturals

CONSTANTS
  Calls,       \* who makes calls, one at a time each
  MaxRetries,  \* what retry.New is given: 5
  MaxElapsed   \* MaxElapsedTime, in ticks of the model's clock

ASSUME MiddlewareAssumption == MaxRetries \in Nat \ {0} /\ MaxElapsed \in Nat

VARIABLES
  call,       \* of each caller, where its call is, and how often retry tried
  elapsed,    \* ticks since the shared backoff was last reset
  cancelled,  \* the calls whose own context is done
  stopped     \* recovery's context is done: the user pressed ctrl+c

calls == <<call, elapsed, cancelled, stopped>>

Idle   == [at |-> "idle", tries |-> 0]
Invoke == [at |-> "invoke", tries |-> 0]
Sleep  == [at |-> "sleep", tries |-> 0]

BeginCall(c) ==
  /\ call[c] = Idle
  /\ call' = [call EXCEPT ![c] = Invoke]
  /\ elapsed' = 0
  /\ UNCHANGED <<cancelled, stopped>>

EndCall(c) ==
  /\ call' = [call EXCEPT ![c] = Idle]
  /\ cancelled' = cancelled \ {c}
  /\ UNCHANGED <<elapsed, stopped>>

Succeed(c) == call[c].at = "invoke" /\ EndCall(c)

\* A slip: tried once more than the limit says.
RetryOnceMore(c) ==
  /\ call[c].at = "invoke" /\ call[c].tries < MaxRetries
  /\ call' = [call EXCEPT ![c].tries = @ + 1]
  /\ UNCHANGED <<elapsed, cancelled, stopped>>

\* An internal error of Telegram's: tried again at once.
Retry(c) ==
  /\ call[c].at = "invoke" /\ call[c].tries + 1 < MaxRetries
  /\ call' = [call EXCEPT ![c].tries = @ + 1]
  /\ UNCHANGED <<elapsed, cancelled, stopped>>

\* A slip: only the call's own context is looked at.
ShouldRecoverOwn(c) == c \notin cancelled

ShouldRecover(c) == ~stopped /\ c \notin cancelled

\* An error that is not Telegram's.  "retry limit reached" is one of them.
Recover(c) ==
  /\ call[c].at = "invoke" /\ ShouldRecover(c) /\ elapsed < MaxElapsed
  /\ call' = [call EXCEPT ![c] = Sleep]
  /\ UNCHANGED <<elapsed, cancelled, stopped>>

\* An error of Telegram's that retry does not know.
Refused(c) == call[c].at = "invoke" /\ EndCall(c)

\* Any other error, once there is no recovering from it.
GiveUp(c) ==
  /\ call[c].at = "invoke" /\ (ShouldRecover(c) => elapsed >= MaxElapsed)
  /\ EndCall(c)

Fail(c) == Refused(c) \/ GiveUp(c)

\* The wait between two tries, which no context interrupts, is over.
Wake(c) ==
  /\ call[c].at = "sleep"
  /\ call' = [call EXCEPT ![c] = Invoke]
  /\ UNCHANGED <<elapsed, cancelled, stopped>>

Tick ==
  /\ elapsed < MaxElapsed /\ elapsed' = elapsed + 1
  /\ UNCHANGED <<call, cancelled, stopped>>

Cancel(c) ==
  /\ call[c] # Idle /\ c \notin cancelled
  /\ cancelled' = cancelled \cup {c}
  /\ UNCHANGED <<call, elapsed, stopped>>

Interrupt ==
  /\ ~stopped /\ stopped' = TRUE
  /\ UNCHANGED <<call, elapsed, cancelled>>

\* What goes on in a call without the caller's hearing of it.
Inside(c) == Retry(c) \/ Recover(c) \/ Wake(c)

InitCalls ==
  /\ call = [c \in Calls |-> Idle]
  /\ elapsed = 0 /\ cancelled = {} /\ stopped = FALSE

CallsOK ==
  /\ call \in [Calls -> {Idle, Sleep} \cup [at : {"invoke"}, tries : 0 .. MaxRetries - 1]]
  /\ elapsed \in 0 .. MaxElapsed
  /\ cancelled \subseteq {c \in Calls : call[c] # Idle}
  /\ stopped \in BOOLEAN

-----------------------------------------------------------------------------
Alone(c) == \A d \in Calls \ {c} : call[d] = Idle

\* "recovery is used to stop recovery process by external os signal, otherwise
\* we will wait till max retries" (recovery.go): after ctrl+c, and after its own
\* context is done, a call ends whatever the other calls do, which restart its
\* clock again and again.  Without either it ends if it is the last one at work.
CallsEnd ==
  \A c \in Calls :
    <>[](stopped \/ c \in cancelled \/ Alone(c)) => []<>(call[c] = Idle)

=============================================================================
