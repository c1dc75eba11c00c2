----------------------------- MODULE KubeClient -----------------------------
(***************************************************************************)
(* The Kubernetes client of the process.  A static OnceCell holds a mutex  *)
(* over an optional client.  Every call of client() clones that client if  *)
(* there is one; otherwise it connects on its own, with retries and a      *)
(* back-off, and puts its client into the cell unless another call was     *)
(* faster.  initialize() fills the cell before the first call, cleanup()   *)
(* empties the mutex; a call under way may fill the cell after a cleanup() *)
(* that found it unset.                                                    *)
(*                                                                         *)
(* A call is one invocation of client() or initialize(); the client it     *)
(* connects bears its name.                                                *)
(***************************************************************************)
EXTENDS Naturals

CONSTANTS Calls,
          Unset,      \* the cell is empty
          Closed,     \* the cell holds a mutex over None
          Settings,   \* the retry settings to start with
          MaxWord     \* u64::MAX

ASSUME CellAssumption == Unset \notin Calls /\ Closed \notin Calls /\ Unset # Closed

ASSUME SettingsAssumption ==
  /\ MaxWord \in Nat \ {0}
  /\ Settings \subseteq [enabled       : BOOLEAN,
                         max_retries   : Nat,
                         base_delay_ms : 0..MaxWord,
                         max_delay_ms  : 0..MaxWord]

VARIABLES
  retry,     \* the settings, read once at the start of the process
  cell,      \* KUBE_CLIENT: Unset, Closed or the call whose client it holds
  pc,
  attempt,   \* the counter of the retry loop
  delay,     \* milliseconds to sleep before the next attempt
  tries      \* history: connections the call has tried to open

call == <<pc, attempt, delay, tries>>
vars == <<retry, cell, pc, attempt, delay, tries>>

TypeOK ==
  /\ retry \in Settings
  /\ cell \in Calls \cup {Unset, Closed}
  /\ pc \in [Calls -> {"idle", "initializing", "connecting", "sleeping",
                    "ok", "err", "failed"}]
  /\ attempt \in [Calls -> Nat]
  /\ delay \in [Calls -> 0..MaxWord]
  /\ tries \in [Calls -> Nat]

Init ==
  /\ retry \in Settings
  /\ cell = Unset
  /\ pc = [c \in Calls |-> "idle"]
  /\ attempt = [c \in Calls |-> 0]
  /\ delay = [c \in Calls |-> 0]
  /\ tries = [c \in Calls |-> 0]
-----------------------------------------------------------------------------
(***************************************************************************)
(* calculate_backoff, in saturating arithmetic: power is a power of two.   *)
(***************************************************************************)
PowerOfTwo[n \in Nat] == IF n = 0 THEN 1 ELSE 2 * PowerOfTwo[n - 1]

\* Mutants of Saturated: wider words, and arithmetic that wraps around.
Wide(x) == x
Wrapped(x) == x % (MaxWord + 1)

Saturated(x) == IF x > MaxWord THEN MaxWord ELSE x
Least(x, y) == IF x < y THEN x ELSE y

CappedBackoff(power) ==
  Least(Saturated(retry.base_delay_ms * Saturated(power)), retry.max_delay_ms)

\* random_range(0 .. (capped / 4).max(1))
Jitter(capped) == 0 .. (IF capped \div 4 < 1 THEN 1 ELSE capped \div 4) - 1

Backoff(power) ==
  LET capped == CappedBackoff(power)
  IN  {Saturated(capped + j) : j \in Jitter(capped)}
-----------------------------------------------------------------------------
Goto(c, label) == pc' = [pc EXCEPT ![c] = label]

Initialize(c) ==
  /\ pc[c] = "idle"
  /\ Goto(c, "initializing")
  /\ UNCHANGED <<retry, cell, attempt, delay, tries>>

\* A client in the cell is cloned without looking at the API server.
Client(c) ==
  /\ pc[c] = "idle"
  /\ Goto(c, IF cell \in Calls THEN "ok" ELSE "connecting")
  /\ UNCHANGED <<retry, cell, attempt, delay, tries>>

\* create_client: the configuration is read and the API server is asked for
\* its version; either may fail.
Tried(c) == tries' = [tries EXCEPT ![c] = @ + 1]

\* Mutant of Connected: the cell is filled by initialize() only.
ConnectedApart(c) ==
  /\ pc[c] = "connecting"
  /\ Tried(c)
  /\ Goto(c, "ok")
  /\ UNCHANGED <<retry, cell, attempt, delay>>

\* Mutant of Connected: the cell takes the latest client.
ConnectedOver(c) ==
  /\ pc[c] = "connecting"
  /\ Tried(c)
  /\ cell' = c
  /\ Goto(c, "ok")
  /\ UNCHANGED <<retry, attempt, delay>>

\* The cell takes the first client only; the others serve just their callers.
Connected(c) ==
  /\ pc[c] = "connecting"
  /\ Tried(c)
  /\ cell' = IF cell = Unset THEN c ELSE cell
  /\ Goto(c, "ok")
  /\ UNCHANGED <<retry, attempt, delay>>

\* Mutant of Retries: one attempt too many.
RetriesOnce(c) == retry.enabled /\ attempt[c] <= retry.max_retries

Retries(c) == retry.enabled /\ attempt[c] < retry.max_retries

Refused(c) ==
  /\ pc[c] = "connecting"
  /\ Tried(c)
  /\ \/ /\ Retries(c)
        /\ \E ms \in Backoff(PowerOfTwo[attempt[c]]) : delay' = [delay EXCEPT ![c] = ms]
        /\ Goto(c, "sleeping")
     \/ /\ ~Retries(c)
        /\ Goto(c, "err")
        /\ UNCHANGED delay
  /\ UNCHANGED <<retry, cell, attempt>>

\* Mutant of Wake: a call sleeps until another one has connected.
WakePooled(c) ==
  /\ pc[c] = "sleeping"
  /\ cell # Unset
  /\ attempt' = [attempt EXCEPT ![c] = @ + 1]
  /\ Goto(c, "connecting")
  /\ UNCHANGED <<retry, cell, delay, tries>>

Wake(c) ==
  /\ pc[c] = "sleeping"
  /\ attempt' = [attempt EXCEPT ![c] = @ + 1]
  /\ Goto(c, "connecting")
  /\ UNCHANGED <<retry, cell, delay, tries>>

\* initialize() tries once, and fails when there is a client already.
Initialized(c) ==
  /\ pc[c] = "initializing"
  /\ Tried(c)
  /\ \/ /\ cell = Unset
        /\ cell' = c
        /\ Goto(c, "ok")
     \/ /\ Goto(c, "failed")
        /\ UNCHANGED cell
  /\ UNCHANGED <<retry, attempt, delay>>

Cleanup ==
  /\ cell' = IF cell = Unset THEN Unset ELSE Closed
  /\ UNCHANGED <<retry, call>>

Progress(c) == Connected(c) \/ Refused(c) \/ Wake(c) \/ Initialized(c)

Next == \/ \E c \in Calls : Initialize(c) \/ Client(c) \/ Progress(c)
        \/ Cleanup

Spec == Init /\ [][Next]_vars

\* Connecting is subject to timeouts and a sleep ends: a call that is under
\* way goes on.
FairSpec == Spec /\ \A c \in Calls : WF_vars(Progress(c))
-----------------------------------------------------------------------------
\* The client in the cell is never replaced by that of a slower call, and once
\* cleanup() has taken it no later call fills the cell again.
PoolNeverReplaced == [][cell # Unset => cell' \in {cell, Closed}]_vars

\* Once a call has got a client there is one in the cell for everybody else,
\* whatever happens to the API server, until cleanup() closes it.
HandedOutPooled == (\E c \in Calls : pc[c] = "ok") => cell # Unset

\* A call of client() gives up only when it has used every attempt the settings
\* grant it (one, without retries), and never makes another; initialize() tries
\* once.
Budget == IF retry.enabled THEN retry.max_retries + 1 ELSE 1

RetryBudget ==
  \A c \in Calls :
    /\ tries[c] <= Budget
    /\ pc[c] = "err" => tries[c] = Budget
    /\ pc[c] = "failed" => tries[c] = 1

\* The attempts of a call and the counter of its loop go together.
AttemptCounted ==
  \A c \in Calls :
    /\ pc[c] = "idle" => attempt[c] = 0 /\ tries[c] = 0
    /\ pc[c] = "initializing" => attempt[c] = 0 /\ tries[c] = 0
    /\ pc[c] = "connecting" => tries[c] = attempt[c] /\ attempt[c] < Budget
    /\ pc[c] = "sleeping" => tries[c] = attempt[c] + 1 /\ Retries(c)
    /\ tries[c] <= attempt[c] + 1
    /\ attempt[c] < Budget

\* "min(max_delay, base_delay * 2^attempt) + random_jitter", the jitter "between
\* 0 and 25% of the backoff" (client.rs:130,146): the saturating arithmetic
\* computes just that, at any distance from the largest word.
DelayFormula ==
  \A c \in Calls :
    pc[c] = "sleeping" =>
      LET backoff == Least(retry.max_delay_ms, retry.base_delay_ms * PowerOfTwo[attempt[c]])
      IN  backoff <= delay[c] /\ delay[c] <= backoff + backoff \div 4

\* Every call returns, though the API server may refuse all connections.
CallsReturn == \A c \in Calls : pc[c] # "idle" ~> pc[c] \in {"ok", "err", "failed"}
=============================================================================
