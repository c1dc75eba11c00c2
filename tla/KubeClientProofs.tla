-------------------------- MODULE KubeClientProofs --------------------------
(***************************************************************************)
(* What holds of the process-wide client for any number of calls, any      *)
(* retry settings and any word size.                                       *)
(***************************************************************************)
EXTENDS KubeClient, TLAPS, Induction

\* The counters of the calls and the cell, without the delay: the part of the
\* state the safety properties are about.
CInv ==
  /\ retry \in Settings
  /\ cell \in Calls \cup {Unset, Closed}
  /\ pc \in [Calls -> {"idle", "initializing", "connecting", "sleeping",
                       "ok", "err", "failed"}]
  /\ attempt \in [Calls -> Nat]
  /\ tries \in [Calls -> Nat]
  /\ AttemptCounted
  /\ RetryBudget
  /\ HandedOutPooled

LEMMA InitCInv == Init => CInv
  BY SettingsAssumption
  DEF Init, CInv, AttemptCounted, RetryBudget, HandedOutPooled, Budget

LEMMA NextCInv == CInv /\ [Next]_vars => CInv'
<1> SUFFICES ASSUME CInv, [Next]_vars PROVE CInv'
  OBVIOUS
<1> USE SettingsAssumption, CellAssumption
<1>a. retry.enabled \in BOOLEAN /\ retry.max_retries \in Nat
  BY DEF CInv
<1>1. ASSUME NEW c \in Calls, Initialize(c) PROVE CInv'
  BY <1>1, <1>a DEF CInv, Initialize, Goto, AttemptCounted, RetryBudget,
                    HandedOutPooled, Budget, Retries
<1>2. ASSUME NEW c \in Calls, Client(c) PROVE CInv'
  BY <1>2, <1>a DEF CInv, Client, Goto, AttemptCounted, RetryBudget,
                    HandedOutPooled, Budget, Retries
<1>3. ASSUME NEW c \in Calls, Connected(c) PROVE CInv'
  BY <1>3, <1>a DEF CInv, Connected, Tried, Goto, AttemptCounted, RetryBudget,
                    HandedOutPooled, Budget, Retries
<1>4. ASSUME NEW c \in Calls, Refused(c) PROVE CInv'
  BY <1>4, <1>a DEF CInv, Refused, Tried, Goto, AttemptCounted, RetryBudget,
                    HandedOutPooled, Budget, Retries
<1>5. ASSUME NEW c \in Calls, Wake(c) PROVE CInv'
  BY <1>5, <1>a DEF CInv, Wake, Goto, AttemptCounted, RetryBudget,
                    HandedOutPooled, Budget, Retries
<1>6. ASSUME NEW c \in Calls, Initialized(c) PROVE CInv'
  BY <1>6, <1>a DEF CInv, Initialized, Tried, Goto, AttemptCounted, RetryBudget,
                    HandedOutPooled, Budget, Retries
<1>7. CASE Cleanup
  BY <1>7, <1>a DEF CInv, Cleanup, call, AttemptCounted, RetryBudget,
                    HandedOutPooled, Budget, Retries
<1>8. CASE UNCHANGED vars
  BY <1>8, <1>a DEF CInv, vars, AttemptCounted, RetryBudget,
                    HandedOutPooled, Budget, Retries
<1> QED
  BY <1>1, <1>2, <1>3, <1>4, <1>5, <1>6, <1>7, <1>8 DEF Next, Progress

\* A call that gives up has used every attempt the settings grant it, and no
\* call makes more.
THEOREM BudgetKept == Spec => []RetryBudget
<1>1. CInv => RetryBudget
  BY DEF CInv
<1> QED
  BY InitCInv, NextCInv, <1>1, PTL DEF Spec

\* A client that was handed out is pooled for everybody else, until cleanup().
THEOREM Pooled == Spec => []HandedOutPooled
<1>1. CInv => HandedOutPooled
  BY DEF CInv
<1> QED
  BY InitCInv, NextCInv, <1>1, PTL DEF Spec

\* The pooled client is never replaced, and the cell stays closed once it is.
THEOREM PoolStays == Spec => PoolNeverReplaced
<1>1. [Next]_vars => [cell # Unset => cell' \in {cell, Closed}]_vars
  <2> SUFFICES ASSUME Next, cell # Unset PROVE cell' \in {cell, Closed}
    BY DEF vars
  <2> QED
    BY DEF Next, Progress, Initialize, Client, Connected, Refused, Wake,
           Initialized, Cleanup, call
<1> QED
  BY <1>1, PTL DEF Spec, PoolNeverReplaced

-----------------------------------------------------------------------------
\* The saturating arithmetic of calculate_backoff computes the documented
\* min(max_delay, base_delay * power), however large the power of two.
THEOREM SaturationHarmless ==
  ASSUME retry \in Settings, NEW power \in Nat \ {0}
  PROVE  CappedBackoff(power) = Least(retry.max_delay_ms, retry.base_delay_ms * power)
<1> DEFINE b == retry.base_delay_ms
           d == retry.max_delay_ms
<1>1. b \in 0..MaxWord /\ d \in 0..MaxWord /\ MaxWord \in Nat
  BY SettingsAssumption
<1>2. CASE power <= MaxWord
  <2> DEFINE x == b * power
  <2>1. x \in Nat
    BY <1>1
  <2>2. Saturated(power) = power
    BY <1>1, <1>2 DEF Saturated
  <2>3. Least(Saturated(x), d) = Least(d, x)
    <3> HIDE DEF x, b, d
    <3> QED
      BY <2>1, <1>1 DEF Saturated, Least
  <2> QED
    BY <2>2, <2>3 DEF CappedBackoff
<1>3. CASE power > MaxWord
  <2>1. Saturated(power) = MaxWord
    BY <1>1, <1>3 DEF Saturated
  <2>2. CASE b = 0
    <3>1. b * MaxWord = 0 /\ b * power = 0
      BY <1>1, <2>2
    <3> QED
      BY <2>1, <3>1, <1>1 DEF CappedBackoff, Saturated, Least
  <2>3. CASE b # 0
    <3> DEFINE x == b * MaxWord
               y == b * power
    <3>1. x \in Nat /\ y \in Nat /\ x >= MaxWord /\ y >= power
      BY <1>1, <2>3
    <3>2. Least(Saturated(x), d) = d /\ Least(d, y) = d
      <4> HIDE DEF x, y, b, d
      <4> QED
        BY <3>1, <1>1, <1>3 DEF Saturated, Least
    <3> QED
      BY <2>1, <3>2 DEF CappedBackoff
  <2> QED
    BY <2>2, <2>3
<1> QED
  BY <1>1, <1>2, <1>3

\* A sleep lies between the documented backoff and a quarter above it, and fits
\* the word, however large the power of two: what DelayFormula says of a call.
THEOREM BackoffFormula ==
  ASSUME retry \in Settings, NEW power \in Nat \ {0}, NEW ms \in Backoff(power)
  PROVE  LET backoff == Least(retry.max_delay_ms, retry.base_delay_ms * power)
         IN  /\ backoff <= ms /\ ms <= backoff + backoff \div 4
             /\ ms \in 0..MaxWord
<1> DEFINE b == CappedBackoff(power)
<1>1. b = Least(retry.max_delay_ms, retry.base_delay_ms * power)
  BY SaturationHarmless
<1>2. b \in 0..MaxWord /\ MaxWord \in Nat
  <2>1. retry.max_delay_ms \in 0..MaxWord /\ MaxWord \in Nat
    BY SettingsAssumption
  <2>2. retry.base_delay_ms * power \in Nat
    BY SettingsAssumption
  <2> QED
    BY <1>1, <2>1, <2>2 DEF Least
<1>3. PICK j \in Jitter(b) : ms = Saturated(b + j)
  BY DEF Backoff
<1> HIDE DEF b
<1>4. b \div 4 \in Nat
  BY <1>2
<1>5. j \in Nat /\ j <= b \div 4
  BY <1>2, <1>3, <1>4 DEF Jitter
<1>6. b <= ms /\ ms <= b + b \div 4 /\ ms \in 0..MaxWord
  BY <1>2, <1>3, <1>4, <1>5 DEF Saturated
<1> QED
  BY <1>1, <1>6
-----------------------------------------------------------------------------
(***************************************************************************)
(* The powers of two.  What the recursive definition computes up to n is   *)
(* the one function on 0..n that starts with 1 and doubles.                *)
(***************************************************************************)
Doubles(f, n) == /\ f \in [0..n -> Nat \ {0}]
                 /\ f[0] = 1
                 /\ \A k \in 1..n : f[k] = 2 * f[k - 1]

LEMMA DoublesExists == \A n \in Nat : \E f : Doubles(f, n)
<1> DEFINE S == {n \in Nat : \E f : Doubles(f, n)}
<1>1. 0 \in S
  <2>1. Doubles([k \in 0..0 |-> 1], 0)
    BY DEF Doubles
  <2> QED
    BY <2>1
<1>2. ASSUME NEW n \in S PROVE n + 1 \in S
  <2>1. PICK f : Doubles(f, n)
    OBVIOUS
  <2> DEFINE g == [k \in 0..n + 1 |-> IF k = n + 1 THEN 2 * f[n] ELSE f[k]]
  <2>2. f[n] \in Nat \ {0} /\ \A k \in 0..n : f[k] \in Nat \ {0}
    BY <2>1 DEF Doubles
  <2>3. g \in [0..n + 1 -> Nat \ {0}] /\ g[0] = 1
    BY <2>1, <2>2 DEF Doubles
  <2>4. ASSUME NEW k \in 1..n + 1 PROVE g[k] = 2 * g[k - 1]
    <3>1. n \in Nat /\ k \in 0..n + 1 /\ k - 1 \in 0..n + 1 /\ k - 1 # n + 1
      OBVIOUS
    <3>2. g[k - 1] = f[k - 1]
      BY <3>1
    <3>3. CASE k = n + 1
      <4>1. k - 1 = n
        BY <3>1, <3>3
      <4> QED
        BY <3>1, <3>2, <3>3, <4>1
    <3>4. CASE k # n + 1
      <4>1. k \in 1..n
        BY <3>1, <3>4
      <4>2. f[k] = 2 * f[k - 1]
        BY <2>1, <4>1 DEF Doubles
      <4>3. g[k] = f[k]
        BY <3>1, <3>4
      <4> QED
        BY <3>2, <4>2, <4>3
    <3> QED
      BY <3>3, <3>4
  <2>5. Doubles(g, n + 1)
    BY <2>3, <2>4 DEF Doubles
  <2> HIDE DEF g
  <2> QED
    BY <2>5
<1> HIDE DEF S
<1>3. S = Nat
  BY <1>1, <1>2, SetInduction DEF S
<1> QED
  BY <1>3 DEF S

LEMMA DoublesUnique ==
  ASSUME NEW m \in Nat, NEW n \in Nat, m <= n, NEW f, NEW g, Doubles(f, m), Doubles(g, n)
  PROVE  \A k \in 0..m : f[k] = g[k]
<1> DEFINE S == {k \in Nat : k <= m => f[k] = g[k]}
<1>1. 0 \in S
  BY DEF Doubles
<1>2. ASSUME NEW k \in S PROVE k + 1 \in S
  <2> SUFFICES ASSUME k + 1 <= m PROVE f[k + 1] = g[k + 1]
    OBVIOUS
  <2>1. k + 1 \in 1..m /\ k + 1 \in 1..n /\ (k + 1) - 1 = k
    OBVIOUS
  <2> QED
    BY <2>1 DEF Doubles
<1> HIDE DEF S
<1>3. S = Nat
  BY <1>1, <1>2, SetInduction DEF S
<1> QED
  BY <1>3 DEF S

LEMMA PowerOfTwoDef ==
  PowerOfTwo = [n \in Nat |-> IF n = 0 THEN 1 ELSE 2 * PowerOfTwo[n - 1]]
<1> DEFINE Up(n) == CHOOSE f : Doubles(f, n)
           P == [n \in Nat |-> Up(n)[n]]
<1>1. \A n \in Nat : Doubles(Up(n), n)
  BY DoublesExists
<1> HIDE DEF Up
<1>2. ASSUME NEW n \in Nat
      PROVE  P[n] = IF n = 0 THEN 1 ELSE 2 * P[n - 1]
  <2>1. CASE n = 0
    BY <1>1, <2>1 DEF Doubles
  <2>2. CASE n # 0
    <3>1. n - 1 \in Nat /\ n - 1 <= n /\ n \in 1..n /\ n - 1 \in 0..n - 1
      BY <2>2
    <3>2. Up(n)[n] = 2 * Up(n)[n - 1]
      BY <1>1, <3>1 DEF Doubles
    <3>3. Up(n - 1)[n - 1] = Up(n)[n - 1]
      BY <1>1, <3>1, DoublesUnique
    <3> QED
      BY <2>2, <3>1, <3>2, <3>3
  <2> QED
    BY <2>1, <2>2
<1>3. P = [n \in Nat |-> IF n = 0 THEN 1 ELSE 2 * P[n - 1]]
  BY <1>2
<1> HIDE DEF P
<1> QED
  BY <1>3 DEF PowerOfTwo

LEMMA PowerOfTwoType == \A n \in Nat : PowerOfTwo[n] \in Nat \ {0}
<1> DEFINE S == {n \in Nat : PowerOfTwo[n] \in Nat \ {0}}
<1>d. /\ PowerOfTwo[0] = 1
      /\ \A n \in Nat : PowerOfTwo[n + 1] = 2 * PowerOfTwo[n]
  <2> HIDE DEF S
  <2> QED
    BY PowerOfTwoDef
<1>1. 0 \in S
  BY <1>d
<1>2. ASSUME NEW n \in S PROVE n + 1 \in S
  BY <1>d
<1> HIDE DEF S
<1>3. S = Nat
  BY <1>1, <1>2, SetInduction DEF S
<1> QED
  BY <1>3 DEF S

-----------------------------------------------------------------------------
(***************************************************************************)
(* The delays.                                                             *)
(***************************************************************************)
LEMMA DelayInit == Init => TypeOK /\ DelayFormula
  BY SettingsAssumption DEF Init, TypeOK, DelayFormula

LEMMA DelayStep == CInv /\ TypeOK /\ DelayFormula /\ [Next]_vars => TypeOK' /\ DelayFormula'
<1> SUFFICES ASSUME CInv, TypeOK, DelayFormula, [Next]_vars PROVE TypeOK' /\ DelayFormula'
  OBVIOUS
<1>t. CInv' /\ MaxWord \in Nat
  BY NextCInv, SettingsAssumption
<1>r. retry' = retry /\ retry \in Settings
  BY DEF Next, vars, Progress, Initialize, Client, Connected, Refused, Wake,
         Initialized, Cleanup, CInv
<1>1. CASE UNCHANGED delay /\ \A c \in Calls : pc'[c] = "sleeping" =>
             pc[c] = "sleeping" /\ attempt'[c] = attempt[c]
  BY <1>1, <1>t, <1>r DEF CInv, TypeOK, DelayFormula
<1>2. ASSUME NEW c \in Calls, Refused(c), Retries(c) PROVE TypeOK' /\ DelayFormula'
  <2>1. PICK ms \in Backoff(PowerOfTwo[attempt[c]]) : delay' = [delay EXCEPT ![c] = ms]
    BY <1>2 DEF Refused
  <2>2. attempt[c] \in Nat
    BY DEF CInv
  <2>3. LET backoff == Least(retry.max_delay_ms, retry.base_delay_ms * PowerOfTwo[attempt[c]])
        IN  /\ backoff <= ms /\ ms <= backoff + backoff \div 4
            /\ ms \in 0..MaxWord
    BY <1>r, <2>1, <2>2, PowerOfTwoType, BackoffFormula
  <2>4. attempt' = attempt /\ pc' = [pc EXCEPT ![c] = "sleeping"]
    BY <1>2 DEF Refused, Goto
  <2>5. TypeOK'
    BY <1>t, <2>1, <2>3 DEF CInv, TypeOK
  <2>6. DelayFormula'
    BY <1>r, <2>1, <2>3, <2>4 DEF DelayFormula, TypeOK
  <2> QED
    BY <2>5, <2>6
<1>3. ASSUME NEW c \in Calls,
             Initialize(c) \/ Client(c) \/ Connected(c) \/ Wake(c) \/ Initialized(c)
                \/ (Refused(c) /\ ~Retries(c))
      PROVE  TypeOK' /\ DelayFormula'
  BY <1>1, <1>3 DEF TypeOK, Initialize, Client, Connected, Wake, Initialized, Refused, Goto
<1>4. CASE Cleanup \/ UNCHANGED vars
  BY <1>1, <1>4 DEF Cleanup, call, vars
<1> QED
  BY <1>2, <1>3, <1>4 DEF Next, Progress

\* The state of the calls is well-typed: in particular every delay fits the
\* word, whatever the settings.
THEOREM ClientTypeCorrect == Spec => []TypeOK
  BY InitCInv, NextCInv, DelayInit, DelayStep, PTL DEF Spec

\* Every call that sleeps does so for the documented time: the saturating
\* arithmetic and the jitter never leave the formula.
THEOREM DelayDocumented == Spec => []DelayFormula
  BY InitCInv, NextCInv, DelayInit, DelayStep, PTL DEF Spec
=============================================================================
