-------------------------- MODULE BackgroundProofs --------------------------
(***************************************************************************)
(* The limiter, the breaker, the clocks of a retry, the backlog and the    *)
(* three processes: what the run over them checks on a small instance      *)
(* holds for every limit, window, threshold and batch size, and any number *)
(* of workers, rows and requests.                                          *)
(*                                                                         *)
(* Each component has an inductive invariant of its own, BackgroundInv is  *)
(* their conjunction: the component in focus takes a step, and the others  *)
(* keep their state.                                                       *)
(***************************************************************************)
EXTENDS Background, FiniteSetTheorems, WellFoundedInduction, TLAPS

\* What a step is to each of the components.
LEMMA StepOfFocus ==
    ASSUME [Next]_vars
    PROVE  /\ focus' = focus
           /\ \/ UNCHANGED limiterVars
              \/ focus = "outbound" /\ Outbound!Next
              \/ focus = "inbound" /\ Inbound!Next
           /\ UNCHANGED breakerVars \/ Breaker!Next
           /\ UNCHANGED retryVars \/ Retry!Next
           /\ UNCHANGED backlogVars \/ Backlog!Next
           /\ \/ UNCHANGED processVars
              \/ focus = "api" /\ Api!Next
              \/ focus = "worker" /\ Worker!Next
              \/ focus = "reconciler" /\ Reconciler!Next
<1>1. CASE UNCHANGED vars
  BY <1>1 DEF vars
<1>2. CASE OthersStay("outbound") /\ Outbound!Next
  BY <1>2 DEF OthersStay, Limiters, Processes
<1>3. CASE OthersStay("inbound") /\ Inbound!Next
  BY <1>3 DEF OthersStay, Limiters, Processes
<1>4. CASE OthersStay("breaker") /\ Breaker!Next
  BY <1>4 DEF OthersStay, Limiters, Processes
<1>5. CASE OthersStay("retry") /\ Retry!Next
  BY <1>5 DEF OthersStay, Limiters, Processes
<1>6. CASE OthersStay("backlog") /\ Backlog!Next
  BY <1>6 DEF OthersStay, Limiters, Processes
<1>7. CASE OthersStay("api") /\ Api!Next
  BY <1>7 DEF OthersStay, Limiters, Processes
<1>8. CASE OthersStay("worker") /\ Worker!Next
  BY <1>8 DEF OthersStay, Limiters, Processes
<1>9. CASE OthersStay("reconciler") /\ Reconciler!Next
  BY <1>9 DEF OthersStay, Limiters, Processes
<1> QED
  BY <1>1, <1>2, <1>3, <1>4, <1>5, <1>6, <1>7, <1>8, <1>9 DEF Next

-----------------------------------------------------------------------------
(***************************************************************************)
(* The rate limiter                                                        *)
(***************************************************************************)

LimiterTypes == Outbound!TypeOK

\* A wait is announced only while the key lives, and outlasts it.
WaitsForKey == wait # -1 => ttl >= 0 /\ wait >= ttl

\* How long ago the window began, as far as admissions are counted back.
Began == IF ttl = 0 THEN Window - 1 ELSE Window - ttl

\* The counter bounds the admissions since the window began; the ones before,
\* of those still counted, are of one window; with no key there is only that
\* one, and nothing was admitted at this instant.
Budget ==
    /\ \A a \in Outbound!Ages : 0 <= Outbound!Metered(a)
    /\ \A a, b \in Outbound!Ages : a <= b => Outbound!Metered(a) <= Outbound!Metered(b)
    /\ ttl # -1 =>
         /\ Outbound!Metered(Began) <= count /\ Outbound!Metered(Began) <= Limit
         /\ Outbound!Metered(Window - 1) - Outbound!Metered(Began) <= Limit
    /\ ttl = -1 => Outbound!Metered(Window - 1) <= Limit /\ Outbound!Metered(0) = 0

LimiterInv ==
    /\ LimiterTypes /\ Budget
    /\ focus = "inbound" => WaitsForKey
    /\ focus # "inbound" => \A a \in Outbound!Ages : unmetered[a] = 0

LEMMA LimiterNumbers ==
    ASSUME BackgroundAssumption
    PROVE  /\ Limit \in Nat /\ MaxCalls \in Nat /\ MaxLimiterFaults \in Nat /\ Window \in Nat
           /\ MaxCalls > 0 /\ Window > 0 /\ 0 \in Outbound!Ages /\ Window - 1 \in Outbound!Ages
           /\ Outbound!Ages = 0 .. (Window - 1) /\ Second \in Nat /\ Second > 0
  BY DEF BackgroundAssumption, Outbound!RateLimiterAssumption, Outbound!Ages

LEMMA LimiterInit == BackgroundAssumption /\ Init => LimiterInv
<1> SUFFICES ASSUME BackgroundAssumption, Init PROVE LimiterInv
  OBVIOUS
<1>1. /\ count = 0 /\ ttl = -1 /\ wait = -1 /\ calls = 0 /\ limiterFaults = 0
      /\ admitted = [a \in Outbound!Ages |-> 0] /\ unmetered = [a \in Outbound!Ages |-> 0]
  BY DEF Init, Outbound!Init
<1>2. LimiterTypes
  BY <1>1, LimiterNumbers DEF LimiterTypes, Outbound!TypeOK
<1>3. \A a \in Outbound!Ages : Outbound!Metered(a) = 0 /\ unmetered[a] = 0
  BY <1>1 DEF Outbound!Metered
<1>4. Budget
  BY <1>1, <1>3, LimiterNumbers DEF Budget
<1> QED BY <1>1, <1>2, <1>3, <1>4 DEF LimiterInv, WaitsForKey

\* The remainder of a division is less than the divisor.
LEMMA Quotient ==
    ASSUME NEW n \in Int, NEW s \in Nat, s > 0
    PROVE  (n \div s) * s \in Int /\ (n \div s) * s + s > n
<1>1. n \div s \in Int
  OBVIOUS
<1>2. s * (n \div s) + s > n
  OBVIOUS
<1> QED BY <1>1, <1>2

\* Rounding up to whole seconds never shortens a wait.
LEMMA RoundedUp ==
    ASSUME BackgroundAssumption, NEW d \in Int
    PROVE  Inbound!Hint(d) \in Int /\ Inbound!Hint(d) >= d
<1>1. Second \in Nat /\ Second > 0
  BY DEF BackgroundAssumption, Inbound!RateLimiterAssumption
<1>2. CASE d < Second
  BY <1>1, <1>2 DEF Inbound!Hint, Inbound!RetryAfterSeconds
<1>3. CASE ~(d < Second)
  <2> DEFINE n == d + Second - 1
             q == (n \div Second) * Second
  <2>1. Inbound!Hint(d) = q
    BY <1>3 DEF Inbound!Hint, Inbound!RetryAfterSeconds
  <2>2. n \in Int /\ n = d + Second - 1
    BY <1>1
  <2> HIDE DEF n
  <2>3. q \in Int /\ q + Second > n
    BY <1>1, <2>2, Quotient
  <2> HIDE DEF q
  <2> QED BY <1>1, <2>1, <2>2, <2>3
<1> QED BY <1>2, <1>3

\* The script, run once: the counter and its expiry stay together.
LEMMA ScriptRun ==
    ASSUME BackgroundAssumption, LimiterTypes,
           count' = Outbound!Incremented, ttl' = Outbound!SeededTTL
    PROVE  /\ count' \in 0 .. (Limit + 1) /\ ttl' \in -1 .. Window
           /\ (ttl' = -1) <=> (count' = 0)
           /\ WaitsForKey => (wait # -1 => ttl' = ttl)
           /\ ttl' >= 0
  BY LimiterNumbers, SMTT(30) DEF LimiterTypes, Outbound!TypeOK,
     Outbound!Incremented, Outbound!SeededTTL, WaitsForKey

\* What is counted back, after one admission and an instant later.
LEMMA CountedBack ==
    ASSUME BackgroundAssumption, NEW f \in [Outbound!Ages -> Nat]
    PROVE  /\ Outbound!Counted(f) \in [Outbound!Ages -> Nat]
           /\ \A a \in Outbound!Ages : Outbound!Counted(f)[a] = f[a] + 1
           /\ Outbound!Aged(f) \in [Outbound!Ages -> Nat]
           /\ Outbound!Aged(f)[0] = 0
           /\ \A a \in Outbound!Ages : a # 0 => /\ a - 1 \in Outbound!Ages
                                                /\ Outbound!Aged(f)[a] = f[a - 1]
<1>1. \A a \in Outbound!Ages : a # 0 => a - 1 \in Outbound!Ages
  BY LimiterNumbers
<1> QED BY <1>1, LimiterNumbers, SMTT(30) DEF Outbound!Counted, Outbound!Aged

\* A call to the script, or past it: n admissions by the counter, at most one,
\* and only within the limit.
LEMMA BudgetCall ==
    ASSUME BackgroundAssumption, LimiterTypes, Budget, NEW n \in {0, 1},
           \A a \in Outbound!Ages :
              admitted'[a] - unmetered'[a] = admitted[a] - unmetered[a] + n,
           \/ UNCHANGED <<count, ttl>> /\ n = 0
           \/ /\ count' = Outbound!Incremented /\ ttl' = Outbound!SeededTTL
              /\ n = 1 => Outbound!Incremented <= Limit
    PROVE  Budget'
<1> USE DEF Outbound!Metered
<1>0. /\ count \in 0 .. (Limit + 1) /\ ttl \in -1 .. Window
      /\ (ttl = -1) <=> (count = 0)
      /\ \A a \in Outbound!Ages : Outbound!Metered(a) \in Int
  BY DEF LimiterTypes, Outbound!TypeOK
<1>1. /\ \A a \in Outbound!Ages : 0 <= Outbound!Metered(a)'
      /\ \A a, b \in Outbound!Ages : a <= b => Outbound!Metered(a)' <= Outbound!Metered(b)'
  BY <1>0 DEF Budget
<1>2. CASE ttl # -1
  <2>1. ttl' = ttl /\ count' \in Nat /\ count' >= count + n
        /\ (n = 1 => count' = count + 1 /\ count' <= Limit)
    BY <1>0, <1>2, LimiterNumbers, SMTT(30) DEF Outbound!Incremented, Outbound!SeededTTL
  <2>2. Began' = Began /\ Began \in Outbound!Ages
    BY <1>0, <1>2, <2>1, LimiterNumbers, SMTT(30) DEF Began
  <2> QED
    <3>1. /\ Outbound!Metered(Began)' = Outbound!Metered(Began) + n
          /\ Outbound!Metered(Window - 1)' = Outbound!Metered(Window - 1) + n
          /\ Outbound!Metered(Began) \in Int /\ Outbound!Metered(Window - 1) \in Int
      BY <1>0, <2>2, LimiterNumbers
    <3> HIDE DEF Outbound!Metered
    <3>2. /\ Outbound!Metered(Began) <= count /\ Outbound!Metered(Began) <= Limit
          /\ Outbound!Metered(Window - 1) - Outbound!Metered(Began) <= Limit
      BY <1>2 DEF Budget
    <3>3. /\ Outbound!Metered(Began)' <= count' /\ Outbound!Metered(Began)' <= Limit
          /\ Outbound!Metered(Window - 1)' - Outbound!Metered(Began)' <= Limit
      <4>1. n = 0 \/ n = 1
        OBVIOUS
      <4>2. CASE n = 0
        BY <1>0, <2>1, <3>1, <3>2, <4>2, LimiterNumbers
      <4>3. CASE n = 1
        BY <1>0, <2>1, <3>1, <3>2, <4>3, LimiterNumbers, SMTT(30)
      <4> QED BY <4>1, <4>2, <4>3
    <3> QED BY <1>1, <1>2, <2>1, <3>3 DEF Budget
<1>3. CASE ttl = -1 /\ ttl' = -1
  <2>1. n = 0
    BY <1>0, <1>3, ScriptRun
  <2> QED BY <1>0, <1>1, <1>3, <2>1, LimiterNumbers, SMTT(30) DEF Budget
<1>4. CASE ttl = -1 /\ ttl' # -1
  <2>1. count' = 1 /\ ttl' = Window /\ (n = 1 => 1 <= Limit)
    BY <1>0, <1>4, LimiterNumbers, SMTT(30) DEF Outbound!Incremented, Outbound!SeededTTL
  <2>2. Began' = 0
    BY <2>1, LimiterNumbers, SMTT(30) DEF Began
  <2> QED
    BY <1>0, <1>1, <1>4, <2>1, <2>2, LimiterNumbers, SMTT(30) DEF Budget
<1> QED BY <1>2, <1>3, <1>4

\* An instant later: everything is older, and the key may be gone.
LEMMA BudgetTick ==
    ASSUME BackgroundAssumption, LimiterTypes, Budget,
           admitted'[0] - unmetered'[0] = 0,
           \A a \in Outbound!Ages :
              a # 0 => admitted'[a] - unmetered'[a] = admitted[a - 1] - unmetered[a - 1],
           ttl' = IF ttl = -1 THEN -1 ELSE ttl - 1,
           count' = IF ttl <= 0 THEN 0 ELSE count
    PROVE  Budget'
<1> USE DEF Outbound!Metered
<1>0. /\ count \in 0 .. (Limit + 1) /\ ttl \in -1 .. Window
      /\ (ttl = -1) <=> (count = 0)
      /\ \A a \in Outbound!Ages : Outbound!Metered(a) \in Int
  BY DEF LimiterTypes, Outbound!TypeOK
<1>a. \A a \in Outbound!Ages : a # 0 => a - 1 \in Outbound!Ages
  BY LimiterNumbers
<1>1. /\ \A a \in Outbound!Ages : 0 <= Outbound!Metered(a)'
      /\ \A a, b \in Outbound!Ages : a <= b => Outbound!Metered(a)' <= Outbound!Metered(b)'
  <2>1. ASSUME NEW a \in Outbound!Ages PROVE 0 <= Outbound!Metered(a)'
    <3>1. CASE a = 0
      BY <3>1
    <3>2. CASE a # 0
      <4>1. a - 1 \in Outbound!Ages
        BY <1>a, <3>2
      <4> QED BY <3>2, <4>1 DEF Budget
    <3> QED BY <3>1, <3>2
  <2>2. ASSUME NEW a \in Outbound!Ages, NEW b \in Outbound!Ages, a <= b
        PROVE  Outbound!Metered(a)' <= Outbound!Metered(b)'
    <3>1. CASE a = 0
      BY <2>1, <3>1
    <3>2. CASE a # 0
      <4>1. /\ a - 1 \in Outbound!Ages /\ b - 1 \in Outbound!Ages /\ a - 1 <= b - 1
            /\ b # 0
        BY <1>a, <2>2, <3>2, LimiterNumbers
      <4> QED BY <1>0, <3>2, <4>1 DEF Budget
    <3> QED BY <3>1, <3>2
  <2> QED BY <2>1, <2>2
<1>2. Outbound!Metered(Window - 1)' <= Outbound!Metered(Window - 1)
      /\ Outbound!Metered(Window - 1)' \in Int
  <2>1. CASE Window - 1 = 0
    BY <2>1, <1>0, LimiterNumbers, SMTT(30) DEF Budget
  <2>2. CASE Window - 1 # 0
    <3>1. Window - 1 - 1 \in Outbound!Ages /\ Window - 1 - 1 <= Window - 1
      BY <1>a, <2>2, LimiterNumbers
    <3> QED BY <1>0, <2>2, <3>1, LimiterNumbers, SMTT(30) DEF Budget
  <2> QED BY <2>1, <2>2
<1>3. CASE ttl > 0
  <2>1. ttl' = ttl - 1 /\ count' = count /\ Began \in Outbound!Ages /\ Began' \in Outbound!Ages
    <3>1. ttl' = ttl - 1 /\ count' = count /\ ttl \in 1 .. Window
      BY <1>0, <1>3, LimiterNumbers
    <3>2. Window \in Nat /\ Window > 0 /\ Outbound!Ages = 0 .. (Window - 1)
      BY LimiterNumbers
    <3> HIDE DEF Outbound!Metered
    <3>3. Began = Window - ttl /\ Began' = IF ttl = 1 THEN Window - 1 ELSE Window - ttl + 1
      BY <3>1, <3>2, SMTT(20) DEF Began
    <3> QED BY <3>1, <3>2, <3>3, SMTT(20)
  <2>2. CASE ttl' = 0 /\ Began = Window - 1
    BY <1>0, <1>1, <1>2, <1>3, <2>1, <2>2, LimiterNumbers, SMTT(30) DEF Budget, Began
  <2>3. CASE Began' = Began + 1
    <3>1. Outbound!Metered(Began)' = Outbound!Metered(Began)
      BY <1>0, <1>a, <2>1, <2>3, LimiterNumbers
    <3> QED BY <1>0, <1>1, <1>2, <1>3, <2>1, <3>1, LimiterNumbers, SMTT(30) DEF Budget
  <2> QED BY <1>0, <1>3, <2>1, <2>2, <2>3, LimiterNumbers, SMTT(30) DEF Began
<1>4. CASE ttl <= 0
  <2>1. ttl' = -1
    BY <1>0, <1>4
  <2>2. Outbound!Metered(Window - 1) <= Limit
    BY <1>0, <1>4, LimiterNumbers, SMTT(30) DEF Budget, Began
  <2> QED BY <1>0, <1>1, <1>2, <2>1, <2>2, LimiterNumbers, SMTT(30) DEF Budget
<1> QED BY <1>0, <1>3, <1>4

LEMMA LimiterNext ==
    ASSUME BackgroundAssumption, LimiterInv, [Next]_vars
    PROVE  LimiterInv'
<1> USE LimiterNumbers
<1>1. focus' = focus
  BY StepOfFocus
<1>t. /\ LimiterTypes /\ Budget
      /\ admitted \in [Outbound!Ages -> Nat] /\ unmetered \in [Outbound!Ages -> Nat]
      /\ calls \in 0 .. MaxCalls /\ limiterFaults \in 0 .. MaxLimiterFaults
      /\ wait \in Int /\ ttl \in -1 .. Window /\ count \in 0 .. (Limit + 1)
      /\ (ttl = -1) <=> (count = 0)
  BY DEF LimiterInv, LimiterTypes, Outbound!TypeOK
<1>2. ASSUME Budget', admitted' \in [Outbound!Ages -> Nat],
             unmetered' \in [Outbound!Ages -> Nat],
             calls' \in 0 .. MaxCalls, limiterFaults' \in 0 .. MaxLimiterFaults,
             wait' \in Int, ttl' \in -1 .. Window, count' \in 0 .. (Limit + 1),
             (ttl' = -1) <=> (count' = 0),
             focus = "inbound" => WaitsForKey',
             focus # "inbound" => \A a \in Outbound!Ages : unmetered'[a] = 0
      PROVE  LimiterInv'
  BY <1>1, <1>2 DEF LimiterInv, LimiterTypes, Outbound!TypeOK, Outbound!Ages
<1>3. CASE UNCHANGED limiterVars
  BY <1>1, <1>3 DEF limiterVars, LimiterInv, LimiterTypes, Outbound!TypeOK, WaitsForKey,
     Budget, Began, Outbound!Metered
<1>4. CASE Outbound!Allow \/ Inbound!Allow
  <2>1. /\ count' = Outbound!Incremented /\ ttl' = Outbound!SeededTTL
        /\ Outbound!Incremented <= Limit
        /\ admitted' = Outbound!Counted(admitted)
        /\ UNCHANGED <<unmetered, wait, limiterFaults>>
        /\ calls < MaxCalls /\ calls' = calls + 1
    BY <1>4 DEF Outbound!Allow, Inbound!Allow, Outbound!Call, Inbound!Call,
       Outbound!Within, Inbound!Within, Outbound!Incremented, Inbound!Incremented,
       Outbound!SeededTTL, Inbound!SeededTTL, Outbound!Counted, Inbound!Counted,
       Outbound!Ages, Inbound!Ages
  <2>2. /\ admitted' \in [Outbound!Ages -> Nat]
        /\ \A a \in Outbound!Ages : admitted'[a] = admitted[a] + 1
    BY <1>t, <2>1, CountedBack
  <2>3. \A a \in Outbound!Ages : admitted'[a] - unmetered'[a] = admitted[a] - unmetered[a] + 1
    BY <1>t, <2>1, <2>2, SMTT(30)
  <2>4. Budget'
    BY <1>t, <2>1, <2>3, BudgetCall
  <2>5. focus = "inbound" => WaitsForKey'
    BY <1>t, <2>1, ScriptRun DEF LimiterInv, WaitsForKey
  <2>6. calls' \in 0 .. MaxCalls
    BY <1>t, <2>1
  <2>7. focus # "inbound" => \A a \in Outbound!Ages : unmetered'[a] = 0
    BY <2>1 DEF LimiterInv
  <2> QED BY <1>t, <1>2, <2>1, <2>2, <2>4, <2>5, <2>6, <2>7, ScriptRun
<1>5. CASE (focus = "outbound" /\ Outbound!Deny) \/ Inbound!Deny
  <2>1. /\ count' = Outbound!Incremented /\ ttl' = Outbound!SeededTTL
        /\ UNCHANGED <<admitted, unmetered, limiterFaults>>
        /\ calls < MaxCalls /\ calls' = calls + 1
    BY <1>5 DEF Outbound!Deny, Inbound!Deny, Outbound!Call, Inbound!Call,
       Outbound!Incremented, Inbound!Incremented, Outbound!SeededTTL, Inbound!SeededTTL
  <2>2. ttl' \in Int /\ ttl' >= 0
    BY <1>t, <2>1, ScriptRun
  <2>3. wait' \in {wait, Second, Inbound!Hint(ttl')}
    BY <1>5 DEF Outbound!Deny, Inbound!Deny, Outbound!Hint
  <2>4. wait' \in Int
    BY <1>t, <2>2, <2>3, RoundedUp
  <2>5. ASSUME focus = "inbound" PROVE WaitsForKey'
    <3>1. Inbound!Deny
      BY <1>5, <2>5
    <3>2. wait' = Inbound!Hint(ttl') \/ (wait' = wait /\ wait # -1)
      BY <3>1 DEF Inbound!Deny
    <3>3. CASE wait' = Inbound!Hint(ttl')
      BY <2>2, <3>3, RoundedUp DEF WaitsForKey
    <3>4. CASE wait' = wait /\ wait # -1
      BY <1>t, <2>1, <2>5, <3>4, ScriptRun DEF LimiterInv, WaitsForKey
    <3> QED BY <3>2, <3>3, <3>4
  <2>6. calls' \in 0 .. MaxCalls
    BY <1>t, <2>1
  <2>7. Budget'
    <3>1. \A a \in Outbound!Ages : admitted'[a] - unmetered'[a] = admitted[a] - unmetered[a] + 0
      BY <1>t, <2>1, SMTT(30)
    <3> QED BY <1>t, <2>1, <3>1, BudgetCall
  <2>8. focus # "inbound" => \A a \in Outbound!Ages : unmetered'[a] = 0
    BY <2>1 DEF LimiterInv
  <2> QED BY <1>t, <1>2, <2>1, <2>4, <2>5, <2>6, <2>7, <2>8, ScriptRun
<1>6. CASE (focus = "outbound" /\ Outbound!LimiterFault)
           \/ (focus = "inbound" /\ Inbound!LimiterFault)
  <2>1. /\ \/ UNCHANGED <<count, ttl>>
           \/ count' = Outbound!Incremented /\ ttl' = Outbound!SeededTTL
        /\ UNCHANGED wait
        /\ limiterFaults < MaxLimiterFaults /\ limiterFaults' = limiterFaults + 1
        /\ calls < MaxCalls /\ calls' = calls + 1
        /\ \/ UNCHANGED <<admitted, unmetered>>
           \/ /\ focus = "inbound"
              /\ admitted' = Outbound!Counted(admitted)
              /\ unmetered' = Outbound!Counted(unmetered)
    BY <1>6 DEF Outbound!LimiterFault, Inbound!LimiterFault, Outbound!Call, Inbound!Call,
       Outbound!Incremented, Inbound!Incremented, Outbound!SeededTTL, Inbound!SeededTTL,
       Outbound!Counted, Inbound!Counted, Outbound!Ages, Inbound!Ages
  <2>2. /\ admitted' \in [Outbound!Ages -> Nat] /\ unmetered' \in [Outbound!Ages -> Nat]
        /\ \A a \in Outbound!Ages :
             admitted'[a] - unmetered'[a] = admitted[a] - unmetered[a] + 0
    <3>1. CASE UNCHANGED <<admitted, unmetered>>
      BY <1>t, <3>1, SMTT(30)
    <3>2. CASE admitted' = Outbound!Counted(admitted) /\ unmetered' = Outbound!Counted(unmetered)
      <4>1. /\ admitted' \in [Outbound!Ages -> Nat] /\ unmetered' \in [Outbound!Ages -> Nat]
            /\ \A a \in Outbound!Ages : admitted'[a] = admitted[a] + 1
                                        /\ unmetered'[a] = unmetered[a] + 1
        BY <1>t, <3>2, CountedBack
      <4>2. ASSUME NEW a \in Outbound!Ages
            PROVE  admitted'[a] - unmetered'[a] = admitted[a] - unmetered[a] + 0
        <5>1. /\ admitted[a] \in Nat /\ unmetered[a] \in Nat
              /\ admitted'[a] = admitted[a] + 1 /\ unmetered'[a] = unmetered[a] + 1
          BY <1>t, <4>1
        <5> QED BY ONLY <5>1
      <4> QED BY <4>1, <4>2
    <3> QED BY <2>1, <3>1, <3>2
  <2>3. /\ count' \in 0 .. (Limit + 1) /\ ttl' \in -1 .. Window
        /\ (ttl' = -1) <=> (count' = 0)
        /\ WaitsForKey => (wait # -1 => ttl' = ttl)
    BY <1>t, <2>1, ScriptRun
  <2>4. Budget'
    BY <1>t, <2>1, <2>2, BudgetCall
  <2>5. calls' \in 0 .. MaxCalls /\ limiterFaults' \in 0 .. MaxLimiterFaults
    BY <1>t, <2>1
  <2>6. focus = "inbound" => WaitsForKey'
    BY <2>1, <2>3 DEF LimiterInv, WaitsForKey
  <2>7. focus # "inbound" => \A a \in Outbound!Ages : unmetered'[a] = 0
    BY <2>1 DEF LimiterInv
  <2> QED BY <1>t, <1>2, <2>1, <2>2, <2>3, <2>4, <2>5, <2>6, <2>7
<1>7. CASE Outbound!Tick \/ Inbound!Tick
  <2>1. /\ ttl' = IF ttl = -1 THEN -1 ELSE ttl - 1
        /\ count' = IF ttl <= 0 THEN 0 ELSE count
        /\ wait' = IF ttl <= 0 \/ wait = -1 THEN -1 ELSE wait - 1
        /\ admitted' = Outbound!Aged(admitted) /\ unmetered' = Outbound!Aged(unmetered)
        /\ calls' = 0 /\ limiterFaults' = 0
    BY <1>7 DEF Outbound!Tick, Inbound!Tick, Outbound!Aged, Inbound!Aged,
       Outbound!Ages, Inbound!Ages
  <2>2. /\ admitted' \in [Outbound!Ages -> Nat] /\ unmetered' \in [Outbound!Ages -> Nat]
        /\ admitted'[0] = 0 /\ unmetered'[0] = 0
        /\ \A a \in Outbound!Ages :
             a # 0 => admitted'[a] = admitted[a - 1] /\ unmetered'[a] = unmetered[a - 1]
                      /\ a - 1 \in Outbound!Ages
    BY <1>t, <2>1, CountedBack
  <2>3. Budget'
    BY <1>t, <2>1, <2>2, BudgetTick
  <2>4. focus = "inbound" => WaitsForKey'
    BY <1>t, <2>1 DEF LimiterInv, WaitsForKey
  <2>5. focus # "inbound" => \A a \in Outbound!Ages : unmetered'[a] = 0
    BY <2>2 DEF LimiterInv
  <2>6. /\ count' \in 0 .. (Limit + 1) /\ ttl' \in -1 .. Window
        /\ ((ttl' = -1) <=> (count' = 0)) /\ wait' \in Int
    BY <1>t, <2>1, SMTT(30)
  <2>7. calls' \in 0 .. MaxCalls /\ limiterFaults' \in 0 .. MaxLimiterFaults
    BY <2>1
  <2> QED BY <1>2, <2>2, <2>3, <2>4, <2>5, <2>6, <2>7
<1> QED
  BY <1>3, <1>4, <1>5, <1>6, <1>7, StepOfFocus DEF Outbound!Next, Inbound!Next

-----------------------------------------------------------------------------
(***************************************************************************)
(* The circuit breaker                                                     *)
(***************************************************************************)

\* The failures that count are those of calls the window began, and in the
\* half-open state the calls of this generation are probes.
BreakerInv ==
    /\ Breaker!TypeOK
    /\ failures = seen
    /\ state = "halfopen" => \A w \in Workers : call[w] = "current" => w \in probe

LEMMA BreakerInit == BackgroundAssumption /\ Init => BreakerInv
<1> SUFFICES ASSUME BackgroundAssumption, Init PROVE BreakerInv
  OBVIOUS
<1>1. {MaxFailures, Interval, OpenTimeout} \subseteq Nat \ {0}
  BY DEF BackgroundAssumption, Breaker!BreakerAssumption
<1>2. /\ state = "closed" /\ left = Interval /\ requests = 0 /\ failures = 0 /\ seen = 0
      /\ call = [w \in Workers |-> "none"] /\ probe = {} /\ healthy = FALSE
  BY DEF Init, Breaker!Init
<1>3. /\ left \in 0 .. (Interval + OpenTimeout) /\ failures \in 0 .. (MaxFailures - 1)
      /\ seen \in 0 .. MaxFailures /\ failures = seen
  BY <1>1, <1>2
<1> QED
  BY <1>2, <1>3 DEF Breaker!TypeOK, BreakerInv

\* A new generation: nothing has been counted, and no call belongs to it.
LEMMA Renewed ==
    ASSUME BackgroundAssumption, BreakerInv, NEW s \in {"closed", "open", "halfopen"},
           NEW c \in [Workers -> {"none", "current", "stale"}],
           Breaker!NewGeneration(s, c), probe' \subseteq probe, healthy' = healthy
    PROVE  BreakerInv' /\ state' = s
<1>1. {MaxFailures, Interval, OpenTimeout} \subseteq Nat \ {0}
  BY DEF BackgroundAssumption, Breaker!BreakerAssumption
<1>2. call' = [w \in Workers |-> IF c[w] = "current" THEN "stale" ELSE c[w]]
  BY DEF Breaker!NewGeneration, Breaker!Staled
<1>3. call' \in [Workers -> {"none", "current", "stale"}]
  BY <1>2
<1>4. \A w \in Workers : call'[w] # "current"
  BY <1>2
<1>5. left' \in 0 .. (Interval + OpenTimeout)
  BY <1>1 DEF Breaker!NewGeneration
<1>6. state' = s /\ requests' = 0 /\ failures' = 0 /\ seen' = 0
  BY DEF Breaker!NewGeneration
<1>7. failures' \in 0 .. (MaxFailures - 1) /\ seen' \in 0 .. MaxFailures
      /\ failures' = seen'
  BY <1>1, <1>6
<1> QED
  BY <1>3, <1>4, <1>5, <1>6, <1>7 DEF BreakerInv, Breaker!TypeOK

\* What one step of the breaker keeps, and what it takes to leave a state.
LEMMA BreakerStep ==
    ASSUME BackgroundAssumption, BreakerInv, UNCHANGED breakerVars \/ Breaker!Next
    PROVE  /\ BreakerInv'
           /\ state = "closed" /\ state' = "open" =>
                /\ seen + 1 >= MaxFailures
                /\ \E w \in Workers : call[w] = "current" /\ call'[w] = "none"
           /\ state = "halfopen" /\ state' # "halfopen" =>
                \E w \in probe : call[w] = "current" /\ call'[w] = "none"
<1>0. /\ {MaxFailures, Interval, OpenTimeout} \subseteq Nat \ {0}
      /\ failures \in 0 .. (MaxFailures - 1) /\ seen \in 0 .. MaxFailures
      /\ failures = seen /\ left \in 0 .. (Interval + OpenTimeout)
      /\ state \in {"closed", "open", "halfopen"} /\ requests \in Nat
      /\ call \in [Workers -> {"none", "current", "stale"}] /\ probe \subseteq Workers
  BY DEF BackgroundAssumption, Breaker!BreakerAssumption, BreakerInv, Breaker!TypeOK
<1>1. CASE UNCHANGED breakerVars
  BY <1>1 DEF breakerVars, BreakerInv, Breaker!TypeOK
<1>2. CASE Breaker!Tick
  <2>1. CASE left > 0
    <3>1. left' \in 0 .. (Interval + OpenTimeout) /\ state' = state
      BY <1>0, <1>2, <2>1 DEF Breaker!Tick
    <3> QED BY <1>2, <2>1, <3>1 DEF Breaker!Tick, BreakerInv, Breaker!TypeOK
  <2>2. CASE left = 0
    <3>1. /\ Breaker!NewGeneration(IF state = "open" THEN "halfopen" ELSE "closed", call)
          /\ UNCHANGED <<probe, healthy>> /\ state # "halfopen"
      BY <1>0, <1>2, <2>2 DEF Breaker!Tick
    <3>2. BreakerInv' /\ state' = IF state = "open" THEN "halfopen" ELSE "closed"
      BY <1>0, <3>1, Renewed
    <3> QED BY <3>1, <3>2
  <2> QED BY <1>0, <2>1, <2>2
<1>3. CASE Breaker!Heal
  BY <1>3 DEF Breaker!Heal, BreakerInv, Breaker!TypeOK
<1>4. ASSUME NEW w \in Workers, Breaker!Begin(w)
      PROVE  BreakerInv' /\ state' = state
  <2>1. call' = [call EXCEPT ![w] = "current"]
        /\ UNCHANGED <<state, left, failures, seen, healthy>>
    BY <1>4 DEF Breaker!Begin
  <2>2. call' \in [Workers -> {"none", "current", "stale"}]
    BY <1>0, <2>1
  <2>3. requests' \in Nat /\ probe' \subseteq Workers
    BY <1>0, <1>4 DEF Breaker!Begin
  <2>4. state = "halfopen" => \A v \in Workers : call'[v] = "current" => v \in probe'
    BY <1>0, <1>4, <2>1 DEF Breaker!Begin, BreakerInv
  <2> QED BY <2>1, <2>2, <2>3, <2>4 DEF BreakerInv, Breaker!TypeOK
<1>5. ASSUME NEW w \in Workers, NEW a, Breaker!EndCounted(w, a)
      PROVE  /\ BreakerInv'
             /\ state = "closed" /\ state' = "open" =>
                /\ seen + 1 >= MaxFailures
                /\ \E v \in Workers : call[v] = "current" /\ call'[v] = "none"
             /\ state = "halfopen" => state' = "halfopen"
  <2> DEFINE counts == Breaker!SameGeneration(w) /\ Breaker!CountsAsFailure(a)
  <2>0. /\ probe' = probe \ {w} /\ UNCHANGED healthy
        /\ Breaker!SameGeneration(w) => state = "closed"
        /\ Breaker!Return(w) \in [Workers -> {"none", "current", "stale"}]
    BY <1>0, <1>5 DEF Breaker!EndCounted, Breaker!Return
  <2>1. CASE counts /\ failures + 1 >= MaxFailures
    <3>1. Breaker!NewGeneration("open", Breaker!Return(w))
      BY <1>5, <2>1 DEF Breaker!EndCounted, Breaker!ReadyToTrip
    <3>2. BreakerInv' /\ state' = "open"
      BY <2>0, <3>1, Renewed
    <3>3. call[w] = "current" /\ call'[w] = "none"
      BY <1>0, <2>1, <3>1 DEF Breaker!SameGeneration, Breaker!NewGeneration,
                              Breaker!Staled, Breaker!Return
    <3> QED BY <1>0, <2>0, <2>1, <3>2, <3>3
  <2>2. CASE ~(counts /\ failures + 1 >= MaxFailures)
    <3>1. /\ failures' = IF counts THEN failures + 1 ELSE failures
          /\ seen' = IF call[w] = "current" /\ a = "transient" /\ seen < MaxFailures
                     THEN seen + 1 ELSE seen
          /\ call' = Breaker!Return(w)
          /\ UNCHANGED <<state, left, requests>>
      BY <1>5, <2>2 DEF Breaker!EndCounted, Breaker!ReadyToTrip
    <3>2. /\ failures' \in 0 .. (MaxFailures - 1) /\ seen' \in 0 .. MaxFailures
          /\ failures' = seen'
      BY <1>0, <2>2, <3>1 DEF Breaker!CountsAsFailure, Breaker!SameGeneration
    <3>3. call' = [call EXCEPT ![w] = "none"]
      BY <3>1 DEF Breaker!Return
    <3>4. state = "halfopen" => \A v \in Workers : call'[v] = "current" => v \in probe'
      BY <1>0, <2>0, <3>3 DEF BreakerInv
    <3> QED BY <1>0, <2>0, <3>1, <3>2, <3>4 DEF BreakerInv, Breaker!TypeOK
  <2> QED BY <2>1, <2>2
<1>6. ASSUME NEW w \in Workers, NEW a, Breaker!EndProbe(w, a)
      PROVE  /\ BreakerInv' /\ state = "halfopen"
             /\ \E v \in probe : call[v] = "current" /\ call'[v] = "none"
  <2> DEFINE s == IF Breaker!CountsAsFailure(a) THEN "open" ELSE "closed"
             c == [call EXCEPT ![w] = "none"]
  <2>1. /\ state = "halfopen" /\ call[w] = "current" /\ probe' = probe \ {w}
        /\ Breaker!NewGeneration(s, c) /\ UNCHANGED healthy
    BY <1>6 DEF Breaker!EndProbe, Breaker!SameGeneration, Breaker!Return
  <2>2. c \in [Workers -> {"none", "current", "stale"}] /\ c[w] = "none"
    BY <1>0
  <2>3. BreakerInv'
    <3>1. s \in {"closed", "open", "halfopen"}
      OBVIOUS
    <3> HIDE DEF s, c
    <3> QED BY <2>1, <2>2, <3>1, Renewed
  <2>4. w \in probe /\ call'[w] = "none"
    BY <2>1, <2>2 DEF BreakerInv, Breaker!NewGeneration, Breaker!Staled
  <2> QED BY <2>1, <2>3, <2>4
<1>7. ASSUME Breaker!Next
      PROVE  \/ Breaker!Tick \/ Breaker!Heal
             \/ \E w \in Workers : Breaker!Begin(w) \/ \E a : Breaker!EndCounted(w, a)
                                                            \/ Breaker!EndProbe(w, a)
  BY <1>7, Zenon DEF Breaker!Next, Breaker!End
<1>8. CASE \E w \in Workers : Breaker!Begin(w)
  BY <1>4, <1>8
<1>9. CASE \E w \in Workers : \E a : Breaker!EndCounted(w, a)
  BY <1>5, <1>9
<1>10. CASE \E w \in Workers : \E a : Breaker!EndProbe(w, a)
  <2>1. /\ BreakerInv' /\ state = "halfopen"
        /\ \E v \in probe : call[v] = "current" /\ call'[v] = "none"
    BY <1>6, <1>10
  <2> QED BY <2>1
<1> QED
  <2>1. CASE Breaker!Heal
    <3>1. state' = state
      BY <2>1 DEF Breaker!Heal
    <3> QED BY <1>3, <2>1, <3>1
  <2> QED BY <1>1, <1>2, <1>7, <1>8, <1>9, <1>10, <2>1

-----------------------------------------------------------------------------
(***************************************************************************)
(* The clocks of a retry                                                   *)
(***************************************************************************)

\* What one retry adds to the delay it was given: jitter and waiting.
Spread == MaxRetryJitter - 1 + MaxWait

\* How far the task can be behind next_retry_at after k retries.  The first sets
\* both clocks, furthest apart when a denial's event could not be recorded; every
\* later one may be a claim that fails, which moves the task's clock alone.
Lag(k) == BackoffBase * 2^(k - 1) + k * Spread - RateLimitBackoff

\* An attempt costs a retry, but for the last, which settles or archives.
RetryInv ==
    /\ Retry!TypeOK
    /\ attempts <= retried + (IF Retry!Runs THEN 0 ELSE 1)
    /\ Retry!Runs /\ rowStatus = "retrying" => retried >= 1 /\ due <= next + Lag(retried)

LEMMA RetryNumbers ==
    ASSUME BackgroundAssumption
    PROVE  /\ BackoffBase \in Nat /\ BackoffBase >= 1
           /\ RateLimitBackoff \in Nat /\ RateLimitBackoff >= 1
           /\ MaxRetryJitter \in Nat /\ MaxRetryJitter >= 1
           /\ OverdueThreshold \in Nat
           /\ MaxAttempts \in Nat /\ MaxAttempts >= 1
           /\ MaxRetry \in Nat /\ MaxRetry >= 1
           /\ MaxWait \in Nat /\ RateLimitBackoff <= BackoffBase
  BY DEF BackgroundAssumption, Retry!RetryTimingAssumption

LEMMA RetryInit == BackgroundAssumption /\ Init => RetryInv
<1> SUFFICES ASSUME BackgroundAssumption, Init PROVE RetryInv
  OBVIOUS
<1>1. /\ rowStatus = "queued" /\ attempts = 0 /\ retried = 0
      /\ next = 0 /\ due = 0 /\ archived = FALSE
  BY DEF Init, Retry!Init
<1>2. attempts \in 0 .. (MaxAttempts + MaxRetry) /\ retried \in 0 .. MaxRetry
  BY <1>1, RetryNumbers
<1>3. {next, due} \subseteq Nat
  BY <1>1
<1>4. Retry!TypeOK
  BY <1>1, <1>2, <1>3 DEF Retry!TypeOK
<1>5. attempts <= retried + (IF Retry!Runs THEN 0 ELSE 1) /\ rowStatus # "retrying"
  BY <1>1
<1> QED BY <1>4, <1>5 DEF RetryInv

\* A backoff is no shorter than the first, and doubles.
LEMMA Backoffs ==
    ASSUME BackgroundAssumption, PowersOfTwo
    PROVE  /\ Retry!BackoffFor(0) = BackoffBase
           /\ \A n \in 0 .. (MaxAttempts + MaxRetry) :
                Retry!BackoffFor(n) \in Nat /\ Retry!BackoffFor(n) >= BackoffBase
<1> USE RetryNumbers
<1>1. Retry!BackoffFor(0) = BackoffBase
  BY DEF Retry!BackoffFor
<1>2. ASSUME NEW n \in 1 .. (MaxAttempts + MaxRetry)
      PROVE  Retry!BackoffFor(n) \in Nat /\ Retry!BackoffFor(n) >= BackoffBase
  <2>1. 2^0 = 1
    OBVIOUS
  <2>2. 2^(n - 1) \in Nat /\ 2^(n - 1) >= 1
    <3>1. n - 1 \in 0 .. (MaxAttempts + MaxRetry) /\ 0 \in 0 .. (n - 1)
      OBVIOUS
    <3> QED BY <2>1, <3>1 DEF PowersOfTwo
  <2>3. Retry!BackoffFor(n) = BackoffBase * 2^(n - 1)
    BY DEF Retry!BackoffFor
  <2>4. \A p \in Nat : p >= 1 => BackoffBase * p \in Nat /\ BackoffBase * p >= BackoffBase
    OBVIOUS
  <2> QED BY <2>2, <2>3, <2>4
<1> QED BY <1>1, <1>2

\* The lag grows by a backoff, its jitter and a wait with every retry.
LEMMA Lags ==
    ASSUME BackgroundAssumption, PowersOfTwo
    PROVE  /\ Lag(1) = BackoffBase + Spread - RateLimitBackoff
           /\ \A k \in 1 .. MaxRetry : Lag(k) \in Nat
           /\ \A j, k \in 1 .. MaxRetry : j <= k => Lag(j) <= Lag(k)
           /\ \A k \in 1 .. (MaxRetry - 1) :
                Lag(k + 1) = Lag(k) + Retry!BackoffFor(k) + Spread
<1> USE RetryNumbers
<1>0. 2^0 = 1
  OBVIOUS
<1>s. Spread \in Nat
  BY DEF Spread
<1>1. Lag(1) = BackoffBase + Spread - RateLimitBackoff
  <2>1. 1 - 1 = 0
    OBVIOUS
  <2>2. Lag(1) = BackoffBase * 1 + 1 * Spread - RateLimitBackoff
    BY <1>0, <2>1 DEF Lag
  <2> QED BY <1>s, <2>2
<1>2. ASSUME NEW j \in 1 .. MaxRetry, NEW k \in 1 .. MaxRetry, j <= k
      PROVE  Lag(j) \in Nat /\ Lag(j) <= Lag(k)
  <2> DEFINE p == 2^(j - 1)
             q == 2^(k - 1)
  <2>1. p \in Nat /\ q \in Nat /\ 1 <= p /\ p <= q
    <3>1. /\ j - 1 \in 0 .. (MaxAttempts + MaxRetry) /\ k - 1 \in 0 .. (MaxAttempts + MaxRetry)
          /\ 0 \in 0 .. (j - 1) /\ j - 1 \in 0 .. (k - 1)
      BY <1>2
    <3> QED BY <1>0, <3>1 DEF PowersOfTwo
  <2>2. /\ Lag(j) = BackoffBase * p + j * Spread - RateLimitBackoff
        /\ Lag(k) = BackoffBase * q + k * Spread - RateLimitBackoff
    BY DEF Lag
  <2> HIDE DEF p, q
  <2>3. /\ BackoffBase * p \in Nat /\ BackoffBase * q \in Nat
        /\ BackoffBase * p >= BackoffBase /\ BackoffBase * p <= BackoffBase * q
    BY <2>1
  <2>4. j * Spread \in Nat /\ k * Spread \in Nat /\ j * Spread <= k * Spread
    BY <1>2, <1>s
  <2> QED BY <2>2, <2>3, <2>4
<1>3. ASSUME NEW k \in 1 .. (MaxRetry - 1)
      PROVE  Lag(k + 1) = Lag(k) + Retry!BackoffFor(k) + Spread
  <2> DEFINE p == 2^(k - 1)
  <2>1. 2^(k + 1 - 1) = 2 * p /\ p \in Nat
    <3>1. k - 1 \in 0 .. (MaxAttempts + MaxRetry) /\ k - 1 + 1 = k /\ k + 1 - 1 = k
      OBVIOUS
    <3> QED BY <3>1 DEF PowersOfTwo
  <2>2. Retry!BackoffFor(k) = BackoffBase * p
    BY DEF Retry!BackoffFor
  <2>3. /\ Lag(k) = BackoffBase * p + k * Spread - RateLimitBackoff
        /\ Lag(k + 1) = BackoffBase * (2 * p) + (k + 1) * Spread - RateLimitBackoff
    BY <2>1 DEF Lag
  <2> HIDE DEF p
  <2>4. BackoffBase * (2 * p) = BackoffBase * p + BackoffBase * p /\ BackoffBase * p \in Nat
    BY <2>1
  <2>5. (k + 1) * Spread = k * Spread + Spread /\ k * Spread \in Nat
    BY <1>s
  <2> QED BY <1>s, <2>2, <2>3, <2>4, <2>5
<1> QED BY <1>1, <1>2, <1>3

\* What a retry may add to next_retry_at at most, from the exponential schedule.
LEMMA LagCovers ==
    ASSUME BackgroundAssumption, PowersOfTwo, NEW k \in 0 .. (MaxRetry - 1)
    PROVE  /\ Lag(k + 1) \in Nat
           /\ Lag(k + 1) >= Retry!BackoffFor(k) + Spread - RateLimitBackoff
<1> USE RetryNumbers
<1>0. /\ k + 1 \in 1 .. MaxRetry /\ k \in 0 .. (MaxAttempts + MaxRetry)
      /\ Spread \in Nat
  BY DEF Spread
<1>1. Lag(k + 1) \in Nat
  BY <1>0, Lags
<1>2. CASE k = 0
  BY <1>0, <1>1, <1>2, Lags, Backoffs
<1>3. CASE k # 0
  <2>1. k \in 1 .. (MaxRetry - 1) /\ k \in 1 .. MaxRetry
    BY <1>3
  <2>2. /\ Lag(k) \in Nat /\ Retry!BackoffFor(k) \in Nat
        /\ Lag(k + 1) = Lag(k) + Retry!BackoffFor(k) + Spread
    BY <1>0, <2>1, Lags, Backoffs
  <2> QED BY <1>0, <1>1, <2>2
<1> QED BY <1>2, <1>3

\* The task's clock: what a draw of the jitter adds to the delay.
LEMMA Jittered ==
    ASSUME BackgroundAssumption, NEW base \in Nat, NEW d \in Retry!WithJitter(base)
    PROVE  d \in Nat /\ d >= base /\ d <= base + (MaxRetryJitter - 1)
  BY RetryNumbers DEF Retry!WithJitter

\* A run writes no earlier than it is due and returns no later than MaxWait after.
LEMMA RunTimed ==
    ASSUME BackgroundAssumption, due \in Nat, NEW t \in Retry!RunTimes
    PROVE  /\ t.written \in Nat /\ t.written >= due
           /\ t.returned \in Nat /\ t.returned <= due + MaxWait
<1>1. t \in [written : {due, due + MaxWait}, returned : {due, due + MaxWait}]
  BY DEF Retry!RunTimes
<1>2. t.written \in {due, due + MaxWait} /\ t.returned \in {due, due + MaxWait}
  BY <1>1
<1> QED BY <1>2, RetryNumbers

\* asynq runs the task again, or gives it up.
LEMMA Rescheduled ==
    ASSUME BackgroundAssumption, PowersOfTwo, RetryInv, Retry!Runs, NEW err,
           NEW at \in Nat, at <= due + MaxWait, Retry!Reschedule(at, err)
    PROVE  /\ archived' \in BOOLEAN /\ due' \in Nat /\ retried' \in 0 .. MaxRetry
           /\ archived' => retried' = retried
           /\ ~archived' =>
                /\ retried < MaxRetry /\ retried' = retried + 1
                /\ due' <= due + Retry!BackoffFor(retried) + Spread
<1> USE RetryNumbers
<1>0. due \in Nat /\ retried \in 0 .. MaxRetry /\ archived = FALSE
  BY DEF RetryInv, Retry!TypeOK, Retry!Runs
<1>1. CASE retried = MaxRetry
  <2>1. archived' = TRUE /\ retried' = retried /\ due' = due
    BY <1>1 DEF Retry!Reschedule
  <2> QED BY <1>0, <2>1
<1>2. CASE retried # MaxRetry
  <2> DEFINE base == Retry!RetryDelayFor(retried, err)
  <2>0. retried \in 0 .. (MaxAttempts + MaxRetry)
    BY <1>0
  <2>1. base \in Nat /\ base <= Retry!BackoffFor(retried) /\ Retry!BackoffFor(retried) \in Nat
    BY <2>0, Backoffs DEF Retry!RetryDelayFor
  <2>2. /\ \E d \in Retry!WithJitter(base) : due' = at + d
        /\ retried' = retried + 1 /\ archived' = archived
    BY <1>2 DEF Retry!Reschedule
  <2> HIDE DEF base
  <2>3. PICK d \in Retry!WithJitter(base) : due' = at + d
    BY <2>2
  <2>4. d \in Nat /\ d <= base + (MaxRetryJitter - 1)
    BY <2>1, Jittered
  <2>5. due' \in Nat /\ due' <= due + Retry!BackoffFor(retried) + Spread
    BY <1>0, <2>1, <2>3, <2>4 DEF Spread
  <2>6. retried < MaxRetry /\ retried' \in 0 .. MaxRetry
    BY <1>0, <1>2, <2>2
  <2> QED BY <1>0, <2>1, <2>2, <2>5, <2>6
<1> QED BY <1>1, <1>2

LEMMA RetryNext ==
    ASSUME BackgroundAssumption, PowersOfTwo, RetryInv, UNCHANGED retryVars \/ Retry!Next
    PROVE  RetryInv'
<1> USE RetryNumbers
<1>0. /\ attempts \in 0 .. (MaxAttempts + MaxRetry) /\ retried \in 0 .. MaxRetry
      /\ next \in Nat /\ due \in Nat
      /\ rowStatus \in {"queued", "retrying", "settled"} /\ archived \in BOOLEAN
      /\ Retry!Runs => attempts <= retried
  BY DEF RetryInv, Retry!TypeOK
<1>1. CASE UNCHANGED retryVars
  BY <1>1 DEF retryVars, RetryInv, Retry!TypeOK, Retry!Runs
<1>2. CASE Retry!Settle
  <2>1. Retry!Runs /\ rowStatus' = "settled"
        /\ UNCHANGED <<attempts, retried, next, due, archived>>
    BY <1>2 DEF Retry!Settle
  <2>2. attempts' <= retried' + 1
    BY <1>0, <2>1
  <2> QED BY <1>0, <2>1, <2>2 DEF RetryInv, Retry!TypeOK, Retry!Runs
<1>3. ASSUME Retry!Runs, NEW err, NEW t \in Retry!RunTimes, Retry!Reschedule(t.returned, err),
             rowStatus' \in {"queued", "retrying"},
             \/ UNCHANGED attempts
             \/ attempts' = attempts + 1,
             next' \in Nat,
             ~archived' /\ rowStatus' = "retrying" => due' <= next' + Lag(retried')
      PROVE  RetryInv'
  <2>0. t.returned \in Nat /\ t.returned <= due + MaxWait
    BY <1>0, RunTimed
  <2>1. /\ archived' \in BOOLEAN /\ due' \in Nat /\ retried' \in 0 .. MaxRetry
        /\ archived' => retried' = retried
        /\ ~archived' => retried' = retried + 1
    BY <1>3, <2>0, Rescheduled
  <2>2. attempts' \in 0 .. (MaxAttempts + MaxRetry)
    BY <1>0, <1>3
  <2>3. attempts' <= retried' + (IF ~archived' THEN 0 ELSE 1)
    BY <1>0, <1>3, <2>1
  <2>4. ~archived' => retried' >= 1
    BY <1>0, <2>1
  <2>5. Retry!Runs' <=> ~archived'
    BY <1>3 DEF Retry!Runs
  <2>6. Retry!TypeOK'
    BY <1>0, <1>3, <2>1, <2>2 DEF Retry!TypeOK
  <2> QED BY <1>3, <2>3, <2>4, <2>5, <2>6 DEF RetryInv
\* Both clocks are set: next_retry_at no earlier than RateLimitBackoff ahead.
<1>4. ASSUME Retry!Runs, NEW err, NEW t \in Retry!RunTimes, Retry!Reschedule(t.returned, err),
             rowStatus' = "retrying", attempts' = attempts + 1,
             next' \in Nat, next' >= due + RateLimitBackoff
      PROVE  RetryInv'
  <2>0. t.returned \in Nat /\ t.returned <= due + MaxWait
    BY <1>0, RunTimed
  <2>1. ASSUME ~archived' PROVE due' <= next' + Lag(retried')
    <3>1. /\ retried < MaxRetry /\ retried' = retried + 1 /\ due' \in Nat
          /\ due' <= due + Retry!BackoffFor(retried) + Spread
      BY <1>4, <2>0, <2>1, Rescheduled
    <3>2. retried \in 0 .. (MaxRetry - 1) /\ retried \in 0 .. (MaxAttempts + MaxRetry)
      BY <1>0, <3>1
    <3>3. /\ Lag(retried + 1) \in Nat
          /\ Lag(retried + 1) >= Retry!BackoffFor(retried) + Spread - RateLimitBackoff
      BY <3>2, LagCovers
    <3>4. Retry!BackoffFor(retried) \in Nat /\ Spread \in Nat
      BY <3>2, Backoffs DEF Spread
    <3> QED BY <1>0, <1>4, <3>1, <3>3, <3>4
  <2> QED BY <1>3, <1>4, <2>1
<1>5. CASE Retry!RateLimited
  <2>1. Retry!Runs /\ attempts' = attempts + 1 /\ rowStatus' = "retrying"
    BY <1>5 DEF Retry!RateLimited
  <2>2. PICK t \in Retry!RunTimes, err \in {"limited", "error"} :
          next' = t.written + RateLimitBackoff /\ Retry!Reschedule(t.returned, err)
    BY <1>5 DEF Retry!RateLimited
  <2>3. next' \in Nat /\ next' >= due + RateLimitBackoff
    BY <1>0, <2>2, RunTimed
  <2> QED BY <1>4, <2>1, <2>2, <2>3
<1>6. CASE Retry!ClaimFails
  <2>1. Retry!Runs /\ UNCHANGED <<rowStatus, attempts, next>>
    BY <1>6 DEF Retry!ClaimFails
  <2>2. PICK t \in Retry!RunTimes : Retry!Reschedule(t.returned, "error")
    BY <1>6 DEF Retry!ClaimFails
  <2>3. t.returned \in Nat /\ t.returned <= due + MaxWait
    BY <1>0, RunTimed
  <2>4. ASSUME ~archived', rowStatus' = "retrying" PROVE due' <= next' + Lag(retried')
    <3>1. /\ retried < MaxRetry /\ retried' = retried + 1 /\ due' \in Nat
          /\ due' <= due + Retry!BackoffFor(retried) + Spread
      BY <2>1, <2>2, <2>3, <2>4, Rescheduled
    <3>2. retried >= 1 /\ due <= next + Lag(retried)
      BY <2>1, <2>4 DEF RetryInv
    <3>3. /\ retried \in 1 .. (MaxRetry - 1) /\ retried \in 1 .. MaxRetry
          /\ retried \in 0 .. (MaxAttempts + MaxRetry)
      BY <1>0, <3>1, <3>2
    <3>4. /\ Lag(retried) \in Nat /\ Retry!BackoffFor(retried) \in Nat /\ Spread \in Nat
          /\ Lag(retried + 1) = Lag(retried) + Retry!BackoffFor(retried) + Spread
      BY <3>3, Lags, Backoffs DEF Spread
    <3> QED BY <1>0, <2>1, <3>1, <3>2, <3>4
  <2>5. rowStatus' \in {"queued", "retrying"} /\ next' \in Nat
    BY <1>0, <2>1 DEF Retry!Runs
  <2> QED BY <1>3, <2>1, <2>2, <2>4, <2>5
<1>7. CASE Retry!TransientFailure
  <2>0. Retry!Runs /\ attempts' = attempts + 1
    BY <1>7 DEF Retry!TransientFailure
  <2>1. CASE attempts + 1 >= MaxAttempts
    <3>1. rowStatus' = "settled" /\ UNCHANGED <<next, due, retried, archived>>
      BY <1>7, <2>1 DEF Retry!TransientFailure
    <3>2. attempts' \in 0 .. (MaxAttempts + MaxRetry) /\ attempts' <= retried' + 1
      BY <1>0, <2>0, <3>1
    <3> QED BY <1>0, <2>0, <3>1, <3>2 DEF RetryInv, Retry!TypeOK, Retry!Runs
  <2>2. CASE ~(attempts + 1 >= MaxAttempts)
    <3>1. rowStatus' = "retrying"
      BY <1>7, <2>2 DEF Retry!TransientFailure
    <3>2. PICK t \in Retry!RunTimes : /\ next' = t.written + Retry!BackoffFor(attempts + 1)
                                      /\ Retry!Reschedule(t.returned, "transient")
      BY <1>7, <2>2 DEF Retry!TransientFailure
    <3>3. attempts + 1 \in 0 .. (MaxAttempts + MaxRetry)
      BY <1>0, <2>2
    <3>4. Retry!BackoffFor(attempts + 1) \in Nat
          /\ Retry!BackoffFor(attempts + 1) >= BackoffBase
      BY <3>3, Backoffs
    <3>5. t.written \in Nat /\ t.written >= due
      BY <1>0, RunTimed
    <3>6. next' \in Nat /\ next' >= due + RateLimitBackoff
      BY <1>0, <3>2, <3>4, <3>5
    <3> QED BY <1>4, <2>0, <3>1, <3>2, <3>6
  <2> QED BY <2>1, <2>2
<1> QED
  BY <1>1, <1>2, <1>5, <1>6, <1>7 DEF Retry!Next

-----------------------------------------------------------------------------
(***************************************************************************)
(* The backlog                                                             *)
(***************************************************************************)

\* A nonempty set of numbers has a least one.
LEMMA LeastNumber ==
    ASSUME NEW N \in SUBSET Nat, N # {}
    PROVE  \E m \in N : \A n \in N : m <= n
<1> DEFINE R == OpToRel(<, Nat)
<1>1. IsWellFoundedOn(R, Nat)
  BY NatLessThanWellFounded, Zenon
<1>2. PICK m \in N : \A n \in N : <<n, m>> \notin R
  <2> HIDE DEF R
  <2> QED BY <1>1, WFMin
<1>3. \A n \in N : ~(n < m)
  BY <1>2 DEF OpToRel
<1> QED BY <1>3

\* A finite set of numbers has a greatest one: the one with the fewest above it.
LEMMA GreatestNumber ==
    ASSUME NEW T \in SUBSET Nat, IsFiniteSet(T), T # {}
    PROVE  \E m \in T : \A n \in T : n <= m
<1> DEFINE above(r) == {x \in T : x > r}
           N == {Cardinality(above(r)) : r \in T}
<1>1. \A r : IsFiniteSet(above(r)) /\ Cardinality(above(r)) \in Nat
  <2> TAKE r
  <2>1. above(r) \in SUBSET T
    OBVIOUS
  <2> HIDE DEF above
  <2> QED BY <2>1, FS_Subset, FS_CardinalityType
<1>2. PICK m \in T : \A r \in T : Cardinality(above(m)) <= Cardinality(above(r))
  <2>1. N \in SUBSET Nat /\ N # {}
    BY <1>1
  <2>2. PICK k \in N : \A n \in N : k <= n
    <3> HIDE DEF N
    <3> QED BY <2>1, LeastNumber
  <2>3. PICK m \in T : k = Cardinality(above(m))
    BY <2>2
  <2>4. \A r \in T : Cardinality(above(r)) \in N
    OBVIOUS
  <2> QED
    <3> HIDE DEF N, above
    <3> QED BY <2>2, <2>3, <2>4
<1>3. ASSUME NEW n \in T, n > m PROVE FALSE
  <2>1. above(n) \in SUBSET above(m) /\ n \in above(m) /\ n \notin above(n)
    <3>1. n \in Nat /\ m \in Nat
      OBVIOUS
    <3>2. \A x \in T : x > n => x > m
      BY <1>3, <3>1
    <3>3. ~(n > n)
      BY <3>1
    <3>4. above(n) \in SUBSET above(m)
      BY <3>2
    <3> QED BY <1>3, <3>3, <3>4
  <2>2. Cardinality(above(n)) <= Cardinality(above(m))
        /\ (Cardinality(above(m)) = Cardinality(above(n)) => above(m) = above(n))
    <3> HIDE DEF above
    <3> QED BY <1>1, <2>1, FS_Subset
  <2>3. Cardinality(above(m)) <= Cardinality(above(n))
    BY <1>2
  <2>4. Cardinality(above(m)) = Cardinality(above(n))
    <3> HIDE DEF above
    <3> QED BY <1>1, <2>2, <2>3
  <2> QED
    <3> HIDE DEF above
    <3> QED BY <2>1, <2>2, <2>4
<1> QED BY <1>3

\* Module Sweeps counts as FiniteSets does.
LEMMA SweepsCount ==
    \A S : /\ Backlog!IsFiniteSet(S) <=> IsFiniteSet(S)
           /\ Backlog!Cardinality(S) = Cardinality(S)
<1>1. ASSUME NEW S PROVE Backlog!IsFiniteSet(S) <=> IsFiniteSet(S)
  BY DEF Backlog!IsFiniteSet, IsFiniteSet
<1>2. ASSUME NEW S PROVE Backlog!Cardinality(S) = Cardinality(S)
  BY DEF Backlog!Cardinality, Cardinality
<1> QED BY <1>1, <1>2

LEMMA SweepsNumbers ==
    ASSUME BackgroundAssumption
    PROVE  /\ Rows \subseteq Nat /\ IsFiniteSet(Rows)
           /\ BatchSize \in Nat /\ BatchSize > 0 /\ MaxFaults \in Nat
  BY SweepsCount DEF BackgroundAssumption, Backlog!SweepsAssumption

\* LIMIT: the oldest rows of a set are at most a batch.
LEMMA PageFits ==
    ASSUME BackgroundAssumption, NEW rows \in SUBSET Rows
    PROVE  Backlog!Oldest(rows) \in SUBSET Rows /\ Cardinality(Backlog!Oldest(rows)) <= BatchSize
<1>0. Rows \subseteq Nat /\ IsFiniteSet(Rows) /\ BatchSize \in Nat /\ BatchSize > 0
  BY SweepsNumbers
<1> DEFINE T == Backlog!Oldest(rows)
           older(r) == {o \in rows : o < r}
<1>1. T \in SUBSET rows /\ \A r \in T : Cardinality(older(r)) < BatchSize
  <2>1. T = {r \in rows : Cardinality(older(r)) < BatchSize}
    BY SweepsCount DEF Backlog!Oldest
  <2> HIDE DEF T, older
  <2> QED BY <2>1
<1>2. IsFiniteSet(rows) /\ IsFiniteSet(T) /\ Cardinality(T) \in Nat
  <2> HIDE DEF T
  <2>1. IsFiniteSet(rows)
    BY <1>0, FS_Subset
  <2> QED BY <1>1, <2>1, FS_Subset, FS_CardinalityType
<1>3. CASE T = {}
  <2> HIDE DEF T
  <2>1. Cardinality(T) = 0
    BY <1>3, FS_EmptySet
  <2>2. Cardinality(T) <= BatchSize
    BY <1>0, <2>1
  <2> QED BY <1>1, <2>2 DEF T
<1>4. CASE T # {}
  <2>0. T \in SUBSET Nat
    BY <1>0, <1>1
  <2>1. PICK m \in T : \A n \in T : n <= m
    <3> HIDE DEF T
    <3> QED BY <1>2, <1>4, <2>0, GreatestNumber
  <2>2. T \ {m} \in SUBSET older(m)
    BY <1>1, <2>0, <2>1
  <2>3. older(m) \in SUBSET rows
    OBVIOUS
  <2> HIDE DEF T, older
  <2>4. IsFiniteSet(older(m)) /\ Cardinality(older(m)) \in Nat
    BY <1>2, <2>3, FS_Subset, FS_CardinalityType
  <2>5. Cardinality(T \ {m}) = Cardinality(T) - 1
    BY <1>2, FS_RemoveElement
  <2>6. Cardinality(T \ {m}) <= Cardinality(older(m))
    BY <2>2, <2>4, FS_Subset
  <2>7. Cardinality(older(m)) < BatchSize
    BY <1>1
  <2>8. Cardinality(T) <= BatchSize
    BY <1>0, <1>2, <2>4, <2>5, <2>6, <2>7
  <2> QED BY <1>1, <2>8 DEF T
<1> QED BY <1>3, <1>4

BacklogInv == Backlog!TypeOK /\ pass \in [sweep : 0 .. 4, todo : SUBSET Rows]

LEMMA BacklogInit == BackgroundAssumption /\ Init => BacklogInv
<1> SUFFICES ASSUME BackgroundAssumption, Init PROVE BacklogInv
  OBVIOUS
<1>1. pass = [sweep |-> 0, todo |-> {}] /\ faults = 0
      /\ status \in [Rows -> Backlog!Statuses] /\ task \in [Rows -> Backlog!Tasks]
  BY DEF Init, Backlog!Init, Backlog!Idle
<1>2. BatchSize \in Nat /\ MaxFaults \in Nat
  BY SweepsNumbers
<1>3. Cardinality({}) = 0
  BY FS_EmptySet
<1>4. pass \in [sweep : 0 .. 4, todo : SUBSET Rows] /\ Backlog!Cardinality(pass.todo) = 0
  BY <1>1, <1>3, SweepsCount
<1> QED BY <1>1, <1>2, <1>4 DEF BacklogInv, Backlog!TypeOK

\* The pass after a step: as it was, idle, a page of a sweep, or the page
\* without a row of it.
PassMoves ==
    \/ pass' = pass
    \/ pass' = Backlog!Idle
    \/ \E k \in 1 .. 4 : pass' = [sweep |-> k, todo |-> Backlog!PageOf(k)]
    \/ \E r : pass' = [pass EXCEPT !.todo = @ \ {r}]

LEMMA PassTyped ==
    ASSUME BackgroundAssumption, BacklogInv, PassMoves
    PROVE  /\ pass' \in [sweep : 0 .. 4, todo : SUBSET Rows]
           /\ Backlog!Cardinality(pass'.todo) <= BatchSize
<1>0. IsFiniteSet(Rows) /\ BatchSize \in Nat /\ BatchSize > 0
  BY SweepsNumbers
<1>t. /\ pass \in [sweep : 0 .. 4, todo : SUBSET Rows]
      /\ Cardinality(pass.todo) <= BatchSize
  BY SweepsCount DEF BacklogInv, Backlog!TypeOK
<1>1. CASE pass' = pass
  BY <1>t, <1>1, SweepsCount
<1>2. CASE pass' = Backlog!Idle
  <2>1. pass' = [sweep |-> 0, todo |-> {}]
    BY <1>2 DEF Backlog!Idle
  <2>2. Cardinality({}) = 0
    BY FS_EmptySet
  <2>3. pass'.todo = {} /\ pass' \in [sweep : 0 .. 4, todo : SUBSET Rows]
    BY <2>1
  <2> QED BY <1>0, <2>2, <2>3, SweepsCount
<1>3. ASSUME NEW k \in 1 .. 4, pass' = [sweep |-> k, todo |-> Backlog!PageOf(k)]
      PROVE  /\ pass' \in [sweep : 0 .. 4, todo : SUBSET Rows]
             /\ Cardinality(pass'.todo) <= BatchSize
  <2>1. PICK rows \in SUBSET Rows : Backlog!PageOf(k) = Backlog!Oldest(rows)
    <3> DEFINE with(st) == {r \in Rows : status[r] = st}
    <3>1. k = 1 \/ k = 2 \/ k = 3 \/ k = 4
      OBVIOUS
    <3>2. Backlog!PageOf(k) \in {Backlog!Oldest(with("pending")),
              Backlog!Oldest(with("processing")), Backlog!Oldest(with("retrying")),
              Backlog!Oldest(with("queued"))}
      BY <3>1 DEF Backlog!PageOf, Backlog!FindOrphanedPending, Backlog!FindStuckProcessing,
                  Backlog!FindOverdueRetrying, Backlog!FindStuckQueued
    <3>3. \A st : with(st) \in SUBSET Rows
      OBVIOUS
    <3> HIDE DEF with
    <3> QED BY <3>2, <3>3
  <2>2. Backlog!PageOf(k) \in SUBSET Rows /\ Cardinality(Backlog!PageOf(k)) <= BatchSize
    BY <2>1, PageFits
  <2> QED BY <1>3, <2>2
<1>4. ASSUME NEW r, pass' = [pass EXCEPT !.todo = @ \ {r}]
      PROVE  /\ pass' \in [sweep : 0 .. 4, todo : SUBSET Rows]
             /\ Cardinality(pass'.todo) <= BatchSize
  <2>1. /\ pass' \in [sweep : 0 .. 4, todo : SUBSET Rows]
        /\ pass.todo \in SUBSET Rows /\ pass'.todo = pass.todo \ {r}
    BY <1>t, <1>4
  <2>2. IsFiniteSet(pass.todo)
    BY <1>0, <2>1, FS_Subset
  <2>3. /\ Cardinality(pass'.todo) <= Cardinality(pass.todo)
        /\ Cardinality(pass'.todo) \in Nat /\ Cardinality(pass.todo) \in Nat
    <3>1. pass'.todo \in SUBSET pass.todo
      BY <2>1
    <3> QED BY <2>2, <3>1, FS_Subset, FS_CardinalityType
  <2> QED BY <1>0, <1>t, <2>1, <2>3
<1> QED BY <1>1, <1>2, <1>3, <1>4, SweepsCount DEF PassMoves

LEMMA BacklogNext ==
    ASSUME BackgroundAssumption, BacklogInv, UNCHANGED backlogVars \/ Backlog!Next
    PROVE  BacklogInv'
<1>0. /\ status \in [Rows -> Backlog!Statuses] /\ task \in [Rows -> Backlog!Tasks]
      /\ pass \in [sweep : 0 .. 4, todo : SUBSET Rows]
      /\ faults \in 0 .. MaxFaults /\ MaxFaults \in Nat
  BY SweepsNumbers DEF BacklogInv, Backlog!TypeOK
<1>1. ASSUME PassMoves, status' \in [Rows -> Backlog!Statuses],
             task' \in [Rows -> Backlog!Tasks], faults' \in 0 .. MaxFaults
      PROVE  BacklogInv'
  BY <1>1, PassTyped DEF BacklogInv, Backlog!TypeOK, Backlog!Statuses
<1>2. CASE UNCHANGED backlogVars
  BY <1>2 DEF backlogVars, BacklogInv, Backlog!TypeOK
<1>3. CASE Backlog!Begin
  <2>1. pass' = [sweep |-> 1, todo |-> Backlog!PageOf(1)]
        /\ UNCHANGED <<status, task, faults>>
    BY <1>3 DEF Backlog!Begin
  <2>2. PassMoves
    BY <2>1 DEF PassMoves
  <2> QED BY <1>0, <1>1, <2>1, <2>2
<1>4. CASE Backlog!NextSweep
  <2>1. /\ pass.sweep > 0
        /\ pass' = IF pass.sweep = 4 THEN Backlog!Idle
                   ELSE [sweep |-> pass.sweep + 1, todo |-> Backlog!PageOf(pass.sweep + 1)]
        /\ UNCHANGED <<status, task, faults>>
    BY <1>4 DEF Backlog!NextSweep, Backlog!AllSwept
  <2>2. pass.sweep # 4 => pass.sweep + 1 \in 1 .. 4
    BY <1>0, <2>1
  <2>3. PassMoves
    BY <2>1, <2>2 DEF PassMoves
  <2> QED BY <1>0, <1>1, <2>1, <2>3
<1>5. ASSUME NEW r, Backlog!Enqueue(r), r = Backlog!Foremost
      PROVE  PassMoves /\ task' \in [Rows -> Backlog!Tasks]
  BY <1>0, <1>5 DEF Backlog!Enqueue, Backlog!Aborted, Backlog!Handled, Backlog!Tasks, PassMoves
<1>6. \A r : /\ [status EXCEPT ![r] = "queued"] \in [Rows -> Backlog!Statuses]
             /\ [status EXCEPT ![r] = "settled"] \in [Rows -> Backlog!Statuses]
             /\ \A st \in {"processing", "retrying"} :
                  [status EXCEPT ![r] = st] \in [Rows -> Backlog!Statuses]
             /\ \A tk \in {"none", "archived"} :
                  [task EXCEPT ![r] = tk] \in [Rows -> Backlog!Tasks]
  BY <1>0 DEF Backlog!Statuses, Backlog!Tasks
<1>7. CASE Backlog!HandleOrphanedPending
  <2>1. CASE Backlog!Enqueue(Backlog!Foremost)
             /\ status' = [status EXCEPT ![Backlog!Foremost] = "queued"]
    BY <1>0, <1>1, <1>5, <1>6, <1>7, <2>1 DEF Backlog!HandleOrphanedPending
  <2>2. CASE pass' = Backlog!Aborted /\ UNCHANGED <<status, task>>
    BY <1>0, <1>1, <1>7, <2>2 DEF Backlog!HandleOrphanedPending, Backlog!Aborted, PassMoves
  <2> QED BY <1>7, <2>1, <2>2 DEF Backlog!HandleOrphanedPending
<1>8. CASE Backlog!HandleStuckProcessing
  <2>1. UNCHANGED <<task, faults>>
    BY <1>8 DEF Backlog!HandleStuckProcessing
  <2>2. status' \in [Rows -> Backlog!Statuses] /\ PassMoves
    BY <1>0, <1>6, <1>8 DEF Backlog!HandleStuckProcessing, Backlog!Aborted, Backlog!Handled,
       PassMoves
  <2> QED BY <1>0, <1>1, <2>1, <2>2
<1>9. CASE Backlog!HandleReenqueue
  BY <1>0, <1>1, <1>5, <1>9 DEF Backlog!HandleReenqueue
<1>10. CASE Backlog!PassFails
  <2>1. faults' \in 0 .. MaxFaults /\ UNCHANGED <<status, task>>
    BY <1>0, <1>10 DEF Backlog!PassFails
  <2>2. PassMoves
    BY <1>10 DEF Backlog!PassFails, Backlog!Aborted, PassMoves
  <2> QED BY <1>0, <1>1, <2>1, <2>2
<1>11. ASSUME NEW r \in Rows, Backlog!Consume(r) \/ Backlog!Archive(r) \/ Backlog!LoseTask(r)
       PROVE  BacklogInv'
  <2>1. pass' = pass
        /\ (task' = [task EXCEPT ![r] = "none"] \/ task' = [task EXCEPT ![r] = "archived"])
    BY <1>11 DEF Backlog!Consume, Backlog!Archive, Backlog!LoseTask
  <2>2. faults' \in 0 .. MaxFaults
    BY <1>0, <1>11 DEF Backlog!Consume, Backlog!Archive, Backlog!LoseTask
  <2>3. status' \in [Rows -> Backlog!Statuses]
    BY <1>0, <1>6, <1>11 DEF Backlog!Consume, Backlog!Archive, Backlog!LoseTask
  <2>4. task' \in [Rows -> Backlog!Tasks]
    BY <1>6, <2>1
  <2> QED BY <1>1, <2>1, <2>2, <2>3, <2>4 DEF PassMoves
<1>12. ASSUME NEW r \in Rows, Backlog!Retries(r) \/ Backlog!Strands(r)
       PROVE  BacklogInv'
  <2>1. UNCHANGED <<task, pass>>
    BY <1>12 DEF Backlog!Retries, Backlog!Strands
  <2>2. faults' \in 0 .. MaxFaults
    BY <1>0, <1>12 DEF Backlog!Retries, Backlog!Strands
  <2>3. status' \in [Rows -> Backlog!Statuses]
    BY <1>6, <1>12 DEF Backlog!Retries, Backlog!Strands
  <2> QED BY <1>0, <1>1, <2>1, <2>2, <2>3 DEF PassMoves
<1> QED
  BY <1>2, <1>3, <1>4, <1>7, <1>8, <1>9, <1>10, <1>11, <1>12
     DEF Backlog!Next, Backlog!Pass, Backlog!Dequeue

-----------------------------------------------------------------------------
(***************************************************************************)
(* The processes                                                           *)
(***************************************************************************)

\* The invariant of the process in focus; out of focus the API's, of which the
\* state is an initial one.
ProcessInv ==
    /\ focus \notin {"worker", "reconciler"} => Api!DrainInv
    /\ focus = "worker" => Worker!ProcessTypes
    /\ focus = "reconciler" => Reconciler!DrainInv

LEMMA ProcessInit == BackgroundAssumption /\ Init => ProcessInv
<1> SUFFICES ASSUME BackgroundAssumption, Init PROVE ProcessInv
  OBVIOUS
<1>1. Api!Init
  BY DEF Init
<1>2. Worker!Init /\ Reconciler!Init
  BY <1>1 DEF Api!Init, Worker!Init, Reconciler!Init, Api!Knobs, Worker!Knobs,
     Reconciler!Knobs, Api!Values, Worker!Values, Reconciler!Values, Api!Environments,
     Worker!Environments, Reconciler!Environments
<1>3. Api!BinaryAssumption /\ Worker!BinaryAssumption /\ Reconciler!BinaryAssumption
  BY DEF BackgroundAssumption
<1> QED
  BY <1>1, <1>2, <1>3, Api!DrainInit, Worker!TypesInit, Reconciler!DrainInit DEF ProcessInv

LEMMA ProcessNext ==
    ASSUME BackgroundAssumption, ProcessInv, [Next]_vars
    PROVE  ProcessInv'
<1>0. Api!BinaryAssumption /\ Worker!BinaryAssumption /\ Reconciler!BinaryAssumption
  BY DEF BackgroundAssumption
<1>1. focus' = focus
  BY StepOfFocus
<1>2. ASSUME focus \notin {"worker", "reconciler"} PROVE Api!DrainInv'
  <2>1. Api!Next \/ UNCHANGED Api!vars
    BY <1>2, StepOfFocus DEF processVars, Api!vars
  <2>2. Api!DrainInv
    BY <1>2 DEF ProcessInv
  <2> QED BY <1>0, <2>1, <2>2, Api!DrainNext
<1>3. ASSUME focus = "worker" PROVE Worker!ProcessTypes'
  <2>1. Worker!Next \/ UNCHANGED Worker!vars
    BY <1>3, StepOfFocus DEF processVars, Worker!vars
  <2>2. Worker!ProcessTypes
    BY <1>3 DEF ProcessInv
  <2> QED BY <1>0, <2>1, <2>2, Worker!TypesNext
<1>4. ASSUME focus = "reconciler" PROVE Reconciler!DrainInv'
  <2>1. Reconciler!Next \/ UNCHANGED Reconciler!vars
    BY <1>4, StepOfFocus DEF processVars, Reconciler!vars
  <2>2. Reconciler!DrainInv
    BY <1>4 DEF ProcessInv
  <2> QED BY <1>0, <2>1, <2>2, Reconciler!DrainNext
<1> QED
  BY <1>1, <1>2, <1>3, <1>4 DEF ProcessInv

-----------------------------------------------------------------------------
(***************************************************************************)
(* Together                                                                *)
(***************************************************************************)

BackgroundInv == LimiterInv /\ BreakerInv /\ RetryInv /\ BacklogInv /\ ProcessInv

LEMMA Invariance == Spec => []BackgroundInv
<1> USE BackgroundAssumption, PowersOfTwo
<1>1. Init => BackgroundInv
  BY LimiterInit, BreakerInit, RetryInit, BacklogInit, ProcessInit DEF BackgroundInv
<1>2. BackgroundInv /\ [Next]_vars => BackgroundInv'
  BY LimiterNext, BreakerStep, RetryNext, BacklogNext, ProcessNext, StepOfFocus
     DEF BackgroundInv
<1> QED
  BY <1>1, <1>2, PTL DEF Spec

\* Every component's state stays well formed: the counter and its key go
\* together, no page is longer than the batch, no task has more retries than
\* MaxRetry, and a process holds what it has acquired in the order of run().
THEOREM BackgroundTypes == Spec => []TypeOK
<1>1. BackgroundInv => TypeOK
  BY DEF BackgroundInv, LimiterInv, LimiterTypes, BreakerInv, RetryInv, BacklogInv,
     ProcessInv, TypeOK, Api!DrainInv, Reconciler!DrainInv, Api!ProcessTypes,
     Worker!ProcessTypes, Reconciler!ProcessTypes
<1> QED
  BY <1>1, Invariance, PTL

\* A client that waits as long as Retry-After says outlasts the window that
\* refused it, for every window, limit and length of a second.
THEOREM WaitIsEnough == Spec => []WaitOutlastsWindow
<1>1. BackgroundInv => WaitOutlastsWindow
  BY DEF BackgroundInv, LimiterInv, LimiterTypes, Outbound!TypeOK, WaitsForKey,
     WaitOutlastsWindow, Inbound!WaitOutlastsWindow
<1> QED
  BY <1>1, Invariance, PTL

\* However calls, refusals and failures of Redis fall, a stretch as long as the
\* window admits at most twice the limit by the counter, and in the worker
\* twice the limit altogether.
THEOREM AtMostTwice == Spec => []TwiceTheLimit
<1>1. BackgroundInv => TwiceTheLimit
  <2> SUFFICES ASSUME BackgroundInv PROVE TwiceTheLimit
    OBVIOUS
  <2> USE BackgroundAssumption, LimiterNumbers
  <2>0. /\ admitted \in [Outbound!Ages -> Nat] /\ unmetered \in [Outbound!Ages -> Nat]
        /\ ttl \in -1 .. Window /\ Budget
        /\ focus # "inbound" => unmetered[Window - 1] = 0
    BY DEF BackgroundInv, LimiterInv, LimiterTypes, Outbound!TypeOK
  <2>1. Began \in Outbound!Ages \/ ttl = -1
    BY <2>0 DEF Began
  <2>2. admitted[Window - 1] - unmetered[Window - 1] <= 2 * Limit
    BY <2>0, <2>1, SMTT(30) DEF Budget, Outbound!Metered
  <2>3. focus # "inbound" => admitted[Window - 1] <= 2 * Limit
    BY <2>0, <2>2
  <2> QED BY <2>2, <2>3 DEF TwiceTheLimit, Inbound!TwiceTheLimit, Outbound!TwiceTheLimit,
             Inbound!Metered, Outbound!Metered
<1> QED
  BY <1>1, Invariance, PTL

\* MaxFailures transient results of calls that the current window began open the
\* breaker, and nothing else does, with any number of workers and late results.
THEOREM OpensOnBurst == Spec => OpensOnTransientBurst
<1> USE BackgroundAssumption
<1>1. BackgroundInv /\ [Next]_vars =>
        [state = "closed" /\ state' = "open" =>
           /\ seen + 1 >= MaxFailures
           /\ \E w \in Workers : call[w] = "current" /\ call'[w] = "none"]_(Breaker!vars)
  BY BreakerStep, StepOfFocus DEF BackgroundInv
<1>2. BackgroundInv => seen < MaxFailures
  BY DEF BackgroundInv, BreakerInv, Breaker!TypeOK, BackgroundAssumption,
     Breaker!BreakerAssumption
<1> QED
  BY <1>1, <1>2, Invariance, PTL
     DEF Spec, OpensOnTransientBurst, Breaker!OpensOnTransientBurst

\* Only the result of its probe ends the half-open state.
THEOREM ProbeEndsHalfOpen == Spec => ProbeDecides
<1> USE BackgroundAssumption
<1>1. BackgroundInv /\ [Next]_vars =>
        [state = "halfopen" /\ state' # "halfopen" =>
           \E w \in probe : call[w] = "current" /\ call'[w] = "none"]_(Breaker!vars)
  BY BreakerStep, StepOfFocus DEF BackgroundInv
<1> QED
  BY <1>1, Invariance, PTL DEF Spec, ProbeDecides, Breaker!ProbeDecides

\* The overdue sweep leaves a row alone whose task has a retry to spare, when the
\* threshold covers the greatest lag before the last retry: as the 600 seconds of
\* the code cover 505, with waits of up to 30 seconds.  The last retry's own lag is
\* 624 seconds without any waiting, which they do not cover (run overdue).
THEOREM SweepsAfterTask ==
    ASSUME Lag(MaxRetry - 1) + MaxWait <= OverdueThreshold
    PROVE  Spec => []SweepWaitsForTask
<1>1. BackgroundInv => SweepWaitsForTask
  <2> SUFFICES ASSUME BackgroundInv, Retry!Runs, rowStatus = "retrying", retried < MaxRetry
               PROVE  due + MaxWait <= next + OverdueThreshold
    BY DEF SweepWaitsForTask, Retry!SweepWaitsForTask
  <2>1. retried >= 1 /\ due <= next + Lag(retried) /\ retried \in 0 .. MaxRetry
        /\ due \in Nat /\ next \in Nat
    BY DEF BackgroundInv, RetryInv, Retry!TypeOK
  <2>2. /\ OverdueThreshold \in Nat /\ MaxWait \in Nat
        /\ MaxRetry - 1 \in 1 .. MaxRetry /\ retried \in 1 .. MaxRetry
        /\ retried <= MaxRetry - 1
    BY <2>1, BackgroundAssumption, RetryNumbers
  <2>3. Lag(retried) \in Nat /\ Lag(MaxRetry - 1) \in Nat /\ Lag(retried) <= Lag(MaxRetry - 1)
    BY <2>2, BackgroundAssumption, PowersOfTwo, Lags
  <2> QED BY <2>1, <2>2, <2>3
<1> QED
  BY <1>1, Invariance, PTL

\* The API and the reconciler end their work before they close the pool, unless
\* the time for draining is over or the server failed.
THEOREM DrainsFirst == Spec => []DrainedBeforeClose
<1>1. BackgroundInv => DrainedBeforeClose
  BY Api!DrainInvImplies, Reconciler!DrainInvImplies
     DEF BackgroundInv, ProcessInv, DrainedBeforeClose
<1> QED
  BY <1>1, Invariance, PTL
=============================================================================
