---------------------------- MODULE ProcessProofs ----------------------------
(***************************************************************************)
(* The three binaries from start to exit, for any number of requests,      *)
(* tasks or passes: their state is well formed, and the API and the        *)
(* reconciler close nothing that work in progress still needs.             *)
(***************************************************************************)
EXTENDS Process, SequenceTheorems, TLAPS

\* The resources held are the first ones of the set-up.
HeldInOrder == \E k \in 0 .. Len(Setup) : held = SubSeq(Setup, 1, k)

ProcessTypes == TypeOK /\ HeldInOrder

\* How far run() has come, against the server and those who wait for it.
StagesAgree ==
    /\ stage \in {"loading", "starting"} => server = "new"
    /\ stage = "serving" => server = "running"
    /\ stage = "draining" => server \in {"closing", "closed"} /\ waiter = "main"
    /\ stage \in {"closing", "exited"} => server \in {"new", "closed", "failed"}
    /\ stage \in {"serving", "draining"} => held = Setup

\* Work is accepted by a running server only, and a closed one has none left,
\* unless it gave up; so none of it meets a closed pool.
WorkAgrees ==
    /\ server = "new" => \A w \in Items : item[w] = "idle"
    /\ ~GaveUp => /\ server = "closed" => Busy = {}
                  /\ \A w \in Items : item[w] # "broken"

DrainInv == ProcessTypes /\ StagesAgree /\ WorkAgrees

-----------------------------------------------------------------------------
(* What run() acquires *)

Resources == {"signals", "tracing", "pool", "redis", "queue", "consumer", "metrics",
              "depths", "ticker"}

LEMMA SetupIsSeq ==
    ASSUME BinaryAssumption
    PROVE  /\ Setup \in Seq(Resources) /\ Len(Setup) = 6
           /\ Setup[3] = "pool"
  <1>1. CASE Binary = "api"
    <2>1. Setup = ApiSetup
      BY <1>1 DEF Setup
    <2>2. /\ ApiSetup \in Seq(Resources) /\ Len(ApiSetup) = 6 /\ ApiSetup[3] = "pool"
      BY DEF ApiSetup, Resources
    <2> QED BY <2>1, <2>2
  <1>2. CASE Binary = "worker"
    <2>1. Setup = WorkerSetup
      BY <1>2 DEF Setup
    <2>2. /\ WorkerSetup \in Seq(Resources) /\ Len(WorkerSetup) = 6 /\ WorkerSetup[3] = "pool"
      BY DEF WorkerSetup, Resources
    <2> QED BY <2>1, <2>2
  <1>3. CASE Binary = "reconciler"
    <2>1. Setup = ReconcilerSetup
      BY <1>3 DEF Setup
    <2>2. /\ ReconcilerSetup \in Seq(Resources) /\ Len(ReconcilerSetup) = 6 /\ ReconcilerSetup[3] = "pool"
      BY DEF ReconcilerSetup, Resources
    <2> QED BY <2>1, <2>2
  <1> QED BY <1>1, <1>2, <1>3 DEF BinaryAssumption

LEMMA PrefixFacts ==
    ASSUME BinaryAssumption, NEW k \in 0 .. Len(Setup)
    PROVE  /\ SubSeq(Setup, 1, k) \in Seq(Resources)
           /\ Len(SubSeq(Setup, 1, k)) = k
           /\ \A i \in 1 .. k : SubSeq(Setup, 1, k)[i] = Setup[i]
  <1>1. \A i \in 1 .. k : Setup[i] \in Resources
    BY SetupIsSeq, ElementOfSeq
  <1> QED BY <1>1, SetupIsSeq, SubSeqProperties

\* One more resource makes a longer prefix, one less a shorter one.
LEMMA PrefixGrows ==
    ASSUME BinaryAssumption, NEW k \in 0 .. Len(Setup), k < Len(Setup)
    PROVE  Append(SubSeq(Setup, 1, k), Setup[k + 1]) = SubSeq(Setup, 1, k + 1)
  <1>1. SubSeq(Setup, 1, k + 1) = SubSeq(Setup, 1, k) \o << Setup[k + 1] >>
    BY SetupIsSeq, SubSeqRecursiveSecond
  <1>2. Setup[k + 1] \in Resources
    BY SetupIsSeq, ElementOfSeq
  <1> QED BY <1>1, <1>2, PrefixFacts, AppendIsConcat

LEMMA PrefixShrinks ==
    ASSUME BinaryAssumption, NEW k \in 0 .. Len(Setup), k > 0
    PROVE  SubSeq(SubSeq(Setup, 1, k), 1, k - 1) = SubSeq(Setup, 1, k - 1)
  <1> DEFINE s == SubSeq(Setup, 1, k)
             l == SubSeq(s, 1, k - 1)
             r == SubSeq(Setup, 1, k - 1)
  <1>0. k \in Nat /\ k <= 6 /\ Len(Setup) = 6
    <2>1. Len(Setup) = 6
      BY SetupIsSeq
    <2>2. k \in 0 .. 6
      BY <2>1
    <2> QED BY <2>1, <2>2
  <1>1. /\ s \in Seq(Resources) /\ Len(s) = k
        /\ \A i \in 1 .. k : s[i] = Setup[i] /\ s[i] \in Resources
    <2>1. s \in Seq(Resources) /\ Len(s) = k /\ \A i \in 1 .. k : s[i] = Setup[i]
      BY PrefixFacts
    <2> HIDE DEF s
    <2> QED BY <2>1, ElementOfSeq
  <1>2. /\ r \in Seq(Resources) /\ Len(r) = k - 1 /\ \A i \in 1 .. (k - 1) : r[i] = Setup[i]
    BY <1>0, PrefixFacts
  <1> HIDE DEF s
  <1>3. /\ l \in Seq(Resources) /\ Len(l) = (IF 1 <= k - 1 THEN k - 1 - 1 + 1 ELSE 0)
        /\ \A i \in 1 .. (k - 1) - 1 + 1 : l[i] = s[1 + i - 1]
    BY <1>0, <1>1, SubSeqProperties
  <1> HIDE DEF l, r
  <1>4. \A i \in 1 .. (k - 1) : l[i] = r[i]
    BY <1>0, <1>1, <1>2, <1>3
  <1>5. l = r
    BY <1>0, <1>2, <1>3, <1>4, SeqEqual
  <1> QED BY <1>5 DEF l, r, s

-----------------------------------------------------------------------------
(* Types *)

LEMMA TypesInit == BinaryAssumption /\ Init => ProcessTypes
  <1> SUFFICES ASSUME BinaryAssumption, Init PROVE ProcessTypes
    OBVIOUS
  <1>1. Len(Setup) = 6 /\ SubSeq(Setup, 1, 0) = << >> /\ Len(<< >>) = 0
    BY SetupIsSeq, SubSeqEmpty
  <1> QED BY <1>1 DEF Init, ProcessTypes, TypeOK, HeldInOrder

\* The part of the state that Acquire and Release leave alone.
LEMMA TypesFrame ==
    ASSUME ProcessTypes, Next, held' = held
    PROVE  ProcessTypes'
  <1>1. HeldInOrder' /\ Len(held') <= Len(Setup) /\ held' = SubSeq(Setup, 1, Len(held'))
    BY DEF ProcessTypes, TypeOK, HeldInOrder
  <1>2. env' = env
    BY DEF Next, Main, LoadConfig, Acquire, AcquireFails, Serve, ServeFails, MainShutsDown,
       ShutdownReturns, Release, Exit, RunShutsDown, Drained, DrainExpires, Signal, Accept,
       Work, Query, Answered, Finish
  <1>3. /\ stage' \in {"loading", "starting", "serving", "draining", "closing", "exited"}
        /\ server' \in {"new", "running", "closing", "closed", "failed"}
        /\ code' \in 0 .. 2
    <2>1. stage' \in {stage, "starting", "serving", "draining", "closing", "exited"}
      BY DEF Next, Main, LoadConfig, Acquire, AcquireFails, Serve, ServeFails,
         MainShutsDown, ShutdownReturns, Release, Exit, RunShutsDown, Drained,
         DrainExpires, Signal, Accept, Work, Query, Answered, Finish
    <2>2. server' \in {server, "running", "closing", "closed", "failed"}
      BY DEF Next, Main, LoadConfig, Acquire, AcquireFails, Serve, ServeFails,
         MainShutsDown, ShutdownReturns, Release, Exit, RunShutsDown, Drained,
         DrainExpires, Signal, Accept, Work, Query, Answered, Finish, Shutdown
    <2>3. code' \in {code, 1, 2}
      BY DEF Next, Main, LoadConfig, Acquire, AcquireFails, Serve, ServeFails,
         MainShutsDown, ShutdownReturns, Release, Exit, RunShutsDown, Drained,
         DrainExpires, Signal, Accept, Work, Query, Answered, Finish
    <2> QED BY <2>1, <2>2, <2>3 DEF ProcessTypes, TypeOK
  <1>4. item' \in [Items -> {"idle", "running", "querying", "done", "broken"}]
    <2> DEFINE States == {"idle", "running", "querying", "done", "broken"}
    <2>0. item \in [Items -> States]
      BY DEF ProcessTypes, TypeOK
    <2>1. ASSUME item' = item PROVE item' \in [Items -> States]
      BY <2>0, <2>1
    <2>2. ASSUME NEW w \in Items, NEW s \in States, item' = [item EXCEPT ![w] = s]
          PROVE  item' \in [Items -> States]
      BY <2>0, <2>2
    <2>4. ASSUME NEW w \in Items, Accept(w) \/ Work(w)
          PROVE  \E s \in States : item' = [item EXCEPT ![w] = s]
      BY <2>4 DEF Accept, Work, Query, Answered, Finish
    <2>5. ASSUME Main \/ RunShutsDown \/ Drained \/ DrainExpires \/ Signal
          PROVE  item' = item
      BY <2>5 DEF Main, LoadConfig, Acquire, AcquireFails, Serve, ServeFails,
         MainShutsDown, ShutdownReturns, Release, Exit, RunShutsDown, Drained,
         DrainExpires, Signal
    <2> HIDE DEF States
    <2>6. item' \in [Items -> States]
      BY <2>1, <2>2, <2>4, <2>5 DEF Next
    <2> QED BY <2>6 DEF States
  <1> QED BY <1>1, <1>2, <1>3, <1>4 DEF ProcessTypes, TypeOK

LEMMA TypesNext == BinaryAssumption /\ ProcessTypes /\ [Next]_vars => ProcessTypes'
  <1> SUFFICES ASSUME BinaryAssumption, ProcessTypes, [Next]_vars PROVE ProcessTypes'
    OBVIOUS
  <1>0. PICK k \in 0 .. Len(Setup) : held = SubSeq(Setup, 1, k)
    BY DEF ProcessTypes, HeldInOrder
  <1>1. Len(held) = k /\ held \in Seq(Resources) /\ k \in Nat /\ Len(Setup) = 6
    BY <1>0, PrefixFacts, SetupIsSeq
  <1>2. ASSUME NEW j \in 0 .. Len(Setup), held' = SubSeq(Setup, 1, j), Acquire \/ Release
        PROVE  ProcessTypes'
    <2>1. Len(held') = j
      BY <1>2, PrefixFacts
    <2>2. Len(held') <= Len(Setup) /\ held' = SubSeq(Setup, 1, Len(held'))
      BY <1>1, <1>2, <2>1
    <2>3. HeldInOrder'
      BY <1>2 DEF HeldInOrder
    <2>4. /\ UNCHANGED <<env, item, server>>
          /\ stage' \in {stage, "closing"} /\ code' \in {code, 2}
      BY <1>2 DEF Acquire, Release
    <2> QED BY <2>2, <2>3, <2>4 DEF ProcessTypes, TypeOK
  <1>3. CASE Acquire
    <2>1. CASE held' = held
      BY <1>3, <2>1, TypesFrame DEF Next, Main
    <2>2. CASE held' # held
      <3>1. held' = Append(held, Setup[Len(held) + 1]) /\ k < Len(Setup)
        BY <1>1, <1>3, <2>2 DEF Acquire
      <3>2. held' = SubSeq(Setup, 1, k + 1)
        BY <1>0, <1>1, <3>1, PrefixGrows
      <3> QED BY <1>1, <1>2, <1>3, <3>1, <3>2, SMTT(20)
    <2> QED BY <2>1, <2>2
  <1>4. CASE Release
    <2>1. held' = SubSeq(held, 1, k - 1) /\ k > 0
      BY <1>1, <1>4, EmptySeq DEF Release
    <2>2. held' = SubSeq(Setup, 1, k - 1)
      BY <1>0, <2>1, PrefixShrinks
    <2> QED BY <1>1, <1>2, <1>4, <2>1, <2>2
  <1>5. CASE Next /\ ~Acquire /\ ~Release
    <2>1. held' = held
      BY <1>5 DEF Next, Main, LoadConfig, AcquireFails, Serve, ServeFails, MainShutsDown,
         ShutdownReturns, Exit, RunShutsDown, Drained, DrainExpires, Signal, Accept, Work,
         Query, Answered, Finish
    <2> QED BY <1>5, <2>1, TypesFrame
  <1>6. CASE UNCHANGED vars
    BY <1>6 DEF vars, ProcessTypes, TypeOK, HeldInOrder
  <1> QED BY <1>3, <1>4, <1>5, <1>6

-----------------------------------------------------------------------------
(* Draining *)

LEMMA DrainInit == BinaryAssumption /\ Init => DrainInv
  BY TypesInit DEF Init, DrainInv, StagesAgree, WorkAgrees, Busy, GaveUp

\* The API waits for its server, the reconciler for its pass; nobody else shuts
\* them down.
LEMMA StagesNext ==
    ASSUME BinaryAssumption, Binary # "worker", DrainInv, Next
    PROVE  StagesAgree'
  <1>1. Len(held) = Len(Setup) => held = Setup
    <2>1. SubSeq(Setup, 1, Len(Setup)) = Setup
      BY SetupIsSeq, SubSeqFull
    <2> QED BY <2>1 DEF DrainInv, ProcessTypes, TypeOK
  <1> USE DEF StagesAgree
  <1>2. CASE Main
    BY <1>1, <1>2 DEF DrainInv, BinaryAssumption, Main, LoadConfig, Acquire, AcquireFails,
       Serve, ServeFails, MainShutsDown, ShutdownReturns, Release, Exit, Shutdown
  <1>3. CASE ~Main
    BY <1>3 DEF DrainInv, Next, RunShutsDown, Drained, DrainExpires, Signal, Accept, Work,
       Query, Answered, Finish
  <1> QED BY <1>2, <1>3

\* Work in progress finds the pool open.
LEMMA PoolOpenForWork ==
    ASSUME BinaryAssumption, Binary # "worker", DrainInv, ~GaveUp, Busy # {}
    PROVE  PoolOpen
  <1>1. server \notin {"new", "closed", "failed"}
    BY DEF DrainInv, WorkAgrees, Busy, GaveUp
  <1>2. stage \in {"serving", "draining"}
    BY <1>1 DEF DrainInv, StagesAgree, ProcessTypes, TypeOK
  <1>3. held = Setup
    BY <1>2 DEF DrainInv, StagesAgree
  <1>4. 3 \in DOMAIN held /\ held[3] = "pool"
    BY <1>3, SetupIsSeq, LenProperties
  <1> QED BY <1>2, <1>4 DEF PoolOpen, Holds

LEMMA WorkNext ==
    ASSUME BinaryAssumption, Binary # "worker", DrainInv, Next
    PROVE  WorkAgrees'
  <1>0. item \in [Items -> {"idle", "running", "querying", "done", "broken"}]
    BY DEF DrainInv, ProcessTypes, TypeOK
  <1>1. CASE Main
    <2>1. item' = item /\ expired' = expired
      BY <1>1 DEF Main, LoadConfig, Acquire, AcquireFails, Serve, ServeFails, MainShutsDown,
         ShutdownReturns, Release, Exit
    <2>2. server' = "new" => server = "new"
      BY <1>1 DEF Main, LoadConfig, Acquire, AcquireFails, Serve, ServeFails, MainShutsDown,
         ShutdownReturns, Release, Exit, Shutdown
    <2>3. server' = "closed" => server = "closed" \/ Busy = {}
      BY <1>1 DEF Main, LoadConfig, Acquire, AcquireFails, Serve, ServeFails, MainShutsDown,
         ShutdownReturns, Release, Exit, Shutdown
    <2>4. server = "failed" => server' = "failed"
      BY <1>1 DEF DrainInv, StagesAgree, BinaryAssumption, Main, LoadConfig, Acquire,
         AcquireFails, Serve, ServeFails, MainShutsDown, ShutdownReturns, Release, Exit,
         Shutdown
    <2> QED BY <2>1, <2>2, <2>3, <2>4 DEF DrainInv, WorkAgrees, Busy, GaveUp
  <1>2. CASE RunShutsDown \/ Signal
    BY <1>2 DEF RunShutsDown, Signal, Shutdown, DrainInv, WorkAgrees, Busy, GaveUp
  <1>3. CASE Drained \/ DrainExpires
    BY <1>3 DEF Drained, DrainExpires, DrainInv, WorkAgrees, Busy, GaveUp
  <1>4. ASSUME NEW w \in Items, Accept(w) PROVE WorkAgrees'
    BY <1>0, <1>4 DEF Accept, DrainInv, WorkAgrees, Busy, GaveUp
  <1>5. ASSUME NEW w \in Items, Work(w) PROVE WorkAgrees'
    <2>1. w \in Busy /\ server' = server /\ expired' = expired
      BY <1>5 DEF Work, Query, Answered, Finish, Busy
    <2>2. \A v \in Items : v # w => item'[v] = item[v]
      BY <1>0, <1>5 DEF Work, Query, Answered, Finish
    <2>3. server # "new"
      BY <2>1 DEF DrainInv, WorkAgrees, Busy
    <2>4. ASSUME ~GaveUp PROVE item'[w] # "broken" /\ server # "closed"
      <3>1. PoolOpen
        BY <2>1, <2>4, PoolOpenForWork
      <3>2. server # "closed"
        BY <2>1, <2>4 DEF DrainInv, WorkAgrees
      <3> QED BY <1>0, <1>5, <3>1, <3>2 DEF Work, Query, Answered, Finish
    <2> QED BY <2>1, <2>2, <2>3, <2>4 DEF DrainInv, WorkAgrees, GaveUp
  <1> QED BY <1>1, <1>2, <1>3, <1>4, <1>5 DEF Next

LEMMA DrainNext == BinaryAssumption /\ Binary # "worker" /\ DrainInv /\ [Next]_vars => DrainInv'
  <1> SUFFICES ASSUME BinaryAssumption, Binary # "worker", DrainInv, [Next]_vars
               PROVE  DrainInv'
    OBVIOUS
  <1>1. ProcessTypes'
    BY TypesNext DEF DrainInv
  <1>2. CASE Next
    BY <1>1, <1>2, StagesNext, WorkNext DEF DrainInv
  <1>3. CASE UNCHANGED vars
    BY <1>1, <1>3 DEF vars, DrainInv, StagesAgree, WorkAgrees, Busy, GaveUp
  <1> QED BY <1>2, <1>3

LEMMA DrainInvImplies == DrainInv => DrainedBeforeClose
  <1> SUFFICES ASSUME DrainInv, ~GaveUp
               PROVE  /\ \A w \in Items : item[w] # "broken"
                      /\ stage \in {"closing", "exited"} => Busy = {}
    BY DEF DrainedBeforeClose, PoolOutlivesWork
  <1>1. stage \in {"closing", "exited"} => server \in {"new", "closed"}
    BY DEF DrainInv, StagesAgree, GaveUp
  <1> QED BY <1>1 DEF DrainInv, WorkAgrees, Busy

\* The API and the reconciler end the work they have accepted, with the pool
\* open, before they let go of it, unless the time for draining is over.
THEOREM DrainInvariance ==
    ASSUME BinaryAssumption, Binary # "worker"
    PROVE  Init /\ [][Next]_vars => []DrainedBeforeClose
  <1>1. Init => DrainInv
    BY DrainInit
  <1>2. DrainInv /\ [Next]_vars => DrainInv'
    BY DrainNext
  <1> QED BY <1>1, <1>2, DrainInvImplies, PTL
=============================================================================
