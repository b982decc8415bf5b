------------------------- MODULE LlmGateway_proofs -------------------------
(***************************************************************************)
(* LlmGateway for any endpoints, requests and agents: slots are accounted  *)
(* for, no endpoint is overloaded, no client sees two answers, and the     *)
(* relay keeps nothing for ever.                                           *)
(***************************************************************************)
EXTENDS LlmGateway, FiniteSetTheorems, TLAPS

-----------------------------------------------------------------------------
(* Types *)

LesseeType == [step : Steps, slot : Endpoints \cup {NoEndpoint}, pool : Pools,
               tried : SUBSET Endpoints]
WithSlot == {"call", "streamed", "record", "retry", "committed"}

\* Who has or has just had a slot knows its endpoint, and a job has failed when
\* its last attempt has.
TypeInv ==
  /\ TypeOK
  /\ \A l \in Lessees : Step(l) \in WithSlot => lessee[l].slot \in Endpoints
  /\ \A j \in Jobs : Step(j) # "failed" => attempts[j] < MaxAttempts

\* A lessee becomes x, the others stay.
Becomes(l, x) == lessee' = [lessee EXCEPT ![l] = x]

LEMMA NoPoolTyped == NoPool \in Pools /\ DOMAIN NoPool = {}
<1>1. NoPool \in [{} -> Concurrencies] /\ DOMAIN NoPool = {}
  BY DEF NoPool
<1>2. {} \in SUBSET Endpoints
  OBVIOUS
<1> QED
  BY <1>1, <1>2 DEF Pools

LEMMA AtTyped ==
  ASSUME NEW s \in Steps
  PROVE  At(s) \in LesseeType /\ At(s).step = s /\ At(s).pool = NoPool
<1> QED
  BY NoPoolTyped DEF At, LesseeType

LEMMA PoolTyped ==
  ASSUME TypeInv, NEW p
  PROVE  /\ Pool(p) \in Pools
         /\ \A e \in DOMAIN Pool(p) : e \in Endpoints /\ Pool(p)[e] = concurrency[e]
<1> DEFINE S == {f \in enabled : p \in Serves[f]}
<1>1. S \in SUBSET Endpoints
  BY DEF TypeInv, TypeOK
<1>2. Pool(p) = [e \in S |-> concurrency[e]]
  BY DEF Pool
<1> HIDE DEF S
<1>3. Pool(p) \in [S -> Concurrencies]
  BY <1>1, <1>2 DEF TypeInv, TypeOK
<1> QED
  BY <1>1, <1>2, <1>3 DEF Pools

-----------------------------------------------------------------------------
(* What a step does to the lessees *)

Holding == {"call", "streamed", "record"}

\* A lessee moves on, and takes or gives back a slot as it does so.
Moves(l) ==
  \E x \in LesseeType :
    /\ Becomes(l, x)
    /\ x.pool \in {NoPool, lessee[l].pool, Pool(Purpose(l))}
    /\ x.step \in WithSlot => x.slot \in Endpoints
    /\ Step(l) # "failed"
    /\ \/ Step(l) \notin Holding /\ x.step \notin Holding /\ inUse' = inUse
       \/ /\ Step(l) \notin Holding /\ x.step = "call" /\ x.slot \in Free(l)
          /\ inUse' = [inUse EXCEPT ![x.slot] = @ + 1]
       \/ /\ Step(l) \in Holding /\ x.step \in Holding /\ x.slot = lessee[l].slot
          /\ inUse' = inUse
       \/ /\ Step(l) \in Holding /\ x.step \notin Holding
          /\ inUse' = Released(lessee[l].slot)

\* A lessee starts over at a step without a slot.
LEMMA AtMoves ==
  ASSUME TypeInv, NEW l \in Lessees, NEW s \in Steps \ WithSlot, Becomes(l, At(s)),
         Step(l) # "failed",
         \/ Step(l) \notin Holding /\ inUse' = inUse
         \/ Step(l) \in Holding /\ inUse' = Released(lessee[l].slot)
  PROVE  Moves(l)
<1> QED
  BY AtTyped DEF Moves, Holding, WithSlot

\* A lessee that keeps its slot, or has just lost it, goes on.
LEMMA StepMoves ==
  ASSUME TypeInv, NEW l \in Lessees, NEW s \in WithSlot, s # "call",
         lessee' = [lessee EXCEPT ![l].step = s], Step(l) \in WithSlot,
         \/ Step(l) \in Holding /\ s \in Holding /\ inUse' = inUse
         \/ Step(l) \in Holding /\ s \notin Holding /\ inUse' = Released(lessee[l].slot)
  PROVE  Moves(l)
<1> DEFINE x == [lessee[l] EXCEPT !.step = s]
<1>1. lessee[l] \in LesseeType
  BY DEF TypeInv, TypeOK, LesseeType
<1>2. /\ x \in LesseeType /\ x.step = s /\ x.slot = lessee[l].slot
      /\ x.pool = lessee[l].pool
  BY <1>1 DEF LesseeType, WithSlot, Steps
<1>3. Becomes(l, x)
  BY Zenon DEF Becomes
<1>4. x.slot \in Endpoints /\ Step(l) # "failed"
  BY <1>2 DEF TypeInv, WithSlot
<1> HIDE DEF x
<1> QED
  BY <1>2, <1>3, <1>4 DEF Moves

LEMMA ListMoves ==
  ASSUME TypeInv, NEW l \in Lessees, ListPool(l)
  PROVE  Moves(l)
<1> DEFINE x == [lessee[l] EXCEPT !.step = "choose", !.pool = Pool(Purpose(l))]
<1>1. lessee[l] \in LesseeType /\ Pool(Purpose(l)) \in Pools
  BY PoolTyped DEF TypeInv, TypeOK, LesseeType
<1>2. x \in LesseeType /\ x.step = "choose" /\ x.pool = Pool(Purpose(l))
  BY <1>1 DEF LesseeType, Steps
<1>3. Becomes(l, x)
  BY Zenon DEF Becomes, ListPool
<1>4. inUse' = inUse /\ Step(l) = "list"
  BY DEF ListPool, poolVars
<1> HIDE DEF x
<1> QED
  BY <1>2, <1>3, <1>4 DEF Moves, WithSlot, Holding

LEMMA AcquireMoves ==
  ASSUME TypeInv, NEW l \in Lessees, Acquire(l)
  PROVE  Moves(l)
<1>1. PICK e \in Endpoints :
        /\ IsFirst(e, Free(l))
        /\ inUse' = [inUse EXCEPT ![e] = @ + 1]
        /\ lessee' = [lessee EXCEPT ![l].step = "call", ![l].slot = e, ![l].pool = NoPool]
  BY DEF Acquire, Take
<1> DEFINE x == [lessee[l] EXCEPT !.step = "call", !.slot = e, !.pool = NoPool]
<1>2. lessee[l] \in LesseeType
  BY DEF TypeInv, TypeOK, LesseeType
<1>3. x \in LesseeType /\ x.step = "call" /\ x.slot = e /\ x.pool = NoPool
  BY <1>2, NoPoolTyped DEF LesseeType, Steps
<1>4. Becomes(l, x)
  BY <1>1, Zenon DEF Becomes
<1>5. Step(l) = "choose" /\ e \in Free(l)
  BY <1>1 DEF Acquire, IsFirst
<1> HIDE DEF x
<1> QED
  BY <1>1, <1>3, <1>4, <1>5 DEF Moves, Holding

\* The steps of a worker at a job other than looking for an endpoint.
LEMMA WorkMoves ==
  ASSUME TypeInv, NEW j \in Jobs,
         \/ TakeJob(j) \/ Delay(j) \/ NoEndpointFree(j) \/ DelayOver(j) \/ AllFailed(j)
         \/ CallSucceeds(j) \/ CallFails(j) \/ Recorded(j) \/ FailureRecorded(j) \/ Streams(j)
  PROVE  Moves(j)
<1>0. j \in Lessees /\ lessee[j] \in LesseeType
  BY DEF Lessees, TypeInv, TypeOK, LesseeType
<1>1. CASE TakeJob(j) \/ DelayOver(j)
  BY <1>0, <1>1, AtMoves DEF TakeJob, DelayOver, Becomes, poolVars, Steps, WithSlot, Holding
<1>2. CASE Delay(j)
  BY <1>0, <1>2, AtMoves DEF Delay, Becomes, poolVars, Steps, WithSlot, Holding
<1>3. CASE NoEndpointFree(j) \/ AllFailed(j)
  BY <1>0, <1>3, AtMoves DEF NoEndpointFree, AllFailed, Over, Becomes, poolVars, Steps, WithSlot, Holding
<1>4. CASE CallSucceeds(j)
  BY <1>0, <1>4, StepMoves DEF CallSucceeds, WithSlot, Holding
<1>5. CASE CallFails(j)
  <2>1. CASE Step(j) = "call"
    BY <1>0, <1>5, <2>1, StepMoves DEF CallFails, WithSlot, Holding, Step
  <2>2. CASE Step(j) = "streamed"
    BY <1>0, <1>5, <2>2, StepMoves DEF CallFails, WithSlot, Holding, Step
  <2> QED
    BY <1>5, <2>1, <2>2 DEF CallFails
<1>6. CASE Recorded(j)
  BY <1>0, <1>6, AtMoves DEF Recorded, Over, Becomes, Steps, WithSlot, Holding
<1>7. CASE FailureRecorded(j)
  <2>1. inUse' = inUse /\ Step(j) \in {"retry", "committed"}
    BY <1>7 DEF FailureRecorded, Retriable, poolVars
  <2>2. CASE Over(j)
    BY <1>0, <2>1, <2>2, AtMoves DEF Over, Becomes, Steps, WithSlot, Holding
  <2>3. CASE Retriable(j) /\ lessee' = [lessee EXCEPT ![j] = [At("list") EXCEPT
                                              !.tried = lessee[j].tried \cup {lessee[j].slot}]]
    <3> DEFINE x == [At("list") EXCEPT !.tried = lessee[j].tried \cup {lessee[j].slot}]
    <3>1. At("list") \in LesseeType /\ At("list").step = "list" /\ At("list").pool = NoPool
      BY AtTyped DEF Steps
    <3>2. lessee[j].slot \in Endpoints
      BY <1>0, <2>1 DEF TypeInv, WithSlot
    <3>3. x \in LesseeType /\ x.step = "list" /\ x.pool = NoPool
      BY <1>0, <3>1, <3>2 DEF LesseeType
    <3>4. Becomes(j, x)
      BY <2>3, Zenon DEF Becomes
    <3> HIDE DEF x
    <3> QED
      BY <1>0, <2>1, <3>3, <3>4 DEF Moves, Holding, WithSlot
  <2> QED
    BY <1>7, <2>2, <2>3 DEF FailureRecorded
<1>8. CASE Streams(j)
  BY <1>0, <1>8, StepMoves DEF Streams, WithSlot, Holding, poolVars
<1> QED
  BY <1>1, <1>2, <1>3, <1>4, <1>5, <1>6, <1>7, <1>8

LEMMA AgentMoves ==
  ASSUME TypeInv, NEW a \in Agents,
         StartAgent(a) \/ AgentQueryFails(a) \/ AgentWaits(a) \/ AgentGivesUp(a) \/ AgentEnds(a)
  PROVE  Moves(a)
<1>0. a \in Lessees
  BY DEF Lessees
<1> QED
  BY <1>0, AtMoves DEF StartAgent, AgentQueryFails, AgentWaits, AgentGivesUp, AgentEnds, Over, Becomes, poolVars, Steps,
     WithSlot, Holding

\* Every step leaves the lessees alone, moves one, or is a restart.
LEMMA NextMoves ==
  ASSUME TypeInv, [Next]_vars
  PROVE  \/ lessee' = lessee /\ inUse' = inUse
         \/ \E l \in Lessees : Moves(l)
         \/ Restart
<1>1. Jobs \subseteq Lessees /\ Agents \subseteq Lessees
  BY DEF Lessees
<1>2. ASSUME NEW j \in Jobs, Work(j) \/ Streams(j)
      PROVE  Moves(j)
  BY <1>1, <1>2, WorkMoves, ListMoves, AcquireMoves DEF Work, Serve, Return
<1>3. ASSUME NEW j \in Jobs, Request(j)
      PROVE  Moves(j)
  BY <1>1, <1>3, AtMoves DEF Request, Becomes, poolVars, Steps, WithSlot, Holding
<1>4. ASSUME NEW j \in Jobs, QueryFails(j)
      PROVE  Moves(j)
  BY <1>1, <1>4, AtMoves DEF QueryFails, Becomes, poolVars, Steps, WithSlot, Holding
<1>5. ASSUME NEW a \in Agents, Agent(a)
      PROVE  Moves(a)
  BY <1>1, <1>5, AgentMoves, ListMoves, AcquireMoves DEF Agent
<1>6. ASSUME \/ \E j \in Jobs : Wait(j) \/ \E kind \in {"end", "cancel"} : CleanUp(j, kind)
             \/ \E e \in Endpoints : CircuitCloses(e)
             \/ Change \/ UNCHANGED vars
      PROVE  lessee' = lessee /\ inUse' = inUse
  BY <1>6 DEF Wait, Answer, GiveUp, CleanUp, CircuitCloses, Change, vars, poolVars
<1> QED
  BY <1>1, <1>2, <1>3, <1>4, <1>5, <1>6 DEF Next

LEMMA RestartLessees ==
  ASSUME TypeInv, Restart
  PROVE  /\ lessee' \in [Lessees -> LesseeType]
         /\ \A l \in Lessees :
              /\ Step(l)' \notin WithSlot
              /\ lessee'[l].pool \in {NoPool, lessee[l].pool}
              /\ Step(l) = "failed" <=> Step(l)' = "failed"
<1>1. \A l \in Lessees : lessee[l] \in LesseeType /\ Step(l) \in Steps
  BY DEF TypeInv, TypeOK, LesseeType, Step
<1>2. ASSUME NEW l \in Lessees
      PROVE  \/ lessee'[l] = lessee[l] /\ Step(l) \in {"none", "over", "failed", "delayed"}
             \/ /\ lessee'[l] = At("over") \/ lessee'[l] = At("queued")
                /\ Step(l) \notin {"none", "over", "failed", "delayed"}
  BY <1>2 DEF Restart
<1>3. /\ At("over") \in LesseeType /\ At("over").step = "over" /\ At("over").pool = NoPool
      /\ At("queued") \in LesseeType /\ At("queued").step = "queued" /\ At("queued").pool = NoPool
  BY AtTyped DEF Steps
<1>4. ASSUME NEW l \in Lessees
      PROVE  /\ lessee'[l] \in LesseeType /\ Step(l)' \notin WithSlot
             /\ lessee'[l].pool \in {NoPool, lessee[l].pool}
             /\ Step(l) = "failed" <=> Step(l)' = "failed"
  BY <1>1, <1>2, <1>3 DEF Step, WithSlot
<1>5. lessee' = [l \in Lessees |-> lessee'[l]]
  BY DEF Restart
<1> QED
  BY <1>4, <1>5

\* The circuits count below the threshold.
LEMMA CircuitsTyped ==
  ASSUME TypeInv, NEW e \in Endpoints
  PROVE  /\ Success(e) \in [Endpoints -> [failures : 0..(Threshold - 1), open : BOOLEAN]]
         /\ Failure(e) \in [Endpoints -> [failures : 0..(Threshold - 1), open : BOOLEAN]]
<1> DEFINE C == [failures : 0..(Threshold - 1), open : BOOLEAN]
<1>1. circuit \in [Endpoints -> C] /\ circuit[e] \in C /\ Threshold \in Nat \ {0}
  BY BoundsAssumption DEF TypeInv, TypeOK
<1>2. [failures |-> 0, open |-> FALSE] \in C /\ [failures |-> 0, open |-> TRUE] \in C
  BY <1>1
<1>3. circuit[e].failures + 1 < Threshold =>
        [failures |-> circuit[e].failures + 1, open |-> circuit[e].open] \in C
  BY <1>1
<1>4. circuit[e].failures \in Nat
  BY <1>1
<1> HIDE DEF C
<1>5. Success(e) \in [Endpoints -> C]
  BY <1>1, <1>2 DEF Success
<1>6. Failure(e) \in [Endpoints -> C]
  BY <1>1, <1>2, <1>3, <1>4 DEF Failure
<1> QED
  BY <1>5, <1>6 DEF C

LEMMA ReleasedTyped ==
  ASSUME TypeInv, NEW e \in Endpoints
  PROVE  Released(e) \in [Endpoints -> Nat]
<1>1. inUse \in [Endpoints -> Nat] /\ inUse[e] \in Nat
  BY DEF TypeInv, TypeOK
<1>2. (IF inUse[e] > 0 THEN inUse[e] - 1 ELSE inUse[e]) \in Nat
  BY <1>1
<1> QED
  BY <1>1, <1>2 DEF Released

\* The lessees stay typed.
LEMMA LesseesTyped ==
  ASSUME TypeInv, [Next]_vars
  PROVE  /\ lessee' \in [Lessees -> LesseeType] /\ inUse' \in [Endpoints -> Nat]
         /\ \A l \in Lessees : Step(l)' \in WithSlot => lessee'[l].slot \in Endpoints
<1>0. /\ lessee \in [Lessees -> LesseeType] /\ inUse \in [Endpoints -> Nat]
      /\ \A l \in Lessees : Step(l) \in WithSlot => lessee[l].slot \in Endpoints
  BY DEF TypeInv, TypeOK, LesseeType
<1>1. CASE lessee' = lessee /\ inUse' = inUse
  BY <1>0, <1>1 DEF Step
<1>2. ASSUME NEW l \in Lessees, Moves(l)
      PROVE  /\ lessee' \in [Lessees -> LesseeType] /\ inUse' \in [Endpoints -> Nat]
             /\ \A k \in Lessees : Step(k)' \in WithSlot => lessee'[k].slot \in Endpoints
  <2>1. PICK x \in LesseeType :
          /\ Becomes(l, x) /\ (x.step \in WithSlot => x.slot \in Endpoints)
          /\ \/ inUse' = inUse
             \/ x.step = "call" /\ inUse' = [inUse EXCEPT ![x.slot] = @ + 1]
             \/ Step(l) \in Holding /\ inUse' = Released(lessee[l].slot)
    BY <1>2 DEF Moves
  <2>2. inUse' \in [Endpoints -> Nat]
    BY <1>0, <2>1, ReleasedTyped DEF WithSlot, Holding
  <2>3. \A k \in Lessees : lessee'[k] = IF k = l THEN x ELSE lessee[k]
    BY <1>0, <2>1 DEF Becomes
  <2>4. lessee' \in [Lessees -> LesseeType]
    BY <1>0, <2>1 DEF Becomes
  <2> QED
    BY <1>0, <2>1, <2>2, <2>3, <2>4 DEF Step
<1>3. CASE Restart
  BY <1>0, <1>3, RestartLessees DEF Restart
<1> QED
  BY <1>1, <1>2, <1>3, NextMoves

\* A job that has failed has not moved.
LEMMA FailedStay ==
  ASSUME TypeInv, [Next]_vars, NEW j \in Jobs, Step(j)' # "failed"
  PROVE  Step(j) # "failed"
<1>0. j \in Lessees /\ lessee \in [Lessees -> LesseeType]
  BY DEF Lessees, TypeInv, TypeOK, LesseeType
<1>1. CASE lessee' = lessee
  BY <1>1 DEF Step
<1>2. ASSUME NEW l \in Lessees, Moves(l)
      PROVE  Step(j) # "failed"
  BY <1>0, <1>2 DEF Moves, Becomes, Step
<1>3. CASE Restart
  BY <1>0, <1>3, RestartLessees
<1> QED
  BY <1>1, <1>2, <1>3, NextMoves

LEMMA AttemptsTyped ==
  ASSUME TypeInv, [Next]_vars
  PROVE  /\ attempts' \in [Jobs -> 0..MaxAttempts]
         /\ \A j \in Jobs : Step(j)' # "failed" => attempts'[j] < MaxAttempts
<1>0. /\ attempts \in [Jobs -> 0..MaxAttempts] /\ MaxAttempts \in Nat
      /\ \A j \in Jobs : Step(j) # "failed" => attempts[j] < MaxAttempts
  BY BoundsAssumption DEF TypeInv, TypeOK
<1>1. CASE attempts' = attempts
  BY <1>0, <1>1, FailedStay
<1>2. ASSUME NEW j \in Jobs, QueryFails(j)
      PROVE  /\ attempts' \in [Jobs -> 0..MaxAttempts]
             /\ \A k \in Jobs : Step(k)' # "failed" => attempts'[k] < MaxAttempts
  <2>1. Step(j) = "list" /\ attempts[j] \in Nat /\ attempts[j] < MaxAttempts
    BY <1>0, <1>2 DEF QueryFails
  <2>2. attempts' = [attempts EXCEPT ![j] = attempts[j] + 1]
    BY <1>2 DEF QueryFails
  <2>3. attempts' \in [Jobs -> 0..MaxAttempts]
    BY <1>0, <2>1, <2>2
  <2>4. Step(j)' # "failed" => attempts[j] + 1 < MaxAttempts
    <3>1. lessee' = [lessee EXCEPT ![j] = At(IF attempts[j] + 1 < MaxAttempts THEN "queued"
                                             ELSE "failed")]
      BY <1>2 DEF QueryFails
    <3>2. At("failed").step = "failed" /\ j \in Lessees /\ lessee \in [Lessees -> LesseeType]
      BY AtTyped DEF Steps, Lessees, TypeInv, TypeOK, LesseeType
    <3> QED
      BY <3>1, <3>2 DEF Step
  <2> QED
    BY <1>0, <2>1, <2>2, <2>3, <2>4, FailedStay
<1>3. attempts' = attempts \/ \E j \in Jobs : QueryFails(j)
  BY DEF Next, vars, Work, Serve, Return, Wait, Agent, TakeJob, ListPool, Acquire, Delay, NoEndpointFree, DelayOver,
     AllFailed, CallSucceeds, CallFails, Recorded, FailureRecorded, Answer, GiveUp, Request, Streams,
     CleanUp, StartAgent, AgentQueryFails, AgentWaits, AgentGivesUp, AgentEnds, CircuitCloses, Change, Restart
<1> QED
  BY <1>1, <1>2, <1>3

LEMMA EndpointsTyped ==
  ASSUME TypeInv, [Next]_vars
  PROVE  /\ enabled' \subseteq Endpoints /\ concurrency' \in [Endpoints -> Concurrencies]
         /\ highest' \in [Endpoints -> Concurrencies] /\ faults' \in 0..MaxFaults
         /\ circuit' \in [Endpoints -> [failures : 0..(Threshold - 1), open : BOOLEAN]]
<1> DEFINE C == [Endpoints -> [failures : 0..(Threshold - 1), open : BOOLEAN]]
<1>0. /\ enabled \subseteq Endpoints /\ concurrency \in [Endpoints -> Concurrencies]
      /\ highest \in [Endpoints -> Concurrencies] /\ faults \in 0..MaxFaults /\ MaxFaults \in Nat
      /\ circuit \in C /\ Threshold \in Nat \ {0} /\ Concurrencies \subseteq Nat
  BY BoundsAssumption DEF TypeInv, TypeOK
<1>1. CASE Change
  BY <1>0, <1>1 DEF Change, poolVars
<1>2. CASE Restart
  BY <1>0, <1>2 DEF Restart, endpointVars
<1>3. ASSUME NEW j \in Jobs, CallSucceeds(j) \/ CallFails(j)
      PROVE  circuit' \in C /\ UNCHANGED <<endpointVars, faults>>
  <2>1. lessee[j].slot \in Endpoints
    BY <1>3 DEF CallSucceeds, CallFails, TypeInv, WithSlot, Lessees
  <2> QED
    BY <1>3, <2>1, CircuitsTyped DEF CallSucceeds, CallFails
<1>4. ASSUME NEW a \in Agents, AgentEnds(a)
      PROVE  circuit' \in C /\ UNCHANGED <<endpointVars, faults>>
  <2>1. lessee[a].slot \in Endpoints
    BY <1>4 DEF AgentEnds, TypeInv, WithSlot, Lessees
  <2> QED
    BY <1>4, <2>1, CircuitsTyped DEF AgentEnds
<1>5. ASSUME NEW e \in Endpoints, CircuitCloses(e)
      PROVE  circuit' \in C /\ UNCHANGED <<endpointVars, faults>>
  BY <1>0, <1>5 DEF CircuitCloses
<1>6. \/ UNCHANGED <<circuit, endpointVars, faults>>
      \/ Change \/ Restart
      \/ \E j \in Jobs : CallSucceeds(j) \/ CallFails(j)
      \/ \E a \in Agents : AgentEnds(a)
      \/ \E e \in Endpoints : CircuitCloses(e)
  BY DEF Next, vars, Work, Serve, Return, Wait, Agent, TakeJob, ListPool, Acquire, Delay, NoEndpointFree, DelayOver,
     AllFailed, Recorded, FailureRecorded, Answer, GiveUp, Request, Streams, QueryFails,
     CleanUp, StartAgent, AgentQueryFails, AgentWaits, AgentGivesUp, poolVars
<1> QED
  BY <1>0, <1>1, <1>2, <1>3, <1>4, <1>5, <1>6 DEF endpointVars

RelayTyped ==
  /\ client \in [Jobs -> {"none", "waiting", "ended"}]
  /\ subject \in [Jobs -> {"absent", "open", "complete"}]
  /\ answered \cup cancelled \subseteq Jobs /\ timers \subseteq Jobs \X {"end", "cancel"}
  /\ sources \in [Jobs -> SUBSET Endpoints]

LEMMA RelayStaysTyped ==
  ASSUME TypeInv, [Next]_vars
  PROVE  RelayTyped'
<1>0. RelayTyped
  BY DEF TypeInv, TypeOK, RelayTyped
<1>1. ASSUME NEW j \in Jobs, PublishEnd(j), client' = client
      PROVE  RelayTyped'
  BY <1>0, <1>1 DEF PublishEnd, RelayTyped
<1>2. ASSUME NEW j \in Jobs, Streams(j)
      PROVE  RelayTyped'
  <2>1. lessee[j].slot \in Endpoints /\ client' = client
    BY <1>2 DEF Streams, TypeInv, WithSlot, Lessees
  <2> QED
    BY <1>0, <1>2, <2>1 DEF Streams, PublishOutput, RelayTyped
<1>3. ASSUME NEW j \in Jobs, Answer(j)
      PROVE  RelayTyped'
  BY <1>0, <1>3 DEF Answer, Leave, Cancel, RelayTyped
<1>4. ASSUME NEW j \in Jobs, GiveUp(j)
      PROVE  RelayTyped'
  BY <1>0, <1>4 DEF GiveUp, Leave, Cancel, RelayTyped
<1>5. ASSUME NEW j \in Jobs, Request(j)
      PROVE  RelayTyped'
  BY <1>0, <1>5 DEF Request, RelayTyped
<1>6. ASSUME NEW j \in Jobs, NEW kind \in {"end", "cancel"}, CleanUp(j, kind)
      PROVE  RelayTyped'
  BY <1>0, <1>6 DEF CleanUp, RelayTyped
<1>7. CASE Restart
  BY <1>0, <1>7 DEF Restart, RelayTyped
<1>8. CASE UNCHANGED <<client, relayVars>>
  BY <1>0, <1>8 DEF relayVars, RelayTyped
<1>9. \/ UNCHANGED <<client, relayVars>> \/ Restart
      \/ \E j \in Jobs : \/ PublishEnd(j) /\ client' = client
                         \/ Streams(j) \/ Answer(j) \/ GiveUp(j) \/ Request(j)
                         \/ \E kind \in {"end", "cancel"} : CleanUp(j, kind)
  BY DEF Next, vars, Work, Serve, Return, Wait, Agent, TakeJob, ListPool, Acquire, Delay, NoEndpointFree, DelayOver,
     AllFailed, CallSucceeds, CallFails, Recorded, FailureRecorded, QueryFails,
     StartAgent, AgentQueryFails, AgentWaits, AgentGivesUp, AgentEnds, CircuitCloses, Change
<1> QED
  BY <1>1, <1>2, <1>3, <1>4, <1>5, <1>6, <1>7, <1>8, <1>9

LEMMA InitTyped == Init => TypeInv
<1> SUFFICES ASSUME Init PROVE TypeInv
  OBVIOUS
<1>1. At("none") \in LesseeType /\ At("none").step = "none"
  BY AtTyped DEF Steps
<1>2. lessee \in [Lessees -> LesseeType] /\ \A l \in Lessees : Step(l) = "none"
  BY <1>1 DEF Init, Step
<1>3. attempts \in [Jobs -> 0..MaxAttempts] /\ \A j \in Jobs : attempts[j] < MaxAttempts
  BY BoundsAssumption DEF Init
<1>4. circuit \in [Endpoints -> [failures : 0..(Threshold - 1), open : BOOLEAN]]
  BY BoundsAssumption DEF Init
<1>5. RelayTyped
  BY DEF Init, RelayTyped
<1> QED
  BY <1>2, <1>3, <1>4, <1>5, BoundsAssumption DEF Init, TypeInv, TypeOK, LesseeType, WithSlot, RelayTyped

LEMMA NextTyped == TypeInv /\ [Next]_vars => TypeInv'
<1> SUFFICES ASSUME TypeInv, [Next]_vars PROVE TypeInv'
  OBVIOUS
<1> QED
  BY LesseesTyped, AttemptsTyped, EndpointsTyped, RelayStaysTyped
  DEF TypeInv, TypeOK, LesseeType, RelayTyped

LEMMA TypeInvariant == Spec => []TypeInv
<1> QED
  BY InitTyped, NextTyped, PTL DEF Spec

\* Documents, counts, circuits and relay stay well formed; in particular a circuit
\* that has opened starts its count again, and no job is attempted too often.
THEOREM TypeCorrect == Spec => []TypeOK
<1>1. TypeInv => TypeOK
  BY DEF TypeInv
<1> QED
  BY <1>1, TypeInvariant, PTL

-----------------------------------------------------------------------------
(* Slots *)

LEMMA HoldersFinite ==
  ASSUME NEW e
  PROVE  IsFiniteSet(Holders(e)) /\ Cardinality(Holders(e)) \in Nat
<1>1. Holders(e) \subseteq Lessees
  BY DEF Holders
<1> QED
  BY <1>1, FiniteAssumption, FS_Subset, FS_CardinalityType

\* One lessee moves: the holders of the other endpoints stay.
LEMMA MoveSlots ==
  ASSUME TypeInv, SlotsAccounted, NEW l \in Lessees, Moves(l)
  PROVE  SlotsAccounted'
<1>1. PICK x \in LesseeType :
        /\ Becomes(l, x) /\ (x.step \in WithSlot => x.slot \in Endpoints)
        /\ \/ Step(l) \notin Holding /\ x.step \notin Holding /\ inUse' = inUse
           \/ /\ Step(l) \notin Holding /\ x.step = "call" /\ x.slot \in Free(l)
              /\ inUse' = [inUse EXCEPT ![x.slot] = @ + 1]
           \/ /\ Step(l) \in Holding /\ x.step \in Holding /\ x.slot = lessee[l].slot
              /\ inUse' = inUse
           \/ /\ Step(l) \in Holding /\ x.step \notin Holding
              /\ inUse' = Released(lessee[l].slot)
  BY DEF Moves
<1>2. \A k \in Lessees : lessee'[k] = IF k = l THEN x ELSE lessee[k]
  BY <1>1 DEF Becomes, TypeInv, TypeOK, LesseeType
<1>3. ASSUME NEW e \in Endpoints
      PROVE  /\ l \in Holders(e) <=> Step(l) \in Holding /\ lessee[l].slot = e
             /\ l \in Holders(e)' <=> x.step \in Holding /\ x.slot = e
             /\ Holders(e)' \ {l} = Holders(e) \ {l}
  BY <1>2 DEF Holders, Holding, Step
<1>4. inUse \in [Endpoints -> Nat] /\ \A e \in Endpoints : inUse[e] = Cardinality(Holders(e))
  BY DEF TypeInv, TypeOK, SlotsAccounted
<1>5. ASSUME NEW e \in Endpoints
      PROVE  inUse'[e] = Cardinality(Holders(e)')
  <2>1. CASE l \in Holders(e) <=> l \in Holders(e)'
    <3>1. Holders(e)' = Holders(e)
      BY <1>3, <2>1
    <3>2. inUse'[e] = inUse[e]
      BY <1>1, <1>3, <1>4, <2>1 DEF Released, Holding, WithSlot
    <3> QED
      BY <1>4, <3>1, <3>2
  <2>2. CASE l \notin Holders(e) /\ l \in Holders(e)'
    <3>1. Holders(e)' = Holders(e) \cup {l}
      BY <1>3, <2>2
    <3>2. Cardinality(Holders(e)') = Cardinality(Holders(e)) + 1
      BY <2>2, <3>1, HoldersFinite, FS_AddElement
    <3>3. inUse'[e] = inUse[e] + 1
      BY <1>1, <1>3, <1>4, <2>2 DEF Holding
    <3> QED
      BY <1>4, <3>2, <3>3
  <2>3. CASE l \in Holders(e) /\ l \notin Holders(e)'
    <3>1. Holders(e)' = Holders(e) \ {l}
      BY <1>3, <2>3
    <3>2. /\ Cardinality(Holders(e)') = Cardinality(Holders(e)) - 1
          /\ Cardinality(Holders(e)') \in Nat /\ Cardinality(Holders(e)) \in Nat
      <4>1. IsFiniteSet(Holders(e) \ {l}) /\ Cardinality(Holders(e) \ {l}) \in Nat
        BY HoldersFinite, FS_RemoveElement, FS_CardinalityType
      <4> QED
        BY <2>3, <3>1, <4>1, HoldersFinite, FS_RemoveElement
    <3>3. inUse[e] > 0 => inUse'[e] = inUse[e] - 1
      BY <1>1, <1>3, <1>4, <2>3 DEF Released
    <3> QED
      BY <1>4, <3>2, <3>3
  <2> QED
    BY <2>1, <2>2, <2>3
<1> QED
  BY <1>5 DEF SlotsAccounted

LEMMA RestartSlots ==
  ASSUME TypeInv, Restart
  PROVE  SlotsAccounted'
<1>1. \A e \in Endpoints : Holders(e)' = {}
  BY RestartLessees DEF Holders, WithSlot
<1>2. \A e \in Endpoints : inUse'[e] = 0
  BY DEF Restart
<1> QED
  BY <1>1, <1>2, FS_EmptySet DEF SlotsAccounted

LEMMA NextSlots ==
  ASSUME TypeInv, SlotsAccounted, [Next]_vars
  PROVE  SlotsAccounted'
<1>1. CASE lessee' = lessee /\ inUse' = inUse
  BY <1>1 DEF SlotsAccounted, Holders, Step
<1> QED
  BY <1>1, MoveSlots, RestartSlots, NextMoves

LEMMA InitSlots == Init => SlotsAccounted
<1> SUFFICES ASSUME Init PROVE SlotsAccounted
  OBVIOUS
<1>1. \A l \in Lessees : Step(l) = "none"
  BY AtTyped DEF Init, Step, Steps
<1>2. \A e \in Endpoints : Holders(e) = {} /\ inUse[e] = 0
  BY <1>1 DEF Init, Holders
<1> QED
  BY <1>2, FS_EmptySet DEF SlotsAccounted

\* Whatever becomes of jobs and agents, the allocator's count of an endpoint is the
\* number of those that hold one of its slots.
THEOREM Slots == Spec => []SlotsAccounted
<1> QED
  BY TypeInvariant, InitSlots, NextSlots, PTL DEF Spec

-----------------------------------------------------------------------------
(* Load *)

\* No count is above the highest concurrency, and neither is a pool that was read.
LoadInv ==
  /\ \A e \in Endpoints : concurrency[e] <= highest[e] /\ inUse[e] <= highest[e]
  /\ \A l \in Lessees : \A e \in DOMAIN lessee[l].pool :
       e \in Endpoints /\ lessee[l].pool[e] \in Nat /\ lessee[l].pool[e] <= highest[e]

LEMMA LoadTypes ==
  ASSUME TypeInv
  PROVE  /\ concurrency \in [Endpoints -> Nat] /\ highest \in [Endpoints -> Nat]
         /\ inUse \in [Endpoints -> Nat] /\ lessee \in [Lessees -> LesseeType]
         /\ Concurrencies \subseteq Nat
<1>1. Concurrencies \subseteq Nat
  BY BoundsAssumption
<1> QED
  BY <1>1 DEF TypeInv, TypeOK, LesseeType

LEMMA MoveLoad ==
  ASSUME TypeInv, LoadInv, NEW l \in Lessees, Moves(l), UNCHANGED endpointVars
  PROVE  LoadInv'
<1>1. PICK x \in LesseeType :
        /\ Becomes(l, x)
        /\ x.pool \in {NoPool, lessee[l].pool, Pool(Purpose(l))}
        /\ \/ inUse' = inUse
           \/ x.slot \in Free(l) /\ inUse' = [inUse EXCEPT ![x.slot] = @ + 1]
           \/ Step(l) \in Holding /\ inUse' = Released(lessee[l].slot)
  BY DEF Moves
<1>2. \A k \in Lessees : lessee'[k] = IF k = l THEN x ELSE lessee[k]
  BY <1>1, LoadTypes DEF Becomes
<1>3. \A e \in DOMAIN x.pool : e \in Endpoints /\ x.pool[e] \in Nat /\ x.pool[e] <= highest[e]
  BY <1>1, NoPoolTyped, PoolTyped, LoadTypes DEF LoadInv
<1>4. \A e \in Endpoints : inUse'[e] <= highest[e]
  <2>1. CASE inUse' = inUse
    BY <2>1 DEF LoadInv
  <2>2. CASE x.slot \in Free(l) /\ inUse' = [inUse EXCEPT ![x.slot] = @ + 1]
    <3>1. x.slot \in Endpoints /\ inUse[x.slot] < highest[x.slot]
      BY <2>2, LoadTypes DEF LoadInv, Free
    <3> QED
      BY <2>2, <3>1, LoadTypes DEF LoadInv
  <2>3. CASE Step(l) \in Holding /\ inUse' = Released(lessee[l].slot)
    <3>1. lessee[l].slot \in Endpoints
      BY <2>3 DEF TypeInv, Holding, WithSlot
    <3>2. \A e \in Endpoints : inUse'[e] <= inUse[e]
      BY <2>3, <3>1, LoadTypes DEF Released
    <3>3. \A e \in Endpoints : inUse'[e] \in Nat
      BY <2>3, <3>1, ReleasedTyped
    <3> QED
      BY <3>2, <3>3, LoadTypes DEF LoadInv
  <2> QED
    BY <1>1, <2>1, <2>2, <2>3
<1> QED
  BY <1>2, <1>3, <1>4 DEF LoadInv, endpointVars

LEMMA ChangeLoad ==
  ASSUME TypeInv, LoadInv, Change
  PROVE  LoadInv'
<1>1. \A e \in Endpoints : highest[e] <= highest'[e] /\ concurrency'[e] <= highest'[e]
  BY LoadTypes DEF Change, LoadInv
<1>2. \A e \in Endpoints : highest'[e] \in Nat
  BY LoadTypes, EndpointsTyped DEF Next
<1> QED
  BY <1>1, <1>2, LoadTypes DEF LoadInv, Change, poolVars

LEMMA RestartLoad ==
  ASSUME TypeInv, LoadInv, Restart
  PROVE  LoadInv'
<1>1. \A l \in Lessees : lessee'[l].pool \in {NoPool, lessee[l].pool}
  BY RestartLessees
<1>2. /\ \A e \in Endpoints : inUse'[e] = 0
      /\ UNCHANGED <<concurrency, highest>>
  BY DEF Restart, endpointVars
<1>3. \A e \in Endpoints : concurrency'[e] <= highest'[e] /\ inUse'[e] <= highest'[e]
  BY <1>2, LoadTypes DEF LoadInv
<1>4. ASSUME NEW l \in Lessees, NEW e \in DOMAIN lessee'[l].pool
      PROVE  e \in Endpoints /\ lessee'[l].pool[e] \in Nat /\ lessee'[l].pool[e] <= highest'[e]
  BY <1>1, <1>2, NoPoolTyped DEF LoadInv
<1> QED
  BY <1>3, <1>4 DEF LoadInv

LEMMA NextLoad ==
  ASSUME TypeInv, LoadInv, [Next]_vars
  PROVE  LoadInv'
<1>1. CASE Change
  BY <1>1, ChangeLoad
<1>2. CASE Restart
  BY <1>2, RestartLoad
<1>3. CASE ~Change /\ ~Restart
  <2>1. UNCHANGED endpointVars
    BY <1>3 DEF Next, vars, Work, Serve, Return, Wait, Agent, TakeJob, ListPool, Acquire, Delay, NoEndpointFree,
       DelayOver, AllFailed, CallSucceeds, CallFails, Recorded, FailureRecorded, QueryFails, Answer,
       GiveUp, Request, Streams, CleanUp, StartAgent, AgentQueryFails, AgentWaits, AgentGivesUp, AgentEnds, CircuitCloses
  <2>2. CASE lessee' = lessee /\ inUse' = inUse
    BY <2>1, <2>2 DEF LoadInv, endpointVars
  <2> QED
    BY <1>3, <2>1, <2>2, MoveLoad, NextMoves
<1> QED
  BY <1>1, <1>2, <1>3

LEMMA InitLoad == Init => LoadInv
<1> SUFFICES ASSUME Init PROVE LoadInv
  OBVIOUS
<1>1. \A l \in Lessees : lessee[l].pool = NoPool
  BY AtTyped DEF Init, Steps
<1>2. \A e \in Endpoints : Configured[e] \in Nat
  BY BoundsAssumption
<1> QED
  BY <1>1, <1>2, NoPoolTyped DEF Init, LoadInv

\* No endpoint ever serves more than the highest concurrency it was given, although
\* acquire decides on a list it read before others took slots of it.
THEOREM Load == Spec => []NeverOverloaded
<1>1. LoadInv => NeverOverloaded
  BY DEF LoadInv, NeverOverloaded
<1> QED
  BY <1>1, TypeInvariant, InitLoad, NextLoad, PTL DEF Spec

-----------------------------------------------------------------------------
(* Output and the relay *)

Emitting == {"streamed", "committed", "record", "over"}

\* The client of a job sees output of one endpoint, and while it waits the job is
\* past its call.
OutputInv ==
  \A j \in Jobs :
    /\ sources[j] = {} \/ \E e \in Endpoints : sources[j] = {e}
    /\ client[j] = "none" => sources[j] = {}
    /\ client[j] = "waiting" /\ sources[j] # {} => Step(j) \in Emitting

\* What ends or stays silent keeps the output invariant.
LEMMA OutputStays ==
  ASSUME TypeInv, OutputInv, NEW j \in Jobs, sources' = sources,
         \A k \in Jobs : client'[k] \in {client[k], "ended"},
         \A k \in Jobs \ {j} : Step(k)' = Step(k),
         Step(j) \in Emitting => Step(j)' \in Emitting
  PROVE  OutputInv'
<1> QED
  BY DEF OutputInv, TypeInv, TypeOK

\* A lessee that moves leaves the steps of the others alone.
LEMMA OneMoves ==
  ASSUME TypeInv, NEW l \in Lessees, Moves(l)
  PROVE  \A k \in Lessees \ {l} : Step(k)' = Step(k)
<1> QED
  BY LoadTypes DEF Moves, Becomes, Step

\* Where the step of a job leads to.
LEMMA StepAfter ==
  ASSUME TypeInv, NEW l \in Lessees, NEW s \in Steps,
         lessee' = [lessee EXCEPT ![l] = At(s)] \/ lessee' = [lessee EXCEPT ![l].step = s]
  PROVE  Step(l)' = s
<1> QED
  BY AtTyped, LoadTypes DEF Step, LesseeType

LEMMA WorkOutput ==
  ASSUME TypeInv, OutputInv, NEW j \in Jobs, Work(j)
  PROVE  OutputInv'
<1>1. j \in Lessees /\ Moves(j)
  BY WorkMoves, ListMoves, AcquireMoves DEF Work, Serve, Return, Lessees
<1>2. sources' = sources /\ client' = client
  BY DEF Work, Serve, Return, TakeJob, ListPool, Acquire, Delay, NoEndpointFree, DelayOver, AllFailed, CallSucceeds,
     CallFails, Recorded, FailureRecorded, PublishEnd, relayVars
<1>3. Step(j) \in Emitting => Step(j)' \in Emitting
  <2>1. CASE CallSucceeds(j)
    BY <1>1, <2>1, StepAfter DEF CallSucceeds, Emitting, Steps
  <2>2. CASE CallFails(j)
    <3>1. CASE Step(j) = "streamed"
      BY <1>1, <2>2, <3>1, StepAfter DEF CallFails, Emitting, Steps, Step
    <3>2. CASE Step(j) # "streamed"
      BY <2>2, <3>2 DEF CallFails, Emitting
    <3> QED
      BY <3>1, <3>2
  <2>3. CASE Recorded(j)
    BY <1>1, <2>3, StepAfter DEF Recorded, Over, Emitting, Steps
  <2>4. CASE FailureRecorded(j)
    <3>1. CASE Over(j)
      BY <1>1, <3>1, StepAfter DEF Over, Emitting, Steps
    <3>2. CASE Retriable(j)
      BY <3>2 DEF Retriable, Emitting
    <3> QED
      BY <2>4, <3>1, <3>2 DEF FailureRecorded
  <2> QED
    BY <2>1, <2>2, <2>3, <2>4
    DEF Work, Serve, Return, TakeJob, ListPool, Acquire, Delay, NoEndpointFree, DelayOver, AllFailed, Emitting
<1> QED
  BY <1>1, <1>2, <1>3, OutputStays, OneMoves DEF Lessees, TypeInv, TypeOK

LEMMA StreamOutput ==
  ASSUME TypeInv, OutputInv, NEW j \in Jobs, Streams(j)
  PROVE  OutputInv'
<1>1. j \in Lessees /\ Moves(j)
  BY WorkMoves DEF Lessees
<1>2. Step(j) = "call" /\ Step(j)' = "streamed" /\ client' = client /\ lessee[j].slot \in Endpoints
  BY <1>1, StepAfter DEF Streams, Steps, TypeInv, WithSlot
<1>3. \A k \in Jobs \ {j} : Step(k)' = Step(k)
  BY <1>1, OneMoves DEF Lessees
<1>4. sources' = IF client[j] = "waiting"
                 THEN [sources EXCEPT ![j] = sources[j] \cup {lessee[j].slot}] ELSE sources
  BY DEF Streams, PublishOutput
<1>5. client[j] = "waiting" => sources[j] = {}
  BY <1>2 DEF OutputInv, Emitting
<1> QED
  BY <1>2, <1>3, <1>4, <1>5 DEF OutputInv, Emitting, TypeInv, TypeOK

LEMMA NextOutput ==
  ASSUME TypeInv, OutputInv, [Next]_vars
  PROVE  OutputInv'
<1>1. ASSUME NEW j \in Jobs, Answer(j) \/ GiveUp(j)
      PROVE  OutputInv'
  BY <1>1 DEF Answer, GiveUp, Leave, OutputInv, TypeInv, TypeOK, Step
<1>2. ASSUME NEW j \in Jobs, Request(j)
      PROVE  OutputInv'
  <2>1. j \in Lessees
    BY DEF Lessees
  <2>2. \A k \in Jobs \ {j} : Step(k)' = Step(k) /\ client'[k] = client[k]
    BY <1>2, LoadTypes DEF Request, Step, TypeInv, TypeOK, Lessees
  <2>3. client[j] = "none" /\ sources' = sources
    BY <1>2 DEF Request
  <2> QED
    BY <2>2, <2>3 DEF OutputInv
<1>3. ASSUME NEW j \in Jobs, QueryFails(j)
      PROVE  OutputInv'
  <2>1. j \in Lessees /\ Step(j) \notin Emitting /\ UNCHANGED <<client, sources>>
    BY <1>3 DEF Lessees, QueryFails, Emitting, relayVars
  <2>2. \A k \in Jobs \ {j} : Step(k)' = Step(k)
    BY <1>3, LoadTypes DEF QueryFails, Step, Lessees
  <2> QED
    BY <2>1, <2>2 DEF OutputInv
<1>4. ASSUME NEW a \in Agents, Agent(a)
      PROVE  OutputInv'
  <2>1. a \in Lessees /\ Moves(a) /\ a \notin Jobs
    BY <1>4, AgentMoves, ListMoves, AcquireMoves, NamesAssumption DEF Agent, Lessees
  <2>2. UNCHANGED <<client, sources>>
    BY <1>4 DEF Agent, StartAgent, AgentQueryFails, ListPool, Acquire, AgentWaits, AgentGivesUp, AgentEnds, relayVars
  <2> QED
    BY <2>1, <2>2, OneMoves DEF OutputInv, Lessees
<1>5. CASE Restart
  BY <1>5 DEF Restart, OutputInv
<1>6. CASE UNCHANGED <<lessee, client, sources>>
  BY <1>6 DEF OutputInv, Step
<1>7. \/ UNCHANGED <<lessee, client, sources>> \/ Restart
      \/ \E j \in Jobs : Answer(j) \/ GiveUp(j) \/ Request(j) \/ QueryFails(j) \/ Work(j) \/ Streams(j)
      \/ \E a \in Agents : Agent(a)
  BY DEF Next, vars, Wait, CleanUp, CircuitCloses, Change, relayVars
<1> QED
  BY <1>1, <1>2, <1>3, <1>4, <1>5, <1>6, <1>7, WorkOutput, StreamOutput

\* A client never sees output of two endpoints in one turn, wherever an endpoint
\* fails and whenever the process restarts.
THEOREM OneAnswer == Spec => []NoMixedOutput
<1>1. Init => OutputInv
  BY DEF Init, OutputInv
<1>2. OutputInv => NoMixedOutput
  <2>1. Cardinality({}) = 0
    BY FS_EmptySet
  <2>2. \A e \in Endpoints : Cardinality({e}) = 1
    <3>1. IsFiniteSet({}) /\ \A e : {e} = {} \cup {e}
      BY FS_EmptySet
    <3> QED
      BY <2>1, <3>1, FS_AddElement
  <2> QED
    BY <2>1, <2>2 DEF OutputInv, NoMixedOutput
<1> QED
  BY <1>1, <1>2, TypeInvariant, NextOutput, PTL DEF Spec

Ended == {"record", "over"}
Timer(j) == <<j, "end">> \in timers \/ <<j, "cancel">> \in timers

\* A cancelled job has its timer, an answered one has ended, and a subject has a
\* client, a timer, a job that will end it or belongs to an embedding.
RelayInv ==
  \A j \in Jobs :
    /\ j \in cancelled => <<j, "cancel">> \in timers
    /\ j \in answered => Step(j) \in Ended
    /\ subject[j] # "absent" /\ Step(j) \in Ended => Timer(j)
    /\ subject[j] # "absent" =>
         client[j] = "waiting" \/ Timer(j) \/ Step(j) \in {"streamed", "committed"} \/ j \in Embeds

\* A step of the job that tells the relay nothing.
Silent(j) ==
  /\ UNCHANGED <<client, subject, answered, cancelled, timers>>
  /\ \A k \in Jobs \ {j} : Step(k)' = Step(k)
  /\ Step(j) \in Ended <=> Step(j)' \in Ended
  /\ Step(j) \in {"streamed", "committed"} => Step(j)' \in {"streamed", "committed"}

\* A step that ends the job.
Ends(j) ==
  /\ PublishEnd(j) /\ client' = client
  /\ \A k \in Jobs \ {j} : Step(k)' = Step(k)
  /\ Step(j)' \in Ended

LEMMA SilentRelay ==
  ASSUME TypeInv, RelayInv, NEW j \in Jobs, Silent(j)
  PROVE  RelayInv'
<1> QED
  BY DEF RelayInv, Silent, Timer

LEMMA EndsRelay ==
  ASSUME TypeInv, RelayInv, NEW j \in Jobs, Ends(j)
  PROVE  RelayInv'
<1>1. /\ timers' = timers \cup {<<j, "end">>} /\ cancelled' = cancelled
      /\ answered' \subseteq answered \cup {j}
      /\ \A k \in Jobs \ {j} : subject'[k] = subject[k]
  BY DEF Ends, PublishEnd, TypeInv, TypeOK
<1>2. \A k \in Jobs : Timer(k) => Timer(k)'
  BY <1>1 DEF Timer
<1>3. Timer(j)'
  BY <1>1 DEF Timer
<1> QED
  BY <1>1, <1>2, <1>3 DEF RelayInv, Ends

LEMMA WorkRelay ==
  ASSUME TypeInv, RelayInv, NEW j \in Jobs, Work(j)
  PROVE  RelayInv'
<1>1. j \in Lessees /\ Moves(j)
  BY WorkMoves, ListMoves, AcquireMoves DEF Work, Serve, Return, Lessees
<1>2. \A k \in Jobs \ {j} : Step(k)' = Step(k)
  BY <1>1, OneMoves DEF Lessees
<1>3. CASE TakeJob(j) \/ Delay(j) \/ DelayOver(j)
  <2>1. Step(j) \in {"queued", "choose", "delayed"} /\ Step(j)' \in {"list", "delayed", "queued"}
    BY <1>1, <1>3, StepAfter DEF TakeJob, Delay, DelayOver, Steps
  <2> QED
    BY <1>2, <1>3, <2>1, SilentRelay DEF Silent, TakeJob, Delay, DelayOver, Ended, relayVars
<1>4. CASE ListPool(j) \/ Acquire(j)
  <2>1. Step(j) \in {"list", "choose"} /\ Step(j)' \in {"choose", "call"}
    <3>1. lessee[j] \in LesseeType /\ DOMAIN lessee = Lessees
      BY <1>1, LoadTypes
    <3>2. ASSUME NEW e, lessee' = [lessee EXCEPT ![j].step = "call", ![j].slot = e, ![j].pool = NoPool]
          PROVE  Step(j)' = "call"
      BY <1>1, <3>1, <3>2 DEF Step, LesseeType
    <3>3. ListPool(j) => Step(j)' = "choose"
      BY <1>1, <3>1 DEF ListPool, Step, LesseeType
    <3> QED
      BY <1>4, <3>2, <3>3 DEF ListPool, Acquire, Take
  <2> QED
    BY <1>2, <1>4, <2>1, SilentRelay DEF Silent, ListPool, Acquire, Ended, relayVars
<1>5. CASE NoEndpointFree(j) \/ AllFailed(j)
  <2>1. Step(j)' = "over"
    BY <1>1, <1>5, StepAfter DEF NoEndpointFree, AllFailed, Over, Steps
  <2> QED
    BY <1>2, <1>5, <2>1, EndsRelay DEF Ends, Ended, NoEndpointFree, AllFailed
<1>6. CASE CallSucceeds(j)
  <2>1. Step(j)' = "record"
    BY <1>1, <1>6, StepAfter DEF CallSucceeds, Steps
  <2> QED
    BY <1>2, <1>6, <2>1, EndsRelay DEF Ends, Ended, CallSucceeds
<1>7. CASE CallFails(j)
  <2>1. \/ Step(j) = "call" /\ Step(j)' = "retry"
        \/ Step(j) = "streamed" /\ Step(j)' = "committed"
    <3>1. CASE Step(j) = "call"
      BY <1>1, <1>7, <3>1, StepAfter DEF CallFails, Steps, Step
    <3>2. CASE Step(j) = "streamed"
      BY <1>1, <1>7, <3>2, StepAfter DEF CallFails, Steps, Step
    <3> QED
      BY <1>7, <3>1, <3>2 DEF CallFails
  <2> QED
    BY <1>2, <1>7, <2>1, SilentRelay DEF Silent, CallFails, Ended, relayVars
<1>8. CASE Recorded(j)
  <2>1. Step(j) = "record" /\ Step(j)' = "over"
    BY <1>1, <1>8, StepAfter DEF Recorded, Over, Steps
  <2> QED
    BY <1>2, <1>8, <2>1, SilentRelay DEF Silent, Recorded, Ended, relayVars
<1>9. CASE FailureRecorded(j)
  <2>1. CASE PublishEnd(j) /\ Over(j)
    <3>1. Step(j)' = "over"
      BY <1>1, <2>1, StepAfter DEF Over, Steps
    <3> QED
      BY <1>2, <1>9, <2>1, <3>1, EndsRelay DEF Ends, Ended, FailureRecorded
  <2>2. CASE /\ Retriable(j) /\ UNCHANGED relayVars
             /\ lessee' = [lessee EXCEPT ![j] = [At("list") EXCEPT
                                              !.tried = lessee[j].tried \cup {lessee[j].slot}]]
    <3>1. Step(j) = "retry" /\ Step(j)' = "list"
      BY <1>1, <2>2, AtTyped, LoadTypes DEF Retriable, Step, Steps, LesseeType
    <3> QED
      BY <1>2, <1>9, <2>2, <3>1, SilentRelay DEF Silent, FailureRecorded, Ended, relayVars
  <2> QED
    BY <1>9, <2>1, <2>2 DEF FailureRecorded
<1> QED
  BY <1>3, <1>4, <1>5, <1>6, <1>7, <1>8, <1>9 DEF Work, Serve, Return

\* The other steps of a job and its client.
LEMMA ClientRelay ==
  ASSUME TypeInv, RelayInv, NEW j \in Jobs,
         \/ Request(j) \/ Answer(j) \/ GiveUp(j) \/ Streams(j) \/ QueryFails(j)
         \/ \E kind \in {"end", "cancel"} : CleanUp(j, kind)
  PROVE  RelayInv'
<1>0. j \in Lessees
  BY DEF Lessees
<1>1. CASE Request(j)
  <2>1. Step(j) = "none" /\ Step(j)' = "queued" /\ \A k \in Jobs \ {j} : Step(k)' = Step(k)
    BY <1>0, <1>1, StepAfter, LoadTypes DEF Request, Step, Steps, Lessees
  <2>2. /\ UNCHANGED <<answered, cancelled, timers>> /\ client'[j] = "waiting"
        /\ \A k \in Jobs \ {j} : client'[k] = client[k] /\ subject'[k] = subject[k]
    BY <1>1 DEF Request, TypeInv, TypeOK
  <2> QED
    BY <2>1, <2>2 DEF RelayInv, Timer, Ended
<1>2. CASE Answer(j) \/ GiveUp(j)
  <2>1. /\ UNCHANGED <<subject, lessee>> /\ answered' \subseteq answered
        /\ \A k \in Jobs \ {j} : client'[k] = client[k]
        /\ \/ UNCHANGED <<cancelled, timers>> /\ (j \in answered \/ j \in Embeds)
           \/ cancelled' = cancelled \cup {j} /\ timers' = timers \cup {<<j, "cancel">>}
    BY <1>2 DEF Answer, GiveUp, Leave, Cancel, TypeInv, TypeOK, Jobs
  <2>2. \A k \in Jobs : Step(k)' = Step(k) /\ (Timer(k) => Timer(k)')
    BY <2>1 DEF Step, Timer
  <2> QED
    BY <2>1, <2>2 DEF RelayInv, Timer
<1>3. CASE Streams(j)
  <2>1. /\ Step(j) = "call" /\ Step(j)' = "streamed"
        /\ \A k \in Jobs \ {j} : Step(k)' = Step(k) /\ subject'[k] = subject[k]
        /\ UNCHANGED <<client, answered, cancelled, timers>>
    BY <1>0, <1>3, StepAfter, LoadTypes
    DEF Streams, PublishOutput, Step, Steps, Lessees, TypeInv, TypeOK
  <2> QED
    BY <2>1 DEF RelayInv, Timer, Ended
<1>4. CASE QueryFails(j)
  <2>1. Step(j) = "list" /\ Step(j)' \in {"queued", "failed"}
    BY <1>0, <1>4, StepAfter DEF QueryFails, Steps
  <2>2. \A k \in Jobs \ {j} : Step(k)' = Step(k)
    BY <1>4, LoadTypes DEF QueryFails, Step, Lessees
  <2> QED
    BY <1>4, <2>1, <2>2, SilentRelay DEF Silent, QueryFails, Ended, relayVars
<1>5. ASSUME NEW kind \in {"end", "cancel"}, CleanUp(j, kind)
      PROVE  RelayInv'
  <2>1. /\ UNCHANGED <<client, answered, lessee>> /\ timers' = timers \ {<<j, kind>>}
        /\ cancelled' = cancelled \ {j} /\ subject'[j] = "absent"
        /\ \A k \in Jobs \ {j} : subject'[k] = subject[k]
    BY <1>5 DEF CleanUp, TypeInv, TypeOK
  <2> QED
    BY <2>1 DEF RelayInv, Timer, Step
<1> QED
  BY <1>1, <1>2, <1>3, <1>4, <1>5

LEMMA NextRelay ==
  ASSUME TypeInv, RelayInv, [Next]_vars
  PROVE  RelayInv'
<1>1. ASSUME NEW a \in Agents, Agent(a)
      PROVE  RelayInv'
  <2>1. a \in Lessees /\ Moves(a) /\ a \notin Jobs
    BY <1>1, AgentMoves, ListMoves, AcquireMoves, NamesAssumption DEF Agent, Lessees
  <2>2. UNCHANGED <<client, relayVars>>
    BY <1>1 DEF Agent, StartAgent, AgentQueryFails, ListPool, Acquire, AgentWaits, AgentGivesUp, AgentEnds
  <2>3. \A j \in Jobs : Step(j)' = Step(j)
    BY <2>1, OneMoves DEF Lessees
  <2> QED
    BY <2>2, <2>3 DEF RelayInv, Timer, relayVars
<1>2. CASE Restart
  BY <1>2 DEF Restart, RelayInv
<1>3. CASE UNCHANGED <<lessee, client, relayVars>>
  BY <1>3 DEF RelayInv, Step, Timer, relayVars
<1>4. \/ UNCHANGED <<lessee, client, relayVars>> \/ Restart
      \/ \E j \in Jobs : \/ Work(j) \/ Wait(j) \/ Request(j) \/ Streams(j) \/ QueryFails(j)
                         \/ \E kind \in {"end", "cancel"} : CleanUp(j, kind)
      \/ \E a \in Agents : Agent(a)
  BY DEF Next, vars, CircuitCloses, Change
<1> QED
  BY <1>1, <1>2, <1>3, <1>4, WorkRelay, ClientRelay DEF Wait

\* The relay keeps no subject and no cancel flag for ever, in whatever order the end
\* of a job, the end of its client, the timers and restarts come.
THEOREM NoLeak == Spec => []NothingLeaks
<1>1. Init => RelayInv
  BY DEF Init, RelayInv
<1>2. RelayInv => NothingLeaks
  BY DEF RelayInv, NothingLeaks, Timer, Ended
<1> QED
  BY <1>1, <1>2, TypeInvariant, NextRelay, PTL DEF Spec
=============================================================================
