---------------------------- MODULE LlmGateway ----------------------------
(***************************************************************************)
(* The LLM balancer (balancer/): chat and embedding requests become jobs   *)
(* of a queue, a worker leases a slot of an endpoint for each and relays   *)
(* the answer to the client; workflow agents lease a slot directly and may *)
(* ask for an embedding while they hold it.                                *)
(*                                                                         *)
(* The allocator's slot counts, the circuits, the relay and the clients    *)
(* live in the memory of one process; the jobs live in Redis and survive   *)
(* it.  Time is abstract: a timer fires at some time after it is set,      *)
(* except that a job's wait (MAX_QUEUE_WAIT_MS) outlasts its client's.     *)
(* The worker's concurrency of 16 is not reached.                          *)
(***************************************************************************)
EXTENDS Naturals, FiniteSets

CONSTANTS
    Endpoints,       \* llm_endpoints
    Priority,        \* [Endpoints -> Nat], all different: the order of listForPool
    Serves,          \* [Endpoints -> SUBSET Purposes]
    Chats, Embeds,   \* requests of users for a chat turn; embeddings an agent asks for
    Agents,          \* runAgent calls
    AgentOf,         \* [Embeds -> Agents]
    Concurrencies,   \* what an administrator sets concurrency to
    Configured,      \* [Endpoints -> Concurrencies]: what it is at first
    NoEndpoint,
    Threshold,       \* failures that open a circuit
    MaxAttempts,     \* attempts of a queue job
    MaxFaults        \* bound on administrator changes and restarts

Purposes == {"chat", "embedding", "workflow"}
Jobs == Chats \cup Embeds
Lessees == Jobs \cup Agents

ASSUME FiniteAssumption == IsFiniteSet(Lessees)
ASSUME NamesAssumption ==
    /\ Chats \cap Embeds = {} /\ Jobs \cap Agents = {} /\ NoEndpoint \notin Endpoints
ASSUME PriorityAssumption ==
    /\ Priority \in [Endpoints -> Nat]
    /\ \A e, f \in Endpoints : Priority[e] = Priority[f] => e = f
ASSUME ServesAssumption == Serves \in [Endpoints -> SUBSET Purposes]
ASSUME AgentOfAssumption == AgentOf \in [Embeds -> Agents]
ASSUME BoundsAssumption ==
    /\ Concurrencies \subseteq Nat \ {0} /\ Configured \in [Endpoints -> Concurrencies]
    /\ Threshold \in Nat \ {0} /\ MaxAttempts \in Nat \ {0}
    /\ MaxFaults \in Nat

VARIABLES
    enabled,       \* endpoints that are enabled
    concurrency,   \* [Endpoints -> Nat]
    inUse,         \* [Endpoints -> Nat]: the allocator's count
    circuit,       \* [Endpoints -> [failures, open]]
    lessee,        \* [Lessees -> [step, slot, pool, tried]]: who acquires and holds slots
    attempts,      \* [Jobs -> Nat]: failed attempts of the queue job
    client,        \* [Jobs -> {"none", "waiting", "ended"}]
    subject,       \* [Jobs -> {"absent", "open", "complete"}]: the relay's subjects
    answered,      \* jobs whose client has a terminal event in its buffer
    cancelled,     \* the relay's cancel flags
    timers,        \* jobs for which the relay will clean up
    sources,       \* history, [Jobs -> SUBSET Endpoints]: whose output the client sees
    highest,       \* history, [Endpoints -> Nat]: the highest concurrency set so far
    faults         \* administrator changes and restarts so far

endpointVars == <<enabled, concurrency, highest>>
poolVars == <<inUse, circuit>>
relayVars == <<subject, answered, cancelled, timers, sources>>
vars == <<endpointVars, poolVars, lessee, attempts, client, relayVars, faults>>

Purpose(l) ==
    CASE l \in Chats -> "chat" [] l \in Embeds -> "embedding" [] l \in Agents -> "workflow"
Step(l) == lessee[l].step
NoPool == [e \in {} |-> 0]
At(step) == [step |-> step, slot |-> NoEndpoint, pool |-> NoPool, tried |-> {}]

-----------------------------------------------------------------------------
(* Endpoint allocator and health                                           *)

\* listForPool: the enabled endpoints of the purpose and their concurrency now.
Pool(purpose) ==
    [e \in {f \in enabled : purpose \in Serves[f]} |-> concurrency[e]]

\* The endpoints acquire may still take, from the pool it has read.
Free(l) ==
    {e \in DOMAIN lessee[l].pool :
        e \notin lessee[l].tried /\ ~circuit[e].open /\ inUse[e] < lessee[l].pool[e]}
IsFirst(e, S) == e \in S /\ \A f \in S : Priority[e] <= Priority[f]

\* Mutant: the pool's concurrency is not looked at again.
TakeAnyHealthy(l) ==
    \E e \in Endpoints :
        /\ IsFirst(e, {f \in DOMAIN lessee[l].pool : f \notin lessee[l].tried /\ ~circuit[f].open})
        /\ inUse' = [inUse EXCEPT ![e] = @ + 1]
        /\ lessee' = [lessee EXCEPT ![l].step = "call", ![l].slot = e, ![l].pool = NoPool]

\* acquire, after its query: without an await it looks and takes.
Take(l) ==
    \E e \in Endpoints :
        /\ IsFirst(e, Free(l))
        /\ inUse' = [inUse EXCEPT ![e] = @ + 1]
        /\ lessee' = [lessee EXCEPT ![l].step = "call", ![l].slot = e, ![l].pool = NoPool]

Released(e) == [inUse EXCEPT ![e] = IF @ > 0 THEN @ - 1 ELSE @]

Success(e) == [circuit EXCEPT ![e] = [failures |-> 0, open |-> FALSE]]

\* Mutant: the circuit opens and goes on counting.
FailureKeepsCount(e) ==
    [circuit EXCEPT ![e] = [failures |-> @.failures + 1,
                            open |-> @.open \/ @.failures + 1 >= Threshold]]

Failure(e) ==
    LET n == circuit[e].failures + 1 IN
    [circuit EXCEPT ![e] = IF n >= Threshold THEN [failures |-> 0, open |-> TRUE]
                           ELSE [failures |-> n, open |-> circuit[e].open]]

CircuitCloses(e) ==
    /\ circuit[e].open
    /\ circuit' = [circuit EXCEPT ![e].open = FALSE]
    /\ UNCHANGED <<endpointVars, inUse, lessee, attempts, client, relayVars, faults>>

\* acquire begins: its query answers.
ListPool(l) ==
    /\ Step(l) = "list"
    /\ lessee' = [lessee EXCEPT ![l].step = "choose", ![l].pool = Pool(Purpose(l))]
    /\ UNCHANGED <<endpointVars, poolVars, attempts, client, relayVars, faults>>

Acquire(l) ==
    /\ Step(l) = "choose"
    /\ Take(l)
    /\ UNCHANGED <<endpointVars, circuit, attempts, client, relayVars, faults>>

-----------------------------------------------------------------------------
(* Stream relay                                                            *)

\* An event that is not the last: the subject is created if there is none.
PublishOutput(j, e) ==
    /\ subject' = [subject EXCEPT ![j] = IF @ = "absent" THEN "open" ELSE @]
    /\ sources' = IF client[j] = "waiting" THEN [sources EXCEPT ![j] = @ \cup {e}] ELSE sources
    /\ UNCHANGED <<answered, cancelled, timers>>

\* A terminal event completes the subject and sets the timer that removes it.
PublishEnd(j) ==
    /\ subject' = [subject EXCEPT ![j] = "complete"]
    /\ answered' = IF client[j] = "waiting" THEN answered \cup {j} ELSE answered
    /\ timers' = timers \cup {<<j, "end">>}
    /\ UNCHANGED <<cancelled, sources>>

\* Mutant: the flag alone.
CancelFlagOnly(j) == cancelled' = cancelled \cup {j} /\ UNCHANGED timers

\* cancel: the flag, and a timer of its own.
Cancel(j) == cancelled' = cancelled \cup {j} /\ timers' = timers \cup {<<j, "cancel">>}

\* The timer of publish or of cancel.
CleanUp(j, kind) ==
    /\ <<j, kind>> \in timers
    /\ timers' = timers \ {<<j, kind>>}
    /\ subject' = [subject EXCEPT ![j] = "absent"]
    /\ cancelled' = cancelled \ {j}
    /\ UNCHANGED <<endpointVars, poolVars, lessee, attempts, client, answered, sources, faults>>

-----------------------------------------------------------------------------
(* The worker: GatewayProcessor.process                                    *)

Over(l) == lessee' = [lessee EXCEPT ![l] = At("over")]

\* A worker takes the job: a new call of process, with nothing tried.
TakeJob(j) ==
    /\ Step(j) = "queued"
    /\ lessee' = [lessee EXCEPT ![j] = At("list")]
    /\ UNCHANGED <<endpointVars, poolVars, attempts, client, relayVars, faults>>

\* The query throws: the attempt failed, and after the last one the job has
\* failed without a word to its client.
QueryFails(j) ==
    /\ Step(j) = "list"
    /\ attempts' = [attempts EXCEPT ![j] = @ + 1]
    /\ lessee' = [lessee EXCEPT ![j] = At(IF attempts[j] + 1 < MaxAttempts THEN "queued"
                                          ELSE "failed")]
    /\ UNCHANGED <<endpointVars, poolVars, client, relayVars, faults>>

\* Mutant: nobody looks at the time a job has waited.
CancelledOnly(j) == j \in cancelled

\* The job need not wait any longer: it is cancelled or has waited for
\* MAX_QUEUE_WAIT_MS, which is longer than its client waits.
MayEnd(j) == j \in cancelled \/ client[j] = "ended"

\* No slot and nothing tried yet: the job is delayed, unless it is cancelled, ...
Delay(j) ==
    /\ Step(j) = "choose" /\ Free(j) = {} /\ lessee[j].tried = {}
    /\ j \notin cancelled
    /\ lessee' = [lessee EXCEPT ![j] = At("delayed")]
    /\ UNCHANGED <<endpointVars, poolVars, attempts, client, relayVars, faults>>

\* ... or it ends with an error, sooner or later.
NoEndpointFree(j) ==
    /\ Step(j) = "choose" /\ Free(j) = {} /\ lessee[j].tried = {}
    /\ MayEnd(j)
    /\ PublishEnd(j) /\ Over(j)
    /\ UNCHANGED <<endpointVars, poolVars, attempts, client, faults>>

DelayOver(j) ==
    /\ Step(j) = "delayed"
    /\ lessee' = [lessee EXCEPT ![j] = At("queued")]
    /\ UNCHANGED <<endpointVars, poolVars, attempts, client, relayVars, faults>>

\* No slot any more: every endpoint that was free and healthy has failed.
AllFailed(j) ==
    /\ Step(j) = "choose" /\ Free(j) = {} /\ lessee[j].tried # {}
    /\ PublishEnd(j) /\ Over(j)
    /\ UNCHANGED <<endpointVars, poolVars, attempts, client, faults>>

\* The endpoint streams the first event of a chat turn, further ones change
\* nothing; the step remembers that output is committed.
Streams(j) ==
    /\ j \in Chats /\ Step(j) = "call" /\ j \notin cancelled
    /\ PublishOutput(j, lessee[j].slot)
    /\ lessee' = [lessee EXCEPT ![j].step = "streamed"]
    /\ UNCHANGED <<endpointVars, poolVars, attempts, client, faults>>

\* The call returns, or a cancelled stream is left: done or result is published,
\* and the usage record is awaited with the slot still held.
CallSucceeds(j) ==
    /\ Step(j) \in {"call", "streamed"}
    /\ PublishEnd(j)
    /\ circuit' = Success(lessee[j].slot)
    /\ lessee' = [lessee EXCEPT ![j].step = "record"]
    /\ UNCHANGED <<endpointVars, inUse, attempts, client, faults>>

Recorded(j) ==
    /\ Step(j) = "record"
    /\ inUse' = Released(lessee[j].slot)
    /\ Over(j)
    /\ UNCHANGED <<endpointVars, circuit, attempts, client, relayVars, faults>>

\* The key or the call fails: the slot is given back before the usage record.
CallFails(j) ==
    /\ Step(j) \in {"call", "streamed"}
    /\ inUse' = Released(lessee[j].slot)
    /\ circuit' = Failure(lessee[j].slot)
    /\ lessee' = [lessee EXCEPT ![j].step = IF @ = "call" THEN "retry" ELSE "committed"]
    /\ UNCHANGED <<endpointVars, attempts, client, relayVars, faults>>

\* Mutant: a turn that has streamed output is retried elsewhere as well.
RetriesAlways(j) == Step(j) \in {"retry", "committed"}

\* Nothing has reached the client yet.
Retriable(j) == Step(j) = "retry"

\* After the usage record: the next endpoint, or the error of a turn that has
\* already reached the client.
FailureRecorded(j) ==
    /\ \/ /\ Retriable(j)
          /\ lessee' = [lessee EXCEPT ![j] = [At("list") EXCEPT
                                              !.tried = lessee[j].tried \cup {lessee[j].slot}]]
          /\ UNCHANGED relayVars
       \/ /\ Step(j) \in {"retry", "committed"} /\ ~Retriable(j)
          /\ PublishEnd(j) /\ Over(j)
    /\ UNCHANGED <<endpointVars, poolVars, attempts, client, faults>>

-----------------------------------------------------------------------------
(* The clients: BalancerGateway                                            *)

\* runChat and runEmbed up to the subscription: the job is in the queue.
Request(j) ==
    /\ client[j] = "none" /\ Step(j) = "none"
    /\ j \in Embeds => Step(AgentOf[j]) = "call"
    /\ client' = [client EXCEPT ![j] = "waiting"]
    /\ lessee' = [lessee EXCEPT ![j] = At("queued")]
    /\ subject' = [subject EXCEPT ![j] = "open"]
    /\ UNCHANGED <<endpointVars, poolVars, attempts, answered, cancelled, timers, sources,
                   faults>>

\* A client is gone with the events it has not read.
Leave(j) ==
    /\ client' = [client EXCEPT ![j] = "ended"]
    /\ answered' = answered \ {j} /\ sources' = [sources EXCEPT ![j] = {}]

\* The client has read the terminal event.  A chat that ended with an error
\* cancels its job in the finally block.
Answer(j) ==
    /\ client[j] = "waiting" /\ j \in answered
    /\ Leave(j)
    /\ \/ UNCHANGED <<cancelled, timers>>
       \/ j \in Chats /\ Cancel(j)
    /\ UNCHANGED <<endpointVars, poolVars, lessee, attempts, subject, faults>>

\* Mutant: nothing bounds the wait of an embedding.
GiveUpChatOnly(j) ==
    /\ client[j] = "waiting" /\ j \in Chats
    /\ Leave(j) /\ Cancel(j)
    /\ UNCHANGED <<endpointVars, poolVars, lessee, attempts, subject, faults>>

\* Nothing came in time, or the user left: a chat cancels its job, an embedding
\* only stops waiting.
GiveUp(j) ==
    /\ client[j] = "waiting"
    /\ j \in Embeds => j \notin answered
    /\ Leave(j)
    /\ IF j \in Chats THEN Cancel(j) ELSE UNCHANGED <<cancelled, timers>>
    /\ UNCHANGED <<endpointVars, poolVars, lessee, attempts, subject, faults>>

-----------------------------------------------------------------------------
(* Workflow agents: runAgent                                               *)

StartAgent(a) ==
    /\ Step(a) = "none"
    /\ lessee' = [lessee EXCEPT ![a] = At("list")]
    /\ UNCHANGED <<endpointVars, poolVars, attempts, client, relayVars, faults>>

\* leaseWorkflowSlot found nothing: another look in half a second.
AgentWaits(a) ==
    /\ Step(a) = "choose" /\ Free(a) = {}
    /\ lessee' = [lessee EXCEPT ![a] = At("list")]
    /\ UNCHANGED <<endpointVars, poolVars, attempts, client, relayVars, faults>>

\* The query throws, and runAgent with it: nobody tries again.
AgentQueryFails(a) ==
    /\ Step(a) = "list"
    /\ Over(a)
    /\ UNCHANGED <<endpointVars, poolVars, attempts, client, relayVars, faults>>

\* POOL_WAIT_TIMEOUT_MS is over: runAgent throws.
AgentGivesUp(a) ==
    /\ Step(a) = "choose" /\ Free(a) = {}
    /\ Over(a)
    /\ UNCHANGED <<endpointVars, poolVars, attempts, client, relayVars, faults>>

\* The agent is not in the middle of a tool call that waits for an embedding.
Ready(a) == \A j \in Embeds : AgentOf[j] = a => client[j] # "waiting"

\* Mutant: the slot of a failed agent is not given back.
AgentEndsLeaking(a) ==
    /\ Step(a) = "call" /\ Ready(a)
    /\ \/ circuit' = Success(lessee[a].slot) /\ inUse' = Released(lessee[a].slot)
       \/ circuit' = Failure(lessee[a].slot) /\ UNCHANGED inUse
    /\ Over(a)
    /\ UNCHANGED <<endpointVars, attempts, client, relayVars, faults>>

\* fn returns or throws; the finally block releases the slot.
AgentEnds(a) ==
    /\ Step(a) = "call" /\ Ready(a)
    /\ circuit' \in {Success(lessee[a].slot), Failure(lessee[a].slot)}
    /\ inUse' = Released(lessee[a].slot)
    /\ Over(a)
    /\ UNCHANGED <<endpointVars, attempts, client, relayVars, faults>>

-----------------------------------------------------------------------------
(* Administration and restart                                              *)

Change ==
    /\ faults < MaxFaults /\ faults' = faults + 1
    /\ \E e \in Endpoints :
         \/ /\ enabled' = IF e \in enabled THEN enabled \ {e} ELSE enabled \cup {e}
            /\ UNCHANGED <<concurrency, highest>>
         \/ \E n \in Concurrencies \ {concurrency[e]} :
              /\ concurrency' = [concurrency EXCEPT ![e] = n]
              /\ highest' = [highest EXCEPT ![e] = IF n > @ THEN n ELSE @]
              /\ UNCHANGED enabled
    /\ UNCHANGED <<poolVars, lessee, attempts, client, relayVars>>

\* The process is gone with its clients and everything in memory; the queue
\* hands out its jobs again, the active ones as stalled.
Restart ==
    /\ faults < MaxFaults /\ faults' = faults + 1
    /\ inUse' = [e \in Endpoints |-> 0]
    /\ circuit' = [e \in Endpoints |-> [failures |-> 0, open |-> FALSE]]
    /\ lessee' = [l \in Lessees |->
                    CASE Step(l) \in {"none", "over", "failed", "delayed"} -> lessee[l]
                      [] OTHER -> At(IF l \in Agents THEN "over" ELSE "queued")]
    /\ client' = [j \in Jobs |-> IF client[j] = "waiting" THEN "ended" ELSE client[j]]
    /\ subject' = [j \in Jobs |-> "absent"]
    /\ answered' = {} /\ cancelled' = {} /\ timers' = {} /\ sources' = [j \in Jobs |-> {}]
    /\ UNCHANGED <<endpointVars, attempts>>

-----------------------------------------------------------------------------
Init ==
    /\ enabled = Endpoints
    /\ concurrency = Configured /\ highest = Configured
    /\ inUse = [e \in Endpoints |-> 0]
    /\ circuit = [e \in Endpoints |-> [failures |-> 0, open |-> FALSE]]
    /\ lessee = [l \in Lessees |-> At("none")]
    /\ attempts = [j \in Jobs |-> 0]
    /\ client = [j \in Jobs |-> "none"]
    /\ subject = [j \in Jobs |-> "absent"]
    /\ answered = {} /\ cancelled = {} /\ timers = {}
    /\ sources = [j \in Jobs |-> {}]
    /\ faults = 0

Serve(j) ==
    \/ TakeJob(j) \/ ListPool(j) \/ Acquire(j) \/ Delay(j) \/ NoEndpointFree(j) \/ DelayOver(j) \/ AllFailed(j)
    \/ Recorded(j) \/ FailureRecorded(j)
Return(j) == CallSucceeds(j) \/ CallFails(j)
Work(j) == Serve(j) \/ Return(j)
Agent(a) ==
    \/ StartAgent(a) \/ ListPool(a) \/ AgentQueryFails(a) \/ Acquire(a)
    \/ AgentWaits(a) \/ AgentGivesUp(a) \/ AgentEnds(a)
Wait(j) == Answer(j) \/ GiveUp(j)

Next ==
    \/ \E j \in Jobs :
         \/ Work(j) \/ Wait(j) \/ Request(j) \/ Streams(j) \/ QueryFails(j)
         \/ \E kind \in {"end", "cancel"} : CleanUp(j, kind)
    \/ \E a \in Agents : Agent(a)
    \/ \E e \in Endpoints : CircuitCloses(e)
    \/ Change \/ Restart

\* The worker and the agents go on, and timers fire: those of the queue, of the wait,
\* of the clients (the one of a chat not while its turn streams).  The requests of
\* embeddings and agents have a time limit; that of a chat turn has none and may
\* never return.
Fairness ==
    /\ \A j \in Jobs :
         WF_vars(Serve(j)) /\ WF_vars(Step(j) # "streamed" /\ Wait(j)) /\ SF_vars(NoEndpointFree(j))
    /\ \A j \in Embeds : WF_vars(Return(j))
    /\ \A a \in Agents : WF_vars(Agent(a)) /\ SF_vars(AgentGivesUp(a))

Spec == Init /\ [][Next]_vars
FairSpec == Spec /\ Fairness

-----------------------------------------------------------------------------
(* Properties                                                              *)

Steps == {"none", "queued", "delayed", "list", "choose", "call", "streamed", "record", "retry",
          "committed", "over", "failed"}
Pools == UNION {[S -> Concurrencies] : S \in SUBSET Endpoints}

\* Every variable has the type its comment gives it.
TypeOK ==
    /\ enabled \subseteq Endpoints /\ concurrency \in [Endpoints -> Concurrencies]
    /\ highest \in [Endpoints -> Concurrencies] /\ inUse \in [Endpoints -> Nat]
    /\ circuit \in [Endpoints -> [failures : 0..(Threshold - 1), open : BOOLEAN]]
    /\ lessee \in [Lessees -> [step : Steps, slot : Endpoints \cup {NoEndpoint}, pool : Pools,
                               tried : SUBSET Endpoints]]
    /\ attempts \in [Jobs -> 0..MaxAttempts]
    /\ client \in [Jobs -> {"none", "waiting", "ended"}]
    /\ subject \in [Jobs -> {"absent", "open", "complete"}]
    /\ answered \cup cancelled \subseteq Jobs /\ timers \subseteq Jobs \X {"end", "cancel"}
    /\ sources \in [Jobs -> SUBSET Endpoints]
    /\ faults \in 0..MaxFaults

\* The allocator's count of every endpoint is the number of jobs and agents that
\* hold one of its slots: no path through the worker or the agent, with its
\* failovers, errors and restarts, loses a slot or gives one back twice.
Holders(e) == {l \in Lessees : Step(l) \in {"call", "streamed", "record"} /\ lessee[l].slot = e}
SlotsAccounted == \A e \in Endpoints : inUse[e] = Cardinality(Holders(e))

\* An endpoint never serves more requests at once than the highest concurrency
\* it was given, although acquire decides on a pool it read before others took
\* their slots.
NeverOverloaded == \A e \in Endpoints : inUse[e] <= highest[e]

\* A client never sees output of two endpoints in one turn: the failover ends
\* where the first event has been relayed.
NoMixedOutput == \A j \in Jobs : Cardinality(sources[j]) <= 1

\* No subject or cancel flag of the relay is left behind: each has a client that
\* waits, a timer that removes it, or a job that is to end it when its call returns.
\* An embedding whose queue job failed outright is the exception.
NothingLeaks ==
    \A j \in Jobs :
        subject[j] # "absent" \/ j \in cancelled =>
            \/ client[j] = "waiting" \/ <<j, "end">> \in timers \/ <<j, "cancel">> \in timers
            \/ j \notin cancelled /\ Step(j) # "over" /\ (Step(j) = "failed" => j \in Embeds)

\* A chat turn that is with its endpoint: nothing limits how long.
InTurn(j) == j \in Chats /\ Step(j) \in {"call", "streamed"}

\* A job comes to its end, also when no endpoint of its purpose is ever free, healthy
\* or enabled, and when a chat turn never returns the slot the job needs.  It is only
\* in a chat turn itself that a job may stay.
JobsEnd ==
    \A j \in Jobs :
        Step(j) # "none" /\ ~InTurn(j) ~> Step(j) \in {"over", "failed"} \/ InTurn(j)

\* An agent comes to its end and gives its slot back, also when the embedding it
\* waits for needs the very slot it holds, or a chat turn keeps the slot for ever.
AgentsEnd == \A a \in Agents : Step(a) = "list" ~> Step(a) = "over"
=============================================================================
