---------------------------- MODULE RequestQueue ----------------------------
(***************************************************************************)
(* The Redis lists between the clients and the worker: taking a bite in    *)
(* several commands with a linger and a byte cap that pushes requests back,*)
(* while clients keep pushing; the pipeline of responses; the service loop *)
(* and its shutdown (redis_request_queue.py, queue_worker.py, app.py).     *)
(*                                                                         *)
(* Requests are numbered in the order they are pushed.  The left end of    *)
(* the list, where clients push, is the end of the sequence; the worker    *)
(* pops, and pushes back, at the right end, which is the head.             *)
(***************************************************************************)
EXTENDS Naturals, Sequences, FiniteSets, SequencesExt

CONSTANTS
  MaxRequests,  \* bound: requests ever sent
  Sizes,        \* the sizes a request can have
  MaxBytes,     \* bytes in a bite (max_bytes)
  MaxMentions,  \* requests in a bite (max_mentions)
  MaxFaults,    \* bound: crashes and responses that are not delivered
  MayCrash,     \* whether the process may die
  MayStop       \* whether SIGTERM may arrive

ASSUME QueueAssumption ==
  /\ MaxRequests \in Nat
  /\ Sizes \subseteq Nat \ {0}
  /\ MaxBytes \in Nat \ {0}
  /\ MaxMentions \in Nat \ {0}
  /\ MaxFaults \in Nat
  /\ MayCrash \in BOOLEAN
  /\ MayStop \in BOOLEAN

VARIABLES
  size,       \* the sizes of the requests sent so far, by number
  queue,      \* ere_requests, oldest first
  responses,  \* ere_responses, oldest first: the requests answered
  phase,      \* where the worker is
  limit,      \* requests this bite may have
  bite,       \* requests in the bite so far
  waiting,    \* popped, not yet checked against the byte cap
  running,    \* cleared by the signal handler
  faults      \* faults so far (bounded)

vars == <<size, queue, responses, phase, limit, bite, waiting, running, faults>>

Requests == 1..MaxRequests
Phases == {"loop", "blocking", "taking", "capping", "resolving", "stopped"}

TypeOK ==
  /\ size \in Seq(Sizes) /\ Len(size) <= MaxRequests
  /\ queue \in Seq(Requests) /\ responses \in Seq(Requests)
  /\ bite \in Seq(Requests) /\ waiting \in Seq(Requests)
  /\ phase \in Phases
  /\ limit \in 1..MaxMentions
  /\ running \in BOOLEAN
  /\ faults \in 0..MaxFaults

Init ==
  /\ size = <<>> /\ queue = <<>> /\ responses = <<>>
  /\ phase = "loop" /\ limit = MaxMentions
  /\ bite = <<>> /\ waiting = <<>>
  /\ running = TRUE
  /\ faults = 0

Bytes(requests) ==
  LET total[n \in 0..Len(requests)] ==
        IF n = 0 THEN 0 ELSE total[n - 1] + size[requests[n]]
  IN  total[Len(requests)]

Firsts(requests, n) == SubSeq(requests, 1, n)
Rest(requests, n) == SubSeq(requests, n + 1, Len(requests))

-----------------------------------------------------------------------------
\* A client pushes a request (LPUSH).
Send ==
  /\ Len(size) < MaxRequests
  /\ \E bytes \in Sizes : size' = Append(size, bytes)
  /\ queue' = Append(queue, Len(size) + 1)
  /\ UNCHANGED <<responses, phase, limit, bite, waiting, running, faults>>

\* The loop goes round: the worker blocks in BRPOP.
AwaitFirst ==
  /\ phase = "loop" /\ running
  /\ phase' = "blocking"
  /\ UNCHANGED <<size, queue, responses, limit, bite, waiting, running, faults>>

\* Seeded fault: the bite may have no request.
TakeFirstUnsized ==
  /\ phase = "blocking" /\ queue # <<>>
  /\ phase' = "taking"
  /\ limit' \in 0..MaxMentions
  /\ bite' = <<Head(queue)>>
  /\ queue' = Tail(queue)
  /\ UNCHANGED <<size, responses, waiting, running, faults>>

\* BRPOP returns the oldest request, also when the signal came meanwhile; it
\* forms the bite whatever its size.
TakeFirst ==
  /\ phase = "blocking" /\ queue # <<>>
  /\ phase' = "taking"
  /\ limit' \in 1..MaxMentions
  /\ bite' = <<Head(queue)>>
  /\ queue' = Tail(queue)
  /\ UNCHANGED <<size, responses, waiting, running, faults>>

\* BRPOP times out without a request.
WaitTimesOut ==
  /\ phase = "blocking" /\ queue = <<>>
  /\ phase' = "loop"
  /\ UNCHANGED <<size, queue, responses, limit, bite, waiting, running, faults>>

HasRoom == Len(bite) < limit /\ Bytes(bite) < MaxBytes

\* LMPOP, or RPOP with a count: at most as many as the bite still may have.
PopWaiting ==
  /\ phase = "taking" /\ HasRoom /\ queue # <<>>
  /\ LET room == limit - Len(bite)
         n == IF Len(queue) < room THEN Len(queue) ELSE room
     IN  waiting' = Firsts(queue, n) /\ queue' = Rest(queue, n)
  /\ phase' = "capping"
  /\ UNCHANGED <<size, responses, limit, bite, running, faults>>

\* The list after RPUSH of some values, one after the other.
PushBack(values, list) == Reverse(values) \o list

\* Seeded fault: the requests that do not fit are pushed back as they come.
ReturnUnreversed(requests) == PushBack(requests, queue)

\* Seeded fault: only the request that did not fit is pushed back.
ReturnFirst(requests) == PushBack(Firsts(requests, 1), queue)

Return(requests) == PushBack(Reverse(requests), queue)

\* Seeded fault: the bytes the bite already has are not counted.
FitsAlone(n) == Bytes(Firsts(waiting, n)) <= MaxBytes

\* The first n of the popped requests fit in the bytes that are left.
Fits(n) == Bytes(Firsts(waiting, n)) <= MaxBytes - Bytes(bite)

\* The popped requests that fit join the bite; those from the first that does
\* not are pushed back, and end the bite.
ApplyByteCap ==
  /\ phase = "capping"
  /\ \E n \in 0..Len(waiting) :
       /\ Fits(n) /\ (n < Len(waiting) => ~Fits(n + 1))
       /\ bite' = bite \o Firsts(waiting, n)
       /\ IF n < Len(waiting)
          THEN queue' = Return(Rest(waiting, n)) /\ phase' = "resolving"
          ELSE phase' = "taking" /\ UNCHANGED queue
  /\ waiting' = <<>>
  /\ UNCHANGED <<size, responses, limit, running, faults>>

\* Seeded fault: the bite waits until it is full.
StopTakingFull ==
  /\ phase = "taking" /\ ~HasRoom
  /\ phase' = "resolving"
  /\ UNCHANGED <<size, queue, responses, limit, bite, waiting, running, faults>>

\* The bite is full, or the queue is drained and the linger has passed.
StopTaking ==
  /\ phase = "taking"
  /\ ~HasRoom \/ queue = <<>>
  /\ phase' = "resolving"
  /\ UNCHANGED <<size, queue, responses, limit, bite, waiting, running, faults>>

NextRound ==
  /\ phase' = "loop"
  /\ bite' = <<>>
  /\ waiting' = <<>>

\* The bite is resolved and one response per request pushed, in order.
SendResponses ==
  /\ phase = "resolving"
  /\ responses' = responses \o bite
  /\ NextRound
  /\ UNCHANGED <<size, queue, limit, running, faults>>

\* A response that cannot be serialised is left out; when the pipeline breaks,
\* only the first responses are in the list.  Both are logged, nothing more.
LoseResponses ==
  /\ phase = "resolving" /\ faults < MaxFaults
  /\ \/ \E n \in 0..Len(bite) - 1 : responses' = responses \o Firsts(bite, n)
     \/ \E i \in DOMAIN bite : responses' = responses \o RemoveAt(bite, i)
  /\ faults' = faults + 1
  /\ NextRound
  /\ UNCHANGED <<size, queue, limit, running>>

\* The handler of SIGTERM and SIGINT.
Signal ==
  /\ MayStop /\ running
  /\ running' = FALSE
  /\ UNCHANGED <<size, queue, responses, phase, limit, bite, waiting, faults>>

\* Seeded fault: the handler's flag is looked at in the middle of a bite.
StopAtOnce ==
  /\ phase \in {"loop", "blocking", "taking"} /\ ~running
  /\ phase' = "stopped"
  /\ UNCHANGED <<size, queue, responses, limit, bite, waiting, running, faults>>

\* The loop ends between two bites.
Stop ==
  /\ phase = "loop" /\ ~running
  /\ phase' = "stopped"
  /\ UNCHANGED <<size, queue, responses, limit, bite, waiting, running, faults>>

\* The process dies, or a Redis command of take() raises and ends the loop;
\* it is started again.
CrashAndRestart ==
  /\ MayCrash /\ phase # "stopped" /\ faults < MaxFaults
  /\ faults' = faults + 1
  /\ running' = TRUE
  /\ NextRound
  /\ UNCHANGED <<size, queue, responses, limit>>

Work == AwaitFirst \/ TakeFirst \/ WaitTimesOut \/ PopWaiting \/ ApplyByteCap
          \/ StopTaking \/ SendResponses \/ LoseResponses \/ Stop

Next == Send \/ Work \/ Signal \/ CrashAndRestart

\* The worker's loop runs, and a linger ends.
Spec == Init /\ [][Next]_vars /\ WF_vars(Work)

-----------------------------------------------------------------------------
\* Every request that is somewhere, from answered to not yet taken.
Line == responses \o bite \o waiting \o queue

\* Requests are taken and answered in the order they were sent, and none is
\* in two places: neither pushing back what exceeds the byte cap while clients
\* push, nor crashes and lost responses, change the order or duplicate one.
InArrivalOrder == \A i, j \in DOMAIN Line : i < j => Line[i] < Line[j]

\* Without a fault no request disappears, also when the worker is stopped.
EveryRequestIsSomewhere == Len(Line) = Len(size)
NothingLost == faults = 0 => EveryRequestIsSomewhere

\* A bite keeps to both limits; only a single request may exceed the bytes.
BiteWithinLimits ==
  /\ Len(bite) <= limit
  /\ Len(bite) > 1 => Bytes(bite) <= MaxBytes

\* A request that was sent is answered unless a fault comes first, or a stop
\* while it waits in the list: what the worker holds when the signal arrives is
\* answered or handed back.
EveryRequestIsAnswered ==
  \A r \in Requests : r <= Len(size) ~>
    r \in Range(responses) \/ faults > 0 \/ (~running /\ r \in Range(queue))

\* The bites taken in several commands are prefixes taken at once.
Held == IF phase \in {"taking", "capping"} THEN bite \o waiting ELSE <<>>
Contract == INSTANCE BiteQueue WITH
  sent <- Len(size), inbox <- Held \o queue,
  taken <- IF phase = "resolving" THEN bite ELSE <<>>, answers <- responses
BitesAreAtomic == Contract!Spec
=============================================================================
