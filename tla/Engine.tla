------------------------------- MODULE Engine -------------------------------
(***************************************************************************)
(* The engine and its client: runs of the demo client against the two Redis*)
(* lists, the worker and its database (demo.py, queue_worker.py,           *)
(* redis_request_queue.py, app.py).                                        *)
(*                                                                         *)
(* Composition of the parts by what they promise: the worker resolves a    *)
(* bite by registering new mentions for good (StableClustering), all of    *)
(* them or, after a failure, some.  The client does not push at the end of *)
(* the list that RequestQueue's clients use, and its requests are far from *)
(* the byte cap, so bites are taken here without it, in several commands.  *)
(* The client may be interrupted and started again with other data while   *)
(* the worker is busy with what an earlier run has sent.                   *)
(***************************************************************************)
EXTENDS Naturals, Sequences, FiniteSets, SequencesExt

CONSTANTS
  Ids,        \* request ids; source and type are the same for all
  Contents,   \* attribute sets
  None,       \* no content
  DataSets,   \* the files the client is run with: sequences of requests
  MaxBite,    \* requests in a bite, at most
  MaxRuns,    \* bound: runs of the client
  MaxFaults   \* bound: failures of the worker

Requests == [id : Ids, content : Contents]
IdsOf(requests) == {r.id : r \in Range(requests)}

\* The ids of a file are distinct.
ASSUME EngineAssumption ==
  /\ None \notin Contents
  /\ \A d \in DataSets : /\ d # <<>> /\ d \in Seq(Requests)
                         /\ Cardinality(IdsOf(d)) = Len(d)
  /\ MaxBite \in Nat \ {0} /\ MaxRuns \in Nat /\ MaxFaults \in Nat

\* An error response names the request but not the mention.
Responses == [kind : {"resolved", "error"}, request : Requests]

VARIABLES
  text,       \* the database: the content of each stored mention
  requests,   \* ere_requests; its head is popped next
  responses,  \* ere_responses; its head is popped next
  phase,      \* where the worker is
  bite,       \* the requests it has taken
  replies,    \* their responses, once they are resolved
  client,     \* what the client does
  data,       \* the file of its run
  sent,       \* requests of the file sent so far
  received,   \* ids of the responses counted so far
  runs,       \* runs so far (bounded)
  faults      \* failures so far (bounded)

worker == <<phase, bite, replies, text>>
run == <<client, data, sent, received, runs>>
vars == <<worker, run, requests, responses, faults>>

TypeOK ==
  /\ text \in [Ids -> Contents \cup {None}]
  /\ requests \in Seq(Requests) /\ responses \in Seq(Responses)
  /\ phase \in {"loop", "taking", "resolving", "responding"}
  /\ bite \in Seq(Requests) /\ Len(bite) <= MaxBite
  /\ replies \in Seq(Responses)
  /\ phase = "responding" => Len(replies) = Len(bite)
  /\ client \in {"off", "sending", "listening", "complete", "failed"}
  /\ data \in DataSets \cup {<<>>}
  /\ sent \in 0..Len(data)
  /\ received \subseteq IdsOf(data)
  /\ runs \in 0..MaxRuns /\ faults \in 0..MaxFaults

Init ==
  /\ text = [id \in Ids |-> None]
  /\ requests = <<>> /\ responses = <<>>
  /\ phase = "loop" /\ bite = <<>> /\ replies = <<>>
  /\ client = "off" /\ data = <<>> /\ sent = 0 /\ received = {}
  /\ runs = 0 /\ faults = 0

-----------------------------------------------------------------------------
(***************************************************************************)
(* The client.                                                             *)
(***************************************************************************)
Running == client \in {"sending", "listening"}

\* A run begins: both lists are deleted, the worker's bite is not.
StartRun ==
  /\ ~Running /\ runs < MaxRuns
  /\ client' = "sending"
  /\ data' \in DataSets
  /\ sent' = 0 /\ received' = {}
  /\ runs' = runs + 1
  /\ requests' = <<>> /\ responses' = <<>>
  /\ UNCHANGED <<worker, faults>>

\* Seeded fault: old responses are deleted after the last request was sent.
SendNextClearing ==
  /\ client = "sending"
  /\ sent' = sent + 1
  /\ requests' = <<data[sent']>> \o requests
  /\ IF sent' = Len(data) THEN client' = "listening" /\ responses' = <<>>
                          ELSE UNCHANGED <<client, responses>>
  /\ UNCHANGED <<worker, data, received, runs, faults>>

\* RPUSH puts the request at the end the worker pops.
SendNext ==
  /\ client = "sending"
  /\ sent' = sent + 1
  /\ requests' = <<data[sent']>> \o requests
  /\ client' = IF sent' = Len(data) THEN "listening" ELSE client
  /\ UNCHANGED <<worker, data, received, runs, responses, faults>>

\* Seeded fault: any response counts.
ReceiveUnchecked ==
  /\ client = "listening" /\ responses # <<>>
  /\ received' = received \cup {Head(responses).request.id}
  /\ client' = IF Cardinality(received') = Len(data) THEN "complete" ELSE client
  /\ responses' = Tail(responses)
  /\ UNCHANGED <<worker, data, sent, runs, requests, faults>>

\* The ids of the responses tell how many are missing; an error without the
\* id of its mention, or the mention of another file, ends the client.
Receive ==
  /\ client = "listening" /\ responses # <<>>
  /\ LET response == Head(responses)
     IN  IF response.kind = "resolved" /\ response.request.id \in IdsOf(data)
         THEN /\ received' = received \cup {response.request.id}
              /\ client' = IF Cardinality(received') = Len(data) THEN "complete" ELSE client
         ELSE client' = "failed" /\ UNCHANGED received
  /\ responses' = Tail(responses)
  /\ UNCHANGED <<worker, data, sent, runs, requests, faults>>

\* The user stops the client, which has no timeout of its own.
Interrupt ==
  /\ Running
  /\ client' = "off"
  /\ UNCHANGED <<worker, data, sent, received, runs, requests, responses, faults>>

-----------------------------------------------------------------------------
(***************************************************************************)
(* The worker.                                                             *)
(***************************************************************************)
Pop(n) == requests' = SubSeq(requests, n + 1, Len(requests))

TakeFirst ==
  /\ phase = "loop" /\ requests # <<>>
  /\ bite' = <<Head(requests)>> /\ Pop(1)
  /\ phase' = "taking"
  /\ UNCHANGED <<replies, text, run, responses, faults>>

\* More of the waiting requests, while the bite has room for them.
TakeMore ==
  /\ phase = "taking"
  /\ \E n \in 1..MaxBite - Len(bite) :
       /\ n <= Len(requests)
       /\ bite' = bite \o SubSeq(requests, 1, n) /\ Pop(n)
  /\ UNCHANGED <<phase, replies, text, run, responses, faults>>

\* Seeded fault: the worker waits for a full bite.
StopTakingFull ==
  /\ phase = "taking" /\ Len(bite) = MaxBite
  /\ phase' = "resolving"
  /\ UNCHANGED <<bite, replies, text, run, requests, responses, faults>>

\* The bite has the size it should have, or the linger has passed.
StopTaking ==
  /\ phase = "taking"
  /\ phase' = "resolving"
  /\ UNCHANGED <<bite, replies, text, run, requests, responses, faults>>

\* Of the positions "read", whose guard could read the tables: the mentions that
\* are not stored, and the content each is resolved with, that of its first request.
IdsAt(read) == {bite[p].id : p \in read}
New(read) == {id \in IdsAt(read) : text[id] = None}
First(id, read) == CHOOSE p \in read : /\ bite[p].id = id
                                       /\ \A q \in read : bite[q].id = id => p <= q
Known(id, read) == IF text[id] = None THEN bite[First(id, read)].content ELSE text[id]

Register(ids, read) ==
  text' = [id \in Ids |-> IF id \in ids THEN Known(id, read) ELSE text[id]]

Answer(p, resolved) ==
  [kind |-> IF resolved THEN "resolved" ELSE "error", request |-> bite[p]]

\* Seeded fault: the repeats of a mention are resolved although its first request failed.
ReplyToUnstored(p, read, failed) ==
  Answer(p, /\ p \in read /\ Known(bite[p].id, read) = bite[p].content
            /\ bite[p].id \in failed => p # First(bite[p].id, read))

\* A conflict with the stored or the first content, a mention whose resolution
\* failed, and all of its repeats, are answered with an error.
ReplyTo(p, read, failed) ==
  Answer(p, /\ p \in read /\ Known(bite[p].id, read) = bite[p].content
            /\ bite[p].id \notin failed)

Resolved(read, failed) ==
  /\ phase = "resolving"
  /\ Register(New(read) \ failed, read)
  /\ replies' = [p \in DOMAIN bite |-> ReplyTo(p, read, failed)]
  /\ phase' = "responding"
  /\ UNCHANGED <<bite, run, requests, responses>>

Resolve == Resolved(DOMAIN bite, {}) /\ UNCHANGED faults

Fault == faults < MaxFaults /\ faults' = faults + 1

\* Some guards raise, and after the fallback some mentions are still not stored.
ResolvePartly ==
  /\ Fault
  /\ \E read \in SUBSET DOMAIN bite : \E failed \in SUBSET New(read) : Resolved(read, failed)

\* A read for a repeat of a new mention raises: what could be stored is, and all
\* answers are errors.
Raise ==
  /\ phase = "resolving" /\ Fault
  /\ \E read \in SUBSET DOMAIN bite :
       /\ \E p \in read : bite[p].id \in New(read) /\ p # First(bite[p].id, read)
       /\ \E stored \in SUBSET New(read) : Register(stored, read)
  /\ replies' = [p \in DOMAIN bite |-> Answer(p, FALSE)]
  /\ phase' = "responding"
  /\ UNCHANGED <<bite, run, requests, responses>>

NextRound == phase' = "loop" /\ bite' = <<>> /\ replies' = <<>>

Respond ==
  /\ phase = "responding"
  /\ responses' = responses \o replies
  /\ NextRound
  /\ UNCHANGED <<text, run, requests, faults>>

\* The pipeline breaks, or a response cannot be serialised.
LoseReplies ==
  /\ phase = "responding" /\ Fault
  /\ \/ \E n \in 0..Len(replies) - 1 : responses' = responses \o SubSeq(replies, 1, n)
     \/ \E i \in DOMAIN replies : responses' = responses \o RemoveAt(replies, i)
  /\ NextRound
  /\ UNCHANGED <<text, run, requests>>

\* The process dies, before, between or after its commits, and is started again.
CrashAndRestart ==
  /\ phase # "loop" /\ Fault
  /\ IF phase = "resolving"
     THEN \E read \in SUBSET DOMAIN bite : \E stored \in SUBSET New(read) : Register(stored, read)
     ELSE UNCHANGED text
  /\ NextRound
  /\ UNCHANGED <<run, requests, responses>>

ClientLoop == SendNext \/ Receive
Work == TakeFirst \/ TakeMore \/ StopTaking \/ Resolve \/ ResolvePartly \/ Raise \/ Respond \/ LoseReplies

Next == StartRun \/ ClientLoop \/ Interrupt \/ Work \/ CrashAndRestart

\* Client and worker are two processes, each in a loop of its own.
Spec == Init /\ [][Next]_vars /\ WF_vars(ClientLoop) /\ WF_vars(Work)

-----------------------------------------------------------------------------
\* A resolution, wherever it is on its way and whichever run asked for it,
\* is of a mention that is stored with the content that was asked for.
ResolutionsAreStored ==
  \A response \in Range(responses) \cup Range(replies) :
    response.kind = "resolved" => text[response.request.id] = response.request.content

\* A run that counts all its responses as received has all its mentions stored,
\* also if some of the responses were meant for an earlier run.
CompleteMeansStored == client = "complete" => \A id \in IdsOf(data) : text[id] # None

\* Without a fault, every request of the run is somewhere until it is received:
\* a bite of an earlier run, and the lists that were deleted, take nothing away.
Pending == IdsOf(requests) \cup IdsOf(bite) \cup {r.request.id : r \in Range(responses)}
NothingVanishes ==
  client = "listening" /\ faults = 0 => IdsOf(data) \subseteq received \cup Pending

\* A run ends unless a fault takes one of its answers: the client, which waits
\* without a timeout, has them all or fails on one.
RunsEnd == client = "listening" ~> client # "listening" \/ faults > 0
=============================================================================
