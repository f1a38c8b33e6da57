# Entity resolution engine: specification and proofs

TLA+ modules for the OP-TED basic entity resolution engine (ERE), TLC
configurations that check them on small instances, and proofs checked by TLAPS.
Paths below are relative to the repository; `service` is
`src/ere/services/entity_resolution_service.py`, `linker` is
`src/ere/adapters/splink_linker_impl.py`, `worker` is
`src/ere/entrypoints/queue_worker.py`, `queue` is
`src/ere/adapters/redis_request_queue.py`, `demo` is `demo/demo.py`.

## The system

Clients push resolution requests onto a Redis list. One worker process takes
them in *bites*, maps each request to a *mention* (an id and attributes), and
answers with ranked candidate clusters. Mentions, links between them (pairs with
a similarity score) and the assignment of mentions to clusters are kept in three
DuckDB tables. Scores come from a Splink model, which starts with cold-start
parameters and is trained once, by a background thread, when enough mentions are
stored.

| Component | State | Operations | Interacts with | What makes it correct |
|---|---|---|---|---|
| Request queue (`queue`, `worker`) | two Redis lists, the bite being taken | take with several pops, linger and byte cap; push responses | clients push concurrently; hands bites to the service | order, no loss without a fault, limits, a bite is a prefix of the queue |
| Service loop (`src/ere/entrypoints/app.py`) | `running` | loop, signal handler | everything | stops between bites, answers what it took |
| Service (`EntityResolutionService`) | responses, `pending`, `repeats`, `first_seen` of a bite | guards, resolve pending, one-by-one fallback, cached answers | resolver, repositories | replies agree with the tables; conflicts are real; every bite is answered |
| Resolver (`EntityResolver`) | links, clusters decided in the bite | score, assign, rank, keep links | linker, repositories, unit of work, trainer | one cluster per mention, decided by its strongest link, never changed |
| Repositories, unit of work | three tables | insert, read, BEGIN, COMMIT, ROLLBACK | resolver | all or nothing |
| Linker: model lifecycle (`linker`, `src/ere/services/model_lifecycle.py`) | `model_source`, pending settings, load error, two locks, the model file | load, train, hand over, rebuild | worker thread, trainer threads, file system | one model, frozen, the same after a restart |
| Bite sizer (`src/ere/services/bite_sizer.py`) | moving average of the rate | `limit`, `observe` | worker | keeps to the target duration, recovers |
| Linker: blocking, names (`linker`, `src/ere/models/resolver/blocking.py`) | columns of the table, normalised copies, new records | which pairs are scored | DuckDB, Splink (the scores are external: any) | a pair is scored once and if a rule admits it |
| RDF mapper, configuration (`src/ere/adapters/rdf_mapper.py`, `src/ere/entrypoints/bootstrap.py`) | the configuration of the running process | map a request, start, refuse to start | repositories, linker | rows written under one configuration are read rightly under the next |
| Tracing (`src/ere/services/tracing.py`) | deferred stages of a unit | emit, defer, flush | worker, service, resolver | what is logged happened, in order, once |
| Demo client (`demo`) | file, requests sent, ids received | delete lists, send, listen | the Redis lists | what it counts as done is done |
| Connections, logging format | none that decides anything | | | not modelled |

The hard behaviours: an exception at any database or linker call, in the middle
of a transaction and followed by a second attempt for each mention; members of a
bite that link to each other before any is stored; repeats and conflicts within
a bite; death of the process at any step; clients that push while a bite is cut
back to the byte cap; training threads that race with each other and with the
worker that takes the model over; a model file that is half written; a feedback
loop between bite duration and bite size; a database that outlives the
configuration it was written under; a client that is started again while the
worker still has the requests of its previous run. `PROJECT.json` lists each one, with its
line, under `hazards`.

## The modules

| Module | Models |
|---|---|
| `Candidates` | what follows from a mention's links: cluster, ranking, kept links (`service` 216-259, 351-411). Pure operators |
| `Service` (extends `Candidates`) | a bite from `TakeBite` to `SendResponses`: guards, unit of work, fallback, replies, tables |
| `StableClustering` | abstract: mentions are registered once and for all |
| `ServiceProofs` | theorems about `Service`: types, one cluster for each mention, the contract |
| `ReplyProofs` (extends `ServiceProofs`) | theorems about its replies, and about what clusters and candidates follow from |
| `MCService` | symmetry for `Service` |
| `Tracing` (extends `Service`) | the trace of each request of a bite |
| `TraceProofs` (extends `ReplyProofs`) | theorems about `Tracing` |
| `RequestQueue` | the Redis lists, `take`, responses, the loop and its stop |
| `BiteQueue` | abstract: a bite is a prefix of the queue, taken at once |
| `QueueProofs` | theorems about `RequestQueue`, and that it implements `BiteQueue` |
| `MCRequestQueue` | request sizes for `RequestQueue` |
| `ModelLifecycle` | loading, training, saving and handing over the model |
| `ModelProofs` | theorems about `ModelLifecycle` |
| `BiteSizer` | the size of the next bite |
| `SizerProofs` | theorems about `BiteSizer` |
| `SearchSpace` | starts with changing configurations, rows, comparison with stored rows, which pairs are scored |
| `SearchProofs` | theorems about `SearchSpace` |
| `MCSearchSpace` | configurations and documents for `SearchSpace` |
| `Engine` | the demo client, the two lists, the worker and its database, composed |
| `EngineProofs` | theorems about `Engine` |
| `MCEngine` | files for the client |

### Service

`store` is what is committed, `work` what the worker's connection sees: they
differ only inside a transaction. A row of `mentions` is counted because the
table has no key; `text` stands for the attributes; links and clusters are sets
of rows. The worker is in one of five phases:

- `serving`: `Guard` answers or sorts each request in order (`_guard`);
  `BeginUnit` starts `resolve_batch` for all pending mentions, or, after the
  bite failed (`fallback`), for one of them; `RespondCached` and `RepeatRaises`
  treat the repeats; `SendResponses` ends the bite.
- `scoring`: `AssignCluster` decides one mention after the other, in arrival
  order, from links to stored mentions and earlier members of the unit;
  `SaveUnit` writes links and clusters.
- `saved`: `Commit`. `FailUnit` is an exception in `scoring` or `saved`: the
  transaction is rolled back, a mention alone gets an error, several are
  resolved one at a time.
- `committed`: `FinishUnit` hands the results out. `ThreadFault` is
  `Thread.start` raising at this point (`service` 151).
- `idle`: no bite. `CrashAndRestart` leads here from anywhere.

The linker may return any links with any scores. Scores are the ranks
`1..MaxScore`. The score of a pair need not be the same when it is scored again
after a rollback. The row order of queries without ORDER BY is any order, but
the same one for `max`, `sorted` and `nlargest` over the same rows: taking the
orders apart would let a tie be broken in ways the code cannot produce.

Left out: columns of type REAL round scores when they are stored, so two scores
that differ when ranked could tie when read back; `top_n` of zero, which leaves
answers empty; the kind of error a failed unit is reported with.

### RequestQueue

Requests are numbered in the order they are pushed. `AwaitFirst` is the test of
`running` and the start of BRPOP, so a signal can come while the worker blocks.
`PopWaiting` and `ApplyByteCap` are two steps, since clients may push between
LMPOP and RPUSH; RPUSH of several values is one command. The limit of a bite is
any number that the sizer can give. The linger is a choice: a drained queue may
end the bite or be looked at again. `LoseResponses` is a response that cannot be
serialised or a pipeline that breaks, `CrashAndRestart` the death of the process
or an exception of Redis that ends the loop.

### ModelLifecycle

Each of three threads is at a point of `train()`: the main thread before it
consumes, the thread the worker starts, and another caller of the public
`EntityResolver.train`. Each point at which another thread can get in between is
a step: the check, the lock, the check under the lock, training, opening and
writing the file, handing over, leaving. Models are numbered as they are
trained; a file is absent, broken or a model. The worker reads the pending
settings, rebuilds its linker and clears the settings in three steps
(`_apply_trained_settings`). A training that raises out of `train()` ends its
thread, or the process at start-up: that is `TrainingFails` or `Crash`. It
starts from any file of an earlier version, also with fewer mentions than the
threshold.

### BiteSizer

The average is an integer number of requests per `Scale` ticks, rounded down;
the code uses floating point. The duration of a bite is an assumption of the
model: an overhead, a cost for each request, and a stall now and then. Rates
are measured from such bites only.

### Tracing

`Tracing` adds one variable, the events logged of each position of the last
bite, and conjoins to each action of `Service` what the code logs in that step.
`TraceEvent`'s order is `LifeCycle`. The stages `scored` and `clustered` are
recorded by `DeferredStage` while a unit is decided and logged by
`LogUnit` after its commit, before the training thread is started (`service`
146-151): so a unit that fails leaves nothing, and a `ThreadFault` leaves the
traces of what was stored. An event keeps its stage and what the properties need
of it: the guard's outcome, the cluster of the decision.

### SearchSpace

From the text of a request to the pairs that are scored. A configuration has the
mapped fields of `rdf_mapping.yaml` and, of `resolver.yaml`, the entity fields,
the normalised fields, the rules and the field of the EM training rule. `Start`
makes the checks of the program in their order; `init_schema` keeps the columns
of an existing table, also when the start fails afterwards (`FailStart`). The
database stays when the process stops, and the next start may use any
configuration. A bite is one step, since what may fail in it is in `Service`:
its rows are inserted, its records built, and every pair of a record and a row
that a rule admits is scored, except those `assign` drops (oneself and later
members of the bite, `service` 206-216). `SearchSpace` starts with an empty
database.

`Comparable` states the rules over documents as they are documented: equal values
admit a pair, and a missing value equals nothing (`linker` 64). The code keeps to
it but for one case: a missing value is NULL in a row but an empty text in a new
record (`linker` 297), so it equals an empty text that is stored.
`MissingMatchesNothing` forbids that and is refuted; `LinksFollowRules` leaves
open whether more is scored where a rule reads a field with an empty text on the
stored side and no value on the new one (`EmptyMeetsMissing`), and nothing else. A
name that normalises to nothing is never similar to any.

### Engine

The composition, by what the parts promise: the database is the content of each
stored mention and only grows (`StableClustering`), a bite is taken in several
commands, and resolving it registers the new mentions among the positions whose
guard could read, or some of them after a failure. `Resolve` is the bite without
a fault; `ResolvePartly` the fallback; `Raise` the read for a repeat that fails
the whole bite after its commit (`service` 664); `CrashAndRestart` the death of
the process before, between or after commits. Thread faults are left to
`Service`, and the byte cap to `RequestQueue`: the demo's requests are
far below 50 MB.

The client deletes both lists when it starts (`StartRun`), sends its file with
RPUSH, which is the end the worker pops from (so the worker sees the last
request first, and `SendNext` puts it at the head), and reads responses until it
has one for each id. It waits without a timeout; a user may interrupt it. An
error response lacks the id of its mention, and the client fails on it; a
response for another file fails it too. Since ids are all it compares, an answer
to an earlier run counts for a later one, also if that one asked with other
content: `CompleteMeansStored` says what this still guarantees, that the mention
is stored, and no more.

## What is checked

Passing runs:

| Run | Question | Instance |
|---|---|---|
| `service_clusters` | do tables and replies agree whatever is repeated, conflicts, fails or dies, and do clusters and answers follow from the links? | 3 mentions, 2 contents, 3 scores, threshold 2, `top_n` 1, bites of 3, database in memory, crashes, training from 2 stored mentions on, a training thread that does not start |
| `service_traces` | do the traces say what happened, does what is stored stay, and is every bite answered? | 2 mentions, 2 contents, bites of 2, a training thread that does not start, database in a file, crashes |
| `queue_bites` | is a bite a prefix of the queue, in order and within limits, and is every request answered? | 5 requests of 1 or 2 bytes, bites of 3, a fault, a stop |
| `model_lifecycle` | is there one model, and does it stay? | threshold 2 of 4 mentions, a crash, a fault, two other calls |
| `bite_sizer` | does the size keep to the target and recover? | bites up to 30, of which 17 take the target of 20 ticks |
| `search_space` | which pairs are scored and which re-submissions refused, across configurations? | 3 mentions, 5 documents with missing, empty and vanishing values, 6 configurations, bites of 2, any number of starts |
| `engine` | do lists, database and the client's count agree, and does a run end? | 3 files of 2 requests that share mentions, with equal and other content, 3 runs, 2 faults, bites of 3 |

The bounds are the smallest in which each hazard occurs. Three requests hold two
of the same mention, equal or in conflict, and a bystander that makes their unit
fail with them; what a bite leaves is met by the next one. Three mentions allow a chain (a link to a member of a
cluster that is not its founder), two clusters in one ranking, a cut at `top_n`,
and bites of every size; with `MaxScore` 3 and `Threshold` 2 there are scores
below, at and above the threshold. The same invariants were also checked once
with three mentions and `top_n` 2 (1.95 million states, no thread fault), and all but
`AnswersFollowLinks` with four mentions, two scores and `top_n` 2. Five requests and a limit of three
allow two bites with requests that go back while others are pushed. Four mentions
and bites of two cross a threshold of two from 0 and from 1, exactly and beyond.
The six configurations of `search_space` are two like the shipped ones, one
without copies, one with another copy, one with a field that is not mapped and
one that is refused; three mentions are one stored and a bite of two, or three
arrivals under three configurations. Three runs of the client are two
interrupted ones and a third that meets the leavings of both; files of two
requests and bites of three let a bite hold requests of two runs.

Bounds that are not in the code: `MaxRequests`, `MaxFaults`, `MaxThreadFaults`,
`MaxCrashes`, `MaxCalls`, `MaxStored` and `MaxRuns` limit what the environment
does; `MaxBite` is the code's own limit. `service_clusters` has the CONSTRAINT
`FaultyBiteIsLast`: a bite whose training thread does not start is followed to its
answers, through the fallback that resolves its mentions again, and no further;
`service_traces` goes on after it. `service_clusters` and `search_space`
use symmetry over mentions (the first over contents too); they have no liveness
property. `queue_bites` switches the deadlock check off because
a stopped worker is a proper end, `engine` because the runs of the client are
bounded.

`OneClusterPerMention`, `FoundersStay`, `MembershipFollowsLinks`, `CandidatesExist`,
`AnswersFollowLinks`, `AssignmentsStand`, `ClusteringIsStable` and `StagesInOrder`
are about behaviours up to the first training thread that could not be started, and say
so by `threadFaults = 0`. `MentionsAreStoredOnce` is `OneClusterPerMention` without the
condition, and refuted. `ClusteringIsStable` is `Contract!Spec` with the condition in its
action: each change of the tables up to then is a step of `StableClustering`. Type
correctness, what replies say and what traces say are checked beyond it.
`RepliesMatchStore` says for each kind of reply what the tables hold: a
resolution is of a mention stored with the content of the request
(`ResolutionsHold`), a conflict has a stored or earlier content that differs
(`ConflictsAreReal`), and an internal error of a new mention or of its repeat
means that it is not stored (`FailuresLeaveNothing`). The first two are checked
and proved with any number of thread faults; the third only as long as none
happened. After one the code breaks it: the unit is committed when
`Thread.start` raises (`service` 151), and a mention alone is then answered with
an internal error although it is stored.

`AnswersFollowLinks` compares each resolution with the tables at the moment it is
sent: a cluster has the score of the best stored link into it, no cluster that a
link leads to is missing, nor the own one, but for what `top_n` cuts off. A new
mention is answered from its own links, before they are cut for storing
(`service` 259), so a score beyond the stored ones is allowed if the stored ones
are as many as fit; a repeat is answered from what is stored after the bite, and
a mention stored earlier from what was stored before it.

Refuted runs, each the statement of a document that the code does not keep
(`findings` in `PROJECT.json` quote them):

| Run | Shows |
|---|---|
| `finding_own_cluster` | the own cluster can be cut off at `top_n` |
| `finding_thread_fault` | a training thread that cannot be started makes a committed bite look failed, and its mentions are stored twice |
| `finding_broken_model` | a training that fails while saving leaves a broken model file, which blocks training after the next start |
| `finding_missing_value` | a stored empty text is linked to the missing value of a later record, though a missing value is said to match nothing |
| `finding_narrow_fields` | under a configuration that stores fewer fields than are mapped, like two of the shipped ones, re-submitting a request unchanged is a conflict |

Every property of a passing run comes with a seeded fault that violates it; the
faulty operators stand before the right ones, with the comment "Seeded fault".

### Fairness

`service_traces` assumes that the worker's loop goes on while it has a bite
(weak fairness of `TracedWork`): one thread runs straight through the code. Nothing is
assumed about clients, nor that anything succeeds. `queue_bites` assumes the same
of the loop, which includes that a linger ends. `model_lifecycle` assumes that a
process that died is started again (the container's restart policy), that the
worker finishes a bite it began and that each training thread goes on; it does
not assume that requests come, that another caller calls, or that a bite
succeeds. `bite_sizer` assumes a next bite. `engine` assumes that the client's
loop and the worker's each go on, being two processes (weak fairness of
`ClientLoop` and of `Work`, apart); not that a user stops a client or
starts the next, and not that a bite succeeds.

## What is proved

`ServiceProofs` holds for every number of mentions, contents and scores, every
bite size, threshold and `top_n`:

- `TypeCorrect`: `Spec => []TypeOK`, without further assumption.
- `OneCluster`: every stored mention has one row and exactly one cluster.
- `FoundersRemain`: every cluster keeps the founder it is named by.
- `AssignmentsAreFinal`: no step changes the cluster or content of a stored
  mention, if the database is in a file.
- `ServiceImplementsContract`: `Service` implements `StableClustering`.

All but the first are about behaviours up to the first thread fault, which the
properties say by `threadFaults = 0`; `finding_thread_fault` shows why. But for the
file of `AssignmentsAreFinal`, the only assumptions are those on the constants.

`OneClusterPerMention` is not inductive: a commit would have to know what the
unit has written into `work`. The inductive invariant `IInv` adds

- `TablesSound(store)`: each mention has no row, content and cluster, or one row,
  a content and one cluster; a cluster's founder belongs to it;
- `PendingDistinct`: a bite has at most one pending position for each mention;
- `WorkInv`: `work` is `store` outside a transaction; in `scoring` it has the
  rows of the unit and the clusters of `store`, and every decided cluster is the
  mention's own, one with a stored founder, or one whose founder was decided
  earlier in the unit; in `saved` it is sound and differs from `store` in the
  unit's mentions only;
- `UnitInv`: the unit's positions are pending and not answered, and the mention
  of such a position is not stored, until the unit is committed.

A thread fault ends `IInv` for good, since `threadFaults` never falls: what is
invariant is `SafeInv`, `TypeOK` and `threadFaults = 0 => IInv`.

The argument, action by action: a guard only makes pending what is not
clustered, which by `TablesSound` is not stored; nothing is stored between the
guards and the unit, except by units of other mentions (`PendingDistinct`); so
`WithMentions` adds first rows; a decision can only join a cluster whose founder
belongs to it; the commit makes `store` the sound `work`; a failure restores
`work` from `store`. The refinement follows: `Commit` is `Register`, a crash with
a database in memory is `Forget`, and all else stutters.

`ModelProofs` holds for every threshold, bite size and bound, with and without a
model file, with the database in a file or in memory; it assumes only what is
assumed of the constants:

- `LifecycleTypes`: `Spec => []TypeOK`.
- `ModelIsNeverLost`: a trained model is in use or still to be taken over.
- `RestartContinues`: the model in use is the one in the file.
- `OneTrainingThread`: a process starts one training thread at most.
- `ThresholdIsCommitted`: the trainings the program starts by itself see the
  threshold's mentions committed.
- `ModelStays`, `UnusableStays`: no step replaces a model, in the linker or in
  the file, nor writes a file that could not be loaded.

None of the invariants is inductive. `IInv` of `ModelProofs` adds

- `Exclusion`: the holder of the lock is the one thread between `TryLock` and
  `Leave`;
- `TrainingInv`: a thread that trains, saves or hands over does so while the
  source is `cold_start` and no load failed; before the hand-over the file holds
  no model, at the hand-over it holds the model just trained; and while the
  source is `cold_start` a model in the file means that a hand-over is due;
- `HandOverInv`: what is pending is what is in the file, what the worker rebuilds
  with is what is pending, and it is pending only while the linker has no model
  or has just been rebuilt;
- `DownInv`: a process that is not running has no state;
- `CrossingInv`: after the training thread was started the stored mentions stay
  at or above the threshold, those of the bite just committed not counted.

The check under the lock carries the argument: with `Exclusion`, nobody else can
change `source` between `Recheck` and `HandOver`, so a second caller that passed
its first check early finds `source = "trained"` and leaves.

`EngineProofs` holds for any ids, contents and files, every bite size and any
number of runs and faults; it assumes only what is assumed of the constants (the
ids of a file are distinct):

- `EngineTypes`: `Spec => []TypeOK`.
- `ResolutionsAreTrue`: a resolution in the list or on its way there is of a
  mention stored with the content asked for.
- `CompleteIsStored`: a client that counted all its ids has them all stored.
- `NothingIsLost`: without a fault, what a client waits for is somewhere.

`IInv` of `EngineProofs` adds

- `SendingEnds`: a client that sends has something left, one that listens has
  sent all; without it, `sent` would leave the file;
- `ReceivedIsStored` and `CompleteHasAll`: what was counted is stored, and a
  complete client has counted every id of its file. The second needs that a
  subset of a finite set with as many elements is the set, for which the ids of
  a file must be distinct;
- `BitesInHand`: the replies of a bite stand for its requests, one by one, so
  that nothing disappears when they replace the bite;
- `SentIsSomewhere`: `NothingVanishes` for the part of the file that was sent.

Truth is kept because the tables only grow: `RegisterKeeps` shows that what is
registered was not stored, and `RepliesAreTrue` that a reply is a resolution
only if its content is the stored one or the one just registered.

`ReplyProofs` goes on from `ServiceProofs`, with the same generality:

- `RepliesAreTrue`: resolutions and conflicts agree with the tables in every
  behaviour, thread faults included; an internal error leaves nothing stored as
  long as no thread fault happened, and after one the theorem says nothing of it.
- `MembershipIsGreedy`, `CandidatesAreThere`: every membership follows from the
  stored links, and a resolution names clusters and they exist. These two are
  about behaviours up to the first thread fault: after it a mention has two
  clusters, of which only one is decided by each unit.
- `BitesComeToAnEnd`: every step of the worker in a bite, a failure or a thread fault
  included, ends the bite or lowers `ToGo` in the lexicographic order. `ToGo` is six
  numbers: positions unguarded, whether the fallback can still begin, new
  mentions unanswered, phases up to the commit, mentions undecided, repeats
  unanswered. A step lowers one of them and keeps those before it; those after it may
  grow, as when a unit fails. That the order has no infinite descent
  (`IsWellFoundedOn`) is part of the theorem, by the library's theorem about
  products of well-founded orders. So no bite is worked on for ever and the
  fallback cannot start the bite again. It needs `UnitSizes`: no unit is empty,
  and one in the fallback is a single mention. This is the half of `BitesAreAnswered`
  that is about data; that some step is possible until the bite is answered, and is
  taken, is the half that stays with TLC.

`RepliesMatchStore` speaks of the moment before the replies are sent; the replies
were given long before. `AnswerInv` follows them:

- `HandsInv`: outside a unit, and once it is committed, `work` is `store`; inside
  one, the tables differ for the unit's mentions only, and those have the
  content of their requests; what is stored has a cluster and the reverse;
- `PendingTexts`, `RepeatsRepeat`, `InOrder`, `RepeatsLast`: a pending mention that
  is stored has the content of its request, a repeat has a pending position
  before it with the same content, the guards go in order, and repeats are
  answered when no unit can follow;
- `RepliesTrue`: the property without its condition `Answered`, for every reply as
  soon as it is given.

It holds without `IInv`, since a second commit of the same mention after a thread
fault writes the content it already has. For the other two invariants, `GreedyInv` takes
a decision from the working copy and the drafts, before any of it is
committed, to the reply:

- `RankedInv`: the rankings of the drafts name clusters whose founder is stored
  or was decided earlier in the unit, those of the replies clusters of the store;
- `FollowInv`: each draft follows from the links it keeps, which are a cut of those it
  was decided from, so that the strongest is among them (`BestIsKept`); in `saved` the
  same of the working copy, by `MembershipOf(work)`. A link kept for one mention
  is never to be compared with those of another, for links run from the mention
  that was new.

`TraceProofs` is about `TracedSpec`, so under the traces as they are logged, and
with `SafeInv` and `AnswerInv` of the service beneath:

- `TracesAreTyped`, `LoggedDecisionsAreCommitted`, `PersistedIsStored`,
  `ResolutionsHaveTraces`: the invariants of `service_traces`, with thread faults;
- `LifeCycleIsKept`: the order of the stages, up to the first thread fault.

`TraceInv` adds to the properties that a position the guards have not reached
has its first stage only (`Fresh`), that a pending one is logged as persisted
exactly when it is stored, except between `Commit` and the step that logs it
(`PersistedIffStored`), and that each resolution is explained when it is given
(`AllExplained`), a repeat by an earlier pending position. `OrderInv` bounds how
far in the life cycle each trace has got; after a thread fault a mention goes
through `scored` to `persisted` twice, so it is not kept then.

`QueueProofs` holds for any sizes, limits, byte cap and bounds:

- `QueueTypes`, `OrderIsKept`, `NoRequestIsLost`, `BitesKeepToLimits`: the
  invariants of `queue_bites`, from what is in the worker's hands in each phase;
- `QueueImplementsContract`: `RequestQueue` implements `BiteQueue`. The contract's
  `inbox` is what the worker holds followed by the list, so a pop and what is
  pushed back over the byte cap are stutters, and a bite is taken at once when
  the worker stops taking (`StopTaking`, or a cap that is reached).

The running total of bytes is a recursive function, of which nothing is known to
the prover until it is shown to exist: `SumsExist` and `SumsAgree` show it, by
induction over the set of the lengths for which it holds (`UpTo`).

`SizerProofs` holds for any target, overhead, cost, stall, scale and largest
size:

- `LimitsAreInRange`: the limit is at least 1 and at most the largest;
- `BitesKeepToTarget`: a bite of the size asked for lasts no longer than the target
  and an overhead, but for one request.

The invariant `SizerInv` is that `rate * Cost <= Scale`: an overhead or a stall
makes a bite look slower, never faster, so no average of such bites promises more
than the cost of a request allows.

`SearchProofs` holds for any documents, normal forms and sets of configurations,
any sizes of bites and any number of starts:

- `RowsAreTyped`, `LinksAreByRule`, `ConflictsAreTrue`.

`LinksAreByRule` is about the documented rule; the invariant below it says of each
pair exactly whether the code scores it (`LinksByCode`), the empty text of a new
record included, from which the theorem follows by what `EmptyMeetsMissing`
leaves open. `SearchInv` adds that each row is the one of its document under the
configuration it arrived with (`RowsOfArrivals`), and that every configuration that stored a
row fits the columns and lets its rules be evaluated (`ConfigsFit`): since an
accepted configuration has at least one entity field, the columns are fixed from
the first row on. `RulesCompareDocuments` is the core: whatever the columns, a
rule over a row and a new record is a rule over their documents
(`AdmittedByCode`), in which the missing value of the new one is an empty text.

Every invariant named here was checked by TLC, on the instance of the component's run, before it
was proved. The theorems of these five modules assume only what is assumed of the constants; that
`Mentions` is finite is one of these (`ScoreAssumption`), since `max` and `sorted`
are taken over finite collections.

Only model-checked: the liveness properties (`BitesAreAnswered`,
`EveryRequestIsAnswered`, `TrainedInTheEnd`, `SettlesOnTarget`, `RunsEnd`), since
the prover does not treat fairness and ENABLED; the five refutations, which
TLC shows by a behaviour; and `AnswersFollowLinks`, whose proof is the next of the
plan. Every other invariant and action property of a passing run,
and both refinements, are stated by a theorem. No module has a RECURSIVE
operator.

## What is not modelled

- The score of a pair and the normal form of a name: numerical and textual work
  of Splink and DuckDB. `Service` lets scores be any, `SearchSpace` takes the
  normal forms from a table. Which pairs get a score is modelled.
- The parsing of Turtle, its prefixes, and the hash that makes a mention's id of
  source, type and request id: conversions by libraries, which fail or succeed.
  Different triads are taken to have different mentions; the code joins the three
  texts without a separator before it hashes them (`README.md:22` says so), so
  triads that read alike when joined share one.
- The environment variables, the connection settings and the log format: text to
  values, without state.
- The removal of temporary tables and linkers that are no longer used: what is
  left over of them is never read.
- `EntityResolver.state`, `load_all`, the statistics: reports and tools.
- `resolve_to_result` and `resolve_entity_mention`, a bite of one without the
  worker, and a linker with a connection of its own: tests and tools only.
- A ROLLBACK that fails itself, since what DuckDB does then is not visible in
  the code. A COMMIT that fails is taken as rolled back by DuckDB: it stands
  outside of the `try` (`src/ere/adapters/duckdb_unit_of_work.py` 23), so no
  ROLLBACK follows it.

## Plan

Done, in this order: `Candidates` and `Service` (what is stored and answered),
`StableClustering` and the proofs, `RequestQueue` with `BiteQueue`,
`ModelLifecycle` and its proofs, `BiteSizer`; then `Tracing`, `SearchSpace`,
`Engine` and its proofs, and the theorems about `Service` up to a thread fault;
then the proofs of the replies, the clustering, the traces, the queue, the sizer
and the search space.

Next:

1. A theorem for `AnswersFollowLinks`: the scores of a ranking are followed from the
   draft, whose links are cut when they are kept, through the commit of the whole unit
   to the reply. An inductive invariant for it has to say of each draft which kept link
   a score comes from, and of each reply that what later units store adds nothing to it.
2. The same bound as `BitesComeToAnEnd` behind the other liveness properties: the
   queue loop, the similarity model, the engine.
3. What a thread fault can do at most, as invariants without the condition
   `threadFaults = 0`.

## Running

    tlc -config service_clusters.cfg MCService
    tlc -config service_traces.cfg Tracing
    tlc -config queue_bites.cfg MCRequestQueue
    tlc -config model_lifecycle.cfg ModelLifecycle
    tlc -config bite_sizer.cfg BiteSizer
    tlc -config search_space.cfg MCSearchSpace
    tlc -config engine.cfg MCEngine
    tlapm ServiceProofs.tla
    tlapm ModelProofs.tla
    tlapm EngineProofs.tla
    tlapm ReplyProofs.tla
    tlapm TraceProofs.tla
    tlapm QueueProofs.tla
    tlapm SizerProofs.tla
    tlapm SearchProofs.tla

The refuted runs are `finding_own_cluster` and `finding_thread_fault` of
`MCService`, `finding_broken_model` of `ModelLifecycle`, and `finding_narrow_fields` and
`finding_missing_value` of `MCSearchSpace`.
