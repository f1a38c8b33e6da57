------------------------------- MODULE Service -------------------------------
(***************************************************************************)
(* The worker's resolution of a bite of requests: the guards, the unit of  *)
(* work that scores and assigns the new mentions, its rollback and the     *)
(* one-by-one fallback, and the answers                                    *)
(* (EntityResolutionService and EntityResolver in                          *)
(* entity_resolution_service.py, RedisQueueWorker in queue_worker.py, *)
(* the DuckDB repositories and unit of work).                              *)
(*                                                                         *)
(* One thread runs all of it.  What makes it hard is the failures: any     *)
(* database or linker call may raise, the thread that trains the model may *)
(* fail to start after the commit, and the process may die at any step.    *)
(***************************************************************************)
EXTENDS Candidates

CONSTANTS
  Contents,         \* the attribute sets a mention can be submitted with
  None,             \* no content, no cluster
  MaxBite,          \* requests in a bite, at most
  TrainAt,          \* auto_train_threshold; 0 never trains
  MaxThreadFaults,  \* bound: training threads that fail to start
  MayCrash,         \* whether the process may die
  Durable           \* database in a file (TRUE) or in memory (FALSE)

ASSUME ServiceAssumption ==
  /\ None \notin Contents /\ None \notin Mentions
  /\ MaxBite \in Nat \ {0}
  /\ TrainAt \in Nat
  /\ MaxThreadFaults \in Nat
  /\ MayCrash \in BOOLEAN
  /\ Durable \in BOOLEAN

\* "unparsable": no request can be read from the message; "unmappable": the
\* RDF mapper rejects it; "entity": a mention with its content.
Requests ==
  [form : {"entity"}, mention : Mentions, content : Contents]
    \cup [form : {"unparsable", "unmappable"}]

Bites == UNION {[1..n -> Requests] : n \in 1..MaxBite}

Kinds == {"none", "resolved", "conflict", "rejected", "internal", "failed"}
Replies == [kind : Kinds, ranking : Rankings]
Empty == [p \in {} |-> 0]
Error(kind) == [kind |-> kind, ranking |-> Empty]
Resolved(ranking) == [kind |-> "resolved", ranking |-> ranking]
NoReply == Error("none")

\* The three tables.  A row of mentions is counted, because no constraint
\* keeps a second row of the same mention out.
LinkRows == [left : Mentions, right : Mentions, score : Scores]
Stores == [rows     : [Mentions -> Nat],
           text     : [Mentions -> Contents \cup {None}],
           links    : SUBSET LinkRows,
           clusters : SUBSET (Mentions \X Mentions)]

EmptyStore == [rows     |-> [m \in Mentions |-> 0],
               text     |-> [m \in Mentions |-> None],
               links    |-> {},
               clusters |-> {}]

\* What one mention of a unit of work comes to, before it is saved.
Drafts == [cluster : Mentions, kept : Links, ranking : Rankings]

VARIABLES
  store,         \* the committed tables
  work,          \* the tables as the worker's connection sees them
  phase,         \* where the worker is
  bite,          \* the requests it took, in arrival order
  replies,       \* the reply to each of them so far
  pending,       \* positions of the new mentions
  repeats,       \* positions that repeat an earlier pending one
  fallback,      \* whether the bite failed and goes one by one
  unit,          \* positions in the current unit of work
  draft,         \* outcomes of the unit's positions decided so far
  threadFaults   \* training threads that failed to start (bounded)

vars == <<store, work, phase, bite, replies, pending, repeats, fallback,
          unit, draft, threadFaults>>

Phases == {"idle", "serving", "scoring", "saved", "committed"}

TypeOK ==
  /\ store \in Stores
  /\ work \in Stores
  /\ phase \in Phases
  /\ bite = Empty \/ bite \in Bites
  /\ replies \in [DOMAIN bite -> Replies]
  /\ pending \subseteq DOMAIN bite
  /\ repeats \subseteq DOMAIN bite
  /\ fallback \in BOOLEAN
  /\ unit \subseteq pending
  /\ DOMAIN draft \subseteq unit
  /\ draft \in [DOMAIN draft -> Drafts]
  /\ threadFaults \in 0..MaxThreadFaults

-----------------------------------------------------------------------------
(***************************************************************************)
(* Reading the tables.                                                     *)
(***************************************************************************)
Stored(s) == {m \in Mentions : s.rows[m] > 0}
RowCount(s) == SumFunction(s.rows)
ClustersOf(s, m) == {c \in Mentions : <<m, c>> \in s.clusters}
Clustered(s) == {m \in Mentions : ClustersOf(s, m) # {}}

\* A dictionary of clusters built from rows; if a mention has several rows,
\* whichever the query returns last.
Homes(s, others) ==
  LET known == others \cap Clustered(s)
  IN  {home \in [known -> Mentions] :
         \A x \in known : home[x] \in ClustersOf(s, x)}

\* The stored links of m, whichever side it is on, by their other mention.
LinkScores(s, m, x) ==
  {l.score : l \in {k \in s.links : \/ k.left = m /\ k.right = x
                                    \/ k.left = x /\ k.right = m}}
\* Seeded fault: only the links that m came with.
StoredLinksOfLeft(s, m) ==
  LET Own(x) == {l.score : l \in {k \in s.links : k.left = m /\ k.right = x}}
      others == {x \in Mentions : Own(x) # {}}
  IN  [x \in others |-> CHOOSE v \in Own(x) : \A w \in Own(x) : w <= v]

StoredLinks(s, m) ==
  LET others == {x \in Mentions : LinkScores(s, m, x) # {}}
  IN  [x \in others |-> CHOOSE v \in LinkScores(s, m, x) :
                          \A w \in LinkScores(s, m, x) : w <= v]

\* The answers to a mention that is resolved already (_gen_cand).
Requeries(s, m) ==
  LET links == StoredLinks(s, m)
  IN  UNION {RankCandidates(own, links, place, home) :
               own \in ClustersOf(s, m), place \in Places(DOMAIN links),
               home \in Homes(s, DOMAIN links)}

-----------------------------------------------------------------------------
Init ==
  /\ store = EmptyStore
  /\ work = EmptyStore
  /\ phase = "idle"
  /\ bite = Empty
  /\ replies = Empty
  /\ pending = {}
  /\ repeats = {}
  /\ fallback = FALSE
  /\ unit = {}
  /\ draft = Empty
  /\ threadFaults = 0

\* Seeded fault: the positions of the last bite are not cleared.
IdleKeepingPending ==
  /\ phase' = "idle"
  /\ bite' = Empty
  /\ replies' = Empty
  /\ fallback' = FALSE
  /\ unit' = {}
  /\ draft' = Empty
  /\ UNCHANGED <<pending, repeats>>

Idle ==
  /\ phase' = "idle"
  /\ bite' = Empty
  /\ replies' = Empty
  /\ pending' = {}
  /\ repeats' = {}
  /\ fallback' = FALSE
  /\ unit' = {}
  /\ draft' = Empty

IsFirst(p, positions) == p \in positions /\ \A q \in positions : p <= q

Put(f, p, value) == [q \in DOMAIN f \cup {p} |-> IF q = p THEN value ELSE f[q]]

Unanswered(positions) == {p \in positions : replies[p] = NoReply}
Unguarded == Unanswered(DOMAIN bite \ (pending \cup repeats))

\* A bite was taken from the queue.
TakeBite ==
  /\ phase = "idle"
  /\ phase' = "serving"
  /\ \E b \in Bites : bite' = b /\ replies' = [p \in DOMAIN b |-> NoReply]
  /\ UNCHANGED <<store, work, pending, repeats, fallback, unit, draft, threadFaults>>

-----------------------------------------------------------------------------
(***************************************************************************)
(* The guards, one request after the other.                                *)
(***************************************************************************)
Mention(p) == bite[p].mention
Reply(p, reply) == replies' = [replies EXCEPT ![p] = reply]

\* The pending positions of the same mention (first_seen).
Earlier(p) == {q \in pending : Mention(q) = Mention(p)}

ConflictsWithStored(p) ==
  /\ Mention(p) \in Stored(work)
  /\ work.text[Mention(p)] # bite[p].content
\* Seeded fault: first_seen is not consulted.
NoConflictsInBite(p) == FALSE
ConflictsInBite(p) == \E q \in Earlier(p) : bite[q].content # bite[p].content

GuardMalformed(p) ==
  \/ bite[p].form = "unparsable" /\ Reply(p, Error("failed"))
  \/ bite[p].form = "unmappable" /\ Reply(p, Error("rejected"))

GuardConflict(p) ==
  /\ ConflictsWithStored(p) \/ ConflictsInBite(p)
  /\ Reply(p, Error("conflict"))

GuardCached(p) ==
  /\ ~ConflictsWithStored(p) /\ ~ConflictsInBite(p)
  /\ Mention(p) \in Clustered(work)
  /\ \E ranking \in Requeries(work, Mention(p)) : Reply(p, Resolved(ranking))

\* Seeded fault: neither the stored clusters nor first_seen are consulted.
GuardNewUnchecked(p) ==
  /\ ~ConflictsWithStored(p) /\ ~ConflictsInBite(p)
  /\ pending' = pending \cup {p}
  /\ UNCHANGED repeats

GuardNew(p) ==
  /\ ~ConflictsWithStored(p) /\ ~ConflictsInBite(p)
  /\ Mention(p) \notin Clustered(work)
  /\ IF Earlier(p) = {}
     THEN pending' = pending \cup {p} /\ UNCHANGED repeats
     ELSE repeats' = repeats \cup {p} /\ UNCHANGED pending

\* A table could not be read.
GuardRaises(p) == Reply(p, Error("internal"))

Guard ==
  /\ phase = "serving"
  /\ \E p \in Unguarded :
       /\ IsFirst(p, Unguarded)
       /\ \/ GuardMalformed(p) /\ UNCHANGED <<pending, repeats>>
          \/ /\ bite[p].form = "entity"
             /\ \/ GuardConflict(p) /\ UNCHANGED <<pending, repeats>>
                \/ GuardCached(p) /\ UNCHANGED <<pending, repeats>>
                \/ GuardRaises(p) /\ UNCHANGED <<pending, repeats>>
                \/ GuardNew(p) /\ UNCHANGED replies
  /\ UNCHANGED <<store, work, phase, bite, fallback, unit, draft, threadFaults>>

-----------------------------------------------------------------------------
(***************************************************************************)
(* A unit of work: all pending mentions, or one of them after the bite     *)
(* failed.  BEGIN TRANSACTION, the mentions' rows, their scores and        *)
(* clusters one by one, the rows of links and clusters, COMMIT.            *)
(***************************************************************************)
WithMentions(s, positions) ==
  [s EXCEPT !.rows = [m \in Mentions |->
                        s.rows[m] + Cardinality({p \in positions : Mention(p) = m})],
            !.text = [m \in Mentions |->
                        IF \E p \in positions : Mention(p) = m
                        THEN bite[CHOOSE p \in positions : Mention(p) = m].content
                        ELSE s.text[m]]]

BeginUnit ==
  /\ phase = "serving" /\ Unguarded = {}
  /\ \E positions \in SUBSET Unanswered(pending) :
       /\ \/ ~fallback /\ positions = Unanswered(pending)
          \/ fallback /\ \E p \in pending : /\ IsFirst(p, Unanswered(pending))
                                            /\ positions = {p}
       /\ positions # {}
       /\ unit' = positions
       /\ work' = WithMentions(work, positions)
  /\ phase' = "scoring"
  /\ draft' = Empty
  /\ UNCHANGED <<store, bite, replies, pending, repeats, fallback, threadFaults>>

\* Links to oneself and to later members of the bite are dropped.
LinksToEarlier(p) ==
  {x \in Stored(work) \ {Mention(p)} : ~\E q \in unit : Mention(q) = x /\ q > p}

\* Seeded fault: a decided mention is its own cluster.
KnownHomesByMention(others) ==
  LET decided == {x \in others : \E q \in DOMAIN draft : Mention(q) = x}
  IN  {[x \in DOMAIN home \cup decided |-> IF x \in decided THEN x ELSE home[x]] :
            home \in Homes(work, others \ decided)}

\* The clusters of others: those just decided, the stored ones otherwise.
KnownHomes(others) ==
  LET decided == {x \in others : \E q \in DOMAIN draft : Mention(q) = x}
      Decided(x) == draft[CHOOSE q \in DOMAIN draft : Mention(q) = x].cluster
  IN  {[x \in DOMAIN home \cup decided |->
          IF x \in decided THEN Decided(x) ELSE home[x]] :
            home \in Homes(work, others \ decided)}

\* The next mention of the unit gets its links, cluster and candidates.  What
\* the linker scores, and which pairs it blocks, is its own business.
AssignCluster ==
  /\ phase = "scoring"
  /\ \E p \in unit \ DOMAIN draft :
       /\ IsFirst(p, unit \ DOMAIN draft)
       /\ \E linked \in SUBSET LinksToEarlier(p) :
          \E links \in [linked -> Scores], place \in Places(linked), home \in KnownHomes(linked) :
          \E cluster \in Assignments(Mention(p), links, place, home) :
          \E ranking \in RankCandidates(cluster, links, place, home),
             kept \in BestLinks(links, place) :
            draft' = Put(draft, p, [cluster |-> cluster, kept |-> kept, ranking |-> ranking])
  /\ UNCHANGED <<store, work, phase, bite, replies, pending, repeats, fallback,
                 unit, threadFaults>>

KeptLinks ==
  UNION {{[left |-> Mention(p), right |-> x, score |-> draft[p].kept[x]] :
            x \in DOMAIN draft[p].kept} : p \in unit}

\* The links and the clusters of the whole unit are saved, after the last decision.
SaveUnit ==
  /\ phase = "scoring" /\ DOMAIN draft = unit
  /\ phase' = "saved"
  /\ work' = [work EXCEPT !.links = work.links \cup KeptLinks,
                          !.clusters = work.clusters
                             \cup {<<Mention(p), draft[p].cluster>> : p \in unit}]
  /\ UNCHANGED <<store, bite, replies, pending, repeats, fallback, unit, draft,
                 threadFaults>>

\* Seeded fault: COMMIT is missing.
CommitForgotten ==
  /\ phase = "saved"
  /\ phase' = "committed"
  /\ UNCHANGED <<store, work, bite, replies, pending, repeats, fallback, unit, draft,
                 threadFaults>>

Commit ==
  /\ phase = "saved"
  /\ phase' = "committed"
  /\ store' = work
  /\ UNCHANGED <<work, bite, replies, pending, repeats, fallback, unit, draft,
                 threadFaults>>

\* Seeded fault: a mention alone is tried again, without end.
UnitRaisedForever ==
  /\ phase' = "serving"
  /\ unit' = {}
  /\ draft' = Empty
  /\ fallback' = TRUE
  /\ UNCHANGED <<bite, pending, repeats, replies>>

\* An exception leaves the unit: a mention alone is answered with the error,
\* several are resolved one at a time.
UnitRaised ==
  /\ phase' = "serving"
  /\ unit' = {}
  /\ draft' = Empty
  /\ IF Cardinality(unit) = 1
     THEN replies' = [p \in DOMAIN bite |-> IF p \in unit THEN Error("internal")
                                                          ELSE replies[p]]
          /\ UNCHANGED fallback
     ELSE fallback' = TRUE /\ UNCHANGED replies
  /\ UNCHANGED <<bite, pending, repeats>>

\* Seeded fault: ROLLBACK is missing.
FailUnitWithoutRollback ==
  /\ phase \in {"scoring", "saved"}
  /\ UnitRaised
  /\ UNCHANGED <<store, work, threadFaults>>

\* A statement or the linker fails: ROLLBACK.  COMMIT stands outside of the try
\* (duckdb_unit_of_work.py:23), so none follows when it fails itself: then
\* it is DuckDB that rolls a failed COMMIT back.
FailUnit ==
  /\ phase \in {"scoring", "saved"}
  /\ work' = store
  /\ UnitRaised
  /\ UNCHANGED <<store, threadFaults>>

\* The unit moved the stored count across auto_train_threshold.
StartsTraining ==
  /\ TrainAt > 0
  /\ RowCount(store) - Cardinality(unit) < TrainAt
  /\ TrainAt <= RowCount(store)

FinishUnit ==
  /\ phase = "committed"
  /\ phase' = "serving"
  /\ replies' = [p \in DOMAIN bite |-> IF p \in unit THEN Resolved(draft[p].ranking)
                                                     ELSE replies[p]]
  /\ unit' = {}
  /\ draft' = Empty
  /\ UNCHANGED <<store, work, bite, pending, repeats, fallback, threadFaults>>

\* Thread.start raises; the unit is committed by then.
ThreadFault ==
  /\ phase = "committed" /\ StartsTraining
  /\ threadFaults < MaxThreadFaults
  /\ threadFaults' = threadFaults + 1
  /\ UnitRaised
  /\ UNCHANGED <<store, work>>

-----------------------------------------------------------------------------
(***************************************************************************)
(* Repeats within the bite, once the pending mentions are done; the send.  *)
(***************************************************************************)
Repeating ==
  /\ phase = "serving"
  /\ Unguarded = {} /\ Unanswered(pending) = {} /\ Unanswered(repeats) # {}

RespondCached ==
  /\ Repeating
  /\ \E p \in repeats :
       /\ IsFirst(p, Unanswered(repeats))
       /\ IF Mention(p) \in Clustered(work)
          THEN \E ranking \in Requeries(work, Mention(p)) : Reply(p, Resolved(ranking))
          ELSE Reply(p, Error("internal"))
  /\ UNCHANGED <<store, work, phase, bite, pending, repeats, fallback, unit,
                 draft, threadFaults>>

\* A table cannot be read: process_batch raises and the worker answers every
\* request it parsed with a processing error.
RepeatRaises ==
  /\ Repeating
  /\ replies' = [p \in DOMAIN bite |-> Error("failed")]
  /\ UNCHANGED <<store, work, phase, bite, pending, repeats, fallback, unit,
                 draft, threadFaults>>

\* All replies of the bite are sent, in request order.
SendResponses ==
  /\ phase = "serving" /\ Unanswered(DOMAIN bite) = {}
  /\ Idle
  /\ UNCHANGED <<store, work, threadFaults>>

\* The process dies and is started again; what was not committed is gone,
\* and all of it with a database in memory.
CrashAndRestart ==
  /\ MayCrash
  /\ store' = IF Durable THEN store ELSE EmptyStore
  /\ work' = store'
  /\ Idle
  /\ UNCHANGED threadFaults

Work == \/ Guard \/ BeginUnit \/ AssignCluster \/ SaveUnit \/ Commit
        \/ FailUnit \/ FinishUnit \/ ThreadFault
        \/ RespondCached \/ RepeatRaises \/ SendResponses

Next == TakeBite \/ Work \/ CrashAndRestart

Spec == Init /\ [][Next]_vars

-----------------------------------------------------------------------------
(***************************************************************************)
(* What the tables promise.                                                *)
(***************************************************************************)
\* Every stored mention has one row and belongs to exactly one cluster, and
\* nothing has a cluster without being stored: no failure, rollback, fallback
\* or crash leaves half a unit of work behind, as long as the training thread
\* can be started.
MentionsAreStoredOnce ==
  \A m \in Mentions : /\ store.rows[m] <= 1
                      /\ Cardinality(ClustersOf(store, m)) = store.rows[m]
OneClusterPerMention == threadFaults = 0 => MentionsAreStoredOnce

\* A cluster is named by a member of it: the mention that founded it is
\* stored and was never moved to another cluster.
FoundersStay == threadFaults = 0 => \A pair \in store.clusters : <<pair[2], pair[2]>> \in store.clusters

Strongest(l) == \A k \in store.links : k.left = l.left => k.score <= l.score

\* Every membership is what the greedy rule decides from the links: one joins
\* the cluster of its strongest link if that reaches the threshold, and founds
\* a cluster only if no link does, however the bite was cut, as long as the
\* training thread can be started.
MembershipFollowsLinks ==
  threadFaults = 0 => \A m \in Mentions : \A c \in ClustersOf(store, m) :
    IF c = m
    THEN \A l \in store.links : l.left = m => l.score < Threshold
    ELSE \E l \in store.links : /\ l.left = m /\ Strongest(l)
                                /\ l.score >= Threshold
                                /\ c \in ClustersOf(store, l.right)

-----------------------------------------------------------------------------
(***************************************************************************)
(* What the replies promise, when they are about to be sent.               *)
(***************************************************************************)
Answered == phase = "serving" /\ Unanswered(DOMAIN bite) = {}
Holds(s, r) == r.mention \in Clustered(s) /\ s.text[r.mention] = r.content

\* The replies agree with the tables, through failures, rollbacks, the fallback
\* and restarts: whoever gets a resolution asked with the content that is stored;
\* a conflict is only reported against a different content, stored or first in the
\* bite; and an internal error for a new mention means that nothing of it is stored.
\* The last only as long as the training thread could be started: it is started
\* after the commit (entity_resolution_service.py:151), and if that raises, a
\* mention alone is stored and answered with an internal error.
ResolutionsHold(p) == replies[p].kind = "resolved" => Holds(store, bite[p])
ConflictsAreReal(p) ==
  replies[p].kind = "conflict" =>
    \/ Mention(p) \in Stored(store) /\ store.text[Mention(p)] # bite[p].content
    \/ \E q \in pending : /\ q < p /\ Mention(q) = Mention(p)
                          /\ bite[q].content # bite[p].content
FailuresLeaveNothing(p) ==
  replies[p].kind = "internal" /\ p \in pending \cup repeats => Mention(p) \notin Stored(store)

RepliesMatchStore ==
  Answered => \A p \in DOMAIN bite :
    /\ ResolutionsHold(p)
    /\ ConflictsAreReal(p)
    /\ threadFaults = 0 => FailuresLeaveNothing(p)

\* A resolution names at least one cluster and only clusters that exist, also
\* when the mention was first scored in a unit that was rolled back, as long as
\* the training thread can be started.
CandidatesExist ==
  threadFaults = 0 /\ Answered => \A p \in DOMAIN bite : replies[p].kind = "resolved" =>
    /\ DOMAIN replies[p].ranking # {}
    /\ \A c \in DOMAIN replies[p].ranking : <<c, c>> \in store.clusters

\* The stored links that the answer to p is to follow from: those a new mention
\* came with; for a mention that was stored before, or a repeat, also those that
\* other mentions brought, but not the ones of the same bite it was read before.
LinksFor(p) ==
  {l \in store.links :
     IF p \in pending THEN l.left = Mention(p)
     ELSE /\ Mention(p) \in {l.left, l.right}
          /\ p \notin repeats => \A q \in pending : l.left # Mention(q)}

OtherOf(m, l) == IF l.left = m THEN l.right ELSE l.left

\* Cluster c is ranked with this score or a better one, or TopN others are.
Placed(ranking, c, score) ==
  \/ c \in DOMAIN ranking /\ ranking[c] >= score
  \/ /\ Cardinality(DOMAIN ranking) = TopN
     /\ \A d \in DOMAIN ranking : ranking[d] >= score

\* A score is that of a link into the cluster, or 0 for the own cluster, or
\* that of a link that was cut off before the links were stored.
ScoreExplained(ranking, c, m, links, cut) ==
  \/ \E l \in links : c \in ClustersOf(store, OtherOf(m, l)) /\ l.score = ranking[c]
  \/ c \in ClustersOf(store, m) /\ ranking[c] = 0
  \/ /\ cut /\ Cardinality(links) = TopN
     /\ \A l \in links : l.score >= ranking[c]

FollowsFrom(ranking, m, links, cut) ==
  /\ \A c \in DOMAIN ranking : ScoreExplained(ranking, c, m, links, cut)
  /\ \A l \in links : \E c \in ClustersOf(store, OtherOf(m, l)) : Placed(ranking, c, l.score)
  /\ \E c \in ClustersOf(store, m) : Placed(ranking, c, 0)

\* A resolution says of the clusters what the tables hold when it is sent: each
\* has the score of the mention's best link into it, and none is missing that a
\* link leads to, nor the own one, but for what is cut off at top_n; whether the
\* mention is new, repeated in the bite or stored long ago, although links were
\* cut in between and later mentions brought more.  As long as the training
\* thread can be started.
AnswersFollowLinks ==
  threadFaults = 0 /\ Answered => \A p \in DOMAIN bite : replies[p].kind = "resolved" =>
    FollowsFrom(replies[p].ranking, Mention(p), LinksFor(p), p \in pending)

\* A stored mention keeps its cluster and its content: later bites, repeats,
\* conflicting submissions, rollbacks and restarts never change them, as long
\* as the training thread can be started.
AssignmentsStand ==
  [][threadFaults = 0 =>
     \A m \in Clustered(store) : /\ ClustersOf(store', m) = ClustersOf(store, m)
                                 /\ store'.text[m] = store.text[m]]_vars

\* The committed tables implement the clustering a client relies on, step by
\* step until a training thread cannot be started: the fallback then commits
\* mentions once more that are known already.
ClusterOf == [m \in Mentions |-> IF m \in Clustered(store)
                                 THEN CHOOSE c \in Mentions : c \in ClustersOf(store, m)
                                 ELSE None]
Contract == INSTANCE StableClustering WITH cluster <- ClusterOf, text <- store.text
ClusteringIsStable ==
  Contract!Init /\ [][threadFaults = 0 /\ store' # store => Contract!Next]_Contract!vars

\* Every bite that was taken is answered in the end.
BitesAreAnswered == (phase = "serving") ~> (phase = "idle")

-----------------------------------------------------------------------------
(***************************************************************************)
(* What the documentation says and the code does not do: refuted by a run. *)
(***************************************************************************)
\* docs/algorithm.md:69: the cluster the mention was assigned to is always
\* among the candidates, also when other clusters score higher.
OwnClusterListed ==
  Answered => \A p \in pending : replies[p].kind = "resolved" =>
    ClustersOf(store, Mention(p)) \subseteq DOMAIN replies[p].ranking
=============================================================================
