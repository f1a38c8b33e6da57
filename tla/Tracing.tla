------------------------------- MODULE Tracing -------------------------------
(***************************************************************************)
(* The trace of every request of a bite, added to Service: the stages that *)
(* are logged, when, and what they say (tracing.py, its use in             *)
(* queue_worker.py and entity_resolution_service.py).                      *)
(*                                                                         *)
(* The stages of a unit of work are recorded while it is decided and       *)
(* logged after its commit (DeferredStage), so a unit that fails leaves    *)
(* none.  Ids, sizes, scores and times are left out: an event says the     *)
(* guard's outcome or the cluster of the decision.                         *)
(***************************************************************************)
EXTENDS Service, Sequences

VARIABLE log   \* the events of the last bite, by position, in order

tracedVars == <<vars, log>>

\* The stages in the order of a request's life (TraceEvent).
LifeCycle == <<"dequeued", "parsed", "guard", "scored", "clustered",
               "persisted", "responded", "summary">>
Outcomes == {"conflict", "idempotent", "new"}
Events == [stage : {LifeCycle[i] : i \in DOMAIN LifeCycle},
           says  : Outcomes \cup Mentions \cup {None}]

Event(stage, says) == [stage |-> stage, says |-> says]
Passed(stage) == Event(stage, None)

TracesOK ==
  /\ TypeOK
  /\ log \in [DOMAIN log -> Seq(Events)]
  /\ phase # "idle" => DOMAIN log = DOMAIN bite

TracedInit == Init /\ log = <<>>

-----------------------------------------------------------------------------
\* Every message has a trace, also one that cannot be parsed.
TakeBiteTraced ==
  /\ TakeBite
  /\ log' = [p \in DOMAIN bite' |-> <<Passed("dequeued")>>]

\* What the guard logs for position p before it gives the reply, or none: the
\* mention once it is mapped, then the outcome of its two reads.  A conflict
\* with an earlier request of the bite is found after that.
GuardStages(p, kind) ==
  LET Read(outcome) == {<<Passed("parsed"), Event("guard", outcome)>>}
  IN  CASE kind \in {"failed", "rejected"} -> {<<>>}
        [] kind = "internal" -> {<<>>, <<Passed("parsed")>>}
        [] kind = "conflict" -> Read(IF ConflictsWithStored(p) THEN "conflict" ELSE "new")
        [] kind = "resolved" -> Read("idempotent")
        [] kind = "none" -> Read("new")

GuardTraced ==
  /\ Guard
  /\ \E p \in Unguarded :
       /\ IsFirst(p, Unguarded)
       /\ \E stages \in GuardStages(p, replies'[p].kind) :
            log' = [log EXCEPT ![p] = @ \o stages]

\* Seeded fault: a stage is logged although the commit did not happen.
UnitStagesWithoutCommit(p) ==
  IF p \in DOMAIN draft
  THEN <<Passed("scored"), Event("clustered", draft[p].cluster)>>
  ELSE <<>>

\* Nothing is logged of a unit that failed: its recorded stages are dropped.
UnitStagesOfFailure(p) == <<>>

\* Seeded fault: the stage that closes the unit comes before those recorded in it.
PersistedFirst(p) ==
  <<Passed("persisted"), Passed("scored"), Event("clustered", draft[p].cluster)>>

\* The recorded stages of p, and the one of the commit.
UnitStages(p) ==
  <<Passed("scored"), Event("clustered", draft[p].cluster), Passed("persisted")>>

LogUnit(stages) ==
  log' = [p \in DOMAIN log |-> IF p \in unit THEN log[p] \o stages[p] ELSE log[p]]

FailUnitTraced == FailUnit /\ LogUnit([p \in unit |-> UnitStagesOfFailure(p)])

\* Seeded fault: the stages are logged once the training thread has started.
ThreadFaultSilent == ThreadFault /\ UNCHANGED log

\* The stages are logged before the training thread is started.
ThreadFaultTraced == ThreadFault /\ LogUnit([p \in unit |-> UnitStages(p)])

\* Seeded fault: only the first trace of the unit is used.
FinishUnitFirstOnly ==
  /\ FinishUnit
  /\ log' = [p \in DOMAIN log |-> IF IsFirst(p, unit) THEN log[p] \o UnitStages(p)
                                                      ELSE log[p]]

FinishUnitTraced == FinishUnit /\ LogUnit([p \in unit |-> UnitStages(p)])

SendResponsesTraced ==
  /\ SendResponses
  /\ log' = [p \in DOMAIN log |-> log[p] \o <<Passed("responded"), Passed("summary")>>]

CrashTraced == CrashAndRestart /\ log' = <<>>

\* Steps that log nothing by themselves.
Untraced ==
  /\ BeginUnit \/ AssignCluster \/ SaveUnit \/ Commit \/ RespondCached \/ RepeatRaises
  /\ UNCHANGED log

TracedWork == \/ GuardTraced \/ FailUnitTraced \/ ThreadFaultTraced \/ FinishUnitTraced
              \/ SendResponsesTraced \/ Untraced

TracedNext == TakeBiteTraced \/ TracedWork \/ CrashTraced

\* The worker's loop keeps running while it has a bite.
TracedSpec == TracedInit /\ [][TracedNext]_tracedVars /\ WF_tracedVars(TracedWork)

-----------------------------------------------------------------------------
Stages(p) == {log[p][i].stage : i \in DOMAIN log[p]}
Says(p, stage) == {log[p][i].says : i \in {j \in DOMAIN log[p] : log[p][j].stage = stage}}

\* A decision that is logged is one that is committed: no trace names a
\* cluster from a unit that was rolled back, whatever failed and when, and also
\* when the same mention is resolved again by the fallback.
DecisionsAreCommitted ==
  \A p \in DOMAIN bite : \A c \in Says(p, "clustered") : <<Mention(p), c>> \in store.clusters

\* The trace of a new mention says "persisted" if and only if it is stored,
\* also when its answer is an error because something failed after the commit.
PersistedMeansStored ==
  Answered => \A p \in pending :
    "persisted" \in Stages(p) <=> Mention(p) \in Stored(store)

\* A resolution is explained by a trace: the guard found it stored, the request
\* itself was persisted, or an earlier one of the same mention in the bite was.
ResolutionsAreTraced ==
  Answered => \A p \in DOMAIN bite : replies[p].kind = "resolved" =>
    IF p \in pending \cup repeats
    THEN \E q \in pending : /\ q <= p /\ Mention(q) = Mention(p)
                            /\ "persisted" \in Stages(q)
    ELSE Says(p, "guard") = {"idempotent"} /\ "scored" \notin Stages(p)

\* Every trace goes through the life cycle in order and logs no stage twice, to
\* the summary once it is answered: a failed first attempt leaves no mark.
Rank(stage) == CHOOSE i \in DOMAIN LifeCycle : LifeCycle[i] = stage
StagesInOrder ==
  threadFaults = 0 =>
    \A p \in DOMAIN log :
      /\ \A i, j \in DOMAIN log[p] : i < j => Rank(log[p][i].stage) < Rank(log[p][j].stage)
      /\ phase = "idle" => "summary" \in Stages(p)
=============================================================================
