----------------------------- MODULE TraceProofs -----------------------------
(***************************************************************************)
(* Proofs about the traces of Tracing, for any mentions, contents, bounds  *)
(* and scores.                                                             *)
(***************************************************************************)
EXTENDS Tracing, ReplyProofs

(***************************************************************************)
(* A trace as a value: its stages, what one of them says, whether they are *)
(* in the order of the life cycle, and how far they go in it.              *)
(***************************************************************************)
StagesOf(t) == {t[i].stage : i \in DOMAIN t}
SaysOf(t, stage) == {t[i].says : i \in {j \in DOMAIN t : t[j].stage = stage}}
Ordered(t) == \A i, j \in DOMAIN t : i < j => Rank(t[i].stage) < Rank(t[j].stage)
UpToRank(t, r) == \A i \in DOMAIN t : Rank(t[i].stage) <= r
AfterRank(t, r) == \A i \in DOMAIN t : Rank(t[i].stage) > r

(***************************************************************************)
(* What the traces have to do with the tables and the replies: a position  *)
(* that the guards have not reached has only its first stage, a pending one*)
(* is logged as persisted exactly when it is stored, but for the moment    *)
(* between the commit and the log, and a reply comes after its stages.     *)
(***************************************************************************)
LogTyped ==
  /\ log \in [DOMAIN log -> Seq(Events)]
  /\ phase # "idle" => DOMAIN log = DOMAIN bite

UnitDecided ==
  /\ phase = "saved" => store.clusters \subseteq work.clusters
  /\ phase \in {"saved", "committed"} =>
       \A p \in unit : <<Mention(p), draft[p].cluster>> \in work.clusters

Fresh == \A p \in Unguarded : log[p] = <<Passed("dequeued")>>

InHand(p) == phase = "committed" /\ p \in unit
PersistedIffStored ==
  \A p \in pending :
    Mention(p) \in Stored(store) <=> "persisted" \in StagesOf(log[p]) \/ InHand(p)

RepeatsFollow == \A p \in repeats : \E q \in pending : q < p /\ Mention(q) = Mention(p)

Explained(p) ==
  /\ p \in pending => "persisted" \in StagesOf(log[p])
  /\ p \in repeats => \E q \in pending : /\ q < p /\ Mention(q) = Mention(p)
                                         /\ "persisted" \in StagesOf(log[q])
  /\ p \notin pending \cup repeats =>
       SaysOf(log[p], "guard") = {"idempotent"} /\ "scored" \notin StagesOf(log[p])
AllExplained == \A p \in DOMAIN bite : replies[p].kind = "resolved" => Explained(p)

TraceInv == /\ LogTyped /\ UnitDecided /\ DecisionsAreCommitted /\ Fresh
            /\ PersistedIffStored /\ RepeatsFollow /\ AllExplained

\* As long as no unit is committed twice.
OrderInv ==
  /\ \A p \in DOMAIN log : Ordered(log[p])
  /\ phase # "idle" => \A p \in DOMAIN bite : UpToRank(log[p], 6)
  /\ \A p \in Unanswered(pending) : UpToRank(log[p], 3)
  /\ phase = "idle" => \A p \in DOMAIN log : "summary" \in StagesOf(log[p])
OrderUnlessFault == threadFaults = 0 => OrderInv

-----------------------------------------------------------------------------
(***************************************************************************)
(* Stages and traces.                                                      *)
(***************************************************************************)
LEMMA Ranks ==
  /\ Rank("dequeued") = 1 /\ Rank("parsed") = 2 /\ Rank("guard") = 3 /\ Rank("scored") = 4
  /\ Rank("clustered") = 5 /\ Rank("persisted") = 6 /\ Rank("responded") = 7
  /\ Rank("summary") = 8
<1>1. DOMAIN LifeCycle = 1..8
  BY DEF LifeCycle
<1>2. /\ LifeCycle[1] = "dequeued" /\ LifeCycle[2] = "parsed" /\ LifeCycle[3] = "guard"
      /\ LifeCycle[4] = "scored" /\ LifeCycle[5] = "clustered" /\ LifeCycle[6] = "persisted"
      /\ LifeCycle[7] = "responded" /\ LifeCycle[8] = "summary"
  BY DEF LifeCycle
<1>3. \A i \in 1..8 : \/ i = 1 \/ i = 2 \/ i = 3 \/ i = 4 \/ i = 5 \/ i = 6 \/ i = 7 \/ i = 8
  OBVIOUS
<1>4. \A i, j \in 1..8 : LifeCycle[i] = LifeCycle[j] => i = j
  BY <1>2, <1>3
<1>5. ASSUME NEW i \in 1..8 PROVE Rank(LifeCycle[i]) = i
  BY <1>1, <1>4 DEF Rank
<1>. QED  BY <1>2, <1>5

LEMMA StageNames ==
  {LifeCycle[i] : i \in DOMAIN LifeCycle} =
    {"dequeued", "parsed", "guard", "scored", "clustered", "persisted", "responded", "summary"}
<1>1. DOMAIN LifeCycle = 1..8
  BY DEF LifeCycle
<1>2. /\ LifeCycle[1] = "dequeued" /\ LifeCycle[2] = "parsed" /\ LifeCycle[3] = "guard"
      /\ LifeCycle[4] = "scored" /\ LifeCycle[5] = "clustered" /\ LifeCycle[6] = "persisted"
      /\ LifeCycle[7] = "responded" /\ LifeCycle[8] = "summary"
  BY DEF LifeCycle
<1>3. \A i \in 1..8 : \/ i = 1 \/ i = 2 \/ i = 3 \/ i = 4 \/ i = 5 \/ i = 6 \/ i = 7 \/ i = 8
  OBVIOUS
<1>. QED  BY <1>1, <1>2, <1>3

LEMMA EventTypes ==
  ASSUME NEW stage \in {"dequeued", "parsed", "guard", "scored", "clustered", "persisted",
                        "responded", "summary"},
         NEW says \in Outcomes \cup Mentions \cup {None}
  PROVE  /\ Event(stage, says) \in Events /\ Passed(stage) \in Events
         /\ Event(stage, says).stage = stage /\ Event(stage, says).says = says
         /\ Passed(stage).stage = stage
BY StageNames DEF Event, Passed, Events

LEMMA RankTypes ==
  ASSUME NEW t \in Seq(Events), NEW i \in DOMAIN t
  PROVE  Rank(t[i].stage) \in 1..8
<1>1. t[i] \in Events
  OBVIOUS
<1>2. t[i].stage \in {"dequeued", "parsed", "guard", "scored", "clustered", "persisted",
                      "responded", "summary"}
  BY <1>1, StageNames DEF Events
<1>. QED  BY <1>2, Ranks

\* What is appended to a trace adds its stages and what they say.
LEMMA Appended ==
  ASSUME NEW a \in Seq(Events), NEW b \in Seq(Events)
  PROVE  /\ a \o b \in Seq(Events)
         /\ StagesOf(a \o b) = StagesOf(a) \cup StagesOf(b)
         /\ \A stage : SaysOf(a \o b, stage) = SaysOf(a, stage) \cup SaysOf(b, stage)
<1>1. a \o b \in Seq(Events) /\ Len(a \o b) = Len(a) + Len(b)
  OBVIOUS
<1>2. /\ DOMAIN a = 1..Len(a) /\ DOMAIN b = 1..Len(b) /\ DOMAIN (a \o b) = 1..Len(a) + Len(b)
      /\ Len(a) \in Nat /\ Len(b) \in Nat
  BY <1>1
<1>3. \A i \in DOMAIN a : i \in DOMAIN (a \o b) /\ (a \o b)[i] = a[i]
  BY <1>2
<1>4. \A i \in DOMAIN b : Len(a) + i \in DOMAIN (a \o b) /\ (a \o b)[Len(a) + i] = b[i]
  BY <1>2
<1>5. \A i \in DOMAIN (a \o b) : \/ i \in DOMAIN a
                                 \/ i - Len(a) \in DOMAIN b /\ (a \o b)[i] = b[i - Len(a)]
  BY <1>2
<1>. DEFINE c == a \o b
<1>6. /\ \A i \in DOMAIN a : i \in DOMAIN c /\ c[i] = a[i]
      /\ \A i \in DOMAIN b : Len(a) + i \in DOMAIN c /\ c[Len(a) + i] = b[i]
      /\ \A i \in DOMAIN c : i \in DOMAIN a \/ (i - Len(a) \in DOMAIN b /\ c[i] = b[i - Len(a)])
  BY <1>3, <1>4, <1>5
<1>. HIDE DEF c
<1>7. StagesOf(c) = StagesOf(a) \cup StagesOf(b)
  BY <1>6 DEF StagesOf
<1>8. ASSUME NEW stage PROVE SaysOf(c, stage) = SaysOf(a, stage) \cup SaysOf(b, stage)
  BY <1>6 DEF SaysOf
<1>. QED  BY <1>1, <1>7, <1>8 DEF c

\* Stages in order stay so when only later ones are appended.
LEMMA AppendedInOrder ==
  ASSUME NEW a \in Seq(Events), NEW b \in Seq(Events), NEW r \in 1..8, NEW top \in r..8,
         Ordered(a), UpToRank(a, r), Ordered(b), AfterRank(b, r), UpToRank(b, top)
  PROVE  Ordered(a \o b) /\ UpToRank(a \o b, top)
<1>. DEFINE c == a \o b
<1>1. /\ DOMAIN a = 1..Len(a) /\ DOMAIN b = 1..Len(b) /\ DOMAIN c = 1..Len(a) + Len(b)
      /\ Len(a) \in Nat /\ Len(b) \in Nat
  OBVIOUS
<1>2. \A i \in DOMAIN c : \/ i \in DOMAIN a /\ c[i] = a[i]
                          \/ /\ i > Len(a) /\ i - Len(a) \in DOMAIN b
                             /\ c[i] = b[i - Len(a)]
  BY <1>1
<1>3. /\ \A i \in DOMAIN a : Rank(a[i].stage) \in 1..8
      /\ \A i \in DOMAIN b : Rank(b[i].stage) \in 1..8
  BY RankTypes
<1>. HIDE DEF c
<1>4. ASSUME NEW i \in DOMAIN c, NEW j \in DOMAIN c, i < j
      PROVE  Rank(c[i].stage) < Rank(c[j].stage)
  <2>1. i \in Int /\ j \in Int
    BY <1>1
  <2>2. CASE j \in DOMAIN a
    <3>1. i \in DOMAIN a /\ c[i] = a[i] /\ c[j] = a[j]
      BY <1>1, <1>2, <1>4, <2>1, <2>2
    <3>. QED  BY <1>4, <2>2, <3>1 DEF Ordered
  <2>3. CASE i \in DOMAIN a /\ j \notin DOMAIN a
    <3>1. c[i] = a[i] /\ j - Len(a) \in DOMAIN b /\ c[j] = b[j - Len(a)]
      BY <1>1, <1>2, <2>3
    <3>2. Rank(a[i].stage) <= r /\ Rank(b[j - Len(a)].stage) > r
      BY <2>3, <3>1 DEF UpToRank, AfterRank
    <3>. QED  BY <1>3, <2>3, <3>1, <3>2, SMTT(60)
  <2>4. CASE i \notin DOMAIN a /\ j \notin DOMAIN a
    <3>1. /\ i - Len(a) \in DOMAIN b /\ c[i] = b[i - Len(a)]
          /\ j - Len(a) \in DOMAIN b /\ c[j] = b[j - Len(a)]
      BY <1>2, <2>4
    <3>2. i - Len(a) < j - Len(a)
      BY <1>1, <1>4, <2>1
    <3>. QED  BY <3>1, <3>2 DEF Ordered
  <2>. QED  BY <2>2, <2>3, <2>4
<1>5. ASSUME NEW i \in DOMAIN c PROVE Rank(c[i].stage) <= top
  <2>1. CASE i \in DOMAIN a /\ c[i] = a[i]
    <3>1. Rank(a[i].stage) <= r
      BY <2>1 DEF UpToRank
    <3>. QED  BY <1>3, <2>1, <3>1, SMTT(60)
  <2>2. CASE i - Len(a) \in DOMAIN b /\ c[i] = b[i - Len(a)]
    BY <2>2 DEF UpToRank
  <2>. QED  BY <1>2, <2>1, <2>2
<1>. QED  BY <1>4, <1>5 DEF Ordered, UpToRank, c

\* The stages that are logged together.
LEMMA DequeuedTrace ==
  LET t == <<Passed("dequeued")>> IN
  /\ t \in Seq(Events) /\ StagesOf(t) = {"dequeued"}
  /\ \A stage : stage # "dequeued" => SaysOf(t, stage) = {}
  /\ Ordered(t) /\ UpToRank(t, 1)
<1>. DEFINE t == <<Passed("dequeued")>>
<1>1. Passed("dequeued") \in Events /\ Passed("dequeued").stage = "dequeued"
  BY EventTypes
<1>2. t \in Seq(Events) /\ DOMAIN t = {1} /\ t[1] = Passed("dequeued")
  BY <1>1
<1>. HIDE DEF t
<1>3. StagesOf(t) = {"dequeued"} /\ \A stage : stage # "dequeued" => SaysOf(t, stage) = {}
  BY <1>1, <1>2 DEF StagesOf, SaysOf
<1>4. Ordered(t) /\ UpToRank(t, 1)
  BY <1>1, <1>2, Ranks DEF Ordered, UpToRank
<1>. QED  BY <1>2, <1>3, <1>4 DEF t

LEMMA ParsedTrace ==
  LET t == <<Passed("parsed")>> IN
  /\ t \in Seq(Events) /\ StagesOf(t) = {"parsed"}
  /\ \A stage : stage # "parsed" => SaysOf(t, stage) = {}
  /\ Ordered(t) /\ AfterRank(t, 1) /\ UpToRank(t, 3)
<1>. DEFINE t == <<Passed("parsed")>>
<1>1. Passed("parsed") \in Events /\ Passed("parsed").stage = "parsed"
  BY EventTypes
<1>2. t \in Seq(Events) /\ DOMAIN t = {1} /\ t[1] = Passed("parsed")
  BY <1>1
<1>. HIDE DEF t
<1>3. StagesOf(t) = {"parsed"} /\ \A stage : stage # "parsed" => SaysOf(t, stage) = {}
  BY <1>1, <1>2 DEF StagesOf, SaysOf
<1>4. Ordered(t) /\ AfterRank(t, 1) /\ UpToRank(t, 3)
  BY <1>1, <1>2, Ranks DEF Ordered, UpToRank, AfterRank
<1>. QED  BY <1>2, <1>3, <1>4 DEF t

LEMMA GuardTrace ==
  ASSUME NEW outcome \in Outcomes
  PROVE  LET t == <<Passed("parsed"), Event("guard", outcome)>> IN
         /\ t \in Seq(Events) /\ StagesOf(t) = {"parsed", "guard"}
         /\ SaysOf(t, "guard") = {outcome} /\ SaysOf(t, "clustered") = {}
         /\ Ordered(t) /\ AfterRank(t, 1) /\ UpToRank(t, 3)
<1>. DEFINE t == <<Passed("parsed"), Event("guard", outcome)>>
<1>1. /\ Passed("parsed") \in Events /\ Passed("parsed").stage = "parsed"
      /\ Event("guard", outcome) \in Events /\ Event("guard", outcome).stage = "guard"
      /\ Event("guard", outcome).says = outcome
  BY EventTypes
<1>2. /\ t \in Seq(Events) /\ DOMAIN t = {1, 2}
      /\ t[1] = Passed("parsed") /\ t[2] = Event("guard", outcome)
  BY <1>1
<1>. HIDE DEF t
<1>3. StagesOf(t) = {"parsed", "guard"}
  BY <1>1, <1>2 DEF StagesOf
<1>4. SaysOf(t, "guard") = {outcome} /\ SaysOf(t, "clustered") = {}
  BY <1>1, <1>2 DEF SaysOf
<1>5. Ordered(t) /\ AfterRank(t, 1) /\ UpToRank(t, 3)
  BY <1>1, <1>2, Ranks DEF Ordered, UpToRank, AfterRank
<1>. QED  BY <1>2, <1>3, <1>4, <1>5 DEF t

LEMMA UnitTrace ==
  ASSUME NEW p, draft[p].cluster \in Mentions
  PROVE  LET t == UnitStages(p) IN
         /\ t \in Seq(Events) /\ StagesOf(t) = {"scored", "clustered", "persisted"}
         /\ SaysOf(t, "clustered") = {draft[p].cluster} /\ SaysOf(t, "guard") = {}
         /\ Ordered(t) /\ AfterRank(t, 3) /\ UpToRank(t, 6)
<1>. DEFINE t == UnitStages(p)
            decided == Event("clustered", draft[p].cluster)
<1>1. /\ Passed("scored") \in Events /\ Passed("scored").stage = "scored"
      /\ decided \in Events /\ decided.stage = "clustered" /\ decided.says = draft[p].cluster
      /\ Passed("persisted") \in Events /\ Passed("persisted").stage = "persisted"
  BY EventTypes
<1>2. /\ t \in Seq(Events) /\ DOMAIN t = {1, 2, 3}
      /\ t[1] = Passed("scored") /\ t[2] = decided /\ t[3] = Passed("persisted")
  BY <1>1 DEF UnitStages
<1>. HIDE DEF t, decided
<1>3. StagesOf(t) = {"scored", "clustered", "persisted"}
  BY <1>1, <1>2 DEF StagesOf
<1>4. SaysOf(t, "clustered") = {draft[p].cluster} /\ SaysOf(t, "guard") = {}
  BY <1>1, <1>2 DEF SaysOf
<1>5. Ordered(t) /\ AfterRank(t, 3) /\ UpToRank(t, 6)
  BY <1>1, <1>2, Ranks DEF Ordered, UpToRank, AfterRank
<1>. QED  BY <1>2, <1>3, <1>4, <1>5 DEF t

LEMMA ResponseTrace ==
  LET t == <<Passed("responded"), Passed("summary")>> IN
  /\ t \in Seq(Events) /\ "summary" \in StagesOf(t)
  /\ Ordered(t) /\ AfterRank(t, 6) /\ UpToRank(t, 8)
<1>. DEFINE t == <<Passed("responded"), Passed("summary")>>
<1>1. /\ Passed("responded") \in Events /\ Passed("responded").stage = "responded"
      /\ Passed("summary") \in Events /\ Passed("summary").stage = "summary"
  BY EventTypes
<1>2. /\ t \in Seq(Events) /\ DOMAIN t = {1, 2}
      /\ t[1] = Passed("responded") /\ t[2] = Passed("summary")
  BY <1>1
<1>. HIDE DEF t
<1>3. "summary" \in StagesOf(t)
  BY <1>1, <1>2 DEF StagesOf
<1>4. Ordered(t) /\ AfterRank(t, 6) /\ UpToRank(t, 8)
  BY <1>1, <1>2, Ranks DEF Ordered, UpToRank, AfterRank
<1>. QED  BY <1>2, <1>3, <1>4 DEF t

LEMMA NoTrace ==
  LET t == <<>> IN
  /\ t \in Seq(Events) /\ StagesOf(t) = {} /\ \A stage : SaysOf(t, stage) = {}
  /\ \A r : Ordered(t) /\ AfterRank(t, r) /\ UpToRank(t, r)
<1>. DEFINE t == <<>>
<1>1. t \in Seq(Events) /\ DOMAIN t = {}
  OBVIOUS
<1>. HIDE DEF t
<1>2. StagesOf(t) = {} /\ \A stage : SaysOf(t, stage) = {}
  BY <1>1 DEF StagesOf, SaysOf
<1>3. \A r : Ordered(t) /\ AfterRank(t, r) /\ UpToRank(t, r)
  BY <1>1 DEF Ordered, AfterRank, UpToRank
<1>. QED  BY <1>1, <1>2, <1>3 DEF t

-----------------------------------------------------------------------------
(***************************************************************************)
(* The steps.                                                              *)
(***************************************************************************)
\* Every traced step is a step of the service.
LEMMA TracedIsNext == [TracedNext]_tracedVars => [Next]_vars
BY DEF TracedNext, TracedWork, TakeBiteTraced, GuardTraced, FailUnitTraced, ThreadFaultTraced,
   FinishUnitTraced, SendResponsesTraced, Untraced, CrashTraced, tracedVars, Next, Work

LEMMA InitTraces == TracedInit => TraceInv /\ OrderInv
<1>. SUFFICES ASSUME TracedInit PROVE TraceInv /\ OrderInv
  OBVIOUS
<1>1. DOMAIN bite = {} /\ pending = {} /\ repeats = {} /\ unit = {} /\ phase = "idle"
  BY DEF TracedInit, Init, Empty
<1>2. DOMAIN log = {} /\ log \in [DOMAIN log -> Seq(Events)]
  BY DEF TracedInit
<1>. QED
  BY <1>1, <1>2 DEF TraceInv, OrderInv, LogTyped, UnitDecided, DecisionsAreCommitted, Fresh,
     PersistedIffStored, RepeatsFollow, AllExplained, Unguarded, Unanswered

LEMMA TakeTraces == TypeInv /\ TakeBiteTraced => TraceInv' /\ OrderInv'
<1>. SUFFICES ASSUME TypeInv, TakeBiteTraced PROVE TraceInv' /\ OrderInv'
  OBVIOUS
<1>. DEFINE t == <<Passed("dequeued")>>
<1>1. /\ pending' = {} /\ repeats' = {} /\ phase' = "serving"
      /\ \A p \in DOMAIN bite' : replies'[p] = NoReply
      /\ log' = [p \in DOMAIN bite' |-> t]
  BY DEF TakeBiteTraced, TakeBite, TypeInv, NothingWhenIdle
<1>2. /\ t \in Seq(Events) /\ SaysOf(t, "clustered") = {}
      /\ Ordered(t) /\ UpToRank(t, 1)
  BY DequeuedTrace
<1>3. UpToRank(t, 6)
  <2>1. \A i \in DOMAIN t : Rank(t[i].stage) \in 1..8
    BY <1>2, RankTypes
  <2>. QED  BY <1>2, <2>1 DEF UpToRank
<1>4. Fresh'
  BY <1>1 DEF Fresh, Unguarded, Unanswered
<1>. HIDE DEF t
<1>5. DecisionsAreCommitted'
  BY <1>1, <1>2 DEF DecisionsAreCommitted, Says, SaysOf
<1>6. AllExplained'
  BY <1>1, KindsDiffer DEF AllExplained
<1>7. TraceInv'
  BY <1>1, <1>2, <1>4, <1>5, <1>6 DEF TraceInv, LogTyped, UnitDecided, PersistedIffStored,
     RepeatsFollow
<1>8. OrderInv'
  BY <1>1, <1>2, <1>3 DEF OrderInv, Unanswered
<1>. QED  BY <1>7, <1>8

\* Steps that log nothing and change no table.
LEMMA QuietTraces ==
  ASSUME TraceInv, UNCHANGED <<store, bite, pending, repeats, log>>,
         phase # "idle", phase' # "idle", UnitDecided',
         \A p \in pending : InHand(p)' <=> InHand(p),
         Unguarded' \subseteq Unguarded,
         \A p \in DOMAIN bite :
           replies'[p].kind = "resolved" => replies'[p] = replies[p] \/ Explained(p)
  PROVE  /\ TraceInv'
         /\ OrderInv /\ Unanswered(pending)' \subseteq Unanswered(pending) => OrderInv'
<1>1. \A p : Mention(p)' = Mention(p) /\ Explained(p)' = Explained(p)
  BY DEF Mention, Explained
<1>2. AllExplained'
  BY <1>1 DEF TraceInv, AllExplained
<1>3. PersistedIffStored'
  BY <1>1 DEF TraceInv, PersistedIffStored, Stored
<1>4. DecisionsAreCommitted'
  BY <1>1 DEF TraceInv, DecisionsAreCommitted, Says
<1>5. Fresh' /\ RepeatsFollow' /\ LogTyped'
  BY <1>1 DEF TraceInv, Fresh, RepeatsFollow, LogTyped
<1>6. OrderInv /\ Unanswered(pending)' \subseteq Unanswered(pending) => OrderInv'
  BY DEF OrderInv
<1>. QED  BY <1>2, <1>3, <1>4, <1>5, <1>6 DEF TraceInv

LEMMA QuietUnit ==
  ASSUME TypeInv, AnswerInv, TraceInv,
         BeginUnit \/ AssignCluster \/ SaveUnit, UNCHANGED log
  PROVE  TraceInv' /\ (OrderInv => OrderInv')
<1>1. /\ UNCHANGED <<store, bite, replies, pending, repeats, log>>
      /\ phase # "idle" /\ phase' \in {"scoring", "saved"} /\ phase # "committed"
  BY DEF BeginUnit, AssignCluster, SaveUnit
<1>2. UnitDecided'
  <2>1. CASE BeginUnit \/ AssignCluster
    BY <2>1 DEF BeginUnit, AssignCluster, UnitDecided
  <2>2. CASE SaveUnit
    <3>1. /\ work'.clusters = store.clusters \cup {<<Mention(p), draft[p].cluster>> : p \in unit}
          /\ UNCHANGED <<unit, draft>> /\ phase' = "saved"
      BY <2>2 DEF SaveUnit, AnswerInv, HandsInv, TypeInv, TypeOK, Stores
    <3>. QED  BY <1>1, <3>1 DEF UnitDecided, Mention
  <2>. QED  BY <2>1, <2>2
<1>3. Unguarded' = Unguarded /\ Unanswered(pending)' = Unanswered(pending)
  BY <1>1 DEF Unguarded, Unanswered
<1>4. \A p \in pending : InHand(p)' <=> InHand(p)
  BY <1>1 DEF InHand
<1>. QED  BY <1>1, <1>2, <1>3, <1>4, QuietTraces

LEMMA QuietFailure ==
  ASSUME TypeInv, AnswerInv, TraceInv, FailUnitTraced
  PROVE  TraceInv' /\ (OrderInv => OrderInv')
<1>1. /\ UNCHANGED <<store, bite, pending, repeats>>
      /\ phase # "idle" /\ phase' = "serving" /\ phase # "committed"
      /\ UnitRaised
  BY DEF FailUnitTraced, FailUnit, UnitRaised
<1>2. log' = log
  <2>1. /\ log' = [p \in DOMAIN log |-> IF p \in unit THEN log[p] \o <<>> ELSE log[p]]
        /\ log \in [DOMAIN log -> Seq(Events)]
    BY DEF FailUnitTraced, LogUnit, UnitStagesOfFailure, TraceInv, LogTyped
  <2>2. \A p \in DOMAIN log : log[p] \o <<>> = log[p]
    BY <2>1
  <2>. QED  BY <2>1, <2>2
<1>3. /\ \A p \in DOMAIN bite :
           /\ replies'[p].kind = "resolved" => replies'[p] = replies[p]
           /\ replies'[p] = NoReply => replies[p] = NoReply
      /\ pending \subseteq DOMAIN bite
  BY <1>1, KindsDiffer DEF UnitRaised, TypeInv, TypeOK
<1>4. Unguarded' \subseteq Unguarded /\ Unanswered(pending)' \subseteq Unanswered(pending)
  BY <1>1, <1>3 DEF Unguarded, Unanswered
<1>5. UnitDecided' /\ \A p \in pending : InHand(p)' <=> InHand(p)
  BY <1>1 DEF UnitDecided, InHand
<1>. QED  BY <1>1, <1>2, <1>3, <1>4, <1>5, QuietTraces

LEMMA QuietRepeats ==
  ASSUME TypeInv, AnswerInv, TraceInv, RespondCached \/ RepeatRaises, UNCHANGED log
  PROVE  TraceInv' /\ (OrderInv => OrderInv')
<1>1. /\ UNCHANGED <<store, work, phase, bite, pending, repeats, unit, draft, log>>
      /\ phase = "serving" /\ Unguarded = {} /\ Unanswered(pending) = {}
      /\ work = store /\ UnitClustered(store)
      /\ pending \subseteq DOMAIN bite
      /\ replies \in [DOMAIN bite -> Replies]
  BY DEF RespondCached, RepeatRaises, Repeating, AnswerInv, HandsInv, TypeInv, TypeOK
<1>2. UnitDecided' /\ \A p \in pending : InHand(p)' <=> InHand(p)
  BY <1>1 DEF UnitDecided, InHand
<1>3. CASE RespondCached
  <2>1. PICK p \in repeats :
          IF Mention(p) \in Clustered(work)
          THEN \E ranking \in Requeries(work, Mention(p)) : Reply(p, Resolved(ranking))
          ELSE Reply(p, Error("internal"))
    BY <1>3 DEF RespondCached
  <2>2. PICK reply : Reply(p, reply) /\ reply # NoReply
                     /\ (reply.kind = "resolved" => Mention(p) \in Clustered(work))
    BY <2>1, KindsDiffer
  <2>3. p \in DOMAIN bite /\ p \notin pending
    BY DEF TypeInv, TypeOK, AnswerInv, RepeatsLast
  <2>4. replies'[p] = reply /\ \A q \in DOMAIN bite \ {p} : replies'[q] = replies[q]
    BY <1>1, <2>2, <2>3 DEF Reply
  <2>5. \A q \in DOMAIN bite : replies'[q] = NoReply => replies[q] = NoReply
    BY <2>2, <2>4
  <2>6. Unguarded' \subseteq Unguarded /\ Unanswered(pending)' \subseteq Unanswered(pending)
    BY <1>1, <2>5 DEF Unguarded, Unanswered
  <2>7. reply.kind = "resolved" => Explained(p)
    <3>. SUFFICES ASSUME Mention(p) \in Clustered(store) PROVE Explained(p)
      BY <1>1, <2>2
    <3>1. PICK q \in pending : q < p /\ Mention(q) = Mention(p)
      BY DEF TraceInv, RepeatsFollow
    <3>2. Mention(q) \in Stored(store)
      BY <1>1, <3>1 DEF UnitClustered, Clustered
    <3>3. "persisted" \in StagesOf(log[q])
      BY <1>1, <3>2 DEF TraceInv, PersistedIffStored, InHand
    <3>. QED  BY <2>3, <3>1, <3>3 DEF Explained
  <2>. QED  BY <1>1, <1>2, <2>4, <2>6, <2>7, QuietTraces
<1>4. CASE RepeatRaises
  <2>1. \A p \in DOMAIN bite : replies'[p].kind = "failed" /\ replies'[p] # NoReply
    BY <1>4, KindsDiffer DEF RepeatRaises
  <2>2. Unguarded' = {} /\ Unanswered(pending)' = {}
    BY <1>1, <2>1 DEF Unguarded, Unanswered
  <2>. QED  BY <1>1, <1>2, <2>1, <2>2, QuietTraces
<1>. QED  BY <1>3, <1>4

\* A commit stores the mentions of the unit, whose stages are about to be logged.
LEMMA CommitTraces ==
  ASSUME TypeInv, AnswerInv, TraceInv, Commit, UNCHANGED log
  PROVE  TraceInv' /\ (OrderInv => OrderInv')
<1>1. /\ phase = "saved" /\ phase' = "committed" /\ store' = work
      /\ UNCHANGED <<work, bite, replies, pending, repeats, unit, draft, log>>
      /\ UnitIn(work) /\ PendingDistinct /\ unit \subseteq pending
      /\ \A p : Mention(p)' = Mention(p)
  BY DEF Commit, AnswerInv, HandsInv, Unanswered, Mention
<1>2. store.clusters \subseteq store'.clusters
  BY <1>1 DEF TraceInv, UnitDecided
<1>3. DecisionsAreCommitted'
  BY <1>1, <1>2 DEF TraceInv, DecisionsAreCommitted, Says
<1>4. UnitDecided'
  BY <1>1 DEF TraceInv, UnitDecided
<1>5. PersistedIffStored'
  <2>. SUFFICES ASSUME NEW p \in pending
                PROVE  Mention(p) \in Stored(store') <=>
                         "persisted" \in StagesOf(log[p]) \/ p \in unit
    BY <1>1 DEF PersistedIffStored, InHand, Stored
  <2>1. Mention(p) \in Mentions
    BY PendingMentions
  <2>2. CASE p \in unit
    BY <1>1, <2>1, <2>2 DEF UnitIn, Stored
  <2>3. CASE p \notin unit
    <3>1. \A q \in unit : Mention(q) # Mention(p)
      BY <1>1, <2>3 DEF PendingDistinct
    <3>2. store'.rows[Mention(p)] = store.rows[Mention(p)]
      BY <1>1, <2>1, <3>1 DEF UnitIn
    <3>. QED  BY <1>1, <2>3, <3>2 DEF TraceInv, PersistedIffStored, InHand, Stored
  <2>. QED  BY <2>2, <2>3
<1>6. Fresh' /\ RepeatsFollow' /\ LogTyped' /\ AllExplained'
  BY <1>1 DEF TraceInv, Fresh, Unguarded, Unanswered, RepeatsFollow, LogTyped, AllExplained,
     Explained, Mention
<1>7. OrderInv => OrderInv'
  BY <1>1 DEF OrderInv, Unanswered
<1>. QED  BY <1>3, <1>4, <1>5, <1>6, <1>7 DEF TraceInv

\* The stages of a unit are logged after its commit: in the end of it, or when the
\* training thread cannot be started.
LEMMA LoggingTraces ==
  ASSUME TypeInv, AnswerInv, TraceInv,
         phase = "committed", phase' = "serving",
         UNCHANGED <<store, bite, pending, repeats>>, unit' = {},
         LogUnit([p \in unit |-> UnitStages(p)]),
         \A p \in DOMAIN bite \ unit : replies'[p] = replies[p],
         \A p \in unit : replies'[p] # NoReply \/ Cardinality(unit) # 1
  PROVE  /\ TraceInv'
         /\ OrderInv /\ (\A p \in unit : replies'[p] # NoReply) => OrderInv'
<1>1. /\ work = store /\ unit \subseteq pending /\ pending \subseteq DOMAIN bite
      /\ \A p \in unit : replies[p] = NoReply
      /\ log \in [DOMAIN log -> Seq(Events)] /\ DOMAIN log = DOMAIN bite
      /\ \A p : Mention(p)' = Mention(p)
  BY DEF AnswerInv, HandsInv, Unanswered, TypeInv, TypeOK, TraceInv, LogTyped, Mention
<1>2. \A p \in unit : draft[p].cluster \in Mentions
  BY DEF TypeInv, TypeOK, DraftsDone, Drafts
<1>3. /\ DOMAIN log' = DOMAIN log
      /\ \A p \in DOMAIN log \ unit : log'[p] = log[p]
      /\ \A p \in unit : log'[p] = log[p] \o UnitStages(p)
  BY <1>1 DEF LogUnit
<1>4. ASSUME NEW p \in unit
      PROVE  /\ log'[p] \in Seq(Events)
             /\ StagesOf(log'[p]) = StagesOf(log[p]) \cup {"scored", "clustered", "persisted"}
             /\ SaysOf(log'[p], "clustered") = SaysOf(log[p], "clustered") \cup {draft[p].cluster}
             /\ Ordered(log[p]) /\ UpToRank(log[p], 3) => Ordered(log'[p]) /\ UpToRank(log'[p], 6)
  <2>. DEFINE t == UnitStages(p)
  <2>1. log[p] \in Seq(Events)
    BY <1>1
  <2>2. /\ t \in Seq(Events) /\ StagesOf(t) = {"scored", "clustered", "persisted"}
        /\ SaysOf(t, "clustered") = {draft[p].cluster}
        /\ Ordered(t) /\ AfterRank(t, 3) /\ UpToRank(t, 6)
    BY <1>2, UnitTrace
  <2>3. log'[p] = log[p] \o t
    BY <1>3
  <2>. HIDE DEF t
  <2>4. /\ log[p] \o t \in Seq(Events)
        /\ StagesOf(log[p] \o t) = StagesOf(log[p]) \cup StagesOf(t)
        /\ SaysOf(log[p] \o t, "clustered") = SaysOf(log[p], "clustered") \cup SaysOf(t, "clustered")
    BY <2>1, <2>2, Appended
  <2>5. Ordered(log[p]) /\ UpToRank(log[p], 3) => Ordered(log[p] \o t) /\ UpToRank(log[p] \o t, 6)
    BY <2>1, <2>2, AppendedInOrder
  <2>. QED  BY <2>2, <2>3, <2>4, <2>5
<1>5. LogTyped'
  <2>1. \A p \in DOMAIN log' : log'[p] \in Seq(Events)
    BY <1>1, <1>3, <1>4
  <2>2. log' = [p \in DOMAIN log' |-> log'[p]]
    BY DEF LogUnit
  <2>3. log' \in [DOMAIN log' -> Seq(Events)]
    BY <2>1, <2>2
  <2>. QED  BY <1>1, <1>3, <2>3 DEF LogTyped
<1>6. DecisionsAreCommitted'
  <2>. SUFFICES ASSUME NEW p \in DOMAIN bite, NEW c \in SaysOf(log'[p], "clustered")
                PROVE  <<Mention(p), c>> \in store.clusters
    BY <1>1 DEF DecisionsAreCommitted, Says, SaysOf
  <2>1. c \in SaysOf(log[p], "clustered") => <<Mention(p), c>> \in store.clusters
    BY DEF TraceInv, DecisionsAreCommitted, Says, SaysOf
  <2>2. p \in unit => <<Mention(p), draft[p].cluster>> \in store.clusters
    BY <1>1 DEF TraceInv, UnitDecided
  <2>. QED  BY <1>1, <1>3, <1>4, <2>1, <2>2
<1>7. Fresh'
  <2>1. Unguarded' \subseteq Unguarded /\ Unguarded \cap unit = {}
    BY <1>1 DEF Unguarded, Unanswered
  <2>. QED  BY <1>1, <1>3, <2>1 DEF TraceInv, Fresh, Unguarded, Unanswered
<1>8. \A p \in pending : "persisted" \in StagesOf(log'[p]) <=>
        "persisted" \in StagesOf(log[p]) \/ p \in unit
  BY <1>1, <1>3, <1>4
<1>9. PersistedIffStored'
  BY <1>1, <1>8 DEF TraceInv, PersistedIffStored, InHand, Stored
<1>10. RepeatsFollow' /\ UnitDecided'
  BY <1>1 DEF TraceInv, RepeatsFollow, UnitDecided
<1>11. AllExplained'
  <2>. SUFFICES ASSUME NEW p \in DOMAIN bite, replies'[p].kind = "resolved"
                PROVE  Explained(p)'
    BY DEF AllExplained
  <2>1. CASE p \in unit
    <3>1. p \notin repeats
      BY <1>1, <2>1 DEF AnswerInv, RepeatsLast
    <3>. QED  BY <1>1, <1>8, <2>1, <3>1 DEF Explained
  <2>2. CASE p \notin unit
    <3>1. Explained(p)
      BY <2>2 DEF TraceInv, AllExplained
    <3>. QED  BY <1>1, <1>3, <1>8, <2>2, <3>1 DEF Explained
  <2>. QED  BY <2>1, <2>2
<1>12. ASSUME OrderInv, \A p \in unit : replies'[p] # NoReply
       PROVE  OrderInv'
  <2>1. \A p \in unit : Ordered(log'[p]) /\ UpToRank(log'[p], 6)
    <3>1. \A p \in unit : p \in Unanswered(pending) /\ p \in DOMAIN log
      BY <1>1 DEF Unanswered
    <3>. QED  BY <1>4, <1>12, <3>1 DEF OrderInv
  <2>2. Unanswered(pending)' \subseteq Unanswered(pending) \ unit
    BY <1>1, <1>12 DEF Unanswered
  <2>3. /\ \A p \in DOMAIN log : Ordered(log[p]) /\ UpToRank(log[p], 6)
        /\ \A p \in Unanswered(pending) : UpToRank(log[p], 3)
    BY <1>1, <1>12 DEF OrderInv
  <2>4. ASSUME NEW p \in DOMAIN log' PROVE Ordered(log'[p]) /\ UpToRank(log'[p], 6)
    <3>1. CASE p \in unit
      BY <2>1, <3>1
    <3>2. CASE p \notin unit
      <4>1. p \in DOMAIN log /\ log'[p] = log[p]
        BY <1>3, <3>2
      <4>. QED  BY <2>3, <4>1
    <3>. QED  BY <3>1, <3>2
  <2>5. ASSUME NEW p \in Unanswered(pending)' PROVE UpToRank(log'[p], 3)
    <3>1. p \in Unanswered(pending) \ unit /\ p \in DOMAIN log
      BY <1>1, <2>2 DEF Unanswered
    <3>2. log'[p] = log[p]
      BY <1>3, <3>1
    <3>. QED  BY <2>3, <3>1, <3>2
  <2>6. bite' = bite /\ phase' = "serving" /\ DOMAIN log' = DOMAIN bite
    BY <1>1, <1>3
  <2>. QED  BY <2>4, <2>5, <2>6 DEF OrderInv
<1>. QED  BY <1>5, <1>6, <1>7, <1>9, <1>10, <1>11, <1>12 DEF TraceInv

LEMMA FinishTraces ==
  ASSUME TypeInv, AnswerInv, TraceInv, FinishUnitTraced
  PROVE  TraceInv' /\ (OrderInv => OrderInv')
<1>1. /\ phase = "committed" /\ phase' = "serving" /\ unit' = {}
      /\ UNCHANGED <<store, bite, pending, repeats>>
      /\ LogUnit([p \in unit |-> UnitStages(p)])
      /\ \A p \in DOMAIN bite \ unit : replies'[p] = replies[p]
  BY DEF FinishUnitTraced, FinishUnit
<1>2. \A p \in unit : replies'[p] # NoReply
  <2>1. unit \subseteq DOMAIN bite
    BY DEF TypeInv, TypeOK
  <2>. QED  BY <2>1, KindsDiffer DEF FinishUnitTraced, FinishUnit
<1>. QED  BY <1>1, <1>2, LoggingTraces

LEMMA FaultTraces ==
  ASSUME TypeInv, AnswerInv, TraceInv, ThreadFaultTraced
  PROVE  TraceInv'
<1>1. /\ phase = "committed" /\ phase' = "serving" /\ unit' = {}
      /\ UNCHANGED <<store, bite, pending, repeats>>
      /\ LogUnit([p \in unit |-> UnitStages(p)])
  BY DEF ThreadFaultTraced, ThreadFault, UnitRaised
<1>2. unit \subseteq DOMAIN bite /\ replies \in [DOMAIN bite -> Replies]
  BY DEF TypeInv, TypeOK
<1>3. CASE Cardinality(unit) = 1
  <2>1. replies' = [p \in DOMAIN bite |-> IF p \in unit THEN Error("internal") ELSE replies[p]]
    BY <1>3 DEF ThreadFaultTraced, ThreadFault, UnitRaised
  <2>2. /\ \A p \in DOMAIN bite \ unit : replies'[p] = replies[p]
        /\ \A p \in unit : replies'[p] # NoReply
    BY <1>2, <2>1, KindsDiffer
  <2>. QED  BY <1>1, <2>2, LoggingTraces
<1>4. CASE Cardinality(unit) # 1
  <2>1. replies' = replies
    BY <1>4 DEF ThreadFaultTraced, ThreadFault, UnitRaised
  <2>. QED  BY <1>1, <1>4, <2>1, LoggingTraces
<1>. QED  BY <1>3, <1>4

\* What a guard logs fits what it answers.
LEMMA GuardStagesFit ==
  ASSUME NEW p, NEW kind \in Kinds, NEW t \in GuardStages(p, kind)
  PROVE  /\ t \in Seq(Events) /\ StagesOf(t) \subseteq {"parsed", "guard"}
         /\ SaysOf(t, "clustered") = {}
         /\ kind = "resolved" => SaysOf(t, "guard") = {"idempotent"}
         /\ Ordered(t) /\ AfterRank(t, 1) /\ UpToRank(t, 3)
<1>. DEFINE Good(u) == /\ u \in Seq(Events) /\ StagesOf(u) \subseteq {"parsed", "guard"}
                       /\ SaysOf(u, "clustered") = {}
                       /\ Ordered(u) /\ AfterRank(u, 1) /\ UpToRank(u, 3)
            Read(outcome) == <<Passed("parsed"), Event("guard", outcome)>>
<1>1. Good(<<>>)
  BY NoTrace
<1>2. Good(<<Passed("parsed")>>)
  BY ParsedTrace
<1>3. \A outcome \in Outcomes : Good(Read(outcome)) /\ SaysOf(Read(outcome), "guard") = {outcome}
  BY GuardTrace
<1>4. \/ kind \in {"failed", "rejected"} /\ t = <<>>
      \/ kind = "internal" /\ (t = <<>> \/ t = <<Passed("parsed")>>)
      \/ kind = "conflict" /\ (t = Read("conflict") \/ t = Read("new"))
      \/ kind = "resolved" /\ t = Read("idempotent")
      \/ kind = "none" /\ t = Read("new")
  <2>1. CASE kind \in {"failed", "rejected"}
    BY <2>1 DEF GuardStages
  <2>2. CASE kind = "internal"
    BY <2>2 DEF GuardStages
  <2>3. CASE kind = "conflict"
    BY <2>3 DEF GuardStages
  <2>4. CASE kind = "resolved"
    BY <2>4 DEF GuardStages
  <2>5. CASE kind = "none"
    BY <2>5 DEF GuardStages
  <2>. QED  BY <2>1, <2>2, <2>3, <2>4, <2>5 DEF Kinds
<1>5. "conflict" \in Outcomes /\ "new" \in Outcomes /\ "idempotent" \in Outcomes
  BY DEF Outcomes
<1>. HIDE DEF Good, Read
<1>6. Good(t) /\ (kind = "resolved" => SaysOf(t, "guard") = {"idempotent"})
  BY <1>1, <1>2, <1>3, <1>4, <1>5
<1>. QED  BY <1>6 DEF Good

LEMMA GuardTraces ==
  ASSUME TypeInv, AnswerInv, TraceInv, GuardTraced
  PROVE  TraceInv' /\ (OrderInv => OrderInv')
<1>1. PICK p \in Unguarded :
        /\ IsFirst(p, Unguarded)
        /\ \/ GuardMalformed(p) /\ UNCHANGED <<pending, repeats>>
           \/ /\ bite[p].form = "entity"
              /\ \/ GuardConflict(p) /\ UNCHANGED <<pending, repeats>>
                 \/ GuardCached(p) /\ UNCHANGED <<pending, repeats>>
                 \/ GuardRaises(p) /\ UNCHANGED <<pending, repeats>>
                 \/ GuardNew(p) /\ UNCHANGED replies
  BY DEF GuardTraced, Guard
<1>2. PICK r \in Unguarded :
        /\ IsFirst(r, Unguarded)
        /\ \E stages \in GuardStages(r, replies'[r].kind) : log' = [log EXCEPT ![r] = @ \o stages]
  BY DEF GuardTraced
<1>3. r = p
  <2>1. p \in Int /\ r \in Int
    BY PositionsAreNumbers DEF Unguarded, Unanswered
  <2>2. p <= r /\ r <= p
    BY <1>1, <1>2 DEF IsFirst
  <2>. QED  BY <2>1, <2>2
<1>4. PICK t \in GuardStages(p, replies'[p].kind) : log' = [log EXCEPT ![p] = @ \o t]
  BY <1>2, <1>3
<1>5. /\ phase = "serving" /\ unit = {} /\ work = store /\ UnitClustered(store)
      /\ UNCHANGED <<store, work, phase, bite, unit, draft>>
      /\ \A q : Mention(q)' = Mention(q)
  BY DEF GuardTraced, Guard, AnswerInv, HandsInv, Mention
<1>6. /\ p \in DOMAIN bite /\ p \notin pending \cup repeats /\ replies[p] = NoReply
      /\ pending \subseteq DOMAIN bite /\ repeats \subseteq DOMAIN bite
      /\ replies \in [DOMAIN bite -> Replies]
      /\ log \in [DOMAIN log -> Seq(Events)] /\ DOMAIN log = DOMAIN bite
      /\ log[p] = <<Passed("dequeued")>>
  BY <1>1, <1>5 DEF Unguarded, Unanswered, TypeInv, TypeOK, TraceInv, LogTyped, Fresh
<1>7. TypeInv'
  BY GuardType DEF GuardTraced
<1>8. replies'[p].kind \in Kinds
  <2>1. replies'[p] \in Replies
    BY <1>5, <1>6, <1>7 DEF TypeInv, TypeOK
  <2>. QED  BY <2>1 DEF Replies
<1>9. /\ t \in Seq(Events) /\ StagesOf(t) \subseteq {"parsed", "guard"}
      /\ SaysOf(t, "clustered") = {}
      /\ replies'[p].kind = "resolved" => SaysOf(t, "guard") = {"idempotent"}
      /\ Ordered(t) /\ AfterRank(t, 1) /\ UpToRank(t, 3)
  BY <1>4, <1>8, GuardStagesFit
<1>10. /\ DOMAIN log' = DOMAIN log
       /\ \A q \in DOMAIN log \ {p} : log'[q] = log[q]
       /\ log'[p] = log[p] \o t
       /\ log' = [q \in DOMAIN log' |-> log'[q]]
  BY <1>4, <1>6
<1>11. /\ log'[p] \in Seq(Events)
       /\ StagesOf(log'[p]) \subseteq {"dequeued", "parsed", "guard"}
       /\ SaysOf(log'[p], "clustered") = {}
       /\ replies'[p].kind = "resolved" => SaysOf(log'[p], "guard") = {"idempotent"}
       /\ Ordered(log'[p]) /\ UpToRank(log'[p], 3)
  <2>. DEFINE a == log[p]
  <2>0. a = <<Passed("dequeued")>> /\ log'[p] = a \o t
    BY <1>6, <1>10
  <2>. HIDE DEF a
  <2>1. /\ a \in Seq(Events) /\ StagesOf(a) = {"dequeued"}
        /\ SaysOf(a, "clustered") = {} /\ SaysOf(a, "guard") = {}
        /\ Ordered(a) /\ UpToRank(a, 1)
    BY <2>0, DequeuedTrace
  <2>2. log'[p] = a \o t
    BY <2>0
  <2>3. /\ a \o t \in Seq(Events) /\ StagesOf(a \o t) = StagesOf(a) \cup StagesOf(t)
        /\ \A stage : SaysOf(a \o t, stage) = SaysOf(a, stage) \cup SaysOf(t, stage)
    BY <1>9, <2>1, Appended
  <2>4. Ordered(a \o t) /\ UpToRank(a \o t, 3)
    BY <1>9, <2>1, AppendedInOrder
  <2>5. StagesOf(a \o t) \subseteq {"dequeued", "parsed", "guard"}
    BY <1>9, <2>1, <2>3
  <2>6. SaysOf(a \o t, "clustered") = {}
    BY <1>9, <2>1, <2>3
  <2>7. replies'[p].kind = "resolved" => SaysOf(a \o t, "guard") = {"idempotent"}
    BY <1>9, <2>1, <2>3
  <2>. QED  BY <2>2, <2>3, <2>4, <2>5, <2>6, <2>7
<1>12. LogTyped'
  <2>1. \A q \in DOMAIN log' : log'[q] \in Seq(Events)
    BY <1>6, <1>10, <1>11
  <2>2. log' \in [DOMAIN log' -> Seq(Events)]
    BY <1>10, <2>1
  <2>. QED  BY <1>5, <1>6, <1>10, <2>2 DEF LogTyped
<1>13. /\ \A q \in DOMAIN bite \ {p} : replies'[q] = replies[q]
       /\ replies'[p] = NoReply => p \in (pending \cup repeats)'
       /\ pending \subseteq pending' /\ repeats \subseteq repeats'
       /\ pending' \subseteq pending \cup {p} /\ repeats' \subseteq repeats \cup {p}
       /\ replies'[p].kind = "resolved" => p \notin pending' \cup repeats'
  <2>1. ASSUME NEW reply, reply # NoReply, Reply(p, reply), UNCHANGED <<pending, repeats>>
        PROVE  <1>13!:
    BY <1>6, <2>1 DEF Reply
  <2>2. CASE GuardMalformed(p) /\ UNCHANGED <<pending, repeats>>
    BY <2>1, <2>2, KindsDiffer DEF GuardMalformed
  <2>3. CASE GuardConflict(p) /\ UNCHANGED <<pending, repeats>>
    BY <2>1, <2>3, KindsDiffer DEF GuardConflict
  <2>4. CASE GuardCached(p) /\ UNCHANGED <<pending, repeats>>
    BY <2>1, <2>4, KindsDiffer DEF GuardCached
  <2>5. CASE GuardRaises(p) /\ UNCHANGED <<pending, repeats>>
    BY <2>1, <2>5, KindsDiffer DEF GuardRaises
  <2>6. CASE GuardNew(p) /\ UNCHANGED replies
    BY <1>6, <2>6, KindsDiffer DEF GuardNew
  <2>. QED  BY <1>1, <2>2, <2>3, <2>4, <2>5, <2>6
<1>14. /\ p \in pending' => Mention(p) \notin Stored(store)
       /\ p \in repeats' => \E q \in pending : q < p /\ Mention(q) = Mention(p)
  <2>1. CASE UNCHANGED <<pending, repeats>>
    BY <1>6, <2>1
  <2>2. CASE bite[p].form = "entity" /\ GuardNew(p)
    <3>1. Mention(p) \notin Stored(store)
      BY <1>5, <2>2 DEF GuardNew, UnitClustered, Stored
    <3>2. \A q \in pending : q < p
      BY DEF AnswerInv, InOrder
    <3>. QED  BY <1>6, <2>2, <3>1, <3>2 DEF GuardNew, Earlier
  <2>. QED  BY <1>1, <2>1, <2>2
<1>15. DecisionsAreCommitted'
  <2>1. \A q \in DOMAIN bite : SaysOf(log'[q], "clustered") \subseteq SaysOf(log[q], "clustered")
    BY <1>6, <1>10, <1>11
  <2>. QED  BY <1>5, <2>1 DEF TraceInv, DecisionsAreCommitted, Says, SaysOf
<1>16. Unguarded' \subseteq Unguarded \ {p}
  BY <1>5, <1>6, <1>13 DEF Unguarded, Unanswered
<1>17. Fresh'
  <2>1. Unguarded \subseteq DOMAIN log
    BY <1>6 DEF Unguarded, Unanswered
  <2>. QED  BY <1>10, <1>16, <2>1 DEF TraceInv, Fresh
<1>18. PersistedIffStored'
  <2>. SUFFICES ASSUME NEW q \in pending'
                PROVE  Mention(q) \in Stored(store) <=> "persisted" \in StagesOf(log'[q])
    BY <1>5 DEF PersistedIffStored, InHand, Stored
  <2>1. CASE q = p
    BY <1>11, <1>14, <2>1
  <2>2. CASE q # p
    <3>1. q \in pending /\ log'[q] = log[q]
      BY <1>6, <1>10, <1>13, <2>2
    <3>. QED  BY <1>5, <3>1 DEF TraceInv, PersistedIffStored, InHand
  <2>. QED  BY <2>1, <2>2
<1>19. RepeatsFollow' /\ UnitDecided'
  BY <1>5, <1>13, <1>14 DEF TraceInv, RepeatsFollow, UnitDecided
<1>20. AllExplained'
  <2>. SUFFICES ASSUME NEW q \in DOMAIN bite, replies'[q].kind = "resolved"
                PROVE  Explained(q)'
    BY <1>5 DEF AllExplained
  <2>1. CASE q = p
    <3>1. SaysOf(log'[p], "guard") = {"idempotent"} /\ "scored" \notin StagesOf(log'[p])
      BY <1>11, <2>1
    <3>. QED  BY <1>13, <2>1, <3>1 DEF Explained
  <2>2. CASE q # p
    <3>1. Explained(q)
      BY <1>13, <2>2 DEF TraceInv, AllExplained
    <3>2. q \in DOMAIN log /\ log'[q] = log[q]
      BY <1>6, <1>10, <2>2
    <3>3. \A x \in pending : log'[x] = log[x]
      BY <1>6, <1>10
    <3>. QED  BY <1>5, <1>13, <2>2, <3>1, <3>2, <3>3 DEF Explained
  <2>. QED  BY <2>1, <2>2
<1>21. ASSUME OrderInv PROVE OrderInv'
  <2>1. UpToRank(log'[p], 6)
    <3>1. \A i \in DOMAIN log'[p] : Rank(log'[p][i].stage) \in 1..8
      BY <1>11, RankTypes
    <3>. QED  BY <1>11, <3>1 DEF UpToRank
  <2>2. Unanswered(pending)' \subseteq Unanswered(pending) \cup {p}
    BY <1>6, <1>13 DEF Unanswered
  <2>3. \A q \in DOMAIN log \ {p} : Ordered(log'[q]) /\ UpToRank(log'[q], 6)
    BY <1>5, <1>6, <1>10, <1>21 DEF OrderInv
  <2>4. \A q \in Unanswered(pending)' : UpToRank(log'[q], 3)
    <3>1. \A q \in Unanswered(pending) : q # p /\ q \in DOMAIN log
      BY <1>6 DEF Unanswered
    <3>. QED  BY <1>10, <1>11, <1>21, <2>2, <3>1 DEF OrderInv
  <2>5. \A q \in DOMAIN log' : Ordered(log'[q]) /\ UpToRank(log'[q], 6)
    BY <1>10, <1>11, <2>1, <2>3
  <2>6. bite' = bite /\ phase' = "serving" /\ DOMAIN log' = DOMAIN bite
    BY <1>5, <1>6, <1>10
  <2>. QED  BY <2>4, <2>5, <2>6 DEF OrderInv
<1>. QED  BY <1>12, <1>15, <1>17, <1>18, <1>19, <1>20, <1>21 DEF TraceInv

\* When the responses are sent, every trace ends.
LEMMA SendTraces ==
  ASSUME TypeInv, TraceInv, SendResponsesTraced
  PROVE  TraceInv' /\ (OrderInv => OrderInv')
<1>. DEFINE t == <<Passed("responded"), Passed("summary")>>
<1>1. /\ phase = "serving" /\ phase' = "idle" /\ DOMAIN bite' = {} /\ pending' = {}
      /\ repeats' = {} /\ unit' = {}
      /\ log' = [p \in DOMAIN log |-> log[p] \o t]
  BY DEF SendResponsesTraced, SendResponses, Idle, Empty
<1>2. log \in [DOMAIN log -> Seq(Events)] /\ DOMAIN log = DOMAIN bite
  BY <1>1 DEF TraceInv, LogTyped
<1>3. /\ t \in Seq(Events) /\ "summary" \in StagesOf(t)
      /\ Ordered(t) /\ AfterRank(t, 6) /\ UpToRank(t, 8)
  BY ResponseTrace
<1>. HIDE DEF t
<1>4. ASSUME NEW p \in DOMAIN log
      PROVE  /\ log'[p] \in Seq(Events) /\ "summary" \in StagesOf(log'[p])
             /\ Ordered(log[p]) /\ UpToRank(log[p], 6) => Ordered(log'[p])
  <2>1. log[p] \in Seq(Events) /\ log'[p] = log[p] \o t
    BY <1>1, <1>2
  <2>2. log[p] \o t \in Seq(Events) /\ StagesOf(log[p] \o t) = StagesOf(log[p]) \cup StagesOf(t)
    BY <1>3, <2>1, Appended
  <2>3. Ordered(log[p]) /\ UpToRank(log[p], 6) => Ordered(log[p] \o t)
    BY <1>3, <2>1, AppendedInOrder
  <2>. QED  BY <1>3, <2>1, <2>2, <2>3
<1>5. DOMAIN log' = DOMAIN log /\ log' \in [DOMAIN log' -> Seq(Events)]
  <2>1. DOMAIN log' = DOMAIN log /\ log' = [p \in DOMAIN log |-> log'[p]]
    BY <1>1
  <2>. QED  BY <1>4, <2>1
<1>6. TraceInv'
  BY <1>1, <1>5 DEF TraceInv, LogTyped, UnitDecided, DecisionsAreCommitted, Fresh,
     PersistedIffStored, RepeatsFollow, AllExplained, Unguarded, Unanswered
<1>7. ASSUME OrderInv PROVE OrderInv'
  <2>1. \A p \in DOMAIN log : Ordered(log[p]) /\ UpToRank(log[p], 6)
    BY <1>1, <1>2, <1>7 DEF OrderInv
  <2>2. \A p \in DOMAIN log' : Ordered(log'[p]) /\ "summary" \in StagesOf(log'[p])
    BY <1>4, <1>5, <2>1
  <2>. QED  BY <1>1, <2>2 DEF OrderInv, Unanswered
<1>. QED  BY <1>6, <1>7

LEMMA CrashTraces == CrashTraced => TraceInv' /\ OrderInv'
<1>. SUFFICES ASSUME CrashTraced PROVE TraceInv' /\ OrderInv'
  OBVIOUS
<1>1. /\ phase' = "idle" /\ DOMAIN bite' = {} /\ pending' = {} /\ repeats' = {}
      /\ unit' = {} /\ log' = <<>>
  BY DEF CrashTraced, CrashAndRestart, Idle, Empty
<1>2. DOMAIN log' = {} /\ log' \in [DOMAIN log' -> Seq(Events)]
  BY <1>1
<1>3. TraceInv'
  BY <1>1, <1>2 DEF TraceInv, LogTyped, UnitDecided, DecisionsAreCommitted, Fresh,
     PersistedIffStored, RepeatsFollow, AllExplained, Unguarded, Unanswered
<1>4. OrderInv'
  BY <1>1, <1>2 DEF OrderInv, Unanswered
<1>. QED  BY <1>3, <1>4

LEMMA NextTraces ==
  ASSUME TypeInv, AnswerInv, TraceInv, OrderUnlessFault, [TracedNext]_tracedVars
  PROVE  TraceInv' /\ OrderUnlessFault'
<1>1. threadFaults' = 0 => threadFaults = 0
  BY TracedIsNext, FaultsStay
<1>2. ASSUME TraceInv', OrderInv => OrderInv' PROVE TraceInv' /\ OrderUnlessFault'
  BY <1>1, <1>2 DEF OrderUnlessFault
<1>3. CASE UNCHANGED tracedVars
  <2>1. UNCHANGED <<store, work, phase, bite, replies, pending, repeats, unit, draft, log>>
    BY <1>3 DEF tracedVars, vars
  <2>2. /\ UnitDecided' /\ Unguarded' = Unguarded /\ Unanswered(pending)' = Unanswered(pending)
        /\ \A p : InHand(p)' = InHand(p) /\ Mention(p)' = Mention(p) /\ Explained(p)' = Explained(p)
    BY <2>1 DEF TraceInv, UnitDecided, Unguarded, Unanswered, InHand, Mention, Explained
  <2>3. TraceInv'
    BY <2>1, <2>2 DEF TraceInv, LogTyped, DecisionsAreCommitted, Says, Fresh,
       PersistedIffStored, Stored, RepeatsFollow, AllExplained
  <2>4. OrderInv => OrderInv'
    BY <2>1, <2>2 DEF OrderInv
  <2>. QED  BY <1>2, <2>3, <2>4
<1>4. CASE TakeBiteTraced
  BY <1>2, <1>4, TakeTraces
<1>5. CASE GuardTraced
  BY <1>2, <1>5, GuardTraces
<1>6. CASE FailUnitTraced
  BY <1>2, <1>6, QuietFailure
<1>7. CASE ThreadFaultTraced
  <2>1. TraceInv'
    BY <1>7, FaultTraces
  <2>2. threadFaults' # 0
    <3>1. threadFaults \in Nat
      BY ServiceAssumption DEF TypeInv, TypeOK
    <3>. QED  BY <1>7, <3>1 DEF ThreadFaultTraced, ThreadFault
  <2>. QED  BY <2>1, <2>2 DEF OrderUnlessFault
<1>8. CASE FinishUnitTraced
  BY <1>2, <1>8, FinishTraces
<1>9. CASE SendResponsesTraced
  BY <1>2, <1>9, SendTraces
<1>10. CASE (BeginUnit \/ AssignCluster \/ SaveUnit) /\ UNCHANGED log
  BY <1>2, <1>10, QuietUnit
<1>11. CASE Commit /\ UNCHANGED log
  BY <1>2, <1>11, CommitTraces
<1>12. CASE (RespondCached \/ RepeatRaises) /\ UNCHANGED log
  BY <1>2, <1>12, QuietRepeats
<1>13. CASE CrashTraced
  BY <1>2, <1>13, CrashTraces
<1>. QED
  BY <1>3, <1>4, <1>5, <1>6, <1>7, <1>8, <1>9, <1>10, <1>11, <1>12, <1>13
     DEF TracedNext, TracedWork, Untraced

-----------------------------------------------------------------------------
LEMMA TracedAlways == TracedSpec => [](SafeInv /\ AnswerInv /\ TraceInv /\ OrderUnlessFault)
<1>1. TracedInit => SafeInv /\ AnswerInv /\ TraceInv /\ OrderUnlessFault
  BY InitType, InitIInv, InitAnswer, InitTraces DEF TracedInit, SafeInv, OrderUnlessFault
<1>2. SafeInv /\ AnswerInv /\ [TracedNext]_tracedVars => SafeInv' /\ AnswerInv'
  BY TracedIsNext, NextType, NextIInv, FaultsStay, NextAnswers DEF SafeInv
<1>3. SafeInv /\ AnswerInv /\ TraceInv /\ OrderUnlessFault /\ [TracedNext]_tracedVars
        => TraceInv' /\ OrderUnlessFault'
  BY NextTraces DEF SafeInv
<1>. QED  BY <1>1, <1>2, <1>3, PTL DEF TracedSpec

(***************************************************************************)
(* There is one trace of stages for every request of a bite, from the      *)
(* moment the bite is taken, and the tables and replies keep their types   *)
(* when the stages are logged beside them.                                 *)
(***************************************************************************)
THEOREM TracesAreTyped == TracedSpec => []TracesOK
<1>1. SafeInv /\ TraceInv => TracesOK
  BY DEF SafeInv, TypeInv, TraceInv, LogTyped, TracesOK
<1>. QED  BY <1>1, TracedAlways, PTL

(***************************************************************************)
(* No trace names a cluster that was not committed, whatever failed and    *)
(* when: the stages of a unit are logged after its COMMIT (DeferredStage). *)
(***************************************************************************)
THEOREM LoggedDecisionsAreCommitted == TracedSpec => []DecisionsAreCommitted
<1>1. TraceInv => DecisionsAreCommitted
  BY DEF TraceInv
<1>. QED  BY <1>1, TracedAlways, PTL

(***************************************************************************)
(* When the bite is answered, the trace of a new mention says "persisted"  *)
(* exactly when it is stored, also when its answer is an error.            *)
(***************************************************************************)
THEOREM PersistedIsStored == TracedSpec => []PersistedMeansStored
<1>1. TraceInv => PersistedMeansStored
  BY DEF TraceInv, PersistedIffStored, PersistedMeansStored, InHand, Answered, Stages, StagesOf
<1>. QED  BY <1>1, TracedAlways, PTL

(***************************************************************************)
(* Every resolution is explained by a trace, the cached ones by that of an *)
(* earlier request of the bite or by the guard.                            *)
(***************************************************************************)
THEOREM ResolutionsHaveTraces == TracedSpec => []ResolutionsAreTraced
<1>1. SafeInv /\ AnswerInv /\ TraceInv => ResolutionsAreTraced
  <2>. SUFFICES ASSUME SafeInv, AnswerInv, TraceInv, Answered,
                       NEW p \in DOMAIN bite, replies[p].kind = "resolved"
                PROVE  IF p \in pending \cup repeats
                       THEN \E q \in pending : /\ q <= p /\ Mention(q) = Mention(p)
                                               /\ "persisted" \in StagesOf(log[q])
                       ELSE SaysOf(log[p], "guard") = {"idempotent"}
                            /\ "scored" \notin StagesOf(log[p])
    BY DEF ResolutionsAreTraced, Stages, Says, StagesOf, SaysOf
  <2>1. Explained(p)
    BY DEF TraceInv, AllExplained
  <2>2. p \in Int /\ pending \subseteq Int
    BY PositionsAreNumbers DEF SafeInv, TypeInv, TypeOK
  <2>3. CASE p \in pending
    <3>1. "persisted" \in StagesOf(log[p]) /\ p <= p
      BY <2>1, <2>2, <2>3 DEF Explained
    <3>. QED  BY <2>3, <3>1
  <2>4. CASE p \in repeats
    <3>1. PICK q \in pending : /\ q < p /\ Mention(q) = Mention(p)
                               /\ "persisted" \in StagesOf(log[q])
      BY <2>1, <2>4 DEF Explained
    <3>2. q <= p
      BY <2>2, <3>1
    <3>. QED  BY <2>4, <3>1, <3>2
  <2>5. CASE p \notin pending \cup repeats
    BY <2>1, <2>5 DEF Explained
  <2>. QED  BY <2>3, <2>4, <2>5
<1>. QED  BY <1>1, TracedAlways, PTL

(***************************************************************************)
(* As long as the training thread can be started, every trace goes through *)
(* the life cycle in order and ends with its summary.                      *)
(***************************************************************************)
THEOREM LifeCycleIsKept == TracedSpec => []StagesInOrder
<1>1. OrderUnlessFault => StagesInOrder
  BY DEF OrderUnlessFault, OrderInv, Ordered, StagesInOrder, Stages, StagesOf
<1>. QED  BY <1>1, TracedAlways, PTL
=============================================================================
