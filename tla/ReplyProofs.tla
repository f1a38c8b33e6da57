----------------------------- MODULE ReplyProofs -----------------------------
(***************************************************************************)
(* Proofs about the replies of Service and about what the clusters follow  *)
(* from, for any mentions, contents, bounds and scores.                    *)
(***************************************************************************)
EXTENDS ServiceProofs

(***************************************************************************)
(* The replies.  They are true when they are given and stay true, because  *)
(* a commit changes the content of no stored mention, not even one that is *)
(* committed twice after a thread could not be started; because what is    *)
(* pending is the bite's own first content; and because repeats are        *)
(* answered when no unit can follow.                                       *)
(***************************************************************************)
\* s has the unit's mentions, besides what is committed.
UnitIn(s) ==
  /\ \A m \in Mentions : (\A p \in unit : Mention(p) # m) =>
       s.rows[m] = store.rows[m] /\ s.text[m] = store.text[m]
  /\ \A p \in unit : s.rows[Mention(p)] > 0 /\ s.text[Mention(p)] = bite[p].content

UnitClustered(s) == \A m \in Mentions : m \in Clustered(s) <=> m \in Stored(s)

HandsInv ==
  /\ PendingDistinct
  /\ unit \subseteq Unanswered(pending)
  /\ UnitClustered(store)
  /\ phase \in {"idle", "serving"} => unit = {}
  /\ phase \in {"idle", "serving", "committed"} => work = store
  /\ phase = "scoring" => work.clusters = store.clusters /\ UnitIn(work)
  /\ phase = "saved" => UnitIn(work) /\ UnitClustered(work)
  /\ phase = "committed" => \A p \in unit : Holds(store, bite[p])

PendingTexts ==
  \A q \in pending : Mention(q) \in Stored(store) =>
    store.text[Mention(q)] = bite[q].content
RepeatsRepeat ==
  \A p \in repeats : \E q \in pending :
    Mention(q) = Mention(p) /\ bite[q].content = bite[p].content
InOrder == \A q \in pending \cup repeats : \A p \in Unguarded : q < p
RepeatsLast ==
  /\ pending \cap repeats = {}
  /\ (\E p \in repeats : replies[p] # NoReply) =>
       Unguarded = {} /\ Unanswered(pending) = {}

ResolvedHolds(p) == replies[p].kind = "resolved" => Holds(store, bite[p])
InternalIsNew(p) ==
  replies[p].kind = "internal" /\ p \in pending \cup repeats /\ threadFaults = 0 =>
    Mention(p) \notin Stored(store)
ConflictIsReal(p) ==
  replies[p].kind = "conflict" =>
    \/ Mention(p) \in Stored(store) /\ store.text[Mention(p)] # bite[p].content
    \/ \E q \in pending : /\ q < p /\ Mention(q) = Mention(p)
                          /\ bite[q].content # bite[p].content
RepliesTrue ==
  \A p \in DOMAIN bite : ResolvedHolds(p) /\ InternalIsNew(p) /\ ConflictIsReal(p)

AnswerInv == /\ HandsInv /\ PendingTexts /\ RepeatsRepeat /\ InOrder /\ RepeatsLast
             /\ RepliesTrue

\* A unit of distinct mentions leaves the rows of the others alone.
LEMMA UnitIsIn ==
  ASSUME TypeInv, PendingDistinct, NEW s \in Stores, NEW positions \in SUBSET pending
  PROVE  LET t == WithMentions(s, positions) IN
         /\ t.clusters = s.clusters /\ t.links = s.links
         /\ \A m \in Mentions : (\A p \in positions : Mention(p) # m) =>
              t.rows[m] = s.rows[m] /\ t.text[m] = s.text[m]
         /\ \A p \in positions :
              t.rows[Mention(p)] > 0 /\ t.text[Mention(p)] = bite[p].content
<1>. DEFINE t == WithMentions(s, positions)
            At(m) == {p \in positions : Mention(p) = m}
<1>1. \A p \in positions : Mention(p) \in Mentions
  BY PendingMentions
<1>2. \A m \in Mentions : /\ t.rows[m] = s.rows[m] + Cardinality(At(m))
                          /\ t.text[m] = IF \E p \in positions : Mention(p) = m
                                         THEN bite[CHOOSE p \in positions : Mention(p) = m].content
                                         ELSE s.text[m]
  BY DEF WithMentions, Stores
<1>3. t.clusters = s.clusters /\ t.links = s.links
  BY DEF WithMentions, Stores
<1>4. ASSUME NEW m \in Mentions, \A p \in positions : Mention(p) # m
      PROVE  t.rows[m] = s.rows[m] /\ t.text[m] = s.text[m]
  <2>1. At(m) = {}
    BY <1>4
  <2>2. Cardinality(At(m)) = 0
    BY <2>1, FS_EmptySet
  <2>3. s.rows[m] \in Nat
    BY DEF Stores
  <2>. HIDE DEF t, At
  <2>. QED  BY <1>2, <1>4, <2>2, <2>3
<1>5. ASSUME NEW p \in positions
      PROVE  t.rows[Mention(p)] > 0 /\ t.text[Mention(p)] = bite[p].content
  <2>1. \A q \in positions : Mention(q) = Mention(p) => q = p
    BY DEF PendingDistinct
  <2>2. At(Mention(p)) = {p}
    BY <2>1
  <2>3. Cardinality(At(Mention(p))) = 1
    BY <2>2, FS_Singleton
  <2>4. (CHOOSE q \in positions : Mention(q) = Mention(p)) = p
    BY <2>1
  <2>5. s.rows[Mention(p)] \in Nat
    BY <1>1 DEF Stores
  <2>. HIDE DEF t, At
  <2>6. t.rows[Mention(p)] = s.rows[Mention(p)] + Cardinality(At(Mention(p)))
    BY <1>1, <1>2
  <2>7. t.rows[Mention(p)] > 0
    BY <2>3, <2>5, <2>6
  <2>8. t.text[Mention(p)] = bite[p].content
    BY <1>1, <1>2, <2>4
  <2>. QED  BY <2>7, <2>8
<1>. HIDE DEF t
<1>6. QED
  BY <1>3, <1>4, <1>5 DEF t

\* The replies that are given have a kind.
LEMMA KindsDiffer ==
  /\ NoReply.kind = "none"
  /\ \A kind : Error(kind).kind = kind
  /\ \A ranking : Resolved(ranking).kind = "resolved"
BY DEF NoReply, Error, Resolved

\* Positions are numbers.
LEMMA PositionsAreNumbers == TypeInv => DOMAIN bite \subseteq Int
<1>. SUFFICES ASSUME TypeInv PROVE DOMAIN bite \subseteq Int
  OBVIOUS
<1>1. CASE bite = Empty
  BY <1>1 DEF Empty
<1>2. CASE bite \in Bites
  <2>1. PICK n \in 1..MaxBite : bite \in [1..n -> Requests]
    BY <1>2 DEF Bites
  <2>. QED  BY <2>1, ServiceAssumption
<1>. QED  BY <1>1, <1>2 DEF TypeInv, TypeOK

LEMMA InitAnswer == Init => AnswerInv
<1>. SUFFICES ASSUME Init PROVE AnswerInv
  OBVIOUS
<1>1. DOMAIN bite = {}
  BY DEF Init, Empty
<1>2. UnitClustered(store)
  BY DEF Init, EmptyStore, UnitClustered, Clustered, ClustersOf, Stored
<1>. QED
  BY <1>1, <1>2 DEF Init, AnswerInv, HandsInv, PendingDistinct, PendingTexts, RepeatsRepeat,
     InOrder, RepeatsLast, RepliesTrue, Unanswered

LEMMA IdleAnswers ==
  ASSUME Idle, UnitClustered(store)', work' = store'
  PROVE  AnswerInv'
<1>1. DOMAIN bite' = {}
  BY DEF Idle, Empty
<1>. QED
  BY <1>1 DEF Idle, AnswerInv, HandsInv, PendingDistinct, PendingTexts, RepeatsRepeat,
     InOrder, RepeatsLast, RepliesTrue, Unanswered

\* Replies given outside a commit: what they say must be true of the tables.
LEMMA GivingReplies ==
  ASSUME AnswerInv, UNCHANGED <<store, bite>>, pending \subseteq pending',
         threadFaults' = 0 => threadFaults = 0,
         \A p \in DOMAIN bite :
           \/ /\ replies'[p] = replies[p]
              /\ p \in (pending \cup repeats)' => p \in pending \cup repeats \/ replies[p] = NoReply
           \/ (ResolvedHolds(p) /\ InternalIsNew(p) /\ ConflictIsReal(p))'
  PROVE  RepliesTrue'
<1>. SUFFICES ASSUME NEW p \in DOMAIN bite
              PROVE  (ResolvedHolds(p) /\ InternalIsNew(p) /\ ConflictIsReal(p))'
  BY DEF RepliesTrue
<1>1. ResolvedHolds(p) /\ InternalIsNew(p) /\ ConflictIsReal(p)
  BY DEF AnswerInv, RepliesTrue
<1>2. CASE /\ replies'[p] = replies[p]
           /\ p \in (pending \cup repeats)' => p \in pending \cup repeats \/ replies[p] = NoReply
  <2>1. ResolvedHolds(p)'
    BY <1>1, <1>2 DEF ResolvedHolds, Holds, Clustered, ClustersOf
  <2>2. InternalIsNew(p)'
    BY <1>1, <1>2, KindsDiffer DEF InternalIsNew, Stored, Mention
  <2>3. ConflictIsReal(p)'
    BY <1>1, <1>2 DEF ConflictIsReal, Stored, Mention
  <2>. QED  BY <2>1, <2>2, <2>3
<1>. QED  BY <1>2

LEMMA GuardAnswers == AnswerInv /\ TypeInv /\ Guard => AnswerInv'
<1>. SUFFICES ASSUME AnswerInv, TypeInv, Guard PROVE AnswerInv'
  OBVIOUS
<1>1. PICK p \in Unguarded :
        /\ IsFirst(p, Unguarded)
        /\ \/ GuardMalformed(p) /\ UNCHANGED <<pending, repeats>>
           \/ /\ bite[p].form = "entity"
              /\ \/ GuardConflict(p) /\ UNCHANGED <<pending, repeats>>
                 \/ GuardCached(p) /\ UNCHANGED <<pending, repeats>>
                 \/ GuardRaises(p) /\ UNCHANGED <<pending, repeats>>
                 \/ GuardNew(p) /\ UNCHANGED replies
  BY DEF Guard
<1>2. /\ phase = "serving" /\ unit = {} /\ work = store
      /\ UNCHANGED <<store, work, phase, bite, fallback, unit, draft, threadFaults>>
  BY DEF Guard, AnswerInv, HandsInv
<1>3. /\ p \in DOMAIN bite \ (pending \cup repeats) /\ replies[p] = NoReply
      /\ \A r \in repeats : replies[r] = NoReply
      /\ pending \cap repeats = {} /\ pending \subseteq DOMAIN bite
      /\ replies \in [DOMAIN bite -> Replies]
  BY <1>1 DEF Unguarded, Unanswered, AnswerInv, RepeatsLast, TypeInv, TypeOK
<1>4. \A q \in Unguarded \ {p} : p < q
  BY <1>1, PositionsAreNumbers DEF IsFirst, Unguarded, Unanswered
<1>5. /\ \A q \in pending : Mention(q)' = Mention(q)
      /\ \A q \in DOMAIN bite : Mention(q)' = Mention(q)
  BY <1>2 DEF Mention
<1>6. ASSUME NEW reply, Reply(p, reply), UNCHANGED <<pending, repeats>>, reply # NoReply,
             (ResolvedHolds(p) /\ InternalIsNew(p) /\ ConflictIsReal(p))'
      PROVE  AnswerInv'
  <2>1. replies' = [replies EXCEPT ![p] = reply]
    BY <1>6 DEF Reply
  <2>2. RepliesTrue'
    <3>1. \A q \in DOMAIN bite \ {p} : replies'[q] = replies[q]
      BY <1>3, <2>1
    <3>. QED  BY <1>2, <1>6, <3>1, GivingReplies
  <2>3. Unguarded' \subseteq Unguarded \ {p} /\ Unanswered(pending)' = Unanswered(pending)
    BY <1>2, <1>3, <1>6, <2>1 DEF Unguarded, Unanswered
  <2>4. HandsInv'
    BY <1>2, <1>6, <2>3
       DEF AnswerInv, HandsInv, PendingDistinct, UnitClustered, Clustered, ClustersOf, Stored,
           Mention
  <2>5. PendingTexts' /\ RepeatsRepeat'
    BY <1>2, <1>6 DEF AnswerInv, PendingTexts, RepeatsRepeat, Stored, Mention
  <2>6. InOrder'
    BY <1>6, <2>3 DEF AnswerInv, InOrder
  <2>7. \A r \in repeats : replies'[r] = NoReply
    BY <1>3, <2>1
  <2>8. RepeatsLast'
    BY <1>3, <1>6, <2>7 DEF RepeatsLast
  <2>. QED  BY <2>2, <2>4, <2>5, <2>6, <2>8 DEF AnswerInv
<1>7. ASSUME NEW kind \in {"failed", "rejected"},
             Reply(p, Error(kind)), UNCHANGED <<pending, repeats>>
      PROVE  AnswerInv'
  <2>1. replies'[p].kind = kind
    BY <1>3, <1>7, KindsDiffer DEF Reply
  <2>. QED  BY <1>6, <1>7, <2>1, KindsDiffer DEF ResolvedHolds, InternalIsNew, ConflictIsReal
<1>8. CASE GuardMalformed(p) /\ UNCHANGED <<pending, repeats>>
  BY <1>7, <1>8 DEF GuardMalformed
<1>9. CASE GuardConflict(p) /\ UNCHANGED <<pending, repeats>>
  <2>1. Reply(p, Error("conflict")) /\ replies'[p].kind = "conflict"
    BY <1>3, <1>9, KindsDiffer DEF GuardConflict, Reply
  <2>2. ConflictIsReal(p)'
    <3>1. CASE ConflictsWithStored(p)
      BY <1>2, <1>3, <1>5, <3>1 DEF ConflictsWithStored, ConflictIsReal, Stored
    <3>2. CASE ConflictsInBite(p)
      <4>1. PICK q \in pending : Mention(q) = Mention(p) /\ bite[q].content # bite[p].content
        BY <3>2 DEF ConflictsInBite, Earlier
      <4>2. q < p
        BY <1>1 DEF AnswerInv, InOrder
      <4>. QED  BY <1>2, <1>3, <1>5, <1>9, <4>1, <4>2 DEF ConflictIsReal
    <3>. QED  BY <1>9, <3>1, <3>2 DEF GuardConflict
  <2>. QED  BY <1>6, <1>9, <2>1, <2>2, KindsDiffer DEF ResolvedHolds, InternalIsNew
<1>10. CASE GuardCached(p) /\ UNCHANGED <<pending, repeats>>
  <2>1. PICK ranking : Reply(p, Resolved(ranking))
    BY <1>10 DEF GuardCached
  <2>2. replies'[p].kind = "resolved"
    BY <1>3, <2>1, KindsDiffer DEF Reply
  <2>3. Mention(p) \in Stored(store)
    BY <1>2, <1>10 DEF GuardCached, AnswerInv, HandsInv, UnitClustered, Clustered
  <2>4. Holds(store, bite[p])
    BY <1>2, <1>10, <2>3 DEF GuardCached, ConflictsWithStored, Holds, Mention
  <2>5. ResolvedHolds(p)'
    BY <1>2, <2>4 DEF ResolvedHolds, Holds, Clustered, ClustersOf
  <2>. QED  BY <1>6, <1>10, <2>1, <2>2, <2>5, KindsDiffer DEF InternalIsNew, ConflictIsReal
<1>11. CASE GuardRaises(p) /\ UNCHANGED <<pending, repeats>>
  <2>1. Reply(p, Error("internal")) /\ replies'[p].kind = "internal"
    BY <1>3, <1>11, KindsDiffer DEF GuardRaises, Reply
  <2>2. InternalIsNew(p)'
    BY <1>3, <1>11 DEF InternalIsNew
  <2>. QED  BY <1>6, <1>11, <2>1, <2>2, KindsDiffer DEF ResolvedHolds, ConflictIsReal
<1>12. CASE bite[p].form = "entity" /\ GuardNew(p) /\ UNCHANGED replies
  <2>1. RepliesTrue'
    <3>1. pending \subseteq pending' /\ (pending \cup repeats)' = pending \cup repeats \cup {p}
      BY <1>12 DEF GuardNew
    <3>2. \A q \in DOMAIN bite :
            /\ replies'[q] = replies[q]
            /\ q \in (pending \cup repeats)' => q \in pending \cup repeats \/ replies[q] = NoReply
      BY <1>3, <1>12, <3>1
    <3>. QED  BY <1>2, <3>1, <3>2, GivingReplies
  <2>2. InOrder'
    <3>1. (pending \cup repeats)' = pending \cup repeats \cup {p}
      BY <1>12 DEF GuardNew
    <3>2. Unguarded' = Unguarded \ {p}
      BY <1>2, <1>12, <3>1 DEF Unguarded, Unanswered
    <3>. QED  BY <1>4, <3>1, <3>2 DEF AnswerInv, InOrder
  <2>3. CASE Earlier(p) # {}
    <3>1. UNCHANGED pending /\ repeats' = repeats \cup {p}
      BY <1>12, <2>3 DEF GuardNew
    <3>2. HandsInv'
      BY <1>2, <1>12, <3>1
         DEF AnswerInv, HandsInv, PendingDistinct, UnitClustered, Clustered, ClustersOf, Stored,
             Mention, Unanswered
    <3>3. PendingTexts'
      BY <1>2, <3>1 DEF AnswerInv, PendingTexts, Stored, Mention
    <3>4. RepeatsRepeat'
      <4>1. PICK q \in pending : Mention(q) = Mention(p)
        BY <2>3 DEF Earlier
      <4>2. bite[q].content = bite[p].content
        BY <1>12, <4>1 DEF GuardNew, ConflictsInBite, Earlier
      <4>. QED  BY <1>2, <3>1, <4>1, <4>2 DEF AnswerInv, RepeatsRepeat, Mention
    <3>5. RepeatsLast'
      BY <1>3, <1>12, <3>1 DEF RepeatsLast
    <3>. QED  BY <2>1, <2>2, <3>2, <3>3, <3>4, <3>5 DEF AnswerInv
  <2>4. CASE Earlier(p) = {}
    <3>1. UNCHANGED repeats /\ pending' = pending \cup {p}
      BY <1>12, <2>4 DEF GuardNew
    <3>2. HandsInv'
      <4>1. \A q \in pending : Mention(q) # Mention(p)
        BY <2>4 DEF Earlier
      <4>2. PendingDistinct'
        BY <1>2, <3>1, <4>1 DEF AnswerInv, HandsInv, PendingDistinct, Mention
      <4>3. UnitClustered(store)'
        BY <1>2 DEF AnswerInv, HandsInv, UnitClustered, Clustered, ClustersOf, Stored
      <4>. QED  BY <1>2, <4>2, <4>3 DEF HandsInv
    <3>3. PendingTexts'
      <4>1. Mention(p) \in Stored(store) => store.text[Mention(p)] = bite[p].content
        BY <1>2, <1>12 DEF GuardNew, ConflictsWithStored
      <4>. QED  BY <1>2, <3>1, <4>1 DEF AnswerInv, PendingTexts, Stored, Mention
    <3>4. RepeatsRepeat'
      BY <1>2, <3>1 DEF AnswerInv, RepeatsRepeat, Mention
    <3>5. RepeatsLast'
      BY <1>3, <1>12, <3>1 DEF RepeatsLast
    <3>. QED  BY <2>1, <2>2, <3>2, <3>3, <3>4, <3>5 DEF AnswerInv
  <2>. QED  BY <2>3, <2>4
<1>. QED  BY <1>1, <1>8, <1>9, <1>10, <1>11, <1>12

\* Steps inside a unit of work give no reply.
LEMMA UnitSteps ==
  ASSUME AnswerInv, HandsInv', UNCHANGED <<store, bite, replies, pending, repeats, threadFaults>>
  PROVE  AnswerInv'
<1>1. RepliesTrue'
  BY GivingReplies
<1>. QED
  BY <1>1 DEF AnswerInv, PendingTexts, RepeatsRepeat, InOrder, RepeatsLast, Unguarded,
     Unanswered, Stored, Mention

LEMMA BeginAnswers == AnswerInv /\ TypeInv /\ BeginUnit => AnswerInv'
<1>. SUFFICES ASSUME AnswerInv, TypeInv, BeginUnit PROVE AnswerInv'
  OBVIOUS
<1>1. PICK positions \in SUBSET Unanswered(pending) :
        unit' = positions /\ work' = WithMentions(work, positions)
  BY DEF BeginUnit
<1>2. /\ work = store /\ phase' = "scoring"
      /\ UNCHANGED <<store, bite, replies, pending, repeats, threadFaults>>
      /\ PendingDistinct /\ UnitClustered(store)
  BY DEF BeginUnit, AnswerInv, HandsInv
<1>3. positions \subseteq pending /\ store \in Stores
  BY DEF Unanswered, TypeInv, TypeOK
<1>4. LET t == WithMentions(store, positions) IN
      /\ t.clusters = store.clusters
      /\ \A m \in Mentions : (\A p \in positions : Mention(p) # m) =>
           t.rows[m] = store.rows[m] /\ t.text[m] = store.text[m]
      /\ \A p \in positions :
           t.rows[Mention(p)] > 0 /\ t.text[Mention(p)] = bite[p].content
  BY <1>2, <1>3, UnitIsIn
<1>5. work'.clusters = store.clusters /\ UnitIn(work)'
  BY <1>1, <1>2, <1>4 DEF UnitIn, Mention
<1>6. PendingDistinct' /\ UnitClustered(store)'
  BY <1>2 DEF PendingDistinct, UnitClustered, Clustered, ClustersOf, Stored, Mention
<1>7. (unit \subseteq Unanswered(pending))'
  BY <1>1, <1>2 DEF Unanswered
<1>8. HandsInv'
  BY <1>2, <1>5, <1>6, <1>7 DEF HandsInv
<1>. QED  BY <1>2, <1>8, UnitSteps

LEMMA AssignAnswers == AnswerInv /\ AssignCluster => AnswerInv'
<1>. SUFFICES ASSUME AnswerInv, AssignCluster PROVE AnswerInv'
  OBVIOUS
<1>1. UNCHANGED <<store, work, phase, bite, replies, pending, repeats, unit, threadFaults>>
  BY DEF AssignCluster
<1>2. HandsInv'
  BY <1>1 DEF AnswerInv, HandsInv, PendingDistinct, UnitClustered, Clustered, ClustersOf,
     Stored, UnitIn, Unanswered, Holds, Mention
<1>. QED  BY <1>1, <1>2, UnitSteps

LEMMA SaveAnswers == AnswerInv /\ TypeInv /\ SaveUnit => AnswerInv'
<1>. SUFFICES ASSUME AnswerInv, TypeInv, SaveUnit PROVE AnswerInv'
  OBVIOUS
<1>1. /\ phase' = "saved" /\ phase = "scoring" /\ DOMAIN draft = unit
      /\ UNCHANGED <<store, bite, replies, pending, repeats, unit, threadFaults>>
  BY DEF SaveUnit
<1>2. /\ work'.clusters = store.clusters \cup {<<Mention(p), draft[p].cluster>> : p \in unit}
      /\ work'.rows = work.rows /\ work'.text = work.text
  BY DEF SaveUnit, AnswerInv, HandsInv, TypeInv, TypeOK, Stores
<1>3. UnitIn(work) /\ UnitClustered(store)
  BY <1>1 DEF AnswerInv, HandsInv
<1>4. UnitIn(work)'
  BY <1>1, <1>2, <1>3 DEF UnitIn, Mention
<1>5. UnitClustered(work)'
  <2>. SUFFICES ASSUME NEW m \in Mentions
                PROVE  ClustersOf(work', m) # {} <=> work'.rows[m] > 0
    BY DEF UnitClustered, Clustered, Stored, ClustersOf
  <2>1. CASE \E p \in unit : Mention(p) = m
    <3>1. PICK p \in unit : Mention(p) = m
      BY <2>1
    <3>2. draft[p].cluster \in Mentions
      BY <1>1 DEF TypeInv, TypeOK, Drafts
    <3>3. draft[p].cluster \in ClustersOf(work', m)
      BY <1>2, <3>1, <3>2 DEF ClustersOf
    <3>. QED  BY <1>2, <1>3, <3>1, <3>3 DEF UnitIn
  <2>2. CASE \A p \in unit : Mention(p) # m
    <3>1. ClustersOf(work', m) = ClustersOf(store, m)
      BY <1>2, <2>2 DEF ClustersOf
    <3>2. work'.rows[m] = store.rows[m]
      BY <1>2, <1>3, <2>2 DEF UnitIn
    <3>. QED  BY <1>3, <3>1, <3>2 DEF UnitClustered, Clustered, Stored
  <2>. QED  BY <2>1, <2>2
<1>6. HandsInv'
  BY <1>1, <1>4, <1>5 DEF AnswerInv, HandsInv, PendingDistinct, UnitClustered, Clustered,
     ClustersOf, Stored, Unanswered, Mention
<1>. QED  BY <1>1, <1>6, UnitSteps

\* A commit keeps what was stored: a mention that is committed once more, after a
\* thread could not be started, comes with the content it was stored with.
LEMMA CommitKeepsTexts ==
  ASSUME AnswerInv, TypeInv, Commit, NEW m \in Stored(store)
  PROVE  m \in Stored(store') /\ store'.text[m] = store.text[m]
<1>1. store' = work /\ UnitIn(work) /\ m \in Mentions
  BY DEF Commit, AnswerInv, HandsInv, Stored
<1>2. CASE \E p \in unit : Mention(p) = m
  <2>1. PICK p \in unit : Mention(p) = m
    BY <1>2
  <2>2. p \in pending
    BY <2>1 DEF AnswerInv, HandsInv, Unanswered
  <2>3. store.text[m] = bite[p].content
    BY <2>1, <2>2 DEF AnswerInv, PendingTexts
  <2>. QED  BY <1>1, <2>1, <2>3 DEF UnitIn, Stored
<1>3. CASE \A p \in unit : Mention(p) # m
  BY <1>1, <1>3 DEF UnitIn, Stored
<1>. QED  BY <1>2, <1>3

LEMMA CommitAnswers == AnswerInv /\ TypeInv /\ Commit => AnswerInv'
<1>. SUFFICES ASSUME AnswerInv, TypeInv, Commit PROVE AnswerInv'
  OBVIOUS
<1>1. /\ phase' = "committed" /\ store' = work
      /\ UNCHANGED <<work, bite, replies, pending, repeats, unit, threadFaults>>
      /\ UnitIn(work) /\ UnitClustered(work) /\ UnitClustered(store)
      /\ PendingDistinct /\ unit \subseteq Unanswered(pending)
  BY DEF Commit, AnswerInv, HandsInv
<1>2. \A p \in pending : Mention(p) \in Mentions
  BY PendingMentions
<1>3. \A p \in unit : p \in pending /\ replies[p] = NoReply
  BY <1>1 DEF Unanswered
<1>4. HandsInv'
  <2>1. \A p \in unit : Holds(store', bite[p])
    BY <1>1, <1>2, <1>3 DEF UnitIn, UnitClustered, Holds, Stored, Mention
  <2>2. PendingDistinct' /\ UnitClustered(store)' /\ (unit \subseteq Unanswered(pending))'
    BY <1>1 DEF PendingDistinct, UnitClustered, Clustered, ClustersOf, Stored, Unanswered, Mention
  <2>3. \A p \in unit' : Holds(store, bite[p])'
    BY <1>1, <2>1 DEF Holds, Clustered, ClustersOf
  <2>. QED  BY <1>1, <2>2, <2>3 DEF HandsInv
<1>5. PendingTexts'
  <2>. SUFFICES ASSUME NEW q \in pending, Mention(q) \in Stored(store')
                PROVE  store'.text[Mention(q)] = bite[q].content
    BY <1>1 DEF PendingTexts, Stored, Mention
  <2>1. CASE q \in unit
    BY <1>1, <2>1 DEF UnitIn
  <2>2. CASE q \notin unit
    <3>1. \A p \in unit : Mention(p) # Mention(q)
      BY <1>1, <1>3, <2>2 DEF PendingDistinct
    <3>2. store'.rows[Mention(q)] = store.rows[Mention(q)]
          /\ store'.text[Mention(q)] = store.text[Mention(q)]
      BY <1>1, <1>2, <3>1 DEF UnitIn
    <3>. QED  BY <1>2, <3>2 DEF AnswerInv, PendingTexts, Stored
  <2>. QED  BY <2>1, <2>2
<1>6. RepliesTrue'
  <2>. SUFFICES ASSUME NEW p \in DOMAIN bite
                PROVE  (ResolvedHolds(p) /\ InternalIsNew(p) /\ ConflictIsReal(p))'
    BY <1>1 DEF RepliesTrue
  <2>1. ResolvedHolds(p) /\ InternalIsNew(p) /\ ConflictIsReal(p)
    BY DEF AnswerInv, RepliesTrue
  <2>2. ResolvedHolds(p)'
    <3>. SUFFICES ASSUME replies[p].kind = "resolved" PROVE Holds(store', bite[p])
      BY <1>1 DEF ResolvedHolds, Holds, Clustered, ClustersOf
    <3>1. Holds(store, bite[p])
      BY <2>1 DEF ResolvedHolds
    <3>2. bite[p].mention \in Mentions /\ bite[p].mention \in Stored(store)
      BY <1>1, <3>1 DEF Holds, UnitClustered, Clustered
    <3>. QED  BY <1>1, <3>1, <3>2, CommitKeepsTexts DEF Holds, UnitClustered
  <2>3. InternalIsNew(p)'
    <3>. SUFFICES ASSUME replies[p].kind = "internal", p \in pending \cup repeats,
                         threadFaults = 0, Mention(p) \in Stored(store')
                  PROVE  FALSE
      BY <1>1 DEF InternalIsNew, Stored, Mention
    <3>1. Mention(p) \notin Stored(store) /\ Mention(p) \in Mentions /\ replies[p] # NoReply
      BY <2>1, KindsDiffer DEF InternalIsNew, Stored
    <3>2. PICK q \in unit : Mention(q) = Mention(p)
      BY <1>1, <3>1 DEF UnitIn, Stored
    <3>3. CASE p \in pending
      <4>1. p = q
        BY <1>1, <1>3, <3>2, <3>3 DEF PendingDistinct
      <4>. QED  BY <1>3, <3>1, <3>2, <4>1
    <3>4. CASE p \in repeats
      <4>1. Unanswered(pending) = {}
        BY <3>1, <3>4 DEF AnswerInv, RepeatsLast
      <4>. QED  BY <1>1, <3>2, <4>1
    <3>. QED  BY <3>3, <3>4
  <2>4. ConflictIsReal(p)'
    <3>1. Mention(p) \in Stored(store) =>
            Mention(p) \in Stored(store') /\ store'.text[Mention(p)] = store.text[Mention(p)]
      BY CommitKeepsTexts
    <3>. QED  BY <1>1, <2>1, <3>1 DEF ConflictIsReal, Mention, Stored
  <2>. QED  BY <2>2, <2>3, <2>4
<1>7. RepeatsRepeat' /\ InOrder' /\ RepeatsLast'
  BY <1>1 DEF AnswerInv, RepeatsRepeat, InOrder, RepeatsLast, Unguarded, Unanswered, Mention
<1>. QED  BY <1>4, <1>5, <1>6, <1>7 DEF AnswerInv

\* Leaving a unit answers some of its mentions and nothing else.
LEMMA LeavingAnswers ==
  ASSUME AnswerInv, TypeInv, UNCHANGED <<store, bite, pending, repeats>>,
         phase' = "serving", unit' = {}, work' = store, threadFaults' = 0 => threadFaults = 0,
         DOMAIN replies' = DOMAIN bite,
         \A p \in DOMAIN bite :
           \/ replies'[p] = replies[p]
           \/ /\ p \in unit /\ replies'[p] # NoReply
              /\ (ResolvedHolds(p) /\ InternalIsNew(p) /\ ConflictIsReal(p))'
  PROVE  AnswerInv'
<1>1. \A p \in unit : p \in pending \cap DOMAIN bite /\ replies[p] = NoReply
  BY DEF AnswerInv, HandsInv, Unanswered, TypeInv, TypeOK
<1>2. RepliesTrue'
  BY GivingReplies
<1>3. \A p \in DOMAIN bite : replies'[p] = NoReply => replies[p] = NoReply
  OBVIOUS
<1>4. pending \subseteq DOMAIN bite /\ repeats \subseteq DOMAIN bite
  BY DEF TypeInv, TypeOK
<1>5. Unguarded' \subseteq Unguarded /\ Unanswered(pending)' \subseteq Unanswered(pending)
  BY <1>3, <1>4 DEF Unguarded, Unanswered
<1>6. \A p \in repeats : replies'[p] = replies[p]
  BY <1>1, <1>4 DEF AnswerInv, RepeatsLast
<1>7. RepeatsLast'
  BY <1>5, <1>6 DEF AnswerInv, RepeatsLast
<1>8. HandsInv'
  BY DEF AnswerInv, HandsInv, PendingDistinct, UnitClustered, Clustered, ClustersOf, Stored,
     Mention
<1>9. PendingTexts' /\ RepeatsRepeat' /\ InOrder'
  BY <1>5 DEF AnswerInv, PendingTexts, RepeatsRepeat, InOrder, Stored, Mention
<1>. QED  BY <1>2, <1>7, <1>8, <1>9 DEF AnswerInv

\* A unit that raised: a mention alone gets the error, several get nothing yet.
LEMMA RaisedAnswers ==
  ASSUME AnswerInv, TypeInv, UnitRaised, UNCHANGED store, work' = store,
         threadFaults' = 0 => threadFaults = 0,
         \A p \in unit : Mention(p) \notin Stored(store) \/ threadFaults' # 0
  PROVE  AnswerInv'
<1>1. /\ UNCHANGED <<bite, pending, repeats>> /\ phase' = "serving" /\ unit' = {}
  BY DEF UnitRaised
<1>2. replies \in [DOMAIN bite -> Replies]
  BY DEF TypeInv, TypeOK
<1>3. DOMAIN replies' = DOMAIN bite
  BY <1>2 DEF UnitRaised
<1>4. ASSUME NEW p \in DOMAIN bite, replies'[p] # replies[p]
      PROVE  /\ p \in unit /\ replies'[p] # NoReply
             /\ (ResolvedHolds(p) /\ InternalIsNew(p) /\ ConflictIsReal(p))'
  <2>1. p \in unit /\ replies'[p] = Error("internal")
    BY <1>2, <1>4 DEF UnitRaised
  <2>2. replies'[p].kind = "internal" /\ replies'[p] # NoReply
    BY <2>1, KindsDiffer
  <2>3. InternalIsNew(p)'
    BY <1>1, <2>1 DEF InternalIsNew, Mention, Stored
  <2>. QED  BY <2>1, <2>2, <2>3 DEF ResolvedHolds, ConflictIsReal
<1>. QED  BY <1>1, <1>3, <1>4, LeavingAnswers

LEMMA FailAnswers == AnswerInv /\ SafeInv /\ FailUnit => AnswerInv'
<1>. SUFFICES ASSUME AnswerInv, SafeInv, FailUnit PROVE AnswerInv'
  OBVIOUS
<1>1. UnitRaised /\ UNCHANGED <<store, threadFaults>> /\ work' = store /\ TypeInv
      /\ phase # "committed"
  BY DEF FailUnit, SafeInv
<1>2. ASSUME threadFaults = 0, NEW p \in unit
      PROVE  Mention(p) \notin Stored(store)
  <2>1. store.rows[Mention(p)] = 0
    BY <1>1, <1>2 DEF SafeInv, IInv, UnitInv
  <2>. QED  BY <2>1 DEF Stored
<1>. QED  BY <1>1, <1>2, RaisedAnswers

LEMMA FaultAnswers == AnswerInv /\ TypeInv /\ ThreadFault => AnswerInv'
<1>. SUFFICES ASSUME AnswerInv, TypeInv, ThreadFault PROVE AnswerInv'
  OBVIOUS
<1>1. UnitRaised /\ UNCHANGED store /\ work' = store
  BY DEF ThreadFault, AnswerInv, HandsInv
<1>2. threadFaults' # 0
  <2>1. threadFaults \in Nat
    BY ServiceAssumption DEF TypeInv, TypeOK
  <2>. QED  BY <2>1 DEF ThreadFault
<1>. QED  BY <1>1, <1>2, RaisedAnswers

LEMMA FinishAnswers == AnswerInv /\ TypeInv /\ FinishUnit => AnswerInv'
<1>. SUFFICES ASSUME AnswerInv, TypeInv, FinishUnit PROVE AnswerInv'
  OBVIOUS
<1>1. /\ UNCHANGED <<store, bite, pending, repeats, threadFaults>>
      /\ phase' = "serving" /\ unit' = {} /\ work' = store
      /\ \A p \in unit : Holds(store, bite[p])
  BY DEF FinishUnit, AnswerInv, HandsInv
<1>2. DOMAIN replies' = DOMAIN bite
  BY DEF FinishUnit
<1>3. ASSUME NEW p \in DOMAIN bite, replies'[p] # replies[p]
      PROVE  /\ p \in unit /\ replies'[p] # NoReply
             /\ (ResolvedHolds(p) /\ InternalIsNew(p) /\ ConflictIsReal(p))'
  <2>1. p \in unit /\ replies'[p] = Resolved(draft[p].ranking)
    BY <1>3 DEF FinishUnit
  <2>2. replies'[p].kind = "resolved" /\ replies'[p] # NoReply
    BY <2>1, KindsDiffer
  <2>3. ResolvedHolds(p)'
    BY <1>1, <2>1 DEF ResolvedHolds, Holds, Clustered, ClustersOf
  <2>. QED  BY <2>1, <2>2, <2>3 DEF InternalIsNew, ConflictIsReal
<1>. QED  BY <1>1, <1>2, <1>3, LeavingAnswers

LEMMA RespondAnswers == AnswerInv /\ TypeInv /\ RespondCached => AnswerInv'
<1>. SUFFICES ASSUME AnswerInv, TypeInv, RespondCached PROVE AnswerInv'
  OBVIOUS
<1>1. /\ phase = "serving" /\ Unguarded = {} /\ Unanswered(pending) = {}
      /\ UNCHANGED <<store, work, phase, bite, pending, repeats, unit, draft, threadFaults>>
      /\ unit = {} /\ work = store /\ UnitClustered(store)
  BY DEF RespondCached, Repeating, AnswerInv, HandsInv
<1>2. PICK p \in repeats :
        IF Mention(p) \in Clustered(work)
        THEN \E ranking \in Requeries(work, Mention(p)) : Reply(p, Resolved(ranking))
        ELSE Reply(p, Error("internal"))
  BY DEF RespondCached
<1>3. p \in DOMAIN bite /\ replies \in [DOMAIN bite -> Replies] /\ p \notin pending
      /\ pending \subseteq DOMAIN bite
  BY DEF TypeInv, TypeOK, AnswerInv, RepeatsLast
<1>4. Mention(p) \in Mentions
  BY PositionTypes, EntityFields DEF TypeInv, TypeOK, EntitiesOnly, Mention
<1>5. ASSUME NEW reply, Reply(p, reply), reply # NoReply,
             (ResolvedHolds(p) /\ InternalIsNew(p) /\ ConflictIsReal(p))'
      PROVE  AnswerInv'
  <2>1. replies' = [replies EXCEPT ![p] = reply]
    BY <1>5 DEF Reply
  <2>2. RepliesTrue'
    BY <1>1, <1>3, <1>5, <2>1, GivingReplies
  <2>3. Unguarded' = {} /\ Unanswered(pending)' = {}
    BY <1>1, <1>3, <1>5, <2>1 DEF Unguarded, Unanswered
  <2>4. HandsInv'
    BY <1>1, <2>3 DEF AnswerInv, HandsInv, PendingDistinct, UnitClustered, Clustered,
       ClustersOf, Stored, Mention
  <2>5. PendingTexts' /\ RepeatsRepeat' /\ InOrder' /\ RepeatsLast'
    BY <1>1, <2>3 DEF AnswerInv, PendingTexts, RepeatsRepeat, InOrder, RepeatsLast, Stored, Mention
  <2>. QED  BY <2>2, <2>4, <2>5 DEF AnswerInv
<1>6. CASE Mention(p) \in Clustered(store)
  <2>1. PICK ranking : Reply(p, Resolved(ranking))
    BY <1>1, <1>2, <1>6
  <2>2. replies'[p].kind = "resolved"
    BY <1>3, <2>1, KindsDiffer DEF Reply
  <2>3. PICK q \in pending : Mention(q) = Mention(p) /\ bite[q].content = bite[p].content
    BY DEF AnswerInv, RepeatsRepeat
  <2>4. Mention(p) \in Stored(store)
    BY <1>1, <1>4, <1>6 DEF UnitClustered
  <2>5. Holds(store, bite[p])
    BY <1>6, <2>3, <2>4 DEF AnswerInv, PendingTexts, Holds, Mention
  <2>6. ResolvedHolds(p)'
    BY <1>1, <2>5 DEF ResolvedHolds, Holds, Clustered, ClustersOf
  <2>. QED  BY <1>5, <2>1, <2>2, <2>6, KindsDiffer DEF InternalIsNew, ConflictIsReal
<1>7. CASE Mention(p) \notin Clustered(store)
  <2>1. Reply(p, Error("internal"))
    BY <1>1, <1>2, <1>7
  <2>2. replies'[p].kind = "internal"
    BY <1>3, <2>1, KindsDiffer DEF Reply
  <2>3. Mention(p) \notin Stored(store)
    BY <1>1, <1>4, <1>7 DEF UnitClustered
  <2>4. InternalIsNew(p)'
    BY <1>1, <2>3 DEF InternalIsNew, Stored, Mention
  <2>. QED  BY <1>5, <2>1, <2>2, <2>4, KindsDiffer DEF ResolvedHolds, ConflictIsReal
<1>. QED  BY <1>6, <1>7

LEMMA RaisesAnswers == AnswerInv /\ TypeInv /\ RepeatRaises => AnswerInv'
<1>. SUFFICES ASSUME AnswerInv, TypeInv, RepeatRaises PROVE AnswerInv'
  OBVIOUS
<1>1. /\ phase = "serving" /\ unit = {} /\ work = store
      /\ UNCHANGED <<store, work, phase, bite, pending, repeats, unit, draft, threadFaults>>
      /\ pending \subseteq DOMAIN bite
  BY DEF RepeatRaises, Repeating, AnswerInv, HandsInv, TypeInv, TypeOK
<1>2. \A p \in DOMAIN bite : replies'[p].kind = "failed" /\ replies'[p] # NoReply
  BY KindsDiffer DEF RepeatRaises
<1>3. Unguarded' = {} /\ Unanswered(pending)' = {}
  BY <1>1, <1>2 DEF Unguarded, Unanswered
<1>4. RepliesTrue'
  BY <1>1, <1>2 DEF RepliesTrue, ResolvedHolds, InternalIsNew, ConflictIsReal
<1>5. HandsInv'
  BY <1>1, <1>3 DEF AnswerInv, HandsInv, PendingDistinct, UnitClustered, Clustered,
     ClustersOf, Stored, Mention
<1>6. PendingTexts' /\ RepeatsRepeat' /\ InOrder' /\ RepeatsLast'
  BY <1>1, <1>3 DEF AnswerInv, PendingTexts, RepeatsRepeat, InOrder, RepeatsLast, Stored, Mention
<1>. QED  BY <1>4, <1>5, <1>6 DEF AnswerInv

LEMMA TakeAnswers == AnswerInv /\ TypeInv /\ TakeBite => AnswerInv'
<1>. SUFFICES ASSUME AnswerInv, TypeInv, TakeBite PROVE AnswerInv'
  OBVIOUS
<1>1. /\ pending = {} /\ repeats = {} /\ unit = {} /\ work = store /\ UnitClustered(store)
      /\ phase' = "serving" /\ UNCHANGED <<store, work, pending, repeats, unit>>
      /\ \A p \in DOMAIN bite' : replies'[p] = NoReply
  BY DEF TakeBite, TypeInv, NothingWhenIdle, AnswerInv, HandsInv
<1>2. RepliesTrue'
  BY <1>1, KindsDiffer DEF RepliesTrue, ResolvedHolds, InternalIsNew, ConflictIsReal
<1>3. UnitClustered(store)'
  BY <1>1 DEF UnitClustered, Clustered, ClustersOf, Stored
<1>. QED
  BY <1>1, <1>2, <1>3 DEF AnswerInv, HandsInv, PendingDistinct, PendingTexts, RepeatsRepeat,
     InOrder, RepeatsLast, Unanswered

LEMMA NextAnswers == AnswerInv /\ SafeInv /\ [Next]_vars => AnswerInv'
<1>. SUFFICES ASSUME AnswerInv, SafeInv, [Next]_vars PROVE AnswerInv'
  OBVIOUS
<1>0. TypeInv
  BY DEF SafeInv
<1>1. CASE UNCHANGED vars
  <2>1. HandsInv'
    BY <1>1 DEF vars, AnswerInv, HandsInv, PendingDistinct, UnitClustered, Clustered,
       ClustersOf, Stored, UnitIn, Unanswered, Holds, Mention
  <2>. QED  BY <1>1, <2>1, UnitSteps DEF vars
<1>2. CASE TakeBite
  BY <1>0, <1>2, TakeAnswers
<1>3. CASE Guard
  BY <1>0, <1>3, GuardAnswers
<1>4. CASE BeginUnit
  BY <1>0, <1>4, BeginAnswers
<1>5. CASE AssignCluster
  BY <1>5, AssignAnswers
<1>6. CASE SaveUnit
  BY <1>0, <1>6, SaveAnswers
<1>7. CASE Commit
  BY <1>0, <1>7, CommitAnswers
<1>8. CASE FailUnit
  BY <1>8, FailAnswers
<1>9. CASE FinishUnit
  BY <1>0, <1>9, FinishAnswers
<1>10. CASE ThreadFault
  BY <1>0, <1>10, FaultAnswers
<1>11. CASE RespondCached
  BY <1>0, <1>11, RespondAnswers
<1>12. CASE RepeatRaises
  BY <1>0, <1>12, RaisesAnswers
<1>13. CASE SendResponses
  <2>1. UnitClustered(store)' /\ work' = store'
    BY <1>13 DEF SendResponses, AnswerInv, HandsInv, UnitClustered, Clustered, ClustersOf, Stored
  <2>. QED  BY <1>13, <2>1, IdleAnswers DEF SendResponses
<1>14. CASE CrashAndRestart
  <2>1. UnitClustered(EmptyStore)
    BY DEF EmptyStore, UnitClustered, Clustered, ClustersOf, Stored
  <2>2. UnitClustered(store')
    BY <1>14, <2>1 DEF CrashAndRestart, AnswerInv, HandsInv
  <2>3. UnitClustered(store)'
    BY <2>2 DEF UnitClustered, Clustered, ClustersOf, Stored
  <2>. QED  BY <1>14, <2>3, IdleAnswers DEF CrashAndRestart
<1>. QED
  BY <1>1, <1>2, <1>3, <1>4, <1>5, <1>6, <1>7, <1>8, <1>9, <1>10, <1>11, <1>12,
     <1>13, <1>14 DEF Next, Work

LEMMA AnswersAlways == Spec => [](SafeInv /\ AnswerInv)
<1>1. Spec => []SafeInv
  BY SafeAlways
<1>2. SafeInv /\ AnswerInv /\ [Next]_vars => AnswerInv'
  BY NextAnswers
<1>. QED  BY <1>1, <1>2, InitAnswer, PTL DEF Spec

(***************************************************************************)
(* The replies that are sent agree with the committed tables for every     *)
(* bite, through every failure and the fallback.  Resolutions and conflicts*)
(* also do when a training thread could not be started; that an internal   *)
(* error leaves nothing stored is only so as long as it could.             *)
(***************************************************************************)
THEOREM RepliesAreTrue == Spec => []RepliesMatchStore
<1>1. AnswerInv => RepliesMatchStore
  BY DEF AnswerInv, RepliesTrue, ResolvedHolds, InternalIsNew, ConflictIsReal, RepliesMatchStore,
     ResolutionsHold, FailuresLeaveNothing, ConflictsAreReal
<1>. QED  BY <1>1, AnswersAlways, PTL

-----------------------------------------------------------------------------
(***************************************************************************)
(* The candidates and what the clusters follow from, as long as the        *)
(* training thread can be started.  A ranking is decided from the working  *)
(* copy and from the drafts of the unit, long before any of it is          *)
(* committed; so both are followed from the decision to the commit and     *)
(* from there to the reply.                                                *)
(***************************************************************************)
Founders(s) == {c \in Mentions : <<c, c>> \in s.clusters}
NewFounders == {Mention(q) : q \in {r \in DOMAIN draft : draft[r].cluster = Mention(r)}}
Ranked(ranking, founders) == DOMAIN ranking # {} /\ DOMAIN ranking \subseteq founders

RankedInv ==
  /\ \A p \in DOMAIN bite : replies[p].kind = "resolved" =>
       Ranked(replies[p].ranking, Founders(store))
  /\ \A p \in DOMAIN draft : Ranked(draft[p].ranking, Founders(work) \cup NewFounders)
  /\ phase \in {"saved", "committed"} => NewFounders \subseteq Founders(work)

LinksStored(s) == \A l \in s.links : l.left \in Stored(s)
StrongestOf(s, l) == \A k \in s.links : k.left = l.left => k.score <= l.score
Belongs(s, m, c) ==
  IF c = m
  THEN \A l \in s.links : l.left = m => l.score < Threshold
  ELSE \E l \in s.links : /\ l.left = m /\ StrongestOf(s, l)
                          /\ l.score >= Threshold
                          /\ c \in ClustersOf(s, l.right)
MembershipOf(s) == \A m \in Mentions : \A c \in ClustersOf(s, m) : Belongs(s, m, c)

\* x is known to be in c: stored, or decided in this unit.
KnownIn(x, c) ==
  c \in ClustersOf(work, x) \/ \E q \in DOMAIN draft : Mention(q) = x /\ draft[q].cluster = c
JoinedBy(p, x) ==
  /\ draft[p].kept[x] >= Threshold
  /\ \A y \in DOMAIN draft[p].kept : draft[p].kept[y] <= draft[p].kept[x]
  /\ KnownIn(x, draft[p].cluster)
Follows(p) ==
  IF draft[p].cluster = Mention(p)
  THEN \A x \in DOMAIN draft[p].kept : draft[p].kept[x] < Threshold
  ELSE \E x \in DOMAIN draft[p].kept : JoinedBy(p, x)

UnitSaved == /\ KeptLinks \subseteq work.links
             /\ \A p \in unit : ClustersOf(work, Mention(p)) = {draft[p].cluster}

FollowInv ==
  /\ LinksStored(store) /\ MembershipOf(store)
  /\ phase = "scoring" => work.links = store.links
  /\ phase = "saved" => /\ LinksStored(work) /\ MembershipOf(work)
                        /\ store.links \subseteq work.links
  /\ phase \in {"saved", "committed"} => UnitSaved
  /\ \A p \in DOMAIN draft : Follows(p)

GreedyInv == RankedInv /\ FollowInv

\* Cutting a function keeps the highest values, and at least one.
LEMMA TopOfCut ==
  ASSUME NEW f, DOMAIN f \subseteq Mentions, NEW place, NEW g \in TopOf(f, place)
  PROVE  /\ DOMAIN g \subseteq DOMAIN f
         /\ \A x \in DOMAIN g : g[x] = f[x]
         /\ \A x \in DOMAIN g : \A y \in DOMAIN f \ DOMAIN g : Before(f, place, x, y)
         /\ DOMAIN f # {} => DOMAIN g # {}
<1>. DEFINE all == Cardinality(DOMAIN f)
            size == IF all <= TopN THEN all ELSE TopN
<1>1. PICK S \in SUBSET DOMAIN f :
        /\ g = Restrict(f, S)
        /\ Cardinality(S) = size
        /\ \A x \in S : \A y \in DOMAIN f \ S : Before(f, place, x, y)
  BY DEF TopOf
<1>2. DOMAIN g = S /\ \A x \in S : g[x] = f[x]
  BY <1>1 DEF Restrict
<1>3. ASSUME DOMAIN f # {} PROVE S # {}
  <2>1. IsFiniteSet(DOMAIN f)
    BY ScoreAssumption, FS_Subset
  <2>2. all \in Nat /\ all # 0
    BY <1>3, <2>1, FS_CardinalityType, FS_EmptySet
  <2>. HIDE DEF all
  <2>3. size # 0
    BY <2>2, ScoreAssumption
  <2>. HIDE DEF size
  <2>. QED  BY <1>1, <2>3, FS_EmptySet
<1>. QED  BY <1>1, <1>2, <1>3

\* What is ranked: the clusters the links lead to and the mention's own, each by
\* its best link.
LEMMA RankedClusters ==
  ASSUME NEW own \in Mentions, NEW links \in Links, NEW place, NEW home,
         DOMAIN home \subseteq Mentions, home \in [DOMAIN home -> Mentions],
         NEW ranking \in RankCandidates(own, links, place, home)
  PROVE  /\ DOMAIN ranking # {}
         /\ \A c \in DOMAIN ranking :
              /\ c = own \/ \E x \in DOMAIN links \cap DOMAIN home : c = home[x]
              /\ ranking[c] = ClusterScores(own, links, home)[c]
<1>. DEFINE scores == ClusterScores(own, links, home)
<1>1. DOMAIN scores = LinkedClusters(links, home) \cup {own}
  BY DEF ClusterScores
<1>2. DOMAIN scores \subseteq Mentions /\ DOMAIN scores # {}
  BY <1>1 DEF LinkedClusters
<1>3. ranking \in TopOf(scores, ClusterPlaces(own, links, place, home))
  BY DEF RankCandidates
<1>. HIDE DEF scores
<1>4. /\ DOMAIN ranking # {} /\ DOMAIN ranking \subseteq DOMAIN scores
      /\ \A c \in DOMAIN ranking : ranking[c] = scores[c]
  BY <1>2, <1>3, TopOfCut
<1>5. \A c \in DOMAIN ranking : c = own \/ \E x \in DOMAIN links \cap DOMAIN home : c = home[x]
  BY <1>1, <1>4 DEF LinkedClusters
<1>. QED  BY <1>4, <1>5 DEF scores

\* The best match is among the links that are kept.
LEMMA BestIsKept ==
  ASSUME NEW links \in Links, NEW place \in Places(DOMAIN links),
         NEW best \in BestMatches(links, place), NEW kept \in BestLinks(links, place)
  PROVE  /\ best \in DOMAIN kept /\ kept[best] = links[best]
         /\ DOMAIN kept \subseteq DOMAIN links
         /\ \A x \in DOMAIN kept : kept[x] = links[x]
         /\ \A x \in DOMAIN links : links[x] <= links[best]
<1>1. links \in [DOMAIN links -> Scores] /\ DOMAIN links \subseteq Mentions
  BY DEF Links
<1>2. Scores \subseteq Int
  BY ScoreAssumption DEF Scores
<1>3. place \in [DOMAIN links -> Int]
  <2>1. IsFiniteSet(DOMAIN links)
    BY <1>1, ScoreAssumption, FS_Subset
  <2>2. Cardinality(DOMAIN links) \in Nat
    BY <2>1, FS_CardinalityType
  <2>3. place \in [DOMAIN links -> 1..Cardinality(DOMAIN links)]
    BY DEF Places, Injection
  <2>. QED  BY <2>2, <2>3
<1>4. best \in DOMAIN links /\ \A x \in DOMAIN links \ {best} : Before(links, place, best, x)
  BY DEF BestMatches
<1>5. /\ DOMAIN kept \subseteq DOMAIN links /\ DOMAIN kept # {}
      /\ \A x \in DOMAIN kept : kept[x] = links[x]
      /\ \A x \in DOMAIN kept : \A y \in DOMAIN links \ DOMAIN kept : Before(links, place, x, y)
  BY <1>1, <1>4, TopOfCut DEF BestLinks
<1>6. \A x \in DOMAIN links : links[x] <= links[best]
  BY <1>1, <1>2, <1>4 DEF Before
<1>7. best \in DOMAIN kept
  <2>. SUFFICES ASSUME best \notin DOMAIN kept PROVE FALSE
    OBVIOUS
  <2>1. PICK x \in DOMAIN kept : TRUE
    BY <1>5
  <2>2. Before(links, place, x, best) /\ Before(links, place, best, x)
    BY <1>4, <1>5, <2>1
  <2>3. /\ links[x] \in Int /\ links[best] \in Int
        /\ place[x] \in Int /\ place[best] \in Int
    BY <1>1, <1>2, <1>3, <1>4, <1>5, <2>1
  <2>. QED  BY <2>2, <2>3 DEF Before
<1>. QED  BY <1>4, <1>5, <1>6, <1>7

\* The answer to a mention that is resolved names clusters that are there.
LEMMA RequeriesRanked ==
  ASSUME NEW s \in Stores, TablesSound(s), NEW m \in Mentions, NEW ranking \in Requeries(s, m)
  PROVE  Ranked(ranking, Founders(s))
<1>. DEFINE links == StoredLinks(s, m)
<1>1. PICK own \in ClustersOf(s, m), place \in Places(DOMAIN links),
           home \in Homes(s, DOMAIN links) :
        ranking \in RankCandidates(own, links, place, home)
  BY DEF Requeries
<1>2. links \in Links /\ own \in Mentions
  BY StoredLinksType DEF ClustersOf
<1>3. DOMAIN home \subseteq Mentions /\ home \in [DOMAIN home -> Mentions]
  BY HomesType
<1>. HIDE DEF links
<1>4. /\ DOMAIN ranking # {}
      /\ \A c \in DOMAIN ranking : c = own \/ \E x \in DOMAIN home : c = home[x]
  BY <1>1, <1>2, <1>3, RankedClusters
<1>5. own \in Founders(s)
  BY <1>1, <1>2 DEF ClustersOf, Founders, TablesSound
<1>6. \A x \in DOMAIN home : home[x] \in Founders(s)
  <2>. TAKE x \in DOMAIN home
  <2>1. home[x] \in ClustersOf(s, x) /\ x \in Mentions /\ home[x] \in Mentions
    BY <1>3 DEF Homes
  <2>. QED  BY <2>1 DEF ClustersOf, Founders, TablesSound
<1>. QED  BY <1>4, <1>5, <1>6 DEF Ranked

\* Between units: a reply that is given now names founders.
LEMMA ServingKeepsGreedy ==
  ASSUME GreedyInv, UNCHANGED <<store, bite>>, phase' \in {"idle", "serving"},
         DOMAIN draft' = {},
         \A p \in DOMAIN bite :
           \/ replies'[p] = replies[p]
           \/ replies'[p].kind # "resolved"
           \/ Ranked(replies'[p].ranking, Founders(store))
  PROVE  GreedyInv'
<1>1. RankedInv'
  BY DEF GreedyInv, RankedInv, Founders
<1>2. FollowInv'
  BY DEF GreedyInv, FollowInv, LinksStored, MembershipOf, Belongs, StrongestOf, ClustersOf, Stored
<1>. QED  BY <1>1, <1>2 DEF GreedyInv

LEMMA InitGreedy == Init => GreedyInv
<1>. SUFFICES ASSUME Init PROVE GreedyInv
  OBVIOUS
<1>1. DOMAIN bite = {} /\ DOMAIN draft = {}
  BY DEF Init, Empty
<1>2. RankedInv
  BY <1>1 DEF Init, RankedInv
<1>3. FollowInv
  BY <1>1 DEF Init, EmptyStore, FollowInv, LinksStored, MembershipOf, ClustersOf
<1>. QED  BY <1>2, <1>3 DEF GreedyInv

LEMMA IdleKeepsGreedy ==
  ASSUME Idle, LinksStored(store'), MembershipOf(store')
  PROVE  GreedyInv'
<1>1. DOMAIN bite' = {} /\ DOMAIN draft' = {}
  BY DEF Idle, Empty
<1>2. RankedInv'
  BY <1>1 DEF Idle, RankedInv
<1>3. FollowInv'
  BY <1>1 DEF Idle, FollowInv, LinksStored, MembershipOf, Belongs, StrongestOf, ClustersOf, Stored
<1>. QED  BY <1>2, <1>3 DEF GreedyInv

\* While a bite is served, no draft is left.
LEMMA NoDraftServing ==
  ASSUME IInv, phase = "serving"
  PROVE  DOMAIN draft = {} /\ work = store
BY DEF IInv, TypeInv, TypeOK, WorkInv, UnitInv

LEMMA GuardKeepsGreedy == GreedyInv /\ IInv /\ AnswerInv /\ Guard => GreedyInv'
<1>. SUFFICES ASSUME GreedyInv, IInv, AnswerInv, Guard PROVE GreedyInv'
  OBVIOUS
<1>1. PICK p \in Unguarded :
        \/ GuardMalformed(p) /\ UNCHANGED <<pending, repeats>>
        \/ /\ bite[p].form = "entity"
           /\ \/ GuardConflict(p) /\ UNCHANGED <<pending, repeats>>
              \/ GuardCached(p) /\ UNCHANGED <<pending, repeats>>
              \/ GuardRaises(p) /\ UNCHANGED <<pending, repeats>>
              \/ GuardNew(p) /\ UNCHANGED replies
  BY DEF Guard
<1>2. /\ phase = "serving" /\ UNCHANGED <<store, work, phase, bite, unit, draft>>
      /\ DOMAIN draft = {} /\ work = store
  BY NoDraftServing DEF Guard
<1>3. /\ p \in DOMAIN bite /\ p \notin pending /\ replies[p] = NoReply
      /\ pending \subseteq DOMAIN bite /\ replies \in [DOMAIN bite -> Replies]
  BY <1>1 DEF Unguarded, Unanswered, IInv, TypeInv, TypeOK
<1>4. ASSUME NEW reply, Reply(p, reply), UNCHANGED pending,
             reply.kind # "resolved" \/ Ranked(reply.ranking, Founders(store))
      PROVE  GreedyInv'
  <2>1. replies'[p] = reply /\ \A q \in DOMAIN bite \ {p} : replies'[q] = replies[q]
    BY <1>3, <1>4 DEF Reply
  <2>. QED  BY <1>2, <1>3, <1>4, <2>1, ServingKeepsGreedy
<1>5. CASE /\ GuardMalformed(p) \/ GuardConflict(p) \/ GuardRaises(p)
           /\ UNCHANGED <<pending, repeats>>
  <2>1. PICK kind \in {"failed", "rejected", "conflict", "internal"} : Reply(p, Error(kind))
    BY <1>5 DEF GuardMalformed, GuardConflict, GuardRaises
  <2>. QED  BY <1>4, <1>5, <2>1, KindsDiffer
<1>6. CASE bite[p].form = "entity" /\ GuardCached(p) /\ UNCHANGED <<pending, repeats>>
  <2>1. PICK ranking \in Requeries(work, Mention(p)) : Reply(p, Resolved(ranking))
    BY <1>6 DEF GuardCached
  <2>2. Mention(p) \in Mentions
    BY <1>3, <1>6, PositionTypes, EntityFields DEF Mention, IInv, TypeInv, TypeOK
  <2>3. store \in Stores /\ TablesSound(store)
    BY DEF IInv, TypeInv, TypeOK
  <2>4. Ranked(ranking, Founders(store))
    BY <1>2, <2>1, <2>2, <2>3, RequeriesRanked
  <2>5. Resolved(ranking).ranking = ranking
    BY DEF Resolved
  <2>. QED  BY <1>4, <1>6, <2>1, <2>4, <2>5
<1>7. CASE bite[p].form = "entity" /\ GuardNew(p) /\ UNCHANGED replies
  BY <1>2, <1>7, ServingKeepsGreedy
<1>. QED  BY <1>1, <1>5, <1>6, <1>7

LEMMA RespondKeepsGreedy == GreedyInv /\ IInv /\ AnswerInv /\ RespondCached => GreedyInv'
<1>. SUFFICES ASSUME GreedyInv, IInv, AnswerInv, RespondCached PROVE GreedyInv'
  OBVIOUS
<1>1. /\ phase = "serving" /\ UNCHANGED <<store, work, phase, bite, pending, unit, draft>>
      /\ DOMAIN draft = {} /\ work = store
  BY NoDraftServing DEF RespondCached, Repeating
<1>2. PICK p \in repeats :
        IF Mention(p) \in Clustered(work)
        THEN \E ranking \in Requeries(work, Mention(p)) : Reply(p, Resolved(ranking))
        ELSE Reply(p, Error("internal"))
  BY DEF RespondCached
<1>3. /\ p \in DOMAIN bite /\ p \notin pending
      /\ pending \subseteq DOMAIN bite /\ replies \in [DOMAIN bite -> Replies]
  BY DEF IInv, TypeInv, TypeOK, AnswerInv, RepeatsLast
<1>4. ASSUME NEW reply, Reply(p, reply),
             reply.kind # "resolved" \/ Ranked(reply.ranking, Founders(store))
      PROVE  GreedyInv'
  <2>1. replies'[p] = reply /\ \A q \in DOMAIN bite \ {p} : replies'[q] = replies[q]
    BY <1>3, <1>4 DEF Reply
  <2>. QED  BY <1>1, <1>3, <1>4, <2>1, ServingKeepsGreedy
<1>5. CASE Mention(p) \in Clustered(work)
  <2>1. PICK ranking \in Requeries(work, Mention(p)) : Reply(p, Resolved(ranking))
    BY <1>2, <1>5
  <2>2. Mention(p) \in Mentions
    BY <1>5 DEF Clustered
  <2>3. store \in Stores /\ TablesSound(store)
    BY DEF IInv, TypeInv, TypeOK
  <2>4. Ranked(ranking, Founders(store))
    BY <1>1, <2>1, <2>2, <2>3, RequeriesRanked
  <2>5. Resolved(ranking).ranking = ranking
    BY DEF Resolved
  <2>. QED  BY <1>4, <2>1, <2>4, <2>5
<1>6. CASE Mention(p) \notin Clustered(work)
  BY <1>2, <1>4, <1>6, KindsDiffer
<1>. QED  BY <1>5, <1>6

LEMMA BeginKeepsGreedy == GreedyInv /\ IInv /\ BeginUnit => GreedyInv'
<1>. SUFFICES ASSUME GreedyInv, IInv, BeginUnit PROVE GreedyInv'
  OBVIOUS
<1>1. PICK positions \in SUBSET Unanswered(pending) :
        unit' = positions /\ work' = WithMentions(work, positions)
  BY DEF BeginUnit
<1>2. /\ phase' = "scoring" /\ UNCHANGED <<store, bite, replies, pending>>
      /\ work = store /\ DOMAIN draft' = {}
  BY NoDraftServing DEF BeginUnit, Empty
<1>3. work'.links = store.links
  <2>1. positions \subseteq pending /\ store \in Stores
    BY DEF Unanswered, IInv, TypeInv, TypeOK
  <2>. QED  BY <1>1, <1>2, <2>1, UnitIsIn DEF IInv
<1>4. RankedInv'
  BY <1>2 DEF GreedyInv, RankedInv, Founders
<1>5. FollowInv'
  BY <1>2, <1>3 DEF GreedyInv, FollowInv, LinksStored, MembershipOf, Belongs, StrongestOf,
     ClustersOf, Stored
<1>. QED  BY <1>4, <1>5 DEF GreedyInv

\* The linker drops the links to later members of the unit, so whatever a mention is
\* linked to has its cluster by then, and it is not the one the mention would found.
LEMMA LinkedHaveHomes ==
  ASSUME IInv, phase = "scoring",
         NEW p \in unit \ DOMAIN draft, \A q \in unit \ DOMAIN draft : p <= q,
         NEW linked \in SUBSET LinksToEarlier(p), NEW home \in KnownHomes(linked)
  PROVE  /\ DOMAIN home = linked
         /\ \A x \in linked : KnownIn(x, home[x]) /\ home[x] # Mention(p)
         /\ \A x \in linked : home[x] \in Founders(work) \cup NewFounders
<1>. DEFINE decided == {x \in linked : \E q \in DOMAIN draft : Mention(q) = x}
            Decided(x) == draft[CHOOSE q \in DOMAIN draft : Mention(q) = x].cluster
<1>1. PICK old \in Homes(work, linked \ decided) :
        home = [x \in DOMAIN old \cup decided |-> IF x \in decided THEN Decided(x) ELSE old[x]]
  BY DEF KnownHomes
<1>2. /\ work.clusters = store.clusters /\ UnitApplied(work) /\ TablesSound(store)
      /\ unit \subseteq pending /\ DOMAIN draft \subseteq unit
      /\ \A q \in unit : store.rows[Mention(q)] = 0
  BY DEF IInv, WorkInv, UnitInv, Unanswered, TypeInv, TypeOK
<1>3. linked \subseteq Mentions /\ \A q \in unit : Mention(q) \in Mentions
  BY <1>2, PendingMentions DEF LinksToEarlier, Stored, IInv
<1>4. DOMAIN old = (linked \ decided) \cap Clustered(work)
  BY HomesType
<1>5. ASSUME NEW x \in linked \ decided
      PROVE  x \in DOMAIN old
  <2>1. ASSUME NEW q \in unit PROVE Mention(q) # x
    <3>. SUFFICES ASSUME Mention(q) = x PROVE FALSE
      OBVIOUS
    <3>1. q \notin DOMAIN draft
      BY <1>5
    <3>2. ~(q > p) /\ x # Mention(p)
      BY <1>5 DEF LinksToEarlier
    <3>3. p <= q /\ p # q
      BY <3>1, <3>2
    <3>4. p \in Int /\ q \in Int
      BY <1>2, PositionsAreNumbers DEF IInv, TypeInv, TypeOK
    <3>. QED  BY <3>2, <3>3, <3>4
  <2>2. work.rows[x] > 0 /\ work.rows[x] = store.rows[x]
    BY <1>2, <1>3, <2>1 DEF UnitApplied, LinksToEarlier, Stored
  <2>3. ClustersOf(store, x) # {}
    BY <1>2, <1>3, <2>2 DEF TablesSound
  <2>. QED  BY <1>2, <1>3, <1>4, <2>3 DEF Clustered, ClustersOf
<1>6. DOMAIN home = linked
  BY <1>1, <1>4, <1>5
<1>7. ASSUME NEW x \in linked PROVE KnownIn(x, home[x])
  <2>1. CASE x \in decided
    BY <1>1, <1>6, <2>1 DEF KnownIn
  <2>2. CASE x \notin decided
    <3>1. home[x] = old[x] /\ x \in DOMAIN old
      BY <1>1, <1>5, <1>6, <2>2
    <3>2. old[x] \in ClustersOf(work, x)
      BY <3>1 DEF Homes
    <3>. QED  BY <3>1, <3>2 DEF KnownIn
  <2>. QED  BY <2>1, <2>2
<1>. HIDE DEF decided, Decided
<1>8. ASSUME NEW x \in linked
      PROVE  \/ <<home[x], home[x]>> \in store.clusters
             \/ \E q \in DOMAIN draft : Mention(q) = home[x] /\ draft[q].cluster = home[x]
  BY <1>3, <1>6, KnownHomesFounded
<1>9. ASSUME NEW x \in linked PROVE home[x] # Mention(p)
  <2>. SUFFICES ASSUME home[x] = Mention(p) PROVE FALSE
    OBVIOUS
  <2>1. CASE <<home[x], home[x]>> \in store.clusters
    <3>1. ClustersOf(store, Mention(p)) = {}
      BY <1>2, <1>3 DEF TablesSound
    <3>2. Mention(p) \in Mentions
      BY <1>3
    <3>. QED  BY <2>1, <3>1, <3>2 DEF ClustersOf
  <2>2. CASE \E q \in DOMAIN draft : Mention(q) = home[x]
    <3>1. PICK q \in DOMAIN draft : Mention(q) = Mention(p)
      BY <2>2
    <3>2. q = p
      BY <1>2, <3>1 DEF IInv, PendingDistinct
    <3>. QED  BY <3>1, <3>2
  <2>. QED  BY <1>8, <2>1, <2>2
<1>10. ASSUME NEW x \in linked PROVE home[x] \in Founders(work) \cup NewFounders
  <2>1. home[x] \in Mentions
    <3>1. DOMAIN home = linked /\ home \in [DOMAIN home -> Mentions]
      BY <1>3, <1>6, KnownHomesType DEF IInv, TypeInv, TypeOK
    <3>. QED  BY <3>1
  <2>. QED  BY <1>2, <1>8, <2>1 DEF Founders, NewFounders
<1>. QED  BY <1>6, <1>7, <1>9, <1>10

LEMMA AssignKeepsGreedy == GreedyInv /\ IInv /\ AssignCluster => GreedyInv'
<1>. SUFFICES ASSUME GreedyInv, IInv, AssignCluster PROVE GreedyInv'
  OBVIOUS
<1>1. phase = "scoring" /\ UNCHANGED <<store, work, phase, bite, replies, pending, unit>>
  BY DEF AssignCluster
<1>2. PICK p \in unit \ DOMAIN draft :
      /\ \A q \in unit \ DOMAIN draft : p <= q
      /\ \E linked \in SUBSET LinksToEarlier(p) :
         \E links \in [linked -> Scores], place \in Places(linked), home \in KnownHomes(linked) :
         \E cluster \in Assignments(Mention(p), links, place, home) :
         \E ranking \in RankCandidates(cluster, links, place, home),
            kept \in BestLinks(links, place) :
           draft' = Put(draft, p, [cluster |-> cluster, kept |-> kept, ranking |-> ranking])
  BY DEF AssignCluster, IsFirst
<1>3. PICK linked \in SUBSET LinksToEarlier(p) :
        \E links \in [linked -> Scores], place \in Places(linked), home \in KnownHomes(linked) :
        \E cluster \in Assignments(Mention(p), links, place, home) :
        \E ranking \in RankCandidates(cluster, links, place, home),
           kept \in BestLinks(links, place) :
          draft' = Put(draft, p, [cluster |-> cluster, kept |-> kept, ranking |-> ranking])
  BY <1>2
<1>4. PICK links \in [linked -> Scores], place \in Places(linked), home \in KnownHomes(linked) :
        \E cluster \in Assignments(Mention(p), links, place, home) :
        \E ranking \in RankCandidates(cluster, links, place, home),
           kept \in BestLinks(links, place) :
          draft' = Put(draft, p, [cluster |-> cluster, kept |-> kept, ranking |-> ranking])
  BY <1>3
<1>5. PICK cluster \in Assignments(Mention(p), links, place, home) :
        \E ranking \in RankCandidates(cluster, links, place, home),
           kept \in BestLinks(links, place) :
          draft' = Put(draft, p, [cluster |-> cluster, kept |-> kept, ranking |-> ranking])
  BY <1>4
<1>6. PICK ranking \in RankCandidates(cluster, links, place, home),
           kept \in BestLinks(links, place) :
          draft' = Put(draft, p, [cluster |-> cluster, kept |-> kept, ranking |-> ranking])
  BY <1>5
<1>7. /\ DOMAIN draft' = DOMAIN draft \cup {p}
      /\ draft'[p].cluster = cluster /\ draft'[p].kept = kept /\ draft'[p].ranking = ranking
      /\ \A q \in DOMAIN draft : draft'[q] = draft[q]
  BY <1>2, <1>6 DEF Put
<1>8. /\ DOMAIN home = linked
      /\ \A x \in linked : KnownIn(x, home[x]) /\ home[x] # Mention(p)
      /\ \A x \in linked : home[x] \in Founders(work) \cup NewFounders
  BY <1>1, <1>2, LinkedHaveHomes
<1>9. /\ linked \subseteq Mentions /\ links \in Links
      /\ home \in [DOMAIN home -> Mentions] /\ DOMAIN home \subseteq Mentions
  <2>1. linked \in SUBSET Mentions
    BY DEF LinksToEarlier, Stored
  <2>2. links \in Links
    BY <2>1 DEF Links
  <2>3. home \in [DOMAIN home -> Mentions] /\ DOMAIN home \subseteq Mentions
    BY <2>1, KnownHomesType DEF IInv, TypeInv, TypeOK
  <2>. QED  BY <2>1, <2>2, <2>3
<1>10. Mention(p) \in Mentions
  BY PendingMentions DEF IInv, UnitInv, Unanswered
<1>11. cluster \in Mentions
  BY <1>9, <1>10, AssignmentsType
<1>12. \/ cluster = Mention(p) /\ \A x \in DOMAIN kept : kept[x] < Threshold
       \/ \E x \in DOMAIN kept :
            /\ cluster # Mention(p) /\ cluster = home[x] /\ x \in linked
            /\ kept[x] >= Threshold
            /\ \A y \in DOMAIN kept : kept[y] <= kept[x]
  <2>1. CASE linked = {}
    <3>1. DOMAIN links = {} /\ BestMatches(links, place) = {}
      BY <2>1 DEF BestMatches
    <3>2. cluster = Mention(p)
      BY <3>1 DEF Assignments
    <3>3. DOMAIN kept = {}
      BY <1>9, <3>1, TopOfCut DEF BestLinks
    <3>. QED  BY <3>2, <3>3
  <2>2. CASE linked # {}
    <3>1. PICK best \in BestMatches(links, place) :
            cluster = IF best \in DOMAIN home /\ links[best] >= Threshold
                      THEN home[best] ELSE Mention(p)
      BY <2>2 DEF Assignments
    <3>2. best \in linked
      BY DEF BestMatches
    <3>3. /\ best \in DOMAIN kept /\ kept[best] = links[best]
          /\ DOMAIN kept \subseteq linked
          /\ \A x \in DOMAIN kept : kept[x] = links[x]
          /\ \A x \in linked : links[x] <= links[best]
      BY <1>9, BestIsKept
    <3>4. /\ \A x \in linked : links[x] \in Int
          /\ Threshold \in Int
      BY ScoreAssumption DEF Scores
    <3>5. CASE links[best] >= Threshold
      <4>1. cluster = home[best] /\ cluster # Mention(p)
        BY <1>8, <3>1, <3>2, <3>5
      <4>3. \A y \in DOMAIN kept : kept[y] <= kept[best]
        BY <3>3
      <4>4. kept[best] >= Threshold
        BY <3>3, <3>5
      <4>. QED  BY <3>2, <3>3, <4>1, <4>3, <4>4
    <3>6. CASE ~(links[best] >= Threshold)
      <4>1. cluster = Mention(p)
        BY <3>1, <3>6
      <4>2. \A x \in DOMAIN kept : kept[x] < Threshold
        BY <3>2, <3>3, <3>4, <3>6
      <4>. QED  BY <4>1, <4>2
    <3>. QED  BY <3>5, <3>6
  <2>. QED  BY <2>1, <2>2
<1>13. /\ \A q \in DOMAIN bite : Mention(q)' = Mention(q)
       /\ DOMAIN draft \subseteq DOMAIN bite /\ p \in DOMAIN bite
  BY <1>1 DEF Mention, IInv, TypeInv, TypeOK
<1>14. \A x, c : KnownIn(x, c) => KnownIn(x, c)'
  BY <1>1, <1>7, <1>13 DEF KnownIn, ClustersOf
<1>15. NewFounders \subseteq NewFounders' /\ (cluster = Mention(p) => cluster \in NewFounders')
  BY <1>7, <1>13 DEF NewFounders
<1>16. RankedInv'
  <2>1. Ranked(ranking, Founders(work) \cup NewFounders')
    <3>1. /\ DOMAIN ranking # {}
          /\ \A c \in DOMAIN ranking : c = cluster \/ \E x \in linked : c = home[x]
      BY <1>8, <1>9, <1>11, RankedClusters
    <3>2. cluster = Mention(p) \/ \E x \in linked : cluster = home[x]
      BY <1>12
    <3>. QED  BY <1>8, <1>15, <3>1, <3>2 DEF Ranked
  <2>2. \A q \in DOMAIN draft : Ranked(draft[q].ranking, Founders(work) \cup NewFounders')
    BY <1>15 DEF GreedyInv, RankedInv, Ranked
  <2>. QED  BY <1>1, <1>7, <2>1, <2>2 DEF GreedyInv, RankedInv, Founders
<1>17. FollowInv'
  <2>1. Follows(p)'
    <3>1. CASE cluster = Mention(p) /\ \A x \in DOMAIN kept : kept[x] < Threshold
      BY <1>7, <1>13, <3>1 DEF Follows
    <3>2. ASSUME NEW x \in DOMAIN kept,
                 cluster # Mention(p), cluster = home[x], x \in linked,
                 kept[x] >= Threshold,
                 \A y \in DOMAIN kept : kept[y] <= kept[x]
          PROVE  Follows(p)'
      <4>1. KnownIn(x, cluster)'
        BY <1>8, <1>14, <3>2
      <4>2. JoinedBy(p, x)'
        BY <1>7, <3>2, <4>1 DEF JoinedBy
      <4>. QED  BY <1>7, <1>13, <3>2, <4>2 DEF Follows
    <3>. QED  BY <1>12, <3>1, <3>2
  <2>2. ASSUME NEW q \in DOMAIN draft PROVE Follows(q)'
    <3>1. Follows(q)
      BY DEF GreedyInv, FollowInv
    <3>2. \A x : JoinedBy(q, x) => JoinedBy(q, x)'
      BY <1>7, <1>14 DEF JoinedBy
    <3>. QED  BY <1>7, <1>13, <3>1, <3>2 DEF Follows
  <2>. QED  BY <1>1, <1>7, <2>1, <2>2
            DEF GreedyInv, FollowInv, LinksStored, MembershipOf, Belongs, StrongestOf, ClustersOf,
                Stored
<1>. QED  BY <1>16, <1>17 DEF GreedyInv

LEMMA SaveKeepsGreedy == GreedyInv /\ IInv /\ IInv' /\ SaveUnit => GreedyInv'
<1>. SUFFICES ASSUME GreedyInv, IInv, IInv', SaveUnit PROVE GreedyInv'
  OBVIOUS
<1>. DEFINE new == {<<Mention(p), draft[p].cluster>> : p \in unit}
            Kept(p, x) == [left |-> Mention(p), right |-> x, score |-> draft[p].kept[x]]
<1>1. /\ phase = "scoring" /\ DOMAIN draft = unit /\ phase' = "saved"
      /\ UNCHANGED <<store, bite, replies, pending, unit, draft>>
      /\ \A p : Mention(p)' = Mention(p)
  BY DEF SaveUnit, Mention
<1>2. /\ work'.clusters = store.clusters \cup new /\ work.clusters = store.clusters
      /\ work'.links = store.links \cup KeptLinks
  <2>1. work \in Stores /\ work.clusters = store.clusters /\ work.links = store.links
    BY <1>1 DEF IInv, TypeInv, TypeOK, WorkInv, GreedyInv, FollowInv
  <2>. QED  BY <2>1 DEF SaveUnit, Stores
<1>3. KeptLinks = UNION {{Kept(p, x) : x \in DOMAIN draft[p].kept} : p \in unit}
  BY DEF KeptLinks
<1>4. /\ \A p \in unit : /\ p \in pending /\ Mention(p) \in Mentions
                         /\ draft[p].cluster \in Mentions
                         /\ store.rows[Mention(p)] = 0
      /\ \A p, q \in unit : Mention(p) = Mention(q) => p = q
  BY <1>1, PendingMentions
     DEF IInv, UnitInv, Unanswered, PendingDistinct, TypeInv, TypeOK, Drafts
<1>5. /\ TablesSound(work')
      /\ \A m \in Mentions : (\A p \in unit : Mention(p) # m) =>
           work'.rows[m] = store.rows[m] /\ ClustersOf(work', m) = ClustersOf(store, m)
      /\ \A p \in unit : work'.rows[Mention(p)] = 1
  <2>1. UnitApplied(work)' /\ TablesSound(work)'
    BY <1>1 DEF IInv, WorkInv
  <2>. QED  BY <1>1, <2>1 DEF UnitApplied, TablesSound, ClustersOf
<1>6. \A m : ClustersOf(store, m) \subseteq ClustersOf(work', m)
  BY <1>2 DEF ClustersOf
<1>7. \A p \in unit : ClustersOf(work', Mention(p)) = {draft[p].cluster}
  <2>. TAKE p \in unit
  <2>1. draft[p].cluster \in ClustersOf(work', Mention(p))
    BY <1>2, <1>4 DEF ClustersOf
  <2>2. \E c \in Mentions : ClustersOf(work', Mention(p)) = {c}
    BY <1>4, <1>5 DEF TablesSound
  <2>. QED  BY <2>1, <2>2
<1>8. \A l \in store.links : \A p \in unit : l.left # Mention(p)
  BY <1>4 DEF GreedyInv, FollowInv, LinksStored, Stored
<1>9. ASSUME NEW l \in work'.links, NEW p \in unit, l.left = Mention(p)
      PROVE  \E x \in DOMAIN draft[p].kept : l = Kept(p, x)
  <2>1. l \in KeptLinks
    BY <1>2, <1>8, <1>9
  <2>2. PICK q \in unit : \E x \in DOMAIN draft[q].kept : l = Kept(q, x)
    BY <1>3, <2>1
  <2>3. q = p
    BY <1>4, <1>9, <2>2
  <2>. QED  BY <2>2, <2>3
<1>10. ASSUME NEW l \in work'.links, \A p \in unit : l.left # Mention(p)
       PROVE  l \in store.links
  BY <1>2, <1>3, <1>10
<1>11. \A x, c : KnownIn(x, c) /\ c \in Mentions => c \in ClustersOf(work', x)
  <2>. TAKE x, c
  <2>1. CASE c \in ClustersOf(work, x)
    BY <1>2, <2>1 DEF ClustersOf
  <2>2. CASE \E q \in DOMAIN draft : Mention(q) = x /\ draft[q].cluster = c
    BY <1>1, <1>7, <2>2
  <2>. QED  BY <2>1, <2>2 DEF KnownIn
<1>12. \A p \in unit : Follows(p)
  BY <1>1 DEF GreedyInv, FollowInv
<1>. HIDE DEF Kept, new
<1>13. LinksStored(work')
  <2>. SUFFICES ASSUME NEW l \in work'.links PROVE l.left \in Mentions /\ work'.rows[l.left] > 0
    BY DEF LinksStored, Stored
  <2>1. CASE \E p \in unit : l.left = Mention(p)
    BY <1>4, <1>5, <2>1
  <2>2. CASE \A p \in unit : l.left # Mention(p)
    <3>1. l \in store.links
      BY <1>10, <2>2
    <3>2. l.left \in Mentions /\ store.rows[l.left] > 0
      BY <3>1 DEF GreedyInv, FollowInv, LinksStored, Stored
    <3>. QED  BY <1>5, <2>2, <3>2
  <2>. QED  BY <2>1, <2>2
<1>14. MembershipOf(work')
  <2>. SUFFICES ASSUME NEW m \in Mentions, NEW c \in ClustersOf(work', m)
                PROVE  Belongs(work', m, c)
    BY DEF MembershipOf
  <2>0. c \in Mentions
    BY DEF ClustersOf
  <2>1. CASE \A p \in unit : Mention(p) # m
    <3>1. Belongs(store, m, c)
      BY <1>5, <2>1 DEF GreedyInv, FollowInv, MembershipOf
    <3>2. \A l \in work'.links : l.left = m => l \in store.links
      BY <1>10, <2>1
    <3>3. store.links \subseteq work'.links
      BY <1>2
    <3>4. CASE c = m
      BY <3>1, <3>2, <3>4 DEF Belongs
    <3>5. CASE c # m
      <4>1. PICK l \in store.links : /\ l.left = m /\ StrongestOf(store, l)
                                     /\ l.score >= Threshold
                                     /\ c \in ClustersOf(store, l.right)
        BY <3>1, <3>5 DEF Belongs
      <4>2. StrongestOf(work', l)
        BY <3>2, <4>1 DEF StrongestOf
      <4>3. c \in ClustersOf(work', l.right) /\ l \in work'.links
        BY <1>6, <3>3, <4>1
      <4>. QED  BY <3>5, <4>1, <4>2, <4>3 DEF Belongs
    <3>. QED  BY <3>4, <3>5
  <2>2. CASE \E p \in unit : Mention(p) = m
    <3>1. PICK p \in unit : Mention(p) = m
      BY <2>2
    <3>2. c = draft[p].cluster
      BY <1>7, <3>1
    <3>3. \A x \in DOMAIN draft[p].kept :
            Kept(p, x).left = m /\ Kept(p, x).right = x /\ Kept(p, x).score = draft[p].kept[x]
      BY <3>1 DEF Kept
    <3>4. \A l \in work'.links : l.left = m => \E x \in DOMAIN draft[p].kept : l = Kept(p, x)
      BY <1>9, <3>1
    <3>5. CASE c = m
      <4>1. \A x \in DOMAIN draft[p].kept : draft[p].kept[x] < Threshold
        BY <1>12, <3>1, <3>2, <3>5 DEF Follows
      <4>. QED  BY <3>3, <3>4, <3>5, <4>1 DEF Belongs
    <3>6. CASE c # m
      <4>1. PICK x \in DOMAIN draft[p].kept : JoinedBy(p, x)
        BY <1>12, <3>1, <3>2, <3>6 DEF Follows
      <4>2. Kept(p, x) \in work'.links
        BY <1>2, <1>3
      <4>3. StrongestOf(work', Kept(p, x))
        BY <3>3, <3>4, <4>1 DEF StrongestOf, JoinedBy
      <4>4. c \in ClustersOf(work', x)
        BY <1>11, <2>0, <3>2, <4>1 DEF JoinedBy
      <4>5. Kept(p, x).score >= Threshold
        BY <3>3, <4>1 DEF JoinedBy
      <4>. QED  BY <3>3, <3>6, <4>2, <4>3, <4>4, <4>5 DEF Belongs
    <3>. QED  BY <3>5, <3>6
  <2>. QED  BY <2>1, <2>2
<1>15. Founders(work) \subseteq Founders(work') /\ NewFounders' \subseteq Founders(work')
       /\ NewFounders' = NewFounders
  <2>1. NewFounders' = NewFounders
    BY <1>1 DEF NewFounders
  <2>2. NewFounders \subseteq Founders(work')
    BY <1>1, <1>4, <1>7 DEF NewFounders, Founders, ClustersOf
  <2>. QED  BY <1>2, <2>1, <2>2 DEF Founders
<1>16. RankedInv'
  <2>1. \A p \in DOMAIN draft : Ranked(draft[p].ranking, Founders(work') \cup NewFounders)
    BY <1>15 DEF GreedyInv, RankedInv, Ranked
  <2>. QED  BY <1>1, <1>15, <2>1 DEF GreedyInv, RankedInv, Founders
<1>17. \A p \in DOMAIN draft : Follows(p)'
  <2>. TAKE p \in DOMAIN draft
  <2>1. draft[p].cluster \in Mentions
    BY <1>1, <1>4
  <2>2. \A x : JoinedBy(p, x) => JoinedBy(p, x)'
    BY <1>1, <1>11, <2>1 DEF JoinedBy, KnownIn, ClustersOf
  <2>. QED  BY <1>1, <1>12, <2>2 DEF Follows
<1>18. UnitSaved'
  BY <1>1, <1>2, <1>7 DEF UnitSaved, KeptLinks, ClustersOf
<1>19. FollowInv'
  <2>1. LinksStored(store)' /\ MembershipOf(store)'
    BY <1>1 DEF GreedyInv, FollowInv, LinksStored, MembershipOf, Belongs, StrongestOf,
       ClustersOf, Stored
  <2>2. LinksStored(work)' /\ MembershipOf(work)'
    BY <1>13, <1>14 DEF LinksStored, MembershipOf, Belongs, StrongestOf, ClustersOf, Stored
  <2>3. store'.links \subseteq work'.links
    BY <1>1, <1>2
  <2>. QED  BY <1>1, <1>17, <1>18, <2>1, <2>2, <2>3 DEF FollowInv
<1>. QED  BY <1>16, <1>19 DEF GreedyInv

LEMMA CommitKeepsGreedy == GreedyInv /\ IInv /\ Commit => GreedyInv'
<1>. SUFFICES ASSUME GreedyInv, IInv, Commit PROVE GreedyInv'
  OBVIOUS
<1>1. /\ store' = work /\ phase = "saved" /\ phase' = "committed"
      /\ UNCHANGED <<work, bite, replies, pending, unit, draft>>
      /\ \A p : Mention(p)' = Mention(p)
  BY DEF Commit, Mention
<1>2. /\ \A m \in Mentions : (\A p \in unit : Mention(p) # m) =>
           ClustersOf(work, m) = ClustersOf(store, m)
      /\ \A p \in unit : /\ store.rows[Mention(p)] = 0 /\ replies[p] = NoReply /\ p \in pending
                         /\ ClustersOf(store, Mention(p)) = {}
  <2>1. UnitApplied(work) /\ \A p \in unit : store.rows[Mention(p)] = 0
    BY <1>1, CommitAddsUnit DEF IInv, WorkInv
  <2>2. \A p \in unit : replies[p] = NoReply /\ p \in pending /\ Mention(p) \in Mentions
    BY PendingMentions DEF IInv, UnitInv, Unanswered
  <2>. QED  BY <2>1, <2>2 DEF UnitApplied, IInv, TablesSound
<1>3. \A m \in Mentions : ClustersOf(store, m) \subseteq ClustersOf(work, m)
  <2>. TAKE m \in Mentions
  <2>1. CASE \E p \in unit : Mention(p) = m
    BY <1>2, <2>1
  <2>2. CASE \A p \in unit : Mention(p) # m
    BY <1>2, <2>2
  <2>. QED  BY <2>1, <2>2
<1>4. Founders(store) \subseteq Founders(work)
  BY <1>3 DEF Founders, ClustersOf
<1>5. RankedInv'
  <2>1. \A p \in DOMAIN bite : replies[p].kind = "resolved" =>
          Ranked(replies[p].ranking, Founders(work))
    BY <1>4 DEF GreedyInv, RankedInv, Ranked
  <2>. QED  BY <1>1, <2>1 DEF GreedyInv, RankedInv, Founders, NewFounders
<1>6. FollowInv'
  <2>1. LinksStored(store)' /\ MembershipOf(store)'
    BY <1>1 DEF GreedyInv, FollowInv, LinksStored, MembershipOf, Belongs, StrongestOf,
       ClustersOf, Stored
  <2>2. UnitSaved'
    BY <1>1 DEF GreedyInv, FollowInv, UnitSaved, KeptLinks, ClustersOf
  <2>3. \A p \in DOMAIN draft : Follows(p)'
    BY <1>1 DEF GreedyInv, FollowInv, Follows, JoinedBy, KnownIn, ClustersOf
  <2>. QED  BY <1>1, <2>1, <2>2, <2>3 DEF FollowInv
<1>. QED  BY <1>5, <1>6 DEF GreedyInv

LEMMA FailKeepsGreedy == GreedyInv /\ IInv /\ FailUnit => GreedyInv'
<1>. SUFFICES ASSUME GreedyInv, IInv, FailUnit PROVE GreedyInv'
  OBVIOUS
<1>1. UNCHANGED <<store, bite>> /\ phase' = "serving" /\ DOMAIN draft' = {}
  BY DEF FailUnit, UnitRaised, Empty
<1>2. \A p \in DOMAIN bite : replies'[p] = replies[p] \/ replies'[p].kind # "resolved"
  BY KindsDiffer DEF FailUnit, UnitRaised
<1>. QED  BY <1>1, <1>2, ServingKeepsGreedy

LEMMA FinishKeepsGreedy == GreedyInv /\ IInv /\ FinishUnit => GreedyInv'
<1>. SUFFICES ASSUME GreedyInv, IInv, FinishUnit PROVE GreedyInv'
  OBVIOUS
<1>1. /\ UNCHANGED <<store, bite>> /\ phase' = "serving" /\ DOMAIN draft' = {}
      /\ phase = "committed" /\ work = store /\ DOMAIN draft = unit
  BY DEF FinishUnit, Empty, IInv, WorkInv, TypeInv, DraftsDone
<1>2. \A p \in unit : Ranked(draft[p].ranking, Founders(store))
  BY <1>1 DEF GreedyInv, RankedInv, Ranked
<1>3. \A p \in DOMAIN bite : \/ replies'[p] = replies[p]
                             \/ p \in unit /\ replies'[p].ranking = draft[p].ranking
  BY DEF FinishUnit, Resolved
<1>. QED  BY <1>1, <1>2, <1>3, ServingKeepsGreedy

LEMMA RaisesKeepsGreedy == GreedyInv /\ IInv /\ RepeatRaises => GreedyInv'
<1>. SUFFICES ASSUME GreedyInv, IInv, RepeatRaises PROVE GreedyInv'
  OBVIOUS
<1>1. UNCHANGED <<store, bite>> /\ phase' = "serving" /\ DOMAIN draft' = {}
  BY NoDraftServing DEF RepeatRaises, Repeating
<1>2. \A p \in DOMAIN bite : replies'[p].kind # "resolved"
  BY KindsDiffer DEF RepeatRaises
<1>. QED  BY <1>1, <1>2, ServingKeepsGreedy

LEMMA TakeKeepsGreedy == GreedyInv /\ IInv /\ TakeBite => GreedyInv'
<1>. SUFFICES ASSUME GreedyInv, IInv, TakeBite PROVE GreedyInv'
  OBVIOUS
<1>1. /\ UNCHANGED <<store, work, pending, unit, draft>> /\ phase' = "serving"
      /\ pending = {} /\ DOMAIN draft = {}
      /\ \A p \in DOMAIN bite' : replies'[p] = NoReply
  BY DEF TakeBite, IInv, TypeInv, TypeOK, NothingWhenIdle, UnitInv
<1>2. RankedInv'
  BY <1>1, KindsDiffer DEF RankedInv
<1>3. FollowInv'
  BY <1>1 DEF GreedyInv, FollowInv, LinksStored, MembershipOf, Belongs, StrongestOf, ClustersOf,
     Stored
<1>. QED  BY <1>2, <1>3 DEF GreedyInv

LEMMA NextGreedy ==
  GreedyInv /\ IInv /\ IInv' /\ AnswerInv /\ [Next]_vars /\ threadFaults' = 0 => GreedyInv'
<1>. SUFFICES ASSUME GreedyInv, IInv, IInv', AnswerInv, [Next]_vars, threadFaults' = 0
              PROVE  GreedyInv'
  OBVIOUS
<1>0. LinksStored(store) /\ MembershipOf(store)
  BY DEF GreedyInv, FollowInv
<1>1. CASE UNCHANGED vars
  <2>1. RankedInv'
    BY <1>1 DEF vars, GreedyInv, RankedInv, Founders, NewFounders, Mention
  <2>2. UnitSaved' <=> UnitSaved
    BY <1>1 DEF vars, UnitSaved, KeptLinks, ClustersOf, Mention
  <2>3. \A p : Follows(p)' <=> Follows(p)
    BY <1>1 DEF vars, Follows, JoinedBy, KnownIn, ClustersOf, Mention
  <2>4. FollowInv'
    BY <1>1, <2>2, <2>3 DEF vars, GreedyInv, FollowInv, LinksStored, MembershipOf, Belongs,
       StrongestOf, ClustersOf, Stored
  <2>. QED  BY <2>1, <2>4 DEF GreedyInv
<1>2. CASE TakeBite
  BY <1>2, TakeKeepsGreedy
<1>3. CASE Guard
  BY <1>3, GuardKeepsGreedy
<1>4. CASE BeginUnit
  BY <1>4, BeginKeepsGreedy
<1>5. CASE AssignCluster
  BY <1>5, AssignKeepsGreedy
<1>6. CASE SaveUnit
  BY <1>6, SaveKeepsGreedy
<1>7. CASE Commit
  BY <1>7, CommitKeepsGreedy
<1>8. CASE FailUnit
  BY <1>8, FailKeepsGreedy
<1>9. CASE FinishUnit
  BY <1>9, FinishKeepsGreedy
<1>10. CASE ThreadFault
  <2>1. threadFaults \in Nat
    BY ServiceAssumption DEF IInv, TypeInv, TypeOK
  <2>. QED  BY <1>10, <2>1 DEF ThreadFault
<1>11. CASE RespondCached
  BY <1>11, RespondKeepsGreedy
<1>12. CASE RepeatRaises
  BY <1>12, RaisesKeepsGreedy
<1>13. CASE SendResponses
  BY <1>0, <1>13, IdleKeepsGreedy DEF SendResponses
<1>14. CASE CrashAndRestart
  <2>1. LinksStored(EmptyStore) /\ MembershipOf(EmptyStore)
    BY DEF EmptyStore, LinksStored, MembershipOf, ClustersOf
  <2>. QED  BY <1>0, <1>14, <2>1, IdleKeepsGreedy DEF CrashAndRestart
<1>. QED
  BY <1>1, <1>2, <1>3, <1>4, <1>5, <1>6, <1>7, <1>8, <1>9, <1>10, <1>11, <1>12,
     <1>13, <1>14 DEF Next, Work

GreedyUnlessFault == threadFaults = 0 => GreedyInv

LEMMA GreedyAlways == Spec => []GreedyUnlessFault
<1>1. Init => GreedyUnlessFault
  BY InitGreedy DEF GreedyUnlessFault
<1>2. /\ SafeInv /\ AnswerInv /\ GreedyUnlessFault /\ SafeInv' /\ [Next]_vars
      => GreedyUnlessFault'
  BY FaultsStay, NextGreedy DEF GreedyUnlessFault, SafeInv
<1>. QED  BY <1>1, <1>2, AnswersAlways, PTL DEF Spec

(***************************************************************************)
(* As long as the training thread can be started, every membership is what *)
(* the greedy rule decides from the stored links: one joins the cluster of *)
(* its strongest link if that reaches the threshold, and founds one only   *)
(* if no link does, whatever is cut from the links, and however the bites  *)
(* and units are cut.                                                      *)
(***************************************************************************)
THEOREM MembershipIsGreedy == Spec => []MembershipFollowsLinks
<1>1. GreedyUnlessFault => MembershipFollowsLinks
  BY DEF GreedyUnlessFault, GreedyInv, FollowInv, MembershipOf, Belongs, StrongestOf,
     MembershipFollowsLinks, Strongest
<1>. QED  BY <1>1, GreedyAlways, PTL

(***************************************************************************)
(* Under the same condition a resolution names at least one cluster, and   *)
(* only clusters that exist in the committed tables when it is sent.       *)
(***************************************************************************)
THEOREM CandidatesAreThere == Spec => []CandidatesExist
<1>1. GreedyUnlessFault => CandidatesExist
  BY DEF GreedyUnlessFault, GreedyInv, RankedInv, Ranked, Founders, CandidatesExist
<1>. QED  BY <1>1, GreedyAlways, PTL

-----------------------------------------------------------------------------
(***************************************************************************)
(* Why a bite is answered.  The guards leave fewer and fewer positions, the*)
(* fallback begins once, each unit in it answers its mention, and a unit   *)
(* goes from its scores to its commit without coming back.  What is left   *)
(* to do is six numbers; a step may raise a later one only when it lowers  *)
(* an earlier one.                                                         *)
(***************************************************************************)
Undecided == unit \ DOMAIN draft
PhasesLeft ==
  CASE phase = "serving" -> 3 [] phase = "scoring" -> 2 [] phase = "saved" -> 1 [] OTHER -> 0

ToGo == [i \in 1..6 |-> CASE i = 1 -> Cardinality(Unguarded)
                          [] i = 2 -> IF fallback THEN 0 ELSE 1
                          [] i = 3 -> Cardinality(Unanswered(pending))
                          [] i = 4 -> PhasesLeft
                          [] i = 5 -> Cardinality(Undecided)
                          [] i = 6 -> Cardinality(Unanswered(repeats))]

\* The lexicographic order of such lists of numbers, smallest first.
Less == {pair \in Nat \X Nat : pair[1] < pair[2]}
FewerToGo == LexProductOrdering(Less, Nat, 6)
Closer == phase' = "idle" \/ <<ToGo', ToGo>> \in FewerToGo

Shrinks(before, after) == after \subseteq before /\ after # before

GoesOn == <<phase, phase'>> \in {<<"serving", "scoring">>, <<"scoring", "saved">>,
                                <<"saved", "committed">>}

StepsForward ==
  \/ Shrinks(Unguarded, Unguarded')
  \/ /\ Unguarded' = Unguarded
     /\ \/ ~fallback /\ fallback'
        \/ /\ fallback' = fallback
           /\ \/ Shrinks(Unanswered(pending), Unanswered(pending)')
              \/ /\ Unanswered(pending)' = Unanswered(pending)
                 /\ \/ GoesOn
                    \/ /\ phase' = phase
                       /\ \/ Shrinks(Undecided, Undecided')
                          \/ /\ Undecided' = Undecided
                             /\ Shrinks(Unanswered(repeats), Unanswered(repeats)')

\* The order has no infinite descent.
LEMMA OrderIsWellFounded == IsWellFoundedOn(FewerToGo, [1..6 -> Nat])
<1>1. IsWellFoundedOn(Less, Nat)
  BY NatLessThanWellFounded DEF OpToRel, Less
<1>. QED  BY <1>1, WFLexProductOrdering DEF FewerToGo

\* The first number that differs decides.
LEMMA FirstDecides ==
  ASSUME NEW before \in [1..6 -> Nat], NEW after \in [1..6 -> Nat], NEW j \in 1..6,
         after[j] < before[j], \A i \in 1..(j - 1) : after[i] = before[i]
  PROVE  <<after, before>> \in FewerToGo
<1>1. <<after[j], before[j]>> \in Less
  BY DEF Less
<1>. HIDE DEF Less
<1>. QED  BY <1>1 DEF FewerToGo, LexProductOrdering

\* A set of positions that shrinks has fewer of them.
LEMMA FewerPositions ==
  ASSUME TypeInv, NEW before \in SUBSET DOMAIN bite
  PROVE  /\ Cardinality(before) \in Nat
         /\ \A after : Shrinks(before, after) => Cardinality(after) < Cardinality(before)
<1>1. IsFiniteSet(before)
  BY PositionsFinite, FS_Subset DEF TypeInv, TypeOK
<1>2. ASSUME NEW after, Shrinks(before, after)
      PROVE  Cardinality(after) < Cardinality(before)
  <2>1. after \in SUBSET before /\ after # before
    BY <1>2 DEF Shrinks
  <2>2. Cardinality(after) <= Cardinality(before) /\ Cardinality(after) # Cardinality(before)
        /\ IsFiniteSet(after)
    BY <1>1, <2>1, FS_Subset
  <2>. QED  BY <1>1, <2>2, FS_CardinalityType
<1>. QED  BY <1>1, <1>2, FS_CardinalityType

LEMMA ForwardIsCloser ==
  ASSUME TypeInv, TypeInv', bite' = bite, StepsForward
  PROVE  Closer
<1>1. /\ Unguarded \in SUBSET DOMAIN bite /\ Unguarded' \in SUBSET DOMAIN bite
      /\ Unanswered(pending) \in SUBSET DOMAIN bite /\ Unanswered(pending)' \in SUBSET DOMAIN bite
      /\ Undecided \in SUBSET DOMAIN bite /\ Undecided' \in SUBSET DOMAIN bite
      /\ Unanswered(repeats) \in SUBSET DOMAIN bite /\ Unanswered(repeats)' \in SUBSET DOMAIN bite
  BY DEF Unguarded, Unanswered, Undecided, TypeInv, TypeOK
<1>2. /\ Cardinality(Unguarded) \in Nat /\ Cardinality(Unguarded') \in Nat
      /\ Cardinality(Unanswered(pending)) \in Nat /\ Cardinality(Unanswered(pending)') \in Nat
      /\ Cardinality(Undecided) \in Nat /\ Cardinality(Undecided') \in Nat
      /\ Cardinality(Unanswered(repeats)) \in Nat /\ Cardinality(Unanswered(repeats)') \in Nat
  BY <1>1, FewerPositions
<1>3. /\ ToGo[1] = Cardinality(Unguarded) /\ ToGo'[1] = Cardinality(Unguarded')
      /\ ToGo[2] = (IF fallback THEN 0 ELSE 1) /\ ToGo'[2] = (IF fallback' THEN 0 ELSE 1)
      /\ ToGo[3] = Cardinality(Unanswered(pending))
      /\ ToGo'[3] = Cardinality(Unanswered(pending)')
      /\ ToGo[4] = PhasesLeft /\ ToGo'[4] = PhasesLeft'
      /\ ToGo[5] = Cardinality(Undecided) /\ ToGo'[5] = Cardinality(Undecided')
      /\ ToGo[6] = Cardinality(Unanswered(repeats))
      /\ ToGo'[6] = Cardinality(Unanswered(repeats)')
  BY DEF ToGo
<1>4. PhasesLeft \in Nat /\ PhasesLeft' \in Nat
  BY DEF PhasesLeft
<1>5. ToGo \in [1..6 -> Nat] /\ ToGo' \in [1..6 -> Nat]
  BY <1>2, <1>4 DEF ToGo
<1>6. SUFFICES \E j \in 1..6 : ToGo'[j] < ToGo[j] /\ \A i \in 1..(j - 1) : ToGo'[i] = ToGo[i]
  BY <1>5, FirstDecides DEF Closer
<1>7. CASE Shrinks(Unguarded, Unguarded')
  <2>1. ToGo'[1] < ToGo[1]
    BY <1>1, <1>3, <1>7, FewerPositions
  <2>. QED  BY <2>1
<1>8. CASE Unguarded' = Unguarded /\ ~fallback /\ fallback'
  <2>1. ToGo'[1] = ToGo[1] /\ ToGo'[2] < ToGo[2]
    BY <1>3, <1>8
  <2>2. \A i \in 1..(2 - 1) : i = 1
    OBVIOUS
  <2>. QED  BY <2>1, <2>2
<1>9. CASE /\ Unguarded' = Unguarded /\ fallback' = fallback
           /\ Shrinks(Unanswered(pending), Unanswered(pending)')
  <2>1. ToGo'[1] = ToGo[1] /\ ToGo'[2] = ToGo[2] /\ ToGo'[3] < ToGo[3]
    BY <1>1, <1>3, <1>9, FewerPositions
  <2>2. \A i \in 1..(3 - 1) : i \in {1, 2}
    OBVIOUS
  <2>. QED  BY <2>1, <2>2
<1>10. CASE /\ Unguarded' = Unguarded /\ fallback' = fallback
            /\ Unanswered(pending)' = Unanswered(pending) /\ GoesOn
  <2>1. PhasesLeft' < PhasesLeft
    BY <1>10 DEF GoesOn, PhasesLeft
  <2>2. ToGo'[1] = ToGo[1] /\ ToGo'[2] = ToGo[2] /\ ToGo'[3] = ToGo[3] /\ ToGo'[4] < ToGo[4]
    BY <1>3, <1>10, <2>1
  <2>3. \A i \in 1..(4 - 1) : i \in {1, 2, 3}
    OBVIOUS
  <2>. QED  BY <2>2, <2>3
<1>11. CASE /\ Unguarded' = Unguarded /\ fallback' = fallback
            /\ Unanswered(pending)' = Unanswered(pending) /\ phase' = phase
            /\ Shrinks(Undecided, Undecided')
  <2>1. PhasesLeft' = PhasesLeft
    BY <1>11 DEF PhasesLeft
  <2>2. /\ ToGo'[1] = ToGo[1] /\ ToGo'[2] = ToGo[2] /\ ToGo'[3] = ToGo[3]
        /\ ToGo'[4] = ToGo[4] /\ ToGo'[5] < ToGo[5]
    BY <1>1, <1>3, <1>11, <2>1, FewerPositions
  <2>3. \A i \in 1..(5 - 1) : i \in {1, 2, 3, 4}
    OBVIOUS
  <2>. QED  BY <2>2, <2>3
<1>12. CASE /\ Unguarded' = Unguarded /\ fallback' = fallback
            /\ Unanswered(pending)' = Unanswered(pending) /\ phase' = phase
            /\ Undecided' = Undecided
            /\ Shrinks(Unanswered(repeats), Unanswered(repeats)')
  <2>1. PhasesLeft' = PhasesLeft
    BY <1>12 DEF PhasesLeft
  <2>2. /\ ToGo'[1] = ToGo[1] /\ ToGo'[2] = ToGo[2] /\ ToGo'[3] = ToGo[3]
        /\ ToGo'[4] = ToGo[4] /\ ToGo'[5] = ToGo[5] /\ ToGo'[6] < ToGo[6]
    BY <1>1, <1>3, <1>12, <2>1, FewerPositions
  <2>3. \A i \in 1..(6 - 1) : i \in {1, 2, 3, 4, 5}
    OBVIOUS
  <2>. QED  BY <2>2, <2>3
<1>. QED  BY <1>7, <1>8, <1>9, <1>10, <1>11, <1>12 DEF StepsForward

\* In the fallback a unit is one mention, and no unit is empty.
UnitSizes ==
  /\ phase \notin {"idle", "serving"} => unit # {}
  /\ phase \in {"idle", "serving"} => unit = {}
  /\ fallback /\ unit # {} => Cardinality(unit) = 1

LEMMA InitSizes == Init => UnitSizes
BY DEF Init, UnitSizes

LEMMA NextSizes == UnitSizes /\ [Next]_vars => UnitSizes'
<1>. SUFFICES ASSUME UnitSizes, [Next]_vars PROVE UnitSizes'
  OBVIOUS
<1>1. CASE BeginUnit
  <2>1. PICK positions :
          /\ positions # {} /\ unit' = positions
          /\ fallback => \E p \in pending : positions = {p}
    BY <1>1 DEF BeginUnit
  <2>2. \A p : Cardinality({p}) = 1
    BY FS_Singleton
  <2>3. phase' = "scoring" /\ fallback' = fallback
    BY <1>1 DEF BeginUnit
  <2>. QED  BY <2>1, <2>2, <2>3 DEF UnitSizes
<1>2. CASE UNCHANGED vars \/ TakeBite \/ Guard \/ AssignCluster \/ SaveUnit \/ Commit
           \/ RespondCached \/ RepeatRaises
  BY <1>2 DEF vars, TakeBite, Guard, AssignCluster, SaveUnit, Commit, RespondCached,
     RepeatRaises, Repeating, UnitSizes
<1>3. CASE FailUnit \/ ThreadFault \/ FinishUnit
  <2>1. phase' = "serving" /\ unit' = {}
    BY <1>3 DEF FailUnit, ThreadFault, UnitRaised, FinishUnit
  <2>. QED  BY <2>1 DEF UnitSizes
<1>4. CASE SendResponses \/ CrashAndRestart
  BY <1>4 DEF SendResponses, CrashAndRestart, Idle, UnitSizes
<1>. QED  BY <1>1, <1>2, <1>3, <1>4 DEF Next, Work

\* Steps that leave the unit.
LEMMA LeavingStepsForward ==
  ASSUME TypeInv, HandsInv, UnitSizes, phase \in {"scoring", "saved", "committed"},
         UnitRaised \/ FinishUnit
  PROVE  StepsForward
<1>1. /\ UNCHANGED <<bite, pending, repeats>> /\ unit # {}
      /\ unit \subseteq Unanswered(pending) /\ pending \subseteq DOMAIN bite
      /\ replies \in [DOMAIN bite -> Replies] /\ fallback \in BOOLEAN
  BY DEF UnitRaised, FinishUnit, UnitSizes, HandsInv, TypeInv, TypeOK
<1>2. CASE UnitRaised /\ Cardinality(unit) # 1
  <2>1. fallback' = TRUE /\ replies' = replies /\ ~fallback
    BY <1>1, <1>2 DEF UnitRaised, UnitSizes
  <2>2. Unguarded' = Unguarded
    BY <1>1, <2>1 DEF Unguarded, Unanswered
  <2>. QED  BY <2>1, <2>2 DEF StepsForward
<1>3. ASSUME NEW answers, \A p \in unit : answers[p] # NoReply,
             replies' = [p \in DOMAIN bite |-> IF p \in unit THEN answers[p] ELSE replies[p]],
             fallback' = fallback
      PROVE  StepsForward
  <2>1. /\ \A p \in unit : replies'[p] # NoReply
        /\ \A p \in DOMAIN bite \ unit : replies'[p] = replies[p]
    BY <1>1, <1>3 DEF Unanswered
  <2>2. Unguarded' = Unguarded
    BY <1>1, <2>1 DEF Unguarded, Unanswered
  <2>3. Unanswered(pending)' = Unanswered(pending) \ unit
    BY <1>1, <2>1 DEF Unanswered
  <2>4. Shrinks(Unanswered(pending), Unanswered(pending)')
    BY <1>1, <2>3 DEF Shrinks
  <2>. QED  BY <1>3, <2>2, <2>4 DEF StepsForward
<1>4. CASE UnitRaised /\ Cardinality(unit) = 1
  <2>. DEFINE answers == [p \in unit |-> Error("internal")]
  <2>1. \A p \in unit : answers[p] # NoReply
    BY KindsDiffer
  <2>2. /\ replies' = [p \in DOMAIN bite |-> IF p \in unit THEN answers[p] ELSE replies[p]]
        /\ fallback' = fallback
    BY <1>4 DEF UnitRaised
  <2>. QED  BY <1>3, <2>1, <2>2
<1>5. CASE FinishUnit
  <2>. DEFINE answers == [p \in unit |-> Resolved(draft[p].ranking)]
  <2>1. \A p \in unit : answers[p] # NoReply
    BY KindsDiffer
  <2>2. /\ replies' = [p \in DOMAIN bite |-> IF p \in unit THEN answers[p] ELSE replies[p]]
        /\ fallback' = fallback
    BY <1>5 DEF FinishUnit
  <2>. QED  BY <1>3, <2>1, <2>2
<1>. QED  BY <1>2, <1>4, <1>5

LEMMA WorkStepsForward ==
  ASSUME TypeInv, AnswerInv, UnitSizes, Work, ~SendResponses
  PROVE  StepsForward
<1>1. CASE Guard
  <2>1. PICK p \in Unguarded :
          \/ GuardMalformed(p) /\ UNCHANGED <<pending, repeats>>
          \/ GuardConflict(p) /\ UNCHANGED <<pending, repeats>>
          \/ GuardCached(p) /\ UNCHANGED <<pending, repeats>>
          \/ GuardRaises(p) /\ UNCHANGED <<pending, repeats>>
          \/ GuardNew(p) /\ UNCHANGED replies
    BY <1>1 DEF Guard
  <2>2. /\ bite' = bite /\ p \in DOMAIN bite /\ replies \in [DOMAIN bite -> Replies]
    BY <1>1 DEF Guard, Unguarded, Unanswered, TypeInv, TypeOK
  <2>3. CASE GuardNew(p) /\ UNCHANGED replies
    <3>1. (pending \cup repeats)' = pending \cup repeats \cup {p}
      BY <2>3 DEF GuardNew
    <3>2. Unguarded' = Unguarded \ {p}
      BY <2>2, <2>3, <3>1 DEF Unguarded, Unanswered
    <3>. QED  BY <3>2 DEF StepsForward, Shrinks
  <2>4. ASSUME NEW reply, reply # NoReply, Reply(p, reply), UNCHANGED <<pending, repeats>>
        PROVE  StepsForward
    <3>1. Unguarded' = Unguarded \ {p}
      BY <2>2, <2>4 DEF Unguarded, Unanswered, Reply
    <3>. QED  BY <3>1 DEF StepsForward, Shrinks
  <2>5. \/ GuardNew(p) /\ UNCHANGED replies
        \/ \E reply : reply # NoReply /\ Reply(p, reply) /\ UNCHANGED <<pending, repeats>>
    BY <2>1, KindsDiffer DEF GuardMalformed, GuardConflict, GuardCached, GuardRaises
  <2>. QED  BY <2>3, <2>4, <2>5
<1>2. CASE BeginUnit \/ SaveUnit \/ Commit
  <2>1. UNCHANGED <<bite, replies, pending, repeats, fallback>> /\ GoesOn
    BY <1>2 DEF BeginUnit, SaveUnit, Commit, GoesOn
  <2>2. Unguarded' = Unguarded /\ Unanswered(pending)' = Unanswered(pending)
    BY <2>1 DEF Unguarded, Unanswered
  <2>. QED  BY <2>1, <2>2 DEF StepsForward
<1>3. CASE AssignCluster
  <2>1. /\ UNCHANGED <<bite, replies, pending, repeats, fallback, unit, phase>>
        /\ \E p \in unit \ DOMAIN draft : DOMAIN draft' = DOMAIN draft \cup {p}
    BY <1>3 DEF AssignCluster, Put
  <2>2. Unguarded' = Unguarded /\ Unanswered(pending)' = Unanswered(pending)
    BY <2>1 DEF Unguarded, Unanswered
  <2>3. Shrinks(Undecided, Undecided')
    BY <2>1 DEF Shrinks, Undecided
  <2>. QED  BY <2>1, <2>2, <2>3 DEF StepsForward
<1>4. CASE FailUnit \/ FinishUnit \/ ThreadFault
  BY <1>4, LeavingStepsForward DEF AnswerInv, FailUnit, FinishUnit, ThreadFault
<1>5. CASE RespondCached
  <2>1. /\ UNCHANGED <<bite, pending, repeats, fallback, phase, unit, draft>>
        /\ Unguarded = {} /\ Unanswered(pending) = {}
        /\ repeats \subseteq DOMAIN bite /\ replies \in [DOMAIN bite -> Replies]
    BY <1>5 DEF RespondCached, Repeating, TypeInv, TypeOK
  <2>2. PICK p \in Unanswered(repeats) : \E reply : reply # NoReply /\ Reply(p, reply)
    BY <1>5, KindsDiffer DEF RespondCached, IsFirst
  <2>3. p \in DOMAIN bite /\ p \in repeats /\ replies[p] = NoReply
    BY <2>1, <2>2 DEF Unanswered
  <2>4. replies'[p] # NoReply /\ \A q \in DOMAIN bite \ {p} : replies'[q] = replies[q]
    BY <2>1, <2>2, <2>3 DEF Reply
  <2>5. Unguarded' = {} /\ Unanswered(pending)' = {}
    <3>1. pending \subseteq DOMAIN bite
      BY DEF TypeInv, TypeOK
    <3>. QED  BY <2>1, <2>3, <2>4, <3>1 DEF Unguarded, Unanswered
  <2>6. Unanswered(repeats)' = Unanswered(repeats) \ {p}
    BY <2>1, <2>4 DEF Unanswered
  <2>7. Shrinks(Unanswered(repeats), Unanswered(repeats)')
    BY <2>2, <2>6 DEF Shrinks
  <2>8. Undecided' = Undecided
    BY <2>1 DEF Undecided
  <2>. QED  BY <2>1, <2>5, <2>7, <2>8 DEF StepsForward
<1>6. CASE RepeatRaises
  <2>1. /\ UNCHANGED <<bite, pending, repeats, fallback, phase, unit, draft>>
        /\ Unguarded = {} /\ Unanswered(pending) = {} /\ Unanswered(repeats) # {}
        /\ repeats \subseteq DOMAIN bite /\ pending \subseteq DOMAIN bite
        /\ \A p \in DOMAIN bite : replies'[p] # NoReply
    BY <1>6, KindsDiffer DEF RepeatRaises, Repeating, TypeInv, TypeOK
  <2>2. Unguarded' = {} /\ Unanswered(pending)' = {} /\ Unanswered(repeats)' = {}
    BY <2>1 DEF Unguarded, Unanswered
  <2>3. Shrinks(Unanswered(repeats), Unanswered(repeats)')
    BY <2>1, <2>2 DEF Shrinks
  <2>4. Undecided' = Undecided
    BY <2>1 DEF Undecided
  <2>. QED  BY <2>1, <2>2, <2>3, <2>4 DEF StepsForward
<1>. QED  BY <1>1, <1>2, <1>3, <1>4, <1>5, <1>6 DEF Work

\* The last step sends the replies.
LEMMA WorkIsCloser ==
  ASSUME TypeInv, TypeInv', AnswerInv, UnitSizes, Work
  PROVE  Closer
<1>1. CASE SendResponses
  BY <1>1 DEF SendResponses, Idle, Closer
<1>2. CASE ~SendResponses
  <2>1. bite' = bite
    BY <1>2 DEF Work, Guard, BeginUnit, AssignCluster, SaveUnit, Commit, FailUnit, FinishUnit,
       ThreadFault, UnitRaised, RespondCached, RepeatRaises
  <2>. QED  BY <1>2, <2>1, WorkStepsForward, ForwardIsCloser
<1>. QED  BY <1>1, <1>2

(***************************************************************************)
(* Every step of the worker in a bite, failures included, either ends the  *)
(* bite or leaves less to do, in an order without infinite descent: the    *)
(* one-by-one fallback begins at most once, and no mention is tried for    *)
(* ever.                                                                   *)
(***************************************************************************)
THEOREM BitesComeToAnEnd ==
  /\ IsWellFoundedOn(FewerToGo, [1..6 -> Nat])
  /\ Spec => [][Work => phase' = "idle" \/ <<ToGo', ToGo>> \in FewerToGo]_vars
<1>1. Spec => []UnitSizes
  BY InitSizes, NextSizes, PTL DEF Spec
<1>2. /\ SafeInv /\ AnswerInv /\ UnitSizes /\ SafeInv'
      => [Work => phase' = "idle" \/ <<ToGo', ToGo>> \in FewerToGo]_vars
  BY WorkIsCloser DEF SafeInv, Closer
<1>3. Spec => [][Work => phase' = "idle" \/ <<ToGo', ToGo>> \in FewerToGo]_vars
  BY <1>1, <1>2, AnswersAlways, PTL DEF Spec
<1>. QED  BY <1>3, OrderIsWellFounded
=============================================================================
