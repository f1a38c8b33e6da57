---------------------------- MODULE ServiceProofs ----------------------------
(***************************************************************************)
(* Proofs about Service, for any mentions, contents, bounds and scores.    *)
(***************************************************************************)
EXTENDS Service, FiniteSetTheorems, WellFoundedInduction, TLAPS

(***************************************************************************)
(* Only mentions wait for a unit of work, a unit is saved when all of it is*)
(* decided, and an idle worker has no bite: what TypeOK needs to be        *)
(* inductive.                                                              *)
(***************************************************************************)
EntitiesOnly == \A p \in pending \cup repeats : bite[p].form = "entity"
DraftsDone == phase \in {"saved", "committed"} => DOMAIN draft = unit
NothingWhenIdle ==
  phase = "idle" => pending = {} /\ repeats = {} /\ fallback = FALSE

TypeInv == TypeOK /\ EntitiesOnly /\ DraftsDone /\ NothingWhenIdle

\* A request that is an entity has a mention and a content.
LEMMA EntityFields ==
  ASSUME NEW r \in Requests, r.form = "entity"
  PROVE  r.mention \in Mentions /\ r.content \in Contents
BY DEF Requests

\* The positions of a bite are finitely many.
LEMMA PositionsFinite ==
  ASSUME bite = Empty \/ bite \in Bites
  PROVE  IsFiniteSet(DOMAIN bite)
<1>1. CASE bite = Empty
  BY <1>1, FS_EmptySet DEF Empty
<1>2. CASE bite \in Bites
  <2>1. PICK n \in 1..MaxBite : bite \in [1..n -> Requests]
    BY <1>2 DEF Bites
  <2>2. n \in Int
    BY <2>1, ServiceAssumption
  <2>. QED  BY <2>1, <2>2, FS_Interval
<1>. QED  BY <1>1, <1>2

\* What is answered to a bite's position is the request at that position.
LEMMA PositionTypes ==
  ASSUME bite = Empty \/ bite \in Bites, NEW p \in DOMAIN bite
  PROVE  bite[p] \in Requests
BY DEF Empty, Bites

\* An error is a reply, and so is any ranking.
LEMMA ReplyTypes ==
  /\ \A kind \in Kinds : Error(kind) \in Replies
  /\ \A ranking \in Rankings : Resolved(ranking) \in Replies
<1>1. Empty \in [{} -> 0..MaxScore]
  BY DEF Empty
<1>2. Empty \in Rankings
  BY <1>1 DEF Rankings
<1>. QED  BY <1>2 DEF Replies, Kinds, Error, Resolved

\* Cutting a function to its highest values keeps its values.
LEMMA TopOfType ==
  ASSUME NEW V, NEW S \in SUBSET Mentions, NEW f \in [S -> V], NEW place,
         NEW g \in TopOf(f, place)
  PROVE  g \in UNION {[T -> V] : T \in SUBSET Mentions}
<1>1. PICK T \in SUBSET DOMAIN f : g = Restrict(f, T)
  BY DEF TopOf
<1>2. g \in [T -> V]
  BY <1>1 DEF Restrict
<1>. QED  BY <1>1, <1>2

\* A set of naturals that is not empty has a least element, and a greatest
\* one if it is bounded.
LEMMA LeastNatural ==
  ASSUME NEW S \in SUBSET Nat, S # {}
  PROVE  \E least \in S : \A n \in S : least <= n
<1>. DEFINE R == OpToRel(<, Nat)
<1>1. IsWellFoundedOn(R, Nat)
  BY NatLessThanWellFounded, Zenon
<1>2. PICK least \in S : \A n \in S : <<n, least>> \notin R
  <2>. HIDE DEF R
  <2>. QED  BY <1>1, WFMin
<1>3. \A n \in S : ~(n < least)
  BY <1>2 DEF OpToRel
<1>. QED  BY <1>3

LEMMA GreatestNatural ==
  ASSUME NEW bound \in Nat, NEW S \in SUBSET (0..bound), S # {}
  PROVE  \E greatest \in S : \A n \in S : n <= greatest
<1>. DEFINE Gaps == {bound - n : n \in S}
<1>1. Gaps \in SUBSET Nat /\ Gaps # {}
  <2>1. \A n \in S : bound - n \in Nat
    OBVIOUS
  <2>2. PICK n \in S : TRUE
    OBVIOUS
  <2>3. bound - n \in Gaps
    BY <2>2
  <2>. QED  BY <2>1, <2>3
<1>2. PICK least \in Gaps : \A gap \in Gaps : least <= gap
  <2>. HIDE DEF Gaps
  <2>. QED  BY <1>1, LeastNatural
<1>3. PICK greatest \in S : least = bound - greatest
  BY <1>2
<1>4. ASSUME NEW n \in S PROVE n <= greatest
  BY <1>2, <1>3
<1>. QED  BY <1>4

\* Candidate clusters have scores up to MaxScore.
LEMMA ClusterScoresType ==
  ASSUME NEW own \in Mentions, NEW links \in Links, NEW home,
         DOMAIN home \subseteq Mentions, home \in [DOMAIN home -> Mentions]
  PROVE  /\ DOMAIN ClusterScores(own, links, home) \in SUBSET Mentions
         /\ ClusterScores(own, links, home)
              \in [DOMAIN ClusterScores(own, links, home) -> 0..MaxScore]
<1>1. links \in [DOMAIN links -> Scores]
  BY DEF Links
<1>2. LinkedClusters(links, home) \in SUBSET Mentions
  BY DEF LinkedClusters
<1>3. ASSUME NEW c
      PROVE  LET scores == {links[x] : x \in LinksInto(c, links, home)} \cup {0}
             IN  (CHOOSE s \in scores : \A t \in scores : t <= s) \in 0..MaxScore
  <2>. DEFINE scores == {links[x] : x \in LinksInto(c, links, home)} \cup {0}
  <2>1. scores \in SUBSET (0..MaxScore) /\ scores # {}
    BY <1>1, ScoreAssumption DEF LinksInto, Scores
  <2>2. \E s \in scores : \A t \in scores : t <= s
    <3>. HIDE DEF scores
    <3>. QED  BY <2>1, GreatestNatural, ScoreAssumption
  <2>. HIDE DEF scores
  <2>3. (CHOOSE s \in scores : \A t \in scores : t <= s) \in scores
    BY <2>2
  <2>4. (CHOOSE s \in scores : \A t \in scores : t <= s) \in 0..MaxScore
    BY <2>1, <2>3
  <2>. QED  BY <2>4 DEF scores
<1>. QED  BY <1>2, <1>3, ZenonT(60) DEF ClusterScores

LEMMA RankCandidatesType ==
  ASSUME NEW own \in Mentions, NEW links \in Links, NEW place, NEW home,
         DOMAIN home \subseteq Mentions, home \in [DOMAIN home -> Mentions],
         NEW ranking \in RankCandidates(own, links, place, home)
  PROVE  ranking \in Rankings
<1>. DEFINE scores == ClusterScores(own, links, home)
<1>1. DOMAIN scores \in SUBSET Mentions /\ scores \in [DOMAIN scores -> 0..MaxScore]
  BY ClusterScoresType
<1>2. ranking \in TopOf(scores, ClusterPlaces(own, links, place, home))
  BY DEF RankCandidates
<1>. HIDE DEF scores
<1>. QED  BY <1>1, <1>2, TopOfType DEF Rankings

LEMMA BestLinksType ==
  ASSUME NEW links \in Links, NEW place, NEW kept \in BestLinks(links, place)
  PROVE  kept \in Links
<1>1. DOMAIN links \in SUBSET Mentions /\ links \in [DOMAIN links -> Scores]
  BY DEF Links
<1>. QED  BY <1>1, TopOfType DEF BestLinks, Links

LEMMA AssignmentsType ==
  ASSUME NEW m \in Mentions, NEW links, NEW place, NEW home,
         home \in [DOMAIN home -> Mentions],
         NEW cluster \in Assignments(m, links, place, home)
  PROVE  cluster \in Mentions
BY DEF Assignments

LEMMA HomesType ==
  ASSUME NEW s, NEW others, NEW home \in Homes(s, others)
  PROVE  /\ DOMAIN home = others \cap Clustered(s)
         /\ DOMAIN home \subseteq Mentions
         /\ home \in [DOMAIN home -> Mentions]
BY DEF Homes, Clustered

LEMMA KnownHomesType ==
  ASSUME draft \in [DOMAIN draft -> Drafts],
         NEW others \in SUBSET Mentions, NEW home \in KnownHomes(others)
  PROVE  DOMAIN home \subseteq Mentions /\ home \in [DOMAIN home -> Mentions]
<1>. DEFINE decided == {x \in others : \E q \in DOMAIN draft : Mention(q) = x}
            Decided(x) == draft[CHOOSE q \in DOMAIN draft : Mention(q) = x].cluster
<1>1. PICK old \in Homes(work, others \ decided) :
        home = [x \in DOMAIN old \cup decided |->
                  IF x \in decided THEN Decided(x) ELSE old[x]]
  BY DEF KnownHomes
<1>2. DOMAIN old \subseteq Mentions /\ old \in [DOMAIN old -> Mentions]
  BY HomesType
<1>3. \A x \in decided : Decided(x) \in Mentions
  BY DEF Drafts
<1>. QED  BY <1>1, <1>2, <1>3

\* The stored links of a mention, as one function.
LEMMA StoredLinksType ==
  ASSUME NEW s \in Stores, NEW m
  PROVE  StoredLinks(s, m) \in Links
<1>1. \A x : LinkScores(s, m, x) \subseteq Scores
  BY DEF LinkScores, Stores, LinkRows
<1>2. ASSUME NEW x, LinkScores(s, m, x) # {}
      PROVE  (CHOOSE v \in LinkScores(s, m, x) : \A w \in LinkScores(s, m, x) : w <= v)
               \in Scores
  <2>1. LinkScores(s, m, x) \in SUBSET (0..MaxScore)
    BY <1>1, ScoreAssumption DEF Scores
  <2>2. \E v \in LinkScores(s, m, x) : \A w \in LinkScores(s, m, x) : w <= v
    BY <1>2, <2>1, GreatestNatural, ScoreAssumption
  <2>3. (CHOOSE v \in LinkScores(s, m, x) : \A w \in LinkScores(s, m, x) : w <= v)
          \in LinkScores(s, m, x)
    BY <2>2
  <2>. QED  BY <2>3, <1>1
<1>. DEFINE others == {x \in Mentions : LinkScores(s, m, x) # {}}
<1>3. StoredLinks(s, m) \in [others -> Scores]
  BY <1>2 DEF StoredLinks
<1>4. others \in SUBSET Mentions
  OBVIOUS
<1>. HIDE DEF others
<1>. QED  BY <1>3, <1>4 DEF Links

\* The answers to a resolved mention are rankings.
LEMMA RequeriesType ==
  ASSUME NEW s \in Stores, NEW m, NEW ranking \in Requeries(s, m)
  PROVE  ranking \in Rankings
<1>. DEFINE links == StoredLinks(s, m)
<1>1. PICK own \in ClustersOf(s, m), place \in Places(DOMAIN links),
           home \in Homes(s, DOMAIN links) :
        ranking \in RankCandidates(own, links, place, home)
  BY DEF Requeries
<1>2. own \in Mentions /\ links \in Links
  BY <1>1, StoredLinksType DEF ClustersOf
<1>. HIDE DEF links
<1>. QED  BY <1>1, <1>2, HomesType, RankCandidatesType

\* The rows of a unit's mentions keep the tables well typed.
LEMMA WithMentionsType ==
  ASSUME TypeOK, EntitiesOnly, NEW s \in Stores, NEW positions \in SUBSET pending
  PROVE  WithMentions(s, positions) \in Stores
<1>1. IsFiniteSet(DOMAIN bite)
  BY PositionsFinite DEF TypeOK
<1>2. \A m \in Mentions : s.rows[m] + Cardinality({p \in positions : Mention(p) = m}) \in Nat
  <2>. TAKE m \in Mentions
  <2>1. {p \in positions : Mention(p) = m} \subseteq DOMAIN bite
    BY DEF TypeOK
  <2>2. Cardinality({p \in positions : Mention(p) = m}) \in Nat
    BY <1>1, <2>1, FS_Subset, FS_CardinalityType
  <2>3. s.rows[m] \in Nat
    BY DEF Stores
  <2>. QED  BY <2>2, <2>3
<1>3. \A p \in positions : bite[p].content \in Contents
  BY PositionTypes, EntityFields DEF TypeOK, EntitiesOnly
<1>4. \A m \in Mentions :
        (IF \E p \in positions : Mention(p) = m
         THEN bite[CHOOSE p \in positions : Mention(p) = m].content
         ELSE s.text[m]) \in Contents \cup {None}
  BY <1>3 DEF Stores
<1>. QED  BY <1>2, <1>4 DEF WithMentions, Stores

\* Leaving a bite leaves nothing of it.
LEMMA IdleType ==
  ASSUME Idle, store' \in Stores, work' \in Stores, threadFaults' \in 0..MaxThreadFaults
  PROVE  TypeInv'
<1>1. DOMAIN Empty = {}
  BY DEF Empty
<1>. QED  BY <1>1 DEF Idle, TypeInv, TypeOK, EntitiesOnly, DraftsDone, NothingWhenIdle, Phases, Empty

LEMMA InitType == Init => TypeInv
<1>1. DOMAIN Empty = {}
  BY DEF Empty
<1>2. EmptyStore \in Stores
  BY DEF EmptyStore, Stores
<1>3. 0 \in 0..MaxThreadFaults
  BY ServiceAssumption
<1>4. Empty \in [{} -> Replies] /\ Empty \in [{} -> Drafts]
  BY DEF Empty
<1>. QED  BY <1>1, <1>2, <1>3, <1>4
          DEF Init, TypeInv, TypeOK, EntitiesOnly, DraftsDone, NothingWhenIdle, Phases

\* An exception that leaves a unit of work keeps the replies well typed.
LEMMA UnitRaisedType ==
  ASSUME TypeInv, UnitRaised, store' \in Stores, work' \in Stores,
         threadFaults' \in 0..MaxThreadFaults
  PROVE  TypeInv'
<1>1. DOMAIN Empty = {}
  BY DEF Empty
<1>2. replies' \in [DOMAIN bite -> Replies]
  BY ReplyTypes DEF UnitRaised, TypeInv, TypeOK, Kinds
<1>. QED  BY <1>1, <1>2
          DEF UnitRaised, TypeInv, TypeOK, EntitiesOnly, DraftsDone, NothingWhenIdle, Phases, Empty

LEMMA GuardType == TypeInv /\ Guard => TypeInv'
<1>. SUFFICES ASSUME TypeInv, Guard PROVE TypeInv'
  OBVIOUS
<1>. USE DEF TypeInv, TypeOK, EntitiesOnly, DraftsDone, NothingWhenIdle
<1>1. PICK p \in Unguarded :
        \/ GuardMalformed(p) /\ UNCHANGED <<pending, repeats>>
        \/ /\ bite[p].form = "entity"
           /\ \/ GuardConflict(p) /\ UNCHANGED <<pending, repeats>>
              \/ GuardCached(p) /\ UNCHANGED <<pending, repeats>>
              \/ GuardRaises(p) /\ UNCHANGED <<pending, repeats>>
              \/ GuardNew(p) /\ UNCHANGED replies
  BY DEF Guard
<1>2. p \in DOMAIN bite
  BY <1>1 DEF Unguarded, Unanswered
<1>3. /\ phase = "serving"
      /\ UNCHANGED <<store, work, phase, bite, fallback, unit, draft, threadFaults>>
  BY DEF Guard
<1>4. ASSUME NEW reply \in Replies, Reply(p, reply), UNCHANGED <<pending, repeats>>
      PROVE  TypeInv'
  <2>1. replies' \in [DOMAIN bite -> Replies]
    BY <1>4 DEF Reply
  <2>. QED  BY <1>3, <1>4, <2>1
<1>5. \A kind \in Kinds : Error(kind) \in Replies
  BY ReplyTypes
<1>6. CASE GuardMalformed(p) /\ UNCHANGED <<pending, repeats>>
  BY <1>4, <1>5, <1>6 DEF GuardMalformed, Kinds
<1>7. CASE GuardConflict(p) /\ UNCHANGED <<pending, repeats>>
  BY <1>4, <1>5, <1>7 DEF GuardConflict, Kinds
<1>8. CASE GuardCached(p) /\ UNCHANGED <<pending, repeats>>
  <2>1. PICK ranking \in Requeries(work, Mention(p)) : Reply(p, Resolved(ranking))
    BY <1>8 DEF GuardCached
  <2>2. Resolved(ranking) \in Replies
    BY <2>1, RequeriesType, ReplyTypes
  <2>. QED  BY <1>4, <1>8, <2>1, <2>2
<1>9. CASE GuardRaises(p) /\ UNCHANGED <<pending, repeats>>
  BY <1>4, <1>5, <1>9 DEF GuardRaises, Kinds
<1>10. CASE bite[p].form = "entity" /\ GuardNew(p) /\ UNCHANGED replies
  BY <1>2, <1>3, <1>10 DEF GuardNew
<1>. QED  BY <1>1, <1>6, <1>7, <1>8, <1>9, <1>10

LEMMA AssignType == TypeInv /\ AssignCluster => TypeInv'
<1>. SUFFICES ASSUME TypeInv, AssignCluster PROVE TypeInv'
  OBVIOUS
<1>1. UNCHANGED <<store, work, phase, bite, replies, pending, repeats, fallback,
                  unit, threadFaults>> /\ phase = "scoring"
  BY DEF AssignCluster
<1>2. PICK p \in unit \ DOMAIN draft : \E linked \in SUBSET LinksToEarlier(p) :
        \E links \in [linked -> Scores], place \in Places(linked), home \in KnownHomes(linked) :
        \E cluster \in Assignments(Mention(p), links, place, home) :
        \E ranking \in RankCandidates(cluster, links, place, home),
           kept \in BestLinks(links, place) :
          draft' = Put(draft, p, [cluster |-> cluster, kept |-> kept, ranking |-> ranking])
  BY DEF AssignCluster
<1>3. PICK linked \in SUBSET LinksToEarlier(p) :
        \E links \in [linked -> Scores], place \in Places(linked), home \in KnownHomes(linked) :
        \E cluster \in Assignments(Mention(p), links, place, home) :
        \E ranking \in RankCandidates(cluster, links, place, home),
           kept \in BestLinks(links, place) :
          draft' = Put(draft, p, [cluster |-> cluster, kept |-> kept, ranking |-> ranking])
  BY <1>2
<1>3a. PICK links \in [linked -> Scores], place \in Places(linked), home \in KnownHomes(linked) :
        \E cluster \in Assignments(Mention(p), links, place, home) :
        \E ranking \in RankCandidates(cluster, links, place, home),
           kept \in BestLinks(links, place) :
          draft' = Put(draft, p, [cluster |-> cluster, kept |-> kept, ranking |-> ranking])
  BY <1>3
<1>3b. PICK cluster \in Assignments(Mention(p), links, place, home) :
        \E ranking \in RankCandidates(cluster, links, place, home),
           kept \in BestLinks(links, place) :
          draft' = Put(draft, p, [cluster |-> cluster, kept |-> kept, ranking |-> ranking])
  BY <1>3a
<1>4. PICK ranking \in RankCandidates(cluster, links, place, home),
           kept \in BestLinks(links, place) :
          draft' = Put(draft, p, [cluster |-> cluster, kept |-> kept, ranking |-> ranking])
  BY <1>3b
<1>5. Mention(p) \in Mentions
  BY PositionTypes, EntityFields DEF TypeInv, TypeOK, EntitiesOnly, Mention
<1>6. linked \in SUBSET Mentions
  BY DEF LinksToEarlier, Stored
<1>7. links \in Links
  BY <1>6 DEF Links
<1>8. DOMAIN home \subseteq Mentions /\ home \in [DOMAIN home -> Mentions]
  BY <1>6, KnownHomesType DEF TypeInv, TypeOK
<1>9. cluster \in Mentions
  BY <1>5, <1>8, AssignmentsType
<1>10. ranking \in Rankings
  BY <1>7, <1>8, <1>9, RankCandidatesType
<1>11. kept \in Links
  BY <1>7, BestLinksType
<1>12. DOMAIN draft' \subseteq unit /\ draft' \in [DOMAIN draft' -> Drafts]
  BY <1>2, <1>4, <1>9, <1>10, <1>11 DEF Put, Drafts, TypeInv, TypeOK
<1>. QED  BY <1>1, <1>12 DEF TypeInv, TypeOK, EntitiesOnly, DraftsDone, NothingWhenIdle

LEMMA SaveType == TypeInv /\ SaveUnit => TypeInv'
<1>. SUFFICES ASSUME TypeInv, SaveUnit PROVE TypeInv'
  OBVIOUS
<1>1. \A p \in unit : /\ Mention(p) \in Mentions
                      /\ draft[p].cluster \in Mentions
                      /\ draft[p].kept \in Links
  BY PositionTypes, EntityFields
     DEF SaveUnit, TypeInv, TypeOK, EntitiesOnly, Mention, Drafts
<1>2. KeptLinks \subseteq LinkRows
  <2>1. \A links \in Links : \A x \in DOMAIN links : x \in Mentions /\ links[x] \in Scores
    BY DEF Links
  <2>. QED  BY <1>1, <2>1 DEF KeptLinks, LinkRows
<1>3. {<<Mention(p), draft[p].cluster>> : p \in unit} \subseteq Mentions \X Mentions
  BY <1>1
<1>4. work' \in Stores
  BY <1>2, <1>3 DEF SaveUnit, TypeInv, TypeOK, Stores
<1>. QED  BY <1>4 DEF SaveUnit, TypeInv, TypeOK, EntitiesOnly, DraftsDone, NothingWhenIdle, Phases

LEMMA NextType == TypeInv /\ [Next]_vars => TypeInv'
<1>. SUFFICES ASSUME TypeInv, [Next]_vars PROVE TypeInv'
  OBVIOUS
<1>. USE DEF TypeInv, TypeOK, EntitiesOnly, DraftsDone, NothingWhenIdle, Phases
<1>1. CASE UNCHANGED vars
  BY <1>1 DEF vars
<1>2. CASE TakeBite
  <2>1. \A b \in Bites : [p \in DOMAIN b |-> NoReply] \in [DOMAIN b -> Replies]
    BY ReplyTypes DEF NoReply, Kinds
  <2>2. phase = "idle" => DOMAIN draft \subseteq unit
    OBVIOUS
  <2>3. bite' \in Bites /\ replies' \in [DOMAIN bite' -> Replies]
    BY <1>2, <2>1 DEF TakeBite
  <2>. QED  BY <1>2, <2>3 DEF TakeBite
<1>3. CASE Guard
  BY <1>3, GuardType
<1>4. CASE BeginUnit
  <2>1. PICK positions \in SUBSET Unanswered(pending) :
          unit' = positions /\ work' = WithMentions(work, positions)
    BY <1>4 DEF BeginUnit
  <2>2. positions \subseteq pending
    BY <2>1 DEF Unanswered
  <2>3. work' \in Stores
    BY <2>1, <2>2, WithMentionsType
  <2>4. DOMAIN draft' = {} /\ draft' \in [{} -> Drafts]
    BY <1>4 DEF BeginUnit, Empty
  <2>. QED  BY <1>4, <2>1, <2>2, <2>3, <2>4 DEF BeginUnit
<1>5. CASE AssignCluster
  BY <1>5, AssignType
<1>6. CASE SaveUnit
  BY <1>6, SaveType
<1>7. CASE Commit
  BY <1>7 DEF Commit
<1>8. CASE FailUnit
  BY <1>8, UnitRaisedType DEF FailUnit
<1>9. CASE FinishUnit
  <2>1. \A p \in unit : Resolved(draft[p].ranking) \in Replies
    BY <1>9, ReplyTypes DEF FinishUnit, Drafts
  <2>2. replies' \in [DOMAIN bite -> Replies]
    BY <1>9, <2>1 DEF FinishUnit
  <2>3. DOMAIN draft' = {} /\ draft' \in [{} -> Drafts]
    BY <1>9 DEF FinishUnit, Empty
  <2>. QED  BY <1>9, <2>2, <2>3 DEF FinishUnit
<1>10. CASE ThreadFault
  <2>1. threadFaults' \in 0..MaxThreadFaults
    BY <1>10, ServiceAssumption DEF ThreadFault
  <2>. QED  BY <1>10, <2>1, UnitRaisedType DEF ThreadFault
<1>11. CASE RespondCached
  <2>1. PICK p \in repeats :
          IF Mention(p) \in Clustered(work)
          THEN \E ranking \in Requeries(work, Mention(p)) : Reply(p, Resolved(ranking))
          ELSE Reply(p, Error("internal"))
    BY <1>11 DEF RespondCached
  <2>2. \E reply \in Replies : Reply(p, reply)
    BY <2>1, ReplyTypes, RequeriesType DEF Kinds
  <2>3. replies' \in [DOMAIN bite -> Replies]
    BY <2>2 DEF Reply
  <2>. QED  BY <1>11, <2>3 DEF RespondCached
<1>12. CASE RepeatRaises
  <2>1. replies' \in [DOMAIN bite -> Replies]
    BY <1>12, ReplyTypes DEF RepeatRaises, Kinds
  <2>. QED  BY <1>12, <2>1 DEF RepeatRaises
<1>13. CASE SendResponses
  BY <1>13, IdleType DEF SendResponses
<1>14. CASE CrashAndRestart
  <2>1. EmptyStore \in Stores
    BY DEF EmptyStore, Stores
  <2>2. store' \in Stores /\ work' \in Stores
    BY <1>14, <2>1 DEF CrashAndRestart
  <2>. QED  BY <1>14, <2>2, IdleType DEF CrashAndRestart
<1>. QED
  BY <1>1, <1>2, <1>3, <1>4, <1>5, <1>6, <1>7, <1>8, <1>9, <1>10, <1>11, <1>12,
     <1>13, <1>14 DEF Next, Work

(***************************************************************************)
(* In every behaviour the tables, the bite, its replies and the unit of    *)
(* work are well formed, whatever fails.                                   *)
(***************************************************************************)
THEOREM TypeCorrect == Spec => []TypeOK
<1>1. Spec => []TypeInv
  BY InitType, NextType, PTL DEF Spec
<1>2. TypeInv => TypeOK
  BY DEF TypeInv
<1>. QED  BY <1>1, <1>2, PTL

-----------------------------------------------------------------------------
(***************************************************************************)
(* The tables.  One cluster per mention is not inductive by itself: it     *)
(* holds because a unit only ever holds mentions that are not stored, each *)
(* once, because its working copy is the committed one plus the unit, and  *)
(* because a decided cluster is one whose founder is stored or decided in  *)
(* the same unit.                                                          *)
(***************************************************************************)
TablesSound(s) ==
  /\ \A m \in Mentions :
       \/ s.rows[m] = 0 /\ s.text[m] = None /\ ClustersOf(s, m) = {}
       \/ /\ s.rows[m] = 1 /\ s.text[m] \in Contents
          /\ \E c \in Mentions : ClustersOf(s, m) = {c}
  /\ \A m, c \in Mentions : <<m, c>> \in s.clusters => <<c, c>> \in s.clusters

PendingDistinct == \A p, q \in pending : Mention(p) = Mention(q) => p = q

\* s has the rows of the unit, besides what is committed.
UnitApplied(s) ==
  /\ \A m \in Mentions : (\A p \in unit : Mention(p) # m) =>
       /\ s.rows[m] = store.rows[m] /\ s.text[m] = store.text[m]
       /\ ClustersOf(s, m) = ClustersOf(store, m)
  /\ \A p \in unit : s.rows[Mention(p)] = 1 /\ s.text[Mention(p)] = bite[p].content

DraftsFounded ==
  \A p \in DOMAIN draft : LET c == draft[p].cluster IN
    \/ c = Mention(p)
    \/ <<c, c>> \in store.clusters
    \/ \E q \in DOMAIN draft : Mention(q) = c /\ draft[q].cluster = c

WorkInv ==
  /\ phase \in {"idle", "serving", "committed"} => work = store
  /\ phase = "scoring" => /\ work.clusters = store.clusters
                          /\ UnitApplied(work) /\ DraftsFounded
  /\ phase = "saved" => TablesSound(work) /\ UnitApplied(work)

UnitInv ==
  /\ unit \subseteq Unanswered(pending)
  /\ phase \in {"idle", "serving"} => unit = {}
  /\ \A p \in Unanswered(pending) :
       store.rows[Mention(p)] = 0 \/ (phase = "committed" /\ p \in unit)

IInv == TypeInv /\ TablesSound(store) /\ PendingDistinct /\ WorkInv /\ UnitInv

\* The rows a unit of distinct mentions adds, if none of them is stored.
LEMMA UnitRows ==
  ASSUME TypeInv, PendingDistinct, NEW s \in Stores, NEW positions \in SUBSET pending,
         \A p \in positions : s.rows[Mention(p)] = 0
  PROVE  LET t == WithMentions(s, positions) IN
         /\ t.clusters = s.clusters
         /\ \A m \in Mentions : (\A p \in positions : Mention(p) # m) =>
              t.rows[m] = s.rows[m] /\ t.text[m] = s.text[m]
         /\ \A p \in positions :
              t.rows[Mention(p)] = 1 /\ t.text[Mention(p)] = bite[p].content
<1>. DEFINE t == WithMentions(s, positions)
            At(m) == {p \in positions : Mention(p) = m}
<1>1. \A p \in positions : Mention(p) \in Mentions
  BY PositionTypes, EntityFields DEF TypeInv, TypeOK, EntitiesOnly, Mention
<1>2. \A m \in Mentions : /\ t.rows[m] = s.rows[m] + Cardinality(At(m))
                          /\ t.text[m] = IF \E p \in positions : Mention(p) = m
                                         THEN bite[CHOOSE p \in positions : Mention(p) = m].content
                                         ELSE s.text[m]
  BY DEF WithMentions, Stores
<1>3. t.clusters = s.clusters
  BY DEF WithMentions, Stores
<1>4. ASSUME NEW m \in Mentions, \A p \in positions : Mention(p) # m
      PROVE  t.rows[m] = s.rows[m] /\ t.text[m] = s.text[m]
  <2>1. At(m) = {}
    BY <1>4
  <2>2. Cardinality(At(m)) = 0
    BY <2>1, FS_EmptySet
  <2>3. s.rows[m] \in Nat
    BY DEF Stores
  <2>. QED  BY <1>2, <1>4, <2>2, <2>3
<1>5. ASSUME NEW p \in positions
      PROVE  t.rows[Mention(p)] = 1 /\ t.text[Mention(p)] = bite[p].content
  <2>1. \A q \in positions : Mention(q) = Mention(p) => q = p
    BY DEF PendingDistinct
  <2>2. At(Mention(p)) = {p}
    BY <2>1
  <2>3. Cardinality(At(Mention(p))) = 1
    BY <2>2, FS_Singleton
  <2>4. (CHOOSE q \in positions : Mention(q) = Mention(p)) = p
    BY <2>1
  <2>. HIDE DEF t, At
  <2>5. t.rows[Mention(p)] = s.rows[Mention(p)] + Cardinality(At(Mention(p)))
    BY <1>1, <1>2
  <2>6. s.rows[Mention(p)] = 0
    OBVIOUS
  <2>7. t.rows[Mention(p)] = 1
    BY <2>3, <2>5, <2>6
  <2>8. t.text[Mention(p)] = bite[p].content
    BY <1>1, <1>2, <2>4
  <2>. QED  BY <2>7, <2>8
<1>. HIDE DEF t
<1>6. QED
  BY <1>3, <1>4, <1>5 DEF t

LEMMA PendingMentions ==
  TypeInv => \A p \in pending : Mention(p) \in Mentions /\ bite[p].content \in Contents
BY PositionTypes, EntityFields DEF TypeInv, TypeOK, EntitiesOnly, Mention

\* Steps that only answer requests: the unit and the tables stay.
LEMMA AnsweringKeepsIInv ==
  ASSUME IInv, TypeInv', UNCHANGED <<store, work, phase, bite, unit, draft, pending>>,
         unit = {},
         Unanswered(pending)' \subseteq Unanswered(pending)
  PROVE  IInv'
BY DEF IInv, TablesSound, PendingDistinct, WorkInv, UnitInv, ClustersOf, UnitApplied,
       DraftsFounded, Mention

LEMMA IdleKeepsIInv ==
  ASSUME TypeInv', Idle, TablesSound(store)', work' = store'
  PROVE  IInv'
BY DEF Idle, IInv, PendingDistinct, WorkInv, UnitInv, Empty, Unanswered

LEMMA InitIInv == Init => IInv
<1>. SUFFICES ASSUME Init PROVE IInv
  OBVIOUS
<1>1. TablesSound(store)
  BY DEF Init, EmptyStore, TablesSound, ClustersOf
<1>2. PendingDistinct /\ WorkInv /\ UnitInv
  BY DEF Init, PendingDistinct, WorkInv, UnitInv, Unanswered
<1>. QED  BY <1>1, <1>2, InitType DEF IInv

LEMMA GuardKeepsIInv == IInv /\ TypeInv' /\ Guard => IInv'
<1>. SUFFICES ASSUME IInv, TypeInv', Guard PROVE IInv'
  OBVIOUS
<1>. USE DEF IInv
<1>1. PICK p \in Unguarded :
        \/ GuardMalformed(p) /\ UNCHANGED <<pending, repeats>>
        \/ /\ bite[p].form = "entity"
           /\ \/ GuardConflict(p) /\ UNCHANGED <<pending, repeats>>
              \/ GuardCached(p) /\ UNCHANGED <<pending, repeats>>
              \/ GuardRaises(p) /\ UNCHANGED <<pending, repeats>>
              \/ GuardNew(p) /\ UNCHANGED replies
  BY DEF Guard
<1>2. /\ phase = "serving" /\ unit = {} /\ work = store
      /\ UNCHANGED <<store, work, phase, bite, fallback, unit, draft, threadFaults>>
  BY DEF Guard, UnitInv, WorkInv
<1>3. p \in DOMAIN bite \ pending
  BY <1>1 DEF Unguarded, Unanswered
<1>4. ASSUME NEW reply, Reply(p, reply), UNCHANGED <<pending, repeats>>
      PROVE  IInv'
  <2>1. Unanswered(pending)' \subseteq Unanswered(pending)
    BY <1>3, <1>4 DEF Unanswered, Reply, TypeInv, TypeOK
  <2>. QED  BY <1>2, <1>4, <2>1, AnsweringKeepsIInv
<1>5. CASE /\ GuardMalformed(p) \/ GuardConflict(p) \/ GuardCached(p) \/ GuardRaises(p)
           /\ UNCHANGED <<pending, repeats>>
  <2>1. \E reply : Reply(p, reply)
    BY <1>5 DEF GuardMalformed, GuardConflict, GuardCached, GuardRaises
  <2>. QED  BY <1>4, <1>5, <2>1
<1>6. CASE GuardNew(p) /\ UNCHANGED replies /\ bite[p].form = "entity"
  <2>1. CASE Earlier(p) # {}
    <3>1. UNCHANGED pending /\ Unanswered(pending)' = Unanswered(pending)
      BY <1>2, <1>6, <2>1 DEF GuardNew, Unanswered
    <3>. QED  BY <1>2, <3>1, AnsweringKeepsIInv
  <2>2. CASE Earlier(p) = {}
    <3>1. pending' = pending \cup {p}
      BY <1>6, <2>2 DEF GuardNew
    <3>2. \A q \in pending : Mention(q) # Mention(p)
      BY <2>2 DEF Earlier
    <3>3. PendingDistinct'
      BY <1>2, <3>1, <3>2 DEF PendingDistinct, Mention
    <3>4. Mention(p) \in Mentions
      BY <1>3, <1>6, PositionTypes, EntityFields DEF Mention, TypeInv, TypeOK
    <3>5. store.rows[Mention(p)] = 0
      BY <1>2, <1>6, <3>4 DEF GuardNew, Clustered, TablesSound
    <3>6. UnitInv'
      BY <1>2, <1>6, <3>1, <3>5 DEF UnitInv, Unanswered, Mention
    <3>7. TablesSound(store)' /\ WorkInv'
      BY <1>2 DEF WorkInv, TablesSound, ClustersOf
    <3>. QED  BY <3>3, <3>6, <3>7
  <2>. QED  BY <2>1, <2>2
<1>. QED  BY <1>1, <1>5, <1>6

LEMMA BeginKeepsIInv == IInv /\ TypeInv' /\ BeginUnit => IInv'
<1>. SUFFICES ASSUME IInv, TypeInv', BeginUnit PROVE IInv'
  OBVIOUS
<1>1. PICK positions \in SUBSET Unanswered(pending) :
        unit' = positions /\ work' = WithMentions(work, positions)
  BY DEF BeginUnit
<1>2. /\ work = store /\ phase' = "scoring" /\ draft' = Empty
      /\ UNCHANGED <<store, bite, replies, pending>>
      /\ \A p \in positions : store.rows[Mention(p)] = 0
  BY DEF BeginUnit, IInv, WorkInv, UnitInv
<1>3. positions \subseteq pending /\ store \in Stores
  BY DEF Unanswered, IInv, TypeInv, TypeOK
<1>4. LET t == WithMentions(store, positions) IN
      /\ t.clusters = store.clusters
      /\ \A m \in Mentions : (\A p \in positions : Mention(p) # m) =>
           t.rows[m] = store.rows[m] /\ t.text[m] = store.text[m]
      /\ \A p \in positions :
           t.rows[Mention(p)] = 1 /\ t.text[Mention(p)] = bite[p].content
  BY <1>2, <1>3, UnitRows DEF IInv
<1>5. work'.clusters = store.clusters /\ UnitApplied(work)'
  BY <1>1, <1>2, <1>4 DEF UnitApplied, ClustersOf, Mention
<1>6. WorkInv'
  BY <1>2, <1>5 DEF WorkInv, DraftsFounded, Empty
<1>7. UnitInv'
  <2>1. Unanswered(pending)' = Unanswered(pending)
    BY <1>2 DEF Unanswered
  <2>2. \A p \in Unanswered(pending) : store.rows[Mention(p)] = 0
    BY DEF BeginUnit, IInv, UnitInv
  <2>3. \A p \in Unanswered(pending) : (store.rows[Mention(p)] = 0)'
    BY <1>2, <2>2 DEF Mention
  <2>. QED  BY <1>1, <1>2, <2>1, <2>3 DEF UnitInv
<1>8. TablesSound(store)' /\ PendingDistinct'
  BY <1>2 DEF IInv, TablesSound, ClustersOf, PendingDistinct, Mention
<1>. QED  BY <1>6, <1>7, <1>8 DEF IInv

\* A cluster that a linked mention is known by is founded.
LEMMA KnownHomesFounded ==
  ASSUME IInv, phase = "scoring", NEW others \in SUBSET Mentions,
         NEW home \in KnownHomes(others), NEW x \in DOMAIN home
  PROVE  \/ <<home[x], home[x]>> \in store.clusters
         \/ \E q \in DOMAIN draft : Mention(q) = home[x] /\ draft[q].cluster = home[x]
<1>. DEFINE decided == {y \in others : \E q \in DOMAIN draft : Mention(q) = y}
            Decided(y) == draft[CHOOSE q \in DOMAIN draft : Mention(q) = y].cluster
<1>1. PICK old \in Homes(work, others \ decided) :
        home = [y \in DOMAIN old \cup decided |->
                  IF y \in decided THEN Decided(y) ELSE old[y]]
  BY DEF KnownHomes
<1>2. CASE x \in decided
  <2>1. PICK q \in DOMAIN draft : Mention(q) = x /\ home[x] = draft[q].cluster
    BY <1>1, <1>2
  <2>2. DraftsFounded
    BY DEF IInv, WorkInv
  <2>. QED  BY <2>1, <2>2 DEF DraftsFounded
<1>3. CASE x \notin decided
  <2>1. x \in DOMAIN old /\ home[x] = old[x]
    BY <1>1, <1>3
  <2>2. old[x] \in ClustersOf(work, x)
    BY <2>1 DEF Homes
  <2>3. work.clusters = store.clusters
    BY DEF IInv, WorkInv
  <2>4. <<x, home[x]>> \in store.clusters /\ home[x] \in Mentions
    BY <2>1, <2>2, <2>3 DEF ClustersOf
  <2>5. x \in Mentions
    BY <2>1, HomesType
  <2>. QED  BY <2>4, <2>5 DEF IInv, TablesSound
<1>. QED  BY <1>2, <1>3

LEMMA AssignKeepsIInv == IInv /\ TypeInv' /\ AssignCluster => IInv'
<1>. SUFFICES ASSUME IInv, TypeInv', AssignCluster PROVE IInv'
  OBVIOUS
<1>1. phase = "scoring" /\ UNCHANGED <<store, work, phase, bite, replies, pending, unit>>
  BY DEF AssignCluster
<1>2. PICK p \in unit \ DOMAIN draft : \E linked \in SUBSET LinksToEarlier(p) :
        \E links \in [linked -> Scores], place \in Places(linked), home \in KnownHomes(linked) :
        \E cluster \in Assignments(Mention(p), links, place, home) :
        \E ranking \in RankCandidates(cluster, links, place, home),
           kept \in BestLinks(links, place) :
          draft' = Put(draft, p, [cluster |-> cluster, kept |-> kept, ranking |-> ranking])
  BY DEF AssignCluster
<1>3. PICK linked \in SUBSET LinksToEarlier(p) :
        \E links \in [linked -> Scores], place \in Places(linked), home \in KnownHomes(linked) :
        \E cluster \in Assignments(Mention(p), links, place, home) :
        \E ranking, kept :
          draft' = Put(draft, p, [cluster |-> cluster, kept |-> kept, ranking |-> ranking])
  BY <1>2
<1>4. PICK links \in [linked -> Scores], place \in Places(linked), home \in KnownHomes(linked) :
        \E cluster \in Assignments(Mention(p), links, place, home) :
        \E ranking, kept :
          draft' = Put(draft, p, [cluster |-> cluster, kept |-> kept, ranking |-> ranking])
  BY <1>3
<1>5. PICK cluster \in Assignments(Mention(p), links, place, home) : \E ranking, kept :
        draft' = Put(draft, p, [cluster |-> cluster, kept |-> kept, ranking |-> ranking])
  BY <1>4
<1>6. linked \in SUBSET Mentions
  BY DEF LinksToEarlier, Stored
<1>7. \/ cluster = Mention(p)
      \/ <<cluster, cluster>> \in store.clusters
      \/ \E q \in DOMAIN draft : Mention(q) = cluster /\ draft[q].cluster = cluster
  BY <1>1, <1>5, <1>6, KnownHomesFounded DEF Assignments
<1>8. /\ DOMAIN draft' = DOMAIN draft \cup {p}
      /\ draft'[p].cluster = cluster
      /\ \A q \in DOMAIN draft : draft'[q] = draft[q]
  BY <1>2, <1>5 DEF Put
<1>9. DraftsFounded'
  BY <1>1, <1>7, <1>8 DEF IInv, WorkInv, DraftsFounded, Mention
<1>10. WorkInv'
  BY <1>1, <1>9 DEF IInv, WorkInv, UnitApplied, ClustersOf, Mention
<1>. QED  BY <1>1, <1>10
          DEF IInv, TablesSound, ClustersOf, PendingDistinct, UnitInv, Unanswered, Mention

LEMMA SaveKeepsIInv == IInv /\ TypeInv' /\ SaveUnit => IInv'
<1>. SUFFICES ASSUME IInv, TypeInv', SaveUnit PROVE IInv'
  OBVIOUS
<1>. DEFINE new == {<<Mention(p), draft[p].cluster>> : p \in unit}
<1>1. /\ phase = "scoring" /\ DOMAIN draft = unit /\ phase' = "saved"
      /\ work' = [work EXCEPT !.links = work.links \cup KeptLinks,
                              !.clusters = work.clusters \cup new]
      /\ UNCHANGED <<store, bite, replies, pending, unit, draft>>
  BY DEF SaveUnit
<1>2. work \in Stores
  BY DEF IInv, TypeInv, TypeOK
<1>3. /\ work'.rows = work.rows /\ work'.text = work.text
      /\ work'.clusters = store.clusters \cup new
  BY <1>1, <1>2 DEF IInv, WorkInv, Stores
<1>4. UnitApplied(work) /\ DraftsFounded
  BY <1>1 DEF IInv, WorkInv
<1>5. unit \subseteq pending /\ \A p \in unit : store.rows[Mention(p)] = 0
  BY <1>1 DEF IInv, UnitInv, Unanswered
<1>6. \A p \in unit : /\ Mention(p) \in Mentions /\ bite[p].content \in Contents
                      /\ draft[p].cluster \in Mentions
  BY <1>1, <1>5, PendingMentions DEF IInv, TypeInv, TypeOK, Drafts
<1>7. ASSUME NEW m \in Mentions, \A p \in unit : Mention(p) # m
      PROVE  ClustersOf(work', m) = ClustersOf(store, m)
  BY <1>3, <1>7 DEF ClustersOf
<1>8. ASSUME NEW p \in unit
      PROVE  ClustersOf(work', Mention(p)) = {draft[p].cluster}
  <2>1. ClustersOf(store, Mention(p)) = {}
    BY <1>5, <1>6 DEF IInv, TablesSound
  <2>2. \A q \in unit : Mention(q) = Mention(p) => q = p
    BY <1>5 DEF IInv, PendingDistinct
  <2>3. \A c \in Mentions : <<Mention(p), c>> \in new <=> c = draft[p].cluster
    BY <2>2
  <2>4. \A c \in Mentions : <<Mention(p), c>> \notin store.clusters
    BY <2>1 DEF ClustersOf
  <2>. QED  BY <1>3, <1>6, <2>3, <2>4 DEF ClustersOf
<1>9. UnitApplied(work)'
  BY <1>1, <1>3, <1>4, <1>7 DEF UnitApplied, ClustersOf, Mention
<1>10. TablesSound(work)'
  <2>1. ASSUME NEW m \in Mentions
        PROVE  \/ work'.rows[m] = 0 /\ work'.text[m] = None /\ ClustersOf(work', m) = {}
               \/ /\ work'.rows[m] = 1 /\ work'.text[m] \in Contents
                  /\ \E c \in Mentions : ClustersOf(work', m) = {c}
    <3>1. CASE \E p \in unit : Mention(p) = m
      <4>1. PICK p \in unit : Mention(p) = m
        BY <3>1
      <4>2. work'.rows[m] = 1 /\ work'.text[m] = bite[p].content
        BY <1>3, <1>4, <4>1 DEF UnitApplied
      <4>. QED  BY <1>6, <1>8, <4>1, <4>2
    <3>2. CASE \A p \in unit : Mention(p) # m
      <4>1. work'.rows[m] = store.rows[m] /\ work'.text[m] = store.text[m]
        BY <1>3, <1>4, <3>2 DEF UnitApplied
      <4>2. ClustersOf(work', m) = ClustersOf(store, m)
        BY <1>7, <3>2
      <4>. QED  BY <4>1, <4>2 DEF IInv, TablesSound
    <3>. QED  BY <3>1, <3>2
  <2>2. ASSUME NEW m \in Mentions, NEW c \in Mentions, <<m, c>> \in work'.clusters
        PROVE  <<c, c>> \in work'.clusters
    <3>1. CASE <<m, c>> \in store.clusters
      BY <1>3, <3>1 DEF IInv, TablesSound
    <3>2. CASE <<m, c>> \in new
      <4>1. PICK p \in unit : m = Mention(p) /\ c = draft[p].cluster
        BY <3>2
      <4>2. CASE c = Mention(p)
        BY <1>3, <4>1, <4>2
      <4>3. CASE <<c, c>> \in store.clusters
        BY <1>3, <4>3
      <4>4. CASE \E q \in DOMAIN draft : Mention(q) = c /\ draft[q].cluster = c
        BY <1>1, <1>3, <4>4
      <4>. QED  BY <1>1, <1>4, <4>1, <4>2, <4>3, <4>4 DEF DraftsFounded
    <3>. QED  BY <1>3, <2>2, <3>1, <3>2
  <2>. HIDE DEF new
  <2>. QED  BY <2>1, <2>2 DEF TablesSound, ClustersOf
<1>11. WorkInv'
  BY <1>1, <1>9, <1>10 DEF WorkInv
<1>12. TablesSound(store)' /\ PendingDistinct'
  BY <1>1 DEF IInv, TablesSound, ClustersOf, PendingDistinct, Mention
<1>13. UnitInv'
  <2>1. Unanswered(pending)' = Unanswered(pending)
    BY <1>1 DEF Unanswered
  <2>2. \A p \in Unanswered(pending) : (store.rows[Mention(p)] = 0)'
    BY <1>1 DEF IInv, UnitInv, Mention
  <2>. QED  BY <1>1, <2>1, <2>2 DEF IInv, UnitInv
<1>. QED  BY <1>11, <1>12, <1>13 DEF IInv

\* What the commit makes visible: the unit, and nothing else.
LEMMA CommitAddsUnit ==
  ASSUME IInv, Commit
  PROVE  /\ UnitApplied(store') /\ TablesSound(store')
         /\ \A p \in unit : store.rows[Mention(p)] = 0
         /\ \A p \in Unanswered(pending) \ unit : store'.rows[Mention(p)] = 0
<1>1. store' = work /\ UnitApplied(work) /\ TablesSound(work)
  BY DEF Commit, IInv, WorkInv
<1>2. unit \subseteq Unanswered(pending) /\ Unanswered(pending) \subseteq pending
  BY DEF IInv, UnitInv, Unanswered
<1>3. \A p \in Unanswered(pending) : store.rows[Mention(p)] = 0
  BY DEF Commit, IInv, UnitInv
<1>4. ASSUME NEW p \in Unanswered(pending) \ unit
      PROVE  work.rows[Mention(p)] = 0
  <2>1. \A q \in unit : Mention(q) # Mention(p)
    BY <1>2 DEF IInv, PendingDistinct
  <2>2. Mention(p) \in Mentions
    BY <1>2, PendingMentions DEF IInv
  <2>. QED  BY <1>1, <1>3, <2>1, <2>2 DEF UnitApplied
<1>. QED  BY <1>1, <1>2, <1>3, <1>4

LEMMA CommitKeepsIInv == IInv /\ TypeInv' /\ Commit => IInv'
<1>. SUFFICES ASSUME IInv, TypeInv', Commit PROVE IInv'
  OBVIOUS
<1>1. /\ store' = work /\ phase' = "committed"
      /\ UNCHANGED <<work, bite, replies, pending, unit, draft>>
  BY DEF Commit
<1>2. TablesSound(store)' /\ PendingDistinct'
  BY <1>1, CommitAddsUnit DEF IInv, TablesSound, ClustersOf, PendingDistinct, Mention
<1>3. WorkInv'
  BY <1>1 DEF WorkInv
<1>4. UnitInv'
  <2>1. Unanswered(pending)' = Unanswered(pending)
    BY <1>1 DEF Unanswered
  <2>2. \A p \in Unanswered(pending) \ unit : (store.rows[Mention(p)] = 0)'
    BY <1>1, CommitAddsUnit DEF Mention
  <2>. QED  BY <1>1, <2>1, <2>2 DEF IInv, UnitInv
<1>. QED  BY <1>2, <1>3, <1>4 DEF IInv

\* Leaving a unit, answered or not, when the working copy is the committed one.
LEMMA LeavingKeepsIInv ==
  ASSUME IInv, TypeInv', UNCHANGED <<store, bite, pending>>,
         phase' = "serving", unit' = {}, work' = store,
         Unanswered(pending)' \subseteq Unanswered(pending),
         \A p \in Unanswered(pending)' : store.rows[Mention(p)] = 0
  PROVE  IInv'
<1>1. TablesSound(store)' /\ PendingDistinct'
  BY DEF IInv, TablesSound, ClustersOf, PendingDistinct, Mention
<1>2. \A p \in Unanswered(pending)' : (store.rows[Mention(p)] = 0)'
  BY DEF Mention
<1>3. WorkInv' /\ UnitInv'
  BY <1>2 DEF WorkInv, UnitInv
<1>. QED  BY <1>1, <1>3 DEF IInv

LEMMA FailKeepsIInv == IInv /\ TypeInv' /\ FailUnit => IInv'
<1>. SUFFICES ASSUME IInv, TypeInv', FailUnit PROVE IInv'
  OBVIOUS
<1>1. /\ phase # "committed" /\ phase' = "serving" /\ unit' = {} /\ work' = store
      /\ UNCHANGED <<store, bite, pending>>
  BY DEF FailUnit, UnitRaised
<1>2. pending \subseteq DOMAIN bite
  BY DEF IInv, TypeInv, TypeOK
<1>3. \A p \in DOMAIN bite : replies'[p] = NoReply => replies[p] = NoReply
  BY DEF FailUnit, UnitRaised, Error, NoReply
<1>4. Unanswered(pending)' \subseteq Unanswered(pending)
  BY <1>1, <1>2, <1>3 DEF Unanswered
<1>5. \A p \in Unanswered(pending)' : store.rows[Mention(p)] = 0
  BY <1>1, <1>4 DEF IInv, UnitInv
<1>. QED  BY <1>1, <1>4, <1>5, LeavingKeepsIInv

LEMMA FinishKeepsIInv == IInv /\ TypeInv' /\ FinishUnit => IInv'
<1>. SUFFICES ASSUME IInv, TypeInv', FinishUnit PROVE IInv'
  OBVIOUS
<1>1. /\ phase' = "serving" /\ unit' = {} /\ work' = store
      /\ UNCHANGED <<store, bite, pending>>
  BY DEF FinishUnit, IInv, WorkInv
<1>2. pending \subseteq DOMAIN bite
  BY DEF IInv, TypeInv, TypeOK
<1>3. \A p \in DOMAIN bite :
        replies'[p] = NoReply => replies[p] = NoReply /\ p \notin unit
  BY DEF FinishUnit, Resolved, Error, NoReply
<1>4. Unanswered(pending)' \subseteq Unanswered(pending) \ unit
  BY <1>1, <1>2, <1>3 DEF Unanswered
<1>5. \A p \in Unanswered(pending)' : store.rows[Mention(p)] = 0
  BY <1>4 DEF IInv, UnitInv
<1>. QED  BY <1>1, <1>4, <1>5, LeavingKeepsIInv

LEMMA RepeatKeepsIInv == IInv /\ TypeInv' /\ (RespondCached \/ RepeatRaises) => IInv'
<1>. SUFFICES ASSUME IInv, TypeInv', RespondCached \/ RepeatRaises PROVE IInv'
  OBVIOUS
<1>1. /\ phase = "serving" /\ Unanswered(pending) = {} /\ unit = {}
      /\ UNCHANGED <<store, work, phase, bite, unit, draft, pending>>
  BY DEF RespondCached, RepeatRaises, Repeating, IInv, UnitInv
<1>2. pending \subseteq DOMAIN bite
  BY DEF IInv, TypeInv, TypeOK
<1>3. CASE RespondCached
  <2>1. PICK p \in repeats : \E reply : Reply(p, reply) /\ reply.kind # "none"
    <3>1. PICK p \in repeats :
            IF Mention(p) \in Clustered(work)
            THEN \E ranking \in Requeries(work, Mention(p)) : Reply(p, Resolved(ranking))
            ELSE Reply(p, Error("internal"))
      BY <1>3 DEF RespondCached
    <3>2. \A ranking : Resolved(ranking).kind # "none" /\ Error("internal").kind # "none"
      BY DEF Resolved, Error
    <3>. QED  BY <3>1, <3>2
  <2>2. Unanswered(pending)' \subseteq Unanswered(pending)
    BY <1>1, <1>2, <2>1 DEF Unanswered, Reply, NoReply, Error, IInv, TypeInv, TypeOK
  <2>. QED  BY <1>1, <2>2, AnsweringKeepsIInv
<1>4. CASE RepeatRaises
  <2>1. \A p \in DOMAIN bite : replies'[p].kind = "failed"
    BY <1>4 DEF RepeatRaises, Error
  <2>2. Unanswered(pending)' = {}
    BY <1>1, <1>2, <2>1 DEF Unanswered, NoReply, Error
  <2>. QED  BY <1>1, <2>2, AnsweringKeepsIInv
<1>. QED  BY <1>3, <1>4

LEMMA NextIInv == IInv /\ [Next]_vars /\ threadFaults' = 0 => IInv'
<1>. SUFFICES ASSUME IInv, [Next]_vars, threadFaults' = 0 PROVE IInv'
  OBVIOUS
<1>0. TypeInv'
  BY NextType DEF IInv
<1>1. CASE UNCHANGED vars
  BY <1>0, <1>1
     DEF vars, IInv, TablesSound, ClustersOf, PendingDistinct, WorkInv, UnitApplied,
         DraftsFounded, UnitInv, Unanswered, Mention
<1>2. CASE TakeBite
  <2>1. /\ phase = "idle" /\ pending = {} /\ unit = {} /\ work = store
        /\ phase' = "serving" /\ UNCHANGED <<store, work, pending, unit, draft>>
    BY <1>2 DEF TakeBite, IInv, TypeInv, NothingWhenIdle, UnitInv, WorkInv
  <2>2. Unanswered(pending)' = {}
    BY <2>1 DEF Unanswered
  <2>3. TablesSound(store)' /\ PendingDistinct'
    BY <2>1 DEF IInv, TablesSound, ClustersOf, PendingDistinct
  <2>4. WorkInv' /\ UnitInv'
    BY <2>1, <2>2 DEF WorkInv, UnitInv
  <2>. QED  BY <1>0, <2>3, <2>4 DEF IInv
<1>3. CASE Guard
  BY <1>0, <1>3, GuardKeepsIInv
<1>4. CASE BeginUnit
  BY <1>0, <1>4, BeginKeepsIInv
<1>5. CASE AssignCluster
  BY <1>0, <1>5, AssignKeepsIInv
<1>6. CASE SaveUnit
  BY <1>0, <1>6, SaveKeepsIInv
<1>7. CASE Commit
  BY <1>0, <1>7, CommitKeepsIInv
<1>8. CASE FailUnit
  BY <1>0, <1>8, FailKeepsIInv
<1>9. CASE FinishUnit
  BY <1>0, <1>9, FinishKeepsIInv
<1>10. CASE ThreadFault
  <2>1. threadFaults \in Nat
    BY ServiceAssumption DEF IInv, TypeInv, TypeOK
  <2>. QED  BY <1>10, <2>1 DEF ThreadFault
<1>11. CASE RespondCached \/ RepeatRaises
  BY <1>0, <1>11, RepeatKeepsIInv
<1>12. CASE SendResponses
  <2>1. TablesSound(store)' /\ work' = store'
    BY <1>12 DEF SendResponses, IInv, WorkInv, TablesSound, ClustersOf
  <2>. QED  BY <1>0, <1>12, <2>1, IdleKeepsIInv DEF SendResponses
<1>13. CASE CrashAndRestart
  <2>1. TablesSound(EmptyStore)
    BY DEF TablesSound, EmptyStore, ClustersOf
  <2>2. TablesSound(store')
    BY <1>13, <2>1 DEF CrashAndRestart, IInv
  <2>3. TablesSound(store)'
    BY <2>2 DEF TablesSound, ClustersOf
  <2>. QED  BY <1>0, <1>13, <2>3, IdleKeepsIInv DEF CrashAndRestart
<1>. QED
  BY <1>1, <1>2, <1>3, <1>4, <1>5, <1>6, <1>7, <1>8, <1>9, <1>10, <1>11, <1>12,
     <1>13 DEF Next, Work

\* The first step of a thread fault leaves the invariant, and no step comes back
\* to no fault.
SafeInv == TypeInv /\ (threadFaults = 0 => IInv)

LEMMA FaultsStay == TypeInv /\ [Next]_vars /\ threadFaults' = 0 => threadFaults = 0
<1>. SUFFICES ASSUME TypeInv, [Next]_vars, threadFaults' = 0, threadFaults # 0 PROVE FALSE
  OBVIOUS
<1>1. threadFaults \in Nat
  BY ServiceAssumption DEF TypeInv, TypeOK
<1>. QED
  BY <1>1 DEF Next, Work, vars, TakeBite, Guard, BeginUnit, AssignCluster, SaveUnit, Commit,
     FailUnit, FinishUnit, ThreadFault, RespondCached, RepeatRaises, SendResponses,
     CrashAndRestart

LEMMA SafeAlways == Spec => []SafeInv
<1>1. Init => SafeInv
  BY InitType, InitIInv DEF SafeInv
<1>2. SafeInv /\ [Next]_vars => SafeInv'
  BY NextType, NextIInv, FaultsStay DEF SafeInv
<1>. QED  BY <1>1, <1>2, PTL DEF Spec

(***************************************************************************)
(* As long as the training thread can be started, every stored mention has *)
(* one row and one cluster, through failures, rollbacks, the one-by-one    *)
(* fallback and crashes.                                                   *)
(***************************************************************************)
THEOREM OneCluster == Spec => []OneClusterPerMention
<1>1. SafeInv => OneClusterPerMention
  <2>. SUFFICES ASSUME IInv, NEW m \in Mentions
                PROVE  /\ store.rows[m] <= 1
                       /\ Cardinality(ClustersOf(store, m)) = store.rows[m]
    BY Zenon DEF OneClusterPerMention, MentionsAreStoredOnce, SafeInv
  <2>1. CASE store.rows[m] = 0 /\ ClustersOf(store, m) = {}
    BY <2>1, FS_EmptySet
  <2>2. CASE store.rows[m] = 1 /\ \E c \in Mentions : ClustersOf(store, m) = {c}
    <3>1. PICK c \in Mentions : ClustersOf(store, m) = {c}
      BY <2>2
    <3>2. Cardinality({c}) = 1
      BY FS_Singleton
    <3>. QED  BY <2>2, <3>1, <3>2
  <2>. QED  BY <2>1, <2>2 DEF IInv, TablesSound
<1>. QED  BY <1>1, SafeAlways, PTL

(***************************************************************************)
(* Under the same condition every cluster keeps the founder it is named by.*)
(***************************************************************************)
THEOREM FoundersRemain == Spec => []FoundersStay
<1>1. SafeInv => FoundersStay
  <2>1. IInv => store.clusters \subseteq Mentions \X Mentions
    BY DEF IInv, TypeInv, TypeOK, Stores
  <2>. QED  BY <2>1 DEF FoundersStay, SafeInv, IInv, TablesSound
<1>. QED  BY <1>1, SafeAlways, PTL

\* The tables change at a commit or when a database in memory is lost.
LEMMA OnlyCommitWrites ==
  ASSUME [Next]_vars
  PROVE  \/ Commit
         \/ ~Durable /\ store' = EmptyStore
         \/ store' = store
BY DEF Next, Work, vars, TakeBite, Guard, BeginUnit, AssignCluster, SaveUnit, FailUnit,
       FinishUnit, ThreadFault, RespondCached, RepeatRaises, SendResponses, CrashAndRestart

(***************************************************************************)
(* With a database in a file, a mention that has a cluster keeps it, and   *)
(* its content, in every step.                                             *)
(***************************************************************************)
THEOREM AssignmentsAreFinal ==
  ASSUME Durable
  PROVE  Spec => AssignmentsStand
<1>1. ASSUME IInv, [Next]_vars, NEW m \in Clustered(store)
      PROVE  ClustersOf(store', m) = ClustersOf(store, m) /\ store'.text[m] = store.text[m]
  <2>1. CASE Commit
    <3>1. UnitApplied(store') /\ \A p \in unit : store.rows[Mention(p)] = 0
      BY <1>1, <2>1, CommitAddsUnit
    <3>2. m \in Mentions /\ store.rows[m] # 0
      BY <1>1 DEF Clustered, IInv, TablesSound
    <3>3. \A p \in unit : Mention(p) # m
      BY <3>1, <3>2
    <3>. QED  BY <3>1, <3>2, <3>3 DEF UnitApplied
  <2>2. CASE store' = store
    BY <2>2
  <2>. QED  BY <1>1, <2>1, <2>2, OnlyCommitWrites
<1>2. SafeInv /\ [Next]_vars =>
        [threadFaults = 0 =>
           \A m \in Clustered(store) : /\ ClustersOf(store', m) = ClustersOf(store, m)
                                       /\ store'.text[m] = store.text[m]]_vars
  BY <1>1, Zenon DEF SafeInv
<1>. QED  BY <1>2, SafeAlways, PTL DEF Spec, AssignmentsStand

\* The cluster of a mention, read from sound tables.
ClustersIn(s) == [m \in Mentions |-> IF m \in Clustered(s)
                                     THEN CHOOSE c \in Mentions : c \in ClustersOf(s, m)
                                     ELSE None]

LEMMA ClustersInSound ==
  ASSUME NEW s, TablesSound(s), NEW m \in Mentions
  PROVE  /\ ClustersIn(s)[m] # None => ClustersOf(s, m) = {ClustersIn(s)[m]}
         /\ ClustersIn(s)[m] \in Mentions \cup {None}
         /\ ClustersIn(s)[m] = None <=> ClustersOf(s, m) = {}
         /\ ClustersIn(s)[m] = None <=> s.rows[m] = 0
<1>1. CASE ClustersOf(s, m) = {}
  BY <1>1 DEF ClustersIn, Clustered, TablesSound
<1>2. CASE \E c \in Mentions : ClustersOf(s, m) = {c}
  <2>1. PICK c \in Mentions : ClustersOf(s, m) = {c}
    BY <1>2
  <2>2. ClustersIn(s)[m] = c
    BY <2>1 DEF ClustersIn, Clustered
  <2>. QED  BY <2>1, <2>2, ServiceAssumption DEF TablesSound
<1>. QED  BY <1>1, <1>2 DEF TablesSound

\* A commit registers the mentions of its unit.
LEMMA CommitRegisters ==
  ASSUME IInv, IInv', Commit
  PROVE  Contract!Next \/ UNCHANGED Contract!vars
<1>. DEFINE new == {m \in Mentions : \E p \in unit : Mention(p) = m}
<1>1. UnitApplied(store') /\ \A p \in unit : store.rows[Mention(p)] = 0
  BY CommitAddsUnit
<1>2. TablesSound(store) /\ TablesSound(store')
  BY CommitAddsUnit DEF IInv
<1>3. store'.text \in [Mentions -> Contents \cup {None}]
      /\ store.text \in [Mentions -> Contents \cup {None}]
  BY DEF IInv, TypeInv, TypeOK, Stores
<1>4. ClusterOf = [m \in Mentions |-> ClusterOf[m]]
      /\ ClusterOf' = [m \in Mentions |-> ClusterOf'[m]]
  BY DEF ClusterOf
<1>5. ClusterOf = ClustersIn(store) /\ ClusterOf' = ClustersIn(store')
  BY DEF ClusterOf, ClustersIn, Clustered, ClustersOf
<1>6. \A m \in Mentions \ new : ClusterOf'[m] = ClusterOf[m] /\ store'.text[m] = store.text[m]
  <2>. TAKE m \in Mentions \ new
  <2>1. ClustersOf(store', m) = ClustersOf(store, m) /\ store'.text[m] = store.text[m]
    BY <1>1 DEF UnitApplied
  <2>. QED  BY <1>2, <1>5, <2>1, ClustersInSound
<1>7. CASE new = {}
  BY <1>3, <1>4, <1>6, <1>7 DEF Contract!vars
<1>8. CASE new # {}
  <2>1. new \cap Contract!Known = {}
    BY <1>1, <1>2, <1>5, ClustersInSound DEF Contract!Known
  <2>2. ASSUME NEW m \in new
        PROVE  /\ ClusterOf'[m] \in Mentions
               /\ ClusterOf'[ClusterOf'[m]] = ClusterOf'[m]
               /\ store'.text[m] \in Contents
    <3>1. store'.rows[m] = 1
      BY <1>1 DEF UnitApplied
    <3>2. ClusterOf'[m] \in Mentions /\ ClustersOf(store', m) = {ClusterOf'[m]}
      BY <1>2, <1>5, <3>1, ClustersInSound
    <3>3. <<ClusterOf'[m], ClusterOf'[m]>> \in store'.clusters
      BY <1>2, <3>2 DEF TablesSound, ClustersOf
    <3>4. ClusterOf'[m] \in ClustersOf(store', ClusterOf'[m])
      BY <3>2, <3>3 DEF ClustersOf
    <3>5. ClusterOf'[ClusterOf'[m]] = ClusterOf'[m]
      BY <1>2, <1>5, <3>2, <3>4, ClustersInSound
    <3>6. store'.text[m] \in Contents
      BY <1>2, <3>1 DEF TablesSound
    <3>. QED  BY <3>2, <3>5, <3>6
  <2>3. ClusterOf' \in [Mentions -> Mentions \cup {None}]
    BY <1>2, <1>4, <1>5, ClustersInSound
  <2>4. Contract!Register(new)
    BY <1>3, <1>6, <1>8, <2>1, <2>2, <2>3 DEF Contract!Register
  <2>. QED  BY <2>4 DEF Contract!Next
<1>. QED  BY <1>7, <1>8

(***************************************************************************)
(* The service implements the contract of StableClustering, as long as the *)
(* training thread can be started: the commit of a unit registers its      *)
(* mentions, losing a database in memory forgets all, and every other step *)
(* changes nothing that a client can rely on.                              *)
(***************************************************************************)
THEOREM ServiceImplementsContract == Spec => ClusteringIsStable
<1>1. Init => Contract!Init
  <2>. SUFFICES ASSUME Init PROVE Contract!Init
    OBVIOUS
  <2>1. Clustered(store) = {}
    BY DEF Init, EmptyStore, Clustered, ClustersOf
  <2>. QED  BY <2>1 DEF Init, EmptyStore, ClusterOf, Contract!Init, Contract!Nothing
<1>2. SafeInv /\ SafeInv' /\ [Next]_vars =>
        [threadFaults = 0 /\ store' # store => Contract!Next]_Contract!vars
  <2>. SUFFICES ASSUME SafeInv, SafeInv', [Next]_vars, threadFaults = 0, store' # store
                PROVE  Contract!Next \/ UNCHANGED Contract!vars
    OBVIOUS
  <2>1. CASE Commit
    <3>1. IInv /\ IInv'
      BY <2>1 DEF Commit, SafeInv
    <3>. QED  BY <2>1, <3>1, CommitRegisters
  <2>2. CASE ~Durable /\ store' = EmptyStore
    <3>1. ClusterOf' = [m \in Mentions |-> None] /\ store'.text = [m \in Mentions |-> None]
      BY <2>2 DEF EmptyStore, ClusterOf, Clustered, ClustersOf
    <3>. QED  BY <2>2, <3>1 DEF Contract!Next, Contract!Forget, Contract!Nothing
  <2>. QED  BY <2>1, <2>2, OnlyCommitWrites
<1>. QED  BY <1>1, <1>2, SafeAlways, PTL DEF Spec, ClusteringIsStable
=============================================================================
