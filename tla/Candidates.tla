----------------------------- MODULE Candidates -----------------------------
(***************************************************************************)
(* What the resolver computes from a mention's links: the cluster it joins,*)
(* the ranked candidate clusters it answers with and the links it keeps    *)
(* (EntityResolver._assign_cluster, _rank_candidates and _best_links in    *)
(* entity_resolution_service.py).                                          *)
(*                                                                         *)
(* A mention's links are a function from the other mentions to a score;    *)
(* a pair that was blocked or fell below the linker's floor is not in its  *)
(* domain.  A cluster is named by its founding mention.  Scores are the    *)
(* ranks 1..MaxScore: only their order and the threshold are ever used.    *)
(*                                                                         *)
(* max(), sorted() and nlargest() all let the earlier row win a tie.  The  *)
(* rows come from an SQL query without ORDER BY, so their order is any     *)
(* order, but the same one for the three: place[x] is the place of the row *)
(* of x.  Each operator returns a set with the one outcome for that order. *)
(***************************************************************************)
EXTENDS Integers, FiniteSets, Functions

CONSTANTS
  Mentions,   \* mention ids
  MaxScore,   \* the highest score a pair can get
  Threshold,  \* the score from which the best link decides the cluster
  TopN        \* links kept and candidates answered, at most

ASSUME ScoreAssumption ==
  /\ IsFiniteSet(Mentions)
  /\ MaxScore \in Nat \ {0}
  /\ Threshold \in 1..MaxScore
  /\ TopN \in Nat \ {0}

Scores == 1..MaxScore

\* The links one mention can have.
Links == UNION {[S -> Scores] : S \in SUBSET Mentions}

\* An answer: candidate clusters with their scores.  The position in the
\* answer is the score's rank, so the function carries the order.
Rankings == UNION {[S -> 0..MaxScore] : S \in SUBSET Mentions}

\* The orders in which the rows of some mentions can come.
Places(others) == Injection(others, 1..Cardinality(others))

\* a goes before b when values are sorted, highest first.
Before(f, place, a, b) == f[a] > f[b] \/ (f[a] = f[b] /\ place[a] < place[b])

\* The restriction of f to its (at most) TopN highest values.
TopOf(f, place) ==
  LET size == IF Cardinality(DOMAIN f) <= TopN THEN Cardinality(DOMAIN f) ELSE TopN
      IsTop(S) == /\ Cardinality(S) = size
                  /\ \A in \in S : \A out \in DOMAIN f \ S : Before(f, place, in, out)
  IN  {Restrict(f, S) : S \in {T \in SUBSET DOMAIN f : IsTop(T)}}

\* The other mention of the highest-scoring link.
BestMatches(links, place) ==
  {x \in DOMAIN links : \A y \in DOMAIN links \ {x} : Before(links, place, x, y)}

\* Seeded fault: > for >=.
AssignmentsAboveThreshold(m, links, place, home) ==
  {IF best \in DOMAIN home /\ links[best] > Threshold THEN home[best] ELSE m :
     best \in BestMatches(links, place)}
  \cup {m : none \in IF DOMAIN links = {} THEN {0} ELSE {}}

(***************************************************************************)
(* The cluster m is given: the best match's cluster when it is known and   *)
(* the score reaches the threshold, else the one m founds.  home maps the  *)
(* linked mentions that have a cluster to that cluster.                    *)
(***************************************************************************)
Assignments(m, links, place, home) ==
  {IF best \in DOMAIN home /\ links[best] >= Threshold THEN home[best] ELSE m :
     best \in BestMatches(links, place)}
  \cup {m : none \in IF DOMAIN links = {} THEN {0} ELSE {}}

\* The best score of each cluster among links; the mention's own cluster is
\* there with 0 when no link leads to it.
LinksInto(c, links, home) == {x \in DOMAIN links \cap DOMAIN home : home[x] = c}
LinkedClusters(links, home) == {home[x] : x \in DOMAIN links \cap DOMAIN home}

\* Seeded fault: a cluster's scores are added up.
SummedScores(own, links, home) ==
  [c \in LinkedClusters(links, home) \cup {own} |->
     SumFunctionOnSet(links, LinksInto(c, links, home))]

ClusterScores(own, links, home) ==
  [c \in LinkedClusters(links, home) \cup {own} |->
     LET scores == {links[x] : x \in LinksInto(c, links, home)} \cup {0}
     IN  CHOOSE s \in scores : \A t \in scores : t <= s]

\* A cluster enters the ranking with its first link.
ClusterPlaces(own, links, place, home) ==
  [c \in LinkedClusters(links, home) \cup {own} |->
     LET places == {place[x] : x \in LinksInto(c, links, home)}
                     \cup {Cardinality(Mentions) + 1}
     IN  CHOOSE s \in places : \A t \in places : s <= t]

\* Seeded fault: candidates are the linked mentions, not their clusters.
RankMentions(own, links, place, home) ==
  LET all == DOMAIN links \cup {own}
  IN  TopOf([x \in all |-> IF x \in DOMAIN links THEN links[x] ELSE 0],
            [x \in all |-> IF x \in DOMAIN links THEN place[x]
                                                 ELSE Cardinality(Mentions) + 1])

RankCandidates(own, links, place, home) ==
  TopOf(ClusterScores(own, links, home), ClusterPlaces(own, links, place, home))

\* The links that are stored.
BestLinks(links, place) == TopOf(links, place)
=============================================================================
