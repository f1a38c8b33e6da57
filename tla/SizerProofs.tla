---------------------------- MODULE SizerProofs ----------------------------
(***************************************************************************)
(* Proofs about BiteSizer, for any target, costs, scale and bounds.        *)
(***************************************************************************)
EXTENDS BiteSizer, TLAPS

(***************************************************************************)
(* Products and quotients of naturals.                                     *)
(***************************************************************************)
LEMMA ProductsAre ==
  ASSUME NEW a \in Nat, NEW b \in Nat
  PROVE  a * b \in Nat /\ a * b = b * a
OBVIOUS

LEMMA ProductsGroup ==
  ASSUME NEW a \in Nat, NEW b \in Nat, NEW c \in Nat
  PROVE  /\ (a * b) * c = a * (b * c)
         /\ (a * b) * c = (a * c) * b
         /\ (a + b) * c = a * c + b * c
OBVIOUS

LEMMA ProductsGrow ==
  ASSUME NEW a \in Nat, NEW b \in Nat, NEW c \in Nat, a <= b
  PROVE  a * c <= b * c
OBVIOUS

LEMMA ProductsCancel ==
  ASSUME NEW a \in Nat, NEW b \in Nat, NEW c \in Nat \ {0}, a * c <= b * c
  PROVE  a <= b
OBVIOUS

LEMMA Quotients ==
  ASSUME NEW n \in Nat, NEW d \in Nat \ {0}
  PROVE  /\ n \div d \in Nat /\ n % d \in Nat
         /\ (n \div d) * d <= n
OBVIOUS

LEMMA Constants ==
  /\ MaxMentions \in Nat \ {0} /\ Target \in Nat \ {0} /\ Overhead \in Nat \ {0}
  /\ Cost \in Nat \ {0} /\ Stall \in Nat \ {0} /\ Scale \in Nat \ {0}
BY SizerAssumption

\* Rounding adds at most one to the quotient.
LEMMA RoundBound ==
  ASSUME NEW n \in Nat, NEW d \in Nat \ {0}
  PROVE  Round(n, d) \in Nat /\ Round(n, d) <= n \div d + 1
<1>. DEFINE floor == n \div d
<1>1. floor \in Nat
  BY Quotients
<1>2. Round(n, d) = floor \/ Round(n, d) = floor + 1
  BY Zenon DEF Round
<1>. HIDE DEF floor
<1>3. Round(n, d) \in Nat /\ Round(n, d) <= floor + 1
  BY <1>1, <1>2
<1>. QED  BY <1>3 DEF floor

(***************************************************************************)
(* The limit follows from the average, and the average from what has been  *)
(* measured: however much a bite is disturbed, it takes Cost ticks for each*)
(* of its requests, so no average promises more than that allows.          *)
(***************************************************************************)
Promise == rate \in Nat /\ rate * Cost <= Scale
SizerInv == last \in Kinds /\ (rate = None \/ Promise)

LEMMA LimitInRange ==
  ASSUME SizerInv
  PROVE  Limit \in 1..MaxMentions
<1>. DEFINE wanted == Round(rate * Target, Scale)
<1>1. CASE rate = None
  BY <1>1, Constants DEF Limit
<1>2. CASE Promise
  <2>1. rate * Target \in Nat
    BY <1>2, Constants, ProductsAre DEF Promise
  <2>2. wanted \in Nat
    BY <2>1, Constants, RoundBound
  <2>. HIDE DEF wanted
  <2>3. Limit = IF rate = None \/ wanted > MaxMentions THEN MaxMentions
                ELSE IF wanted < 1 THEN 1 ELSE wanted
    BY DEF Limit, wanted
  <2>. QED  BY <2>2, <2>3, Constants
<1>. QED  BY <1>1, <1>2 DEF SizerInv

\* What is measured of a bite is within the promise.
LEMMA ObservedIsPromised ==
  ASSUME NEW n \in Nat \ {0}, NEW ticks \in Nat \ {0}, Cost * n <= ticks
  PROVE  LET observed == (n * Scale) \div ticks
         IN  observed \in Nat /\ observed * Cost <= Scale
<1>. DEFINE observed == (n * Scale) \div ticks
<1>1. n * Scale \in Nat /\ Cost * n \in Nat
  BY Constants, ProductsAre
<1>2. observed \in Nat /\ observed * ticks <= n * Scale
  BY <1>1, Quotients
<1>. HIDE DEF observed
<1>3. (Cost * n) * observed <= ticks * observed
  BY <1>1, <1>2, ProductsGrow
<1>4. (Cost * n) * observed = (observed * Cost) * n
  BY <1>2, Constants
<1>5. ticks * observed = observed * ticks /\ n * Scale = Scale * n
  BY <1>2, Constants, ProductsAre
<1>6. (observed * Cost) * n <= Scale * n
  <2>1. /\ (observed * Cost) * n \in Int /\ Scale * n \in Int
        /\ observed * ticks \in Int
    BY <1>2, Constants
  <2>. QED  BY <1>2, <1>3, <1>4, <1>5, <2>1
<1>7. observed * Cost \in Nat
  BY <1>2, Constants, ProductsAre
<1>8. observed * Cost <= Scale
  BY <1>6, <1>7, Constants, ProductsCancel
<1>. QED  BY <1>2, <1>8 DEF observed

\* An average of two promises is a promise.
LEMMA AverageIsPromised ==
  ASSUME NEW o \in Nat, NEW r \in Nat, o * Cost <= Scale, r * Cost <= Scale
  PROVE  LET average == (3 * o + 7 * r) \div 10
         IN  average \in Nat /\ average * Cost <= Scale
<1>. DEFINE average == (3 * o + 7 * r) \div 10
<1>1. average \in Nat /\ average * 10 <= 3 * o + 7 * r
  BY Quotients
<1>. HIDE DEF average
<1>2. (average * 10) * Cost <= (3 * o + 7 * r) * Cost
  BY <1>1, Constants, ProductsGrow
<1>3. /\ (average * 10) * Cost = (average * Cost) * 10
      /\ (3 * o + 7 * r) * Cost = 3 * (o * Cost) + 7 * (r * Cost)
  BY <1>1, Constants
<1>4. average * Cost \in Nat /\ o * Cost \in Nat /\ r * Cost \in Nat
  BY <1>1, Constants, ProductsAre
<1>5. average * Cost <= Scale
  BY <1>2, <1>3, <1>4, Constants
<1>. QED  BY <1>1, <1>5 DEF average

LEMMA ObserveKeepsInv ==
  ASSUME SizerInv, NEW n \in Nat \ {0}, NEW ticks \in Nat,
         ticks = 0 \/ Cost * n <= ticks, Observe(n, ticks), last' \in Kinds
  PROVE  SizerInv'
<1>. DEFINE observed == (n * Scale) \div ticks
<1>1. rate' = IF ticks <= 0 THEN rate
              ELSE IF rate = None THEN observed ELSE (3 * observed + 7 * rate) \div 10
  BY DEF Observe
<1>2. CASE ticks = 0
  BY <1>1, <1>2 DEF SizerInv, Promise
<1>3. CASE ticks # 0
  <2>1. observed \in Nat /\ observed * Cost <= Scale
    BY <1>3, ObservedIsPromised
  <2>. HIDE DEF observed
  <2>2. rate' = IF rate = None THEN observed ELSE (3 * observed + 7 * rate) \div 10
    BY <1>1, <1>3
  <2>3. CASE rate = None
    BY <2>1, <2>2, <2>3 DEF SizerInv, Promise
  <2>4. CASE Promise
    <3>1. rate # None
      BY <2>4 DEF Promise, None
    <3>2. Promise'
      BY <2>1, <2>2, <2>4, <3>1, AverageIsPromised DEF Promise
    <3>. QED  BY <3>2 DEF SizerInv
  <2>. QED  BY <2>3, <2>4 DEF SizerInv
<1>. QED  BY <1>2, <1>3

LEMMA NextSizer == SizerInv /\ [Next]_vars => SizerInv'
<1>. SUFFICES ASSUME SizerInv, [Next]_vars PROVE SizerInv'
  OBVIOUS
<1>1. Limit \in 1..MaxMentions
  BY LimitInRange
<1>2. ASSUME NEW n \in Nat \ {0}
      PROVE  /\ Duration(n) \in Nat /\ Cost * n <= Duration(n)
             /\ Duration(n) + Stall \in Nat /\ Cost * n <= Duration(n) + Stall
  <2>1. Cost * n \in Nat
    BY Constants, ProductsAre
  <2>. QED  BY <2>1, Constants DEF Duration
<1>3. 1..MaxMentions \subseteq Nat \ {0}
  BY Constants
<1>4. CASE FullBite
  <2>1. Limit \in Nat \ {0}
    BY <1>1, <1>3
  <2>2. Observe(Limit, Duration(Limit)) /\ last' \in Kinds
    BY <1>4 DEF FullBite, Kinds
  <2>. QED  BY <1>2, <2>1, <2>2, ObserveKeepsInv
<1>5. CASE SparseBite
  <2>1. PICK n \in 1..Limit - 1 : Observe(n, Duration(n))
    BY <1>5 DEF SparseBite
  <2>2. n \in Nat \ {0} /\ last' \in Kinds
    BY <1>1, <1>5, Constants DEF SparseBite, Kinds
  <2>. QED  BY <1>2, <2>1, <2>2, ObserveKeepsInv
<1>6. CASE StalledBite
  <2>1. PICK n \in 1..Limit : Observe(n, Duration(n) + Stall)
    BY <1>6 DEF StalledBite
  <2>2. n \in Nat \ {0} /\ last' \in Kinds
    BY <1>1, <1>6, Constants DEF StalledBite, Kinds
  <2>. QED  BY <1>2, <2>1, <2>2, ObserveKeepsInv
<1>7. CASE UnmeasuredBite
  <2>1. PICK n \in 1..Limit : Observe(n, 0)
    BY <1>7 DEF UnmeasuredBite
  <2>2. n \in Nat \ {0} /\ last' \in Kinds
    BY <1>1, <1>7, Constants DEF UnmeasuredBite, Kinds
  <2>. QED  BY <2>1, <2>2, ObserveKeepsInv
<1>8. CASE UNCHANGED vars
  BY <1>8 DEF vars, SizerInv, Promise
<1>. QED  BY <1>4, <1>5, <1>6, <1>7, <1>8 DEF Next

LEMMA SizerAlways == Spec => []SizerInv
<1>1. Init => SizerInv
  BY DEF Init, SizerInv, Kinds
<1>. QED  BY <1>1, NextSizer, PTL DEF Spec

(***************************************************************************)
(* The next bite has at least one request and at most max_mentions, and    *)
(* the average is a rate, whatever was measured and in whatever order.     *)
(***************************************************************************)
THEOREM LimitsAreInRange == Spec => []TypeOK
<1>1. SizerInv => TypeOK
  <2>. SUFFICES ASSUME SizerInv PROVE TypeOK
    OBVIOUS
  <2>1. Promise => rate \in 0..Scale
    <3>. SUFFICES ASSUME Promise PROVE rate <= Scale
      BY Constants DEF Promise
    <3>1. rate * 1 <= rate * Cost /\ rate * Cost \in Nat
      <4>1. 1 * rate <= Cost * rate
        BY Constants, ProductsGrow DEF Promise
      <4>. QED  BY <4>1, Constants, ProductsAre DEF Promise
    <3>. QED  BY <3>1, Constants DEF Promise
  <2>. QED  BY <2>1, LimitInRange DEF SizerInv, TypeOK
<1>. QED  BY <1>1, SizerAlways, PTL

(***************************************************************************)
(* A bite that is sized by the average takes, but for one request that     *)
(* rounding may add, no longer than the target and one overhead.           *)
(***************************************************************************)
THEOREM BitesKeepToTarget == Spec => []KeepsToTarget
<1>1. SizerInv => KeepsToTarget
  <2>. SUFFICES ASSUME Promise, rate # None
                PROVE  Duration(Limit - 1) <= Target + Overhead
    BY DEF SizerInv, KeepsToTarget
  <2>. DEFINE wanted == Round(rate * Target, Scale)
              floor == (rate * Target) \div Scale
  <2>0. SizerInv => Limit \in 1..MaxMentions
    BY LimitInRange
  <2>1. rate * Target \in Nat /\ rate \in Nat
    BY Constants, ProductsAre DEF Promise
  <2>2. wanted \in Nat /\ wanted <= floor + 1 /\ floor \in Nat /\ floor * Scale <= rate * Target
    BY <2>1, Constants, RoundBound, Quotients
  <2>3. Limit = IF rate = None \/ wanted > MaxMentions THEN MaxMentions
                ELSE IF wanted < 1 THEN 1 ELSE wanted
    BY DEF Limit
  <2>. HIDE DEF wanted, floor
  <2>4. Limit - 1 \in Nat /\ Limit - 1 <= floor
    BY <2>2, <2>3, Constants
  <2>5. Cost * (Limit - 1) <= Target
    <3>1. floor * Cost <= Target
      <4>1. (floor * Scale) * Cost <= (rate * Target) * Cost
        <5>1. floor * Scale \in Nat
          BY <2>2, Constants, ProductsAre
        <5>. QED  BY <2>1, <2>2, <5>1, Constants, ProductsGrow
      <4>2. /\ (floor * Scale) * Cost = (floor * Cost) * Scale
            /\ (rate * Target) * Cost = (rate * Cost) * Target
        BY <2>1, <2>2, Constants, ProductsGroup
      <4>3. (rate * Cost) * Target <= Scale * Target
        <5>1. rate * Cost \in Nat
          BY <2>1, Constants, ProductsAre
        <5>. QED  BY <5>1, Constants, ProductsGrow DEF Promise
      <4>4. Scale * Target = Target * Scale
        BY Constants, ProductsAre
      <4>5. floor * Cost \in Nat
        BY <2>2, Constants, ProductsAre
      <4>6. (floor * Cost) * Scale <= Target * Scale
        <5>1. /\ (floor * Cost) * Scale \in Int /\ Target * Scale \in Int
              /\ (rate * Cost) * Target \in Int
          BY <2>1, <4>5, Constants
        <5>. QED  BY <4>1, <4>2, <4>3, <4>4, <5>1
      <4>. QED  BY <4>5, <4>6, Constants, ProductsCancel
    <3>2. (Limit - 1) * Cost <= floor * Cost
      BY <2>2, <2>4, Constants, ProductsGrow
    <3>3. (Limit - 1) * Cost = Cost * (Limit - 1) /\ (Limit - 1) * Cost \in Nat
      BY <2>4, Constants, ProductsAre
    <3>. QED  BY <2>2, <3>1, <3>2, <3>3, Constants
  <2>6. Cost * (Limit - 1) \in Nat
    BY <2>4, Constants, ProductsAre
  <2>. QED  BY <2>5, <2>6, Constants DEF Duration
<1>. QED  BY <1>1, SizerAlways, PTL
=============================================================================
