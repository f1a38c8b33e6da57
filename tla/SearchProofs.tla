---------------------------- MODULE SearchProofs ----------------------------
(***************************************************************************)
(* Proofs about SearchSpace, for any mentions, fields, documents,          *)
(* normalised forms, configurations and sizes of bites.                    *)
(***************************************************************************)
EXTENDS SearchSpace, TLAPS

(***************************************************************************)
(* A row holds what was known of the arrival's document when it was stored,*)
(* in columns that no start changes once there is a row; every             *)
(* configuration that stored a row had its columns, and the mentions that  *)
(* its rules need.  With that what the rules do with rows and records can  *)
(* be said of documents, so that it carries over from one bite to the next.*)
(* It is not quite what they are documented to do: a new record has an     *)
(* empty text for a missing value, which matches a stored empty text       *)
(* (splink_linker_impl.py:297).  The invariant follows the code; that      *)
(* LinksFollowRules holds nevertheless is concluded at the end.            *)
(***************************************************************************)
Fits(c) == Valid(c) /\ c.entity \subseteq columns.raw /\ c.normalised \subseteq columns.copies

RowFor(a) == [raw    |-> [f \in columns.raw |-> Known(a, f)],
              copies |-> [f \in columns.copies |-> KnownName(a, f)]]

ConfigsFit ==
  /\ config # Null => Fits(config)
  /\ \A i \in DOMAIN arrivals : Fits(arrivals[i].config) /\ Scorable(arrivals[i].config)

ArrivalsDiffer ==
  \A i, j \in DOMAIN arrivals : arrivals[i].mention = arrivals[j].mention => i = j

RowsOfArrivals ==
  /\ DOMAIN rows = {arrivals[i].mention : i \in DOMAIN arrivals}
  /\ \A i \in DOMAIN arrivals : rows[arrivals[i].mention] = RowFor(arrivals[i])

SameText(old, new) == Equal(old, new) \/ (old = Blank /\ new = Null)
AdmittedByCode(old, new) ==
  \E rule \in new.config.rules :
    /\ \A f \in rule.same : SameText(Known(old, f), Known(new, f))
    /\ \A f \in rule.similar : Equal(KnownName(old, f), KnownName(new, f))
LinksByCode ==
  \A i, j \in DOMAIN arrivals :
    <<arrivals[j].mention, arrivals[i].mention>> \in links
      <=> i < j /\ AdmittedByCode(arrivals[i], arrivals[j])

SearchInv == TypeOK /\ ConfigsFit /\ ArrivalsDiffer /\ RowsOfArrivals /\ LinksByCode

-----------------------------------------------------------------------------
(***************************************************************************)
(* Documents, rows and rules.                                              *)
(***************************************************************************)
Arrivals == [mention : Mentions, document : Documents, config : Configs]

LEMMA ConfigTypes ==
  ASSUME NEW c \in Configs
  PROVE  /\ c.mapped \subseteq Fields /\ c.entity \subseteq Fields /\ c.normalised \subseteq Fields
         /\ c.rules \subseteq Rules
         /\ \A rule \in c.rules : rule.same \subseteq Fields /\ rule.similar \subseteq Fields
<1>1. c.mapped \in SUBSET Fields /\ c.entity \in SUBSET Fields /\ c.normalised \in SUBSET Fields
      /\ c.rules \in SUBSET Rules
  BY SearchSpaceAssumption DEF ConfigAssumption
<1>2. \A rule \in Rules : rule.same \in SUBSET Fields /\ rule.similar \in SUBSET Fields
  BY DEF Rules
<1>. QED  BY <1>1, <1>2

\* What is known of a document is a text, or nothing.
LEMMA KnownTypes ==
  ASSUME NEW a \in Arrivals, NEW f
  PROVE  Known(a, f) \in Values /\ KnownName(a, f) \in Forms
<1>1. a.document \in [Fields -> Values] /\ a.config \in Configs
  BY SearchSpaceAssumption DEF Arrivals, Values
<1>2. a.config.entity \subseteq Fields
  BY <1>1, ConfigTypes
<1>3. Known(a, f) \in Values
  BY <1>1, <1>2 DEF Known, Values
<1>4. \A value \in Values : Normalise(value) \in Forms
  BY DEF Normalise, Values, Forms
<1>5. Null \in Forms
  BY DEF Forms
<1>. QED  BY <1>3, <1>4, <1>5 DEF KnownName

\* The row that is inserted holds what is known of the document.
LEMMA RowIsKnown ==
  ASSUME NEW a \in Arrivals, Valid(a.config)
  PROVE  RowOf(a.config, Attributes(a.config, a.document)) = RowFor(a)
<1>. DEFINE c == a.config
            attributes == Attributes(c, a.document)
<1>1. \A f : ValueOf(attributes, f) = IF f \in c.mapped THEN a.document[f] ELSE Null
  BY DEF ValueOf, Attributes, Restrict
<1>. HIDE DEF attributes
<1>2. \A f : (IF f \in c.entity THEN ValueOf(attributes, f) ELSE Null) = Known(a, f)
  BY <1>1 DEF Known
<1>3. \A f : (IF f \in c.normalised THEN Normalise(ValueOf(attributes, f)) ELSE Null)
                = KnownName(a, f)
  <2>1. c.normalised \subseteq c.entity
    BY DEF Valid
  <2>2. \A f \in c.normalised : ValueOf(attributes, f) = Known(a, f)
    BY <1>1, <2>1 DEF Known
  <2>. QED  BY <2>2 DEF KnownName
<1>4. RowOf(c, attributes) = RowFor(a)
  BY <1>2, <1>3 DEF RowOf, RowFor
<1>. QED  BY <1>4 DEF attributes

LEMMA RowTypes ==
  ASSUME NEW a \in Arrivals
  PROVE  RowFor(a) \in [raw : [columns.raw -> Values], copies : [columns.copies -> Forms]]
<1>1. \A f : Known(a, f) \in Values /\ KnownName(a, f) \in Forms
  BY KnownTypes
<1>. QED  BY <1>1 DEF RowFor

\* A rule over a row and a new record is the rule over their documents.
LEMMA RulesCompareDocuments ==
  ASSUME NEW a \in Arrivals, NEW b \in Arrivals, Fits(b.config), Scorable(b.config),
         NEW rule \in b.config.rules
  PROVE  Admits(rule, RowFor(a), NewRecord(b.config, Attributes(b.config, b.document)))
           <=> /\ \A f \in rule.same : SameText(Known(a, f), Known(b, f))
               /\ \A f \in rule.similar : Equal(KnownName(a, f), KnownName(b, f))
<1>. DEFINE c == b.config
            new == NewRecord(c, Attributes(c, b.document))
            old == RowFor(a)
            Text(f) == IF b.document[f] = Null THEN Blank ELSE b.document[f]
<1>1. /\ rule.same \subseteq c.entity \cap c.mapped /\ rule.similar \subseteq c.normalised
      /\ c.normalised \subseteq c.entity \cap c.mapped
      /\ c.entity \subseteq columns.raw /\ c.normalised \subseteq columns.copies
  BY DEF Fits, Valid, Scorable
<1>2. /\ \A f \in c.mapped : new.raw[f] = Text(f)
      /\ \A f \in c.normalised : new.copies[f] = Normalise(Text(f))
  <2>. DEFINE attributes == Attributes(c, b.document)
              text == [f \in DOMAIN attributes |-> IF attributes[f] = Null THEN Blank
                                                                          ELSE attributes[f]]
  <2>1. /\ DOMAIN attributes = c.mapped
        /\ \A f \in c.mapped : attributes[f] = b.document[f]
    BY DEF Attributes, Restrict
  <2>2. new = [raw |-> text, copies |-> [f \in c.normalised |-> Normalise(text[f])]]
    BY DEF NewRecord
  <2>. HIDE DEF attributes, new
  <2>3. \A f \in c.mapped : text[f] = Text(f)
    BY <2>1
  <2>. HIDE DEF text, Text
  <2>4. /\ new.raw = text
        /\ \A f \in c.normalised : new.copies[f] = Normalise(text[f])
    BY <2>2
  <2>. QED  BY <1>1, <2>3, <2>4
<1>3. /\ \A f \in c.entity : old.raw[f] = Known(a, f)
      /\ \A f \in c.normalised : old.copies[f] = KnownName(a, f)
  BY <1>1 DEF RowFor
<1>4. \A f \in c.entity \cap c.mapped : Known(b, f) = b.document[f]
  BY DEF Known
<1>5. \A f \in c.normalised : KnownName(b, f) = Normalise(b.document[f])
  BY <1>1, <1>4 DEF KnownName
<1>6. Blank # Null /\ Normalise(Blank) = Null /\ Normalise(Null) = Null
  BY SearchSpaceAssumption DEF Normalise
<1>. HIDE DEF new, old
<1>7. ASSUME NEW f \in rule.same
      PROVE  Equal(old.raw[f], new.raw[f]) <=> SameText(Known(a, f), Known(b, f))
  <2>1. /\ old.raw[f] = Known(a, f) /\ Known(b, f) = b.document[f] /\ new.raw[f] = Text(f)
    BY <1>1, <1>2, <1>3, <1>4
  <2>. QED  BY <1>6, <2>1 DEF Equal, SameText
<1>8. ASSUME NEW f \in rule.similar
      PROVE  Equal(old.copies[f], new.copies[f]) <=> Equal(KnownName(a, f), KnownName(b, f))
  <2>1. /\ old.copies[f] = KnownName(a, f) /\ KnownName(b, f) = Normalise(b.document[f])
        /\ new.copies[f] = Normalise(Text(f))
    BY <1>1, <1>2, <1>3, <1>5
  <2>2. Normalise(Text(f)) = Normalise(b.document[f])
    BY <1>6
  <2>. QED  BY <2>1, <2>2 DEF Equal
<1>9. Admits(rule, old, new) <=>
        /\ \A f \in rule.same : SameText(Known(a, f), Known(b, f))
        /\ \A f \in rule.similar : Equal(KnownName(a, f), KnownName(b, f))
  BY <1>7, <1>8 DEF Admits
<1>. QED  BY <1>9 DEF old, new

-----------------------------------------------------------------------------
(***************************************************************************)
(* The steps.                                                              *)
(***************************************************************************)
LEMMA InitSearch == Init => SearchInv
<1>. SUFFICES ASSUME Init PROVE SearchInv
  OBVIOUS
<1>1. arrivals = <<>> /\ DOMAIN arrivals = {} /\ arrivals \in Seq(Arrivals)
  BY DEF Init
<1>2. DOMAIN rows = {} /\ links = {} /\ config = Null
      /\ columns \in [raw : SUBSET Fields, copies : SUBSET Fields]
  BY DEF Init
<1>3. TypeOK
  BY <1>1, <1>2 DEF TypeOK, Arrivals
<1>. QED
  BY <1>1, <1>2, <1>3
     DEF SearchInv, ConfigsFit, ArrivalsDiffer, RowsOfArrivals, LinksByCode

\* Steps that store nothing: what fits the columns still does.
LEMMA StartingKeeps ==
  ASSUME SearchInv, UNCHANGED <<rows, links, arrivals>>,
         columns' = columns \/ (~TableExists /\ columns' \in [raw : SUBSET Fields, copies : SUBSET Fields]),
         config' \in Configs \cup {Null}, (config # Null => Fits(config))'
  PROVE  SearchInv'
<1>1. CASE columns' = columns
  <2>1. \A c : Fits(c)' <=> Fits(c)
    BY <1>1 DEF Fits
  <2>2. \A a : RowFor(a)' = RowFor(a)
    BY <1>1 DEF RowFor
  <2>3. TypeOK'
    BY <1>1 DEF SearchInv, TypeOK
  <2>4. LinksByCode'
    BY DEF SearchInv, LinksByCode
  <2>5. ConfigsFit'
    BY <2>1 DEF SearchInv, ConfigsFit
  <2>6. ArrivalsDiffer' /\ RowsOfArrivals'
    BY <2>2 DEF SearchInv, ArrivalsDiffer, RowsOfArrivals
  <2>. QED  BY <2>3, <2>4, <2>5, <2>6 DEF SearchInv
<1>2. CASE ~TableExists /\ columns' \in [raw : SUBSET Fields, copies : SUBSET Fields]
  <2>1. DOMAIN arrivals = {}
    <3>. SUFFICES ASSUME NEW i \in DOMAIN arrivals PROVE FALSE
      OBVIOUS
    <3>1. Fits(arrivals[i].config)
      BY DEF SearchInv, ConfigsFit
    <3>. QED  BY <1>2, <3>1 DEF Fits, Valid, TableExists
  <2>2. DOMAIN rows = {}
    BY <2>1 DEF SearchInv, RowsOfArrivals
  <2>3. TypeOK'
    BY <1>2, <2>2 DEF SearchInv, TypeOK
  <2>4. ConfigsFit' /\ ArrivalsDiffer' /\ LinksByCode'
    BY <2>1 DEF ConfigsFit, ArrivalsDiffer, LinksByCode
  <2>5. RowsOfArrivals'
    BY <2>1, <2>2 DEF RowsOfArrivals
  <2>. QED  BY <2>3, <2>4, <2>5 DEF SearchInv
<1>. QED  BY <1>1, <1>2

\* The columns that a start leaves behind have those of its normalised copies.
LEMMA SchemaTypes ==
  ASSUME TypeOK, NEW c \in Configs, ~Outdated(c), InitSchema(c)
  PROVE  /\ columns' = columns \/ (~TableExists /\ columns' \in [raw : SUBSET Fields, copies : SUBSET Fields])
         /\ c.normalised \subseteq columns'.copies
<1>1. c.entity \subseteq Fields /\ c.normalised \subseteq Fields
  BY ConfigTypes
<1>2. CASE TableExists
  BY <1>2 DEF Outdated, InitSchema
<1>3. CASE ~TableExists
  <2>1. columns' = [raw |-> c.entity, copies |-> c.normalised]
    BY <1>3 DEF InitSchema
  <2>. QED  BY <1>1, <1>3, <2>1
<1>. QED  BY <1>2, <1>3

LEMMA StartKeeps == SearchInv /\ Start => SearchInv'
<1>. SUFFICES ASSUME SearchInv, Start PROVE SearchInv'
  OBVIOUS
<1>1. PICK c \in Configs : /\ Valid(c) /\ ~Outdated(c) /\ InitSchema(c)
                           /\ c.entity \subseteq columns'.raw /\ config' = c
  BY DEF Start
<1>2. /\ columns' = columns \/ (~TableExists /\ columns' \in [raw : SUBSET Fields, copies : SUBSET Fields])
      /\ c.normalised \subseteq columns'.copies
  BY <1>1, SchemaTypes DEF SearchInv
<1>3. Fits(config)'
  BY <1>1, <1>2 DEF Fits, Valid
<1>. QED  BY <1>1, <1>2, <1>3, StartingKeeps DEF Start

LEMMA FailStartKeeps == SearchInv /\ FailStart => SearchInv'
<1>. SUFFICES ASSUME SearchInv, FailStart PROVE SearchInv'
  OBVIOUS
<1>1. PICK c \in Configs : ~Outdated(c) /\ InitSchema(c)
  BY DEF FailStart
<1>2. columns' = columns \/ (~TableExists /\ columns' \in [raw : SUBSET Fields, copies : SUBSET Fields])
  BY <1>1, SchemaTypes DEF SearchInv
<1>3. config' = Null /\ UNCHANGED <<rows, links, arrivals>>
  BY DEF FailStart
<1>. QED  BY <1>2, <1>3, StartingKeeps

LEMMA StopKeeps == SearchInv /\ Stop => SearchInv'
BY StartingKeeps DEF Stop

-----------------------------------------------------------------------------
(***************************************************************************)
(* A bite.                                                                 *)
(***************************************************************************)
IsNewBite(bite) ==
  /\ bite \in Seq(Arrivals)
  /\ \A i \in DOMAIN bite : bite[i].config = config /\ bite[i].mention \notin DOMAIN rows
  /\ \A i, j \in DOMAIN bite : bite[i].mention = bite[j].mention => i = j

LEMMA BitesAreNew ==
  ASSUME SearchInv, ResolveBite
  PROVE  /\ config \in Configs /\ Fits(config) /\ Scorable(config) /\ UNCHANGED <<config, columns>>
         /\ \E bite : IsNewBite(bite) /\ InsertRows(bite) /\ ScoreBite(bite)
                       /\ arrivals' = arrivals \o bite
<1>1. config \in Configs /\ Fits(config) /\ Scorable(config) /\ UNCHANGED <<config, columns>>
  BY DEF ResolveBite, SearchInv, TypeOK, ConfigsFit
<1>2. PICK n \in 1..MaxBite : \E mentions \in [1..n -> Mentions \ DOMAIN rows],
                                 documents \in [1..n -> Documents] :
        /\ \A i, j \in 1..n : i # j => mentions[i] # mentions[j]
        /\ LET bite == [i \in 1..n |-> [mention |-> mentions[i], document |-> documents[i],
                                        config |-> config]]
           IN  InsertRows(bite) /\ ScoreBite(bite) /\ arrivals' = arrivals \o bite
  BY DEF ResolveBite
<1>3. PICK mentions \in [1..n -> Mentions \ DOMAIN rows], documents \in [1..n -> Documents] :
        /\ \A i, j \in 1..n : i # j => mentions[i] # mentions[j]
        /\ LET bite == [i \in 1..n |-> [mention |-> mentions[i], document |-> documents[i],
                                        config |-> config]]
           IN  InsertRows(bite) /\ ScoreBite(bite) /\ arrivals' = arrivals \o bite
  BY <1>2
<1>. DEFINE bite == [i \in 1..n |-> [mention |-> mentions[i], document |-> documents[i],
                                     config |-> config]]
<1>4. InsertRows(bite) /\ ScoreBite(bite) /\ arrivals' = arrivals \o bite
  BY <1>3
<1>5. n \in Nat /\ \A i \in 1..n : bite[i] \in Arrivals
  BY <1>1, <1>2, SearchSpaceAssumption DEF Arrivals
<1>6. bite \in [1..n -> Arrivals]
  BY <1>5
<1>7. bite \in Seq(Arrivals)
  BY <1>5, <1>6
<1>8. \A i \in DOMAIN bite : bite[i].config = config /\ bite[i].mention = mentions[i]
                             /\ mentions[i] \notin DOMAIN rows
  OBVIOUS
<1>9. DOMAIN bite = 1..n
  OBVIOUS
<1>. HIDE DEF bite
<1>10. IsNewBite(bite)
  BY <1>3, <1>7, <1>8, <1>9 DEF IsNewBite
<1>. QED  BY <1>1, <1>4, <1>10

\* A sequence that follows another.
LEMMA Following ==
  ASSUME NEW a \in Seq(Arrivals), NEW b \in Seq(Arrivals)
  PROVE  /\ a \o b \in Seq(Arrivals)
         /\ Len(a) \in Nat /\ DOMAIN a = 1..Len(a) /\ DOMAIN b = 1..Len(b)
         /\ \A i \in DOMAIN a : i \in DOMAIN (a \o b) /\ (a \o b)[i] = a[i]
         /\ \A i \in DOMAIN b : Len(a) + i \in DOMAIN (a \o b) /\ (a \o b)[Len(a) + i] = b[i]
         /\ \A i \in DOMAIN (a \o b) :
              i \in DOMAIN a \/ \E k \in DOMAIN b : i = Len(a) + k
<1>1. a \o b \in Seq(Arrivals) /\ Len(a \o b) = Len(a) + Len(b)
  OBVIOUS
<1>2. /\ DOMAIN a = 1..Len(a) /\ DOMAIN b = 1..Len(b) /\ DOMAIN (a \o b) = 1..Len(a) + Len(b)
      /\ Len(a) \in Nat /\ Len(b) \in Nat
  BY <1>1
<1>3. \A i \in DOMAIN a : i \in DOMAIN (a \o b) /\ (a \o b)[i] = a[i]
  BY <1>2
<1>4. \A i \in DOMAIN b : Len(a) + i \in DOMAIN (a \o b) /\ (a \o b)[Len(a) + i] = b[i]
  BY <1>2
<1>5. ASSUME NEW i \in 1..Len(a) + Len(b), i \notin 1..Len(a)
      PROVE  \E k \in 1..Len(b) : i = Len(a) + k
  <2>1. i - Len(a) \in 1..Len(b) /\ i = Len(a) + (i - Len(a))
    BY <1>2, <1>5
  <2>. QED  BY <2>1
<1>. QED  BY <1>1, <1>2, <1>3, <1>4, <1>5

\* The rows that are inserted hold what is known of the documents.
LEMMA InsertedRows ==
  ASSUME NEW bite, IsNewBite(bite), InsertRows(bite), Fits(config)
  PROVE  /\ DOMAIN rows' = DOMAIN rows \cup {bite[i].mention : i \in DOMAIN bite}
         /\ \A m \in DOMAIN rows : rows'[m] = rows[m]
         /\ \A i \in DOMAIN bite : rows'[bite[i].mention] = RowFor(bite[i])
<1>1. DOMAIN rows' = DOMAIN rows \cup {bite[i].mention : i \in DOMAIN bite}
  BY DEF InsertRows
<1>2. \A m \in DOMAIN rows : rows'[m] = rows[m]
  BY DEF InsertRows
<1>3. ASSUME NEW i \in DOMAIN bite PROVE rows'[bite[i].mention] = RowFor(bite[i])
  <2>. DEFINE m == bite[i].mention
  <2>1. m \notin DOMAIN rows /\ bite[i] \in Arrivals /\ bite[i].config = config
    BY DEF IsNewBite
  <2>2. (CHOOSE j \in DOMAIN bite : bite[j].mention = m) = i
    BY DEF IsNewBite
  <2>3. rows'[m] = RowOf(config, Attributes(config, bite[i].document))
    BY <2>1, <2>2 DEF InsertRows
  <2>4. RowOf(bite[i].config, Attributes(bite[i].config, bite[i].document)) = RowFor(bite[i])
    BY <2>1, RowIsKnown DEF Fits
  <2>. QED  BY <2>1, <2>3, <2>4
<1>. QED  BY <1>1, <1>2, <1>3

\* A new mention is linked to those that a rule admits, but for itself and the
\* later members of its bite; no other mention is linked to anything new.
LEMMA NewLinks ==
  ASSUME TypeOK, NEW bite, IsNewBite(bite), ScoreBite(bite)
  PROVE  /\ \A x, y : x \in DOMAIN rows => (<<x, y>> \in links' <=> <<x, y>> \in links)
         /\ \A k \in DOMAIN bite : \A y :
              <<bite[k].mention, y>> \in links' <=>
                /\ y \in DOMAIN rows' /\ Keep(bite, k, y)
                /\ \E rule \in config.rules :
                     Admits(rule, rows'[y],
                            NewRecord(config, Attributes(config, bite[k].document)))
<1>. DEFINE Linked(k) == {x \in DOMAIN rows' :
                /\ Keep(bite, k, x)
                /\ \E rule \in config.rules :
                     Admits(rule, rows'[x],
                            NewRecord(config, Attributes(config, bite[k].document)))}
<1>1. links' = links \cup UNION {{<<bite[k].mention, other>> : other \in Linked(k)} :
                                   k \in DOMAIN bite}
  BY DEF ScoreBite
<1>2. /\ links \subseteq (DOMAIN rows) \X (DOMAIN rows)
      /\ \A k \in DOMAIN bite : bite[k].mention \notin DOMAIN rows
      /\ \A k, l \in DOMAIN bite : bite[k].mention = bite[l].mention => k = l
  BY DEF TypeOK, IsNewBite
<1>3. \A k \in DOMAIN bite : \A y : y \in Linked(k) <=>
                /\ y \in DOMAIN rows' /\ Keep(bite, k, y)
                /\ \E rule \in config.rules :
                     Admits(rule, rows'[y],
                            NewRecord(config, Attributes(config, bite[k].document)))
  OBVIOUS
<1>. HIDE DEF Linked
<1>4. \A x, y : <<x, y>> \in links' <=>
        <<x, y>> \in links \/ \E k \in DOMAIN bite : x = bite[k].mention /\ y \in Linked(k)
  BY <1>1
<1>5. \A x, y : x \in DOMAIN rows => (<<x, y>> \in links' <=> <<x, y>> \in links)
  BY <1>2, <1>4
<1>6. ASSUME NEW k \in DOMAIN bite, NEW y
      PROVE  <<bite[k].mention, y>> \in links' <=> y \in Linked(k)
  <2>1. <<bite[k].mention, y>> \notin links
    BY <1>2
  <2>. QED  BY <1>2, <1>4, <2>1
<1>. QED  BY <1>3, <1>5, <1>6

LEMMA ResolveKeeps == SearchInv /\ ResolveBite => SearchInv'
<1>. SUFFICES ASSUME SearchInv, ResolveBite PROVE SearchInv'
  OBVIOUS
<1>1. /\ config \in Configs /\ Fits(config) /\ Scorable(config) /\ UNCHANGED <<config, columns>>
      /\ TypeOK
  BY BitesAreNew DEF SearchInv
<1>2. PICK bite : IsNewBite(bite) /\ InsertRows(bite) /\ ScoreBite(bite)
                  /\ arrivals' = arrivals \o bite
  BY BitesAreNew
<1>. DEFINE N == Len(arrivals)
            all == arrivals'
<1>3. arrivals \in Seq(Arrivals) /\ bite \in Seq(Arrivals)
  BY <1>1, <1>2 DEF TypeOK, Arrivals, IsNewBite
<1>4. /\ all \in Seq(Arrivals)
      /\ N \in Nat /\ DOMAIN arrivals = 1..N /\ DOMAIN bite = 1..Len(bite)
      /\ \A i \in DOMAIN arrivals : i \in DOMAIN all /\ all[i] = arrivals[i]
      /\ \A k \in DOMAIN bite : N + k \in DOMAIN all /\ all[N + k] = bite[k]
      /\ \A i \in DOMAIN all : i \in DOMAIN arrivals \/ \E k \in DOMAIN bite : i = N + k
  BY <1>2, <1>3, Following
<1>5. /\ \A k \in DOMAIN bite : /\ bite[k] \in Arrivals /\ bite[k].config = config
                                /\ bite[k].mention \notin DOMAIN rows
      /\ \A k, l \in DOMAIN bite : bite[k].mention = bite[l].mention => k = l
  BY <1>2, <1>3 DEF IsNewBite
<1>6. /\ DOMAIN rows' = DOMAIN rows \cup {bite[k].mention : k \in DOMAIN bite}
      /\ \A m \in DOMAIN rows : rows'[m] = rows[m]
      /\ \A k \in DOMAIN bite : rows'[bite[k].mention] = RowFor(bite[k])
  BY <1>1, <1>2, InsertedRows
<1>7. /\ \A i \in DOMAIN arrivals : arrivals[i] \in Arrivals
      /\ DOMAIN rows = {arrivals[i].mention : i \in DOMAIN arrivals}
      /\ \A i \in DOMAIN arrivals : rows[arrivals[i].mention] = RowFor(arrivals[i])
  BY <1>3 DEF SearchInv, RowsOfArrivals
<1>8. /\ \A x, y : x \in DOMAIN rows => (<<x, y>> \in links' <=> <<x, y>> \in links)
      /\ \A k \in DOMAIN bite : \A y :
           <<bite[k].mention, y>> \in links' <=>
             /\ y \in DOMAIN rows' /\ Keep(bite, k, y)
             /\ \E rule \in config.rules :
                  Admits(rule, rows'[y], NewRecord(config, Attributes(config, bite[k].document)))
  BY <1>1, <1>2, NewLinks
<1>9. /\ \A a : RowFor(a)' = RowFor(a)
      /\ \A c : Fits(c)' <=> Fits(c)
  BY <1>1 DEF RowFor, Fits
<1>. HIDE DEF N, all
<1>10. ConfigsFit'
  <2>1. \A i \in DOMAIN all : Fits(all[i].config) /\ Scorable(all[i].config)
    BY <1>1, <1>4, <1>5 DEF SearchInv, ConfigsFit
  <2>. QED  BY <1>1, <1>9, <2>1 DEF ConfigsFit, all
<1>11. \A i, j \in DOMAIN all : all[i].mention = all[j].mention => i = j
  <2>. SUFFICES ASSUME NEW i \in DOMAIN all, NEW j \in DOMAIN all, all[i].mention = all[j].mention
                PROVE  i = j
    OBVIOUS
  <2>1. CASE i \in DOMAIN arrivals /\ j \in DOMAIN arrivals
    BY <1>4, <2>1 DEF SearchInv, ArrivalsDiffer
  <2>2. CASE i \notin DOMAIN arrivals /\ j \notin DOMAIN arrivals
    BY <1>4, <1>5, <2>2
  <2>3. \A x \in DOMAIN all : x \in DOMAIN arrivals <=> all[x].mention \in DOMAIN rows
    BY <1>4, <1>5, <1>7
  <2>. QED  BY <2>1, <2>2, <2>3
<1>12. /\ DOMAIN rows' = {all[i].mention : i \in DOMAIN all}
       /\ \A i \in DOMAIN all : rows'[all[i].mention] = RowFor(all[i])
  <2>1. \A i \in DOMAIN all : all[i].mention \in DOMAIN rows'
                              /\ rows'[all[i].mention] = RowFor(all[i])
    <3>. SUFFICES ASSUME NEW i \in DOMAIN all
                  PROVE  /\ all[i].mention \in DOMAIN rows'
                         /\ rows'[all[i].mention] = RowFor(all[i])
      OBVIOUS
    <3>1. CASE i \in DOMAIN arrivals
      <4>1. /\ all[i] = arrivals[i] /\ arrivals[i].mention \in DOMAIN rows
            /\ rows[arrivals[i].mention] = RowFor(arrivals[i])
        BY <1>4, <1>7, <3>1
      <4>. QED  BY <1>6, <4>1
    <3>2. CASE i \notin DOMAIN arrivals
      <4>1. PICK k \in DOMAIN bite : all[i] = bite[k]
        BY <1>4, <3>2
      <4>. QED  BY <1>6, <4>1
    <3>. QED  BY <3>1, <3>2
  <2>2. \A m \in DOMAIN rows' : \E i \in DOMAIN all : m = all[i].mention
    BY <1>4, <1>6, <1>7
  <2>. QED  BY <2>1, <2>2
<1>13. ArrivalsDiffer' /\ RowsOfArrivals'
  BY <1>9, <1>11, <1>12 DEF ArrivalsDiffer, RowsOfArrivals, all
<1>14. TypeOK'
  <2>1. \A i \in DOMAIN all : all[i] \in Arrivals
    BY <1>4
  <2>2. DOMAIN rows' \subseteq Mentions
    BY <1>12, <2>1 DEF Arrivals
  <2>3. ASSUME NEW m \in DOMAIN rows'
        PROVE  rows'[m] \in [raw : [columns.raw -> Values], copies : [columns.copies -> Forms]]
    <3>1. PICK i \in DOMAIN all : m = all[i].mention
      BY <1>12
    <3>. QED  BY <1>12, <2>1, <3>1, RowTypes
  <2>4. links' \subseteq (DOMAIN rows') \X (DOMAIN rows')
    <3>1. links \subseteq (DOMAIN rows') \X (DOMAIN rows')
      BY <1>1, <1>6 DEF TypeOK
    <3>. QED  BY <1>2, <1>6, <3>1 DEF ScoreBite
  <2>. QED  BY <1>1, <1>4, <2>2, <2>3, <2>4 DEF TypeOK, Arrivals, all
<1>15. ASSUME NEW i \in DOMAIN all, NEW j \in DOMAIN all
       PROVE  <<all[j].mention, all[i].mention>> \in links'
                <=> i < j /\ AdmittedByCode(all[i], all[j])
  <2>1. CASE j \in DOMAIN arrivals /\ i \in DOMAIN arrivals
    <3>1. /\ all[i] = arrivals[i] /\ all[j] = arrivals[j] /\ arrivals[j].mention \in DOMAIN rows
      BY <1>4, <1>7, <2>1
    <3>2. <<arrivals[j].mention, arrivals[i].mention>> \in links
            <=> i < j /\ AdmittedByCode(arrivals[i], arrivals[j])
      BY <2>1 DEF SearchInv, LinksByCode
    <3>. QED  BY <1>8, <3>1, <3>2
  <2>2. CASE j \in DOMAIN arrivals /\ i \notin DOMAIN arrivals
    <3>1. PICK k \in DOMAIN bite : i = N + k /\ all[i] = bite[k]
      BY <1>4, <2>2
    <3>2. all[j].mention \in DOMAIN rows /\ all[i].mention \notin DOMAIN rows
      BY <1>4, <1>5, <1>7, <2>2, <3>1
    <3>3. <<all[j].mention, all[i].mention>> \notin links'
      BY <1>1, <1>8, <3>2 DEF TypeOK
    <3>4. ~(i < j)
      BY <1>4, <2>2, <3>1
    <3>. QED  BY <3>3, <3>4
  <2>3. CASE j \notin DOMAIN arrivals
    <3>1. PICK k \in DOMAIN bite : j = N + k /\ all[j] = bite[k]
      BY <1>4, <2>3
    <3>. DEFINE y == all[i].mention
                new == NewRecord(config, Attributes(config, bite[k].document))
    <3>2. /\ all[i] \in Arrivals /\ bite[k] \in Arrivals /\ bite[k].config = config
          /\ y \in DOMAIN rows' /\ rows'[y] = RowFor(all[i])
      BY <1>4, <1>5, <1>12
    <3>3. Keep(bite, k, y) <=> i < j
      <4>1. Keep(bite, k, y) <=> \A l \in k..Len(bite) : all[N + l].mention # y
        <5>1. \A l \in k..Len(bite) : l \in DOMAIN bite
          BY <1>4
        <5>. QED  BY <1>4, <5>1 DEF Keep
      <4>2. \A l \in k..Len(bite) : all[N + l].mention = y <=> i = N + l
        <5>1. \A l \in k..Len(bite) : N + l \in DOMAIN all
          BY <1>4, SMTT(60)
        <5>. QED  BY <1>11, <5>1
      <4>3. (\A l \in k..Len(bite) : i # N + l) <=> i < j
        <5>1. CASE i \in DOMAIN arrivals
          BY <1>4, <3>1, <5>1
        <5>2. CASE i \notin DOMAIN arrivals
          <6>1. PICK q \in DOMAIN bite : i = N + q
            BY <1>4, <5>2
          <6>. QED  BY <1>4, <3>1, <6>1
        <5>. QED  BY <5>1, <5>2
      <4>. QED  BY <4>1, <4>2, <4>3
    <3>4. (\E rule \in config.rules : Admits(rule, rows'[y], new)) <=> AdmittedByCode(all[i], bite[k])
      <4>1. \A rule \in config.rules :
              Admits(rule, RowFor(all[i]), new) <=>
                /\ \A f \in rule.same : SameText(Known(all[i], f), Known(bite[k], f))
                /\ \A f \in rule.similar : Equal(KnownName(all[i], f), KnownName(bite[k], f))
        <5>1. Fits(bite[k].config) /\ Scorable(bite[k].config)
          BY <1>1, <3>2
        <5>. QED  BY <3>2, <5>1, RulesCompareDocuments
      <4>. QED  BY <3>2, <4>1 DEF AdmittedByCode
    <3>. QED  BY <1>8, <3>1, <3>2, <3>3, <3>4
  <2>. QED  BY <2>1, <2>2, <2>3
<1>16. LinksByCode'
  BY <1>15 DEF LinksByCode, all
<1>. QED  BY <1>10, <1>13, <1>14, <1>16 DEF SearchInv

LEMMA NextSearch == SearchInv /\ [Next]_vars => SearchInv'
<1>. SUFFICES ASSUME SearchInv, [Next]_vars PROVE SearchInv'
  OBVIOUS
<1>1. CASE UNCHANGED vars
  BY <1>1, StartingKeeps DEF vars, SearchInv, TypeOK, ConfigsFit, Fits
<1>2. CASE Next
  BY <1>2, StartKeeps, FailStartKeeps, StopKeeps, ResolveKeeps DEF Next
<1>. QED  BY <1>1, <1>2

LEMMA SearchAlways == Spec => []SearchInv
BY InitSearch, NextSearch, PTL DEF Spec

-----------------------------------------------------------------------------
(***************************************************************************)
(* Every row has a value, or NULL, in every column of its table, and a     *)
(* normalised form in every normalised one, whatever configurations the    *)
(* table was written under; links are between stored mentions.             *)
(***************************************************************************)
THEOREM RowsAreTyped == Spec => []TypeOK
<1>1. SearchInv => TypeOK
  BY DEF SearchInv
<1>. QED  BY <1>1, SearchAlways, PTL

(***************************************************************************)
(* A pair is scored if a blocking rule in force when the later mention     *)
(* arrived admits the two documents, a missing value being equal to        *)
(* nothing, and only then, and once, from the later to the earlier: rows,  *)
(* records, columns and normalised copies of bites of any size make no     *)
(* difference (find_matches_batch, BlockingRule.to_sql).  Nothing is said  *)
(* only of pairs where an empty stored text meets a missing value.         *)
(***************************************************************************)
THEOREM LinksAreByRule == Spec => []LinksFollowRules
<1>1. SearchInv => LinksFollowRules
  <2>. SUFFICES ASSUME SearchInv, NEW i \in DOMAIN arrivals, NEW j \in DOMAIN arrivals
                PROVE  LET scored == <<arrivals[j].mention, arrivals[i].mention>> \in links
                       IN  /\ i < j /\ Comparable(arrivals[i], arrivals[j]) => scored
                           /\ scored => /\ i < j
                                        /\ \/ Comparable(arrivals[i], arrivals[j])
                                           \/ EmptyMeetsMissing(arrivals[i], arrivals[j])
    BY DEF LinksFollowRules
  <2>1. <<arrivals[j].mention, arrivals[i].mention>> \in links
          <=> i < j /\ AdmittedByCode(arrivals[i], arrivals[j])
    BY DEF SearchInv, LinksByCode
  <2>2. Comparable(arrivals[i], arrivals[j]) => AdmittedByCode(arrivals[i], arrivals[j])
    BY DEF Comparable, AdmittedByCode, SameText
  <2>3. AdmittedByCode(arrivals[i], arrivals[j]) =>
          Comparable(arrivals[i], arrivals[j]) \/ EmptyMeetsMissing(arrivals[i], arrivals[j])
    BY DEF Comparable, AdmittedByCode, SameText, EmptyMeetsMissing
  <2>. QED  BY <2>1, <2>2, <2>3
<1>. QED  BY <1>1, SearchAlways, PTL

(***************************************************************************)
(* A re-submission is refused exactly when a mapped field differs from     *)
(* what was known of the mention, as far as the running configuration      *)
(* stores the mapped fields (check_conflict, find_by_id).                  *)
(***************************************************************************)
THEOREM ConflictsAreTrue == Spec => []ConflictsAreChanges
<1>1. SearchInv => ConflictsAreChanges
  <2>. SUFFICES ASSUME SearchInv, NEW i \in DOMAIN arrivals, NEW document \in Documents,
                       config # Null, config.entity = config.mapped
                PROVE  Conflicts(config, arrivals[i].mention, document)
                         <=> \E f \in config.mapped : document[f] # Known(arrivals[i], f)
    BY DEF ConflictsAreChanges
  <2>. DEFINE row == rows[arrivals[i].mention].raw
  <2>0. rows[arrivals[i].mention] = RowFor(arrivals[i])
    BY DEF SearchInv, RowsOfArrivals
  <2>1. row = [f \in columns.raw |-> Known(arrivals[i], f)]
    BY <2>0 DEF RowFor
  <2>2. config.mapped \subseteq columns.raw
    BY DEF SearchInv, ConfigsFit, Fits
  <2>3. \A f \in config.mapped : row[f] = Known(arrivals[i], f)
    BY <2>1, <2>2
  <2>. HIDE DEF row
  <2>4. Conflicts(config, arrivals[i].mention, document)
          <=> [f \in config.mapped |-> row[f]] # [f \in config.mapped |-> document[f]]
    BY DEF Conflicts, StoredAttributes, Attributes, Restrict, row
  <2>. QED  BY <2>3, <2>4
<1>. QED  BY <1>1, SearchAlways, PTL
=============================================================================
