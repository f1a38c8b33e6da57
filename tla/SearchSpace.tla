----------------------------- MODULE SearchSpace -----------------------------
(***************************************************************************)
(* From the text of a request to the pairs that are scored: the fields the *)
(* mapper reads, the columns they are stored in, the normalised copies, the*)
(* guard that compares a re-submission with its row, and the blocking rules*)
(* over stored rows and new records (rdf_mapper.py, blocking.py,           *)
(* duckdb_schema.py, duckdb_repositories.py, splink_linker_impl.py), under *)
(* configurations that change from one start to the next (bootstrap.py).   *)
(*                                                                         *)
(* A bite is one step here: what may fail inside it is in Service.  Which  *)
(* score a pair gets is external; whether it gets one is not.              *)
(***************************************************************************)
EXTENDS Naturals, Sequences, FiniteSets, Functions

CONSTANTS
  Mentions,    \* mention ids
  Fields,      \* the fields a configuration can name
  Documents,   \* contents of requests: a text or Null for each field
  Blank,       \* the empty text
  Null,        \* no value; no running process
  Normal,      \* the normalised form of each text, Null if nothing is left
  Configs,     \* configurations the program is started with
  MaxBite      \* new mentions in a bite, at most

Texts == DOMAIN Normal

\* A rule admits a pair with equal values in all fields of "same" and similar
\* normalised values in those of "similar": EqualityRule has none of the
\* latter, NameSimilarityRule one of each.
Rules == [same : SUBSET Fields, similar : SUBSET Fields]

\* "mapped" are the fields of rdf_mapping.yaml, the others of resolver.yaml.
ConfigAssumption ==
  Configs \subseteq [mapped     : SUBSET Fields,
                     entity     : SUBSET Fields,
                     normalised : SUBSET Fields,
                     rules      : SUBSET Rules,
                     emField    : Fields]

ASSUME SearchSpaceAssumption ==
  /\ MaxBite \in Nat \ {0}
  /\ Blank \in Texts /\ Null \notin Texts /\ Normal[Blank] = Null
  /\ Documents \subseteq [Fields -> Texts \cup {Null}]
  /\ ConfigAssumption

VARIABLES
  config,    \* of the running process, or Null
  columns,   \* columns of the table mentions, none if there is no table
  rows,      \* the table's rows, by mention
  links,     \* pairs that were scored and kept, new mention first
  arrivals   \* the mentions stored, in order, with document and configuration

vars == <<config, columns, rows, links, arrivals>>

Values == Texts \cup {Null}
Forms == {Normal[t] : t \in Texts} \cup {Null}

TypeOK ==
  /\ config \in Configs \cup {Null}
  /\ columns \in [raw : SUBSET Fields, copies : SUBSET Fields]
  /\ DOMAIN rows \subseteq Mentions
  /\ \A m \in DOMAIN rows : rows[m] \in [raw    : [columns.raw -> Values],
                                         copies : [columns.copies -> Forms]]
  /\ links \subseteq (DOMAIN rows) \X (DOMAIN rows)
  /\ arrivals \in Seq([mention : Mentions, document : Documents, config : Configs])

Init ==
  /\ config = Null
  /\ columns = [raw |-> {}, copies |-> {}]
  /\ rows = <<>>
  /\ links = {}
  /\ arrivals = <<>>

-----------------------------------------------------------------------------
(***************************************************************************)
(* The start of the program.                                               *)
(***************************************************************************)
\* What BlockingSettings.from_config accepts.
Valid(c) ==
  /\ c.rules # {}
  /\ c.normalised \subseteq c.entity /\ c.emField \in c.entity
  /\ \A rule \in c.rules : /\ rule.same \cup rule.similar \subseteq c.entity
                           /\ rule.similar \subseteq c.normalised

TableExists == columns.raw # {}

\* A table without a normalised column is refused.
Outdated(c) == TableExists /\ ~(c.normalised \subseteq columns.copies)

\* CREATE TABLE IF NOT EXISTS: an existing table keeps its columns.
InitSchema(c) ==
  columns' = IF TableExists THEN columns
             ELSE [raw |-> c.entity, copies |-> c.normalised]

\* The view of the search space needs a column for every field and copy; that
\* the copies are there is known by then.
Start ==
  /\ config = Null
  /\ \E c \in Configs : /\ Valid(c) /\ ~Outdated(c)
                        /\ InitSchema(c)
                        /\ c.entity \subseteq columns'.raw
                        /\ config' = c
  /\ UNCHANGED <<rows, links, arrivals>>

\* The start fails after the table was created: the linker cannot be built from
\* the comparisons, or a batch setting is refused.
FailStart ==
  /\ config = Null
  /\ \E c \in Configs : Valid(c) /\ ~Outdated(c) /\ InitSchema(c)
  /\ UNCHANGED <<config, rows, links, arrivals>>

\* The process ends, at whatever point.
Stop ==
  /\ config # Null
  /\ config' = Null
  /\ UNCHANGED <<columns, rows, links, arrivals>>

-----------------------------------------------------------------------------
(***************************************************************************)
(* From a document to a row, and back.                                     *)
(***************************************************************************)
Normalise(value) == IF value = Null THEN Null ELSE Normal[value]

\* The mapper returns an attribute for every mapped field.
Attributes(c, document) == Restrict(document, c.mapped)
ValueOf(attributes, f) == IF f \in DOMAIN attributes THEN attributes[f] ELSE Null

\* Seeded fault: a missing value is stored as an empty text.
RowOfBlanks(c, attributes) ==
  [raw    |-> [f \in columns.raw |->
                 IF f \in c.entity /\ ValueOf(attributes, f) # Null
                 THEN ValueOf(attributes, f) ELSE Blank],
   copies |-> [f \in columns.copies |->
                 IF f \in c.normalised THEN Normalise(ValueOf(attributes, f)) ELSE Null]]

\* Seeded fault: the copy of a name is the name.
RowOfNames(c, attributes) ==
  [raw    |-> [f \in columns.raw |->
                 IF f \in c.entity THEN ValueOf(attributes, f) ELSE Null],
   copies |-> [f \in columns.copies |->
                 IF f \in c.normalised THEN ValueOf(attributes, f) ELSE Null]]

\* The row that is inserted; columns the configuration does not name get NULL.
RowOf(c, attributes) ==
  [raw    |-> [f \in columns.raw |->
                 IF f \in c.entity THEN ValueOf(attributes, f) ELSE Null],
   copies |-> [f \in columns.copies |->
                 IF f \in c.normalised THEN Normalise(ValueOf(attributes, f)) ELSE Null]]

\* What find_by_id reads of a row, and how check_conflict compares it.
StoredAttributes(c, m) == Restrict(rows[m].raw, c.entity)
Conflicts(c, m, document) == StoredAttributes(c, m) # Attributes(c, document)

-----------------------------------------------------------------------------
(***************************************************************************)
(* Scoring a bite.                                                         *)
(***************************************************************************)
\* A new record has the attributes of its mention, with an empty text for each
\* missing value, and copies computed from them.
NewRecord(c, attributes) ==
  LET text == [f \in DOMAIN attributes |-> IF attributes[f] = Null THEN Blank
                                                                   ELSE attributes[f]]
  IN  [raw |-> text, copies |-> [f \in c.normalised |-> Normalise(text[f])]]

\* SQL: NULL equals nothing, and no name is similar to NULL.
Equal(a, b) == a # Null /\ a = b

Admits(rule, old, new) ==
  /\ \A f \in rule.same : Equal(old.raw[f], new.raw[f])
  /\ \A f \in rule.similar : Equal(old.copies[f], new.copies[f])

\* The SQL names columns of the new records, which have the mapped fields only.
Scorable(c) ==
  c.normalised \cup UNION {rule.same \cup rule.similar : rule \in c.rules} \subseteq c.mapped

\* Seeded fault: a link to a later member of the bite is kept.
KeepAny(bite, i, other) == other # bite[i].mention

\* Links to oneself and to later members of the bite are dropped.
Keep(bite, i, other) == \A j \in i..Len(bite) : bite[j].mention # other

\* The rows of a bite are inserted first, so that its members see each other,
\* and all pairs of a new record and a row are scored in one call.
InsertRows(bite) ==
  rows' = [m \in DOMAIN rows \cup {bite[i].mention : i \in DOMAIN bite} |->
             IF m \in DOMAIN rows THEN rows[m]
             ELSE LET i == CHOOSE j \in DOMAIN bite : bite[j].mention = m
                  IN  RowOf(config, Attributes(config, bite[i].document))]

ScoreBite(bite) ==
  links' = links \cup
    UNION {{<<bite[i].mention, other>> : other \in
             {x \in DOMAIN rows' :
                /\ Keep(bite, i, x)
                /\ \E rule \in config.rules :
                     Admits(rule, rows'[x],
                            NewRecord(config, Attributes(config, bite[i].document)))}} :
           i \in DOMAIN bite}

\* Mentions that are stored are answered by the guard, so a bite's are new.
ResolveBite ==
  /\ config # Null /\ Scorable(config)
  /\ \E n \in 1..MaxBite :
     \E mentions \in [1..n -> Mentions \ DOMAIN rows], documents \in [1..n -> Documents] :
       /\ \A i, j \in 1..n : i # j => mentions[i] # mentions[j]
       /\ LET bite == [i \in 1..n |-> [mention |-> mentions[i], document |-> documents[i],
                                       config |-> config]]
          IN  /\ InsertRows(bite)
              /\ ScoreBite(bite)
              /\ arrivals' = arrivals \o bite
  /\ UNCHANGED <<config, columns>>

Next == Start \/ FailStart \/ Stop \/ ResolveBite

Spec == Init /\ [][Next]_vars

-----------------------------------------------------------------------------
\* What a configuration lets the program know of a document.
Known(a, f) == IF f \in a.config.entity \cap a.config.mapped THEN a.document[f] ELSE Null
KnownName(a, f) == IF f \in a.config.normalised THEN Normalise(Known(a, f)) ELSE Null

\* The rules, over documents instead of rows and records: a rule admits a pair with
\* the same values, and a missing value is the same as nothing.
Comparable(old, new) ==
  \E rule \in new.config.rules :
    /\ \A f \in rule.same : Equal(Known(old, f), Known(new, f))
    /\ \A f \in rule.similar : Equal(KnownName(old, f), KnownName(new, f))

\* A rule reads a field that has an empty text in the stored mention and no value in
\* the new one.
EmptyMeetsMissing(old, new) ==
  \E rule \in new.config.rules : \E f \in rule.same : Known(old, f) = Blank /\ Known(new, f) = Null

\* A pair of mentions is scored if a rule in force when the later one arrived
\* admits their documents, and only then, and once, from the later to the earlier:
\* whatever the bites, and whatever configurations the rows went through.  Left
\* open is only whether more is scored where an empty text meets a missing value
\* (splink_linker_impl.py:297), which MissingMatchesNothing is about.
LinksFollowRules ==
  \A i, j \in DOMAIN arrivals :
    LET scored == <<arrivals[j].mention, arrivals[i].mention>> \in links
    IN  /\ i < j /\ Comparable(arrivals[i], arrivals[j]) => scored
        /\ scored => /\ i < j
                     /\ \/ Comparable(arrivals[i], arrivals[j])
                        \/ EmptyMeetsMissing(arrivals[i], arrivals[j])

\* A re-submission is refused if and only if a field the mapper reads differs
\* from what was known of the mention when it arrived, as far as the running
\* configuration stores all those fields: whatever configurations the row was
\* written and read under.
ConflictsAreChanges ==
  \A i \in DOMAIN arrivals : \A document \in Documents :
    config # Null /\ config.entity = config.mapped =>
      (Conflicts(config, arrivals[i].mention, document)
         <=> \E f \in config.mapped : document[f] # Known(arrivals[i], f))

-----------------------------------------------------------------------------
(***************************************************************************)
(* What the documentation says and the code does not do.                   *)
(***************************************************************************)
\* README.md:24: re-submitting the same request returns the same outcome, so it
\* is no conflict, also after a restart with fewer or more entity fields.
ResubmissionsPass ==
  \A i \in DOMAIN arrivals :
    config # Null => ~Conflicts(config, arrivals[i].mention, arrivals[i].document)

\* splink_linker_impl.py:64 and blocking.py:30: a missing value matches nothing, so
\* a pair is scored only if a rule admits the two documents.
MissingMatchesNothing ==
  \A i, j \in DOMAIN arrivals :
    <<arrivals[j].mention, arrivals[i].mention>> \in links => Comparable(arrivals[i], arrivals[j])
=============================================================================
