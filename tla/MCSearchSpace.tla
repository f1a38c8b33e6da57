---------------------------- MODULE MCSearchSpace ----------------------------
(* SearchSpace with three fields and configurations like the shipped ones. *)
EXTENDS SearchSpace, TLC

AllFields == {"name", "country", "town"}

\* Two spellings of a name, and a text that normalises to nothing.
NormalForms == [t \in {"", "Acme", "ACME", "---", "DE", "Bonn"} |->
                  CASE t \in {"", "---"} -> Null
                    [] t \in {"Acme", "ACME"} -> "acme"
                    [] OTHER -> t]

Document(name, country, town) ==
  [f \in AllFields |-> CASE f = "name" -> name [] f = "country" -> country [] f = "town" -> town]

SameRule(fields) == [same |-> fields, similar |-> {}]
NameRule(same, name) == [same |-> {same}, similar |-> {name}]

Config(mapped, entity, normalised, rules) ==
  [mapped |-> mapped, entity |-> entity, normalised |-> normalised, rules |-> rules,
   emField |-> "country"]

\* resolver.yaml: similar names in the same country.
Shipped == Config(AllFields, AllFields, {"name"}, {NameRule("country", "name")})
\* resolver_compound.yaml: fewer entity fields than mapped ones.
Compound == Config(AllFields, {"name", "country"}, {"name"}, {SameRule({"country", "name"})})
\* No normalised copies, two rules.
Plain == Config(AllFields, AllFields, {}, {SameRule({"country", "town"}), SameRule({"name"})})
\* Another normalised field.
Towns == Config(AllFields, AllFields, {"name", "town"}, {NameRule("country", "town")})
\* An entity field the mapper does not know, used by the rule.
Unmapped == Config({"name", "country"}, AllFields, {"name"}, {NameRule("town", "name")})
\* Similarity on a field without a copy.
Invalid == Config(AllFields, AllFields, {}, {NameRule("country", "name")})

ChangingConfigs == {Shipped, Compound, Plain, Towns, Unmapped, Invalid}
ShippedConfigs == {Shipped, Compound}

SomeDocuments ==
  {Document("Acme", "DE", "Bonn"), Document("ACME", "DE", Null),
   Document("---", "DE", "Bonn"), Document("Acme", Null, Null),
   Document("Acme", "", "Bonn")}

Symmetric == Permutations(Mentions)
=============================================================================
