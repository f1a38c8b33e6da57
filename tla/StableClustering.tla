-------------------------- MODULE StableClustering --------------------------
(***************************************************************************)
(* What a client of the engine may rely on, without bites, transactions or *)
(* failures: mentions are clustered once and for all.  A set of new        *)
(* mentions appears at once, each with its content and in the cluster of a *)
(* founder that belongs to that cluster itself; nothing else ever changes, *)
(* unless the database is in memory and the process dies.                  *)
(***************************************************************************)
CONSTANTS
  Mentions, Contents,
  None,       \* no cluster, no content
  Durable     \* whether the database survives the process

VARIABLES
  cluster,    \* the cluster of each mention, named by its founder
  text        \* the content each mention was registered with

vars == <<cluster, text>>

Nothing == [m \in Mentions |-> None]

Init == cluster = Nothing /\ text = Nothing

Known == {m \in Mentions : cluster[m] # None}

Register(new) ==
  /\ new # {} /\ new \cap Known = {}
  /\ cluster' \in [Mentions -> Mentions \cup {None}]
  /\ text' \in [Mentions -> Contents \cup {None}]
  /\ \A m \in Mentions \ new : cluster'[m] = cluster[m] /\ text'[m] = text[m]
  /\ \A m \in new : /\ cluster'[m] \in Mentions
                    /\ cluster'[cluster'[m]] = cluster'[m]
                    /\ text'[m] \in Contents

Forget ==
  /\ ~Durable
  /\ cluster' = Nothing
  /\ text' = Nothing

Next == (\E new \in SUBSET Mentions : Register(new)) \/ Forget

Spec == Init /\ [][Next]_vars
=============================================================================
