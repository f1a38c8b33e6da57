--------------------------- MODULE ModelLifecycle ---------------------------
(***************************************************************************)
(* The similarity model: loaded or cold at the start, trained once when    *)
(* the stored mentions reach a threshold, by a thread of its own, saved to *)
(* a file, handed to the worker that scores with it, and frozen            *)
(* (SpLinkSimilarityLinker in splink_linker_impl.py, train_on_start_if_due *)
(* in model_lifecycle.py, _maybe_start_training and train in               *)
(* entity_resolution_service.py, build_entity_resolver in bootstrap.py).   *)
(*                                                                         *)
(* Three threads may train: the main one before it consumes, the one the   *)
(* worker starts, and one more caller of EntityResolver.train.  Models are *)
(* numbered in the order they are trained.                                 *)
(***************************************************************************)
EXTENDS Integers

CONSTANTS
  TrainAt,     \* auto_train_threshold; 0 never trains
  MaxBite,     \* mentions in a bite, at most
  MaxStored,   \* bound: mentions ever stored
  Persist,     \* whether a model path is configured
  Durable,     \* database in a file (TRUE) or in memory (FALSE)
  MaxCrashes,  \* bound: crashes
  MaxFaults,   \* bound: failed trainings and training threads
  MaxCalls     \* bound: other calls of EntityResolver.train

ASSUME LifecycleAssumption ==
  /\ {TrainAt, MaxStored, MaxCrashes, MaxFaults, MaxCalls} \subseteq Nat
  /\ MaxBite \in Nat \ {0}
  /\ Persist \in BOOLEAN /\ Durable \in BOOLEAN

Threads == {"main", "auto", "other"}

\* Cold-start parameters, no model: 0.  A file that cannot be loaded: -1.
Cold == 0
None == 0
Broken == -1

VARIABLES
  stored,     \* committed mentions
  file,       \* the model file: None, Broken or a model
  worker,     \* where the worker (the main thread) is
  batch,      \* new mentions of the bite it resolves
  scoring,    \* the parameters of its linker
  taken,      \* the parameters it is rebuilding the linker with
  pending,    \* _pending_trained_settings
  source,     \* model_source
  loadError,  \* whether _model_load_error_type is set
  lock,       \* the holder of _training_lock, or "free"
  at,         \* where each thread is in train()
  trained,    \* the number of the last model trained
  starts,     \* training threads started by this process
  crashes, faults, calls   \* bounded

vars == <<stored, file, worker, batch, scoring, taken, pending, source, loadError,
          lock, at, trained, starts, crashes, faults, calls>>
process == <<worker, batch, scoring, taken, pending, source, loadError, starts>>
bounds == <<crashes, faults, calls>>

Models == Nat \ {0}

TypeOK ==
  /\ stored \in 0..MaxStored
  /\ file \in {None, Broken} \cup Models
  /\ worker \in {"down", "starting", "waiting", "rebuilding", "rebuilt",
                 "resolving", "committed"}
  /\ batch \in 0..MaxBite
  /\ scoring \in Nat /\ taken \in Nat /\ pending \in Nat
  /\ source \in {"cold_start", "persisted", "trained"}
  /\ loadError \in BOOLEAN
  /\ lock \in Threads \cup {"free"}
  /\ at \in [Threads -> {"idle", "called", "needed", "locked", "training",
                         "saving", "handing", "leaving"}]
  /\ trained \in Nat
  /\ starts \in Nat
  /\ crashes \in 0..MaxCrashes /\ faults \in 0..MaxFaults /\ calls \in 0..MaxCalls

\* A database and a model file of an earlier version, or none.
Init ==
  /\ stored \in IF Durable THEN 0..MaxStored ELSE {0}
  /\ file \in IF Persist THEN {None, Broken, 1} ELSE {None}
  /\ worker = "down" /\ batch = 0
  /\ scoring = Cold /\ taken = None /\ pending = None
  /\ source = "cold_start" /\ loadError = FALSE
  /\ lock = "free" /\ at = [t \in Threads |-> "idle"]
  /\ trained = 1 /\ starts = 0
  /\ crashes = 0 /\ faults = 0 /\ calls = 0

-----------------------------------------------------------------------------
(***************************************************************************)
(* The start: the linker is built, and trained if that is overdue.         *)
(***************************************************************************)
\* Seeded fault: an unusable file does not block training.
NeedsTrainingAnyway == source = "cold_start"

NeedsTraining == source = "cold_start" /\ ~loadError

\* Seeded fault: a file that is there is taken for a model.
BuildFromAnyFile ==
  /\ pending' = None /\ taken' = None
  /\ IF file # None
     THEN source' = "persisted" /\ scoring' = file
     ELSE source' = "cold_start" /\ scoring' = Cold
  /\ loadError' = FALSE

\* _build_scoring_linker, from what is in the file.
BuildScoringLinker ==
  /\ pending' = None /\ taken' = None
  /\ IF file \in Models
     THEN source' = "persisted" /\ scoring' = file
     ELSE source' = "cold_start" /\ scoring' = Cold
  /\ loadError' = (file = Broken)

StartUpTrainingIsDue == TrainAt > 0 /\ stored >= TrainAt /\ NeedsTraining'

\* Seeded fault: there is no start-up training.
StartWithoutTraining ==
  /\ worker = "down"
  /\ BuildScoringLinker
  /\ worker' = "waiting"
  /\ starts' = 0
  /\ UNCHANGED <<stored, file, batch, lock, at, trained, bounds>>

Start ==
  /\ worker = "down"
  /\ BuildScoringLinker
  /\ IF StartUpTrainingIsDue
     THEN worker' = "starting" /\ at' = [at EXCEPT !["main"] = "called"]
     ELSE worker' = "waiting" /\ UNCHANGED at
  /\ starts' = 0
  /\ UNCHANGED <<stored, file, batch, lock, trained, bounds>>

\* The start-up training has returned.
StartConsuming ==
  /\ worker = "starting" /\ at["main"] = "idle"
  /\ worker' = "waiting"
  /\ UNCHANGED <<stored, file, batch, scoring, taken, pending, source, loadError,
                 lock, at, trained, starts, bounds>>

-----------------------------------------------------------------------------
(***************************************************************************)
(* train(): the check, the lock that is not waited for, the check again,   *)
(* the training, the file, the hand-over, the lock released.               *)
(***************************************************************************)
Moves(t, from, to) == at[t] = from /\ at' = [at EXCEPT ![t] = to]

\* Another thread of the process calls EntityResolver.train.
Call ==
  /\ worker \notin {"down", "starting"} /\ calls < MaxCalls
  /\ Moves("other", "idle", "called")
  /\ calls' = calls + 1
  /\ UNCHANGED <<stored, file, process, lock, trained, crashes, faults>>

CheckNeed(t) ==
  /\ Moves(t, "called", IF NeedsTraining THEN "needed" ELSE "idle")
  /\ UNCHANGED <<stored, file, process, lock, trained, bounds>>

TryLock(t) ==
  /\ Moves(t, "needed", IF lock = "free" THEN "locked" ELSE "idle")
  /\ lock' = IF lock = "free" THEN t ELSE lock
  /\ UNCHANGED <<stored, file, process, trained, bounds>>

\* Seeded fault: needs_training is not asked again under the lock.
NoRecheck(t) ==
  /\ Moves(t, "locked", "training")
  /\ UNCHANGED <<stored, file, process, lock, trained, bounds>>

Recheck(t) ==
  /\ Moves(t, "locked", IF NeedsTraining THEN "training" ELSE "leaving")
  /\ UNCHANGED <<stored, file, process, lock, trained, bounds>>

\* Seeded fault: the model is handed over and not saved.
TrainUnsaved(t) ==
  /\ Moves(t, "training", "handing")
  /\ trained' = trained + 1
  /\ UNCHANGED <<stored, file, process, lock, bounds>>

\* The parameters are estimated from a sample of the committed mentions.
Train(t) ==
  /\ Moves(t, "training", IF Persist THEN "saving" ELSE "handing")
  /\ trained' = trained + 1
  /\ UNCHANGED <<stored, file, process, lock, bounds>>

\* The file is opened, which truncates it, and written.
OpenModelFile(t) ==
  /\ at[t] = "saving" /\ file # Broken
  /\ file' = Broken
  /\ UNCHANGED <<stored, process, lock, at, trained, bounds>>

SaveModel(t) ==
  /\ file = Broken
  /\ Moves(t, "saving", "handing")
  /\ file' = trained
  /\ UNCHANGED <<stored, process, lock, trained, bounds>>

\* Seeded fault: the source stays cold_start until the worker takes the model.
HandOverLate(t) ==
  /\ Moves(t, "handing", "leaving")
  /\ pending' = trained
  /\ UNCHANGED <<stored, file, worker, batch, scoring, taken, source, loadError,
                 lock, trained, starts, bounds>>

\* The pending settings and the source, under the swap lock.
HandOver(t) ==
  /\ Moves(t, "handing", "leaving")
  /\ pending' = trained
  /\ source' = "trained"
  /\ UNCHANGED <<stored, file, worker, batch, scoring, taken, loadError,
                 lock, trained, starts, bounds>>

\* A query, Splink or the file fails: the outcome is FAILED.
TrainingFails(t) ==
  /\ at[t] \in {"training", "saving"} /\ faults < MaxFaults
  /\ at' = [at EXCEPT ![t] = "leaving"]
  /\ faults' = faults + 1
  /\ UNCHANGED <<stored, file, process, lock, trained, crashes, calls>>

Leave(t) ==
  /\ Moves(t, "leaving", "idle")
  /\ lock' = "free"
  /\ UNCHANGED <<stored, file, process, trained, bounds>>

TrainStep(t) == \/ CheckNeed(t) \/ TryLock(t) \/ Recheck(t) \/ Train(t)
                \/ OpenModelFile(t) \/ SaveModel(t) \/ HandOver(t)
                \/ TrainingFails(t) \/ Leave(t)

-----------------------------------------------------------------------------
(***************************************************************************)
(* The worker: it takes over a model before it scores, and starts the      *)
(* training thread after the commit that crosses the threshold.            *)
(***************************************************************************)
\* Seeded fault: the settings are cleared when they are read.
BeginScoringClearing ==
  /\ worker = "waiting"
  /\ batch' \in 1..MaxBite
  /\ taken' = pending
  /\ pending' = None
  /\ worker' = IF pending = None THEN "resolving" ELSE "rebuilding"
  /\ UNCHANGED <<stored, file, scoring, source, loadError, lock, at,
                 trained, starts, bounds>>

\* find_matches_batch begins; _apply_trained_settings reads what is pending.
BeginScoring ==
  /\ worker = "waiting"
  /\ batch' \in 1..MaxBite
  /\ taken' = pending
  /\ worker' = IF pending = None THEN "resolving" ELSE "rebuilding"
  /\ UNCHANGED <<stored, file, scoring, pending, source, loadError, lock, at,
                 trained, starts, bounds>>

\* A new linker; when it cannot be built the settings are kept and the bite fails.
RebuildLinker ==
  /\ worker = "rebuilding"
  /\ \/ worker' = "rebuilt" /\ scoring' = taken
     \/ worker' = "waiting" /\ UNCHANGED scoring
  /\ UNCHANGED <<stored, file, batch, taken, pending, source, loadError, lock, at,
                 trained, starts, bounds>>

ClearPending ==
  /\ worker = "rebuilt"
  /\ worker' = "resolving"
  /\ pending' = None
  /\ UNCHANGED <<stored, file, batch, scoring, taken, source, loadError, lock, at,
                 trained, starts, bounds>>

\* The bite is committed, or fails and is rolled back.
FinishBite ==
  /\ worker = "resolving"
  /\ \/ stored + batch <= MaxStored /\ worker' = "committed" /\ stored' = stored + batch
     \/ worker' = "waiting" /\ UNCHANGED stored
  /\ UNCHANGED <<file, batch, scoring, taken, pending, source, loadError, lock, at,
                 trained, starts, bounds>>

\* Seeded fault: every count beyond the threshold crosses it.
CrossesAlways == TrainAt > 0 /\ TrainAt <= stored

\* Seeded fault: the count is read after the commit, and the bite added to it.
CrossesEarly == TrainAt > 0 /\ stored < TrainAt /\ TrainAt <= stored + batch

Crosses == TrainAt > 0 /\ stored - batch < TrainAt /\ TrainAt <= stored

MaybeStartTraining ==
  /\ worker = "committed"
  /\ worker' = "waiting"
  /\ IF Crosses
     THEN \/ /\ at' = [at EXCEPT !["auto"] = "called"]
             /\ starts' = starts + 1
             /\ UNCHANGED faults
          \/ /\ faults < MaxFaults   \* the thread cannot be started
             /\ faults' = faults + 1
             /\ UNCHANGED <<at, starts>>
     ELSE UNCHANGED <<at, starts, faults>>
  /\ UNCHANGED <<stored, file, batch, scoring, taken, pending, source, loadError,
                 lock, trained, crashes, calls>>

\* The process dies.
Crash ==
  /\ worker # "down" /\ crashes < MaxCrashes
  /\ crashes' = crashes + 1
  /\ stored' = IF Durable THEN stored ELSE 0
  /\ worker' = "down" /\ batch' = 0
  /\ scoring' = Cold /\ taken' = None /\ pending' = None
  /\ source' = "cold_start" /\ loadError' = FALSE
  /\ lock' = "free" /\ at' = [t \in Threads |-> "idle"]
  /\ starts' = 0
  /\ UNCHANGED <<file, trained, faults, calls>>

\* What the process does by itself once it has a bite, or was started.
Work == \/ Start \/ StartConsuming \/ RebuildLinker \/ ClearPending
        \/ FinishBite \/ MaybeStartTraining

Next == Work \/ BeginScoring \/ Call \/ (\E t \in Threads : TrainStep(t)) \/ Crash

\* A process that died is started again; the worker and the threads that train
\* keep running.  Nobody has to send requests.
Spec == /\ Init /\ [][Next]_vars
        /\ WF_vars(Work)
        /\ \A t \in Threads : WF_vars(TrainStep(t))

-----------------------------------------------------------------------------
\* A model that was trained is in use or still to be taken over: neither a
\* rebuild that fails nor a hand-over during a bite loses it.
NoModelLost == source = "trained" => pending # None \/ scoring # Cold

\* Once there is a model it stays: the worker never goes back to the cold-start
\* parameters nor on to another model, whoever calls train(), and the file is
\* never overwritten by another one.
ModelFrozen ==
  [][/\ scoring # Cold /\ worker' # "down" => scoring' = scoring
     /\ file \in Models => file' = file]_vars

\* Whatever the worker scores with is in the file, so a restart, wherever the
\* process dies, continues with the same model.
RestartKeepsModel == Persist /\ scoring # Cold => file = scoring

\* A file that could not be loaded is left as it is by the process that found it.
UnusableFileUntouched == [][loadError /\ worker' # "down" => file' = file]_vars

\* A process starts its training thread at most once, however the threshold is
\* crossed and however many bites and restarts come before and after.
TrainingStartsOnce == starts <= 1

\* The trainings the program starts by itself see enough committed mentions:
\* the thread is started after the commit of the bite that crosses.
TrainingSeesThreshold ==
  at["main"] # "idle" \/ at["auto"] # "idle" => stored >= TrainAt

\* Once enough mentions are stored there is a model, or the file is unusable or
\* a training failed: a crash between the commit and the hand-over is made up
\* for at the next start, and a training that is skipped lost to one that runs.
TrainedInTheEnd ==
  TrainAt > 0 /\ stored >= TrainAt ~> \/ source # "cold_start"
                                      \/ loadError \/ faults > 0

-----------------------------------------------------------------------------
(***************************************************************************)
(* What the documentation says and the code does not do.                   *)
(***************************************************************************)
\* resolution_model_lifecycle.feature:76-81: after a training failure no model
\* file exists, when there was none before.
FailedTrainingLeavesNoFile ==
  [][\A t \in Threads : at[t] = "saving" /\ at'[t] = "leaving" /\ faults' > faults
       => file' = None]_vars
=============================================================================
