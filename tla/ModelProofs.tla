----------------------------- MODULE ModelProofs -----------------------------
(***************************************************************************)
(* Theorems about ModelLifecycle.  The inductive invariant ties the parts  *)
(* of the model's state together: who trains, what is in the file, what is *)
(* handed over and what the worker scores with.                            *)
(***************************************************************************)
EXTENDS ModelLifecycle, TLAPS

\* The holder of the lock is the one thread beyond TryLock.
Exclusion ==
  \A t \in Threads :
    at[t] \in {"locked", "training", "saving", "handing", "leaving"} <=> lock = t

\* Training goes on only while there is neither a model nor a file that must
\* stay; a model in the file that is not in use yet is about to be handed over.
TrainingInv ==
  /\ \A t \in Threads : at[t] \in {"training", "saving", "handing"} => NeedsTraining
  /\ \A t \in Threads : at[t] \in {"training", "saving"} => file \notin Models
  /\ trained # None
  /\ Persist => \A t \in Threads : at[t] = "handing" => file = trained
  /\ \A t \in Threads : at[t] = "saving" => Persist
  /\ worker # "down" /\ source = "cold_start" /\ file \in Models
       => \E t \in Threads : at[t] = "handing"

\* The hand-over: what is pending is in the file and replaces cold parameters.
HandOverInv ==
  /\ source = "cold_start" => pending = None /\ scoring = Cold
  /\ source = "trained" => pending # None \/ scoring # Cold
  /\ pending # None => worker = "rebuilt" \/ scoring = Cold
  /\ worker = "rebuilding" => pending # None /\ taken = pending
  /\ worker = "rebuilt" => pending # None /\ scoring = pending
  /\ Persist /\ pending # None => file = pending
  /\ Persist /\ scoring # Cold => file = scoring

DownInv ==
  worker = "down" => /\ scoring = Cold /\ pending = None /\ source = "cold_start"
                     /\ ~loadError /\ starts = 0 /\ \A t \in Threads : at[t] = "idle"

\* The threshold is crossed once.
CrossingInv ==
  /\ at["main"] # "idle" \/ at["auto"] # "idle" => stored >= TrainAt
  /\ starts \in {0, 1}
  /\ starts = 0 => at["auto"] = "idle"
  /\ starts = 1 => stored >= TrainAt /\ (worker = "committed" => stored - batch >= TrainAt)

IInv == TypeOK /\ Exclusion /\ TrainingInv /\ HandOverInv /\ DownInv /\ CrossingInv

-----------------------------------------------------------------------------
(***************************************************************************)
(* The invariant holds at first and is kept by every action.               *)
(***************************************************************************)
USE LifecycleAssumption
    DEF Threads, Models, Cold, None, Broken, NeedsTraining, process, bounds

LEMMA InitIInv == Init => IInv
<1>. SUFFICES ASSUME Init PROVE IInv
  OBVIOUS
<1>. USE DEF Init
<1>1. TypeOK
  <2>1. stored \in 0..MaxStored /\ batch \in 0..MaxBite
    BY DEF TypeOK
  <2>2. file \in {None, Broken} \cup Models
    BY DEF TypeOK
  <2>3. at \in [Threads -> {"idle", "called", "needed", "locked", "training",
                          "saving", "handing", "leaving"}]
    BY DEF TypeOK
  <2>4. 0 \in 0..MaxCrashes /\ 0 \in 0..MaxFaults /\ 0 \in 0..MaxCalls
    OBVIOUS
  <2>. QED  BY <2>1, <2>2, <2>3, <2>4 DEF TypeOK
<1>2. Exclusion
  BY DEF Exclusion
<1>3. TrainingInv
  BY DEF TrainingInv
<1>4. HandOverInv
  BY DEF HandOverInv
<1>5. DownInv /\ CrossingInv
  BY DEF DownInv, CrossingInv
<1>. QED  BY <1>1, <1>2, <1>3, <1>4, <1>5 DEF IInv

LEMMA StartKeepsIInv ==
  ASSUME IInv, Start
  PROVE  IInv'
<1>. USE DEF IInv, Start, BuildScoringLinker, StartUpTrainingIsDue
<1>1. TypeOK'
  BY DEF TypeOK
<1>2. Exclusion'
  BY DEF TypeOK, Exclusion, DownInv
<1>3. TrainingInv'
  BY DEF TypeOK, TrainingInv, DownInv
<1>4. HandOverInv'
  BY DEF TypeOK, HandOverInv
<1>5. DownInv'
  BY DEF TypeOK, DownInv
<1>6. CrossingInv'
  BY DEF TypeOK, DownInv, CrossingInv
<1>. QED  BY <1>1, <1>2, <1>3, <1>4, <1>5, <1>6

LEMMA StartConsumingKeepsIInv ==
  ASSUME IInv, StartConsuming
  PROVE  IInv'
<1>. USE DEF IInv, StartConsuming
<1>1. TypeOK'
  BY DEF TypeOK
<1>2. Exclusion'
  BY DEF TypeOK, Exclusion
<1>3. TrainingInv'
  BY DEF TypeOK, TrainingInv
<1>4. HandOverInv'
  BY DEF TypeOK, HandOverInv
<1>5. DownInv'
  BY DEF TypeOK, DownInv
<1>6. CrossingInv'
  BY DEF TypeOK, CrossingInv
<1>. QED  BY <1>1, <1>2, <1>3, <1>4, <1>5, <1>6

LEMMA BeginScoringKeepsIInv ==
  ASSUME IInv, BeginScoring
  PROVE  IInv'
<1>. USE DEF IInv, BeginScoring
<1>1. TypeOK'
  BY DEF TypeOK
<1>2. Exclusion'
  BY DEF TypeOK, Exclusion
<1>3. TrainingInv'
  BY DEF TypeOK, TrainingInv
<1>4. HandOverInv'
  BY DEF TypeOK, HandOverInv
<1>5. DownInv'
  BY DEF TypeOK, DownInv
<1>6. CrossingInv'
  BY DEF TypeOK, CrossingInv
<1>. QED  BY <1>1, <1>2, <1>3, <1>4, <1>5, <1>6

LEMMA RebuildLinkerKeepsIInv ==
  ASSUME IInv, RebuildLinker
  PROVE  IInv'
<1>. USE DEF IInv, RebuildLinker
<1>1. TypeOK'
  BY DEF TypeOK
<1>2. Exclusion'
  BY DEF TypeOK, Exclusion
<1>3. TrainingInv'
  BY DEF TypeOK, TrainingInv
<1>4. HandOverInv'
  BY DEF TypeOK, HandOverInv
<1>5. DownInv'
  BY DEF TypeOK, DownInv
<1>6. CrossingInv'
  BY DEF TypeOK, CrossingInv
<1>. QED  BY <1>1, <1>2, <1>3, <1>4, <1>5, <1>6

LEMMA ClearPendingKeepsIInv ==
  ASSUME IInv, ClearPending
  PROVE  IInv'
<1>. USE DEF IInv, ClearPending
<1>1. TypeOK'
  BY DEF TypeOK
<1>2. Exclusion'
  BY DEF TypeOK, Exclusion
<1>3. TrainingInv'
  BY DEF TypeOK, TrainingInv
<1>4. HandOverInv'
  BY DEF TypeOK, HandOverInv
<1>5. DownInv'
  BY DEF TypeOK, DownInv
<1>6. CrossingInv'
  BY DEF TypeOK, CrossingInv
<1>. QED  BY <1>1, <1>2, <1>3, <1>4, <1>5, <1>6

LEMMA FinishBiteKeepsIInv ==
  ASSUME IInv, FinishBite
  PROVE  IInv'
<1>. USE DEF IInv, FinishBite
<1>1. TypeOK'
  BY DEF TypeOK
<1>2. Exclusion'
  BY DEF TypeOK, Exclusion
<1>3. TrainingInv'
  BY DEF TypeOK, TrainingInv
<1>4. HandOverInv'
  BY DEF TypeOK, HandOverInv
<1>5. DownInv'
  BY DEF TypeOK, DownInv
<1>6. CrossingInv'
  BY DEF TypeOK, CrossingInv
<1>. QED  BY <1>1, <1>2, <1>3, <1>4, <1>5, <1>6

LEMMA MaybeStartTrainingKeepsIInv ==
  ASSUME IInv, MaybeStartTraining
  PROVE  IInv'
<1>. USE DEF IInv, MaybeStartTraining, Crosses
<1>1. TypeOK'
  BY DEF TypeOK
<1>2. Exclusion'
  BY DEF TypeOK, Exclusion, CrossingInv
<1>3. TrainingInv'
  BY DEF TypeOK, TrainingInv, CrossingInv
<1>4. HandOverInv'
  BY DEF TypeOK, HandOverInv
<1>5. DownInv'
  BY DEF TypeOK, DownInv
<1>6. CrossingInv'
  BY DEF TypeOK, CrossingInv
<1>. QED  BY <1>1, <1>2, <1>3, <1>4, <1>5, <1>6

LEMMA CrashKeepsIInv ==
  ASSUME IInv, Crash
  PROVE  IInv'
<1>. USE DEF IInv, Crash
<1>1. TypeOK'
  <2>1. stored' \in 0..MaxStored /\ batch' \in 0..MaxBite /\ crashes' \in 0..MaxCrashes
    BY DEF TypeOK
  <2>2. at' \in [Threads -> {"idle", "called", "needed", "locked", "training",
                           "saving", "handing", "leaving"}]
    OBVIOUS
  <2>. QED  BY <2>1, <2>2 DEF TypeOK
<1>2. Exclusion'
  BY DEF TypeOK, Exclusion
<1>3. TrainingInv'
  BY DEF TypeOK, TrainingInv
<1>4. HandOverInv'
  BY DEF TypeOK, HandOverInv
<1>5. DownInv'
  BY DEF TypeOK, DownInv
<1>6. CrossingInv'
  BY DEF TypeOK, CrossingInv
<1>. QED  BY <1>1, <1>2, <1>3, <1>4, <1>5, <1>6

LEMMA CallKeepsIInv ==
  ASSUME IInv, Call
  PROVE  IInv'
<1>. USE DEF IInv, Call, Moves
<1>1. TypeOK'
  BY DEF TypeOK
<1>2. Exclusion'
  BY DEF TypeOK, Exclusion
<1>3. TrainingInv'
  BY DEF TypeOK, TrainingInv
<1>4. HandOverInv'
  BY DEF TypeOK, HandOverInv
<1>5. DownInv'
  BY DEF TypeOK, DownInv
<1>6. CrossingInv'
  BY DEF TypeOK, CrossingInv
<1>. QED  BY <1>1, <1>2, <1>3, <1>4, <1>5, <1>6

LEMMA CheckNeedKeepsIInv ==
  ASSUME IInv, NEW t \in Threads, CheckNeed(t)
  PROVE  IInv'
<1>. USE DEF IInv, CheckNeed, Moves
<1>1. TypeOK'
  BY DEF TypeOK
<1>2. Exclusion'
  BY DEF TypeOK, Exclusion
<1>3. TrainingInv'
  BY DEF TypeOK, TrainingInv
<1>4. HandOverInv'
  BY DEF TypeOK, HandOverInv
<1>5. DownInv'
  BY DEF TypeOK, DownInv
<1>6. CrossingInv'
  BY DEF TypeOK, CrossingInv
<1>. QED  BY <1>1, <1>2, <1>3, <1>4, <1>5, <1>6

LEMMA TryLockKeepsIInv ==
  ASSUME IInv, NEW t \in Threads, TryLock(t)
  PROVE  IInv'
<1>. USE DEF IInv, TryLock, Moves
<1>1. TypeOK'
  BY DEF TypeOK
<1>2. Exclusion'
  BY DEF TypeOK, Exclusion
<1>3. TrainingInv'
  BY DEF TypeOK, TrainingInv
<1>4. HandOverInv'
  BY DEF TypeOK, HandOverInv
<1>5. DownInv'
  BY DEF TypeOK, DownInv
<1>6. CrossingInv'
  BY DEF TypeOK, CrossingInv
<1>. QED  BY <1>1, <1>2, <1>3, <1>4, <1>5, <1>6

LEMMA RecheckKeepsIInv ==
  ASSUME IInv, NEW t \in Threads, Recheck(t)
  PROVE  IInv'
<1>. USE DEF IInv, Recheck, Moves
<1>1. TypeOK'
  BY DEF TypeOK
<1>2. Exclusion'
  BY DEF TypeOK, Exclusion
<1>3. TrainingInv'
  BY DEF TypeOK, Exclusion, TrainingInv, DownInv
<1>4. HandOverInv'
  BY DEF TypeOK, HandOverInv
<1>5. DownInv'
  BY DEF TypeOK, DownInv
<1>6. CrossingInv'
  BY DEF TypeOK, CrossingInv
<1>. QED  BY <1>1, <1>2, <1>3, <1>4, <1>5, <1>6

LEMMA TrainKeepsIInv ==
  ASSUME IInv, NEW t \in Threads, Train(t)
  PROVE  IInv'
<1>. USE DEF IInv, Train, Moves
<1>1. TypeOK'
  BY DEF TypeOK
<1>2. Exclusion'
  BY DEF TypeOK, Exclusion
<1>3. TrainingInv'
  BY DEF TypeOK, TrainingInv
<1>4. HandOverInv'
  BY DEF TypeOK, HandOverInv
<1>5. DownInv'
  BY DEF TypeOK, DownInv
<1>6. CrossingInv'
  BY DEF TypeOK, CrossingInv
<1>. QED  BY <1>1, <1>2, <1>3, <1>4, <1>5, <1>6

LEMMA OpenModelFileKeepsIInv ==
  ASSUME IInv, NEW t \in Threads, OpenModelFile(t)
  PROVE  IInv'
<1>. USE DEF IInv, OpenModelFile, Moves
<1>1. TypeOK'
  BY DEF TypeOK
<1>2. Exclusion'
  BY DEF TypeOK, Exclusion
<1>3. TrainingInv'
  BY DEF TypeOK, TrainingInv
<1>4. HandOverInv'
  BY DEF TypeOK, TrainingInv, HandOverInv
<1>5. DownInv'
  BY DEF TypeOK, DownInv
<1>6. CrossingInv'
  BY DEF TypeOK, CrossingInv
<1>. QED  BY <1>1, <1>2, <1>3, <1>4, <1>5, <1>6

LEMMA SaveModelKeepsIInv ==
  ASSUME IInv, NEW t \in Threads, SaveModel(t)
  PROVE  IInv'
<1>. USE DEF IInv, SaveModel, Moves
<1>1. TypeOK'
  BY DEF TypeOK
<1>2. Exclusion'
  BY DEF TypeOK, Exclusion
<1>3. TrainingInv'
  <2>1. at' = [at EXCEPT ![t] = "handing"] /\ at[t] = "saving" /\ file' = trained
    OBVIOUS
  <2>2. at \in [Threads -> {"idle", "called", "needed", "locked", "training",
                          "saving", "handing", "leaving"}] /\ trained \in Nat
    BY DEF TypeOK
  <2>3. at'[t] = "handing" /\ lock = t /\ NeedsTraining
    BY <2>1, <2>2 DEF Exclusion, TrainingInv
  <2>4. \A u \in Threads \ {t} :
          at'[u] \notin {"training", "saving", "handing"}
    BY <2>1, <2>2, <2>3 DEF Exclusion
  <2>5. trained # None
    BY DEF TypeOK, TrainingInv
  <2>6. UNCHANGED <<source, loadError, trained>>
    OBVIOUS
  <2>. QED  BY <2>1, <2>3, <2>4, <2>5, <2>6 DEF TrainingInv
<1>4. HandOverInv'
  BY DEF TypeOK, HandOverInv
<1>5. DownInv'
  BY DEF TypeOK, DownInv
<1>6. CrossingInv'
  BY DEF TypeOK, CrossingInv
<1>. QED  BY <1>1, <1>2, <1>3, <1>4, <1>5, <1>6

LEMMA HandOverKeepsIInv ==
  ASSUME IInv, NEW t \in Threads, HandOver(t)
  PROVE  IInv'
<1>. USE DEF IInv, HandOver, Moves
<1>1. TypeOK'
  BY DEF TypeOK
<1>2. Exclusion'
  BY DEF TypeOK, Exclusion
<1>3. TrainingInv'
  BY DEF TypeOK, Exclusion, TrainingInv
<1>4. HandOverInv'
  BY DEF TypeOK, TrainingInv, HandOverInv
<1>5. DownInv'
  BY DEF TypeOK, DownInv
<1>6. CrossingInv'
  BY DEF TypeOK, CrossingInv
<1>. QED  BY <1>1, <1>2, <1>3, <1>4, <1>5, <1>6

LEMMA TrainingFailsKeepsIInv ==
  ASSUME IInv, NEW t \in Threads, TrainingFails(t)
  PROVE  IInv'
<1>. USE DEF IInv, TrainingFails, Moves
<1>1. TypeOK'
  BY DEF TypeOK
<1>2. Exclusion'
  BY DEF TypeOK, Exclusion
<1>3. TrainingInv'
  BY DEF TypeOK, TrainingInv
<1>4. HandOverInv'
  BY DEF TypeOK, HandOverInv
<1>5. DownInv'
  BY DEF TypeOK, DownInv
<1>6. CrossingInv'
  BY DEF TypeOK, CrossingInv
<1>. QED  BY <1>1, <1>2, <1>3, <1>4, <1>5, <1>6

LEMMA LeaveKeepsIInv ==
  ASSUME IInv, NEW t \in Threads, Leave(t)
  PROVE  IInv'
<1>. USE DEF IInv, Leave, Moves
<1>1. TypeOK'
  BY DEF TypeOK
<1>2. Exclusion'
  BY DEF TypeOK, Exclusion
<1>3. TrainingInv'
  BY DEF TypeOK, TrainingInv
<1>4. HandOverInv'
  BY DEF TypeOK, HandOverInv
<1>5. DownInv'
  BY DEF TypeOK, DownInv
<1>6. CrossingInv'
  BY DEF TypeOK, CrossingInv
<1>. QED  BY <1>1, <1>2, <1>3, <1>4, <1>5, <1>6

LEMMA TrainStepKeepsIInv ==
  ASSUME IInv, NEW t \in Threads, TrainStep(t)
  PROVE  IInv'
<1>1. CASE CheckNeed(t)      BY <1>1, CheckNeedKeepsIInv
<1>2. CASE TryLock(t)        BY <1>2, TryLockKeepsIInv
<1>3. CASE Recheck(t)        BY <1>3, RecheckKeepsIInv
<1>4. CASE Train(t)          BY <1>4, TrainKeepsIInv
<1>5. CASE OpenModelFile(t)  BY <1>5, OpenModelFileKeepsIInv
<1>6. CASE SaveModel(t)      BY <1>6, SaveModelKeepsIInv
<1>7. CASE HandOver(t)       BY <1>7, HandOverKeepsIInv
<1>8. CASE TrainingFails(t)  BY <1>8, TrainingFailsKeepsIInv
<1>9. CASE Leave(t)          BY <1>9, LeaveKeepsIInv
<1>. QED  BY <1>1, <1>2, <1>3, <1>4, <1>5, <1>6, <1>7, <1>8, <1>9 DEF TrainStep

LEMMA StutterKeepsIInv == IInv /\ UNCHANGED vars => IInv'
BY DEF vars, IInv, TypeOK, Exclusion, TrainingInv, HandOverInv, DownInv, CrossingInv

LEMMA NextKeepsIInv == IInv /\ [Next]_vars => IInv'
<1>. SUFFICES ASSUME IInv, [Next]_vars PROVE IInv'
  OBVIOUS
<1>1. CASE Work
  BY <1>1, StartKeepsIInv, StartConsumingKeepsIInv, RebuildLinkerKeepsIInv,
     ClearPendingKeepsIInv, FinishBiteKeepsIInv, MaybeStartTrainingKeepsIInv DEF Work
<1>2. CASE BeginScoring
  BY <1>2, BeginScoringKeepsIInv
<1>3. CASE Call
  BY <1>3, CallKeepsIInv
<1>4. CASE \E t \in Threads : TrainStep(t)
  <2>1. PICK t \in Threads : TrainStep(t)
    BY <1>4
  <2>. QED  BY <2>1, TrainStepKeepsIInv
<1>5. CASE Crash
  BY <1>5, CrashKeepsIInv
<1>6. CASE UNCHANGED vars
  BY <1>6, StutterKeepsIInv
<1>. QED  BY <1>1, <1>2, <1>3, <1>4, <1>5, <1>6 DEF Next

LEMMA Safety == Spec => []IInv
<1>1. Init => IInv
  BY InitIInv
<1>2. IInv /\ [Next]_vars => IInv'
  BY NextKeepsIInv
<1>3. Spec => Init /\ [][Next]_vars
  BY PTL DEF Spec
<1>. QED  BY <1>1, <1>2, <1>3, PTL

-----------------------------------------------------------------------------
(***************************************************************************)
(* The invariants that the runs check, for any threshold, bite and bound,  *)
(* with or without a model file, with a database in a file or in memory.   *)
(***************************************************************************)
\* The variables stay within their types (the state of the linker, of the
\* training threads and of the worker).
THEOREM LifecycleTypes == Spec => []TypeOK
<1>1. IInv => TypeOK
  BY DEF IInv
<1>. QED  BY <1>1, Safety, PTL

\* A model that was trained is never lost before the worker scores with it
\* (_apply_trained_settings keeps what it could not apply).
THEOREM ModelIsNeverLost == Spec => []NoModelLost
<1>1. IInv => NoModelLost
  BY DEF IInv, HandOverInv, NoModelLost
<1>. QED  BY <1>1, Safety, PTL

\* With a model path, the model that the worker scores with is the one in the
\* file, whenever the process dies (train saves before it hands over).
THEOREM RestartContinues == Spec => []RestartKeepsModel
<1>1. IInv => RestartKeepsModel
  BY DEF IInv, HandOverInv, RestartKeepsModel
<1>. QED  BY <1>1, Safety, PTL

\* A process starts at most one training thread (_maybe_start_training tests
\* the crossing, not the level).
THEOREM OneTrainingThread == Spec => []TrainingStartsOnce
<1>1. IInv => TrainingStartsOnce
  BY DEF IInv, CrossingInv, TrainingStartsOnce
<1>. QED  BY <1>1, Safety, PTL

\* The trainings the program starts by itself have the threshold's mentions
\* committed (the thread starts after the commit).
THEOREM ThresholdIsCommitted == Spec => []TrainingSeesThreshold
<1>1. IInv => TrainingSeesThreshold
  BY DEF IInv, CrossingInv, TrainingSeesThreshold
<1>. QED  BY <1>1, Safety, PTL

-----------------------------------------------------------------------------
(***************************************************************************)
(* What no step does.                                                      *)
(***************************************************************************)
\* No step changes the parameters the worker scores with once there is a model,
\* nor a model in the file.
LEMMA StepKeepsModel ==
  ASSUME IInv, [Next]_vars
  PROVE  /\ scoring # Cold /\ worker' # "down" => scoring' = scoring
         /\ file \in Models => file' = file
<1>. USE DEF IInv
<1>1. CASE Work
  <2>1. CASE Start
    BY <2>1 DEF Start, BuildScoringLinker, DownInv
  <2>2. CASE RebuildLinker
    BY <2>2 DEF RebuildLinker, HandOverInv
  <2>3. CASE StartConsuming \/ ClearPending \/ FinishBite \/ MaybeStartTraining
    BY <2>3 DEF StartConsuming, ClearPending, FinishBite, MaybeStartTraining
  <2>. QED  BY <1>1, <2>1, <2>2, <2>3 DEF Work
<1>2. CASE BeginScoring \/ Call \/ Crash
  BY <1>2 DEF BeginScoring, Call, Crash
<1>3. CASE \E t \in Threads : TrainStep(t)
  <2>1. PICK t \in Threads : TrainStep(t)
    BY <1>3
  <2>2. CASE OpenModelFile(t) \/ SaveModel(t)
    BY <2>2 DEF OpenModelFile, SaveModel, Moves, TrainingInv
  <2>3. CASE \/ CheckNeed(t) \/ TryLock(t) \/ Recheck(t) \/ Train(t)
             \/ HandOver(t) \/ TrainingFails(t) \/ Leave(t)
    BY <2>3 DEF CheckNeed, TryLock, Recheck, Train, HandOver, TrainingFails, Leave
  <2>. QED  BY <2>1, <2>2, <2>3 DEF TrainStep
<1>4. CASE UNCHANGED vars
  BY <1>4 DEF vars
<1>. QED  BY <1>1, <1>2, <1>3, <1>4 DEF Next

\* Once there is a model, in the linker or in the file, it is kept: nothing
\* retrains, replaces or forgets it, whoever calls train().
THEOREM ModelStays == Spec => ModelFrozen
<1>1. IInv /\ [Next]_vars => [/\ scoring # Cold /\ worker' # "down" => scoring' = scoring
                              /\ file \in Models => file' = file]_vars
  BY StepKeepsModel
<1>2. Spec => [][Next]_vars
  BY PTL DEF Spec
<1>. QED  BY <1>1, <1>2, Safety, PTL DEF ModelFrozen

\* No step of a process that could not load the model file writes that file.
LEMMA StepKeepsUnusable ==
  ASSUME IInv, [Next]_vars
  PROVE  loadError /\ worker' # "down" => file' = file
<1>. USE DEF IInv
<1>1. CASE Work \/ BeginScoring \/ Call \/ Crash
  BY <1>1 DEF Work, Start, StartConsuming, RebuildLinker, ClearPending, FinishBite,
              MaybeStartTraining, BeginScoring, Call, Crash
<1>2. CASE \E t \in Threads : TrainStep(t)
  <2>1. PICK t \in Threads : TrainStep(t)
    BY <1>2
  <2>2. CASE OpenModelFile(t) \/ SaveModel(t)
    BY <2>2 DEF OpenModelFile, SaveModel, Moves, TrainingInv
  <2>3. CASE \/ CheckNeed(t) \/ TryLock(t) \/ Recheck(t) \/ Train(t)
             \/ HandOver(t) \/ TrainingFails(t) \/ Leave(t)
    BY <2>3 DEF CheckNeed, TryLock, Recheck, Train, HandOver, TrainingFails, Leave
  <2>. QED  BY <2>1, <2>2, <2>3 DEF TrainStep
<1>3. CASE UNCHANGED vars
  BY <1>3 DEF vars
<1>. QED  BY <1>1, <1>2, <1>3 DEF Next

\* A model file that could not be loaded is left for the operator: no training
\* of that process replaces it (needs_training is false).
THEOREM UnusableStays == Spec => UnusableFileUntouched
<1>1. IInv /\ [Next]_vars => [loadError /\ worker' # "down" => file' = file]_vars
  BY StepKeepsUnusable
<1>2. Spec => [][Next]_vars
  BY PTL DEF Spec
<1>. QED  BY <1>1, <1>2, Safety, PTL DEF UnusableFileUntouched
=============================================================================
