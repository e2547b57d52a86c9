------------------------- MODULE RewriterRuntimeProofs -------------------------
(***************************************************************************)
(* RewriterRuntime for any models and any number of calls.  The lock alone *)
(* explains little: what holds everything together is where the last       *)
(* generation is.  While nobody computes it is the generation of a timer   *)
(* or a callback, no request has used it, and every other callback has a   *)
(* smaller one.                                                            *)
(***************************************************************************)
EXTENDS RewriterRuntime, TLAPS

\* Who can be where.
Places ==
    /\ at = "free" <=> holder = "nobody"
    /\ at = "check" => holder = "callback"
    /\ holder = "callback" => at \in {"check", "unload", "release"}
    /\ holder = "stop" => at \in {"cancel", "unload", "release"}
    /\ holder = "preload" => at \notin {"infer", "memory", "unload"}
    /\ holder \in {"preload", "request"} => wanted \in Models

\* A holder that has cancelled a timer, or will, can still count.
Budget ==
    /\ at = "cancel" => generation + 2 <= MaxGeneration
    /\ at \in {"ensure", "load", "infer", "memory", "finish"}
          \/ (at = "unload" /\ holder = "request")
          => generation + 1 <= MaxGeneration

\* One timer waits, the last one; one callback is about to take the lock.
OneTimer ==
    /\ armed \subseteq {idleTimer} /\ armed \subseteq {generation}
    /\ \A x, y \in fired : x = y
    /\ fired \cap armed = {}
    /\ holder = "callback" => fired = {} /\ mine \notin armed
    /\ holder = "callback" /\ at = "unload" => mine = generation

\* The last generation is unused, but by a request that has yet to count on.
LastIsUnused == at # "cancel" => generation \notin used

\* Where the last generation is while a model is loaded and idle.
Watched ==
    IdleUnload /\ model # NoModel =>
        /\ at = "free" => generation \in armed \cup fired
        /\ at = "release" => generation \in armed
        /\ at = "check" => mine = generation \/ generation \in armed

Failed == failure /\ model # NoModel => at = "unload" /\ holder = "request"

Computing ==
    /\ at = "infer" => model = wanted
    /\ at = "load" => model = NoModel

Inv ==
    /\ TypeOK /\ Places /\ Budget /\ OneTimer /\ LastIsUnused
    /\ Watched /\ Failed /\ Computing

-----------------------------------------------------------------------------
LEMMA InitInv == Init => Inv
<1> USE NoModelAssumption, PreloadAssumption, GenerationAssumption
<1> SUFFICES ASSUME Init PROVE Inv
    OBVIOUS
<1>1. TypeOK
  <2>1. {wanted, model} \subseteq Models \cup {NoModel}
      BY DEF Init
  <2>2. {generation, idleTimer, mine} \subseteq 0 .. MaxGeneration
      BY DEF Init
  <2> QED
      BY <2>1, <2>2 DEF Init, TypeOK
<1>2. Places /\ Budget
    BY DEF Init, Places, Budget
<1>3. OneTimer /\ LastIsUnused
    BY DEF Init, OneTimer, LastIsUnused
<1>4. Watched /\ Failed /\ Computing
    BY DEF Init, Watched, Failed, Computing
<1> QED
    BY <1>1, <1>2, <1>3, <1>4 DEF Inv

LEMMA CallSteps ==
    ASSUME Inv, Stop \/ \E m \in Models : Rewrite(m)
    PROVE  Inv'
<1> USE NoModelAssumption, GenerationAssumption DEF Rewrite, Stop, timers
<1>1. TypeOK'
    BY DEF Inv, TypeOK
<1>2. Places'
    BY DEF Inv, Places
<1>3. Budget'
    BY DEF Inv, Budget
<1>4. OneTimer'
    BY DEF Inv, OneTimer
<1>5. LastIsUnused' /\ Watched' /\ Computing'
    BY DEF Inv, LastIsUnused, Watched, Computing
<1>6. Failed'
    BY DEF Inv, Failed, Places
<1> QED
    BY <1>1, <1>2, <1>3, <1>4, <1>5, <1>6 DEF Inv

LEMMA CancelStep ==
    ASSUME Inv, CancelIdleTimer
    PROVE  Inv'
<1> USE GenerationAssumption DEF CancelIdleTimer
<1>0. generation \in Nat /\ generation' \in Nat /\ generation' = generation + 1
    BY DEF Inv, TypeOK
<1>1. TypeOK'
  <2>1. {generation', idleTimer', mine'} \subseteq 0 .. MaxGeneration
      BY <1>0 DEF Inv, TypeOK, Budget
  <2>2. armed' \cup fired' \cup used' \subseteq 1 .. generation'
      BY <1>0 DEF Inv, TypeOK
  <2> QED
      BY <2>1, <2>2 DEF Inv, TypeOK
<1>2. Places'
    BY DEF Inv, Places
<1>3. Budget'
    BY <1>0 DEF Inv, Budget, Places
<1>4. OneTimer'
    BY DEF Inv, OneTimer, Places
<1>5. LastIsUnused'
    BY <1>0 DEF Inv, TypeOK, LastIsUnused
<1>6. Watched' /\ Failed' /\ Computing'
    BY DEF Inv, Watched, Failed, Computing, Places
<1> QED
    BY <1>1, <1>2, <1>3, <1>4, <1>5, <1>6 DEF Inv

\* Steps of the holder that leave the timers alone.
LEMMA ModelSteps ==
    ASSUME Inv, \/ EnsureModel \/ LoadModel \/ EndInference \/ OutOfMemory
                \/ Unload \/ Release
    PROVE  Inv'
<1> USE NoModelAssumption
<1> USE DEF EnsureModel, LoadModel, EndInference, OutOfMemory, Unload, Release,
            timers
<1>1. TypeOK'
    BY DEF Inv, TypeOK
<1>2. Places'
    BY DEF Inv, Places
<1>3. Budget'
    BY DEF Inv, Budget, Places
<1>4. OneTimer'
    BY DEF Inv, OneTimer, Places
<1>5. LastIsUnused'
    BY DEF Inv, LastIsUnused
<1>6. Watched'
    BY DEF Inv, Watched, Places
<1>7. Failed'
    BY DEF Inv, TypeOK, Failed, Computing, Places
<1>8. Computing'
    BY DEF Inv, Computing, Places
<1> QED
    BY <1>1, <1>2, <1>3, <1>4, <1>5, <1>6, <1>7, <1>8 DEF Inv

LEMMA FinishStep ==
    ASSUME Inv, Finish
    PROVE  Inv'
<1> USE GenerationAssumption DEF Finish, timers
<1>0. generation \in Nat /\ generation + 1 \in 0 .. MaxGeneration
    BY DEF Inv, TypeOK, Budget
<1>1. TypeOK'
    BY <1>0 DEF Inv, TypeOK
<1>2. Places' /\ Budget'
    BY DEF Inv, Places, Budget
<1>4. OneTimer'
  <2>1. CASE model # NoModel /\ IdleUnload
    <3>1. armed' = {generation + 1} /\ fired' = fired
        BY <2>1 DEF Inv, OneTimer
    <3>2. generation + 1 \notin fired
        BY <1>0 DEF Inv, TypeOK
    <3> QED
        BY <2>1, <3>1, <3>2 DEF Inv, OneTimer, Places
  <2>2. CASE ~(model # NoModel /\ IdleUnload)
      BY <2>2 DEF Inv, OneTimer
  <2> QED
      BY <2>1, <2>2
<1>5. LastIsUnused'
    BY <1>0 DEF Inv, TypeOK, LastIsUnused
<1>6. Watched'
    BY <1>0 DEF Inv, Watched
<1>7. Failed' /\ Computing'
    BY DEF Inv, Failed, Computing
<1> QED
    BY <1>1, <1>2, <1>4, <1>5, <1>6, <1>7 DEF Inv

LEMMA TimerFiresStep ==
    ASSUME Inv, NEW g \in armed, TimerFires(g)
    PROVE  Inv'
<1> USE DEF TimerFires
<1>0. g = generation /\ armed' = {} /\ fired' = {generation}
    BY DEF Inv, OneTimer
<1>1. TypeOK' /\ Places' /\ Budget'
    BY DEF Inv, TypeOK, Places, Budget
<1>2. OneTimer' /\ LastIsUnused'
    BY <1>0 DEF Inv, OneTimer, LastIsUnused, Places
<1>3. Watched'
    BY <1>0 DEF Inv, Watched, Places
<1>4. Failed' /\ Computing'
    BY DEF Inv, Failed, Computing
<1> QED
    BY <1>1, <1>2, <1>3, <1>4 DEF Inv

LEMMA CallbackBeginsStep ==
    ASSUME Inv, NEW g \in fired, CallbackBegins(g)
    PROVE  Inv'
<1> USE DEF CallbackBegins, timers
<1>0. fired = {g} /\ fired' = {} /\ g \notin armed /\ g \in 0 .. MaxGeneration
  <2>1. g \in 1 .. generation /\ generation \in 0 .. MaxGeneration
      BY DEF Inv, TypeOK
  <2>2. g \in 0 .. MaxGeneration
      BY <2>1, GenerationAssumption
  <2>3. fired = {g} /\ fired' = {} /\ g \notin armed
      BY DEF Inv, OneTimer
  <2> QED
      BY <2>2, <2>3
<1>1. TypeOK'
    BY <1>0 DEF Inv, TypeOK
<1>2. Places' /\ Budget'
    BY DEF Inv, Places, Budget
<1>3. OneTimer' /\ LastIsUnused'
    BY <1>0 DEF Inv, OneTimer, LastIsUnused, Places
<1>4. Watched'
    BY <1>0 DEF Inv, Watched, Places
<1>5. Failed' /\ Computing'
    BY DEF Inv, Failed, Computing
<1> QED
    BY <1>1, <1>2, <1>3, <1>4, <1>5 DEF Inv

LEMMA CallbackChecksStep ==
    ASSUME Inv, CallbackChecks
    PROVE  Inv'
<1> USE DEF CallbackChecks
<1>0. holder = "callback"
    BY DEF Inv, Places
<1>1. TypeOK' /\ Places' /\ Budget'
    BY <1>0, GenerationAssumption DEF Inv, TypeOK, Places, Budget
<1>2. OneTimer'
    BY <1>0 DEF Inv, OneTimer
<1>3. LastIsUnused' /\ Watched'
    BY <1>0 DEF Inv, LastIsUnused, Watched
<1>4. Failed' /\ Computing'
    BY DEF Inv, Failed, Computing
<1> QED
    BY <1>1, <1>2, <1>3, <1>4 DEF Inv

LEMMA FailureClearedStep ==
    ASSUME Inv, FailureCleared
    PROVE  Inv'
BY DEF FailureCleared, timers, Inv, TypeOK, Places, Budget, OneTimer,
       LastIsUnused, Watched, Failed, Computing

LEMMA StutterStep ==
    ASSUME Inv, UNCHANGED vars
    PROVE  Inv'
BY DEF vars, timers, Inv, TypeOK, Places, Budget, OneTimer, LastIsUnused,
       Watched, Failed, Computing

LEMMA NextInv == Inv /\ [Next]_vars => Inv'
<1> SUFFICES ASSUME Inv, [Next]_vars PROVE Inv'
    OBVIOUS
<1>1. CASE Stop \/ \E m \in Models : Rewrite(m)
    BY <1>1, CallSteps
<1>3. CASE Holding
    BY <1>3, CancelStep, ModelSteps, FinishStep, CallbackChecksStep DEF Holding
<1>4. CASE Timers
    BY <1>4, TimerFiresStep, CallbackBeginsStep
    DEF Timers, TimerFires, CallbackBegins
<1>5. CASE FailureCleared
    BY <1>5, FailureClearedStep
<1>6. CASE UNCHANGED vars
    BY <1>6, StutterStep
<1> QED
    BY <1>1, <1>3, <1>4, <1>5, <1>6 DEF Next

\* Every state of every behaviour satisfies the inductive invariant.
THEOREM InvAlways == Spec => []Inv
<1> QED
    BY InitInv, NextInv, PTL DEF Spec

\* An inference runs on the model its request named, for any models and any
\* order of requests, timers and stops: rewrite and _idle_unload exclude
\* each other.
THEOREM InferenceKeepsItsModel == Spec => []ModelInUse
<1>1. Inv => ModelInUse
    BY DEF Inv, Computing, ModelInUse
<1> QED
    BY <1>1, InvAlways, PTL

\* The generation check of _idle_unload is enough: no late callback unloads a
\* model that a request has used since.
THEOREM LateCallbacksAreHarmless == Spec => []LateCallbackSparesModel
<1>1. Inv => LateCallbackSparesModel
    BY DEF Inv, OneTimer, LastIsUnused, LateCallbackSparesModel
<1> QED
    BY <1>1, InvAlways, PTL

\* No way through rewrite, start, stop and _idle_unload leaves a loaded model
\* that no timer will unload, or one that the readiness probe reports failed.
THEOREM IdleRuntimeAlwaysSound == Spec => []IdleRuntimeIsSound
<1>1. Inv => IdleModelIsWatched
    BY DEF Inv, Watched, IdleModelIsWatched
<1>2. Inv => LoadedModelIsReady
    BY DEF Inv, Failed, LoadedModelIsReady
<1>3. Inv => IdleRuntimeIsSound
    BY <1>1, <1>2 DEF IdleRuntimeIsSound
<1> QED
    BY <1>3, InvAlways, PTL
=============================================================================
