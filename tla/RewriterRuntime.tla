---------------------------- MODULE RewriterRuntime ----------------------------
(***************************************************************************)
(* The rewriter worker's runtime: one lock around one loaded model, taken  *)
(* without waiting by a request and by the timer that unloads an idle      *)
(* model.  Timers are told apart by the generation they were armed with.   *)
(* A timer that is cancelled while its callback has already begun is not   *)
(* stopped: its callback may come in minutes later, after a request that   *)
(* used the model and armed a timer of its own.                            *)
(*                                                                         *)
(* A step is a section of the code between two points where another thread *)
(* can tell the difference.  A request that finds the lock taken answers   *)
(* 429 and changes nothing, so it is no action.  Left out: prompts and     *)
(* answers, and why a model can not be loaded (missing, damaged, not       *)
(* downloaded, refused by llama.cpp).                                      *)
(***************************************************************************)
EXTENDS Integers, FiniteSets

CONSTANTS
    Models,         \* the allowlisted models
    NoModel,        \* nothing is loaded
    Preload,        \* preload_model_id, or NoModel
    IdleUnload,     \* idle_unload_seconds is not 0
    MaxGeneration   \* bound: the generation after which nobody calls

ASSUME NoModelAssumption == NoModel \notin Models
ASSUME PreloadAssumption == Preload \in Models \cup {NoModel}
ASSUME IdleUnloadAssumption == IdleUnload \in BOOLEAN
ASSUME GenerationAssumption == MaxGeneration \in Nat /\ MaxGeneration >= 2

VARIABLES
    holder,         \* who holds _inference_lock, or "nobody"
    at,             \* where the holder is
    wanted,         \* the model of the last request
    mine,           \* the generation of the last callback that got the lock
    model,          \* _model and _loaded_spec, which change together
    failure,        \* _readiness_failure is set
    generation,     \* _idle_generation
    idleTimer,      \* the generation of _idle_timer, 0 for none
    armed,          \* generations of the timers that wait
    fired,          \* generations of the callbacks that have not yet the lock
    used            \* history: generations of timers older than some request

timers == <<generation, idleTimer, armed>>
vars == <<holder, at, wanted, mine, model, failure, timers, fired, used>>

Generations == 1 .. MaxGeneration

Init ==
    /\ IF Preload = NoModel THEN holder = "nobody" /\ at = "free"
       ELSE holder = "preload" /\ at = "cancel"
    /\ wanted = Preload /\ mine = 0
    /\ model = NoModel /\ failure = FALSE
    /\ generation = 0 /\ idleTimer = 0 /\ armed = {} /\ fired = {} /\ used = {}

-----------------------------------------------------------------------------
(* rewrite, start and stop.                                                *)

\* rewrite has the lock.
Rewrite(m) ==
    /\ at = "free" /\ generation + 2 <= MaxGeneration
    /\ holder' = "request" /\ at' = "cancel" /\ wanted' = m
    /\ used' = used \cup armed \cup fired
    /\ UNCHANGED <<mine, model, failure, timers, fired>>

\* stop has the lock.
Stop ==
    /\ at = "free" /\ generation + 2 <= MaxGeneration
    /\ holder' = "stop" /\ at' = "cancel"
    /\ UNCHANGED <<wanted, mine, model, failure, timers, fired, used>>

\* Timer.cancel stops a timer that waits, never a callback that has begun.
CancelIdleTimer ==
    /\ at = "cancel"
    /\ generation' = generation + 1
    /\ idleTimer' = 0 /\ armed' = armed \ {idleTimer}
    /\ at' = IF holder = "stop" THEN "unload" ELSE "ensure"
    /\ UNCHANGED <<holder, wanted, mine, model, failure, fired, used>>

\* The model that is loaded is used, any other unloaded first.
EnsureModel ==
    /\ at = "ensure"
    /\ IF model = wanted
       THEN at' = (IF holder = "preload" THEN "finish" ELSE "infer")
            /\ UNCHANGED model
       ELSE at' = "load" /\ model' = NoModel
    /\ UNCHANGED <<holder, wanted, mine, failure, timers, fired, used>>

\* The model is loaded, or can not be, or memory runs out.  A preload that
\* runs out of memory ends the process and is left out.
LoadModel ==
    /\ at = "load"
    /\ \/ /\ model' = wanted /\ failure' = FALSE
          /\ at' = (IF holder = "preload" THEN "finish" ELSE "infer")
       \/ failure' = TRUE /\ at' = "finish" /\ UNCHANGED model
       \/ holder = "request" /\ at' = "memory" /\ UNCHANGED <<model, failure>>
    /\ UNCHANGED <<holder, wanted, mine, timers, fired, used>>

\* A slip of EndInference: an answer that is refused skips the finally block.
EndInferenceNoFinally ==
    /\ at = "infer" /\ at' \in {"finish", "memory", "release"}
    /\ UNCHANGED <<holder, wanted, mine, model, failure, timers, fired, used>>

\* The model answers, fails, or runs out of memory.
EndInference ==
    /\ at = "infer" /\ at' \in {"finish", "memory"}
    /\ UNCHANGED <<holder, wanted, mine, model, failure, timers, fired, used>>

\* A slip of OutOfMemory: the model stays loaded.
OutOfMemoryKeepsModel ==
    /\ at = "memory" /\ at' = "finish" /\ failure' = TRUE
    /\ UNCHANGED <<holder, wanted, mine, model, timers, fired, used>>

\* The failure is recorded before the model is unloaded.
OutOfMemory ==
    /\ at = "memory" /\ at' = "unload" /\ failure' = TRUE
    /\ UNCHANGED <<holder, wanted, mine, model, timers, fired, used>>

\* _unload_model_locked, and on to the end of its caller.
Unload ==
    /\ at = "unload"
    /\ model' = NoModel
    /\ at' = IF holder = "request" THEN "finish" ELSE "release"
    /\ UNCHANGED <<holder, wanted, mine, failure, timers, fired, used>>

\* The finally block: however the request ended, a model that is loaded gets
\* a timer.
Finish ==
    /\ at = "finish" /\ at' = "release"
    /\ IF model # NoModel /\ IdleUnload
       THEN /\ generation' = generation + 1
            /\ idleTimer' = generation + 1
            /\ armed' = (armed \ {idleTimer}) \cup {generation + 1}
       ELSE UNCHANGED timers
    /\ UNCHANGED <<holder, wanted, mine, model, failure, fired, used>>

Release ==
    /\ at = "release"
    /\ holder' = "nobody" /\ at' = "free"
    /\ UNCHANGED <<wanted, mine, model, failure, timers, fired, used>>

-----------------------------------------------------------------------------
(* The timers.                                                             *)

\* A timer's seconds have passed.  A callback, and the release after a timer
\* is armed, are assumed to be shorter than the delay: a timer does not fire
\* before an older callback ended or the lock was given back by its request.
TimerFires(g) ==
    /\ g \in armed /\ fired = {}
    /\ holder # "callback" /\ at # "release"
    /\ armed' = armed \ {g} /\ fired' = {g}
    /\ UNCHANGED <<holder, at, wanted, mine, model, failure, generation,
                   idleTimer, used>>

\* _idle_unload: a callback that finds the lock taken is over.
CallbackBegins(g) ==
    /\ g \in fired
    /\ fired' = fired \ {g}
    /\ IF at = "free" THEN holder' = "callback" /\ at' = "check" /\ mine' = g
       ELSE UNCHANGED <<holder, at, mine>>
    /\ UNCHANGED <<wanted, model, failure, timers, used>>

\* A slip of CallbackChecks: the callback unloads whatever is loaded.
CallbackChecksNothing ==
    /\ at = "check"
    /\ idleTimer' = 0 /\ at' = "unload"
    /\ UNCHANGED <<holder, wanted, mine, model, failure, generation, armed,
                   fired, used>>

\* Under _state_lock it looks whether its generation is still the last.
CallbackChecks ==
    /\ at = "check"
    /\ IF mine = generation THEN idleTimer' = 0 /\ at' = "unload"
       ELSE at' = "release" /\ UNCHANGED idleTimer
    /\ UNCHANGED <<holder, wanted, mine, model, failure, generation, armed,
                   fired, used>>

\* readiness finds that the file of the model that failed has changed.
FailureCleared ==
    /\ failure /\ failure' = FALSE
    /\ UNCHANGED <<holder, at, wanted, mine, model, timers, fired, used>>

-----------------------------------------------------------------------------
Holding ==
    \/ CancelIdleTimer \/ EnsureModel \/ LoadModel \/ EndInference
    \/ OutOfMemory \/ Unload \/ Finish \/ Release \/ CallbackChecks

Timers == \E g \in armed \cup fired : TimerFires(g) \/ CallbackBegins(g)

Next ==
    \/ \E m \in Models : Rewrite(m)
    \/ Stop \/ Holding \/ Timers \/ FailureCleared

Spec == Init /\ [][Next]_vars

\* Threads run, timers fire and loading and inference end; nobody has to call.
FairSpec == Spec /\ WF_vars(Holding) /\ WF_vars(Timers)

-----------------------------------------------------------------------------
(* Properties.                                                             *)

\* Generations grow with the timers; the model is an allowlisted one.
TypeOK ==
    /\ holder \in {"nobody", "preload", "request", "stop", "callback"}
    /\ at \in {"free", "cancel", "ensure", "load", "infer", "memory",
               "unload", "finish", "release", "check"}
    /\ {wanted, model} \subseteq Models \cup {NoModel}
    /\ failure \in BOOLEAN
    /\ {generation, idleTimer, mine} \subseteq 0 .. MaxGeneration
    /\ armed \cup fired \cup used \subseteq 1 .. generation

\* An inference runs on the model its request named, and neither a timer nor
\* stop takes it away meanwhile.
ModelInUse == at = "infer" => model = wanted

\* No callback unloads a model that a request has used since the timer of
\* that callback was armed, however late the callback comes.
LateCallbackSparesModel ==
    holder = "callback" /\ at = "unload" => mine \notin used

\* A model nobody uses is never left without a timer that will unload it,
\* though requests cancel timers, fail in every way and miss callbacks.
IdleModelIsWatched ==
    IdleUnload /\ at = "free" /\ model # NoModel =>
        generation \in armed \cup fired

\* The readiness probe never reports a failure for a runtime that has a model
\* loaded and nothing to do.
LoadedModelIsReady == at = "free" /\ failure => model = NoModel

\* A runtime with nothing to do is watched and tells the truth about itself.
IdleRuntimeIsSound == IdleModelIsWatched /\ LoadedModelIsReady

\* When the requests end, so does the model.
IdleModelIsUnloaded == IdleUnload => <>[](model = NoModel)

=============================================================================
