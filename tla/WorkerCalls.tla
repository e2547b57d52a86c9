------------------------------ MODULE WorkerCalls ------------------------------
(***************************************************************************)
(* The calls of the generation runner to the two inference workers, over   *)
(* HTTP: the clients of workers.go with their timeouts and their checks of *)
(* an answer, and the workers, each a process of its own with one slot for *)
(* a request and one for the thread that computes.  GenerationRunner sees  *)
(* of all this one outcome per attempt.                                    *)
(*                                                                         *)
(* A client that gives up does not stop the computation: the worker goes   *)
(* on and refuses whoever comes next.  A handler may also be cancelled     *)
(* while its thread goes on, perhaps while it still waits for the model to *)
(* be loaded: the second slot is for the threads.  A worker whose memory   *)
(* runs out forgets its model, answers, and ends its process soon after;   *)
(* its container is started again.                                         *)
(*                                                                         *)
(* The rewriter worker has the same client and one slot; its timer is      *)
(* modelled in RewriterRuntime.  Left out: the contents of audio, voices   *)
(* and transcripts, and the settings a request carries.                    *)
(***************************************************************************)
EXTENDS Integers, FiniteSets

CONSTANTS
    Attempts,       \* attempts at fragments the runner makes, in order
    MaxBody,        \* maxTTSResponseBodyBytes, maxSTTResponseBodyBytes
    Faults,         \* among "timeout", "cancel", "upload", "worker", "memory", "answer"
    Free            \* nobody holds a slot

ASSUME SizesAssumption == Attempts \in Nat \ {0} /\ MaxBody \in Nat \ {0}
ASSUME FaultsAssumption ==
    Faults \subseteq {"timeout", "cancel", "upload", "worker", "memory", "answer"}

Worker == {"tts", "stt"}
Attempt == 1 .. Attempts
Call == Attempt \X Worker
ASSUME FreeAssumption == Free \notin Call

VARIABLES
    at,         \* the attempt the runner is at
    step,       \* "tts" or "stt": whom it calls; "done" after the last one
    waits,      \* whether it waits for the answer of that call
    outcome,    \* outcome[f]: "none", "spoken" or why the attempt failed
    audio,      \* audio[f]: what the runner took from the answers
    handler,    \* handler[c]: where the worker's handler of c is
    thread,     \* thread[c]: where the thread for c is, "none" if there is none
    slot,       \* slot[w]: the call that holds request_slot
    inner,      \* inner[w]: the call that holds _inference_slot
    ready,      \* ready[w]: the model is loaded
    process     \* process[w]: "up", "exiting" or "down"

clientVars == <<at, step, waits, outcome, audio>>
workerVars == <<handler, thread, slot, inner, ready, process>>
vars == <<clientVars, workerVars>>

Current == <<at, step>>
WorkerOf(c) == c[2]
NoAudio == [size |-> 0, sent |-> 0, names |-> {}]

-----------------------------------------------------------------------------
(* Answers, and what the clients take for one.                             *)

\* A 2xx answer: the request it names, if any, the length of its body, and
\* whether the length was declared.
Named == {{Current}} \cup
         (IF "answer" \in Faults THEN {{}} \cup {{c} : c \in Call} ELSE {})
Sizes == IF "answer" \in Faults THEN 0 .. MaxBody + 1 ELSE {MaxBody}

\* With it, the headers that describe the samples.
AudioReply ==
    [names : Named, size : Sizes, declared : BOOLEAN,
     channels : IF "answer" \in Faults THEN 0 .. 2 ELSE {1},
     bits : IF "answer" \in Faults THEN {0, 8, 12} ELSE {8}]

\* With it, whether the body is the JSON it should be, and the fragment it
\* names.
TranscriptReply ==
    [names : Named, size : Sizes, declared : BOOLEAN,
     decodes : IF "answer" \in Faults THEN BOOLEAN ELSE {TRUE},
     segment : IF "answer" \in Faults THEN {"own", "", "another"} ELSE {"own"}]

\* A slip of ReadBoundedResponse: it reads up to the limit and no byte more,
\* so it can not tell a body that was cut.
ReadBoundedResponseToLimit(r) ==
    IF r.declared /\ r.size > MaxBody THEN {}
    ELSE {IF r.size > MaxBody THEN MaxBody ELSE r.size}

\* The length of the body, or nothing when it is refused: one byte beyond the
\* limit is asked for, to notice a body that goes on.
ReadBoundedResponse(r) ==
    LET read == IF r.size > MaxBody + 1 THEN MaxBody + 1 ELSE r.size
    IN  IF (r.declared /\ r.size > MaxBody) \/ read > MaxBody THEN {}
        ELSE {read}

ParseTTSAudioMetadata(r) ==
    r.channels > 0 /\ r.bits > 0 /\ r.bits % 8 = 0

FrameSize(r) == r.channels * (r.bits \div 8)

\* A slip of AcceptedAudio: nobody looks whose answer it is.
AcceptedAudioOfAnyone(r) ==
    {n \in ReadBoundedResponse(r) :
        /\ ParseTTSAudioMetadata(r)
        /\ n # 0 /\ n % FrameSize(r) = 0}

\* The body Generate accepts.  An answer that names no request is
\* taken for the answer to the request of its connection.
AcceptedAudio(r) ==
    {n \in ReadBoundedResponse(r) :
        /\ ParseTTSAudioMetadata(r)
        /\ r.names \subseteq {Current}
        /\ n # 0 /\ n % FrameSize(r) = 0}

\* The body Transcribe accepts.
AcceptedTranscript(r) ==
    {n \in ReadBoundedResponse(r) :
        r.decodes /\ r.names \subseteq {Current} /\ r.segment \in {"", "own"}}

-----------------------------------------------------------------------------
(* The runner's side.                                                      *)

SendCall ==
    /\ step # "done" /\ ~waits
    /\ waits' = TRUE
    /\ handler' = [handler EXCEPT ![Current] = "arrived"]
    /\ UNCHANGED <<at, step, outcome, audio, thread, slot, inner, ready, process>>

\* The queue goes on with the next fragment, or with the next attempt of
\* this one, whatever became of the last.
NextAttempt(o) ==
    /\ outcome' = [outcome EXCEPT ![at] = o]
    /\ waits' = FALSE
    /\ IF at < Attempts THEN at' = at + 1 /\ step' = "tts"
       ELSE at' = at /\ step' = "done"

\* processFragmentAttempt has the answer of its call: audio is sent on to
\* the other worker, everything else ends the attempt.
HasAudio(r) ==
    IF AcceptedAudio(r) # {}
    THEN /\ audio' = [audio EXCEPT ![at] =
                [size |-> CHOOSE n \in AcceptedAudio(r) : TRUE,
                 sent |-> r.size, names |-> r.names]]
         /\ step' = "stt" /\ waits' = FALSE
         /\ UNCHANGED <<at, outcome>>
    ELSE NextAttempt("invalid") /\ UNCHANGED audio

HasTranscript(r) ==
    IF AcceptedTranscript(r) # {}
    THEN /\ NextAttempt("spoken")
         /\ audio' = [audio EXCEPT ![at].names = @ \cup r.names]
    ELSE NextAttempt("invalid") /\ UNCHANGED audio

ReceiveResult ==
    LET c == Current IN
    /\ waits /\ handler[c] = "result"
    /\ handler' = [handler EXCEPT ![c] = "gone"]
    /\ \/ step = "tts" /\ \E r \in AudioReply : HasAudio(r)
       \/ step = "stt" /\ \E r \in TranscriptReply : HasTranscript(r)
    /\ UNCHANGED <<thread, slot, inner, ready, process>>

\* workerStatusError: whatever the status, the attempt fails; nothing asks
\* again.
ReceiveError ==
    LET c == Current IN
    /\ waits /\ handler[c] \in {"busy", "refused", "broken"}
    /\ handler' = [handler EXCEPT ![c] = "gone"]
    /\ NextAttempt(handler[c])
    /\ UNCHANGED <<audio, thread, slot, inner, ready, process>>

\* workerTimeout: the connection is closed and the handler is not told.
Timeout ==
    /\ "timeout" \in Faults
    /\ waits
    /\ NextAttempt("timeout")
    /\ UNCHANGED <<audio, workerVars>>

-----------------------------------------------------------------------------
(* The worker's side.                                                      *)

Left(c) == ~(waits /\ c = Current)

\* An answer to a client that has left is thrown away.
Answered(c, place) ==
    handler' = [handler EXCEPT ![c] = IF Left(c) THEN "gone" ELSE place]

Release(s, c) == [s EXCEPT ![WorkerOf(c)] = IF @ = c THEN Free ELSE @]

AcquireRequestSlot(c) ==
    /\ handler[c] = "arrived" /\ process[WorkerOf(c)] # "down"
    /\ IF slot[WorkerOf(c)] = Free
       THEN /\ slot' = [slot EXCEPT ![WorkerOf(c)] = c]
            /\ handler' = [handler EXCEPT ![c] = "upload"]
       ELSE Answered(c, "busy") /\ UNCHANGED slot
    /\ UNCHANGED <<clientVars, thread, inner, ready, process>>

\* Nobody listens: the call itself fails.
RefuseConnection(c) ==
    /\ handler[c] = "arrived" /\ process[WorkerOf(c)] = "down"
    /\ Answered(c, "broken")
    /\ UNCHANGED <<clientVars, thread, slot, inner, ready, process>>

\* A slip of RefuseUpload: an error path that forgets the slot.
RefuseUploadHoldingSlot(c) ==
    /\ "upload" \in Faults /\ handler[c] = "upload"
    /\ Answered(c, "refused")
    /\ UNCHANGED <<clientVars, thread, slot, inner, ready, process>>

\* An unsupported media type, an empty or too large file, or a client that
\* left in the middle.
RefuseUpload(c) ==
    /\ "upload" \in Faults /\ handler[c] = "upload"
    /\ Answered(c, "refused")
    /\ slot' = Release(slot, c)
    /\ UNCHANGED <<clientVars, thread, inner, ready, process>>

\* asyncio.to_thread: the handler waits for its thread.
StartThread(c) ==
    /\ handler[c] = "upload"
    /\ handler' = [handler EXCEPT ![c] = "inference"]
    /\ thread' = [thread EXCEPT ![c] = "starting"]
    /\ UNCHANGED <<clientVars, slot, inner, ready, process>>

\* The thread returns, or raises; its handler, if there still is one, gives
\* the request slot back and answers.  In between nobody sees more than a
\* handler that is not ready yet.
EndThread(c, place) ==
    /\ thread' = [thread EXCEPT ![c] = "none"]
    /\ IF handler[c] = "inference"
       THEN Answered(c, place) /\ slot' = Release(slot, c)
       ELSE UNCHANGED <<handler, slot>>

\* A slip of FindModel: a model that is not loaded yet is reported as a worker
\* that is busy.
FindModelBusyUnready(c) ==
    /\ thread[c] = "starting"
    /\ \/ /\ ready[WorkerOf(c)]
          /\ thread' = [thread EXCEPT ![c] = "loaded"]
          /\ UNCHANGED <<handler, slot>>
       \/ ~ready[WorkerOf(c)] /\ EndThread(c, "busy")
    /\ UNCHANGED <<clientVars, inner, ready, process>>

\* The first half of generate and transcribe: the thread waits for start,
\* which loads the model or not, and raises when there is none; it also
\* raises when the request asks for what this runtime does not do.
FindModel(c) ==
    /\ thread[c] = "starting"
    /\ \/ /\ ready[WorkerOf(c)]
          /\ thread' = [thread EXCEPT ![c] = "loaded"]
          /\ UNCHANGED <<handler, slot>>
       \/ /\ ~ready[WorkerOf(c)] \/ "upload" \in Faults
          /\ EndThread(c, "refused")
    /\ UNCHANGED <<clientVars, inner, ready, process>>

\* A slip of TakeInferenceSlot: the slot is not looked at.
TakeInferenceSlotUnguarded(c) ==
    LET w == WorkerOf(c) IN
    /\ thread[c] = "loaded"
    /\ inner' = [inner EXCEPT ![w] = c]
    /\ thread' = [thread EXCEPT ![c] = "computing"]
    /\ UNCHANGED <<clientVars, handler, slot, ready, process>>

\* _inference_slot.acquire(blocking=False): while another thread computes,
\* this one raises.  The model may be gone by now; the thread has seen it.
TakeInferenceSlot(c) ==
    LET w == WorkerOf(c) IN
    /\ thread[c] = "loaded"
    /\ IF inner[w] = Free
       THEN /\ inner' = [inner EXCEPT ![w] = c]
            /\ thread' = [thread EXCEPT ![c] = "computing"]
            /\ UNCHANGED <<handler, slot>>
       ELSE EndThread(c, "busy") /\ UNCHANGED inner
    /\ UNCHANGED <<clientVars, ready, process>>

EndInference(c) ==
    /\ thread[c] = "computing"
    /\ inner' = Release(inner, c)
    /\ \/ EndThread(c, "result")
       \/ "worker" \in Faults /\ EndThread(c, "broken")
    /\ UNCHANGED <<clientVars, ready, process>>

\* _recover_from_oom: the model counts as lost, the caller hears of it, and a
\* timer is set to end the process (exit_on_oom).
OutOfMemory(c) ==
    LET w == WorkerOf(c) IN
    /\ "memory" \in Faults
    /\ thread[c] = "computing"
    /\ inner' = Release(inner, c)
    /\ EndThread(c, "broken")
    /\ ready' = [ready EXCEPT ![w] = FALSE]
    /\ process' = [process EXCEPT ![w] = "exiting"]
    /\ UNCHANGED clientVars

\* The timer fires: os._exit ends every handler and thread of the process,
\* and closes the connections of those who wait.
WorkerExits(w) ==
    /\ process[w] = "exiting"
    /\ process' = [process EXCEPT ![w] = "down"]
    /\ ready' = [ready EXCEPT ![w] = FALSE]
    /\ slot' = [slot EXCEPT ![w] = Free]
    /\ inner' = [inner EXCEPT ![w] = Free]
    /\ thread' = [c \in Call |-> IF WorkerOf(c) = w THEN "none" ELSE thread[c]]
    /\ handler' = [c \in Call |->
          IF WorkerOf(c) # w \/ handler[c] = "none" THEN handler[c]
          ELSE IF Left(c) THEN "gone" ELSE "broken"]
    /\ UNCHANGED clientVars

\* restart: unless-stopped
RestartWorker(w) ==
    /\ process[w] = "down"
    /\ process' = [process EXCEPT ![w] = "up"]
    /\ UNCHANGED <<clientVars, handler, thread, slot, inner, ready>>

\* The handler's task is cancelled; its thread can not be, once it runs.
CancelHandler(c) ==
    /\ "cancel" \in Faults
    /\ handler[c] \in {"upload", "inference"}
    /\ Answered(c, "broken")
    /\ slot' = Release(slot, c)
    /\ \/ UNCHANGED thread
       \/ /\ thread[c] = "starting"
          /\ thread' = [thread EXCEPT ![c] = "none"]
    /\ UNCHANGED <<clientVars, inner, ready, process>>

\* start, by the loader's thread or by a request's.
LoadModel(w) ==
    /\ ~ready[w] /\ process[w] # "down"
    /\ ready' = [ready EXCEPT ![w] = TRUE]
    /\ UNCHANGED <<clientVars, handler, thread, slot, inner, process>>

-----------------------------------------------------------------------------
Init ==
    /\ at = 1 /\ step = "tts" /\ waits = FALSE
    /\ outcome = [f \in Attempt |-> "none"]
    /\ audio = [f \in Attempt |-> NoAudio]
    /\ handler = [c \in Call |-> "none"]
    /\ thread = [c \in Call |-> "none"]
    /\ slot = [w \in Worker |-> Free]
    /\ inner = [w \in Worker |-> Free]
    /\ ready = [w \in Worker |-> FALSE]
    /\ process = [w \in Worker |-> "up"]

Runner == SendCall \/ ReceiveResult \/ ReceiveError \/ Timeout

Handling(c) ==
    \/ AcquireRequestSlot(c) \/ RefuseConnection(c) \/ RefuseUpload(c)
    \/ StartThread(c) \/ FindModel(c) \/ TakeInferenceSlot(c)

Computing(c) == EndInference(c) \/ OutOfMemory(c)

Finished == step = "done" /\ UNCHANGED vars

Next ==
    \/ Runner
    \/ \E c \in Call : Handling(c) \/ Computing(c) \/ CancelHandler(c)
    \/ \E w \in Worker : LoadModel(w) \/ WorkerExits(w) \/ RestartWorker(w)
    \/ Finished

Spec == Init /\ [][Next]_vars

\* The workers' handlers and their threads run.  Whether the runner's goroutine
\* runs and its timer fires, and whether inferences end, is up to the property.
FairSpec == Spec /\ \A c \in Call : WF_vars(Handling(c))
RunnerRuns == WF_vars(Runner)
InferencesEnd == \A c \in Call : WF_vars(Computing(c))

-----------------------------------------------------------------------------
(* Properties.                                                             *)

\* A slot is held exactly as long as there is something to hold it for: no
\* error path, cancellation or lost client leaves the worker busy for ever,
\* and a worker never computes two requests at a time.
SlotsFollowWork ==
    \A w \in Worker :
        /\ {c \in Call : slot[w] = c} =
              {c \in Call : WorkerOf(c) = w
                            /\ handler[c] \in {"upload", "inference"}}
        /\ {c \in Call : inner[w] = c} =
              {c \in Call : WorkerOf(c) = w /\ thread[c] = "computing"}

\* The audio that is validated and stored is the whole body the worker sent,
\* never a body cut at the limit, and neither the audio nor the transcript it
\* was validated by came with an answer to the request of another attempt.
AudioIsWhole ==
    \A f \in Attempt :
        /\ audio[f] # NoAudio =>
              /\ audio[f].size = audio[f].sent /\ audio[f].size \in 1 .. MaxBody
              /\ audio[f].names \subseteq {f} \X Worker
        /\ outcome[f] = "spoken" => audio[f] # NoAudio

\* Whatever the workers do, even when an inference never ends, the runner
\* reaches the end of its queue.
RunnerEnds == RunnerRuns => <>(step = "done")

\* A slot that is taken is given back, though the client left, the upload was
\* refused or the handler was cancelled, as long as inferences end.
WorkerIsFreed ==
    InferencesEnd => \A w \in Worker : slot[w] # Free ~> slot[w] = Free

\* The queue is in Go and the workers refuse whoever meets a busy slot: an
\* attempt is refused only because an earlier call was given up or cancelled
\* and its inference goes on, never because of one that had its answer.
BusyMeansAbandoned ==
    \A f \in Attempt : outcome[f] = "busy" =>
        \E g \in 1 .. f - 1 :
            outcome[g] \in {"timeout"} \cup
                (IF "cancel" \in Faults THEN {"broken"} ELSE {})

\* Neither side waits for ever for the other.
NobodyWaitsForEver == RunnerEnds /\ WorkerIsFreed

=============================================================================
