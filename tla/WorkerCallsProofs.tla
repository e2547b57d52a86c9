-------------------------- MODULE WorkerCallsProofs --------------------------
(***************************************************************************)
(* Theorems about WorkerCalls, for any number of attempts, any limit and   *)
(* any faults: what holds a slot, what a busy answer means, and that audio *)
(* is whole and the attempt's own.                                         *)
(*                                                                         *)
(* SlotsFollowWork needs to know that a call is sent once: what was not    *)
(* sent has neither handler nor thread.  BusyMeansAbandoned needs the      *)
(* reason why a worker still works for a call nobody waits for.            *)
(***************************************************************************)
EXTENDS WorkerCalls, TLAPS

HandlerState == {"none", "arrived", "upload", "inference", "result", "busy",
                 "refused", "broken", "gone"}
ThreadState == {"none", "starting", "loaded", "computing"}
Cause == {"none", "spoken", "invalid", "timeout", "busy", "refused", "broken"}

AudioRecord == [size : Nat, sent : Nat, names : SUBSET Call]

CallTypes ==
    /\ at \in Attempt /\ step \in Worker \cup {"done"} /\ waits \in BOOLEAN
    /\ step = "done" => ~waits
    /\ outcome \in [Attempt -> Cause]
    /\ audio \in [Attempt -> AudioRecord]
    /\ handler \in [Call -> HandlerState]
    /\ thread \in [Call -> ThreadState]
    /\ slot \in [Worker -> Call \cup {Free}]
    /\ inner \in [Worker -> Call \cup {Free}]
    /\ ready \in [Worker -> BOOLEAN]
    /\ process \in [Worker -> {"up", "exiting", "down"}]

Waiting(c) == waits /\ c = Current

\* The calls the runner has not come to.
Unsent(c) ==
    \/ c[1] > at
    \/ c[1] = at /\ step = "tts" /\ c[2] = "stt"
    \/ c = Current /\ ~waits
UnsentIsUntouched ==
    \A c \in Call : Unsent(c) => handler[c] = "none" /\ thread[c] = "none"

\* The attempts the runner has not ended.
UnendedIsOpen ==
    \A f \in Attempt : f > at \/ (f = at /\ step # "done") => outcome[f] = "none"

\* Why an attempt may have left a worker working.
Abandoned == {"timeout"} \cup (IF "cancel" \in Faults THEN {"broken"} ELSE {})
Working(c) == handler[c] \in {"arrived", "upload", "inference"} \/ thread[c] # "none"
LeftWorking ==
    \A c \in Call : Working(c) /\ ~Waiting(c) => outcome[c[1]] \in Abandoned

\* A thread has a handler that has come to it, and outlives it only when the
\* handler was cancelled.
ThreadsAnswer ==
    \A c \in Call :
        /\ handler[c] \in {"arrived", "upload"} => thread[c] = "none"
        /\ Waiting(c) /\ thread[c] # "none" =>
              \/ handler[c] = "inference"
              \/ handler[c] = "broken" /\ "cancel" \in Faults

\* The busy answer the runner is about to read has its cause.
BusyHasCause ==
    waits /\ handler[Current] = "busy" =>
        \E g \in 1 .. at - 1 : outcome[g] \in Abandoned

\* A transcript is asked for when there is audio.
TranscribedIsAudio == step = "stt" => audio[at] # NoAudio

CallsInv ==
    /\ CallTypes
    /\ UnsentIsUntouched
    /\ UnendedIsOpen
    /\ LeftWorking
    /\ ThreadsAnswer
    /\ BusyHasCause
    /\ SlotsFollowWork
    /\ BusyMeansAbandoned
    /\ AudioIsWhole
    /\ TranscribedIsAudio

-----------------------------------------------------------------------------
(* Slots, call by call.                                                    *)

Served == {"upload", "inference"}
SlotsFit ==
    \A w \in Worker, c \in Call :
        /\ slot[w] = c <=> c[2] = w /\ handler[c] \in Served
        /\ inner[w] = c <=> c[2] = w /\ thread[c] = "computing"

LEMMA SlotsByCall == SlotsFollowWork <=> SlotsFit
BY DEF SlotsFollowWork, SlotsFit, WorkerOf, Served

LEMMA CallParts ==
    /\ \A c \in Call : /\ c[1] \in Attempt /\ c[2] \in Worker
                       /\ c = <<c[1], c[2]>> /\ c # Free
    /\ \A f \in Attempt, w \in Worker : <<f, w>> \in Call
    /\ \A f \in Attempt : f \in Nat /\ f >= 1
BY FreeAssumption, SizesAssumption DEF Call, Attempt

\* A handler takes the request slot of its worker when nobody holds it.
LEMMA SlotTaken ==
    ASSUME CallTypes, SlotsFit, NEW c \in Call, slot[WorkerOf(c)] = Free,
           slot' = [slot EXCEPT ![WorkerOf(c)] = c],
           handler' = [handler EXCEPT ![c] = "upload"],
           UNCHANGED <<thread, inner>>
    PROVE  SlotsFit'
<1>1. \A d \in Call : d[2] = c[2] => handler[d] \notin Served
  BY CallParts DEF SlotsFit, WorkerOf
<1> QED
  BY <1>1, CallParts DEF SlotsFit, CallTypes, WorkerOf, Served

\* A handler gives the slot back when it stops serving.
LEMMA SlotReleased ==
    ASSUME CallTypes, SlotsFit, NEW c \in Call, NEW place,
           slot' = Release(slot, c), handler' = [handler EXCEPT ![c] = place],
           place \notin Served
    PROVE  \A w \in Worker, d \in Call :
              slot'[w] = d <=> d[2] = w /\ handler'[d] \in Served
BY CallParts DEF SlotsFit, CallTypes, WorkerOf, Release, Served

-----------------------------------------------------------------------------
(* What the runner does.                                                   *)

\* A call is sent once.
LEMMA SendKeeps ==
    ASSUME CallsInv, SendCall
    PROVE  CallsInv'
<1>1. PICK c : c = Current
  OBVIOUS
<1>2. /\ c \in Call /\ CallTypes /\ SlotsFit /\ Unsent(c) /\ ~waits
      /\ c[1] = at /\ c[2] = step /\ step # "done"
  BY <1>1, SlotsByCall, CallParts
  DEF CallsInv, CallTypes, SendCall, Current, Unsent
<1>3. handler[c] = "none" /\ thread[c] = "none"
  BY <1>2 DEF CallsInv, UnsentIsUntouched
<1>4. /\ handler' = [handler EXCEPT ![c] = "arrived"] /\ waits' = TRUE
      /\ UNCHANGED <<at, step, outcome, audio, thread, slot, inner, ready, process>>
      /\ Current' = c
  BY <1>1 DEF SendCall, Current
<1>5. CallTypes'
  BY <1>2, <1>4 DEF CallTypes, HandlerState
<1>6. UnsentIsUntouched'
  <2> SUFFICES ASSUME NEW d \in Call, Unsent(d)'
               PROVE  handler'[d] = "none" /\ thread'[d] = "none"
    BY DEF UnsentIsUntouched
  <2>1. Unsent(d) /\ d # c
    BY <1>2, <1>4, CallParts DEF Unsent, CallTypes, Attempt
  <2> QED
    BY <1>2, <1>4, <2>1 DEF CallsInv, UnsentIsUntouched, CallTypes
<1>7. UnendedIsOpen' /\ BusyMeansAbandoned' /\ AudioIsWhole'
      /\ TranscribedIsAudio'
  BY <1>4
  DEF CallsInv, UnendedIsOpen, BusyMeansAbandoned, AudioIsWhole,
      TranscribedIsAudio
<1>8. LeftWorking'
  BY <1>1, <1>2, <1>4 DEF CallsInv, LeftWorking, Working, Waiting, CallTypes
<1>9. ThreadsAnswer' /\ BusyHasCause'
  BY <1>2, <1>3, <1>4
  DEF CallsInv, ThreadsAnswer, Waiting, BusyHasCause, CallTypes
<1>10. SlotsFit'
  BY <1>2, <1>3, <1>4 DEF SlotsFit, CallTypes, Served
<1>11. SlotsFollowWork'
  BY <1>10, SlotsByCall, PTL
<1> QED
  BY <1>5, <1>6, <1>7, <1>8, <1>9, <1>11 DEF CallsInv

\* The end of an attempt: what still works for it is left for a cause.
LEMMA EndKeeps ==
    ASSUME CallsInv, waits, NEW o \in Cause \ {"none"}, NextAttempt(o),
           UNCHANGED <<thread, slot, inner, ready, process>>,
           audio' \in [Attempt -> AudioRecord], AudioIsWhole',
           \/ handler' = handler
           \/ /\ handler' = [handler EXCEPT ![Current] = "gone"]
              /\ handler[Current] \notin Served,
           thread[Current] # "none" \/ handler' = handler => o \in Abandoned,
           o = "busy" => \E g \in 1 .. at - 1 : outcome[g] \in Abandoned
    PROVE  CallsInv'
<1>1. PICK c : c = Current
  OBVIOUS
<1>2. /\ c \in Call /\ CallTypes /\ SlotsFit
      /\ c[1] = at /\ c[2] = step /\ step # "done"
      /\ at \in Nat /\ Attempts \in Nat
  BY <1>1, SlotsByCall, CallParts, SizesAssumption
  DEF CallsInv, CallTypes, Current
<1>3. /\ outcome' = [outcome EXCEPT ![at] = o] /\ ~waits'
      /\ \/ at < Attempts /\ at' = at + 1 /\ step' = "tts"
         \/ at = Attempts /\ at' = at /\ step' = "done"
  BY <1>2 DEF NextAttempt, CallTypes, Attempt
<1>4. handler' = handler \/ handler' = [handler EXCEPT ![c] = "gone"]
  BY <1>1
<1>5. CallTypes'
  <2>1. at' \in Attempt /\ step' \in Worker \cup {"done"}
    BY <1>2, <1>3 DEF CallTypes, Attempt, Worker
  <2>2. outcome' \in [Attempt -> Cause] /\ handler' \in [Call -> HandlerState]
    BY <1>2, <1>3, <1>4 DEF CallTypes, HandlerState
  <2>3. UNCHANGED <<thread, slot, inner, ready, process>> /\ waits' \in BOOLEAN
    BY <1>2 DEF NextAttempt
  <2> QED
    BY <1>2, <1>3, <2>1, <2>2, <2>3 DEF CallTypes
<1>6. \A d \in Call : Unsent(d)' => Unsent(d) /\ d # c
  <2> SUFFICES ASSUME NEW d \in Call, Unsent(d)' PROVE Unsent(d) /\ d # c
    OBVIOUS
  <2>1. d[1] \in Nat /\ d[1] <= Attempts /\ d[2] \in {"tts", "stt"}
    BY CallParts DEF Attempt, Worker
  <2>2. \/ d[1] > at' \/ (d[1] = at' /\ step' # "done")
    BY <2>1 DEF Unsent, Current
  <2>3. d[1] > at
    BY <1>2, <1>3, <2>1, <2>2
  <2> QED
    BY <1>2, <2>1, <2>3 DEF Unsent
<1>7. UnsentIsUntouched'
  BY <1>2, <1>4, <1>6 DEF CallsInv, UnsentIsUntouched, CallTypes
<1>8. UnendedIsOpen'
  BY <1>2, <1>3, CallParts DEF CallsInv, UnendedIsOpen, CallTypes
<1>9. LeftWorking'
  <2> SUFFICES ASSUME NEW d \in Call, Working(d)'
               PROVE  outcome'[d[1]] \in Abandoned
    BY DEF LeftWorking
  <2>1. CASE d = c
    <3>1. o \in Abandoned
      BY <1>1, <1>2, <2>1 DEF Working, CallTypes
    <3> QED
      BY <1>2, <1>3, <2>1, <3>1 DEF CallTypes
  <2>2. CASE d # c
    <3>1. outcome[d[1]] \in Abandoned
      BY <1>1, <1>2, <1>4, <2>2
      DEF CallsInv, LeftWorking, Working, Waiting, CallTypes
    <3>2. outcome[at] = "none"
      BY <1>2 DEF CallsInv, UnendedIsOpen, CallTypes
    <3>3. d[1] # at
      BY <3>1, <3>2 DEF Abandoned
    <3> QED
      BY <1>2, <1>3, <3>1, <3>3, CallParts DEF CallTypes
  <2> QED
    BY <2>1, <2>2
<1>10. ThreadsAnswer' /\ BusyHasCause'
  BY <1>2, <1>3, <1>4
  DEF CallsInv, ThreadsAnswer, Waiting, BusyHasCause, CallTypes
<1>11. SlotsFit'
  BY <1>1, <1>2, <1>4 DEF SlotsFit, CallTypes, Served
<1>12. SlotsFollowWork'
  BY <1>11, SlotsByCall, PTL
<1>13. BusyMeansAbandoned'
  <2> SUFFICES ASSUME NEW f \in Attempt, outcome'[f] = "busy"
               PROVE  \E g \in 1 .. f - 1 : outcome'[g] \in Abandoned
    BY DEF BusyMeansAbandoned, Abandoned
  <2>1. \A g \in Attempt : g < at => outcome'[g] = outcome[g]
    BY <1>2, <1>3 DEF CallTypes
  <2>2. f <= at
    BY <1>2, <1>3, CallParts DEF CallsInv, UnendedIsOpen, CallTypes
  <2>3. CASE f = at
    <3>1. PICK g \in 1 .. at - 1 : outcome[g] \in Abandoned
      BY <1>2, <1>3, <2>3 DEF CallTypes
    <3>2. g \in Attempt /\ g < at /\ g \in 1 .. f - 1
      BY <1>2, <2>3 DEF CallTypes, Attempt
    <3> QED
      BY <2>1, <3>1, <3>2
  <2>4. CASE f < at
    <3>1. PICK g \in 1 .. f - 1 : outcome[g] \in Abandoned
      BY <2>1, <2>4 DEF CallsInv, BusyMeansAbandoned, Abandoned
    <3>2. g \in Attempt /\ g < at
      BY <1>2, <2>4, CallParts DEF CallTypes, Attempt
    <3> QED
      BY <2>1, <3>1, <3>2
  <2> QED
    BY <1>2, <2>2, <2>3, <2>4, CallParts
<1>14. TranscribedIsAudio'
  BY <1>3 DEF TranscribedIsAudio
<1> QED
  BY <1>5, <1>7, <1>8, <1>9, <1>10, <1>12, <1>13, <1>14 DEF CallsInv

\* An attempt that fails leaves the audio it has.
LEMMA FailureKeepsAudio ==
    ASSUME CallsInv, NEW o, o # "spoken", NextAttempt(o), UNCHANGED audio
    PROVE  audio' \in [Attempt -> AudioRecord] /\ AudioIsWhole'
<1>1. outcome' = [outcome EXCEPT ![at] = o] /\ CallTypes
  BY DEF NextAttempt, CallsInv
<1>2. \A f \in Attempt : outcome'[f] = "spoken" => outcome[f] = "spoken"
  BY <1>1 DEF CallTypes
<1> QED
  BY <1>1, <1>2 DEF CallsInv, AudioIsWhole, CallTypes

\* An attempt that succeeds has audio, and answers that name it alone.
LEMMA TranscriptKeepsAudio ==
    ASSUME CallsInv, step = "stt", NEW names \in SUBSET Call,
           names \subseteq {Current}, NextAttempt("spoken"),
           audio' = [audio EXCEPT ![at].names = @ \cup names]
    PROVE  audio' \in [Attempt -> AudioRecord] /\ AudioIsWhole'
<1>1. /\ outcome' = [outcome EXCEPT ![at] = "spoken"] /\ CallTypes
      /\ at \in Attempt
  BY DEF NextAttempt, CallsInv, CallTypes
<1>2. PICK a : a = audio[at]
  OBVIOUS
<1>3. /\ a \in AudioRecord /\ a # NoAudio
      /\ a.size = a.sent /\ a.size \in 1 .. MaxBody
      /\ a.names \subseteq {at} \X Worker
  BY <1>1, <1>2
  DEF CallsInv, CallTypes, TranscribedIsAudio, AudioIsWhole
<1>4. PICK b : b = [size |-> a.size, sent |-> a.sent, names |-> a.names \cup names]
  OBVIOUS
<1>5. audio' = [audio EXCEPT ![at] = b]
  <2>1. audio' = [audio EXCEPT ![at] = [a EXCEPT !.names = a.names \cup names]]
    BY <1>2
  <2>2. b = [a EXCEPT !.names = a.names \cup names]
    BY <1>3, <1>4 DEF AudioRecord
  <2> QED
    BY <2>1, <2>2
<1>6. Current \in {at} \X Worker
  BY DEF Current, Worker
<1>7. /\ b \in AudioRecord /\ b.size = b.sent /\ b.size \in 1 .. MaxBody
      /\ b.names \subseteq {at} \X Worker
  BY <1>3, <1>4, <1>6 DEF AudioRecord
<1>8. b # NoAudio
  <2>1. NoAudio.size = 0 /\ ~(0 \in 1 .. MaxBody)
    BY SizesAssumption DEF NoAudio
  <2> QED
    BY <1>7, <2>1
<1>9. audio' \in [Attempt -> AudioRecord]
  BY <1>1, <1>5, <1>7 DEF CallTypes
<1>10. ASSUME NEW f \in Attempt
       PROVE  /\ audio'[f] # NoAudio =>
                    /\ audio'[f].size = audio'[f].sent
                    /\ audio'[f].size \in 1 .. MaxBody
                    /\ audio'[f].names \subseteq {f} \X Worker
              /\ outcome'[f] = "spoken" => audio'[f] # NoAudio
  <2>1. CASE f = at
    BY <1>1, <1>5, <1>7, <1>8, <2>1 DEF CallTypes
  <2>2. CASE f # at
    BY <1>1, <1>5, <2>2 DEF CallsInv, AudioIsWhole, CallTypes
  <2> QED
    BY <2>1, <2>2
<1> QED
  BY <1>9, <1>10 DEF AudioIsWhole

\* The audio the client takes is the body it was sent.
LEMMA AcceptedIsWhole ==
    ASSUME CallsInv, step = "tts", NEW r \in AudioReply, NEW n \in AcceptedAudio(r)
    PROVE  /\ n = r.size /\ n \in 1 .. MaxBody
           /\ r.names \in SUBSET Call /\ r.names \subseteq {<<at, "tts">>}
<1>1. r.size \in Nat /\ MaxBody \in Nat
  <2>1. r.size \in 0 .. MaxBody + 1 \/ r.size = MaxBody
    BY DEF AudioReply, Sizes
  <2> QED
    BY <2>1, SizesAssumption
<1>2. n \in ReadBoundedResponse(r) /\ n # 0
  BY DEF AcceptedAudio
<1>3. n = r.size /\ n \in 1 .. MaxBody
  BY <1>1, <1>2 DEF ReadBoundedResponse
<1>4. r.names \subseteq {Current} /\ Current = <<at, "tts">>
  BY DEF AcceptedAudio, Current
<1>5. Current \in Call
  BY <1>4, CallParts DEF CallsInv, CallTypes, Worker
<1> QED
  BY <1>3, <1>4, <1>5

\* Audio is sent on to the other worker, within the attempt.
LEMMA AudioKeeps ==
    ASSUME CallsInv, ReceiveResult, step = "tts", step' = "stt"
    PROVE  CallsInv'
<1>1. PICK c : c = Current
  OBVIOUS
<1>2. /\ c \in Call /\ CallTypes /\ SlotsFit /\ waits
      /\ c[1] = at /\ c[2] = "tts" /\ handler[c] = "result"
  BY <1>1, SlotsByCall, CallParts
  DEF CallsInv, CallTypes, Current, ReceiveResult
<1>3. PICK r \in AudioReply : HasAudio(r)
  BY DEF ReceiveResult
<1>4. AcceptedAudio(r) # {}
  BY <1>3 DEF HasAudio, NextAttempt
<1>5. PICK n \in AcceptedAudio(r) :
         audio' = [audio EXCEPT ![at] =
                      [size |-> n, sent |-> r.size, names |-> r.names]]
  BY <1>3, <1>4 DEF HasAudio
<1>6. /\ handler' = [handler EXCEPT ![c] = "gone"] /\ waits' = FALSE
      /\ UNCHANGED <<at, outcome, thread, slot, inner, ready, process>>
  BY <1>1, <1>3, <1>4 DEF HasAudio, ReceiveResult
<1>7. /\ n = r.size /\ n \in 1 .. MaxBody /\ MaxBody \in Nat
      /\ r.names \in SUBSET Call /\ r.names \subseteq {<<at, "tts">>}
  BY AcceptedIsWhole, SizesAssumption
<1>8. CallTypes'
  <2>1. audio' \in [Attempt -> AudioRecord]
    BY <1>2, <1>5, <1>7 DEF CallTypes, AudioRecord
  <2> QED
    BY <1>2, <1>6, <2>1 DEF CallTypes, HandlerState, Worker
<1>9. \A d \in Call : Unsent(d)' => Unsent(d) /\ d # c
  <2> SUFFICES ASSUME NEW d \in Call, Unsent(d)' PROVE Unsent(d) /\ d # c
    OBVIOUS
  <2>1. d[1] > at \/ (d[1] = at /\ d[2] = "stt")
    BY <1>6 DEF Unsent, Current
  <2> QED
    BY <1>2, <2>1, CallParts DEF Unsent, CallTypes
<1>10. UnsentIsUntouched'
  BY <1>2, <1>6, <1>9 DEF CallsInv, UnsentIsUntouched, CallTypes
<1>11. UnendedIsOpen' /\ BusyMeansAbandoned'
  BY <1>2, <1>6 DEF CallsInv, UnendedIsOpen, BusyMeansAbandoned
<1>12. thread[c] = "none"
  BY <1>1, <1>2 DEF CallsInv, ThreadsAnswer, Waiting
<1>13. LeftWorking'
  BY <1>1, <1>2, <1>6, <1>12
  DEF CallsInv, LeftWorking, Working, Waiting, CallTypes
<1>14. ThreadsAnswer' /\ BusyHasCause'
  BY <1>2, <1>6
  DEF CallsInv, ThreadsAnswer, Waiting, BusyHasCause, CallTypes
<1>15. SlotsFit'
  BY <1>2, <1>6 DEF SlotsFit, CallTypes, Served
<1>16. SlotsFollowWork'
  BY <1>15, SlotsByCall, PTL
<1>17. PICK a : a = [size |-> n, sent |-> r.size, names |-> r.names]
  OBVIOUS
<1>18. /\ a.size = a.sent /\ a.size \in 1 .. MaxBody /\ a # NoAudio
       /\ a.names \subseteq {at} \X Worker
  <2>1. NoAudio.size = 0 /\ ~(0 \in 1 .. MaxBody)
    BY SizesAssumption DEF NoAudio
  <2>2. a.size \in 1 .. MaxBody
    BY <1>7, <1>17
  <2> QED
    BY <1>7, <1>17, <2>1, <2>2 DEF Worker
<1>19. audio' = [audio EXCEPT ![at] = a]
  BY <1>5, <1>17
<1>20. AudioIsWhole'
  <2> SUFFICES ASSUME NEW f \in Attempt
               PROVE  /\ audio'[f] # NoAudio =>
                            /\ audio'[f].size = audio'[f].sent
                            /\ audio'[f].size \in 1 .. MaxBody
                            /\ audio'[f].names \subseteq {f} \X Worker
                      /\ outcome[f] = "spoken" => audio'[f] # NoAudio
    BY <1>6 DEF AudioIsWhole
  <2>1. CASE f = at
    BY <1>2, <1>18, <1>19, <2>1 DEF CallTypes
  <2>2. CASE f # at
    BY <1>2, <1>19, <2>2 DEF CallsInv, AudioIsWhole, CallTypes
  <2> QED
    BY <2>1, <2>2
<1>21. TranscribedIsAudio'
  BY <1>2, <1>6, <1>18, <1>19 DEF TranscribedIsAudio, CallTypes
<1> QED
  BY <1>8, <1>10, <1>11, <1>13, <1>14, <1>16, <1>20, <1>21 DEF CallsInv

LEMMA RunnerKeeps ==
    ASSUME CallsInv, Runner
    PROVE  CallsInv'
<1>0. CallTypes
  BY DEF CallsInv
<1>1. CASE ReceiveResult
  <2>1. waits /\ handler[Current] = "result" /\ Current \in Call
    BY <1>0, <1>1, CallParts DEF ReceiveResult, CallTypes, Current
  <2>2. thread[Current] = "none"
    BY <2>1 DEF CallsInv, ThreadsAnswer, Waiting
  <2>3. /\ handler' = [handler EXCEPT ![Current] = "gone"]
        /\ UNCHANGED <<thread, slot, inner, ready, process>>
        /\ handler' # handler
    BY <1>0, <1>1, <2>1 DEF ReceiveResult, CallTypes
  <2>4. ASSUME NEW o \in {"spoken", "invalid"}, NextAttempt(o),
               audio' \in [Attempt -> AudioRecord], AudioIsWhole'
        PROVE  CallsInv'
    BY <2>1, <2>2, <2>3, <2>4, EndKeeps DEF Cause, Served
  <2>5. /\ step \in Worker
        /\ \/ step = "tts" /\ \E r \in AudioReply : HasAudio(r)
           \/ step = "stt" /\ \E r \in TranscriptReply : HasTranscript(r)
    BY <1>1, <2>1 DEF ReceiveResult, Worker
  <2>6. CASE step = "tts" /\ step' = "stt"
    BY <1>1, <2>6, AudioKeeps
  <2>7. CASE step = "tts" /\ step' # "stt"
    BY <2>4, <2>5, <2>7, FailureKeepsAudio DEF HasAudio
  <2>8. CASE step # "tts"
    <3>1. PICK r \in TranscriptReply : step = "stt" /\ HasTranscript(r)
      BY <2>5, <2>8
    <3>2. CASE AcceptedTranscript(r) # {}
      <4>1. r.names \subseteq {Current} /\ r.names \in SUBSET Call
        BY <2>1, <3>2 DEF AcceptedTranscript
      <4>2. /\ NextAttempt("spoken")
            /\ audio' = [audio EXCEPT ![at].names = @ \cup r.names]
        BY <3>1, <3>2 DEF HasTranscript
      <4> QED
        BY <2>4, <3>1, <4>1, <4>2, TranscriptKeepsAudio
    <3>3. CASE AcceptedTranscript(r) = {}
      <4>1. NextAttempt("invalid") /\ UNCHANGED audio
        BY <3>1, <3>3 DEF HasTranscript
      <4> QED
        BY <2>4, <4>1, FailureKeepsAudio
    <3> QED
      BY <3>2, <3>3
  <2> QED
    BY <2>6, <2>7, <2>8
<1>2. CASE ReceiveError
  <2>1. PICK o : o = handler[Current]
    OBVIOUS
  <2>2. /\ waits /\ o \in {"busy", "refused", "broken"} /\ NextAttempt(o)
        /\ Current \in Call
        /\ handler' = [handler EXCEPT ![Current] = "gone"]
        /\ UNCHANGED <<audio, thread, slot, inner, ready, process>>
    BY <1>0, <1>2, <2>1, CallParts DEF ReceiveError, CallTypes, Current
  <2>3. handler' # handler
    BY <1>0, <2>1, <2>2 DEF CallTypes
  <2>4. thread[Current] # "none" => o \in Abandoned
    BY <2>1, <2>2 DEF CallsInv, ThreadsAnswer, Waiting, Abandoned
  <2>5. o = "busy" => \E g \in 1 .. at - 1 : outcome[g] \in Abandoned
    BY <2>1, <2>2 DEF CallsInv, BusyHasCause
  <2>6. audio' \in [Attempt -> AudioRecord] /\ AudioIsWhole'
    BY <2>2, FailureKeepsAudio
  <2> QED
    BY <2>1, <2>2, <2>3, <2>4, <2>5, <2>6, EndKeeps DEF Cause, Served
<1>3. CASE Timeout
  <2>1. audio' \in [Attempt -> AudioRecord] /\ AudioIsWhole'
    BY <1>3, FailureKeepsAudio DEF Timeout
  <2> QED
    BY <1>3, <2>1, EndKeeps DEF Timeout, Cause, Abandoned, workerVars
<1> QED
  BY <1>1, <1>2, <1>3, SendKeeps DEF Runner

-----------------------------------------------------------------------------
(* What the workers do.                                                    *)

\* A worker that works for another call than the one it refuses as busy does
\* so for an attempt that was left.
LEMMA BusyCause ==
    ASSUME CallsInv, waits, NEW d \in Call, d # Current, d[2] = step, Working(d)
    PROVE  \E g \in 1 .. at - 1 : outcome[g] \in Abandoned
<1>1. CallTypes /\ at \in Nat /\ d[1] \in Nat /\ d[1] >= 1
      /\ d = <<d[1], d[2]>>
  BY CallParts DEF CallsInv, CallTypes
<1>2. ~Unsent(d)
  BY DEF CallsInv, UnsentIsUntouched, Working
<1>3. d[1] < at
  BY <1>1, <1>2 DEF Unsent, Current
<1>4. outcome[d[1]] \in Abandoned
  BY DEF CallsInv, LeftWorking, Waiting
<1> QED
  BY <1>1, <1>3, <1>4

\* A step of a worker for one call it works for.
LEMMA WorkerKeeps ==
    ASSUME CallsInv, UNCHANGED clientVars, NEW c \in Call, Working(c),
           ready' \in [Worker -> BOOLEAN],
           process' \in [Worker -> {"up", "exiting", "down"}],
           NEW place \in HandlerState,
           handler' = [handler EXCEPT ![c] = place],
           NEW is \in ThreadState,
           thread' = [thread EXCEPT ![c] = is],
           slot' \in [Worker -> Call \cup {Free}],
           inner' \in [Worker -> Call \cup {Free}],
           SlotsFit',
           place \in {"arrived", "upload"} => is = "none",
           Waiting(c) /\ is # "none" =>
              place = "inference" \/ (place = "broken" /\ "cancel" \in Faults),
           Waiting(c) /\ place = "busy" =>
              \E d \in Call : d # c /\ d[2] = c[2] /\ Working(d)
    PROVE  CallsInv'
<1>1. CallTypes /\ UNCHANGED <<at, step, waits, outcome, audio>>
  BY DEF CallsInv, clientVars
<1>2. \A d \in Call \ {c} : handler'[d] = handler[d] /\ thread'[d] = thread[d]
  BY <1>1 DEF CallTypes
<1>3. handler'[c] = place /\ thread'[c] = is
  BY <1>1 DEF CallTypes
<1>4. CallTypes'
  BY <1>1 DEF CallTypes, HandlerState
<1>5. \A d \in Call : Unsent(d)' => Unsent(d) /\ d # c
  <2>1. ~Unsent(c)
    BY DEF CallsInv, UnsentIsUntouched, Working
  <2> QED
    BY <1>1, <2>1 DEF Unsent, Current
<1>6. UnsentIsUntouched'
  BY <1>2, <1>5 DEF CallsInv, UnsentIsUntouched
<1>7. \A d \in Call : Waiting(d)' <=> Waiting(d)
  BY <1>1 DEF Waiting, Current
<1>8. LeftWorking'
  <2> SUFFICES ASSUME NEW d \in Call, Working(d)', ~Waiting(d)
               PROVE  outcome[d[1]] \in Abandoned
    BY <1>1, <1>7 DEF LeftWorking
  <2>1. Working(d)
    BY <1>2 DEF Working
  <2> QED
    BY <2>1 DEF CallsInv, LeftWorking
<1>9. ThreadsAnswer'
  BY <1>2, <1>3, <1>7 DEF CallsInv, ThreadsAnswer
<1>10. BusyHasCause'
  <2> SUFFICES ASSUME waits, handler'[Current] = "busy"
               PROVE  \E g \in 1 .. at - 1 : outcome[g] \in Abandoned
    BY <1>1 DEF BusyHasCause, Current
  <2>1. Current \in Call /\ Current[2] = step
    BY <1>1, CallParts DEF CallTypes, Current
  <2>2. CASE c = Current
    <3>1. PICK d \in Call : d # c /\ d[2] = c[2] /\ Working(d)
      BY <1>3, <2>2 DEF Waiting
    <3> QED
      BY <2>1, <2>2, <3>1, BusyCause
  <2>3. CASE c # Current
    BY <1>2, <2>1, <2>3 DEF CallsInv, BusyHasCause
  <2> QED
    BY <2>2, <2>3
<1>11. UnendedIsOpen' /\ BusyMeansAbandoned' /\ AudioIsWhole'
       /\ TranscribedIsAudio'
  BY <1>1
  DEF CallsInv, UnendedIsOpen, BusyMeansAbandoned, AudioIsWhole,
      TranscribedIsAudio
<1>12. SlotsFollowWork'
  BY SlotsByCall, PTL
<1> QED
  BY <1>4, <1>6, <1>8, <1>9, <1>10, <1>11, <1>12 DEF CallsInv

LEMMA ServedWorks ==
    ASSUME CallsInv, NEW c \in Call
    PROVE  /\ CallTypes /\ SlotsFit
           /\ thread[c] \in ThreadState
           /\ thread = [thread EXCEPT ![c] = thread[c]]
           /\ ready \in [Worker -> BOOLEAN]
           /\ process \in [Worker -> {"up", "exiting", "down"}]
           /\ WorkerOf(c) = c[2] /\ c[2] \in Worker
           /\ \A place : handler[c] \in Served /\ Waiting(c) => ~Left(c)
           /\ inner[c[2]] = Free => thread[c] # "computing"
BY SlotsByCall, CallParts
DEF CallsInv, CallTypes, WorkerOf, Waiting, Left, SlotsFit

\* Whoever holds a slot of a worker works.
LEMMA HolderWorks ==
    ASSUME CallTypes, SlotsFit, NEW w \in Worker
    PROVE  /\ slot[w] # Free => /\ slot[w] \in Call /\ slot[w][2] = w
                                /\ Working(slot[w])
                                /\ handler[slot[w]] \in Served
           /\ inner[w] # Free => /\ inner[w] \in Call /\ inner[w][2] = w
                                 /\ Working(inner[w])
                                 /\ thread[inner[w]] = "computing"
BY DEF CallTypes, SlotsFit, Working, Served

LEMMA AcquireKeeps ==
    ASSUME CallsInv, NEW c \in Call, AcquireRequestSlot(c)
    PROVE  CallsInv'
<1>1. /\ CallTypes /\ SlotsFit /\ handler[c] = "arrived" /\ Working(c)
      /\ thread = [thread EXCEPT ![c] = thread[c]] /\ thread[c] \in ThreadState
      /\ WorkerOf(c) = c[2] /\ c[2] \in Worker
      /\ UNCHANGED <<clientVars, ready, process, thread, inner>>
      /\ ready' \in [Worker -> BOOLEAN]
      /\ process' \in [Worker -> {"up", "exiting", "down"}]
  BY ServedWorks DEF AcquireRequestSlot, Working
<1>0. thread[c] = "none"
  BY <1>1 DEF CallsInv, ThreadsAnswer
<1>3. CASE slot[WorkerOf(c)] = Free
  <2>1. /\ slot' = [slot EXCEPT ![WorkerOf(c)] = c]
        /\ handler' = [handler EXCEPT ![c] = "upload"]
    BY <1>3 DEF AcquireRequestSlot
  <2>2. SlotsFit'
    BY <1>1, <1>3, <2>1, SlotTaken
  <2>3. /\ slot' \in [Worker -> Call \cup {Free}]
        /\ inner' \in [Worker -> Call \cup {Free}]
    BY <1>1, <2>1 DEF CallTypes
  <2> QED
    BY <1>0, <1>1, <2>1, <2>2, <2>3, WorkerKeeps DEF HandlerState
<1>4. CASE slot[WorkerOf(c)] # Free
  <2>1. PICK place : /\ place = IF Left(c) THEN "gone" ELSE "busy"
                     /\ handler' = [handler EXCEPT ![c] = place]
    BY <1>4 DEF AcquireRequestSlot, Answered
  <2>2. slot' = slot
    BY <1>4 DEF AcquireRequestSlot
  <2>3. SlotsFit'
    BY <1>1, <2>1, <2>2 DEF SlotsFit, CallTypes, Served
  <2>4. \E d \in Call : d # c /\ d[2] = c[2] /\ Working(d)
    BY <1>1, <1>4, HolderWorks DEF Served
  <2>5. /\ slot' \in [Worker -> Call \cup {Free}]
        /\ inner' \in [Worker -> Call \cup {Free}]
    BY <1>1, <2>2 DEF CallTypes
  <2>6. place \in HandlerState /\ place \notin {"arrived", "upload"}
    BY <2>1 DEF HandlerState
  <2>7. thread' = [thread EXCEPT ![c] = thread[c]]
    BY <1>1
  <2> QED
    BY <1>0, <1>1, <2>1, <2>3, <2>4, <2>5, <2>6, <2>7, WorkerKeeps
<1> QED
  BY <1>3, <1>4

LEMMA RefuseConnectionKeeps ==
    ASSUME CallsInv, NEW c \in Call, RefuseConnection(c)
    PROVE  CallsInv'
<1>1. /\ CallTypes /\ SlotsFit /\ handler[c] = "arrived" /\ Working(c)
      /\ thread = [thread EXCEPT ![c] = thread[c]] /\ thread[c] \in ThreadState
      /\ UNCHANGED <<clientVars, ready, process, thread, slot, inner>>
      /\ ready' \in [Worker -> BOOLEAN]
      /\ process' \in [Worker -> {"up", "exiting", "down"}]
  BY ServedWorks DEF RefuseConnection, Working
<1>2. ~(Waiting(c) /\ thread[c] # "none")
  BY <1>1 DEF CallsInv, ThreadsAnswer
<1>3. PICK place : /\ place = IF Left(c) THEN "gone" ELSE "broken"
                   /\ handler' = [handler EXCEPT ![c] = place]
  BY DEF RefuseConnection, Answered
<1>4. SlotsFit'
  BY <1>1, <1>3 DEF SlotsFit, CallTypes, Served
<1>5. /\ slot' \in [Worker -> Call \cup {Free}]
      /\ inner' \in [Worker -> Call \cup {Free}]
  BY <1>1 DEF CallTypes
<1> QED
  BY <1>1, <1>2, <1>3, <1>4, <1>5, WorkerKeeps DEF HandlerState

\* An error path: the handler answers and gives the request slot back; a
\* thread that has not begun may end with it.
LEMMA RefusalKeeps ==
    ASSUME CallsInv, NEW c \in Call, handler[c] \in Served,
           NEW place \in {"refused", "broken"}, Answered(c, place),
           slot' = Release(slot, c),
           NEW is \in {"none", thread[c]}, thread' = [thread EXCEPT ![c] = is],
           is # thread[c] => thread[c] = "starting",
           UNCHANGED <<clientVars, inner, ready, process>>,
           (place = "broken" /\ "cancel" \in Faults) \/ handler[c] = "upload"
    PROVE  CallsInv'
<1>1. /\ CallTypes /\ SlotsFit /\ Working(c) /\ is \in ThreadState
      /\ ready' \in [Worker -> BOOLEAN]
      /\ process' \in [Worker -> {"up", "exiting", "down"}]
  BY ServedWorks DEF Working, Served, ThreadState
<1>2. PICK said : /\ said = IF Left(c) THEN "gone" ELSE place
                  /\ handler' = [handler EXCEPT ![c] = said]
  BY DEF Answered
<1>3. said \in {"gone", "refused", "broken"}
  BY <1>2
<1>4. SlotsFit'
  <2>1. \A w \in Worker, d \in Call :
           slot'[w] = d <=> d[2] = w /\ handler'[d] \in Served
    BY <1>1, <1>2, <1>3, SlotReleased DEF Served
  <2>2. \A d \in Call : thread'[d] = "computing" <=> thread[d] = "computing"
    BY <1>1 DEF CallTypes
  <2> QED
    BY <1>1, <2>1, <2>2 DEF SlotsFit
<1>5. /\ slot' \in [Worker -> Call \cup {Free}]
      /\ inner' \in [Worker -> Call \cup {Free}]
  BY <1>1 DEF CallTypes, Release
<1>6. Waiting(c) /\ is # "none" => said = "broken" /\ "cancel" \in Faults
  <2>1. Waiting(c) /\ is # "none" => handler[c] # "upload"
    BY DEF CallsInv, ThreadsAnswer
  <2>2. Waiting(c) => said = place
    BY <1>2 DEF Waiting, Left
  <2> QED
    BY <2>1, <2>2
<1> QED
  BY <1>1, <1>2, <1>3, <1>4, <1>5, <1>6, WorkerKeeps DEF HandlerState

\* The thread of a request ends, and with it the handler, if there is one.
LEMMA EndThreadKeeps ==
    ASSUME CallsInv, NEW c \in Call, thread[c] # "none",
           NEW place \in {"result", "refused", "busy", "broken"},
           EndThread(c, place), UNCHANGED clientVars,
           ready' \in [Worker -> BOOLEAN],
           process' \in [Worker -> {"up", "exiting", "down"}],
           inner' \in [Worker -> Call \cup {Free}],
           \A w \in Worker, d \in Call :
              inner'[w] = d <=> d[2] = w /\ thread'[d] = "computing",
           place = "busy" => inner[c[2]] # Free /\ thread[c] # "computing"
    PROVE  CallsInv'
<1>1. /\ CallTypes /\ SlotsFit /\ Working(c) /\ c[2] \in Worker
      /\ thread' = [thread EXCEPT ![c] = "none"] /\ "none" \in ThreadState
  BY ServedWorks DEF EndThread, Working, ThreadState
<1>2. CASE handler[c] = "inference"
  <2>1. PICK said : /\ said = IF Left(c) THEN "gone" ELSE place
                    /\ handler' = [handler EXCEPT ![c] = said]
    BY <1>2 DEF EndThread, Answered
  <2>2. slot' = Release(slot, c)
    BY <1>2 DEF EndThread
  <2>3. said \in HandlerState /\ said \notin Served
    BY <2>1 DEF HandlerState, Served
  <2>4. SlotsFit'
    <3>1. \A w \in Worker, d \in Call :
             slot'[w] = d <=> d[2] = w /\ handler'[d] \in Served
      BY <1>1, <2>1, <2>2, <2>3, SlotReleased
    <3> QED
      BY <3>1 DEF SlotsFit
  <2>5. slot' \in [Worker -> Call \cup {Free}]
    <3>1. WorkerOf(c) \in Worker /\ slot \in [Worker -> Call \cup {Free}]
      BY <1>1 DEF CallTypes, WorkerOf
    <3> QED
      BY <2>2, <3>1 DEF Release
  <2>6. Waiting(c) /\ said = "busy" =>
           \E d \in Call : d # c /\ d[2] = c[2] /\ Working(d)
    <3> SUFFICES ASSUME said = "busy"
                 PROVE  \E d \in Call : d # c /\ d[2] = c[2] /\ Working(d)
      OBVIOUS
    <3>1. inner[c[2]] # Free /\ thread[c] # "computing"
      BY <2>1
    <3> QED
      BY <1>1, <3>1, HolderWorks
  <2> QED
    BY <1>1, <2>1, <2>3, <2>4, <2>5, <2>6, WorkerKeeps
<1>3. CASE handler[c] # "inference"
  <2>1. UNCHANGED <<slot, handler>>
    BY <1>3 DEF EndThread
  <2>2. handler' = [handler EXCEPT ![c] = handler[c]] /\ handler[c] \in HandlerState
    BY <1>1, <2>1 DEF CallTypes
  <2>3. SlotsFit'
    BY <1>1, <2>1 DEF SlotsFit
  <2>4. slot' \in [Worker -> Call \cup {Free}]
    BY <1>1, <2>1 DEF CallTypes
  <2>5. ~(Waiting(c) /\ handler[c] = "busy")
    BY <1>1, <1>3 DEF CallsInv, ThreadsAnswer
  <2> QED
    BY <1>1, <2>2, <2>3, <2>4, <2>5, WorkerKeeps
<1> QED
  BY <1>2, <1>3

LEMMA StartThreadKeeps ==
    ASSUME CallsInv, NEW c \in Call, StartThread(c)
    PROVE  CallsInv'
<1>1. /\ CallTypes /\ SlotsFit /\ handler[c] = "upload" /\ Working(c)
      /\ UNCHANGED <<clientVars, slot, inner, ready, process>>
      /\ handler' = [handler EXCEPT ![c] = "inference"]
      /\ thread' = [thread EXCEPT ![c] = "starting"]
      /\ ready' \in [Worker -> BOOLEAN]
      /\ process' \in [Worker -> {"up", "exiting", "down"}]
  BY ServedWorks DEF StartThread, Working
<1>2. thread[c] = "none"
  BY <1>1 DEF CallsInv, ThreadsAnswer
<1>3. SlotsFit'
  BY <1>1, <1>2 DEF SlotsFit, CallTypes, Served
<1>4. /\ slot' \in [Worker -> Call \cup {Free}]
      /\ inner' \in [Worker -> Call \cup {Free}]
  BY <1>1 DEF CallTypes
<1> QED
  BY <1>1, <1>3, <1>4, WorkerKeeps DEF HandlerState, ThreadState

LEMMA FindModelKeeps ==
    ASSUME CallsInv, NEW c \in Call, FindModel(c)
    PROVE  CallsInv'
<1>1. /\ CallTypes /\ SlotsFit /\ thread[c] = "starting" /\ Working(c)
      /\ UNCHANGED <<clientVars, inner, ready, process>>
      /\ ready' \in [Worker -> BOOLEAN]
      /\ process' \in [Worker -> {"up", "exiting", "down"}]
      /\ inner' \in [Worker -> Call \cup {Free}]
  BY ServedWorks DEF FindModel, Working, CallTypes
<1>2. CASE /\ thread' = [thread EXCEPT ![c] = "loaded"]
           /\ UNCHANGED <<handler, slot>>
  <2>1. handler' = [handler EXCEPT ![c] = handler[c]] /\ handler[c] \in HandlerState
    BY <1>1, <1>2 DEF CallTypes
  <2>2. SlotsFit'
    BY <1>1, <1>2 DEF SlotsFit, CallTypes
  <2>3. slot' \in [Worker -> Call \cup {Free}]
    BY <1>1, <1>2 DEF CallTypes
  <2>4. /\ handler[c] \notin {"arrived", "upload"}
        /\ Waiting(c) => \/ handler[c] = "inference"
                         \/ handler[c] = "broken" /\ "cancel" \in Faults
    BY <1>1 DEF CallsInv, ThreadsAnswer
  <2>5. Waiting(c) => handler[c] # "busy"
    BY <2>4
  <2> QED
    BY <1>1, <1>2, <2>1, <2>2, <2>3, <2>4, <2>5, WorkerKeeps DEF ThreadState
<1>3. CASE EndThread(c, "refused")
  <2>1. \A w \in Worker, d \in Call :
           inner'[w] = d <=> d[2] = w /\ thread'[d] = "computing"
    BY <1>1, <1>3 DEF SlotsFit, CallTypes, EndThread
  <2> QED
    BY <1>1, <1>3, <2>1, EndThreadKeeps
<1> QED
  BY <1>2, <1>3 DEF FindModel

LEMMA TakeInferenceSlotKeeps ==
    ASSUME CallsInv, NEW c \in Call, TakeInferenceSlot(c)
    PROVE  CallsInv'
<1>1. /\ CallTypes /\ SlotsFit /\ thread[c] = "loaded" /\ Working(c)
      /\ WorkerOf(c) = c[2] /\ c[2] \in Worker
      /\ UNCHANGED <<clientVars, ready, process>>
      /\ ready' \in [Worker -> BOOLEAN]
      /\ process' \in [Worker -> {"up", "exiting", "down"}]
  BY ServedWorks DEF TakeInferenceSlot, Working
<1>2. CASE inner[c[2]] = Free
  <2>1. /\ inner' = [inner EXCEPT ![c[2]] = c]
        /\ thread' = [thread EXCEPT ![c] = "computing"]
        /\ UNCHANGED <<handler, slot>>
    BY <1>1, <1>2 DEF TakeInferenceSlot
  <2>2. handler' = [handler EXCEPT ![c] = handler[c]] /\ handler[c] \in HandlerState
    BY <1>1, <2>1 DEF CallTypes
  <2>3. \A d \in Call : d[2] = c[2] => thread[d] # "computing"
    BY <1>1, <1>2, CallParts DEF SlotsFit
  <2>4. SlotsFit'
    BY <1>1, <2>1, <2>3, CallParts DEF SlotsFit, CallTypes
  <2>5. /\ slot' \in [Worker -> Call \cup {Free}]
        /\ inner' \in [Worker -> Call \cup {Free}]
    BY <1>1, <2>1 DEF CallTypes
  <2>6. /\ handler[c] \notin {"arrived", "upload"}
        /\ Waiting(c) => \/ handler[c] = "inference"
                         \/ handler[c] = "broken" /\ "cancel" \in Faults
    BY <1>1 DEF CallsInv, ThreadsAnswer
  <2>7. Waiting(c) => handler[c] # "busy"
    BY <2>6
  <2> QED
    BY <1>1, <2>1, <2>2, <2>4, <2>5, <2>6, <2>7, WorkerKeeps DEF ThreadState
<1>3. CASE inner[c[2]] # Free
  <2>1. EndThread(c, "busy") /\ inner' = inner
    BY <1>1, <1>3 DEF TakeInferenceSlot
  <2>2. /\ inner' \in [Worker -> Call \cup {Free}]
        /\ \A w \in Worker, d \in Call :
              inner'[w] = d <=> d[2] = w /\ thread'[d] = "computing"
    BY <1>1, <2>1 DEF SlotsFit, CallTypes, EndThread
  <2> QED
    BY <1>1, <1>3, <2>1, <2>2, EndThreadKeeps
<1> QED
  BY <1>2, <1>3

\* An inference ends, with audio, an error or no memory left.
LEMMA ComputingKeeps ==
    ASSUME CallsInv, NEW c \in Call, Computing(c)
    PROVE  CallsInv'
<1>1. /\ CallTypes /\ SlotsFit /\ thread[c] = "computing"
      /\ WorkerOf(c) = c[2] /\ c[2] \in Worker
      /\ UNCHANGED clientVars /\ inner' = Release(inner, c)
  BY ServedWorks DEF Computing, EndInference, OutOfMemory
<1>2. PICK place \in {"result", "broken"} : EndThread(c, place)
  BY DEF Computing, EndInference, OutOfMemory
<1>3. /\ ready' \in [Worker -> BOOLEAN]
      /\ process' \in [Worker -> {"up", "exiting", "down"}]
  <2>1. CASE EndInference(c)
    BY <1>1, <2>1 DEF EndInference, CallTypes
  <2>2. CASE OutOfMemory(c)
    BY <1>1, <2>2 DEF OutOfMemory, CallTypes
  <2> QED
    BY <2>1, <2>2 DEF Computing
<1>4. \A w \in Worker, d \in Call :
         inner'[w] = d <=> d[2] = w /\ thread'[d] = "computing"
  BY <1>1, <1>2, CallParts DEF SlotsFit, CallTypes, Release, EndThread
<1>5. inner' \in [Worker -> Call \cup {Free}]
  BY <1>1 DEF CallTypes, Release
<1> QED
  BY <1>1, <1>2, <1>3, <1>4, <1>5, EndThreadKeeps

\* The end of a process leaves no work, and an error for whoever waits.
LEMMA WorkerExitsKeeps ==
    ASSUME CallsInv, NEW w \in Worker, WorkerExits(w)
    PROVE  CallsInv'
<1>1. /\ CallTypes /\ SlotsFit
      /\ UNCHANGED <<at, step, waits, outcome, audio>>
  BY SlotsByCall DEF CallsInv, WorkerExits, clientVars
<1>2. ASSUME NEW d \in Call
      PROVE  /\ d[2] # w => handler'[d] = handler[d] /\ thread'[d] = thread[d]
             /\ d[2] = w => /\ thread'[d] = "none"
                            /\ handler'[d] \in {"none", "gone", "broken"}
                            /\ handler[d] = "none" => handler'[d] = "none"
  BY DEF WorkerExits, WorkerOf
<1>3. CallTypes'
  <2>1. handler' \in [Call -> HandlerState]
    BY <1>1 DEF WorkerExits, CallTypes, HandlerState
  <2>2. thread' \in [Call -> ThreadState]
    BY <1>1 DEF WorkerExits, CallTypes, ThreadState
  <2>3. /\ slot' \in [Worker -> Call \cup {Free}]
        /\ inner' \in [Worker -> Call \cup {Free}]
        /\ ready' \in [Worker -> BOOLEAN]
        /\ process' \in [Worker -> {"up", "exiting", "down"}]
    BY <1>1 DEF WorkerExits, CallTypes
  <2> QED
    BY <1>1, <2>1, <2>2, <2>3 DEF CallTypes
<1>4. UnsentIsUntouched'
  <2>1. \A d \in Call : Unsent(d)' <=> Unsent(d)
    BY <1>1 DEF Unsent, Current
  <2> QED
    BY <1>2, <2>1 DEF CallsInv, UnsentIsUntouched
<1>5. \A d \in Call : Waiting(d)' <=> Waiting(d)
  BY <1>1 DEF Waiting, Current
<1>6. \A d \in Call : Working(d)' => Working(d)
  BY <1>2 DEF Working
<1>7. LeftWorking'
  BY <1>1, <1>5, <1>6 DEF CallsInv, LeftWorking
<1>8. ThreadsAnswer'
  BY <1>2, <1>5 DEF CallsInv, ThreadsAnswer
<1>9. BusyHasCause'
  <2> SUFFICES ASSUME waits, handler'[Current] = "busy"
               PROVE  \E g \in 1 .. at - 1 : outcome[g] \in Abandoned
    BY <1>1 DEF BusyHasCause, Current
  <2>1. Current \in Call
    BY <1>1, CallParts DEF CallsInv, CallTypes, Current
  <2>2. handler[Current] = "busy"
    BY <1>2, <2>1
  <2> QED
    BY <2>2 DEF CallsInv, BusyHasCause
<1>10. SlotsFit'
  <2>1. /\ slot' = [slot EXCEPT ![w] = Free] /\ inner' = [inner EXCEPT ![w] = Free]
    BY DEF WorkerExits
  <2> QED
    BY <1>1, <1>2, <2>1, CallParts DEF SlotsFit, CallTypes, Served
<1>11. SlotsFollowWork'
  BY <1>10, SlotsByCall, PTL
<1>12. UnendedIsOpen' /\ BusyMeansAbandoned' /\ AudioIsWhole'
       /\ TranscribedIsAudio'
  BY <1>1
  DEF CallsInv, UnendedIsOpen, BusyMeansAbandoned, AudioIsWhole,
      TranscribedIsAudio
<1> QED
  BY <1>3, <1>4, <1>7, <1>8, <1>9, <1>11, <1>12 DEF CallsInv

LEMMA WorkersKeep ==
    ASSUME CallsInv,
           \/ \E c \in Call : Handling(c) \/ Computing(c) \/ CancelHandler(c)
           \/ \E w \in Worker : \/ LoadModel(w) \/ WorkerExits(w)
                              \/ RestartWorker(w)
    PROVE  CallsInv'
<1>1. ASSUME NEW c \in Call, RefuseUpload(c) PROVE CallsInv'
  <2>1. thread' = [thread EXCEPT ![c] = thread[c]]
    BY <1>1, ServedWorks DEF RefuseUpload
  <2> QED
    BY <1>1, <2>1, RefusalKeeps DEF RefuseUpload, Served
<1>2. ASSUME NEW c \in Call, CancelHandler(c) PROVE CallsInv'
  <2>1. PICK is \in {"none", thread[c]} :
           /\ thread' = [thread EXCEPT ![c] = is]
           /\ is # thread[c] => thread[c] = "starting"
    BY <1>2, ServedWorks DEF CancelHandler
  <2> QED
    BY <1>2, <2>1, RefusalKeeps DEF CancelHandler, Served
<1>3. ASSUME NEW w \in Worker, LoadModel(w) \/ RestartWorker(w) PROVE CallsInv'
  <2>1. /\ UNCHANGED <<at, step, waits, outcome, audio, handler, thread, slot,
                       inner>>
        /\ \/ ready' = [ready EXCEPT ![w] = TRUE] /\ process' = process
           \/ process' = [process EXCEPT ![w] = "up"] /\ ready' = ready
    BY <1>3 DEF LoadModel, RestartWorker, clientVars
  <2>2. CallTypes'
    <3>1. CallTypes
      BY DEF CallsInv
    <3>2. /\ ready' \in [Worker -> BOOLEAN]
          /\ process' \in [Worker -> {"up", "exiting", "down"}]
      BY <2>1, <3>1 DEF CallTypes
    <3> QED
      BY <2>1, <3>1, <3>2 DEF CallTypes
  <2> QED
    BY <2>1, <2>2
    DEF CallsInv, UnsentIsUntouched, Unsent, UnendedIsOpen, LeftWorking,
        Working, Waiting, ThreadsAnswer, BusyHasCause, Current,
        SlotsFollowWork, BusyMeansAbandoned, AudioIsWhole, TranscribedIsAudio
<1> QED
  BY <1>1, <1>2, <1>3, AcquireKeeps, RefuseConnectionKeeps, StartThreadKeeps,
     FindModelKeeps, TakeInferenceSlotKeeps, ComputingKeeps, WorkerExitsKeeps
  DEF Handling

LEMMA CallsInit == Init => CallsInv
<1> SUFFICES ASSUME Init PROVE CallsInv
  OBVIOUS
<1>1. CallTypes
  <2>1. at \in Attempt
    BY SizesAssumption DEF Init, Attempt
  <2>2. step \in Worker /\ waits = FALSE /\ step # "done"
    BY DEF Init, Worker
  <2>3. /\ outcome \in [Attempt -> Cause]
        /\ audio \in [Attempt -> AudioRecord]
    BY DEF Init, Cause, NoAudio, AudioRecord
  <2>4. handler \in [Call -> HandlerState] /\ thread \in [Call -> ThreadState]
    BY DEF Init, HandlerState, ThreadState
  <2>5. /\ slot \in [Worker -> Call \cup {Free}]
        /\ inner \in [Worker -> Call \cup {Free}]
        /\ ready \in [Worker -> BOOLEAN]
        /\ process \in [Worker -> {"up", "exiting", "down"}]
    BY DEF Init
  <2> QED
    BY <2>1, <2>2, <2>3, <2>4, <2>5 DEF CallTypes
<1>2. SlotsFit
  BY CallParts DEF Init, SlotsFit, Served
<1>3. UnsentIsUntouched /\ UnendedIsOpen /\ LeftWorking /\ ThreadsAnswer
      /\ BusyHasCause
  BY DEF Init, UnsentIsUntouched, UnendedIsOpen, LeftWorking, Working,
         ThreadsAnswer, Waiting, BusyHasCause
<1>4. BusyMeansAbandoned /\ AudioIsWhole /\ TranscribedIsAudio
  BY DEF Init, BusyMeansAbandoned, AudioIsWhole, TranscribedIsAudio
<1> QED
  BY <1>1, <1>2, <1>3, <1>4, SlotsByCall DEF CallsInv

LEMMA CallsStep == CallsInv /\ [Next]_vars => CallsInv'
<1> SUFFICES ASSUME CallsInv, [Next]_vars PROVE CallsInv'
  OBVIOUS
<1>1. CASE UNCHANGED vars
  BY <1>1
  DEF vars, clientVars, workerVars, CallsInv, CallTypes, UnsentIsUntouched,
      Unsent, UnendedIsOpen, LeftWorking, Working, Waiting, ThreadsAnswer,
      BusyHasCause, Current, SlotsFollowWork, BusyMeansAbandoned, AudioIsWhole,
      TranscribedIsAudio
<1> QED
  BY <1>1, RunnerKeeps, WorkersKeep DEF Next, Finished

\* A slot is held exactly as long as there is something to hold it for, and a
\* worker never computes two requests at a time: whatever error path a
\* handler takes, however it is cancelled and whenever its client leaves.
THEOREM SlotsAlwaysFollowWork == Spec => []SlotsFollowWork
<1>1. CallsInv => SlotsFollowWork
  BY DEF CallsInv
<1> QED
  BY <1>1, CallsInit, CallsStep, PTL DEF Spec

\* A worker that answers it is busy works for an earlier attempt, which was
\* given up or whose handler was cancelled: never for one that had its answer.
THEOREM BusyAlwaysMeansAbandoned == Spec => []BusyMeansAbandoned
<1>1. CallsInv => BusyMeansAbandoned
  BY DEF CallsInv
<1> QED
  BY <1>1, CallsInit, CallsStep, PTL DEF Spec

\* The audio an attempt stores is the whole body its worker sent, within the
\* limit; no answer it rests on names the request of another attempt; and an
\* attempt ends well only with such audio.
THEOREM AudioAlwaysWhole == Spec => []AudioIsWhole
<1>1. CallsInv => AudioIsWhole
  BY DEF CallsInv
<1> QED
  BY <1>1, CallsInit, CallsStep, PTL DEF Spec

=============================================================================
