------------------------------- MODULE WorkerSeeds -------------------------------
(***************************************************************************)
(* The seeds of one fragment's attempts: randomWorkerSeed, called by the   *)
(* loop of processFragment with the seeds that call used before.  A seed   *)
(* is a number of Bits bits (32 in the code) that wraps around.  Each call *)
(* of processFragment is a series: the first attempt and its automatic     *)
(* retries.  A manual retry makes another call, with an empty usedSeeds,   *)
(* and may draw a seed an earlier series had.  What becomes of an attempt  *)
(* is in GenerationRunner; here it is a choice.                            *)
(***************************************************************************)
EXTENDS Integers, FiniteSets, Sequences

CONSTANTS
    Bits,       \* the width of a seed
    Retries     \* AutomaticWarningRetries of the job

Seed == 0 .. 2 ^ Bits - 1

VARIABLES
    used,       \* usedSeeds
    seed,       \* the candidate of the loop, then the seed of the attempt
    at,         \* "draw", "search", "attempt" or "done"
    remaining,  \* retriesRemaining
    tried       \* history: the seeds of this series' attempts, in order

vars == <<used, seed, at, remaining, tried>>

Init ==
    /\ used = {} /\ seed = 0 /\ at = "draw"
    /\ remaining = Retries /\ tried = <<>>

\* Four random bytes; or no attempt at all, because the fragment can not be
\* started or the source of entropy fails.
Draw ==
    /\ at = "draw"
    /\ \/ seed' \in Seed /\ at' = "search"
       \/ at' = "done" /\ UNCHANGED seed
    /\ UNCHANGED <<used, remaining, tried>>

\* A slip of Search: no wrap-around, the last seed is tried again.
SearchSaturating ==
    /\ at = "search"
    /\ IF seed \in used
       THEN seed' = (IF seed = 2 ^ Bits - 1 THEN seed ELSE seed + 1)
            /\ UNCHANGED <<at, tried>>
       ELSE at' = "attempt" /\ tried' = Append(tried, seed) /\ UNCHANGED seed
    /\ UNCHANGED <<used, remaining>>

\* seed++ until one is free.
Search ==
    /\ at = "search"
    /\ IF seed \in used
       THEN seed' = (seed + 1) % 2 ^ Bits /\ UNCHANGED <<at, tried>>
       ELSE at' = "attempt" /\ tried' = Append(tried, seed) /\ UNCHANGED seed
    /\ UNCHANGED <<used, remaining>>

\* A slip of Retry: the seeds are forgotten with every attempt.
RetryForgetting ==
    /\ at = "attempt" /\ remaining > 0
    /\ at' = "draw" /\ remaining' = remaining - 1
    /\ used' = {seed}
    /\ UNCHANGED <<seed, tried>>

\* The attempt ended with a warning and the store took the retry.
Retry ==
    /\ at = "attempt" /\ remaining > 0
    /\ at' = "draw" /\ remaining' = remaining - 1
    /\ used' = used \cup {seed}
    /\ UNCHANGED <<seed, tried>>

\* A result without a warning, an error, or no retry left.
End ==
    /\ at = "attempt" /\ at' = "done"
    /\ UNCHANGED <<used, seed, remaining, tried>>

\* processFragment is called again, for a manual retry: usedSeeds is new.
ProcessFragment ==
    /\ at = "done" /\ at' = "draw"
    /\ used' = {} /\ remaining' = Retries /\ tried' = <<>>
    /\ UNCHANGED seed

Next == Draw \/ Search \/ Retry \/ End \/ ProcessFragment

Spec == Init /\ [][Next]_vars
FairSpec == Spec /\ WF_vars(Draw) /\ WF_vars(Search)

-----------------------------------------------------------------------------
\* No two attempts of one series, the first and its automatic retries, are made
\* with one seed: the same seed would speak the same text with the same mistake.
SeedsDiffer ==
    \A m, n \in DOMAIN tried : m # n => tried[m] # tried[n]

\* The search for a free seed ends, also when the seeds from the drawn one to
\* the largest are all used: an attempt is made, or there is nothing to draw.
SeedIsFound == at = "draw" ~> at \in {"attempt", "done"}

\* Every attempt gets a seed, and one that no attempt of its series had before.
EveryAttemptHasItsSeed == []SeedsDiffer /\ SeedIsFound

=============================================================================
