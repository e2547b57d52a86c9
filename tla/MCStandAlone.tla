---------------------------- MODULE MCStandAlone ----------------------------
(***************************************************************************)
(* The parts of the program that share no state with any other, in one     *)
(* instance: in a behaviour one of them runs, and the others stay as they  *)
(* are before they begin, with nothing to do.                              *)
(***************************************************************************)
EXTENDS Integers, Sequences

CONSTANTS
    SplitRunes, SplitLength, MaxWords,              \* Segmenter
    GuardRunes, GuardLength,                        \* RewriteGuard
    Bits, Retries,                                  \* WorkerSeeds
    MaxElements, MaxTexts, MaxDepth,                \* BookReader
    MaxFragments, MaxFrames, MinSamples,            \* ArchiveExport
    Jobs, Limit, Filter, MaxEvents                  \* JobListing

ASSUME BoundsAssumption ==
    /\ {SplitLength, GuardLength, Retries, MaxElements, MaxTexts, MaxDepth,
        Jobs, MaxEvents} \subseteq Nat
    /\ {MaxWords, Bits, MaxFragments, MaxFrames, MinSamples} \subseteq Nat \ {0}
    /\ Retries < 2 ^ Bits
    /\ Limit \in 1 .. 100

VARIABLES
    part,       \* the part that runs
    chapterText, piece, phraseStart, index, parts, current, segments,
    original, rewritten,
    used, seed, at, remaining, tried,
    elements, seen, activeDepth, sections, titleText, blockText, items, nodes,
    opened, texts, bodies, visible,
    fragments, start, chapters, manifest, outcome,
    table, events, filter, offset, total, token, timers, request, shown

splitVars == <<chapterText, piece, phraseStart, index, parts, current, segments>>
guardVars == <<original, rewritten>>
seedsVars == <<used, seed, at, remaining, tried>>
readerVars == <<elements, seen, activeDepth, sections, titleText, blockText,
                items, nodes, opened, texts, bodies, visible>>
exportVars == <<fragments, start, chapters, manifest, outcome>>
listingVars == <<table, events, filter, offset, total, token, timers, request,
                 shown>>
vars == <<part, splitVars, guardVars, seedsVars, readerVars, exportVars,
          listingVars>>

Split == INSTANCE Segmenter WITH
    Runes <- SplitRunes, MaxRunes <- SplitLength,
    text <- chapterText, start <- phraseStart
Guard == INSTANCE RewriteGuard WITH
    Runes <- GuardRunes, MaxRunes <- GuardLength, text <- rewritten
Seeds == INSTANCE WorkerSeeds
Reader == INSTANCE BookReader
Export == INSTANCE ArchiveExport
Listing == INSTANCE JobListing

Init ==
    /\ part \in {"split", "guard", "seeds", "reader", "export", "listing"}
    /\ part # "split" => chapterText = <<>>
    /\ Split!Init
    /\ part # "guard" => original = <<>>
    /\ Guard!Init
    /\ Seeds!Init
    /\ Reader!Init
    /\ IF part = "export" THEN Export!Init
       ELSE /\ fragments = <<>> /\ start = 1 /\ chapters = <<>>
            /\ manifest = <<>> /\ outcome = "encoding"
    /\ part # "listing" => table = [j \in 1 .. Jobs |-> "absent"]
    /\ Listing!Init

\* All that stays when one part takes a step.
But(name) ==
    /\ part = name /\ UNCHANGED part
    /\ name # "split" => UNCHANGED splitVars
    /\ name # "guard" => UNCHANGED guardVars
    /\ name # "seeds" => UNCHANGED seedsVars
    /\ name # "reader" => UNCHANGED readerVars
    /\ name # "export" => UNCHANGED exportVars
    /\ name # "listing" => UNCHANGED listingVars

Next ==
    \/ But("split") /\ Split!Next
    \/ But("guard") /\ Guard!Next
    \/ But("seeds") /\ Seeds!Next
    \/ But("reader") /\ Reader!Next
    \/ But("export") /\ Export!Next
    \/ But("listing") /\ Listing!Next

\* The part that runs is fair as its module says: loops go on, timers fire
\* and the server answers.
Fairness ==
    /\ WF_vars(But("seeds") /\ Seeds!Draw)
    /\ WF_vars(But("seeds") /\ Seeds!Search)
    /\ WF_vars(But("listing") /\ Listing!System)

Spec == Init /\ [][Next]_vars /\ Fairness

-----------------------------------------------------------------------------
(* The properties of the parts, by the names they have there.              *)

\* Segmenter: every word is read aloud once, in order; no segment is empty,
\* too long, across a scene break, or begins within a sentence that fits.
SegmentsAreRight == Split!SegmentsAreRight

\* RewriteGuard: accepted rewritings do not add up to something that would
\* be refused, nor change what is spoken.
RewritingIsSafe == Guard!RewritingIsSafe

\* WorkerSeeds: the attempts of one call of processFragment have different
\* seeds, and the search for one ends.
EveryAttemptHasItsSeed == part = "seeds" => Seeds!EveryAttemptHasItsSeed

\* BookReader: the chapters are the visible text of the book in its order,
\* and a text is put into the innermost section around it.
BookIsRead == Reader!BookIsRead

\* ArchiveExport: the manifest locates every fragment in its chapter's file,
\* a chapter alone is the same file, and errors have their reason.
ExportIsRight == Export!ExportIsRight

\* JobListing: the page is polled on, and a page agrees with its total.
ListIsConsistent == Listing!ListIsConsistent

\* JobListing: only what was asked for is shown, one chain of timers polls, and
\* in the end the list is what the table has.
ListFollowsPerson ==
    /\ [][Listing!ShowsOnlyAsked /\ Listing!PollsInCurrentChain]_(Listing!vars)
    /\ (part = "listing" => Listing!ListSettles)

=============================================================================
