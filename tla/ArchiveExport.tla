----------------------------- MODULE ArchiveExport -----------------------------
(***************************************************************************)
(* How archive.go turns the snapshot of a completed job into one audio file*)
(* per chapter and a manifest that says where each fragment is heard: the  *)
(* loop of encodeArchiveChapters, one action per chapter.                  *)
(*                                                                         *)
(* A snapshot holds what a completed job can hold: ordinals 1, 2, ... with *)
(* chapters in the order of the book, and audio in whole frames, whose     *)
(* format is what the worker's headers said when the fragment was made.    *)
(* A byte of a recording is <<ordinal of its fragment, position>>.  Left   *)
(* out: titles and file names, durations, FLAC and ZIP as formats.  The    *)
(* checks of ordinals, chapter numbers and titles cannot fail for what     *)
(* createJob inserts.                                                      *)
(***************************************************************************)
EXTENDS Integers, Sequences, SequencesExt

CONSTANTS
    MaxFragments,   \* bound: fragments of the job
    MaxFrames,      \* bound: frames of a fragment
    MinSamples      \* the shortest chapter FLAC accepts; 16 in encodePCMAsFLAC

\* The client of the speech worker takes any rate and number of channels that
\* are positive; FLAC has at most 655350 Hz and 8 channels.  What is not 16 bits
\* wide was refused before it was transcribed.
MaxRate == 2
MaxChannels == 2
Format == {[rate |-> 1, channels |-> 1], [rate |-> 2, channels |-> 1],
           [rate |-> 1, channels |-> 2], [rate |-> MaxRate + 1, channels |-> 1],
           [rate |-> 1, channels |-> MaxChannels + 1]}
BlockAlign(format) == 2 * format.channels

Recording(ordinal, format, frames) ==
    [byte \in 1 .. frames * BlockAlign(format) |-> <<ordinal, byte>>]

VARIABLES
    fragments,      \* the snapshot, sorted by chapter and ordinal
    start,          \* where the loop is
    chapters,       \* encoded chapters: [number, format, samples, pcm]
    manifest,       \* entries: [ordinal, chapter, start, samples]
    outcome         \* "encoding", "archive" or "error"

vars == <<fragments, start, chapters, manifest, outcome>>

Init ==
    /\ \E n \in 1 .. MaxFragments :
       \E breaks \in SUBSET (2 .. n) :
       \E format \in [1 .. n -> Format], frames \in [1 .. n -> 1 .. MaxFrames] :
          fragments = [i \in 1 .. n |->
             [chapter |-> 1 + Cardinality({b \in breaks : b <= i}),
              ordinal |-> i, format |-> format[i],
              pcm |-> Recording(i, format[i], frames[i])]]
    /\ start = 1 /\ chapters = <<>> /\ manifest = <<>> /\ outcome = "encoding"

-----------------------------------------------------------------------------
(* concatenateChapterPCM.                                                  *)

SamplesOf(fragment) == Len(fragment.pcm) \div BlockAlign(fragment.format)

Combined(chapter) == FlattenSeq([i \in DOMAIN chapter |-> chapter[i].pcm])

\* A slip of Located: the position is counted in bytes.
LocatedByBytes(chapter) ==
    [i \in DOMAIN chapter |->
       [ordinal |-> chapter[i].ordinal, chapter |-> chapter[i].chapter,
        start |-> Len(Combined(SubSeq(chapter, 1, i - 1))),
        samples |-> SamplesOf(chapter[i])]]

\* The entries of a chapter: each starts where the one before it ended.
Located(chapter) ==
    LET Later(entries, fragment) ==
          LET from == IF entries = <<>> THEN 0
                      ELSE Last(entries).start + Last(entries).samples
          IN  Append(entries, [ordinal |-> fragment.ordinal,
                               chapter |-> fragment.chapter, start |-> from,
                               samples |-> SamplesOf(fragment)])
    IN  FoldLeft(Later, <<>>, chapter)

\* validateArchiveAudioFormat.
Supported(format) == format.rate <= MaxRate /\ format.channels <= MaxChannels

\* One format throughout, one that FLAC has, and long enough for it.
Encodable(chapter) ==
    /\ Supported(chapter[1].format)
    /\ \A i \in DOMAIN chapter : chapter[i].format = chapter[1].format
    /\ Len(Combined(chapter)) \div BlockAlign(chapter[1].format) >= MinSamples

Encoded(chapter) ==
    [number |-> chapter[1].chapter, format |-> chapter[1].format,
     samples |-> Last(Located(chapter)).start + Last(Located(chapter)).samples,
     pcm |-> Combined(chapter)]

-----------------------------------------------------------------------------
(* encodeArchiveChapters.                                                  *)

\* The last fragment of the chapter that begins at from.
EndOfChapter(from) ==
    CHOOSE to \in from .. Len(fragments) :
        /\ \A i \in from .. to : fragments[i].chapter = fragments[from].chapter
        /\ \/ to = Len(fragments)
           \/ fragments[to + 1].chapter # fragments[from].chapter

EncodeChapter ==
    /\ outcome = "encoding" /\ start <= Len(fragments)
    /\ LET chapter == SubSeq(fragments, start, EndOfChapter(start))
       IN  IF Encodable(chapter)
           THEN /\ chapters' = Append(chapters, Encoded(chapter))
                /\ manifest' = manifest \o Located(chapter)
                /\ start' = start + Len(chapter)
                /\ UNCHANGED outcome
           ELSE /\ outcome' = "error"
                /\ UNCHANGED <<chapters, manifest, start>>
    /\ UNCHANGED fragments

\* The manifest is sorted by ordinal, and the archive is written.
Finish ==
    /\ outcome = "encoding" /\ start > Len(fragments)
    /\ outcome' = "archive"
    /\ manifest' = SortSeq(manifest, LAMBDA a, b : a.ordinal < b.ordinal)
    /\ UNCHANGED <<fragments, start, chapters>>

Next == EncodeChapter \/ Finish

Spec == Init /\ [][Next]_vars

-----------------------------------------------------------------------------
(* Properties.                                                             *)

\* What a player hears that cuts the entry out of the chapter's file.
Heard(entry, file) ==
    SubSeq(file.pcm, entry.start * BlockAlign(file.format) + 1,
           (entry.start + entry.samples) * BlockAlign(file.format))

\* Every fragment has one entry in the manifest, in one file of its chapter,
\* and what is heard there is the fragment, whole and alone, in its format.
ManifestLocatesSpeech ==
    outcome = "archive" =>
      /\ Len(manifest) = Len(fragments)
      /\ \A i \in DOMAIN fragments :
         \E n \in DOMAIN chapters :
            /\ manifest[i].ordinal = fragments[i].ordinal
            /\ \A m \in DOMAIN chapters :
                 chapters[m].number = fragments[i].chapter <=> m = n
            /\ chapters[n].format = fragments[i].format
            /\ (manifest[i].start + manifest[i].samples)
                 * BlockAlign(chapters[n].format) <= Len(chapters[n].pcm)
            /\ Heard(manifest[i], chapters[n]) = fragments[i].pcm

\* A chapter downloaded alone (chapterArchiveSnapshot) is the file of that
\* chapter in the whole archive.
ChapterAloneIsTheSame ==
    \A n \in DOMAIN chapters :
        LET alone == SelectSeq(fragments,
                               LAMBDA f : f.chapter = chapters[n].number)
        IN  Encodable(alone) /\ Encoded(alone) = chapters[n]

Exportable ==
    \A c \in {fragments[i].chapter : i \in DOMAIN fragments} :
        LET F == {i \in DOMAIN fragments : fragments[i].chapter = c}
        IN  /\ \A i, j \in F : fragments[i].format = fragments[j].format
            /\ \A i \in F : Supported(fragments[i].format)
            /\ MinSamples <= FoldFunctionOnSet(+, 0,
                  [i \in DOMAIN fragments |-> SamplesOf(fragments[i])], F)

\* An export fails only when a chapter has two formats or one that FLAC has
\* not, or is too short, and then always, whatever the other chapters are.
ErrorIsDue == outcome # "encoding" => (outcome = "archive" <=> Exportable)

\* What a listener downloads: nothing, or every fragment where the manifest
\* says it is.
ExportIsRight == ManifestLocatesSpeech /\ ChapterAloneIsTheSame /\ ErrorIsDue

=============================================================================
