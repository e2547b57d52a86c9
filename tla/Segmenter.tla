------------------------------- MODULE Segmenter -------------------------------
(***************************************************************************)
(* How a chapter's text is cut into fragments: Segmenter.Split.  A text is *)
(* a sequence of rune classes; a scene break "* * *" is one of them.  A    *)
(* word is named by the place of its first rune, so a phrase, a part of    *)
(* one and a segment are sets of places.  Split is a machine: Scan is the  *)
(* loop of splitLine, Pack the loop of Split over the parts of a phrase.   *)
(*                                                                         *)
(* Spaces are already single and lines trimmed (normalizeSpace).           *)
(***************************************************************************)
EXTENDS Integers, Sequences, FiniteSets, FiniteSetsExt, SequencesExt

CONSTANTS
    Runes,      \* rune classes a text is made of, among those below
    MaxRunes,   \* bound: the length of the texts tried
    MaxWords    \* the word limit of a segment

Gap(r) == r \in {"space", "line", "break"}
IsSentenceEnd(r) == r = "."
IsClosingRune(r) == r = ")"

VARIABLES
    text,       \* the text, never changed
    piece,      \* first and last place of the piece of a line being scanned
    start,      \* where its current phrase starts
    index,      \* the place splitLine looks at
    parts,      \* the parts of the last phrase, still to be packed
    current,    \* the words of currentPhrases
    segments    \* the segments so far

vars == <<text, piece, start, index, parts, current, segments>>

\* Lines and the pieces of a line between scene breaks, as intervals.
EndOfPiece(r) == r \in {"line", "break"}

\* A normalised text: no space beside a gap, at the start or at the end.
Normal(t) ==
    \A i \in DOMAIN t : t[i] = "space" =>
        i > 1 /\ i < Len(t) /\ ~Gap(t[i - 1]) /\ ~Gap(t[i + 1])

\* The piece that starts at i.
PieceFrom(i) ==
    [from |-> i,
     to |-> Min({j \in i .. Len(text) + 1 :
                    j > Len(text) \/ EndOfPiece(text[j])}) - 1]

\* Words that start in i .. j.
WordsIn(i, j) ==
    {p \in i .. j : ~Gap(text[p]) /\ (p = 1 \/ Gap(text[p - 1]))}

\* The words of a set by their order.
RankIn(p, words) == Cardinality({q \in words : q < p})

-----------------------------------------------------------------------------
\* A slip of SplitByWordLimit: segments are filled word by word.
SplitByWordLimitOne(words) ==
    [n \in 1 .. Cardinality(words) |->
        {p \in words : RankIn(p, words) = n - 1}]

\* A phrase of more words than the limit is cut into parts of that many.
SplitByWordLimit(words) ==
    [n \in 1 .. (Cardinality(words) + MaxWords - 1) \div MaxWords |->
        {p \in words : RankIn(p, words) \div MaxWords = n - 1}]

\* Past the sentence ends, then the closing runes, from place i.
AfterEnds(i) ==
    Min({j \in i + 1 .. piece.to + 1 :
            j > piece.to \/ ~IsSentenceEnd(text[j])})

AfterClosing(i) ==
    Min({j \in AfterEnds(i) .. piece.to + 1 :
            j > piece.to \/ ~IsClosingRune(text[j])})

IsDecimalPoint(i) ==
    /\ i > piece.from /\ i < piece.to
    /\ text[i - 1] = "digit" /\ text[i + 1] = "digit"

\* The sentence end at i ends the phrase.
EndsPhrase(i) ==
    /\ IsSentenceEnd(text[i]) /\ ~IsDecimalPoint(i)
    /\ AfterClosing(i) > piece.to \/ text[AfterClosing(i)] = "space"

-----------------------------------------------------------------------------
Scanning == piece # <<>> /\ parts = <<>>

ScanRune ==
    /\ Scanning /\ index <= piece.to
    /\ IF EndsPhrase(index)
       THEN LET after == AfterClosing(index) IN
            /\ parts' = SplitByWordLimit(WordsIn(start, after - 1))
            /\ start' = after + 1 /\ index' = after + 1
       ELSE index' = index + 1 /\ UNCHANGED <<parts, start>>
    /\ UNCHANGED <<text, piece, current, segments>>

Flushed == IF current = {} THEN segments ELSE Append(segments, current)

\* The tail of the piece is a phrase.  Then comes the next piece of the line
\* or the next line, and a scene break or the end of the text flushes.
EndPiece ==
    /\ Scanning /\ index > piece.to
    /\ IF start <= piece.to
       THEN /\ parts' = SplitByWordLimit(WordsIn(start, piece.to))
            /\ start' = piece.to + 1
            /\ UNCHANGED <<piece, index, current, segments>>
       ELSE /\ IF piece.to + 1 <= Len(text)
               THEN /\ piece' = PieceFrom(piece.to + 2)
                    /\ start' = piece.to + 2 /\ index' = piece.to + 2
               ELSE piece' = <<>> /\ UNCHANGED <<start, index>>
            /\ IF piece.to + 1 > Len(text) \/ text[piece.to + 1] = "break"
               THEN segments' = Flushed /\ current' = {}
               ELSE UNCHANGED <<segments, current>>
            /\ UNCHANGED parts
    /\ UNCHANGED text

\* A part that would exceed the limit starts a segment of its own.
Pack ==
    /\ parts # <<>>
    /\ LET part == Head(parts) IN
       IF current # {} /\ Cardinality(current) + Cardinality(part) > MaxWords
       THEN segments' = Flushed /\ current' = part
       ELSE current' = current \cup part /\ UNCHANGED segments
    /\ parts' = Tail(parts)
    /\ UNCHANGED <<text, piece, start, index>>

Init ==
    /\ text \in {t \in SeqOf(Runes, MaxRunes) : Normal(t)}
    /\ piece = PieceFrom(1) /\ start = 1 /\ index = 1
    /\ parts = <<>> /\ current = {} /\ segments = <<>>

Done == piece = <<>> /\ UNCHANGED vars

Next == ScanRune \/ EndPiece \/ Pack \/ Done

Spec == Init /\ [][Next]_vars

-----------------------------------------------------------------------------
(* Properties, over what Split returns.                                    *)

Words == WordsIn(1, Len(text))
Finished == piece = <<>>

\* A reference definition: the last rune of a phrase is followed by a gap or
\* nothing and is one of a row of sentence ends and closing runes.
PhraseEndsAt(q) ==
    /\ q = Len(text) \/ Gap(text[q + 1])
    /\ \E i, m \in 1 .. q :
          /\ i <= m
          /\ \A p \in i .. m : IsSentenceEnd(text[p])
          /\ \A p \in m + 1 .. q : IsClosingRune(text[p])

\* The word p is the first of its phrase.
StartsPhrase(p) == p = 1 \/ EndOfPiece(text[p - 1]) \/ PhraseEndsAt(p - 2)

\* The words of the phrase of word p.
PhraseOf(p) ==
    LET first == Max({q \in Words : q <= p /\ StartsPhrase(q)})
    IN  {q \in Words : q >= first
             /\ \A s \in Words : s > first /\ s <= q => ~StartsPhrase(s)}

\* Every word is read aloud once, and in the order of the text.
NoWordLost ==
    Finished =>
        /\ UNION ToSet(segments) = Words
        /\ \A m, n \in DOMAIN segments : m < n =>
              \A p \in segments[m], q \in segments[n] : p < q

\* No segment is empty or exceeds the limit.
WithinLimit ==
    \A n \in DOMAIN segments : Cardinality(segments[n]) \in 1 .. MaxWords

\* No segment goes across a scene break.
SceneBreakSeparates ==
    \A n \in DOMAIN segments : \A p, q \in segments[n] :
        p < q => \A b \in p .. q : text[b] # "break"

\* A segment starts in the middle of a phrase only when that phrase alone
\* exceeds the limit.
SentencesStayWhole ==
    \A n \in DOMAIN segments :
        LET first == Min(segments[n])
        IN  StartsPhrase(first) \/ Cardinality(PhraseOf(first)) > MaxWords

\* What Split promises of every text: the segments are its words, in order,
\* within the limit, within their scenes, and with sentences whole.
SegmentsAreRight ==
    NoWordLost /\ WithinLimit /\ SceneBreakSeparates /\ SentencesStayWhole

=============================================================================
