------------------------------ MODULE RewriteGuard ------------------------------
(***************************************************************************)
(* validateRewritePreservesPhrase, the last check of a rewriter's answer,  *)
(* and a fragment that is rewritten again and again under it.  Texts are   *)
(* sequences of runes: letters in both cases, a mark that is not spoken,   *)
(* and the delimiters of inline controls.  Left out: the normalisation of  *)
(* e and yo, accents, and the other two kinds of delimiters, which behave  *)
(* like case, like marks and like brackets.                                *)
(***************************************************************************)
EXTENDS Integers, Sequences, FiniteSets, FiniteSetsExt, SequencesExt

CONSTANTS
    Runes,      \* among "a", "A", "b", "B", ",", "[", "]"
    MaxRunes    \* bound: the length of the texts tried

VARIABLES
    original,   \* the text a person wrote
    text        \* the text now

vars == <<original, text>>

Texts == SeqOf(Runes, MaxRunes)

IsLetter(r) == r \in {"a", "A", "b", "B"}
ToLower(r) == CASE r = "A" -> "a" [] r = "B" -> "b" [] OTHER -> r

CanonicalPhraseContent(value) ==
    LET letters == SelectSeq(value, IsLetter)
    IN  [i \in DOMAIN letters |-> ToLower(letters[i])]

\* Where the control that opens at i closes, or 0.
Closing(value, i) ==
    LET ends == {j \in i + 1 .. Len(value) : value[j] = "]"}
    IN  IF value[i] # "[" \/ ends = {} THEN 0 ELSE Min(ends)

\* The intervals of the inline controls, from the left, never nested.
ControlPlaces(value) ==
    LET from[i \in 1 .. Len(value) + 1] ==
            IF i > Len(value) THEN <<>>
            ELSE LET end == Closing(value, i)
                 IN  IF end = 0 THEN from[i + 1]
                     ELSE <<<<i, end>>>> \o from[end + 1]
    IN  from[1]

InlineControls(value) ==
    LET places == ControlPlaces(value)
    IN  [n \in DOMAIN places |-> SubSeq(value, places[n][1], places[n][2])]

\* A slip of Preserves: the controls are not compared.
PreservesContentOnly(before, after) ==
    CanonicalPhraseContent(before) = CanonicalPhraseContent(after)

Preserves(before, after) ==
    /\ CanonicalPhraseContent(before) = CanonicalPhraseContent(after)
    /\ InlineControls(before) = InlineControls(after)

Init == original \in Texts /\ text = original

\* An answer for the text as it is, accepted by the guard.
Rewrite(answer) ==
    /\ Preserves(text, answer)
    /\ text' = answer
    /\ UNCHANGED original

Next == \E answer \in Texts : Rewrite(answer)

Spec == Init /\ [][Next]_vars

-----------------------------------------------------------------------------
(* Properties.                                                             *)

\* However often a fragment is rewritten, its text would still pass as a
\* rewriting of what the person wrote: accepted changes do not add up.
NoDrift == Preserves(original, text)

InControls(value) ==
    UNION {p[1] .. p[2] : p \in ToSet(ControlPlaces(value))}

\* How often each letter is spoken, that is, stands outside the controls.
Spoken(value) ==
    [r \in {"a", "b"} |->
        Cardinality({i \in DOMAIN value \ InControls(value) :
                        ToLower(value[i]) = r})]

\* No letter is lost, added, or moved into or out of a control, where the
\* speech worker would not read it.
SpeechIsKept == Spoken(original) = Spoken(text)

\* Any number of accepted rewritings says what the person wrote.
RewritingIsSafe == NoDrift /\ SpeechIsKept

\* The text with each control as one token, as it is read.
Reading(value) ==
    LET Kept(i) == IsLetter(value[i]) \/ \E p \in ToSet(ControlPlaces(value)) :
                                            p[1] = i
        kept == SelectSeq([i \in DOMAIN value |-> i], LAMBDA i :
                    Kept(i) /\ (i \in InControls(value) => value[i] = "["))
    IN  [n \in DOMAIN kept |-> ToLower(value[kept[n]])]

\* "The model may not ... reorder ... letters ... or inline controls": a
\* control stays between the letters it stood between.
ControlsStayInPlace == Reading(original) = Reading(text)

=============================================================================
