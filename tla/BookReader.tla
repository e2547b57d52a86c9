------------------------------- MODULE BookReader -------------------------------
(***************************************************************************)
(* How an FB2 document becomes chapters: the walker of internal/fb2/body.go*)
(* as it consumes the tokens of a well-formed document, and the flattening *)
(* of its sections.  A piece of text is a number, in document order; a     *)
(* block is the sequence of its pieces.                                    *)
(*                                                                         *)
(* The root is open from the start.  Elements that the walker treats alike *)
(* are one: "p" stands for every visible block but a title, "cite" for     *)
(* every element it does not know.  Left out: what titles say, the         *)
(* description with the authors, character sets, and Split, which is       *)
(* Segmenter's.                                                            *)
(***************************************************************************)
EXTENDS Integers, Sequences, SequencesExt

CONSTANTS
    MaxElements,    \* bound: elements of a document
    MaxTexts,       \* bound: pieces of text, image descriptions included
    MaxDepth        \* bound: depth of the document

Element == {"body", "section", "title", "p", "cite"}

VARIABLES
    elements,   \* the names of the open elements, the root first
    seen,       \* a body has been seen
    activeDepth,\* the depth of the first body while it is open, or 0
    sections,   \* the open sections that count: [depth, node]
    titleText,  \* the depth of the title being captured, or 0
    blockText,  \* the block being captured, or None
    items,      \* what has been appended, in order: [node, texts]
    nodes,      \* how many section nodes there are; 0 is the body itself
    opened,     \* elements so far
    texts,      \* pieces of text so far
    bodies,     \* history: how many bodies have begun
    visible     \* history: the pieces that are to be read aloud

bodyVars == <<seen, activeDepth, sections, titleText, blockText, items, nodes>>
vars == <<elements, bodyVars, opened, texts, bodies, visible>>

None == [element |-> "", depth |-> 0, texts |-> <<>>]
Depth == Len(elements)

CurrentSection == IF sections = <<>> THEN 0 ELSE Last(sections).node
IsCurrentSectionParent(depth) ==
    sections # <<>> /\ Last(sections).depth = depth - 1

IsDirectSection(parent, depth) ==
    \/ parent = "body" /\ depth = activeDepth + 1
    \/ parent = "section" /\ IsCurrentSectionParent(depth)

IsVisibleTextBlock(name) == name \in {"p", "title"}

Appended(block) ==
    IF block = <<>> THEN items
    ELSE Append(items, [node |-> CurrentSection, texts |-> block])

-----------------------------------------------------------------------------
(* The history: what a listener expects.  A piece is read aloud when it is *)
(* in a visible block of the first body, and not in the title of the body  *)
(* or of a chapter: a section all of whose parents are sections.           *)

ChapterAt(i) ==
    i >= 3 /\ \A j \in 3 .. i : elements[j] = "section"

InTitle ==
    \E i \in 3 .. Depth :
        /\ elements[i] = "title"
        /\ i = 3 \/ ChapterAt(i - 1)

InBlock == \E i \in 3 .. Depth : IsVisibleTextBlock(elements[i])

InFirstBody == Depth >= 2 /\ elements[2] = "body" /\ bodies = 1

-----------------------------------------------------------------------------
(* Tokens.                                                                 *)

\* Only the first body is the book.
StartBody ==
    /\ IF seen THEN UNCHANGED <<seen, activeDepth>>
       ELSE seen' = TRUE /\ activeDepth' = 2
    /\ UNCHANGED <<sections, titleText, blockText, items, nodes>>

StartSection(depth) ==
    /\ nodes' = nodes + 1
    /\ sections' = Append(sections, [depth |-> depth, node |-> nodes + 1])
    /\ UNCHANGED <<seen, activeDepth, titleText, blockText, items>>

IsTitle(parent, depth) ==
    /\ titleText = 0
    /\ \/ parent = "body" /\ depth = activeDepth + 1
       \/ parent = "section" /\ IsCurrentSectionParent(depth)

\* A block inside a block or a title belongs to that.
StartBlock(name, depth) ==
    /\ IF titleText # 0 \/ blockText # None \/ ~IsVisibleTextBlock(name)
       THEN UNCHANGED blockText
       ELSE blockText' = [element |-> name, depth |-> depth, texts |-> <<>>]
    /\ UNCHANGED <<seen, activeDepth, sections, titleText, items, nodes>>

\* bodyState.start for an element below parent.
Start(name) ==
    LET depth == Depth + 1
        parent == Last(elements)
    IN
    /\ Depth < MaxDepth /\ opened < MaxElements
    /\ elements' = Append(elements, name)
    /\ opened' = opened + 1
    /\ IF name = "body" /\ depth = 2 THEN StartBody
       ELSE IF activeDepth = 0 THEN UNCHANGED bodyVars
       ELSE IF name = "section" /\ IsDirectSection(parent, depth)
       THEN StartSection(depth)
       ELSE IF name = "title" /\ IsTitle(parent, depth)
       THEN /\ titleText' = depth
            /\ UNCHANGED <<seen, activeDepth, sections, blockText, items, nodes>>
       ELSE StartBlock(name, depth)
    /\ bodies' = IF name = "body" /\ depth = 2 THEN bodies + 1 ELSE bodies
    /\ UNCHANGED <<texts, visible>>

Captured == [blockText EXCEPT !.texts = Append(@, texts + 1)]

\* bodyState.writeText: character data.
Text ==
    /\ texts < MaxTexts
    /\ texts' = texts + 1
    /\ blockText' = IF titleText = 0 /\ blockText # None THEN Captured
                    ELSE blockText
    /\ visible' = IF InFirstBody /\ InBlock /\ ~InTitle
                  THEN Append(visible, texts + 1) ELSE visible
    /\ UNCHANGED <<elements, opened, bodies, seen, activeDepth, sections,
                   titleText, items, nodes>>

\* An image with a description below the innermost element: in the first body
\* it is read wherever it stands, but in a title.
Image ==
    /\ texts < MaxTexts
    /\ texts' = texts + 1
    /\ items' = IF activeDepth # 0 /\ titleText = 0 /\ blockText = None
                THEN Appended(<<texts + 1>>) ELSE items
    /\ blockText' = IF activeDepth # 0 /\ titleText = 0 /\ blockText # None
                    THEN Captured ELSE blockText
    /\ visible' = IF InFirstBody /\ ~InTitle
                  THEN Append(visible, texts + 1) ELSE visible
    /\ UNCHANGED <<elements, opened, bodies, seen, activeDepth, sections,
                   titleText, nodes>>

EndsBlock == blockText.element = Last(elements) /\ blockText.depth = Depth

\* bodyState.end for the innermost element: the block, title, section or
\* body that began at this depth ends.
End ==
    /\ Depth > 1
    /\ elements' = Front(elements)
    /\ items' = IF EndsBlock THEN Appended(blockText.texts) ELSE items
    /\ blockText' = IF EndsBlock \/ activeDepth = Depth THEN None
                    ELSE blockText
    /\ titleText' = IF titleText = Depth \/ activeDepth = Depth THEN 0
                    ELSE titleText
    /\ sections' = IF activeDepth = Depth THEN <<>>
                   ELSE IF sections # <<>> /\ Last(sections).depth = Depth
                   THEN Front(sections) ELSE sections
    /\ activeDepth' = IF activeDepth = Depth THEN 0 ELSE activeDepth
    /\ UNCHANGED <<seen, nodes, opened, texts, bodies, visible>>

Init ==
    /\ elements = <<"root">> /\ opened = 0 /\ texts = 0
    /\ bodies = 0 /\ visible = <<>>
    /\ seen = FALSE /\ activeDepth = 0 /\ sections = <<>> /\ titleText = 0
    /\ blockText = None /\ items = <<>> /\ nodes = 0

Next == (\E name \in Element : Start(name)) \/ Text \/ Image \/ End

Spec == Init /\ [][Next]_vars

-----------------------------------------------------------------------------
(* flattenBody and flattenSection, over the items in document order.  Two  *)
(* items of a section make one chapter unless a chapter of a section       *)
(* inside it came between.  Text of the body itself goes to the chapter    *)
(* after it, or to the last one.                                           *)

\* A slip of AppendDraft: body text is put off to the end.
AppendDraftLater(f, item) ==
    IF item.node = 0 THEN [f EXCEPT !.pending = @ \o item.texts]
    ELSE IF f.drafts # <<>> /\ Last(f.drafts).source = item.node
    THEN [f EXCEPT !.drafts[Len(f.drafts)].blocks = @ \o item.texts]
    ELSE [f EXCEPT !.drafts =
             Append(@, [source |-> item.node, blocks |-> item.texts])]

AppendDraft(f, item) ==
    IF item.node = 0 THEN [f EXCEPT !.pending = @ \o item.texts]
    ELSE IF f.drafts # <<>> /\ Last(f.drafts).source = item.node
    THEN [f EXCEPT !.drafts[Len(f.drafts)].blocks = @ \o item.texts]
    ELSE [drafts |-> Append(f.drafts, [source |-> item.node,
                                       blocks |-> f.pending \o item.texts]),
          pending |-> <<>>]

FlattenBody ==
    LET f == FoldLeft(AppendDraft, [drafts |-> <<>>, pending |-> <<>>], items)
    IN  IF f.pending = <<>> THEN f.drafts
        ELSE IF f.drafts = <<>> THEN <<[source |-> 0, blocks |-> f.pending]>>
        ELSE [f.drafts EXCEPT ![Len(f.drafts)].blocks = @ \o f.pending]

-----------------------------------------------------------------------------
(* Properties.                                                             *)

\* What the chapters say, one after the other.
Read == FlattenSeq([n \in DOMAIN FlattenBody |-> FlattenBody[n].blocks])

\* However blocks, titles, sections and images are nested, every visible
\* piece of the first body is in one chapter, in the order of the document,
\* and nothing else is.
BookIsReadInOrder == activeDepth = 0 => Read = visible

\* Sections are open in the order of their depths: a text is always put into
\* the innermost section around it.
SectionsAreOpen ==
    /\ \A n \in DOMAIN sections :
          sections[n].depth = n + 2 /\ n + 2 <= Depth
          /\ elements[n + 2] = "section"
    /\ activeDepth = 2 /\ Depth >= Len(sections) + 3 =>
          elements[Len(sections) + 3] # "section"

\* What is read is the book, and the walker's stack is right on the way.
BookIsRead == BookIsReadInOrder /\ SectionsAreOpen

=============================================================================
