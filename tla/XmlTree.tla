------------------------------- MODULE XmlTree -------------------------------
(***************************************************************************)
(* What the programs use of pugixml: parsing a text, which may end in the  *)
(* middle, into a tree, finding children, and printing an element.         *)
(*                                                                         *)
(* A text is a sequence of atoms: parts of tags, and pieces of character   *)
(* data.  A tree is the sequence of its elements in document order, each   *)
(* with its depth; the value of an attribute or of an element is the       *)
(* sequence of its pieces.  The elements used have one attribute at most,  *)
(* an empty one and none are the same, character data comes before the     *)
(* elements below, and white space between tags, which the parser skips,   *)
(* is left out.  A piece that touches a name or an end tag's < begins with *)
(* a letter and has more than one.                                         *)
(***************************************************************************)
EXTENDS Integers, Sequences, SequencesExt, FiniteSets

CONSTANT
    Special         \* the pieces that are written as entities: &, <, >, "

AtomOf(k, x) == [kind |-> k, of |-> x]

Open(n) == AtomOf("open", n)              \* <n
Attribute == AtomOf("attribute", "")      \*  A="
Quote == AtomOf("quote", "")              \* "
Gt == AtomOf("gt", "")                    \* >
SlashGt == AtomOf("slashgt", "")          \*  />
Lt == AtomOf("lt", "")                    \* <, of an end tag
Close(n) == AtomOf("close", n)            \* /n>
Text(x) == AtomOf("text", x)
Entity(x) == AtomOf("entity", x)

IsData(a) == a.kind \in {"text", "entity"}

\* Stands for a name, and for a piece of a value, that is other than what the
\* text says, or that no printed text has.
Damaged == "damaged"

-----------------------------------------------------------------------------
(* Parsing.  The parser holds the elements so far, the indices of those that *)
(* are open, the outermost first, and where in the text it is.               *)

StartOfText == [nodes |-> <<>>, open |-> <<>>, at |-> "content"]

Pushed(p, n) ==
    [nodes |-> Append(p.nodes, [name |-> n, depth |-> Len(p.open) + 1,
                                attribute |-> <<>>, text |-> <<>>]),
     open  |-> Append(p.open, Len(p.nodes) + 1),
     at    |-> "name"]

Popped(p) == [p EXCEPT !.open = Front(@), !.at = "content"]

Cursor(p) == Last(p.open)
ClosesCursor(p, n) == p.open # <<>> /\ p.nodes[Cursor(p)].name = n

Reaches(p, place) == [p EXCEPT !.at = place]

\* Character data, which is skipped outside of any element.
WithText(p, x) ==
    IF p.open = <<>> THEN p ELSE [p EXCEPT !.nodes[Cursor(p)].text = Append(@, x)]
WithAttribute(p, x) == [p EXCEPT !.nodes[Cursor(p)].attribute = Append(@, x)]
Renamed(p) == [p EXCEPT !.nodes[Cursor(p)].name = Damaged]

\* Markup where data is expected is data.
PieceOf(a) == IF IsData(a) THEN a.of ELSE Damaged

\* The places: between tags; right behind <n; behind an attribute; in its value;
\* behind and in a further attribute, whose value nobody asks for; behind <.
\* An error ends the parse; the tree built so far is kept.
ParseAtom(p, a) ==
    CASE p.at = "content" ->
            (CASE a.kind = "open" -> Pushed(p, a.of)
               [] a.kind = "lt" -> Reaches(p, "end tag")
               [] OTHER -> WithText(p, PieceOf(a)))
      [] p.at = "name" /\ a.kind = "text" -> Renamed(p)
      [] p.at = "name" /\ a.kind = "attribute" -> Reaches(p, "value")
      [] p.at \in {"tag", "next tag"} /\ a.kind = "attribute" -> Reaches(p, "next value")
      [] p.at \in {"name", "tag", "next tag"} /\ a.kind = "gt" -> Reaches(p, "content")
      [] p.at \in {"name", "tag", "next tag"} /\ a.kind = "slashgt" -> Popped(p)
      [] p.at = "value" ->
            (CASE a.kind = "quote" -> Reaches(p, "tag")
               [] a.kind = "attribute" -> Reaches(WithAttribute(p, Damaged), "tag")
               [] OTHER -> WithAttribute(p, PieceOf(a)))
      [] p.at = "next value" ->
            IF a.kind \in {"quote", "attribute"} THEN Reaches(p, "next tag") ELSE p
      [] p.at = "end tag" /\ a.kind = "close" /\ ClosesCursor(p, a.of) -> Popped(p)
      [] p.at = "end tag" /\ a.kind = "text" -> Pushed(p, Damaged)
      [] OTHER -> Reaches(p, "failed")

\* The last atom follows data with an entity in it.
EntityBefore(text) ==
    \E i \in 1 .. Len(text) - 1 :
        text[i].kind = "entity" /\ \A j \in i .. Len(text) - 1 : IsData(text[j])

\* The parser puts its end mark over the text's last character and does without
\* it, which only a tag's > allows.  A name or a piece loses its last letter.  A
\* value behind which the quote or the < is lost ends at the mark, and then what
\* is left over of its last entity (gap) is not taken out.
EndOfText(p, text) ==
    CASE p.at = "name" -> Renamed(p)
      [] p.at = "value" /\ Last(text).kind # "attribute" -> WithAttribute(p, Damaged)
      [] p.at = "tag" /\ EntityBefore(text) -> WithAttribute(p, Damaged)
      [] p.at = "content" /\ p.open # <<>> /\ IsData(Last(text)) -> WithText(p, Damaged)
      [] p.at = "end tag" /\ EntityBefore(text) -> WithText(p, Damaged)
      [] OTHER -> p

Parse(text) ==
    LET parsed[n \in 0 .. Len(text)] ==
            IF n = 0 THEN StartOfText ELSE ParseAtom(parsed[n - 1], text[n])
    IN  EndOfText(parsed[Len(text)], text).nodes

-----------------------------------------------------------------------------
(* The tree.  A node that may be null is a set of one index or none; 0 is    *)
(* the document.                                                             *)

DepthOf(nodes, k) == IF k = 0 THEN 0 ELSE nodes[k].depth

Below(nodes, k) ==
    {j \in k + 1 .. Len(nodes) :
        \A i \in k + 1 .. j : nodes[i].depth > DepthOf(nodes, k)}

Children(nodes, ks, n) ==
    UNION {{j \in Below(nodes, k) :
               nodes[j].depth = DepthOf(nodes, k) + 1 /\ nodes[j].name = n} : k \in ks}

\* child and next_sibling by name.
FirstChild(nodes, ks, n) ==
    LET all == Children(nodes, ks, n) IN {j \in all : \A i \in all : j <= i}

\* The indices in their order: as many as its place says are not greater.
InOrder(ks) ==
    [i \in 1 .. Cardinality(ks) |-> CHOOSE k \in ks : Cardinality({j \in ks : j <= k}) = i]

child_value(nodes, k, n) ==
    FlattenSeq([i \in 1 .. Cardinality(FirstChild(nodes, {k}, n)) |->
                   nodes[CHOOSE j \in FirstChild(nodes, {k}, n) : TRUE].text])

-----------------------------------------------------------------------------
(* Printing: an element without contents ends in its start tag. *)

Escaped(value) ==
    [i \in DOMAIN value |-> IF value[i] \in Special THEN Entity(value[i]) ELSE Text(value[i])]

IsEmpty(nodes, k) == Below(nodes, k) = {} /\ nodes[k].text = <<>>

StartTag(nodes, k) ==
    LET value == nodes[k].attribute IN
        <<Open(nodes[k].name)>>
            \o (IF value = <<>> THEN <<>> ELSE <<Attribute>> \o Escaped(value) \o <<Quote>>)
            \o (IF IsEmpty(nodes, k) THEN <<SlashGt>> ELSE <<Gt>> \o Escaped(nodes[k].text))

\* The last element at a depth among the first k.
LastAt(nodes, k, d) ==
    CHOOSE j \in 1 .. k : nodes[j].depth = d /\ \A i \in j + 1 .. k : nodes[i].depth # d

\* The end tags after element k, the innermost first: its own, unless it is
\* empty, and those of the elements around it that end with it.
EndTags(nodes, k) ==
    LET next == IF k = Len(nodes) THEN nodes[1].depth ELSE nodes[k + 1].depth
        from == IF IsEmpty(nodes, k) THEN nodes[k].depth - 1 ELSE nodes[k].depth
    IN  FlattenSeq([i \in 1 .. from - next + 1 |->
            <<Lt, Close(nodes[LastAt(nodes, k, from - i + 1)].name)>>])

PrintAll(nodes) ==
    FlattenSeq([k \in DOMAIN nodes |-> StartTag(nodes, k) \o EndTags(nodes, k)])

\* xml_node::print of one element.
PrintNode(nodes, k) ==
    PrintAll(SubSeq(nodes, k, k + Cardinality(Below(nodes, k))))
=============================================================================
