------------------------------- MODULE Messages -------------------------------
(***************************************************************************)
(* The texts services exchange: XML whose values are decimal numbers or    *)
(* base64.  A text is a sequence of tokens, a tag is its name, and a tree  *)
(* is what parse_xml leaves in an xml_heap_t.                              *)
(***************************************************************************)
EXTENDS Integers, Sequences, SequencesExt, FiniteSetsExt

MAX_XML_NODES       == 131072
MAX_VOID_STACK_SIZE == 128

\* Tokens: a tag that opens, closes or does both; the text between tags.
Opens(t)  == [kind |-> "open", tag |-> t]
Closes(t) == [kind |-> "close", tag |-> t]
Both(t)   == [kind |-> "both", tag |-> t]
Chars(c)  == [kind |-> "text", text |-> c]

\* A text between tags: a number between spaces, or base64 characters between
\* spaces, each the number of its place in base64_table, 64 for '='.
Number(n) == [n |-> n, chars |-> <<>>]
Base64(s) == [n |-> -1, chars |-> s]
EmptyText == Base64(<<>>)
None      == [n |-> -1, chars |-> <<65>>]    \* no text at all: NULL

\* All texts between tags, and all tokens whose tags have these names.
CharTexts == [n : Int, chars : Seq(Nat)]
Tokens(names) == [kind : {"open", "close", "both"}, tag : names]
                     \cup [kind : {"text"}, text : CharTexts]

------------------------------------------------------------------------------
(***************************************************************************)
(* parse_xml.  Nodes are numbered as getNewXMLNode hands them out; the     *)
(* parent of the first is 0.  `at' is parent_node, `open' the stack of     *)
(* tags, `content' current_content.                                        *)
(***************************************************************************)
xml_heap_init == [nodes |-> <<>>, at |-> 0, open |-> <<>>, content |-> None, ok |-> TRUE]

\* The parent of the current node, unless the node is the first.
Up(h) == IF h.at # 0 /\ h.nodes[h.at].parent # 0 THEN h.nodes[h.at].parent ELSE h.at

getNewXMLNode(h, t) ==
    [h EXCEPT !.nodes = Append(@, [tag |-> t, parent |-> h.at, content |-> None]),
              !.at = Len(h.nodes) + 1]

\* parse_open_tag and what follows it.
OpenTag(h, t) ==
    IF Len(h.nodes) >= MAX_XML_NODES \/ Len(h.open) > MAX_VOID_STACK_SIZE
    THEN [h EXCEPT !.ok = FALSE]
    ELSE [getNewXMLNode(h, t) EXCEPT !.open = Append(@, t), !.content = EmptyText]

\* A tag that ends with '/' is not pushed.
EmptyTag(h, t) ==
    IF Len(h.nodes) >= MAX_XML_NODES THEN [h EXCEPT !.ok = FALSE]
    ELSE LET g == getNewXMLNode(h, t) IN [g EXCEPT !.at = Up(g), !.content = None]

\* Mutant: the text is given to the node after moving up to its parent.
CloseTagLate(h, t) ==
    IF h.open = <<>> \/ Last(h.open) # t THEN [h EXCEPT !.ok = FALSE]
    ELSE [h EXCEPT !.nodes[Up(h)].content = IF h.content = None THEN @ ELSE h.content,
                   !.at = Up(h), !.open = Front(@), !.content = None]

\* A closing tag ends the text of the current node, if there is no other tag
\* before it, and moves up to the parent; it must be the tag opened last.  If none
\* is open it is compared with what is at address 0, which is no tag.
CloseTag(h, t) ==
    IF h.open = <<>> \/ Last(h.open) # t THEN [h EXCEPT !.ok = FALSE]
    ELSE [h EXCEPT !.nodes[h.at].content = IF h.content = None THEN @ ELSE h.content,
                   !.at = Up(h), !.open = Front(@), !.content = None]

\* One turn of the loop; tags left open at the end are no error.
Token(h, k) ==
    IF ~h.ok THEN h
    ELSE CASE k.kind = "open"  -> OpenTag(h, k.tag)
           [] k.kind = "both"  -> EmptyTag(h, k.tag)
           [] k.kind = "close" -> CloseTag(h, k.tag)
           [] k.kind = "text"  ->
                 IF h.content = EmptyText THEN [h EXCEPT !.content = k.text] ELSE h

parse_xml(text) ==
    LET parsed[n \in 0..Len(text)] ==
            IF n = 0 THEN xml_heap_init ELSE Token(parsed[n - 1], text[n])
    IN parsed[Len(text)]

------------------------------------------------------------------------------
\* The children of a node; a tree has one node at the top.
Children(h, i) == {j \in 1..Len(h.nodes) : h.nodes[j].parent = i}

\* The node with this tag that has `index' others with it before it; 0 if none.
getXMLNode(h, siblings, item) ==
    LET named == {i \in siblings : h.nodes[i].tag = item.tag}
        found == {i \in named : Cardinality({j \in named : j < i}) = item.index}
    IN IF found = {} THEN 0 ELSE CHOOSE i \in found : TRUE

\* A query is a path of items; a node that is not found ends it.
exec_xquery(h, path) ==
    LET node[n \in 1..Len(path)] ==
            IF n = 1 THEN getXMLNode(h, Children(h, 0), path[1])
            ELSE IF node[n - 1] = 0 THEN 0
            ELSE getXMLNode(h, Children(h, node[n - 1]), path[n])
    IN node[Len(path)]

\* The path of getValueFromTagMessage, and the text it finds.
MessagePath(t) == << [tag |-> "params", index |-> 0], [tag |-> t, index |-> 0] >>
QueryText(h, t) == LET i == exec_xquery(h, MessagePath(t))
                   IN IF i = 0 THEN None ELSE h.nodes[i].content

------------------------------------------------------------------------------
\* A number ends at the space after it; anything else yields 0.
atoi(text) == IF text.n >= 0 THEN text.n ELSE 0

\* The bytes b[i], b[i+1], ...: 3 of them as 4 characters, fewer with padding.
Quad(b, i) ==
    LET byte(k) == IF k <= Len(b) THEN b[k] ELSE 0
    IN << byte(i) \div 4,
          (byte(i) % 4) * 16 + byte(i + 1) \div 16,
          IF i + 1 <= Len(b) THEN (byte(i + 1) % 16) * 4 + byte(i + 2) \div 64 ELSE 64,
          IF i + 2 <= Len(b) THEN byte(i + 2) % 64 ELSE 64 >>

base64_encode(b) ==
    [k \in 1..(4 * ((Len(b) + 2) \div 3)) |->
        Quad(b, 3 * ((k - 1) \div 4) + 1)[1 + ((k - 1) % 4)]]

\* Four characters as 3 bytes; '=' counts as 0.
Bytes(c, i) ==
    LET v(k) == c[i + k] % 64
    IN << v(0) * 4 + v(1) \div 16, (v(1) % 16) * 16 + v(2) \div 4, (v(2) % 4) * 64 + v(3) >>

\* NULL, here the empty sequence, for a text whose length is no multiple of 4.
base64_decode(text) ==
    LET c == text.chars
        pad == Cardinality({i \in 1..Len(c) : c[i] = 64})
    IN IF c = <<>> \/ Len(c) % 4 # 0 THEN <<>>
       ELSE [k \in 1..(3 * (Len(c) \div 4) - pad) |->
                Bytes(c, 4 * ((k - 1) \div 3) + 1)[1 + ((k - 1) % 3)]]
==============================================================================
