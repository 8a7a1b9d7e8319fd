----------------------------- MODULE XmlEncoder -----------------------------
(***************************************************************************)
(* How an element that was read is passed on (AsString in                  *)
(* src/xmlstream2/xmlstream.go): its tokens.                               *)
(***************************************************************************)
EXTENDS XmlStream

\* Faulty: an element with children is taken to have no text.
RECURSIVE TokensTextAlone(_)
TokensTextAlone(e) ==
  <<StartToken(e.name)>>
    \o FlattenSeq([i \in DOMAIN e.children |-> TokensTextAlone(e.children[i])])
    \o (IF e.text = NoText \/ e.children # <<>> THEN <<>> ELSE <<Text(e.text)>>)
    \o <<EndToken>>

\* writeToEncoder
RECURSIVE Tokens(_)
Tokens(e) ==
  <<StartToken(e.name)>>
    \o FlattenSeq([i \in DOMAIN e.children |-> Tokens(e.children[i])])
    \o (IF e.text = NoText THEN <<>> ELSE <<Text(e.text)>>)
    \o <<EndToken>>

\* What is passed on of an element (AsString) reads as the element that was
\* read, however its text and its children were mixed.
ReadsBack == \A l \in Layers : \A i \in DOMAIN got[l] : ElementsIn(Tokens(got[l][i]))[1] = got[l][i]
=============================================================================
