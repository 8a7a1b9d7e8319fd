----------------------------- MODULE XmlStream -----------------------------
(***************************************************************************)
(* The elements a connection handler reads (src/xmlstream2/xmlstream.go)   *)
(* from a peer that sends a stream in the clear, asks for TLS and sends a  *)
(* second stream through it (doTLS in src/xmpp/client.go).                 *)
(*                                                                         *)
(* The peer sends tokens: the start and the end of an element, text, and   *)
(* anything the decoder takes for an error, the end of the connection      *)
(* included.  xml.Decoder reads ahead of the token it returns, and what it *)
(* has read ahead is lost with it.  A text is known by its place in the    *)
(* stream; attributes are left out.                                        *)
(***************************************************************************)
EXTENDS Lists, Integers

CONSTANTS
  Patience,   \* whether the peer may wait for <proceed/>, go on at once: a set of BOOLEAN
  MaxTokens,  \* bound: tokens a peer sends
  MaxDepth    \* bound: elements open at once

Layers == {"clear", "tls"}

VARIABLES
  patient,    \* the peer waits for <proceed/>
  sent,       \* the tokens the peer has sent, by layer
  wire,       \* those the server has not received
  buffer,     \* those the decoder has read ahead
  layer,      \* what the server reads from
  stage,      \* "root": in NewStream, "child": in NextChild, "ended", "failed"
  open,       \* the elements under way in readFromDecoder, the inmost last
  got         \* the elements NextChild has returned, by layer

peer    == <<patient, sent>>
decoder == <<buffer, layer, stage, open>>
xmlVars == <<peer, wire, decoder, got>>

XmlInit ==
  /\ patient \in Patience
  /\ sent = [l \in Layers |-> <<>>]
  /\ wire = <<>> /\ buffer = <<>>
  /\ layer = "clear" /\ stage = "root" /\ open = <<>>
  /\ got = [l \in Layers |-> <<>>]

----------------------------------------------------------------------------
(***************************************************************************)
(* Tokens, and the elements they stand for.                                *)
(***************************************************************************)
Root  == "stream"
Names == {"iq", "starttls"}

StartToken(name) == [type |-> "start", name |-> name]
EndToken   == [type |-> "end"]
BadToken   == [type |-> "bad"]
Text(n)    == [type |-> "text", text |-> n]

NoText == 0
Element(name) == [name |-> name, children |-> <<>>, text |-> NoText]

Starts(s) == {i \in DOMAIN s : s[i].type = "start"}

\* Elements open after the first n tokens.
Depth(s, n) ==
  Cardinality({j \in 1 .. n : s[j].type = "start"}) - Cardinality({j \in 1 .. n : s[j].type = "end"})

\* Token j stands in the element that starts at token i, and in none of its children.
Directly(s, i, j) ==
  i < j /\ Depth(s, j - 1) = Depth(s, i) /\ \A k \in i .. j - 1 : Depth(s, k) >= Depth(s, i)

Ended(s, i) == \E j \in i + 1 .. Len(s) : Depth(s, j) < Depth(s, i)

Positions(s) == [i \in 1 .. Len(s) |-> i]

\* The elements by the token they start at, as far as they have come: the
\* children that have ended, and the last text directly in it.
ElementsIn(s) ==
  LET element[i \in Starts(s)] ==
        LET children == Among(Positions(s), {j \in Starts(s) : Directly(s, i, j) /\ Ended(s, j)})
            texts    == {j \in DOMAIN s : Directly(s, i, j) /\ s[j].type = "text"}
        IN  [name |-> s[i].name,
             children |-> [k \in 1 .. Len(children) |-> element[children[k]]],
             text |-> IF texts = {} THEN NoText ELSE s[Max(texts)].text]
  IN  element

\* The complete children of the root.
Children(s) == IF 1 \in Starts(s) THEN ElementsIn(s)[1].children ELSE <<>>

----------------------------------------------------------------------------
(***************************************************************************)
(* The peer.                                                               *)
(***************************************************************************)
Asked == \E i \in DOMAIN Children(sent["clear"]) : Children(sent["clear"])[i].name = "starttls"

\* It writes XML until it breaks off; whether it goes on in the clear after it
\* has asked for TLS, or waits, depends on its patience.
Sends(l, t) ==
  /\ Len(sent["clear"]) + Len(sent["tls"]) < MaxTokens
  /\ l = "clear" => sent["tls"] = <<>> /\ (Asked => ~patient)
  /\ l = "tls" => Asked /\ (patient => layer = "tls")
  /\ BadToken \notin ToSet(sent[l])
  /\ LET d == Depth(sent[l], Len(sent[l]))
     IN  /\ t.type = "start" => d < MaxDepth /\ (t.name = Root <=> sent[l] = <<>>) /\ (d = 0 <=> sent[l] = <<>>)
         /\ t.type \in {"end", "text"} => d > 0
  /\ sent' = [sent EXCEPT ![l] = Append(@, t)]
  /\ wire' = Append(wire, [in |-> l, n |-> Len(sent'[l]), token |-> t])
  /\ UNCHANGED <<patient, decoder, got>>

PeerSends ==
  \E l \in Layers :
    \/ \E n \in Names \cup {Root} : Sends(l, StartToken(n))
    \/ Sends(l, EndToken) \/ Sends(l, BadToken) \/ Sends(l, Text(Len(sent[l])))

----------------------------------------------------------------------------
(***************************************************************************)
(* The server.                                                             *)
(***************************************************************************)
Reading == stage \in {"root", "child"}

\* A read into the buffer of the decoder, of whatever has arrived.
ReadAhead ==
  /\ Reading /\ buffer = <<>> /\ wire # <<>>
  /\ \E n \in DOMAIN wire : buffer' = SubSeq(wire, 1, n) /\ wire' = SubSeq(wire, n + 1, Len(wire))
  /\ UNCHANGED <<peer, layer, stage, open, got>>

Next1 == Head(buffer).token

\* What TLS cannot read, or the decoder, is an error for whoever asked for a token.
Readable ==
  /\ Next1.type # "bad"
  /\ IF layer = "clear" THEN Head(buffer).in = "clear"
     ELSE Head(buffer).in = "tls" /\ (stage = "root" => Head(buffer).n = 1)

Fails ==
  /\ Reading /\ buffer # <<>> /\ ~Readable
  /\ stage' = "failed"
  /\ UNCHANGED <<peer, wire, buffer, layer, open, got>>

Takes(type) == buffer # <<>> /\ Readable /\ Next1.type = type /\ buffer' = Tail(buffer)

\* NewStream: up to the start of the root.
OpenStream ==
  /\ stage = "root" /\ Takes("start")
  /\ stage' = "child"
  /\ UNCHANGED <<peer, wire, layer, open, got>>

StartElement ==
  /\ stage = "child" /\ Takes("start")
  /\ open' = Append(open, Element(Next1.name))
  /\ UNCHANGED <<peer, wire, layer, stage, got>>

\* Faulty: the first text is kept.
CharDataFirst ==
  /\ stage = "child" /\ Takes("text")
  /\ open' = IF open = <<>> \/ Last(open).text # NoText THEN open
             ELSE Append(Front(open), [Last(open) EXCEPT !.text = Next1.text])
  /\ UNCHANGED <<peer, wire, layer, stage, got>>

\* Text between the children of the root is passed over; in an element the last
\* one is kept.
CharData ==
  /\ stage = "child" /\ Takes("text")
  /\ open' = IF open = <<>> THEN open ELSE Append(Front(open), [Last(open) EXCEPT !.text = Next1.text])
  /\ UNCHANGED <<peer, wire, layer, stage, got>>

\* The end of an element in an element.
EndChild ==
  /\ stage = "child" /\ Len(open) > 1 /\ Takes("end")
  /\ LET rest == Front(open)
     IN  open' = Append(Front(rest), [Last(rest) EXCEPT !.children = Append(@, Last(open))])
  /\ UNCHANGED <<peer, wire, layer, stage, got>>

\* NextChild returns an element; handleXmlElement starts TLS for one of them,
\* with a decoder of its own.
EndElement ==
  /\ stage = "child" /\ Len(open) = 1 /\ buffer # <<>> /\ Readable /\ Next1.type = "end"
  /\ got' = [got EXCEPT ![layer] = Append(@, open[1])]
  /\ open' = <<>>
  /\ IF layer = "clear" /\ open[1].name = "starttls"
     THEN layer' = "tls" /\ stage' = "root" /\ buffer' = <<>>
     ELSE buffer' = Tail(buffer) /\ UNCHANGED <<layer, stage>>
  /\ UNCHANGED <<peer, wire>>

\* The end of the root: NoMoreChildrenError.
EndStream ==
  /\ stage = "child" /\ open = <<>> /\ Takes("end")
  /\ stage' = "ended"
  /\ UNCHANGED <<peer, wire, layer, open, got>>

XmlNext ==
  \/ PeerSends \/ ReadAhead \/ Fails \/ OpenStream
  \/ StartElement \/ CharData \/ EndChild \/ EndElement \/ EndStream

XmlSpec == XmlInit /\ [][XmlNext]_xmlVars

----------------------------------------------------------------------------
(***************************************************************************)
(* Properties.                                                             *)
(***************************************************************************)
\* NextChild returns the children of the root, whole and in their order, in
\* both streams, and to a peer that waits for <proceed/> nothing is lost with
\* the first decoder.
StanzasWhole ==
  /\ \A l \in Layers : IsPrefix(got[l], Children(sent[l]))
  /\ patient /\ wire = <<>> /\ buffer = <<>> /\ stage # "failed" => got = [l \in Layers |-> Children(sent[l])]
  /\ patient /\ stage = "failed" => BadToken \in ToSet(sent[layer])
=============================================================================
