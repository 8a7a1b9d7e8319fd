------------------------------ MODULE ConnList ------------------------------
(***************************************************************************)
(* The slices of connections the server keeps: XmppServer.Clients and      *)
(* XmppRoom.Members (xmpp/server.go).  A connection is compared by         *)
(* pointer, so a list is a sequence over a set of connection identities.   *)
(* The order matters to the code: removal swaps the last entry into the    *)
(* hole, and direct messages go to the first match.                        *)
(***************************************************************************)
EXTENDS Naturals, Sequences

\* The connections a list holds.
Listed(s) == {s[i] : i \in DOMAIN s}

\* No connection occurs twice.
Distinct(s) == \A i, j \in DOMAIN s : s[i] = s[j] => i = j

\* The first position of c; used only when c is listed.
Position(s, c) ==
  CHOOSE i \in DOMAIN s : s[i] = c /\ \A j \in 1 .. (i - 1) : s[j] # c

\* AddMember and AddClient: scan for the pointer, append when it is absent.
AddOnce(s, c) == IF c \in Listed(s) THEN s ELSE Append(s, c)

\* RemoveMember and RemoveClient: the last entry takes the place of the first
\* occurrence of c and the list shrinks by one; no occurrence, no change.
SwapRemove(s, c) ==
  IF c \in Listed(s)
  THEN [k \in 1 .. (Len(s) - 1) |-> IF k = Position(s, c) THEN s[Len(s)] ELSE s[k]]
  ELSE s

\* The other connections of a list that holds c once, in their order.
Others(s, c) ==
  [k \in 1 .. (Len(s) - 1) |-> IF k < Position(s, c) THEN s[k] ELSE s[k + 1]]
=============================================================================
