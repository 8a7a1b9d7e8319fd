---------------------------- MODULE MCXmppServer ----------------------------
(***************************************************************************)
(* Values for XmppServer's constants in TLC's runs: two users, one of them *)
(* in two spellings, and a room in two spellings.                          *)
(***************************************************************************)
EXTENDS XmppServer, TLC

CONSTANTS alice, Alice, bob, aliceHome, AliceWork, bobHome, lobby, Lobby

MCBare == {alice, Alice, bob, lobby, Lobby}

MCBareOf ==
  [j \in Jid |-> CASE j = aliceHome -> alice [] j = AliceWork -> Alice [] j = bobHome -> bob]

MCFold ==
  [b \in MCBare |-> CASE b = Alice -> alice [] b = Lobby -> lobby [] OTHER -> b]

\* The connections are interchangeable.
Interchangeable == Permutations(Conn)
=============================================================================
