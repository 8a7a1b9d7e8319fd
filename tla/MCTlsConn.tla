----------------------------- MODULE MCTlsConn ------------------------------
(***************************************************************************)
(* Values for TlsConn's constants in TLC's runs.                           *)
(***************************************************************************)
EXTENDS TlsConn, TLC

Server13 == [client |-> FALSE, v13 |-> TRUE, reneg |-> "never"]
Client13 == [client |-> TRUE, v13 |-> TRUE, reneg |-> "never"]
Server12 == [client |-> FALSE, v13 |-> FALSE, reneg |-> "never"]
Once12   == [client |-> TRUE, v13 |-> FALSE, reneg |-> "once"]
Freely12 == [client |-> TRUE, v13 |-> FALSE, reneg |-> "freely"]

AllModes    == {Server13, Client13, Server12, Once12, Freely12}
OldModes    == {Server12, Once12, Freely12}
ServerModes == {Server13, Server12}

\* The goroutines are interchangeable.
Interchangeable == Permutations(Proc)
=============================================================================
