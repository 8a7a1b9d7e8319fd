----------------------------- MODULE Agreement -----------------------------
(***************************************************************************)
(* What a TLS handshake promises its two ends: each of them ends it with   *)
(* an outcome or fails, and two ends that both have an outcome have the    *)
(* same one.  An outcome is whatever the connection state reports of the   *)
(* handshake on both ends: version, suite, secret, protocol, resumption.   *)
(* After both have ended a new handshake may begin.                        *)
(***************************************************************************)
CONSTANTS Running, Failed

VARIABLES client, server

\* An end that failed may have any peer.
Agree(a, b) == a \in {Running, Failed} \/ b \in {Running, Failed} \/ a = b

Init == client = Running /\ server = Running

ClientEnds ==
  /\ client = Running /\ client' # Running
  /\ Agree(client', server)
  /\ UNCHANGED server

ServerEnds ==
  /\ server = Running /\ server' # Running
  /\ Agree(client, server')
  /\ UNCHANGED client

Again == client # Running /\ server # Running /\ client' = Running /\ server' = Running

Next == ClientEnds \/ ServerEnds \/ Again

Spec == Init /\ [][Next]_<<client, server>>
============================================================================
