----------------------------- MODULE TlsStream ------------------------------
(***************************************************************************)
(* What a TLS connection promises to whoever reads its outgoing records:   *)
(* handshakes first, application data only between handshakes, and none    *)
(* once the stream has ended, by a close_notify, by a fatal alert or by a  *)
(* record that was cut off.  Locks, goroutines and keys do not appear.     *)
(***************************************************************************)
EXTENDS Naturals

VARIABLES
  phase,  \* "clear" before the first handshake, "handshake" in one, "open" after
  ended,  \* no application data may follow
  sent    \* records of application data sent so far

svars == <<phase, ended, sent>>

StreamInit == phase = "clear" /\ ended = FALSE /\ sent = 0

BeginHandshake ==
  /\ phase \in {"clear", "open"}
  /\ phase' = "handshake"
  /\ UNCHANGED <<ended, sent>>

FinishHandshake ==
  /\ phase = "handshake"
  /\ phase' = "open"
  /\ UNCHANGED <<ended, sent>>

SendData ==
  /\ phase = "open"
  /\ ~ended
  /\ sent' = sent + 1
  /\ UNCHANGED <<phase, ended>>

EndStream ==
  /\ ended' = TRUE
  /\ UNCHANGED <<phase, sent>>

StreamNext == BeginHandshake \/ FinishHandshake \/ SendData \/ EndStream

StreamSpec == StreamInit /\ [][StreamNext]_svars
=============================================================================
