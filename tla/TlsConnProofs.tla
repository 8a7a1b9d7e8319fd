---------------------------- MODULE TlsConnProofs ----------------------------
(***************************************************************************)
(* Theorems about TlsConn, for any number of goroutines and any bounds.    *)
(***************************************************************************)
EXTENDS TlsConn, FiniteSetTheorems, TLAPS

-----------------------------------------------------------------------------
(* The inductive invariant.                                                *)

\* Where a goroutine is fits the method it is in.
CallFits(p) ==
  /\ pc[p] = "idle" <=> call[p] = "none"
  /\ pc[p] \in Reading \cup {"inLock", "post", "renego", "take"} => call[p] = "read"
  /\ pc[p] \in Flushing \cup {"hsLock", "hsIn", "settle"} =>
       call[p] \in {"read", "write", "handshake"}
  /\ pc[p] \in {"closing", "shut"} => call[p] = "close"

\* So does the record it writes.
RecordFits(p) ==
  pc[p] \in Writing =>
    \/ /\ rec[p].kind \in Handshakes \cup {"hsAlert"}
       /\ call[p] \in {"read", "write", "handshake"}
    \/ rec[p].kind \in {"fatal", "soft", "bare", "update"} /\ call[p] = "read"
    \/ rec[p].kind = "data" /\ call[p] = "write"
    \/ rec[p].kind = "notify" /\ call[p] \in {"close", "closeWrite"}

CallInv == \A p \in Proc : CallFits(p) /\ RecordFits(p)

\* A goroutine has been let through Handshake once it reads or writes, and stays
\* in its method when a handshake begins again.
PastHandshake(p) ==
  \/ pc[p] \in Reading \cup {"inLock", "post", "renego", "take"}
  \/ /\ pc[p] \in Writing
     /\ rec[p].kind \in {"fatal", "soft", "bare", "update", "data", "notify"}

\* Only a client before TLS 1.3 renegotiates.
Renegotiates(p) ==
  pc[p] = "renego" \/ (HoldsHandshake(p) /\ handshakes > 0) =>
    mode.client /\ ~mode.v13 /\ mode.reneg # "never"

\* Only the first handshake is run by Handshake.
HandshakeInv ==
  /\ status = 1 => handshakes > 0
  /\ Free(hsLock) /\ status = 0 /\ ~hsErr => handshakes = 0
  /\ \A p \in Proc :
       /\ PastHandshake(p) => handshakes > 0
       /\ pc[p] = "hsIn" => handshakes = 0
       /\ HoldsHandshake(p) => status = 0
       /\ HoldsHandshake(p) /\ handshakes > 0 => call[p] = "read"
       /\ Renegotiates(p)

BaseInv == TypeOK /\ CallInv /\ LockDiscipline /\ HandshakeInv

\* A step of one goroutine.
Step(p) == Calls(p) \/ LockSteps(p) \/ LocalSteps(p) \/ NetworkSteps(p)

-----------------------------------------------------------------------------
(* What the helpers do to the goroutine that takes a step.                 *)

\* The types of what belongs to one goroutine, and of what they share.
LocalTypes ==
  /\ pc \in [Proc -> Places]
  /\ call \in [Proc -> Ops \cup {"none"}]
  /\ rec \in [Proc -> [kind : Records \cup {"none"}, key : Nat, seq : Nat]]
  /\ calls \in [Proc -> Nat]

\* The movements of a goroutine, without the functions they update.
Movements(p) ==
  /\ \A place \in Places : Goto(p, place) => pc'[p] = place
  /\ \A kind \in Records : GoWrite(p, kind) => pc'[p] = "seal" /\ rec'[p].kind = kind
  /\ Return(p) => /\ pc'[p] = "idle" /\ call'[p] = "none"
                  /\ activeCall' = IF call[p] = "write" THEN activeCall - 2 ELSE activeCall
  /\ \A messages, data :
       ReadOn(p, messages, data) => pc'[p] \in {"post", "take", "record"}
  /\ \A op : Begin(p, op) => pc[p] = "idle" /\ call'[p] = op /\ op \in Ops
  /\ GiveUp(p) => \/ /\ handshakes = 0 /\ pc'[p] = "flush" /\ rec'[p] = NoRecord
                     /\ UNCHANGED <<handshake, hsLock, inLock, call, activeCall>>
                  \/ handshakes > 0 /\ HandshakeFailed(p) /\ UNCHANGED rec
  /\ AfterHandshake(p) /\ call[p] \in {"read", "write", "handshake"} =>
       \/ call[p] = "read" /\ pc'[p] = "inLock" /\ UNCHANGED <<call, rec, activeCall>>
       \/ /\ call[p] = "write" /\ pc'[p] = "seal" /\ rec'[p].kind = "data"
          /\ UNCHANGED <<call, activeCall>>
       \/ /\ call[p] = "handshake" /\ pc'[p] = "idle" /\ call'[p] = "none"
          /\ UNCHANGED <<rec, activeCall>>

\* The other goroutines stay where they are.
Others(p) ==
  \A q \in Proc \ {p} : pc'[q] = pc[q] /\ call'[q] = call[q] /\ rec'[q] = rec[q]

\* A record takes the key and the sequence number it is sealed with.
LEMMA Sealing ==
  ASSUME LocalTypes, key \in Nat, seq \in Nat, NEW p \in Proc, Encrypt(p)
  PROVE  /\ rec' \in [Proc -> [kind : Records \cup {"none"}, key : Nat, seq : Nat]]
         /\ \A q \in Proc \ {p} : rec'[q] = rec[q]
         /\ Goto(p, "put")
<1>1. rec[p] \in [kind : Records \cup {"none"}, key : Nat, seq : Nat]
  BY DEF LocalTypes
<1>2. [rec[p] EXCEPT !.key = key, !.seq = seq]
        \in [kind : Records \cup {"none"}, key : Nat, seq : Nat]
  <2> DEFINE K == Records \cup {"none"}
  <2>1. rec[p] \in [kind : K, key : Nat, seq : Nat] /\ key \in Nat /\ seq \in Nat
    BY <1>1
  <2> HIDE DEF K
  <2>2. [rec[p] EXCEPT !.key = key, !.seq = seq] \in [kind : K, key : Nat, seq : Nat]
    BY ONLY <2>1
  <2> QED BY <2>2 DEF K
<1>3. rec' = [rec EXCEPT ![p] = [rec[p] EXCEPT !.key = key, !.seq = seq]] /\ Goto(p, "put")
  BY DEF Encrypt
<1> QED BY <1>2, <1>3 DEF LocalTypes

LEMMA Moving ==
  ASSUME LocalTypes, NEW p \in Proc
  PROVE  Movements(p)
<1>1. \A place \in Places : Goto(p, place) => pc'[p] = place
  BY DEF LocalTypes, Goto
<1>2. \A kind \in Records : GoWrite(p, kind) => pc'[p] = "seal" /\ rec'[p].kind = kind
  BY DEF LocalTypes, GoWrite, NoRecord
<1>3. Return(p) => /\ pc'[p] = "idle" /\ call'[p] = "none"
                   /\ activeCall' = IF call[p] = "write" THEN activeCall - 2 ELSE activeCall
  BY DEF LocalTypes, Return
<1>4. \A messages, data :
        ReadOn(p, messages, data) => pc'[p] \in {"post", "take", "record"}
  BY DEF LocalTypes, ReadOn, Goto
<1>5. \A op : Begin(p, op) => pc[p] = "idle" /\ call'[p] = op /\ op \in Ops
  BY DEF LocalTypes, Begin
<1>6. ASSUME AfterHandshake(p), call[p] \in {"read", "write", "handshake"}
      PROVE  \/ call[p] = "read" /\ pc'[p] = "inLock" /\ UNCHANGED <<call, rec, activeCall>>
             \/ /\ call[p] = "write" /\ pc'[p] = "seal" /\ rec'[p].kind = "data"
                /\ UNCHANGED <<call, activeCall>>
             \/ /\ call[p] = "handshake" /\ pc'[p] = "idle" /\ call'[p] = "none"
                /\ UNCHANGED <<rec, activeCall>>
  BY <1>1, <1>2, <1>3, <1>6 DEF AfterHandshake, Places, Records
<1>7. GiveUp(p) => \/ /\ handshakes = 0 /\ pc'[p] = "flush" /\ rec'[p] = NoRecord
                      /\ UNCHANGED <<handshake, hsLock, inLock, call, activeCall>>
                   \/ handshakes > 0 /\ HandshakeFailed(p) /\ UNCHANGED rec
  BY DEF LocalTypes, GiveUp
<1> QED BY <1>1, <1>2, <1>3, <1>4, <1>5, <1>6, <1>7 DEF Movements

\* The same helpers seen from the other goroutines, with the types they keep.
Keeping(p) ==
  /\ \A place \in Places : Goto(p, place) =>
       pc' \in [Proc -> Places] /\ \A q \in Proc \ {p} : pc'[q] = pc[q]
  /\ \A kind \in Records : GoWrite(p, kind) =>
       /\ pc' \in [Proc -> Places]
       /\ rec' \in [Proc -> [kind : Records \cup {"none"}, key : Nat, seq : Nat]]
       /\ \A q \in Proc \ {p} : pc'[q] = pc[q] /\ rec'[q] = rec[q]
  /\ Return(p) =>
       /\ pc' \in [Proc -> Places]
       /\ call' \in [Proc -> Ops \cup {"none"}]
       /\ \A q \in Proc \ {p} : pc'[q] = pc[q] /\ call'[q] = call[q]
  /\ \A messages, data : ReadOn(p, messages, data) =>
       pc' \in [Proc -> Places] /\ \A q \in Proc \ {p} : pc'[q] = pc[q]
  /\ \A op : Begin(p, op) =>
       /\ call' \in [Proc -> Ops \cup {"none"}] /\ calls' \in [Proc -> Nat]
       /\ \A q \in Proc \ {p} : call'[q] = call[q]
  /\ GiveUp(p) =>
       /\ pc' \in [Proc -> Places]
       /\ call' \in [Proc -> Ops \cup {"none"}]
       /\ rec' \in [Proc -> [kind : Records \cup {"none"}, key : Nat, seq : Nat]]
       /\ \A q \in Proc \ {p} : pc'[q] = pc[q] /\ call'[q] = call[q] /\ rec'[q] = rec[q]

LEMMA Staying ==
  ASSUME LocalTypes, NEW p \in Proc
  PROVE  Keeping(p)
<1>1. \A place \in Places : Goto(p, place) =>
        pc' \in [Proc -> Places] /\ \A q \in Proc \ {p} : pc'[q] = pc[q]
  BY DEF LocalTypes, Goto
<1>2. ASSUME NEW kind \in Records, GoWrite(p, kind)
      PROVE  /\ pc' \in [Proc -> Places]
             /\ rec' \in [Proc -> [kind : Records \cup {"none"}, key : Nat, seq : Nat]]
             /\ \A q \in Proc \ {p} : pc'[q] = pc[q] /\ rec'[q] = rec[q]
  <2>1. "seal" \in Places
    BY DEF Places, Writing
  <2> QED BY <1>2, <2>1 DEF LocalTypes, GoWrite, NoRecord
<1>3. ASSUME Return(p)
      PROVE  /\ pc' \in [Proc -> Places]
             /\ call' \in [Proc -> Ops \cup {"none"}]
             /\ \A q \in Proc \ {p} : pc'[q] = pc[q] /\ call'[q] = call[q]
  <2>1. "idle" \in Places
    BY DEF Places
  <2> QED BY <1>3, <2>1 DEF LocalTypes, Return
<1>4. ASSUME NEW messages, NEW data, ReadOn(p, messages, data)
      PROVE  pc' \in [Proc -> Places] /\ \A q \in Proc \ {p} : pc'[q] = pc[q]
  <2>1. {"post", "take", "record"} \subseteq Places
    BY DEF Places, Reading, Writing, Flushing
  <2> QED BY <1>4, <2>1 DEF LocalTypes, ReadOn, Goto
<1>5. \A op : Begin(p, op) =>
        /\ call' \in [Proc -> Ops \cup {"none"}] /\ calls' \in [Proc -> Nat]
        /\ \A q \in Proc \ {p} : call'[q] = call[q]
  BY DEF LocalTypes, Begin
<1>6. ASSUME GiveUp(p)
      PROVE  /\ pc' \in [Proc -> Places]
             /\ call' \in [Proc -> Ops \cup {"none"}]
             /\ rec' \in [Proc -> [kind : Records \cup {"none"}, key : Nat, seq : Nat]]
             /\ \A q \in Proc \ {p} : pc'[q] = pc[q] /\ call'[q] = call[q] /\ rec'[q] = rec[q]
  <2>1. CASE handshakes = 0
    <3>1. "flush" \in Places
      BY DEF Places, Flushing
    <3>2. NoRecord \in [kind : Records \cup {"none"}, key : Nat, seq : Nat]
      BY DEF NoRecord
    <3>3. /\ pc' = [pc EXCEPT ![p] = "flush"]
          /\ rec' = [rec EXCEPT ![p] = NoRecord]
          /\ UNCHANGED call
      BY <1>6, <2>1 DEF GiveUp
    <3> QED BY <3>1, <3>2, <3>3 DEF LocalTypes
  <2>2. CASE handshakes # 0
    BY <1>3, <1>6, <2>2 DEF LocalTypes, GiveUp, HandshakeFailed
  <2> QED BY <2>1, <2>2
<1> QED BY <1>1, <1>2, <1>3, <1>4, <1>5, <1>6 DEF Keeping

\* A step of one goroutine moves no other, and keeps the types of its own.
LEMMA OthersStay ==
  ASSUME BaseInv, NEW p \in Proc, Step(p)
  PROVE  LocalTypes' /\ Others(p)
<1>a. LocalTypes
  BY DEF BaseInv, TypeOK, LocalTypes
<1>b. Keeping(p)
  BY <1>a, Staying
<1>c. CallFits(p)
  BY DEF BaseInv, CallInv
<1> USE <1>a, <1>b DEF LocalTypes, Keeping, Others, Places, Reading, Writing, Flushing, Records,
     Handshakes,
                       Alerts, locks, handshake, incoming, outgoing, buffer, closing,
                            callers
<1>1. CASE BeginRead(p)
  BY <1>1 DEF BeginRead
<1>2. CASE BeginWrite(p)
  BY <1>2 DEF BeginWrite
<1>3. CASE BeginClose(p)
  BY <1>3 DEF BeginClose
<1>4. CASE BeginCloseWrite(p)
  BY <1>4 DEF BeginCloseWrite
<1>5. CASE HandshakeDone(p)
  <2>1. call[p] \in {"read", "write", "handshake"}
    BY <1>5, <1>c DEF HandshakeDone, CallFits
  <2> QED BY <1>5, <2>1 DEF HandshakeDone, AfterHandshake
<1>6. CASE HandshakeStarts(p)
  BY <1>6 DEF HandshakeStarts, Free
<1>7. CASE HandshakeTakesIn(p)
  BY <1>7 DEF HandshakeTakesIn, Free
<1>8. CASE LockRead(p)
  BY <1>8 DEF LockRead, Free
<1>9. CASE Renegotiate(p)
  BY <1>9 DEF Renegotiate, Free
<1>10. CASE Seal(p)
  <2>1. Encrypt(p) /\ UNCHANGED <<call, calls>>
    BY <1>10 DEF Seal
  <2>2. key \in Nat /\ seq \in Nat
    BY DEF BaseInv, TypeOK
  <2>3. /\ rec' \in [Proc -> [kind : Records \cup {"none"}, key : Nat, seq : Nat]]
        /\ \A q \in Proc \ {p} : rec'[q] = rec[q]
        /\ Goto(p, "put")
    BY ONLY <1>a, <2>1, <2>2, p \in Proc, Sealing
  <2> QED BY <2>1, <2>3
<1>11. CASE SealRefused(p)
  BY <1>11 DEF SealRefused, MaySeal, Free
<1>12. CASE CloseChecks(p)
  BY <1>12 DEF CloseChecks
<1>13. CASE Shut(p)
  BY <1>13 DEF Shut
<1>14. CASE SealBare(p)
  <2>1. Encrypt(p) /\ UNCHANGED <<call, calls>>
    BY <1>14 DEF SealBare
  <2>2. key \in Nat /\ seq \in Nat
    BY DEF BaseInv, TypeOK
  <2>3. /\ rec' \in [Proc -> [kind : Records \cup {"none"}, key : Nat, seq : Nat]]
        /\ \A q \in Proc \ {p} : rec'[q] = rec[q]
        /\ Goto(p, "put")
    BY ONLY <1>a, <2>1, <2>2, p \in Proc, Sealing
  <2> QED BY <2>1, <2>3
<1>15. CASE Take(p)
  BY <1>15 DEF Take
<1>16. CASE NoMessage(p)
  BY <1>16 DEF NoMessage, HasMessage
<1>17. CASE WantMore(p)
  BY <1>17 DEF WantMore, HasMessage
<1>18. CASE Oversized(p)
  BY <1>18 DEF Oversized, HasMessage
<1>19. CASE Malformed(p)
  BY <1>19 DEF Malformed, HasMessage
<1>20. CASE Reject(p)
  BY <1>20 DEF Reject, HasMessage, Counted
<1>21. CASE Absorb(p)
  BY <1>21 DEF Absorb, HasMessage, Counted, Handled
<1>22. CASE AnswerUpdate(p)
  BY <1>22 DEF AnswerUpdate, HasMessage, Counted
<1>23. CASE AcceptRenegotiation(p)
  BY <1>23 DEF AcceptRenegotiation, HasMessage, Welcome, MayRenegotiate
<1>24. CASE ReceiveData(p)
  BY <1>24 DEF ReceiveData, Receives, RecordRead
<1>25. CASE ReceiveMessage(p)
  BY <1>25 DEF ReceiveMessage, Receives, RecordRead
<1>26. CASE ReceiveIgnored(p)
  BY <1>26 DEF ReceiveIgnored, Receives
<1>27. CASE ReceiveEnd(p)
  BY <1>27 DEF ReceiveEnd, Receives
<1>28. CASE ReceiveBad(p)
  BY <1>28 DEF ReceiveBad, Receives
<1>29. CASE ReadFails(p)
  BY <1>29 DEF ReadFails
<1>30. CASE HandshakeFails(p)
  BY <1>30 DEF HandshakeFails, InHandshake, HandshakeFailed, NoRecord
<1>31. CASE HandshakeAlerts(p)
  BY <1>31 DEF HandshakeAlerts, InHandshake
<1>32. CASE HandshakeSucceeds(p)
  <2>1. call[p] \in {"read", "write", "handshake"}
    BY <1>32, <1>c DEF HandshakeSucceeds, CallFits
  <2> QED BY <1>32, <2>1 DEF HandshakeSucceeds, AfterHandshake
<1>33. ASSUME NEW ok \in BOOLEAN, PutData(p, ok)
       PROVE  LocalTypes' /\ Others(p)
  BY <1>33 DEF PutData, PutKind, Put, Send, ToSocket, ToBuffer
<1>34. ASSUME NEW ok \in BOOLEAN, PutNotify(p, ok)
       PROVE  LocalTypes' /\ Others(p)
  BY <1>34 DEF PutNotify, PutKind, Put, Send, ToSocket, ToBuffer
<1>35. ASSUME NEW ok \in BOOLEAN, PutAlert(p, ok)
       PROVE  LocalTypes' /\ Others(p)
  BY <1>35 DEF PutAlert, PutKind, Put, Send, ToSocket, ToBuffer
<1>36. ASSUME NEW ok \in BOOLEAN, PutHandshakeAlert(p, ok)
       PROVE  LocalTypes' /\ Others(p)
  BY <1>36 DEF PutHandshakeAlert, HandshakeFailed, NoRecord, Send, ToSocket, ToBuffer
<1>37. ASSUME NEW ok \in BOOLEAN, PutUpdate(p, ok)
       PROVE  LocalTypes' /\ Others(p)
  BY <1>37 DEF PutUpdate, PutKind, Put, Send, ToSocket, ToBuffer, NextKey
<1>38. ASSUME NEW ok \in BOOLEAN, PutHandshake(p, ok)
       PROVE  LocalTypes' /\ Others(p)
  BY <1>38 DEF PutHandshake, Send, ToSocket, ToBuffer, NextKey, HandshakeFailed, NoRecord
<1>39. CASE HandshakeBuffers(p)
  BY <1>39 DEF HandshakeBuffers
<1>40. CASE LoadBuffer(p)
  BY <1>40 DEF LoadBuffer
<1>41. CASE FlushNothing(p)
  BY <1>41 DEF FlushNothing, Flushed, HandshakeFailed
<1>42. CASE FlushStarts(p)
  BY <1>42 DEF FlushStarts
<1>43. ASSUME NEW ok \in BOOLEAN, FlushSends(p, ok)
       PROVE  LocalTypes' /\ Others(p)
  <2>1. NoRecord \in [kind : Records \cup {"none"}, key : Nat, seq : Nat]
    BY DEF NoRecord
  <2>2. /\ rec' \in {rec, [rec EXCEPT ![p] = NoRecord]}
        /\ UNCHANGED <<pc, call, calls>>
    BY <1>43 DEF FlushSends
  <2> QED BY <2>1, <2>2
<1>44. CASE FlushClears(p)
  BY <1>44 DEF FlushClears
<1>45. CASE FlushEnds(p)
  BY <1>45 DEF FlushEnds, Flushed, HandshakeFailed
<1> QED
  BY <1>1, <1>2, <1>3, <1>4, <1>5, <1>6, <1>7, <1>8, <1>9, <1>10, <1>11, <1>12,
       <1>13, <1>14, <1>15, <1>16, <1>17, <1>18, <1>19, <1>20, <1>21, <1>22,
       <1>23, <1>24, <1>25, <1>26, <1>27, <1>28, <1>29, <1>30, <1>31, <1>32,
       <1>33, <1>34, <1>35, <1>36, <1>37, <1>38, <1>39, <1>40, <1>41,
       <1>42, <1>43, <1>44, <1>45
  DEF Step, Calls, LockSteps, LocalSteps, NetworkSteps, Receive, PutAny

\* Every goroutine stays where its method can be.
LEMMA CallPreserved ==
  ASSUME BaseInv, NEW p \in Proc, Step(p)
  PROVE  CallInv'
<1>a. Others(p) /\ LocalTypes'
  BY OthersStay DEF BaseInv
<1>b. Movements(p)
  BY Moving DEF BaseInv, TypeOK, LocalTypes
<1>c. "none" \notin Ops
  BY ConstantsAssumption
<1>d. CallFits(p) /\ RecordFits(p)
  BY DEF BaseInv, CallInv
<1>e. HoldsHandshake(p) /\ handshakes > 0 => call[p] = "read"
  BY DEF BaseInv, HandshakeInv
<1> SUFFICES CallFits(p)' /\ RecordFits(p)'
  BY <1>a DEF BaseInv, CallInv, CallFits, RecordFits, Others
<1> USE <1>b, <1>c, <1>d DEF Movements, CallFits, RecordFits, Handshakes, Alerts,
     Records,
                             Reading, Writing, Flushing, Places, locks, callers
<1>1. CASE BeginRead(p)
  BY <1>1 DEF BeginRead
<1>2. CASE BeginWrite(p)
  BY <1>2 DEF BeginWrite
<1>3. CASE BeginClose(p)
  BY <1>3 DEF BeginClose
<1>4. CASE BeginCloseWrite(p)
  BY <1>4 DEF BeginCloseWrite
<1>5. CASE HandshakeDone(p)
  BY <1>5 DEF HandshakeDone, Free
<1>6. CASE HandshakeStarts(p)
  BY <1>6 DEF HandshakeStarts, Free
<1>7. CASE HandshakeTakesIn(p)
  BY <1>7 DEF HandshakeTakesIn, Free
<1>8. CASE LockRead(p)
  BY <1>8 DEF LockRead, Free
<1>9. CASE Renegotiate(p)
  BY <1>9 DEF Renegotiate, Free
<1>10. CASE Seal(p)
  BY <1>10 DEF Seal, Encrypt, Free
<1>11. CASE SealRefused(p)
  BY <1>11 DEF SealRefused, MaySeal, Free
<1>12. CASE CloseChecks(p)
  BY <1>12 DEF CloseChecks
<1>13. CASE Shut(p)
  BY <1>13 DEF Shut
<1>14. CASE SealBare(p)
  BY <1>14 DEF SealBare, Encrypt
<1>15. CASE Take(p)
  BY <1>15 DEF Take
<1>16. CASE NoMessage(p)
  BY <1>16 DEF NoMessage, HasMessage
<1>17. CASE WantMore(p)
  BY <1>17 DEF WantMore, HasMessage
<1>18. CASE Oversized(p)
  BY <1>18 DEF Oversized, HasMessage
<1>19. CASE Malformed(p)
  BY <1>19 DEF Malformed, HasMessage
<1>20. CASE Reject(p)
  BY <1>20 DEF Reject, HasMessage, Counted
<1>21. CASE Absorb(p)
  BY <1>21 DEF Absorb, HasMessage, Counted, Handled
<1>22. CASE AnswerUpdate(p)
  BY <1>22 DEF AnswerUpdate, HasMessage, Counted
<1>23. CASE AcceptRenegotiation(p)
  BY <1>23 DEF AcceptRenegotiation, HasMessage, Welcome, MayRenegotiate
<1>24. CASE ReceiveData(p)
  BY <1>24 DEF ReceiveData, Receives, RecordRead
<1>25. CASE ReceiveMessage(p)
  BY <1>25 DEF ReceiveMessage, Receives, RecordRead
<1>26. CASE ReceiveIgnored(p)
  BY <1>26 DEF ReceiveIgnored, Receives
<1>27. CASE ReceiveEnd(p)
  BY <1>27 DEF ReceiveEnd, Receives
<1>28. CASE ReceiveBad(p)
  BY <1>28 DEF ReceiveBad, Receives
<1>29. CASE ReadFails(p)
  BY <1>29 DEF ReadFails
<1>30. CASE HandshakeFails(p)
  BY <1>30 DEF HandshakeFails, InHandshake, HandshakeFailed, NoRecord
<1>31. CASE HandshakeAlerts(p)
  BY <1>31 DEF HandshakeAlerts, InHandshake
<1>32. CASE HandshakeSucceeds(p)
  <2>1. call[p] \in {"read", "write", "handshake"}
    BY <1>32 DEF HandshakeSucceeds
  <2>2. handshakes > 0 => call[p] = "read"
    BY <1>32, <1>e DEF HandshakeSucceeds, HoldsHandshake, BaseInv, TypeOK
  <2> QED BY <1>32, <2>1, <2>2 DEF HandshakeSucceeds, AfterHandshake
<1>33. ASSUME NEW ok \in BOOLEAN, PutData(p, ok)
       PROVE  CallFits(p)' /\ RecordFits(p)'
  BY <1>33 DEF PutData, PutKind, Put, Send, ToSocket, ToBuffer
<1>34. ASSUME NEW ok \in BOOLEAN, PutNotify(p, ok)
       PROVE  CallFits(p)' /\ RecordFits(p)'
  BY <1>34 DEF PutNotify, PutKind, Put, Send, ToSocket, ToBuffer
<1>35. ASSUME NEW ok \in BOOLEAN, PutAlert(p, ok)
       PROVE  CallFits(p)' /\ RecordFits(p)'
  BY <1>35 DEF PutAlert, PutKind, Put, Send, ToSocket, ToBuffer
<1>36. ASSUME NEW ok \in BOOLEAN, PutHandshakeAlert(p, ok)
       PROVE  CallFits(p)' /\ RecordFits(p)'
  BY <1>36 DEF PutHandshakeAlert, HandshakeFailed, NoRecord, Send, ToSocket, ToBuffer
<1>37. ASSUME NEW ok \in BOOLEAN, PutUpdate(p, ok)
       PROVE  CallFits(p)' /\ RecordFits(p)'
  BY <1>37 DEF PutUpdate, PutKind, Put, Send, ToSocket, ToBuffer, NextKey
<1>38. ASSUME NEW ok \in BOOLEAN, PutHandshake(p, ok)
       PROVE  CallFits(p)' /\ RecordFits(p)'
  BY <1>38 DEF PutHandshake, Send, ToSocket, ToBuffer, NextKey, HandshakeFailed, NoRecord
<1>39. CASE HandshakeBuffers(p)
  BY <1>39 DEF HandshakeBuffers
<1>40. CASE LoadBuffer(p)
  BY <1>40 DEF LoadBuffer
<1>41. CASE FlushNothing(p)
  BY <1>41 DEF FlushNothing, Flushed, HandshakeFailed
<1>42. CASE FlushStarts(p)
  BY <1>42 DEF FlushStarts
<1>43. ASSUME NEW ok \in BOOLEAN, FlushSends(p, ok)
       PROVE  CallFits(p)' /\ RecordFits(p)'
  BY <1>43 DEF FlushSends
<1>44. CASE FlushClears(p)
  BY <1>44 DEF FlushClears
<1>45. CASE FlushEnds(p)
  BY <1>45 DEF FlushEnds, Flushed, HandshakeFailed
<1> QED
  BY <1>1, <1>2, <1>3, <1>4, <1>5, <1>6, <1>7, <1>8, <1>9, <1>10, <1>11, <1>12,
       <1>13, <1>14, <1>15, <1>16, <1>17, <1>18, <1>19, <1>20, <1>21, <1>22,
       <1>23, <1>24, <1>25, <1>26, <1>27, <1>28, <1>29, <1>30, <1>31, <1>32,
       <1>33, <1>34, <1>35, <1>36, <1>37, <1>38, <1>39, <1>40, <1>41,
       <1>42, <1>43, <1>44, <1>45
  DEF Step, Calls, LockSteps, LocalSteps, NetworkSteps, Receive, PutAny

\* A mutex is taken from nobody and given back by its holder.
Passes(before, after, p) ==
  \/ after = before
  \/ before = NoProc /\ after = p
  \/ before = p /\ after = NoProc

\* What a step of p does to the mutexes, which are then p's as its place says.
LockStep(p) ==
  /\ Passes(hsLock, hsLock', p) /\ (HoldsHandshake(p)' <=> hsLock' = p)
  /\ Passes(inLock, inLock', p) /\ (HoldsIn(p)' <=> inLock' = p)
  /\ Passes(outLock, outLock', p) /\ (HoldsOut(p)' <=> outLock' = p)

\* Each step takes and gives back what its next place needs.
LEMMA LockingStep ==
  ASSUME BaseInv, NEW p \in Proc, Step(p)
  PROVE  LockStep(p)
<1>a. Movements(p)
  BY Moving DEF BaseInv, TypeOK, LocalTypes
<1>b. p # NoProc
  BY ConstantsAssumption
<1>c. CallFits(p) /\ RecordFits(p)
  BY DEF BaseInv, CallInv
<1>d. /\ HoldsHandshake(p) <=> hsLock = p
      /\ HoldsIn(p) <=> inLock = p
      /\ HoldsOut(p) <=> outLock = p
  BY DEF BaseInv, LockDiscipline
<1> USE <1>a, <1>b, <1>c, <1>d DEF Movements, CallFits, RecordFits, LockStep,
     Passes,
        HoldsHandshake, HoldsIn, HoldsOut, Handshakes, Alerts, Records, Reading, Writing, Flushing,
             Places,
        locks, callers
<1>1. CASE BeginRead(p)
  BY <1>1 DEF BeginRead
<1>2. CASE BeginWrite(p)
  BY <1>2 DEF BeginWrite
<1>3. CASE BeginClose(p)
  BY <1>3 DEF BeginClose
<1>4. CASE BeginCloseWrite(p)
  BY <1>4 DEF BeginCloseWrite
<1>5. CASE HandshakeDone(p)
  BY <1>5 DEF HandshakeDone, Free
<1>6. CASE HandshakeStarts(p)
  BY <1>6 DEF HandshakeStarts, Free
<1>7. CASE HandshakeTakesIn(p)
  BY <1>7 DEF HandshakeTakesIn, Free
<1>8. CASE LockRead(p)
  BY <1>8 DEF LockRead, Free
<1>9. CASE Renegotiate(p)
  BY <1>9 DEF Renegotiate, Free
<1>10. CASE Seal(p)
  <2>1. pc'[p] = "put" /\ rec'[p].kind = rec[p].kind
    <3>1. rec' = [rec EXCEPT ![p] = [rec[p] EXCEPT !.key = key, !.seq = seq]]
      BY <1>10 DEF Seal, Encrypt
    <3>2. rec'[p].kind = rec[p].kind
      BY <3>1 DEF BaseInv, TypeOK
    <3> QED BY <1>10, <3>2 DEF Seal, Encrypt
  <2> QED BY <1>10, <2>1 DEF Seal, Free
<1>11. CASE SealRefused(p)
  BY <1>11 DEF SealRefused, MaySeal, Free
<1>12. CASE CloseChecks(p)
  BY <1>12 DEF CloseChecks
<1>13. CASE Shut(p)
  BY <1>13 DEF Shut
<1>14. CASE SealBare(p)
  <2>1. pc'[p] = "put" /\ rec'[p].kind = rec[p].kind
    <3>1. rec' = [rec EXCEPT ![p] = [rec[p] EXCEPT !.key = key, !.seq = seq]]
      BY <1>14 DEF SealBare, Encrypt
    <3>2. rec'[p].kind = rec[p].kind
      BY <3>1 DEF BaseInv, TypeOK
    <3> QED BY <1>14, <3>2 DEF SealBare, Encrypt
  <2> QED BY <1>14, <2>1 DEF SealBare, Free
<1>15. CASE Take(p)
  BY <1>15 DEF Take
<1>16. CASE NoMessage(p)
  BY <1>16 DEF NoMessage, HasMessage
<1>17. CASE WantMore(p)
  BY <1>17 DEF WantMore, HasMessage
<1>18. CASE Oversized(p)
  BY <1>18 DEF Oversized, HasMessage
<1>19. CASE Malformed(p)
  BY <1>19 DEF Malformed, HasMessage
<1>20. CASE Reject(p)
  BY <1>20 DEF Reject, HasMessage, Counted
<1>21. CASE Absorb(p)
  BY <1>21 DEF Absorb, HasMessage, Counted, Handled
<1>22. CASE AnswerUpdate(p)
  BY <1>22 DEF AnswerUpdate, HasMessage, Counted
<1>23. CASE AcceptRenegotiation(p)
  BY <1>23 DEF AcceptRenegotiation, HasMessage, Welcome, MayRenegotiate
<1>24. CASE ReceiveData(p)
  BY <1>24 DEF ReceiveData, Receives, RecordRead
<1>25. CASE ReceiveMessage(p)
  BY <1>25 DEF ReceiveMessage, Receives, RecordRead
<1>26. CASE ReceiveIgnored(p)
  BY <1>26 DEF ReceiveIgnored, Receives
<1>27. CASE ReceiveEnd(p)
  BY <1>27 DEF ReceiveEnd, Receives
<1>28. CASE ReceiveBad(p)
  BY <1>28 DEF ReceiveBad, Receives
<1>29. CASE ReadFails(p)
  BY <1>29 DEF ReadFails
<1>30. CASE HandshakeFails(p)
  BY <1>30 DEF HandshakeFails, InHandshake, HandshakeFailed, NoRecord
<1>31. CASE HandshakeAlerts(p)
  BY <1>31 DEF HandshakeAlerts, InHandshake
<1>32. CASE HandshakeSucceeds(p)
  BY <1>32 DEF HandshakeSucceeds
<1>33. ASSUME NEW ok \in BOOLEAN, PutData(p, ok)
       PROVE  LockStep(p)
  BY <1>33 DEF PutData, PutKind, Put, Send, ToSocket, ToBuffer
<1>34. ASSUME NEW ok \in BOOLEAN, PutNotify(p, ok)
       PROVE  LockStep(p)
  BY <1>34 DEF PutNotify, PutKind, Put, Send, ToSocket, ToBuffer
<1>35. ASSUME NEW ok \in BOOLEAN, PutAlert(p, ok)
       PROVE  LockStep(p)
  BY <1>35 DEF PutAlert, PutKind, Put, Send, ToSocket, ToBuffer
<1>36. ASSUME NEW ok \in BOOLEAN, PutHandshakeAlert(p, ok)
       PROVE  LockStep(p)
  BY <1>36 DEF PutHandshakeAlert, HandshakeFailed, NoRecord, Send, ToSocket, ToBuffer
<1>37. ASSUME NEW ok \in BOOLEAN, PutUpdate(p, ok)
       PROVE  LockStep(p)
  BY <1>37 DEF PutUpdate, PutKind, Put, Send, ToSocket, ToBuffer, NextKey
<1>38. ASSUME NEW ok \in BOOLEAN, PutHandshake(p, ok)
       PROVE  LockStep(p)
  BY <1>38 DEF PutHandshake, Send, ToSocket, ToBuffer, NextKey, HandshakeFailed, NoRecord
<1>39. CASE HandshakeBuffers(p)
  BY <1>39 DEF HandshakeBuffers
<1>40. CASE LoadBuffer(p)
  BY <1>40 DEF LoadBuffer
<1>41. CASE FlushNothing(p)
  BY <1>41 DEF FlushNothing, Flushed, HandshakeFailed
<1>42. CASE FlushStarts(p)
  BY <1>42 DEF FlushStarts
<1>43. ASSUME NEW ok \in BOOLEAN, FlushSends(p, ok)
       PROVE  LockStep(p)
  BY <1>43 DEF FlushSends
<1>44. CASE FlushClears(p)
  BY <1>44 DEF FlushClears
<1>45. CASE FlushEnds(p)
  BY <1>45 DEF FlushEnds, Flushed, HandshakeFailed
<1> QED
  BY <1>1, <1>2, <1>3, <1>4, <1>5, <1>6, <1>7, <1>8, <1>9, <1>10, <1>11, <1>12,
       <1>13, <1>14, <1>15, <1>16, <1>17, <1>18, <1>19, <1>20, <1>21, <1>22,
       <1>23, <1>24, <1>25, <1>26, <1>27, <1>28, <1>29, <1>30, <1>31, <1>32,
       <1>33, <1>34, <1>35, <1>36, <1>37, <1>38, <1>39, <1>40, <1>41,
       <1>42, <1>43, <1>44, <1>45
  DEF Step, Calls, LockSteps, LocalSteps, NetworkSteps, Receive, PutAny

LEMMA LocksPreserved ==
  ASSUME BaseInv, NEW p \in Proc, Step(p)
  PROVE  LockDiscipline'
<1>1. LockStep(p)
  BY LockingStep
<1>2. Others(p)
  BY OthersStay
<1>3. ASSUME NEW q \in Proc \ {p}
      PROVE  /\ HoldsHandshake(q)' <=> hsLock' = q
             /\ HoldsIn(q)' <=> inLock' = q
             /\ HoldsOut(q)' <=> outLock' = q
  <2>1. /\ HoldsHandshake(q)' <=> HoldsHandshake(q)
        /\ HoldsIn(q)' <=> HoldsIn(q)
        /\ HoldsOut(q)' <=> HoldsOut(q)
    BY <1>2 DEF Others, HoldsHandshake, HoldsIn, HoldsOut
  <2>2. q # NoProc
    BY ConstantsAssumption
  <2> QED BY <1>1, <2>1, <2>2 DEF LockStep, Passes, BaseInv, LockDiscipline
<1> QED BY <1>1, <1>3 DEF LockStep, LockDiscipline

\* What a step does to the state of handshakes, which only the holder of
\* handshakeMutex changes.
HandshakeStep(p) ==
  /\ HoldsHandshake(p) \/ HoldsHandshake(p)' \/ UNCHANGED <<status, handshakes, hsErr>>
  /\ handshakes' \in {handshakes, handshakes + 1}
  /\ status' = 1 => handshakes' > 0
  /\ Free(hsLock') /\ status' = 0 /\ ~hsErr' => handshakes' = 0
  /\ PastHandshake(p)' => handshakes' > 0
  /\ pc'[p] = "hsIn" => handshakes' = 0
  /\ HoldsHandshake(p)' => status' = 0
  /\ HoldsHandshake(p)' /\ handshakes' > 0 => call'[p] = "read"
  /\ mode' = mode /\ Renegotiates(p)'

\* Each step is one of these.
LEMMA HandshakeSteps ==
  ASSUME BaseInv, NEW p \in Proc, Step(p)
  PROVE  HandshakeStep(p)
<1>a. Movements(p) /\ LockStep(p)
  BY Moving, LockingStep DEF BaseInv, TypeOK, LocalTypes
<1>b. /\ CallFits(p) /\ RecordFits(p)
      /\ HoldsHandshake(p) <=> hsLock = p
  BY DEF BaseInv, CallInv, LockDiscipline
<1>c. /\ status = 1 => handshakes > 0
      /\ Free(hsLock) /\ status = 0 /\ ~hsErr => handshakes = 0
      /\ PastHandshake(p) => handshakes > 0
      /\ pc[p] = "hsIn" => handshakes = 0
      /\ HoldsHandshake(p) => status = 0
      /\ HoldsHandshake(p) /\ handshakes > 0 => call[p] = "read"
      /\ Renegotiates(p)
  BY DEF BaseInv, HandshakeInv
<1>d. handshakes \in Nat /\ status \in {0, 1} /\ p # NoProc
  BY ConstantsAssumption DEF BaseInv, TypeOK
<1> USE <1>a, <1>b, <1>c, <1>d DEF Movements, LockStep, Passes, HandshakeStep,
     CallFits, RecordFits,
        PastHandshake, HoldsHandshake, Renegotiates, Handshakes, Alerts, Records, Reading,
        Writing, Flushing, Places,
        Free, locks, handshake, callers
<1>1. CASE BeginRead(p)
  BY <1>1 DEF BeginRead
<1>2. CASE BeginWrite(p)
  BY <1>2 DEF BeginWrite
<1>3. CASE BeginClose(p)
  BY <1>3 DEF BeginClose
<1>4. CASE BeginCloseWrite(p)
  BY <1>4 DEF BeginCloseWrite
<1>5. CASE HandshakeDone(p)
  BY <1>5 DEF HandshakeDone, Free
<1>6. CASE HandshakeStarts(p)
  BY <1>6 DEF HandshakeStarts, Free
<1>7. CASE HandshakeTakesIn(p)
  BY <1>7 DEF HandshakeTakesIn, Free
<1>8. CASE LockRead(p)
  BY <1>8 DEF LockRead, Free
<1>9. CASE Renegotiate(p)
  BY <1>9 DEF Renegotiate, Free
<1>10. CASE Seal(p)
  <2>1. pc'[p] = "put" /\ rec'[p].kind = rec[p].kind
    <3>1. rec' = [rec EXCEPT ![p] = [rec[p] EXCEPT !.key = key, !.seq = seq]]
      BY <1>10 DEF Seal, Encrypt
    <3>2. rec'[p].kind = rec[p].kind
      BY <3>1 DEF BaseInv, TypeOK
    <3> QED BY <1>10, <3>2 DEF Seal, Encrypt
  <2> QED BY <1>10, <2>1 DEF Seal, Free
<1>11. CASE SealRefused(p)
  BY <1>11 DEF SealRefused, MaySeal, Free
<1>12. CASE CloseChecks(p)
  BY <1>12 DEF CloseChecks
<1>13. CASE Shut(p)
  BY <1>13 DEF Shut
<1>14. CASE SealBare(p)
  <2>1. pc'[p] = "put" /\ rec'[p].kind = rec[p].kind
    <3>1. rec' = [rec EXCEPT ![p] = [rec[p] EXCEPT !.key = key, !.seq = seq]]
      BY <1>14 DEF SealBare, Encrypt
    <3>2. rec'[p].kind = rec[p].kind
      BY <3>1 DEF BaseInv, TypeOK
    <3> QED BY <1>14, <3>2 DEF SealBare, Encrypt
  <2> QED BY <1>14, <2>1 DEF SealBare, Free
<1>15. CASE Take(p)
  BY <1>15 DEF Take
<1>16. CASE NoMessage(p)
  BY <1>16 DEF NoMessage, HasMessage
<1>17. CASE WantMore(p)
  BY <1>17 DEF WantMore, HasMessage
<1>18. CASE Oversized(p)
  BY <1>18 DEF Oversized, HasMessage
<1>19. CASE Malformed(p)
  BY <1>19 DEF Malformed, HasMessage
<1>20. CASE Reject(p)
  BY <1>20 DEF Reject, HasMessage, Counted
<1>21. CASE Absorb(p)
  BY <1>21 DEF Absorb, HasMessage, Counted, Handled
<1>22. CASE AnswerUpdate(p)
  BY <1>22 DEF AnswerUpdate, HasMessage, Counted
<1>23. CASE AcceptRenegotiation(p)
  BY <1>23 DEF AcceptRenegotiation, HasMessage, Welcome, MayRenegotiate
<1>24. CASE ReceiveData(p)
  BY <1>24 DEF ReceiveData, Receives, RecordRead
<1>25. CASE ReceiveMessage(p)
  BY <1>25 DEF ReceiveMessage, Receives, RecordRead
<1>26. CASE ReceiveIgnored(p)
  BY <1>26 DEF ReceiveIgnored, Receives
<1>27. CASE ReceiveEnd(p)
  BY <1>27 DEF ReceiveEnd, Receives
<1>28. CASE ReceiveBad(p)
  BY <1>28 DEF ReceiveBad, Receives
<1>29. CASE ReadFails(p)
  BY <1>29 DEF ReadFails
<1>30. CASE HandshakeFails(p)
  BY <1>30 DEF HandshakeFails, InHandshake, HandshakeFailed, NoRecord
<1>31. CASE HandshakeAlerts(p)
  BY <1>31 DEF HandshakeAlerts, InHandshake
<1>32. CASE HandshakeSucceeds(p)
  BY <1>32 DEF HandshakeSucceeds
<1>33. ASSUME NEW ok \in BOOLEAN, PutData(p, ok)
       PROVE  HandshakeStep(p)
  BY <1>33 DEF PutData, PutKind, Put, Send, ToSocket, ToBuffer
<1>34. ASSUME NEW ok \in BOOLEAN, PutNotify(p, ok)
       PROVE  HandshakeStep(p)
  BY <1>34 DEF PutNotify, PutKind, Put, Send, ToSocket, ToBuffer
<1>35. ASSUME NEW ok \in BOOLEAN, PutAlert(p, ok)
       PROVE  HandshakeStep(p)
  BY <1>35 DEF PutAlert, PutKind, Put, Send, ToSocket, ToBuffer
<1>36. ASSUME NEW ok \in BOOLEAN, PutHandshakeAlert(p, ok)
       PROVE  HandshakeStep(p)
  BY <1>36 DEF PutHandshakeAlert, HandshakeFailed, NoRecord, Send, ToSocket, ToBuffer
<1>37. ASSUME NEW ok \in BOOLEAN, PutUpdate(p, ok)
       PROVE  HandshakeStep(p)
  BY <1>37 DEF PutUpdate, PutKind, Put, Send, ToSocket, ToBuffer, NextKey
<1>38. ASSUME NEW ok \in BOOLEAN, PutHandshake(p, ok)
       PROVE  HandshakeStep(p)
  BY <1>38 DEF PutHandshake, Send, ToSocket, ToBuffer, NextKey, HandshakeFailed, NoRecord
<1>39. CASE HandshakeBuffers(p)
  BY <1>39 DEF HandshakeBuffers
<1>40. CASE LoadBuffer(p)
  BY <1>40 DEF LoadBuffer
<1>41. CASE FlushNothing(p)
  BY <1>41 DEF FlushNothing, Flushed, HandshakeFailed
<1>42. CASE FlushStarts(p)
  BY <1>42 DEF FlushStarts
<1>43. ASSUME NEW ok \in BOOLEAN, FlushSends(p, ok)
       PROVE  HandshakeStep(p)
  BY <1>43 DEF FlushSends
<1>44. CASE FlushClears(p)
  BY <1>44 DEF FlushClears
<1>45. CASE FlushEnds(p)
  BY <1>45 DEF FlushEnds, Flushed, HandshakeFailed
<1> HIDE DEF HandshakeStep, Movements, LockStep
<1> QED
  BY <1>1, <1>2, <1>3, <1>4, <1>5, <1>6, <1>7, <1>8, <1>9, <1>10, <1>11, <1>12,
       <1>13, <1>14, <1>15, <1>16, <1>17, <1>18, <1>19, <1>20, <1>21, <1>22,
       <1>23, <1>24, <1>25, <1>26, <1>27, <1>28, <1>29, <1>30, <1>31, <1>32,
       <1>33, <1>34, <1>35, <1>36, <1>37, <1>38, <1>39, <1>40, <1>41,
       <1>42, <1>43, <1>44, <1>45
  DEF Step, Calls, LockSteps, LocalSteps, NetworkSteps, Receive, PutAny

LEMMA HandshakePreserved ==
  ASSUME BaseInv, NEW p \in Proc, Step(p)
  PROVE  HandshakeInv'
<1>1. HandshakeStep(p) /\ LockStep(p) /\ Others(p) /\ LockDiscipline /\ LockDiscipline'
  BY HandshakeSteps, LockingStep, OthersStay, LocksPreserved DEF BaseInv
<1>2. ASSUME NEW q \in Proc \ {p}
      PROVE  /\ PastHandshake(q)' => handshakes' > 0
             /\ pc'[q] = "hsIn" => handshakes' = 0
             /\ HoldsHandshake(q)' => status' = 0
             /\ HoldsHandshake(q)' /\ handshakes' > 0 => call'[q] = "read"
             /\ Renegotiates(q)'
  <2>1. /\ PastHandshake(q)' <=> PastHandshake(q)
        /\ HoldsHandshake(q)' <=> HoldsHandshake(q)
        /\ call'[q] = call[q] /\ pc'[q] = pc[q]
    BY <1>1 DEF Others, PastHandshake, HoldsHandshake
  <2>2. /\ HoldsHandshake(q) <=> hsLock = q
        /\ HoldsHandshake(q)' <=> hsLock' = q
        /\ HoldsHandshake(p) <=> hsLock = p
        /\ HoldsHandshake(p)' <=> hsLock' = p
    BY <1>1 DEF LockDiscipline
  <2>3. HoldsHandshake(q) => UNCHANGED <<status, handshakes, hsErr>>
    BY <1>1, <2>1, <2>2 DEF HandshakeStep
  <2>4. /\ PastHandshake(q) => handshakes > 0
        /\ pc[q] = "hsIn" => handshakes = 0
        /\ HoldsHandshake(q) => status = 0
        /\ HoldsHandshake(q) /\ handshakes > 0 => call[q] = "read"
        /\ Renegotiates(q) /\ mode' = mode
        /\ pc[q] = "hsIn" => HoldsHandshake(q)
        /\ handshakes \in Nat /\ handshakes' \in {handshakes, handshakes + 1}
    BY <1>1 DEF BaseInv, HandshakeInv, TypeOK, HandshakeStep, HoldsHandshake
  <2>5. Renegotiates(q)'
    BY <2>1, <2>2, <2>3, <2>4 DEF Renegotiates
  <2> QED BY <2>1, <2>2, <2>3, <2>4, <2>5
<1> QED BY <1>1, <1>2 DEF HandshakeStep, HandshakeInv

\* What the goroutines share.
SharedTypes ==
  /\ mode \in Modes
  /\ status \in {0, 1} /\ hsErr \in BOOLEAN /\ handshakes \in Nat
  /\ hsLock \in Proc \cup {NoProc}
  /\ inLock \in Proc \cup {NoProc}
  /\ outLock \in Proc \cup {NoProc}
  /\ inErr \in BOOLEAN /\ outErr \in BOOLEAN
  /\ key \in Nat /\ seq \in Nat
  /\ closeNotifySent \in BOOLEAN
  /\ retryCount \in Nat
  /\ hand \in Seq(Messages)
  /\ input \in 0 .. 2
  /\ tcp \in {"open", "closed"}
  /\ arrived \in Nat /\ useless \in Nat

Wires ==
  [state : {"whole", "garbled"}, phase : {"clear", "handshake", "open"},
   ended : BOOLEAN, sent : Nat, key : Nat, seq : Nat]

LEMMA WireType ==
  ASSUME NEW w \in Wires, NEW r, r.kind \in Records, r.key \in Nat
  PROVE  PeerReads(w, r) \in Wires /\ PeerCutOff(w) \in Wires
<1>1. PeerCutOff(w) \in Wires
  BY DEF PeerCutOff, Wires
<1>2. PeerDecrypts(w, r) \in Wires
  <2> DEFINE ph == CASE r.kind = "hello" -> "handshake"
                     [] r.kind = "finished" -> "open"
                     [] OTHER -> w.phase
             e == r.kind \in Alerts \cup {"notify"}
             s == IF r.kind = "data" THEN w.sent + 1 ELSE w.sent
             k == IF SwitchesKey(r.kind) THEN w.key + 1 ELSE w.key
             n == IF SwitchesKey(r.kind) THEN 0 ELSE After(r.key, w.seq)
  <2>1. PeerDecrypts(w, r) =
          [w EXCEPT !.phase = ph, !.ended = e, !.sent = s, !.key = k, !.seq = n]
    BY DEF PeerDecrypts
  <2>2. ph \in {"clear", "handshake", "open"} /\ s \in Nat /\ k \in Nat /\ n \in Nat
    BY DEF Wires, After
  <2>3. e \in BOOLEAN
    OBVIOUS
  <2> HIDE DEF ph, e, s, k, n
  <2> QED BY <2>1, <2>2, <2>3 DEF Wires
<1>3. [w EXCEPT !.state = "garbled", !.ended = TRUE] \in Wires
  BY DEF Wires
<1>4. [w EXCEPT !.sent = @ + 1] \in Wires
  BY DEF Wires
<1>5. w.ended \in BOOLEAN
  BY DEF Wires
<1> QED BY <1>1, <1>2, <1>3, <1>4, <1>5 DEF PeerReads

BufferTypes ==
  /\ buffering \in BOOLEAN /\ overlap \in BOOLEAN
  /\ sendBuf \in Seq(Sealed) /\ flight \in Seq(Sealed) /\ base \in Seq(Sealed)

\* Every step keeps the types of what the goroutines share.
LEMMA SharedPreserved ==
  ASSUME BaseInv, NEW p \in Proc, Step(p)
  PROVE  SharedTypes' /\ wire' \in Wires
<1>a. SharedTypes /\ wire \in Wires
  BY DEF BaseInv, TypeOK, SharedTypes, Wires
<1>b. \A ok \in BOOLEAN : pc[p] = "put" =>
        (IF ok THEN PeerReads(wire, rec[p]) ELSE PeerCutOff(wire)) \in Wires
  BY <1>a, WireType DEF BaseInv, TypeOK, CallInv, RecordFits, Records, Handshakes,
       Alerts, Writing
<1> USE <1>a, <1>b DEF SharedTypes, locks, handshake, incoming, outgoing, buffer, closing,
        After, Messages, Reading, Writing, Flushing
<1>1. CASE BeginRead(p)
  BY <1>1 DEF BeginRead
<1>2. CASE BeginWrite(p)
  BY <1>2 DEF BeginWrite
<1>3. CASE BeginClose(p)
  BY <1>3 DEF BeginClose
<1>4. CASE BeginCloseWrite(p)
  BY <1>4 DEF BeginCloseWrite
<1>5. CASE HandshakeDone(p)
  BY <1>5 DEF HandshakeDone, Free
<1>6. CASE HandshakeStarts(p)
  BY <1>6 DEF HandshakeStarts, Free
<1>7. CASE HandshakeTakesIn(p)
  BY <1>7 DEF HandshakeTakesIn, Free
<1>8. CASE LockRead(p)
  BY <1>8 DEF LockRead, Free
<1>9. CASE Renegotiate(p)
  BY <1>9 DEF Renegotiate, Free
<1>10. CASE Seal(p)
  BY <1>10 DEF Seal, Encrypt, Free
<1>11. CASE SealRefused(p)
  BY <1>11 DEF SealRefused, MaySeal, Free
<1>12. CASE CloseChecks(p)
  BY <1>12 DEF CloseChecks
<1>13. CASE Shut(p)
  BY <1>13 DEF Shut
<1>14. CASE SealBare(p)
  BY <1>14 DEF SealBare, Encrypt
<1>15. CASE Take(p)
  BY <1>15 DEF Take
<1>16. CASE NoMessage(p)
  BY <1>16 DEF NoMessage, HasMessage
<1>17. CASE WantMore(p)
  BY <1>17 DEF WantMore, HasMessage
<1>18. CASE Oversized(p)
  BY <1>18 DEF Oversized, HasMessage
<1>19. CASE Malformed(p)
  BY <1>19 DEF Malformed, HasMessage
<1>20. CASE Reject(p)
  BY <1>20 DEF Reject, HasMessage, Counted
<1>21. CASE Absorb(p)
  BY <1>21 DEF Absorb, HasMessage, Counted, Handled
<1>22. CASE AnswerUpdate(p)
  BY <1>22 DEF AnswerUpdate, HasMessage, Counted
<1>23. CASE AcceptRenegotiation(p)
  BY <1>23 DEF AcceptRenegotiation, HasMessage
<1>24. CASE ReceiveData(p)
  BY <1>24 DEF ReceiveData, Receives, RecordRead
<1>25. CASE ReceiveMessage(p)
  BY <1>25 DEF ReceiveMessage, Receives, RecordRead
<1>26. CASE ReceiveIgnored(p)
  BY <1>26 DEF ReceiveIgnored, Receives
<1>27. CASE ReceiveEnd(p)
  BY <1>27 DEF ReceiveEnd, Receives
<1>28. CASE ReceiveBad(p)
  BY <1>28 DEF ReceiveBad, Receives
<1>29. CASE ReadFails(p)
  BY <1>29 DEF ReadFails
<1>30. CASE HandshakeFails(p)
  BY <1>30 DEF HandshakeFails, InHandshake, GiveUp, HandshakeFailed
<1>31. CASE HandshakeAlerts(p)
  BY <1>31 DEF HandshakeAlerts, InHandshake
<1>32. CASE HandshakeSucceeds(p)
  <2>1. hsErr' \in BOOLEAN
    BY <1>32 DEF HandshakeSucceeds
  <2>2. status' \in {0, 1} /\ handshakes' \in Nat
    BY <1>32 DEF HandshakeSucceeds
  <2> QED BY <1>32, <2>1, <2>2 DEF HandshakeSucceeds
<1>33. ASSUME NEW ok \in BOOLEAN, PutData(p, ok)
       PROVE  SharedTypes' /\ wire' \in Wires
  BY <1>33 DEF PutData, PutKind, Put, Send, ToSocket, ToBuffer
<1>34. ASSUME NEW ok \in BOOLEAN, PutNotify(p, ok)
       PROVE  SharedTypes' /\ wire' \in Wires
  BY <1>34 DEF PutNotify, PutKind, Put, Send, ToSocket, ToBuffer
<1>35. ASSUME NEW ok \in BOOLEAN, PutAlert(p, ok)
       PROVE  SharedTypes' /\ wire' \in Wires
  BY <1>35 DEF PutAlert, PutKind, Put, Send, ToSocket, ToBuffer
<1>36. ASSUME NEW ok \in BOOLEAN, PutHandshakeAlert(p, ok)
       PROVE  SharedTypes' /\ wire' \in Wires
  BY <1>36 DEF PutHandshakeAlert, GiveUp, HandshakeFailed, Send, ToSocket, ToBuffer
<1>37. ASSUME NEW ok \in BOOLEAN, PutUpdate(p, ok)
       PROVE  SharedTypes' /\ wire' \in Wires
  <2>1. outErr' \in BOOLEAN
    BY <1>37 DEF PutUpdate
  <2>2. key' \in Nat /\ seq' \in Nat
    BY <1>37 DEF PutUpdate, NextKey
  <2>3. wire' \in Wires
    BY <1>37 DEF PutUpdate, PutKind, Put, Send, ToSocket, ToBuffer
  <2> QED BY <1>37, <2>1, <2>2, <2>3 DEF PutUpdate, PutKind, Put, Send, ToSocket, ToBuffer
<1>38. ASSUME NEW ok \in BOOLEAN, PutHandshake(p, ok)
       PROVE  SharedTypes' /\ wire' \in Wires
  <2>1. hsErr' \in BOOLEAN /\ UNCHANGED <<mode, status, handshakes>>
    BY <1>38 DEF PutHandshake, GiveUp, HandshakeFailed
  <2>2. key' \in Nat /\ seq' \in Nat
    BY <1>38 DEF PutHandshake, NextKey
  <2>3. wire' \in Wires
    BY <1>38 DEF PutHandshake, Send, ToSocket, ToBuffer
  <2> QED BY <1>38, <2>1, <2>2, <2>3 DEF PutHandshake, GiveUp, HandshakeFailed
<1>39. CASE HandshakeBuffers(p)
  BY <1>39 DEF HandshakeBuffers
<1>40. CASE LoadBuffer(p)
  BY <1>40 DEF LoadBuffer
<1>41. CASE FlushNothing(p)
  BY <1>41 DEF FlushNothing, Flushed, HandshakeFailed
<1>42. CASE FlushStarts(p)
  BY <1>42 DEF FlushStarts
<1>43. ASSUME NEW ok \in BOOLEAN, FlushSends(p, ok)
       PROVE  SharedTypes' /\ wire' \in Wires
  <2>1. flight \in Seq(Sealed) /\ flight # << >>
    BY <1>43 DEF FlushSends, BaseInv, TypeOK
  <2>2. Head(flight) \in Sealed
    BY <2>1
  <2>3. Head(flight).kind \in Records /\ Head(flight).key \in Nat
    BY <2>2 DEF Sealed
  <2>4. PeerReads(wire, Head(flight)) \in Wires /\ PeerCutOff(wire) \in Wires
    BY <1>a, <2>3, WireType
  <2> QED BY <1>43, <2>4 DEF FlushSends
<1>44. CASE FlushClears(p)
  BY <1>44 DEF FlushClears
<1>45. CASE FlushEnds(p)
  BY <1>45 DEF FlushEnds, Flushed, HandshakeFailed
<1> QED
  BY <1>1, <1>2, <1>3, <1>4, <1>5, <1>6, <1>7, <1>8, <1>9, <1>10, <1>11, <1>12,
       <1>13, <1>14, <1>15, <1>16, <1>17, <1>18, <1>19, <1>20, <1>21, <1>22,
       <1>23, <1>24, <1>25, <1>26, <1>27, <1>28, <1>29, <1>30, <1>31, <1>32,
       <1>33, <1>34, <1>35, <1>36, <1>37, <1>38, <1>39, <1>40, <1>41,
       <1>42, <1>43, <1>44, <1>45
  DEF Step, Calls, LockSteps, LocalSteps, NetworkSteps, Receive, PutAny

\* Who changes the buffer, and how.
BufferStep(p) ==
  \/ UNCHANGED <<buffering, sendBuf, flight, base, overlap>>
  \/ HandshakeBuffers(p) \/ LoadBuffer(p)
  \/ FlushStarts(p) \/ FlushClears(p) \/ FlushEnds(p)
  \/ \E ok \in BOOLEAN : FlushSends(p, ok)
  \/ /\ PutAny(p, TRUE) /\ pc[p] = "append"
     /\ sendBuf' = Append(base, rec[p])
     /\ UNCHANGED <<buffering, flight, base, overlap>>

LEMMA BufferSteps ==
  ASSUME NEW p \in Proc, Step(p)
  PROVE  BufferStep(p)
<1> USE DEF BufferStep, outgoing, buffer
<1>1. CASE BeginRead(p)
  BY <1>1 DEF BeginRead
<1>2. CASE BeginWrite(p)
  BY <1>2 DEF BeginWrite
<1>3. CASE BeginClose(p)
  BY <1>3 DEF BeginClose
<1>4. CASE BeginCloseWrite(p)
  BY <1>4 DEF BeginCloseWrite
<1>5. CASE HandshakeDone(p)
  BY <1>5 DEF HandshakeDone
<1>6. CASE HandshakeStarts(p)
  BY <1>6 DEF HandshakeStarts
<1>7. CASE HandshakeTakesIn(p)
  BY <1>7 DEF HandshakeTakesIn
<1>8. CASE LockRead(p)
  BY <1>8 DEF LockRead
<1>9. CASE Renegotiate(p)
  BY <1>9 DEF Renegotiate
<1>10. CASE Seal(p)
  BY <1>10 DEF Seal
<1>11. CASE SealRefused(p)
  BY <1>11 DEF SealRefused
<1>12. CASE CloseChecks(p)
  BY <1>12 DEF CloseChecks
<1>13. CASE Shut(p)
  BY <1>13 DEF Shut
<1>14. CASE SealBare(p)
  BY <1>14 DEF SealBare
<1>15. CASE Take(p)
  BY <1>15 DEF Take
<1>16. CASE NoMessage(p)
  BY <1>16 DEF NoMessage
<1>17. CASE WantMore(p)
  BY <1>17 DEF WantMore
<1>18. CASE Oversized(p)
  BY <1>18 DEF Oversized
<1>19. CASE Malformed(p)
  BY <1>19 DEF Malformed
<1>20. CASE Reject(p)
  BY <1>20 DEF Reject
<1>21. CASE Absorb(p)
  BY <1>21 DEF Absorb
<1>22. CASE AnswerUpdate(p)
  BY <1>22 DEF AnswerUpdate
<1>23. CASE AcceptRenegotiation(p)
  BY <1>23 DEF AcceptRenegotiation
<1>24. CASE ReceiveData(p)
  BY <1>24 DEF ReceiveData, Receives
<1>25. CASE ReceiveMessage(p)
  BY <1>25 DEF ReceiveMessage, Receives
<1>26. CASE ReceiveIgnored(p)
  BY <1>26 DEF ReceiveIgnored, Receives
<1>27. CASE ReceiveEnd(p)
  BY <1>27 DEF ReceiveEnd, Receives
<1>28. CASE ReceiveBad(p)
  BY <1>28 DEF ReceiveBad, Receives
<1>29. CASE ReadFails(p)
  BY <1>29 DEF ReadFails
<1>30. CASE HandshakeFails(p)
  BY <1>30 DEF HandshakeFails
<1>31. CASE HandshakeAlerts(p)
  BY <1>31 DEF HandshakeAlerts
<1>32. CASE HandshakeSucceeds(p)
  BY <1>32 DEF HandshakeSucceeds
<1>33. CASE FlushNothing(p)
  BY <1>33 DEF FlushNothing
<1>34. ASSUME NEW ok \in BOOLEAN, PutAny(p, ok)
       PROVE  BufferStep(p)
  <2>1. Send(p, ok)
    BY <1>34 DEF PutAny, PutData, PutNotify, PutAlert, PutHandshakeAlert, PutUpdate,
         PutHandshake, PutKind, Put
  <2> HIDE DEF BufferStep
  <2>2. CASE ToSocket(p, ok)
    BY <2>1, <2>2 DEF Send, ToSocket, BufferStep
  <2>3. CASE ok /\ ToBuffer(p)
    <3>1. PutAny(p, TRUE)
      BY <1>34, <2>3
    <3> QED BY <2>1, <2>3, <3>1 DEF Send, ToBuffer, BufferStep
  <2> QED BY <2>1, <2>2, <2>3 DEF Send
<1> QED
  BY <1>1, <1>2, <1>3, <1>4, <1>5, <1>6, <1>7, <1>8, <1>9, <1>10, <1>11, <1>12, <1>13, <1>14, <1>15, <1>16, <1>17, <1>18, <1>19, <1>20, <1>21, <1>22, <1>23, <1>24, <1>25, <1>26, <1>27, <1>28, <1>29, <1>30, <1>31, <1>32, <1>33, <1>34
  DEF Step, Calls, LockSteps, LocalSteps, NetworkSteps, Receive

\* The buffer holds records.
LEMMA BuffersTyped ==
  ASSUME BaseInv, NEW p \in Proc, Step(p)
  PROVE  BufferTypes'
<1>1. BufferStep(p) /\ BufferTypes
  BY BufferSteps DEF BaseInv, TypeOK, BufferTypes
<1>2. ASSUME pc[p] = "append", sendBuf' = Append(base, rec[p]),
             UNCHANGED <<buffering, flight, base, overlap>>
      PROVE  BufferTypes'
  <2>1. rec[p].kind \in Records
    BY <1>2 DEF BaseInv, CallInv, RecordFits, Records, Handshakes, Alerts, Writing
  <2>2. rec[p] \in Sealed
    BY <2>1 DEF BaseInv, TypeOK, Sealed
  <2> QED BY <1>1, <1>2, <2>2 DEF BufferTypes
<1>3. ASSUME NEW ok \in BOOLEAN, FlushSends(p, ok)
      PROVE  BufferTypes'
  <2>1. flight # << >> /\ flight' \in {Tail(flight), << >>}
    BY <1>3 DEF FlushSends
  <2>2. Tail(flight) \in Seq(Sealed) /\ << >> \in Seq(Sealed)
    <3>1. flight \in Seq(Sealed)
      BY <1>1 DEF BufferTypes
    <3> QED BY <2>1, <3>1
  <2> QED BY <1>1, <1>3, <2>2 DEF FlushSends, BufferTypes
<1>4. CASE UNCHANGED <<buffering, sendBuf, flight, base, overlap>>
  BY <1>1, <1>4 DEF BufferTypes
<1>5. CASE HandshakeBuffers(p)
  BY <1>1, <1>5 DEF BufferTypes, HandshakeBuffers
<1>6. CASE LoadBuffer(p)
  BY <1>1, <1>6 DEF BufferTypes, LoadBuffer
<1>7. CASE FlushStarts(p)
  BY <1>1, <1>7 DEF BufferTypes, FlushStarts
<1>8. CASE FlushClears(p)
  BY <1>1, <1>8 DEF BufferTypes, FlushClears
<1>9. CASE FlushEnds(p)
  BY <1>1, <1>9 DEF BufferTypes, FlushEnds
<1> QED BY <1>1, <1>2, <1>3, <1>4, <1>5, <1>6, <1>7, <1>8, <1>9 DEF BufferStep

\* What a step does to activeCall, and who closes the socket.
ActiveStep(p) ==
  /\ \/ activeCall' = activeCall /\ (call'[p] = "write" <=> call[p] = "write")
     \/ activeCall' = activeCall + 2 /\ call'[p] = "write" /\ call[p] # "write"
     \/ activeCall' = activeCall - 2 /\ call'[p] # "write" /\ call[p] = "write"
     \/ /\ activeCall' = activeCall + 1 /\ ~Closed
        /\ call'[p] # "write" /\ call[p] # "write"
  /\ call'[p] = "close" => call[p] = "close" \/ (activeCall' = activeCall + 1 /\ ~Closed)
  /\ tcp' = "closed" => tcp = "closed" \/ call[p] = "close"
  /\ call[p] = "close" => activeCall' = activeCall

\* Write counts itself, Close leaves its mark.
LEMMA ActiveSteps ==
  ASSUME BaseInv, NEW p \in Proc, Step(p)
  PROVE  ActiveStep(p)
<1>a. /\ Return(p) => /\ call'[p] = "none"
                      /\ activeCall' = IF call[p] = "write" THEN activeCall - 2
                           ELSE activeCall
      /\ AfterHandshake(p) /\ call[p] \in {"read", "write", "handshake"} =>
           \/ UNCHANGED <<call, activeCall>>
           \/ call[p] = "handshake" /\ call'[p] = "none" /\ UNCHANGED activeCall
      /\ \A op : Begin(p, op) => pc[p] = "idle" /\ call'[p] = op
  <2>1. Movements(p)
    BY Moving DEF BaseInv, TypeOK, LocalTypes
  <2> QED BY <2>1 DEF Movements
<1>b. /\ CallFits(p) /\ RecordFits(p)
      /\ activeCall \in Nat
  BY DEF BaseInv, CallInv, TypeOK
<1>c. HoldsHandshake(p) /\ handshakes > 0 => call[p] = "read"
  BY DEF BaseInv, HandshakeInv
<1>d. UNCHANGED <<call, activeCall, tcp>> => ActiveStep(p)
  BY DEF ActiveStep
<1> USE <1>a, <1>b, <1>c DEF ActiveStep, CallFits, RecordFits, Handshakes, Records,
        Alerts, Reading, Writing, Flushing, Places, closing, callers
<1>1. CASE BeginRead(p)
  BY <1>1 DEF BeginRead
<1>2. CASE BeginWrite(p)
  BY <1>2 DEF BeginWrite
<1>3. CASE BeginClose(p)
  BY <1>3 DEF BeginClose
<1>4. CASE BeginCloseWrite(p)
  BY <1>4 DEF BeginCloseWrite
<1>5. CASE HandshakeDone(p)
  BY <1>5 DEF HandshakeDone, Free
<1>6. CASE HandshakeStarts(p)
  BY <1>6 DEF HandshakeStarts, Free
<1>7. CASE HandshakeTakesIn(p)
  BY <1>7 DEF HandshakeTakesIn, Free
<1>8. CASE LockRead(p)
  BY <1>8 DEF LockRead, Free
<1>9. CASE Renegotiate(p)
  BY <1>9 DEF Renegotiate, Free
<1>10. CASE Seal(p)
  <2>1. UNCHANGED <<call, activeCall, tcp>>
    BY <1>10 DEF Seal
  <2> QED BY <1>d, <2>1
<1>11. CASE SealRefused(p)
  <2>1. CASE call[p] = "close"
    <3>1. UNCHANGED <<call, activeCall, tcp>>
      BY <1>11, <2>1 DEF SealRefused
    <3> QED BY <1>d, <3>1
  <2>2. CASE call[p] # "close"
    BY <1>11, <2>2 DEF SealRefused
  <2> QED BY <2>1, <2>2
<1>12. CASE CloseChecks(p)
  <2>1. UNCHANGED <<call, activeCall, tcp>>
    BY <1>12 DEF CloseChecks
  <2> QED BY <1>d, <2>1
<1>13. CASE Shut(p)
  BY <1>13 DEF Shut
<1>14. CASE SealBare(p)
  <2>1. UNCHANGED <<call, activeCall, tcp>>
    BY <1>14 DEF SealBare
  <2> QED BY <1>d, <2>1
<1>15. CASE Take(p)
  BY <1>15 DEF Take
<1>16. CASE NoMessage(p)
  BY <1>16 DEF NoMessage, HasMessage
<1>17. CASE WantMore(p)
  BY <1>17 DEF WantMore, HasMessage
<1>18. CASE Oversized(p)
  BY <1>18 DEF Oversized, HasMessage
<1>19. CASE Malformed(p)
  BY <1>19 DEF Malformed, HasMessage
<1>20. CASE Reject(p)
  BY <1>20 DEF Reject, HasMessage, Counted
<1>21. CASE Absorb(p)
  BY <1>21 DEF Absorb, HasMessage, Counted, Handled
<1>22. CASE AnswerUpdate(p)
  BY <1>22 DEF AnswerUpdate, HasMessage, Counted
<1>23. CASE AcceptRenegotiation(p)
  BY <1>23 DEF AcceptRenegotiation, HasMessage
<1>24. CASE ReceiveData(p)
  BY <1>24 DEF ReceiveData, Receives, RecordRead
<1>25. CASE ReceiveMessage(p)
  BY <1>25 DEF ReceiveMessage, Receives, RecordRead
<1>26. CASE ReceiveIgnored(p)
  BY <1>26 DEF ReceiveIgnored, Receives
<1>27. CASE ReceiveEnd(p)
  BY <1>27 DEF ReceiveEnd, Receives
<1>28. CASE ReceiveBad(p)
  BY <1>28 DEF ReceiveBad, Receives
<1>29. CASE ReadFails(p)
  BY <1>29 DEF ReadFails
<1>30. CASE HandshakeFails(p)
  BY <1>30 DEF HandshakeFails, InHandshake, GiveUp, HandshakeFailed
<1>31. CASE HandshakeAlerts(p)
  BY <1>31 DEF HandshakeAlerts, InHandshake
<1>32. CASE HandshakeSucceeds(p)
  BY <1>32 DEF HandshakeSucceeds
<1>33. ASSUME NEW ok \in BOOLEAN, PutData(p, ok)
       PROVE  ActiveStep(p)
  BY <1>33 DEF PutData, PutKind, Put, Send, ToSocket, ToBuffer
<1>34. ASSUME NEW ok \in BOOLEAN, PutNotify(p, ok)
       PROVE  ActiveStep(p)
  <2>1. CASE call[p] = "close"
    <3>1. UNCHANGED <<call, activeCall, tcp>>
      BY <1>34, <2>1 DEF PutNotify, PutKind, Put, Send, ToSocket, ToBuffer
    <3> QED BY <1>d, <3>1
  <2>2. CASE call[p] # "close"
    BY <1>34, <2>2 DEF PutNotify, PutKind, Put, Send, ToSocket, ToBuffer
  <2> QED BY <2>1, <2>2
<1>35. ASSUME NEW ok \in BOOLEAN, PutAlert(p, ok)
       PROVE  ActiveStep(p)
  BY <1>35 DEF PutAlert, PutKind, Put, Send, ToSocket, ToBuffer
<1>36. ASSUME NEW ok \in BOOLEAN, PutHandshakeAlert(p, ok)
       PROVE  ActiveStep(p)
  BY <1>36 DEF PutHandshakeAlert, GiveUp, HandshakeFailed, Send, ToSocket, ToBuffer
<1>37. ASSUME NEW ok \in BOOLEAN, PutUpdate(p, ok)
       PROVE  ActiveStep(p)
  BY <1>37 DEF PutUpdate, PutKind, Put, Send, ToSocket, ToBuffer, NextKey
<1>38. ASSUME NEW ok \in BOOLEAN, PutHandshake(p, ok)
       PROVE  ActiveStep(p)
  BY <1>38 DEF PutHandshake, Send, ToSocket, ToBuffer, NextKey, GiveUp, HandshakeFailed
<1>39. CASE HandshakeBuffers(p)
  BY <1>39 DEF HandshakeBuffers
<1>40. CASE LoadBuffer(p)
  BY <1>40 DEF LoadBuffer
<1>41. CASE FlushNothing(p)
  BY <1>41 DEF FlushNothing, Flushed, HandshakeFailed
<1>42. CASE FlushStarts(p)
  BY <1>42 DEF FlushStarts
<1>43. ASSUME NEW ok \in BOOLEAN, FlushSends(p, ok)
       PROVE  ActiveStep(p)
  BY <1>43 DEF FlushSends
<1>44. CASE FlushClears(p)
  BY <1>44 DEF FlushClears
<1>45. CASE FlushEnds(p)
  BY <1>45 DEF FlushEnds, Flushed, HandshakeFailed
<1> QED
  BY <1>1, <1>2, <1>3, <1>4, <1>5, <1>6, <1>7, <1>8, <1>9, <1>10, <1>11, <1>12,
       <1>13, <1>14, <1>15, <1>16, <1>17, <1>18, <1>19, <1>20, <1>21, <1>22,
       <1>23, <1>24, <1>25, <1>26, <1>27, <1>28, <1>29, <1>30, <1>31, <1>32,
       <1>33, <1>34, <1>35, <1>36, <1>37, <1>38, <1>39, <1>40, <1>41,
       <1>42, <1>43, <1>44, <1>45
  DEF Step, Calls, LockSteps, LocalSteps, NetworkSteps, Receive, PutAny

\* Arithmetic of activeCall: the count and the mark do not disturb each other.
LEMMA CountAndMark ==
  ASSUME NEW a \in Nat
  PROVE  /\ (a + 2) \div 2 = (a \div 2) + 1 /\ (a + 2) % 2 = a % 2
         /\ a >= 2 => (a - 2) \div 2 = (a \div 2) - 1 /\ (a - 2) % 2 = a % 2
         /\ a % 2 # 1 => (a + 1) \div 2 = a \div 2 /\ (a + 1) % 2 = 1
         /\ a \div 2 \in Nat
         /\ a \div 2 >= 1 => a >= 2
  OBVIOUS

LEMMA ActivePreserved ==
  ASSUME BaseInv, ActiveCallCounts, NEW p \in Proc, Step(p)
  PROVE  ActiveCallCounts' /\ activeCall' \in Nat
<1> DEFINE W == {q \in Proc : call[q] = "write"}
<1>1. ActiveStep(p) /\ Others(p) /\ activeCall \in Nat
  BY ActiveSteps, OthersStay DEF BaseInv, TypeOK
<1>2. IsFiniteSet(W) /\ Cardinality(W) \in Nat /\ Writers = Cardinality(W)
  <2>1. IsFiniteSet(W)
    BY FS_Subset, ConstantsAssumption
  <2> QED BY <2>1, FS_CardinalityType DEF ActiveCallCounts
<1>3. /\ Writers' = Cardinality(W') /\ activeCall' \in Nat
      /\ (Closed => Closed')
      /\ activeCall' = activeCall + 1 /\ ~Closed => Closed'
  <2>1. CASE activeCall' = activeCall /\ (call'[p] = "write" <=> call[p] = "write")
    <3>1. W' = W
      BY <1>1, <2>1 DEF Others
    <3> HIDE DEF W
    <3>2. Writers' = Writers /\ (Closed' <=> Closed)
      BY <2>1 DEF Writers, Closed
    <3> QED BY <1>1, <1>2, <2>1, <3>1, <3>2
  <2>2. CASE activeCall' = activeCall + 2 /\ call'[p] = "write" /\ call[p] # "write"
    <3>1. W' = W \cup {p} /\ p \notin W
      BY <1>1, <2>2 DEF Others
    <3>2. Cardinality(W') = Cardinality(W) + 1
      BY <1>2, <3>1, FS_AddElement
    <3> HIDE DEF W
    <3> QED BY <1>1, <1>2, <2>2, <3>2, CountAndMark DEF Writers, Closed
  <2>3. CASE activeCall' = activeCall - 2 /\ call'[p] # "write" /\ call[p] = "write"
    <3>1. W' = W \ {p} /\ p \in W
      BY <1>1, <2>3 DEF Others
    <3>2. Cardinality(W') = Cardinality(W) - 1
      BY <1>2, <3>1, FS_RemoveElement
    <3>3. Cardinality(W) # 0
      BY <1>2, <3>1, FS_EmptySet
    <3> HIDE DEF W
    <3>4. activeCall >= 2
      BY <1>1, <1>2, <3>3, CountAndMark DEF Writers
    <3> QED BY <1>1, <1>2, <2>3, <3>2, <3>4, CountAndMark DEF Writers, Closed
  <2>4. CASE /\ activeCall' = activeCall + 1 /\ ~Closed
             /\ call'[p] # "write" /\ call[p] # "write"
    <3>1. W' = W
      BY <1>1, <2>4 DEF Others
    <3> HIDE DEF W
    <3> QED BY <1>1, <1>2, <2>4, <3>1, CountAndMark DEF Writers, Closed
  <2> QED BY <1>1, <2>1, <2>2, <2>3, <2>4 DEF ActiveStep
<1>4. (\E q \in Proc : call'[q] = "close") \/ tcp' = "closed" => Closed'
  BY <1>1, <1>3 DEF ActiveStep, Others, ActiveCallCounts
<1> QED BY <1>3, <1>4 DEF ActiveCallCounts

\* The inductive invariant.
IInv == BaseInv /\ ActiveCallCounts

LEMMA InitIInv == Init => IInv
<1> SUFFICES ASSUME Init PROVE IInv
  OBVIOUS
<1>1. TypeOK
  <2>1. wire \in Wires
    BY DEF Init, Wires
  <2>2. LocalTypes
    BY DEF Init, LocalTypes, NoRecord, Places
  <2>3. SharedTypes
    <3>1. hsErr \in BOOLEAN /\ inErr \in BOOLEAN /\ outErr \in BOOLEAN /\ closeNotifySent \in BOOLEAN
      BY DEF Init
    <3>2. hand \in Seq(Messages)
      BY DEF Init
    <3> QED BY <3>1, <3>2 DEF Init, SharedTypes
  <2>4. BufferTypes
    <3>1. << >> \in Seq(Sealed)
      OBVIOUS
    <3> QED BY <3>1 DEF Init, BufferTypes
  <2> QED BY <2>1, <2>2, <2>3, <2>4 DEF Init, TypeOK, LocalTypes, SharedTypes, BufferTypes, Wires
<1>2. CallInv
  BY DEF Init, CallInv, CallFits, RecordFits, Reading, Writing, Flushing
<1>3. LockDiscipline
  BY ConstantsAssumption DEF Init, LockDiscipline, HoldsIn, HoldsOut, HoldsHandshake, Reading, Writing, Flushing
<1>4. HandshakeInv
  BY DEF Init, HandshakeInv, PastHandshake, HoldsHandshake, Renegotiates, Reading, Writing, Flushing
<1>5. ActiveCallCounts
  <2>1. {p \in Proc : call[p] = "write"} = {}
    BY DEF Init
  <2>2. Writers = 0
    BY DEF Init, Writers
  <2>3. ~(\E p \in Proc : call[p] = "close") /\ tcp # "closed"
    BY DEF Init
  <2> QED BY <2>1, <2>2, <2>3, FS_EmptySet DEF ActiveCallCounts
<1> QED BY <1>1, <1>2, <1>3, <1>4, <1>5 DEF IInv, BaseInv

LEMMA StepIInv ==
  ASSUME IInv, NEW p \in Proc, Step(p)
  PROVE  IInv'
<1>1. ActiveCallCounts' /\ activeCall' \in Nat
  BY ActivePreserved DEF IInv
<1>2. CallInv' /\ LockDiscipline' /\ HandshakeInv' /\ LocalTypes' /\ SharedTypes'
      /\ wire' \in Wires /\ BufferTypes'
  BY CallPreserved, LocksPreserved, HandshakePreserved, OthersStay, SharedPreserved, BuffersTyped
  DEF IInv
<1>3. TypeOK'
  BY <1>1, <1>2 DEF TypeOK, LocalTypes, SharedTypes, BufferTypes, Wires
<1> QED BY <1>1, <1>2, <1>3 DEF IInv, BaseInv

\* Every step of the specification is one of a goroutine or leaves everything.
LEMMA StepOrStutter ==
  ASSUME [Next]_vars
  PROVE  (\E p \in Proc : Step(p)) \/ UNCHANGED vars
  BY DEF Next, Step, Quiescent

-----------------------------------------------------------------------------
(* The outgoing records, when no alert is written without out.             *)

NoBareAlert ==
  /\ hand \in Seq(Messages \ {"huge"})
  /\ \A p \in Proc : pc[p] \in Writing => rec[p].kind # "bare"

\* What the next record has to fit, as far as the peer has read.
Phases  == {"clear", "handshake", "open"}
Views   == [phase : Phases, key : Nat, seq : Nat]
View(w) == [phase |-> w.phase, key |-> w.key, seq |-> w.seq]

Passed(v, r) ==
  [phase |-> CASE r.kind = "hello" -> "handshake"
               [] r.kind = "finished" -> "open"
               [] OTHER -> v.phase,
   key   |-> IF SwitchesKey(r.kind) THEN v.key + 1 ELSE v.key,
   seq   |-> IF SwitchesKey(r.kind) THEN 0 ELSE After(v.key, v.seq)]

Allowed(v, r) ==
  Fits(v, r) /\ (r.kind = "finished" => v.phase = "handshake")

\* The records of s fit one after the other, and lead from one view to another.
Leads(s, v, u) ==
  \E f \in [0 .. Len(s) -> Views] :
    /\ f[0] = v /\ f[Len(s)] = u
    /\ \A i \in 0 .. Len(s) : f[i].key <= u.key
    /\ \A i \in 1 .. Len(s) : Allowed(f[i - 1], s[i]) /\ f[i] = Passed(f[i - 1], s[i])

\* The records that have been written and not been sent, and the number of the
\* record on its way there, or of the next one.
Sending  == \E p \in Proc : pc[p] = "send"
Pending  == IF Sending THEN flight ELSE sendBuf
Position == IF Free(outLock) THEN seq ELSE rec[outLock].seq

WritesFinished(p) == pc[p] \in Writing /\ rec[p].kind = "finished"

\* The second half of a handshake, and the part of it before its last record.
InFlight(p)     == pc[p] \in Flushing \cup {"settle"} \/ WritesFinished(p)
AwaitsFinish(p) == WritesFinished(p) \/ (pc[p] \in Flushing /\ rec[p].kind = "hello")

\* No data is buffered, and an alert that is has left its mark.
Marked(s) ==
  \A i \in DOMAIN s :
    /\ s[i].kind # "data"
    /\ s[i].kind \in Alerts => outErr
    /\ s[i].kind = "notify" => closeNotifySent

\* A record on its way has out's key and its last number.
Stamped(p) ==
  pc[p] \in {"put", "append"} => rec[p].key = key /\ seq = After(key, rec[p].seq)

\* Data is on its way in an open stream only, and never to the buffer.
DataOnItsWay(p) ==
  pc[p] \in {"put", "append"} /\ rec[p].kind = "data" =>
    /\ pc[p] = "put"
    /\ ~wire.ended /\ wire.phase = "open"
    /\ ~buffering /\ ~overlap /\ ~outErr
    /\ \A q \in Proc : ~InFlight(q)

\* Flush and write only overlap in a renegotiation, with a closing alert, behind
\* which no data follows.
Overlapped ==
  /\ handshakes > 0 /\ mode.client /\ ~mode.v13 /\ mode.reneg # "never"
  /\ closeNotifySent \/ \E p \in Proc : pc[p] = "append" /\ rec[p].kind = "notify"

\* What holds at any time.
Steady ==
  /\ handshakes > 0 => wire.phase # "clear"
  /\ Marked(sendBuf) /\ Marked(flight) /\ Marked(base)
  /\ overlap => Overlapped
  /\ \A p \in Proc : Stamped(p) /\ DataOnItsWay(p)

\* The records s fit what the peer has read and lead to key k and number n.
Chain(w, s, k, n, awaited) ==
  \E ph \in Phases :
    /\ Leads(s, View(w), [phase |-> ph, key |-> k, seq |-> n])
    /\ awaited => ph = "handshake"

Awaited == \E p \in Proc : AwaitsFinish(p)
Chained == ~wire.ended => Chain(wire, Pending, key, Position, Awaited)

\* A handshake whose keys the peer has is in a stream that goes on, unless
\* something else than the handshake's own records ended it.
SettlesOpen(p) ==
  /\ pc[p] = "settle" \/ (pc[p] \in Flushing /\ rec[p].kind = "finished")
  /\ wire.key = key /\ ~outErr /\ ~closeNotifySent
  => ~wire.ended

\* Where flush and write find the buffer.
BufferFits(p) ==
  /\ pc[p] \in {"send", "unbuffer"} => buffering
  /\ pc[p] = "unbuffer" => sendBuf = << >>
  /\ pc[p] = "flush" /\ rec[p].kind \in Handshakes => buffering /\ sendBuf # << >>
  /\ pc[p] = "settle" => ~buffering
  /\ pc[p] \in {"put", "append"} /\ MustBuffer(rec[p].kind) => buffering
  /\ pc[p] = "append" =>
       /\ buffering /\ base = sendBuf
       /\ \A q \in Proc : pc[q] \notin {"send", "unbuffer"}

InStep ==
  /\ wire.state = "whole"
  /\ wire.key <= key
  /\ MaySendData => ~wire.ended /\ wire.phase = "open"

\* What holds until flush and the write of another goroutine overlap.
Orderly ==
  /\ InStep
  /\ Chained
  /\ status = 1 => ~buffering
  /\ ~buffering => sendBuf = << >>
  /\ \A p \in Proc : SettlesOpen(p) /\ BufferFits(p)

StreamInv == NoBareAlert /\ Steady /\ (~overlap => Orderly)

\* Only an oversized message brings an alert without out.
LEMMA NoBarePreserved ==
  ASSUME BaseInv, NoBareAlert, "huge" \notin Arrivals, NEW p \in Proc, Step(p)
  PROVE  NoBareAlert'
<1>a. Movements(p) /\ Others(p)
  BY Moving, OthersStay DEF BaseInv, TypeOK, LocalTypes
<1>b. hand \in Seq(Messages \ {"huge"})
  BY DEF NoBareAlert
<1>c. pc[p] \in Writing => rec[p].kind # "bare"
  BY DEF NoBareAlert
<1>d. call[p] \in {"read", "write", "handshake"} \/ pc[p] \notin {"hsLock",
     "settle"}
  BY DEF BaseInv, CallInv, CallFits
<1> SUFFICES /\ hand' \in Seq(Messages \ {"huge"})
             /\ pc'[p] \in Writing => rec'[p].kind # "bare"
  BY <1>a DEF NoBareAlert, Others
<1> USE <1>a, <1>b, <1>c, <1>d DEF Movements, Messages, Handshakes, Records,
     Alerts, Reading, Writing, Flushing, Places,
        incoming
<1>1. CASE BeginRead(p)
  BY <1>1 DEF BeginRead
<1>2. CASE BeginWrite(p)
  BY <1>2 DEF BeginWrite
<1>3. CASE BeginClose(p)
  BY <1>3 DEF BeginClose
<1>4. CASE BeginCloseWrite(p)
  BY <1>4 DEF BeginCloseWrite
<1>5. CASE HandshakeDone(p)
  BY <1>5 DEF HandshakeDone, Free
<1>6. CASE HandshakeStarts(p)
  BY <1>6 DEF HandshakeStarts, Free
<1>7. CASE HandshakeTakesIn(p)
  BY <1>7 DEF HandshakeTakesIn, Free
<1>8. CASE LockRead(p)
  BY <1>8 DEF LockRead, Free
<1>9. CASE Renegotiate(p)
  BY <1>9 DEF Renegotiate, Free
<1>10. CASE Seal(p)
  <2>1. rec'[p].kind = rec[p].kind
    <3>1. rec' = [rec EXCEPT ![p] = [rec[p] EXCEPT !.key = key, !.seq = seq]]
      BY <1>10 DEF Seal, Encrypt
    <3> QED BY <3>1 DEF BaseInv, TypeOK
  <2> QED BY <1>10, <2>1 DEF Seal
<1>11. CASE SealRefused(p)
  BY <1>11 DEF SealRefused, MaySeal, Free
<1>12. CASE CloseChecks(p)
  BY <1>12 DEF CloseChecks
<1>13. CASE Shut(p)
  BY <1>13 DEF Shut
<1>14. CASE SealBare(p)
  <2>1. rec'[p].kind = rec[p].kind
    <3>1. rec' = [rec EXCEPT ![p] = [rec[p] EXCEPT !.key = key, !.seq = seq]]
      BY <1>14 DEF SealBare, Encrypt
    <3> QED BY <3>1 DEF BaseInv, TypeOK
  <2> QED BY <1>14, <2>1 DEF SealBare
<1>15. CASE Take(p)
  BY <1>15 DEF Take
<1>16. CASE NoMessage(p)
  BY <1>16 DEF NoMessage, HasMessage
<1>17. CASE WantMore(p)
  BY <1>17 DEF WantMore, HasMessage
<1>18. CASE Oversized(p)
  BY <1>18 DEF Oversized, HasMessage
<1>19. CASE Malformed(p)
  BY <1>19 DEF Malformed, HasMessage
<1>20. CASE Reject(p)
  BY <1>20 DEF Reject, HasMessage, Counted
<1>21. CASE Absorb(p)
  BY <1>21 DEF Absorb, HasMessage, Counted, Handled
<1>22. CASE AnswerUpdate(p)
  BY <1>22 DEF AnswerUpdate, HasMessage, Counted
<1>23. CASE AcceptRenegotiation(p)
  BY <1>23 DEF AcceptRenegotiation, HasMessage
<1>24. CASE ReceiveData(p)
  BY <1>24 DEF ReceiveData, Receives, RecordRead
<1>25. CASE ReceiveMessage(p)
  BY <1>25 DEF ReceiveMessage, Receives, RecordRead
<1>26. CASE ReceiveIgnored(p)
  BY <1>26 DEF ReceiveIgnored, Receives
<1>27. CASE ReceiveEnd(p)
  BY <1>27 DEF ReceiveEnd, Receives
<1>28. CASE ReceiveBad(p)
  BY <1>28 DEF ReceiveBad, Receives
<1>29. CASE ReadFails(p)
  BY <1>29 DEF ReadFails
<1>30. CASE HandshakeFails(p)
  BY <1>30 DEF HandshakeFails, InHandshake, GiveUp, HandshakeFailed
<1>31. CASE HandshakeAlerts(p)
  BY <1>31 DEF HandshakeAlerts, InHandshake
<1>32. CASE HandshakeSucceeds(p)
  BY <1>32 DEF HandshakeSucceeds
<1>33. ASSUME NEW ok \in BOOLEAN, PutData(p, ok)
       PROVE  /\ hand' \in Seq(Messages \ {"huge"})
              /\ pc'[p] \in Writing => rec'[p].kind # "bare"
  BY <1>33 DEF PutData, PutKind, Put, Send, ToSocket, ToBuffer
<1>34. ASSUME NEW ok \in BOOLEAN, PutNotify(p, ok)
       PROVE  /\ hand' \in Seq(Messages \ {"huge"})
              /\ pc'[p] \in Writing => rec'[p].kind # "bare"
  BY <1>34 DEF PutNotify, PutKind, Put, Send, ToSocket, ToBuffer
<1>35. ASSUME NEW ok \in BOOLEAN, PutAlert(p, ok)
       PROVE  /\ hand' \in Seq(Messages \ {"huge"})
              /\ pc'[p] \in Writing => rec'[p].kind # "bare"
  BY <1>35 DEF PutAlert, PutKind, Put, Send, ToSocket, ToBuffer
<1>36. ASSUME NEW ok \in BOOLEAN, PutHandshakeAlert(p, ok)
       PROVE  /\ hand' \in Seq(Messages \ {"huge"})
              /\ pc'[p] \in Writing => rec'[p].kind # "bare"
  BY <1>36 DEF PutHandshakeAlert, GiveUp, HandshakeFailed, Send, ToSocket, ToBuffer
<1>37. ASSUME NEW ok \in BOOLEAN, PutUpdate(p, ok)
       PROVE  /\ hand' \in Seq(Messages \ {"huge"})
              /\ pc'[p] \in Writing => rec'[p].kind # "bare"
  BY <1>37 DEF PutUpdate, PutKind, Put, Send, ToSocket, ToBuffer, NextKey
<1>38. ASSUME NEW ok \in BOOLEAN, PutHandshake(p, ok)
       PROVE  /\ hand' \in Seq(Messages \ {"huge"})
              /\ pc'[p] \in Writing => rec'[p].kind # "bare"
  BY <1>38 DEF PutHandshake, Send, ToSocket, ToBuffer, NextKey, GiveUp, HandshakeFailed
<1>39. CASE HandshakeBuffers(p)
  BY <1>39 DEF HandshakeBuffers
<1>40. CASE LoadBuffer(p)
  BY <1>40 DEF LoadBuffer
<1>41. CASE FlushNothing(p)
  BY <1>41 DEF FlushNothing, Flushed, HandshakeFailed
<1>42. CASE FlushStarts(p)
  BY <1>42 DEF FlushStarts
<1>43. ASSUME NEW ok \in BOOLEAN, FlushSends(p, ok)
       PROVE  /\ hand' \in Seq(Messages \ {"huge"})
              /\ pc'[p] \in Writing => rec'[p].kind # "bare"
  BY <1>43 DEF FlushSends
<1>44. CASE FlushClears(p)
  BY <1>44 DEF FlushClears
<1>45. CASE FlushEnds(p)
  BY <1>45 DEF FlushEnds, Flushed, HandshakeFailed
<1>46. ASSUME NEW ok \in BOOLEAN, PutAny(p, ok)
       PROVE  /\ hand' \in Seq(Messages \ {"huge"})
              /\ pc'[p] \in Writing => rec'[p].kind # "bare"
  BY ONLY <1>33, <1>34, <1>35, <1>36, <1>37, <1>38, <1>46 DEF PutAny
<1> QED
  BY ONLY Step(p), <1>1, <1>2, <1>3, <1>4, <1>5, <1>6, <1>7, <1>8, <1>9, <1>10, <1>11, <1>12,
       <1>13, <1>14, <1>15, <1>16, <1>17, <1>18, <1>19, <1>20, <1>21, <1>22,
       <1>23, <1>24, <1>25, <1>26, <1>27, <1>28, <1>29, <1>30, <1>31, <1>32,
       <1>39, <1>40, <1>41, <1>42, <1>43, <1>44, <1>45, <1>46
  DEF Step, Calls, LockSteps, LocalSteps, NetworkSteps, Receive

\* A view stays one, and keys only go up.
LEMMA PassedOn ==
  ASSUME NEW v \in Views, NEW r
  PROVE  /\ Passed(v, r) \in Views
         /\ v.key <= Passed(v, r).key
<1>1. v.key \in Nat /\ v.seq \in Nat /\ v.phase \in Phases
  BY DEF Views
<1> DEFINE ph == CASE r.kind = "hello" -> "handshake"
                   [] r.kind = "finished" -> "open"
                   [] OTHER -> v.phase
           k  == IF SwitchesKey(r.kind) THEN v.key + 1 ELSE v.key
           n  == IF SwitchesKey(r.kind) THEN 0 ELSE After(v.key, v.seq)
<1>2. ph \in Phases
  BY <1>1 DEF Phases
<1>3. k \in Nat /\ v.key <= k /\ n \in Nat
  BY <1>1 DEF After
<1>4. Passed(v, r) = [phase |-> ph, key |-> k, seq |-> n]
  BY DEF Passed
<1> HIDE DEF ph, k, n
<1> QED BY <1>2, <1>3, <1>4 DEF Views

\* No record leads nowhere; one more record leads further; the first is the next.
LEMMA LeadsNowhere ==
  ASSUME NEW v \in Views, NEW u
  PROVE  Leads(<< >>, v, u) <=> u = v
<1>1. Len(<< >>) = 0 /\ 0 .. 0 = {0} /\ 1 .. 0 = {}
  OBVIOUS
<1>2. ASSUME Leads(<< >>, v, u) PROVE u = v
  BY <1>1, <1>2 DEF Leads
<1>3. Leads(<< >>, v, v)
  <2> DEFINE f == [i \in 0 .. 0 |-> v]
  <2>1. f \in [0 .. 0 -> Views] /\ f[0] = v /\ \A i \in 0 .. 0 : f[i].key <= v.key
    BY <1>1 DEF Views
  <2> HIDE DEF f
  <2> QED BY <1>1, <2>1 DEF Leads
<1> QED BY <1>2, <1>3

LEMMA LeadsFurther ==
  ASSUME NEW s \in Seq(Sealed), NEW r \in Sealed, NEW v, NEW u, Leads(s, v, u), Allowed(u, r)
  PROVE  Leads(Append(s, r), v, Passed(u, r))
<1> DEFINE n == Len(s)
           t == Append(s, r)
           w == Passed(u, r)
<1>1. PICK f \in [0 .. n -> Views] :
        /\ f[0] = v /\ f[n] = u
        /\ \A i \in 0 .. n : f[i].key <= u.key
        /\ \A i \in 1 .. n : Allowed(f[i - 1], s[i]) /\ f[i] = Passed(f[i - 1], s[i])
  BY DEF Leads
<1>2. n \in Nat /\ Len(t) = n + 1 /\ t[n + 1] = r /\ \A i \in 1 .. n : t[i] = s[i]
  OBVIOUS
<1>3. u \in Views /\ w \in Views /\ u.key <= w.key
  BY <1>1, <1>2, PassedOn
<1> DEFINE g == [i \in 0 .. n + 1 |-> IF i = n + 1 THEN w ELSE f[i]]
<1> HIDE DEF n, t, w
<1>4. /\ \A i \in 0 .. n : g[i] = f[i]
      /\ g[n + 1] = w
      /\ g \in [0 .. n + 1 -> Views]
  BY <1>1, <1>2, <1>3
<1> HIDE DEF g
<1>5. \A i \in 0 .. n + 1 : g[i].key <= w.key
  <2> TAKE i \in 0 .. n + 1
  <2>1. CASE i = n + 1
    BY <1>3, <1>4, <2>1 DEF Views
  <2>2. CASE i \in 0 .. n
    <3>1. f[i].key <= u.key /\ f[i].key \in Nat /\ u.key \in Nat /\ w.key \in Nat
      BY <1>1, <1>3, <2>2 DEF Views
    <3> QED BY <1>3, <1>4, <2>2, <3>1
  <2> QED BY <1>2, <2>1, <2>2
<1>6. \A i \in 1 .. n + 1 : Allowed(g[i - 1], t[i]) /\ g[i] = Passed(g[i - 1], t[i])
  <2> TAKE i \in 1 .. n + 1
  <2>1. CASE i = n + 1
    <3>1. g[i - 1] = u /\ t[i] = r
      BY <1>1, <1>2, <1>4, <2>1
    <3> QED BY <1>4, <2>1, <3>1 DEF w
  <2>2. CASE i \in 1 .. n
    <3>1. g[i - 1] = f[i - 1] /\ g[i] = f[i] /\ t[i] = s[i]
      BY <1>2, <1>4, <2>2
    <3> QED BY <1>1, <2>2, <3>1
  <2> QED BY <1>2, <2>1, <2>2
<1>7. g[0] = v /\ g[n + 1] = w
  BY <1>1, <1>2, <1>4
<1>8. Leads(t, v, w)
  BY <1>2, <1>4, <1>5, <1>6, <1>7 DEF Leads
<1> QED BY <1>8 DEF t, w

LEMMA LeadsOn ==
  ASSUME NEW s \in Seq(Sealed), s # << >>, NEW v, NEW u, Leads(s, v, u)
  PROVE  /\ Allowed(v, Head(s))
         /\ Leads(Tail(s), Passed(v, Head(s)), u)
         /\ Passed(v, Head(s)).key <= u.key
<1> DEFINE n == Len(s)
           t == Tail(s)
           w == Passed(v, Head(s))
<1>1. PICK f \in [0 .. n -> Views] :
        /\ f[0] = v /\ f[n] = u
        /\ \A i \in 0 .. n : f[i].key <= u.key
        /\ \A i \in 1 .. n : Allowed(f[i - 1], s[i]) /\ f[i] = Passed(f[i - 1], s[i])
  BY DEF Leads
<1>2. /\ n \in Nat /\ n > 0 /\ Len(t) = n - 1 /\ Head(s) = s[1]
      /\ \A i \in 1 .. n - 1 : t[i] = s[i + 1]
  OBVIOUS
<1>3. Allowed(v, Head(s)) /\ f[1] = w /\ w.key <= u.key
  BY <1>1, <1>2
<1> DEFINE g == [i \in 0 .. n - 1 |-> f[i + 1]]
<1> HIDE DEF n, t, w
<1>4. /\ \A i \in 0 .. n - 1 : g[i] = f[i + 1]
      /\ g \in [0 .. n - 1 -> Views]
  BY <1>1, <1>2
<1> HIDE DEF g
<1>5. \A i \in 0 .. n - 1 : g[i].key <= u.key
  BY <1>1, <1>2, <1>4
<1>6. \A i \in 1 .. n - 1 : Allowed(g[i - 1], t[i]) /\ g[i] = Passed(g[i - 1], t[i])
  <2> TAKE i \in 1 .. n - 1
  <2>1. g[i - 1] = f[i] /\ g[i] = f[i + 1] /\ t[i] = s[i + 1]
    BY <1>2, <1>4
  <2>2. Allowed(f[(i + 1) - 1], s[i + 1]) /\ f[i + 1] = Passed(f[(i + 1) - 1], s[i + 1])
    BY <1>1, <1>2
  <2> QED BY <1>2, <2>1, <2>2
<1>7. g[0] = w /\ g[n - 1] = u
  BY <1>1, <1>2, <1>3, <1>4
<1>8. Leads(t, w, u)
  BY <1>2, <1>4, <1>5, <1>6, <1>7 DEF Leads
<1> QED BY <1>3, <1>8 DEF t, w
\* A step that moves p and leaves the stream alone.
Elsewhere(p) ==
  /\ UNCHANGED <<outErr, key, seq, closeNotifySent, wire, outLock, buffer, handshakes>>
  /\ status' = 1 => status = 1
  /\ pc[p] \notin {"put", "append", "send", "unbuffer"}
  /\ pc'[p] \notin {"put", "append", "send", "unbuffer", "settle"}
  /\ ~AwaitsFinish(p)'
  /\ pc'[p] = "flush" => handshakes = 0 /\ rec'[p].kind \notin Handshakes

\* The end of a handshake.
Settles(p) ==
  /\ UNCHANGED <<outErr, key, seq, closeNotifySent, wire, outLock, buffer>>
  /\ wire.phase = "open" /\ wire.key = key
  /\ pc[p] = "settle"
  /\ pc'[p] \notin {"put", "append", "settle"} \cup Flushing
  /\ ~AwaitsFinish(p)'

\* Sealing a record.
Seals(p) ==
  /\ UNCHANGED <<outErr, key, closeNotifySent, wire, buffer, status, handshakes>>
  /\ pc[p] = "seal" /\ Free(outLock)
  /\ MaySeal(rec[p].kind)
  /\ MustBuffer(rec[p].kind) => buffering
  /\ pc'[p] = "put" /\ outLock' = p
  /\ rec'[p].kind = rec[p].kind /\ rec'[p].key = key /\ rec'[p].seq = seq
  /\ seq' = After(key, seq)

\* Writing it.
Writes(p, ok) ==
  /\ Send(p, ok)
  /\ UNCHANGED <<status, handshakes>>
  /\ outLock' = NoProc
  /\ pc'[p] \notin {"put", "append", "send", "unbuffer", "settle"}
  /\ IF ok /\ SwitchesKey(rec[p].kind) THEN key' = key + 1 /\ seq' = 0 ELSE UNCHANGED <<key, seq>>
  /\ closeNotifySent' = (closeNotifySent \/ rec[p].kind = "notify")
  /\ rec[p].kind \in Alerts => outErr'
  /\ rec[p].kind = "data" => outErr' = ~ok
  /\ rec[p].kind # "data" => (outErr => outErr')
  /\ rec[p].kind = "update" /\ ~ok => outErr'
  /\ AwaitsFinish(p)' => ok /\ rec[p].kind = "hello"
  /\ pc'[p] = "flush" => HoldsHandshake(p)
  /\ pc'[p] = "flush" /\ rec'[p].kind \in Handshakes =>
       ok /\ rec'[p].kind = rec[p].kind /\ MustBuffer(rec[p].kind)

\* Going on behind flush.
GoesOn(p) ==
  /\ UNCHANGED <<status, handshakes>>
  /\ \/ rec[p].kind = "hello" /\ pc'[p] = "seal" /\ rec'[p].kind = "finished"
     \/ rec[p].kind = "finished" /\ pc'[p] = "settle" /\ rec'[p].kind = rec[p].kind
     \/ rec[p].kind \notin Handshakes /\ pc'[p] = "idle"

StreamStep(p) ==
  \/ Elsewhere(p) \/ Settles(p) \/ Seals(p)
  \/ HandshakeBuffers(p) \/ LoadBuffer(p)
  \/ FlushNothing(p) /\ GoesOn(p)
  \/ FlushStarts(p) \/ FlushClears(p)
  \/ FlushEnds(p) /\ GoesOn(p)
  \/ \E ok \in BOOLEAN : FlushSends(p, ok)
  \/ \E ok \in BOOLEAN : Writes(p, ok)

\* A record is sealed with out's key and number.
LEMMA SealsRecord ==
  ASSUME BaseInv, NoBareAlert, NEW p \in Proc, Seal(p)
  PROVE  Seals(p)
<1>1. rec' = [rec EXCEPT ![p] = [rec[p] EXCEPT !.key = key, !.seq = seq]]
      /\ seq' = After(key, seq) /\ pc'[p] = "put"
  BY DEF Seal, Encrypt, Goto, BaseInv, TypeOK
<1>2. rec'[p].kind = rec[p].kind /\ rec'[p].key = key /\ rec'[p].seq = seq
  BY <1>1 DEF BaseInv, TypeOK
<1> QED BY <1>1, <1>2 DEF Seal, Seals, buffer, handshake, outgoing, Free

\* What comes of writing it.
LEMMA PutSteps ==
  ASSUME BaseInv, NoBareAlert, NEW p \in Proc, NEW ok \in BOOLEAN, PutAny(p, ok)
  PROVE  Writes(p, ok)
<1>a. Movements(p) /\ pc[p] \in {"put", "append"} /\ rec[p].kind # "bare"
  <2>1. pc[p] \in {"put", "append"}
    BY DEF PutAny, PutData, PutNotify, PutAlert, PutHandshakeAlert, PutUpdate, PutHandshake,
           PutKind, Put, Send, ToSocket, ToBuffer
  <2> QED BY <2>1, Moving DEF BaseInv, TypeOK, LocalTypes, NoBareAlert, Writing
<1>b. /\ outErr \in BOOLEAN /\ closeNotifySent \in BOOLEAN
      /\ HoldsHandshake(p) <=> (pc[p] \in {"put", "append"} /\ rec[p].kind \in Handshakes \cup {"hsAlert"})
  BY <1>a DEF BaseInv, TypeOK, HoldsHandshake, Writing, Flushing
<1> USE <1>a, <1>b DEF Movements, Writes, Places, Records, Handshakes, Alerts, Reading, Writing,
        Flushing, handshake, SwitchesKey, AwaitsFinish, WritesFinished, NoRecord
<1>1. CASE PutData(p, ok)
  BY <1>1 DEF PutData, PutKind, Put
<1>2. CASE PutNotify(p, ok)
  BY <1>2 DEF PutNotify, PutKind, Put
<1>3. CASE PutAlert(p, ok)
  BY <1>3 DEF PutAlert, PutKind, Put
<1>4. CASE PutHandshakeAlert(p, ok)
  BY <1>4 DEF PutHandshakeAlert, HandshakeFailed
<1>5. CASE PutUpdate(p, ok)
  BY <1>5 DEF PutUpdate, PutKind, Put, NextKey
<1>6. CASE PutHandshake(p, ok)
  <2>1. CASE ok /\ rec[p].kind = "hello"
    BY <1>6, <2>1 DEF PutHandshake, MustBuffer
  <2>2. CASE ok /\ rec[p].kind = "finished"
    BY <1>6, <2>2 DEF PutHandshake, MustBuffer, NextKey
  <2>3. CASE ~ok
    BY <1>6, <2>3 DEF PutHandshake, HandshakeFailed
  <2> QED BY <1>6, <2>1, <2>2, <2>3 DEF PutHandshake
<1> QED BY <1>1, <1>2, <1>3, <1>4, <1>5, <1>6 DEF PutAny

\* Each step is one of these.
LEMMA StreamKinds ==
  ASSUME BaseInv, NoBareAlert, NEW p \in Proc, Step(p)
  PROVE  StreamStep(p)
<1>a. Movements(p)
  BY Moving DEF BaseInv, TypeOK, LocalTypes
<1>b. call[p] \in {"read", "write", "handshake"} \/ pc[p] \notin {"hsLock", "settle"}
  BY DEF BaseInv, CallInv, CallFits
<1>c. pc[p] \in Writing => rec[p].kind # "bare"
  BY DEF NoBareAlert
<1>33. ASSUME NEW ok \in BOOLEAN, PutAny(p, ok)
       PROVE  StreamStep(p)
  BY <1>33, PutSteps DEF StreamStep
<1>10. ASSUME Seal(p)
       PROVE  StreamStep(p)
  BY <1>10, SealsRecord DEF StreamStep
<1>32. ASSUME HandshakeSucceeds(p)
       PROVE  StreamStep(p)
  <2>1. Settles(p)
    BY <1>a, <1>b, <1>32 DEF HandshakeSucceeds, Movements, Settles, AwaitsFinish, WritesFinished,
       Places, Records, Flushing, Writing, Handshakes, outgoing
  <2> QED BY <2>1 DEF StreamStep
<1>34. ASSUME Flushed(p)
       PROVE  GoesOn(p)
  BY <1>a, <1>34 DEF Flushed, GoesOn, Movements, HandshakeFailed, Places, Records, Handshakes, handshake
<1>35. ASSUME FlushNothing(p) \/ FlushEnds(p)
       PROVE  StreamStep(p)
  BY <1>34, <1>35 DEF FlushNothing, FlushEnds, StreamStep
<1>36. ASSUME \/ HandshakeBuffers(p) \/ LoadBuffer(p) \/ FlushStarts(p) \/ FlushClears(p)
              \/ \E ok \in BOOLEAN : FlushSends(p, ok)
       PROVE  StreamStep(p)
  BY <1>36 DEF StreamStep
<1> SUFFICES Elsewhere(p) \/ StreamStep(p)
  BY DEF StreamStep
<1> USE <1>a, <1>b, <1>c DEF Movements, Elsewhere, AwaitsFinish, WritesFinished, Places, Records,
        Handshakes, Alerts, Reading, Writing, Flushing, handshake, outgoing
<1>1. CASE BeginRead(p)
  BY <1>1 DEF BeginRead, locks
<1>2. CASE BeginWrite(p)
  BY <1>2 DEF BeginWrite, locks
<1>3. CASE BeginClose(p)
  BY <1>3 DEF BeginClose, locks
<1>4. CASE BeginCloseWrite(p)
  BY <1>4 DEF BeginCloseWrite, locks
<1>5. CASE HandshakeDone(p)
  BY <1>5 DEF HandshakeDone, locks
<1>6. CASE HandshakeStarts(p)
  BY <1>6 DEF HandshakeStarts
<1>7. CASE HandshakeTakesIn(p)
  BY <1>7 DEF HandshakeTakesIn
<1>8. CASE LockRead(p)
  BY <1>8 DEF LockRead
<1>9. CASE Renegotiate(p)
  BY <1>9 DEF Renegotiate
<1>11. CASE SealRefused(p)
  BY <1>11 DEF SealRefused, locks
<1>12. CASE CloseChecks(p)
  BY <1>12 DEF CloseChecks, locks
<1>13. CASE Shut(p)
  BY <1>13 DEF Shut, locks
<1>14. CASE SealBare(p)
  BY <1>14 DEF SealBare
<1>15. CASE Take(p)
  BY <1>15 DEF Take
<1>16. CASE NoMessage(p)
  BY <1>16 DEF NoMessage, locks
<1>17. CASE WantMore(p)
  BY <1>17 DEF WantMore, HasMessage, locks
<1>18. CASE Oversized(p)
  BY <1>18 DEF Oversized, HasMessage, locks
<1>19. CASE Malformed(p)
  BY <1>19 DEF Malformed, HasMessage, locks
<1>20. CASE Reject(p)
  BY <1>20 DEF Reject, HasMessage, locks
<1>21. CASE Absorb(p)
  BY <1>21 DEF Absorb, HasMessage, Handled, locks
<1>22. CASE AnswerUpdate(p)
  BY <1>22 DEF AnswerUpdate, HasMessage, locks
<1>23. CASE AcceptRenegotiation(p)
  BY <1>23 DEF AcceptRenegotiation, HasMessage, locks
<1>24. CASE ReceiveData(p)
  BY <1>24 DEF ReceiveData, Receives, RecordRead
<1>25. CASE ReceiveMessage(p)
  BY <1>25 DEF ReceiveMessage, Receives, RecordRead
<1>26. CASE ReceiveIgnored(p)
  BY <1>26 DEF ReceiveIgnored, Receives, locks
<1>27. CASE ReceiveEnd(p)
  BY <1>27 DEF ReceiveEnd, Receives
<1>28. CASE ReceiveBad(p)
  BY <1>28 DEF ReceiveBad, Receives, locks
<1>29. CASE ReadFails(p)
  BY <1>29 DEF ReadFails
<1>30. CASE HandshakeFails(p)
  BY <1>30 DEF HandshakeFails, InHandshake, HandshakeFailed, NoRecord
<1>31. CASE HandshakeAlerts(p)
  BY <1>31 DEF HandshakeAlerts, InHandshake, locks
<1> QED
  BY ONLY Step(p), <1>1, <1>2, <1>3, <1>4, <1>5, <1>6, <1>7, <1>8, <1>9, <1>10, <1>11, <1>12,
       <1>13, <1>14, <1>15, <1>16, <1>17, <1>18, <1>19, <1>20, <1>21, <1>22, <1>23, <1>24,
       <1>25, <1>26, <1>27, <1>28, <1>29, <1>30, <1>31, <1>32, <1>33, <1>35, <1>36
  DEF Step, Calls, LockSteps, LocalSteps, NetworkSteps, Receive

\* The mutexes keep p and q apart.
LEMMA Apart ==
  ASSUME BaseInv, NoBareAlert, NEW p \in Proc, NEW q \in Proc, q # p
  PROVE  /\ pc[p] \in {"put", "append"} => pc[q] \notin {"put", "append"} /\ ~Free(outLock)
         /\ HoldsHandshake(p) => ~HoldsHandshake(q)
         /\ HoldsIn(p) => ~HoldsIn(q)
<1>1. p # NoProc /\ q # NoProc
  BY ConstantsAssumption
<1>2. \A r \in Proc : HoldsOut(r) <=> pc[r] \in {"put", "append"}
  BY DEF NoBareAlert, HoldsOut, Writing
<1> QED BY <1>1, <1>2 DEF BaseInv, LockDiscipline, Free

LEMMA InFlightHolds ==
  ASSUME NEW p \in Proc
  PROVE  /\ InFlight(p) => HoldsHandshake(p) /\ HoldsIn(p)
         /\ AwaitsFinish(p) => InFlight(p)
  BY DEF InFlight, AwaitsFinish, WritesFinished, HoldsHandshake, HoldsIn, Handshakes

\* While p has a record on its way, the steps of the others leave out alone.
LEMMA OutIsHeld ==
  ASSUME BaseInv, NoBareAlert, NEW p \in Proc, NEW q \in Proc, q # p, pc[q] \in {"put", "append"},
         StreamStep(p)
  PROVE  /\ UNCHANGED <<key, seq, outLock, outErr, closeNotifySent>>
         /\ UNCHANGED wire \/ \E ok \in BOOLEAN : FlushSends(p, ok)
<1>1. pc[p] \notin {"put", "append"} /\ ~Free(outLock)
  BY Apart
<1>2. ~Seals(p) /\ ~LoadBuffer(p) /\ \A ok : ~Writes(p, ok)
  BY <1>1 DEF Seals, LoadBuffer, Writes, Send, ToSocket, ToBuffer
<1> QED BY <1>2 DEF StreamStep, Elsewhere, Settles, HandshakeBuffers, FlushNothing, FlushStarts,
       FlushSends, FlushClears, FlushEnds, outgoing, locks

\* The peer's view only moves forward.
LEMMA PhaseStays ==
  ASSUME NEW w \in Wires, NEW r, w.phase # "clear"
  PROVE  PeerReads(w, r).phase # "clear" /\ PeerCutOff(w).phase # "clear"
<1>1. PeerCutOff(w).phase = w.phase
  BY DEF PeerCutOff, Wires
<1>2. PeerDecrypts(w, r).phase = CASE r.kind = "hello" -> "handshake"
                                   [] r.kind = "finished" -> "open"
                                   [] OTHER -> w.phase
  BY DEF PeerDecrypts, Wires
<1>3. /\ [w EXCEPT !.state = "garbled", !.ended = TRUE].phase = w.phase
      /\ [w EXCEPT !.sent = @ + 1].phase = w.phase
      /\ w.ended \in BOOLEAN
  BY DEF Wires
<1> QED BY <1>1, <1>2, <1>3 DEF PeerReads

LEMMA BegunPreserved ==
  ASSUME BaseInv, Steady, NEW p \in Proc, StreamStep(p), handshakes' > 0
  PROVE  wire'.phase # "clear"
<1>1. wire \in Wires /\ handshakes \in Nat
  BY DEF BaseInv, TypeOK, Wires, Phases
<1>2. UNCHANGED wire \/ wire' = PeerCutOff(wire) \/ (\E r : wire' = PeerReads(wire, r))
  BY DEF StreamStep, Elsewhere, Settles, Seals, HandshakeBuffers, LoadBuffer, FlushNothing,
         FlushStarts, FlushSends, FlushClears, FlushEnds, Writes, Send, ToSocket, ToBuffer, outgoing
<1>3. handshakes > 0 \/ (wire.phase = "open" /\ UNCHANGED wire)
  BY DEF StreamStep, Elsewhere, Settles, Seals, HandshakeBuffers, LoadBuffer, FlushNothing, GoesOn,
         FlushStarts, FlushSends, FlushClears, FlushEnds, Writes, handshake
<1> QED BY <1>1, <1>2, <1>3, PhaseStays DEF Steady

LEMMA MarkedPreserved ==
  ASSUME BaseInv, NoBareAlert, Steady, NEW p \in Proc, StreamStep(p)
  PROVE  Marked(sendBuf)' /\ Marked(flight)' /\ Marked(base)'
<1>1. /\ sendBuf \in Seq(Sealed) /\ flight \in Seq(Sealed) /\ base \in Seq(Sealed)
      /\ Marked(sendBuf) /\ Marked(flight) /\ Marked(base)
      /\ DataOnItsWay(p)
      /\ outErr \in BOOLEAN /\ closeNotifySent \in BOOLEAN
  BY DEF BaseInv, TypeOK, Steady
<1>2. /\ outErr => outErr' \/ \E ok \in BOOLEAN : Writes(p, ok) /\ rec[p].kind = "data"
      /\ closeNotifySent => closeNotifySent'
  BY <1>1 DEF StreamStep, Elsewhere, Settles, Seals, HandshakeBuffers, LoadBuffer, FlushNothing,
         FlushStarts, FlushSends, FlushClears, FlushEnds, Writes, outgoing
<1>3. outErr => outErr'
  <2>1. ASSUME NEW ok \in BOOLEAN, Writes(p, ok), rec[p].kind = "data" PROVE ~outErr
    BY <1>1, <2>1 DEF DataOnItsWay, Writes, Send, ToSocket, ToBuffer
  <2> QED BY <1>2, <2>1
<1>4. \A s \in Seq(Sealed) : Marked(s) => Marked(s)'
  BY <1>2, <1>3 DEF Marked
<1>5. ASSUME NEW ok \in BOOLEAN, Writes(p, ok), ToBuffer(p)
      PROVE  Marked(sendBuf)'
  <2>1. rec[p].kind # "data"
    BY <1>1, <1>5 DEF DataOnItsWay, ToBuffer
  <2>2. /\ rec[p].kind \in Alerts => outErr'
        /\ rec[p].kind = "notify" => closeNotifySent'
    BY <1>5 DEF Writes
  <2>3. /\ sendBuf' = Append(base, rec[p])
        /\ DOMAIN sendBuf' = 1 .. Len(base) + 1 /\ DOMAIN base = 1 .. Len(base) /\ Len(base) \in Nat
        /\ \A i \in 1 .. Len(base) : sendBuf'[i] = base[i]
        /\ sendBuf'[Len(base) + 1] = rec[p]
    BY <1>1, <1>5 DEF ToBuffer
  <2>4. \A i \in DOMAIN base :
          /\ base[i].kind # "data"
          /\ base[i].kind \in Alerts => outErr'
          /\ base[i].kind = "notify" => closeNotifySent'
    BY <1>1, <1>2, <1>3 DEF Marked
  <2>5. \A i \in DOMAIN sendBuf' :
          /\ sendBuf'[i].kind # "data"
          /\ sendBuf'[i].kind \in Alerts => outErr'
          /\ sendBuf'[i].kind = "notify" => closeNotifySent'
    <3> TAKE i \in DOMAIN sendBuf'
    <3>1. i \in DOMAIN base \/ i = Len(base) + 1
      BY <2>3
    <3> QED BY <2>1, <2>2, <2>3, <2>4, <3>1
  <2> QED BY <2>5 DEF Marked
<1>6. ASSUME NEW ok \in BOOLEAN, FlushSends(p, ok)
      PROVE  Marked(flight)'
  <2>1. flight' = << >> \/ (flight # << >> /\ flight' = Tail(flight))
    BY <1>6 DEF FlushSends
  <2>2. CASE flight' = << >>
    BY <2>2 DEF Marked
  <2>3. CASE flight # << >> /\ flight' = Tail(flight)
    <3>1. \A i \in DOMAIN flight' : i + 1 \in DOMAIN flight /\ flight'[i] = flight[i + 1]
      BY <1>1, <2>3
    <3> QED BY <1>1, <1>2, <1>3, <3>1 DEF Marked
  <2> QED BY <2>1, <2>2, <2>3
<1>7. /\ sendBuf' \in {sendBuf, << >>} \/ (ToBuffer(p) /\ \E ok \in BOOLEAN : Writes(p, ok))
      /\ flight' \in {flight, sendBuf} \/ (\E ok \in BOOLEAN : FlushSends(p, ok))
      /\ base' \in {base, sendBuf}
  BY DEF StreamStep, Elsewhere, Settles, Seals, HandshakeBuffers, LoadBuffer, FlushNothing,
         FlushStarts, FlushSends, FlushClears, FlushEnds, Writes, Send, ToSocket, outgoing, buffer
<1>8. Marked(<< >>)'
  BY DEF Marked
<1> QED BY <1>1, <1>4, <1>5, <1>6, <1>7, <1>8 DEF Marked

\* Flush and write meet: the other goroutine is not in the handshake and does not
\* read, so what it writes is a closing alert.
LEMMA MeetsNotify ==
  ASSUME BaseInv, NoBareAlert, Steady, NEW p \in Proc, NEW q \in Proc, q # p,
         pc[p] \in {"put", "append"}, pc[q] \in Flushing, pc[p] = "put" => buffering
  PROVE  rec[p].kind = "notify" /\ handshakes > 0 /\ mode.client /\ ~mode.v13 /\ mode.reneg # "never"
<1>1. HoldsHandshake(q) /\ HoldsIn(q) /\ ~HoldsHandshake(p) /\ ~HoldsIn(p)
  BY Apart DEF HoldsHandshake, HoldsIn
<1>2. RecordFits(p) /\ rec[p].kind # "bare" /\ pc[p] \in Writing
  BY DEF BaseInv, CallInv, NoBareAlert, Writing
<1>3. rec[p].kind # "data"
  BY DEF Steady, DataOnItsWay
<1>4. rec[p].kind = "notify"
  BY <1>1, <1>2, <1>3 DEF RecordFits, HoldsIn, HoldsHandshake, Handshakes, Alerts
<1>5. handshakes > 0
  BY <1>2, <1>4 DEF BaseInv, HandshakeInv, PastHandshake
<1> QED BY <1>1, <1>4, <1>5 DEF BaseInv, HandshakeInv, Renegotiates

LEMMA OverlappedPreserved ==
  ASSUME BaseInv, NoBareAlert, Steady, NEW p \in Proc, Step(p), StreamStep(p), overlap'
  PROVE  Overlapped'
<1>1. Others(p) /\ mode' = mode /\ handshakes \in Nat /\ handshakes' \in {handshakes, handshakes + 1}
      /\ pc \in [Proc -> Places]
      /\ closeNotifySent \in BOOLEAN
  BY OthersStay, HandshakeSteps DEF BaseInv, TypeOK, HandshakeStep
<1>2. closeNotifySent => closeNotifySent'
  BY <1>1 DEF StreamStep, Elsewhere, Settles, Seals, HandshakeBuffers, LoadBuffer, FlushNothing,
         FlushStarts, FlushSends, FlushClears, FlushEnds, Writes, outgoing
<1>3. ASSUME NEW q \in Proc, pc[q] = "append", rec[q].kind = "notify"
      PROVE  closeNotifySent' \/ (pc'[q] = "append" /\ rec'[q].kind = "notify")
  <2>1. CASE q # p
    BY <1>1, <1>3, <2>1 DEF Others
  <2>2. CASE q = p
    <3>1. \E ok \in BOOLEAN : Writes(p, ok)
      BY <1>3, <2>2 DEF StreamStep, Elsewhere, Settles, Seals, HandshakeBuffers, LoadBuffer,
         FlushNothing, FlushStarts, FlushSends, FlushClears, FlushEnds
    <3> QED BY <1>3, <2>2, <3>1 DEF Writes
  <2> QED BY <2>1, <2>2
<1>4. CASE overlap
  BY <1>1, <1>2, <1>3, <1>4 DEF Steady, Overlapped
<1>5. ASSUME LoadBuffer(p), NEW q \in Proc, pc[q] \in {"send", "unbuffer"}
      PROVE  Overlapped'
  <2>1. q # p /\ pc[q] \in Flushing /\ pc[p] = "put" /\ buffering
    BY <1>5 DEF LoadBuffer, Flushing
  <2>2. rec[p].kind = "notify" /\ handshakes > 0 /\ mode.client /\ ~mode.v13 /\ mode.reneg # "never"
    BY <2>1, MeetsNotify
  <2>3. pc'[p] = "append" /\ rec' = rec
    BY <1>1, <1>5 DEF LoadBuffer, Goto
  <2> QED BY <1>1, <2>2, <2>3 DEF Overlapped
<1>6. ASSUME FlushStarts(p), NEW q \in Proc, pc[q] = "append"
      PROVE  Overlapped'
  <2>1. q # p /\ pc[p] \in Flushing
    BY <1>6 DEF FlushStarts, Flushing
  <2>2. rec[q].kind = "notify" /\ handshakes > 0 /\ mode.client /\ ~mode.v13 /\ mode.reneg # "never"
    BY <1>6, <2>1, MeetsNotify
  <2>3. pc'[q] = "append" /\ rec'[q] = rec[q]
    BY <1>1, <1>6, <2>1 DEF Others
  <2> QED BY <1>1, <2>2, <2>3 DEF Overlapped
<1>7. overlap \/ LoadBuffer(p) \/ FlushStarts(p)
  BY DEF StreamStep, Elsewhere, Settles, Seals, HandshakeBuffers, FlushNothing,
         FlushSends, FlushClears, FlushEnds, Writes, Send, outgoing, buffer
<1>8. ASSUME LoadBuffer(p), ~overlap
      PROVE  \E q \in Proc : pc[q] \in {"send", "unbuffer"}
  BY <1>8 DEF LoadBuffer
<1>9. ASSUME FlushStarts(p), ~overlap
      PROVE  \E q \in Proc : pc[q] = "append"
  BY <1>9 DEF FlushStarts
<1> QED BY <1>4, <1>5, <1>6, <1>7, <1>8, <1>9

LEMMA StampedPreserved ==
  ASSUME BaseInv, NoBareAlert, Steady, NEW p \in Proc, Step(p), StreamStep(p), NEW q \in Proc
  PROVE  Stamped(q)'
<1>1. Others(p) /\ Stamped(q) /\ pc \in [Proc -> Places]
  BY OthersStay DEF BaseInv, TypeOK, Steady
<1>2. CASE q # p
  <2> SUFFICES ASSUME pc[q] \in {"put", "append"} PROVE Stamped(q)'
    BY <1>1, <1>2 DEF Others, Stamped
  <2>1. UNCHANGED <<key, seq>>
    BY <1>2, OutIsHeld
  <2> QED BY <1>1, <1>2, <2>1 DEF Others, Stamped
<1>3. CASE q = p
  <2>1. CASE Seals(p)
    BY <1>3, <2>1 DEF Seals, Stamped
  <2>2. CASE LoadBuffer(p)
    BY <1>1, <1>3, <2>2 DEF LoadBuffer, Stamped
  <2>3. CASE HandshakeBuffers(p)
    BY <1>3, <2>3 DEF HandshakeBuffers, Stamped
  <2>4. CASE ~Seals(p) /\ ~LoadBuffer(p) /\ ~HandshakeBuffers(p)
    <3>1. pc'[p] \notin {"put", "append"}
      BY <1>1, <2>4 DEF StreamStep, Elsewhere, Settles, FlushNothing, FlushStarts,
         FlushSends, FlushClears, FlushEnds, GoesOn, Writes, Goto, Flushing, Places
    <3> QED BY <1>3, <3>1 DEF Stamped
  <2> QED BY <2>1, <2>2, <2>3, <2>4
<1> QED BY <1>2, <1>3

LEMMA DataPreserved ==
  ASSUME BaseInv, NoBareAlert, Steady, ~overlap => Orderly,
         NEW p \in Proc, Step(p), StreamStep(p), NEW q \in Proc
  PROVE  DataOnItsWay(q)'
<1> SUFFICES ASSUME pc'[q] \in {"put", "append"}, rec'[q].kind = "data"
             PROVE  /\ pc'[q] = "put"
                    /\ ~wire'.ended /\ wire'.phase = "open"
                    /\ ~buffering' /\ ~overlap' /\ ~outErr'
                    /\ \A r \in Proc : ~InFlight(r)'
  BY DEF DataOnItsWay
<1>1. Others(p) /\ pc \in [Proc -> Places] /\ \A r \in Proc : DataOnItsWay(r)
  BY OthersStay DEF BaseInv, TypeOK, Steady
<1>2. CASE q # p
  <2>1. pc[q] \in {"put", "append"} /\ rec[q].kind = "data" /\ pc'[q] = pc[q]
    BY <1>1, <1>2 DEF Others
  <2>2. /\ pc[q] = "put"
        /\ ~wire.ended /\ wire.phase = "open"
        /\ ~buffering /\ ~overlap /\ ~outErr
        /\ \A r \in Proc : ~InFlight(r)
    BY <1>1, <2>1 DEF DataOnItsWay
  <2>3. handshakes > 0
    BY <2>1 DEF BaseInv, HandshakeInv, PastHandshake, Writing
  <2>4. UNCHANGED outErr /\ pc[p] \notin {"put", "append"} /\ pc[p] \notin Flushing
    BY <1>2, <2>1, <2>2, OutIsHeld, Apart DEF InFlight
  <2>5. ~HandshakeBuffers(p)
    <3>1. ASSUME HandshakeBuffers(p) PROVE HoldsHandshake(p) /\ ~mode.client
      BY <2>2, <3>1 DEF HandshakeBuffers, InFlight, WritesFinished, Writing, HoldsHandshake, Handshakes
    <3> QED BY <2>3, <3>1 DEF BaseInv, HandshakeInv, Renegotiates
  <2>6. Elsewhere(p) \/ Settles(p) \/ Seals(p)
    BY <2>4, <2>5 DEF StreamStep, LoadBuffer, FlushNothing, FlushStarts, FlushSends, FlushClears,
       FlushEnds, Writes, Send, ToSocket, ToBuffer, Flushing
  <2>7. UNCHANGED <<wire, buffering, overlap>>
    BY <2>6 DEF Elsewhere, Settles, Seals, buffer
  <2>8. ~InFlight(p)'
    <3>1. CASE Elsewhere(p)
      BY <2>3, <3>1 DEF Elsewhere, InFlight, AwaitsFinish, Flushing
    <3>2. CASE Settles(p)
      BY <3>2 DEF Settles, InFlight, AwaitsFinish
    <3>3. CASE Seals(p)
      BY <2>2, <3>3 DEF Seals, InFlight, WritesFinished, Writing, Flushing
    <3> QED BY <2>6, <3>1, <3>2, <3>3
  <2>9. \A r \in Proc : ~InFlight(r)'
    BY <1>1, <2>2, <2>8 DEF Others, InFlight, WritesFinished
  <2> QED BY <2>1, <2>2, <2>4, <2>7, <2>9
<1>3. CASE q = p
  <2>1. CASE Seals(p)
    <3>1. rec[p].kind = "data" /\ MaySendData /\ Free(outLock)
      BY <1>3, <2>1 DEF Seals, MaySeal
    <3>2. ~overlap
      <4>1. \A r \in Proc : pc[r] # "append" \/ rec[r].kind # "notify"
        BY <3>1, ConstantsAssumption DEF BaseInv, LockDiscipline, HoldsOut, Free
      <4> QED BY <3>1, <4>1 DEF Steady, Overlapped, MaySendData
    <3>3. ~wire.ended /\ wire.phase = "open" /\ ~buffering
      BY <3>1, <3>2 DEF Orderly, InStep, MaySendData
    <3>4. \A r \in Proc : ~InFlight(r)
      BY <3>1, InFlightHolds DEF MaySendData, BaseInv, HandshakeInv
    <3>5. \A r \in Proc : ~InFlight(r)'
      <4>1. ~InFlight(p)'
        BY <2>1, <3>1 DEF Seals, InFlight, WritesFinished, Flushing
      <4> QED BY <1>1, <3>4, <4>1 DEF Others, InFlight, WritesFinished
    <3> QED BY <1>3, <2>1, <3>1, <3>2, <3>3, <3>5 DEF Seals, MaySendData, buffer
  <2>2. CASE LoadBuffer(p)
    <3>1. pc[p] = "put" /\ buffering /\ rec[p].kind = "data"
      BY <1>3, <2>2 DEF LoadBuffer
    <3> QED BY <1>1, <3>1 DEF DataOnItsWay
  <2>3. CASE HandshakeBuffers(p)
    BY <1>3, <2>3 DEF HandshakeBuffers
  <2>4. CASE ~Seals(p) /\ ~LoadBuffer(p) /\ ~HandshakeBuffers(p)
    BY <1>1, <1>3, <2>4 DEF StreamStep, Elsewhere, Settles, FlushNothing, FlushStarts,
       FlushSends, FlushClears, FlushEnds, GoesOn, Writes, Goto, Flushing, Places
  <2> QED BY <2>1, <2>2, <2>3, <2>4
<1> QED BY <1>2, <1>3

\* What holds at any time goes on to hold.
LEMMA SteadyPreserved ==
  ASSUME BaseInv, StreamInv, NEW p \in Proc, Step(p)
  PROVE  Steady'
<1>1. StreamStep(p) /\ NoBareAlert /\ Steady /\ (~overlap => Orderly)
  BY StreamKinds DEF StreamInv
<1> QED BY <1>1, BegunPreserved, MarkedPreserved, OverlappedPreserved, StampedPreserved, DataPreserved
    DEF Steady

\* The peer's view of a record that fits it.
LEMMA Decrypted ==
  ASSUME NEW w \in Wires, NEW r, Fits(w, r)
  PROVE  LET x == PeerDecrypts(w, r) IN
         /\ x.state = w.state
         /\ x.ended = (r.kind \in Alerts \cup {"notify"})
         /\ x.sent = IF r.kind = "data" THEN w.sent + 1 ELSE w.sent
         /\ x.phase = Passed(View(w), r).phase
         /\ x.key = Passed(View(w), r).key
         /\ View(x) = Passed(View(w), r)
  BY DEF PeerDecrypts, Passed, View, Wires, Fits

\* What the peer makes of a step: nothing, an end, or a record that fits.
WireStep(p, r) ==
  \/ UNCHANGED wire
  \/ wire'.ended /\ wire' = [wire EXCEPT !.ended = TRUE]
  \/ ~wire.ended /\ Fits(wire, r) /\ wire' = PeerDecrypts(wire, r)

\* The next record to be sent.
NextOut(p) == IF pc[p] = "put" THEN rec[p] ELSE Head(flight)

\* Before an overlap the mutex and the buffer agree: a record that goes to the
\* socket finds nothing pending.
LEMMA NothingPending ==
  ASSUME BaseInv, NoBareAlert, Steady, Orderly, NEW p \in Proc,
         pc[p] = "put", ~buffering, ~wire.ended
  PROVE  /\ Fits(wire, rec[p]) /\ wire.key = key
         /\ Awaited => wire.phase = "handshake"
<1>1. Pending = << >>
  BY DEF Orderly, BufferFits, Pending, Sending
<1>2. Position = rec[p].seq
  BY ConstantsAssumption DEF BaseInv, LockDiscipline, HoldsOut, NoBareAlert, Writing, Position, Free
<1>3. PICK ph \in Phases :
        /\ Leads(Pending, View(wire), [phase |-> ph, key |-> key, seq |-> Position])
        /\ Awaited => ph = "handshake"
  BY DEF Orderly, Chained, Chain
<1>4. View(wire) \in Views
  BY DEF BaseInv, TypeOK, View, Views, Phases
<1>5. [phase |-> ph, key |-> key, seq |-> Position] = View(wire)
  BY <1>1, <1>3, <1>4, LeadsNowhere
<1>6. wire.phase = ph /\ wire.key = key /\ wire.seq = rec[p].seq
  BY <1>2, <1>5 DEF View
<1>7. rec[p].key = key
  BY DEF Steady, Stamped
<1> QED BY <1>3, <1>6, <1>7 DEF Fits

\* Flush sends the records in their order.
LEMMA NextPending ==
  ASSUME BaseInv, NoBareAlert, Steady, Orderly, NEW p \in Proc,
         pc[p] = "send", flight # << >>, ~wire.ended
  PROVE  /\ Fits(wire, Head(flight))
         /\ Passed(View(wire), Head(flight)).key <= key
         /\ Head(flight).kind = "finished" => wire.phase = "handshake"
         /\ \E ph \in Phases :
              /\ Leads(Tail(flight), Passed(View(wire), Head(flight)),
                       [phase |-> ph, key |-> key, seq |-> Position])
              /\ Awaited => ph = "handshake"
<1>1. Pending = flight /\ flight \in Seq(Sealed)
  BY DEF Pending, Sending, BaseInv, TypeOK
<1>2. PICK ph \in Phases :
        /\ Leads(Pending, View(wire), [phase |-> ph, key |-> key, seq |-> Position])
        /\ Awaited => ph = "handshake"
  BY DEF Orderly, Chained, Chain
<1> DEFINE u == [phase |-> ph, key |-> key, seq |-> Position]
<1>3. u.key = key
  OBVIOUS
<1> HIDE DEF u
<1>4. /\ Allowed(View(wire), Head(flight))
      /\ Leads(Tail(flight), Passed(View(wire), Head(flight)), u)
      /\ Passed(View(wire), Head(flight)).key <= u.key
  BY <1>1, <1>2, LeadsOn DEF u
<1>5. Fits(wire, Head(flight)) /\ (Head(flight).kind = "finished" => wire.phase = "handshake")
  BY <1>4 DEF Allowed, Fits, View
<1> QED BY <1>2, <1>3, <1>4, <1>5 DEF u

\* Nothing goes out that is not expected.
LEMMA WireSteps ==
  ASSUME BaseInv, NoBareAlert, Steady, Orderly, NEW p \in Proc, StreamStep(p)
  PROVE  /\ WireStep(p, NextOut(p))
         /\ wire' # wire => \/ pc[p] = "put" /\ ~buffering /\ (\E ok \in BOOLEAN : Writes(p, ok))
                            \/ pc[p] = "send" /\ (\E ok \in BOOLEAN : FlushSends(p, ok))
<1>1. wire \in Wires /\ wire.ended \in BOOLEAN /\ Marked(flight) /\ flight \in Seq(Sealed)
  BY DEF BaseInv, TypeOK, Wires, Phases, Steady
<1>2. PeerCutOff(wire) = [wire EXCEPT !.ended = TRUE] /\ PeerCutOff(wire).ended
  BY <1>1 DEF PeerCutOff, Wires
<1>3. ASSUME NEW r, r.kind # "data", wire.ended
      PROVE  PeerReads(wire, r) = wire
  BY <1>3 DEF PeerReads
<1>4. ASSUME NEW r, Fits(wire, r), ~wire.ended
      PROVE  PeerReads(wire, r) = PeerDecrypts(wire, r)
  BY <1>4 DEF PeerReads
<1>5. ASSUME NEW ok \in BOOLEAN, Writes(p, ok), ToSocket(p, ok)
      PROVE  WireStep(p, NextOut(p)) /\ pc[p] = "put" /\ ~buffering
  <2>1. pc[p] = "put" /\ ~buffering /\ wire' = IF ok THEN PeerReads(wire, rec[p]) ELSE PeerCutOff(wire)
    BY <1>5 DEF ToSocket
  <2>2. wire.ended => rec[p].kind # "data"
    BY <2>1 DEF Steady, DataOnItsWay
  <2>3. ~wire.ended => Fits(wire, rec[p])
    BY <2>1, NothingPending
  <2> QED BY <1>1, <1>2, <1>3, <1>4, <2>1, <2>2, <2>3 DEF WireStep, NextOut
<1>6. ASSUME NEW ok \in BOOLEAN, FlushSends(p, ok)
      PROVE  WireStep(p, NextOut(p)) /\ pc[p] = "send"
  <2>1. /\ pc[p] = "send" /\ flight # << >>
        /\ wire' = PeerReads(wire, Head(flight)) \/ wire' = PeerCutOff(wire)
    BY <1>6 DEF FlushSends
  <2>2. Head(flight).kind # "data"
    BY <1>1, <2>1 DEF Marked
  <2>3. ~wire.ended => Fits(wire, Head(flight))
    BY <2>1, NextPending
  <2> QED BY <1>1, <1>2, <1>3, <1>4, <2>1, <2>2, <2>3 DEF WireStep, NextOut
<1>7. \/ UNCHANGED wire
      \/ \E ok \in BOOLEAN : Writes(p, ok) /\ ToSocket(p, ok)
      \/ \E ok \in BOOLEAN : FlushSends(p, ok)
  BY DEF StreamStep, Elsewhere, Settles, Seals, HandshakeBuffers, LoadBuffer, FlushNothing,
         FlushStarts, FlushClears, FlushEnds, Writes, Send, ToBuffer, outgoing
<1> QED BY <1>5, <1>6, <1>7 DEF WireStep

\* The keys are the peer's or one ahead, however it reads on.
LEMMA KeysPreserved ==
  ASSUME BaseInv, NoBareAlert, Steady, Orderly, NEW p \in Proc, StreamStep(p)
  PROVE  wire'.state = "whole" /\ wire'.key <= key'
<1>1. /\ wire \in Wires /\ wire.key \in Nat /\ key \in Nat
      /\ wire.state = "whole" /\ wire.key <= key
  BY DEF BaseInv, TypeOK, Wires, Phases, Orderly, InStep
<1>2. WireStep(p, NextOut(p))
  BY WireSteps
<1>3. key' = key \/ key' = key + 1
  BY DEF StreamStep, Elsewhere, Settles, Seals, HandshakeBuffers, LoadBuffer, FlushNothing,
         FlushStarts, FlushSends, FlushClears, FlushEnds, Writes, outgoing
<1>4. CASE wire' = wire \/ wire' = [wire EXCEPT !.ended = TRUE]
  BY <1>1, <1>3, <1>4 DEF Wires
<1>5. ASSUME wire' # wire, ~wire.ended, Fits(wire, NextOut(p)), wire' = PeerDecrypts(wire, NextOut(p))
      PROVE  wire'.state = "whole" /\ wire'.key <= key'
  <2>1. wire'.state = "whole" /\ wire'.key = Passed(View(wire), NextOut(p)).key
    BY <1>1, <1>5, Decrypted
  <2>2. CASE pc[p] = "put" /\ ~buffering /\ \E ok \in BOOLEAN : Writes(p, ok)
    <3>1. wire.key = key /\ NextOut(p) = rec[p]
      BY <1>5, <2>2, NothingPending DEF NextOut
    <3>2. PICK ok \in BOOLEAN : Writes(p, ok)
      BY <2>2
    <3>3. CASE ok
      BY <1>1, <2>1, <3>1, <3>2, <3>3 DEF Writes, Passed, View
    <3>4. CASE ~ok
      <4>1. wire' = [wire EXCEPT !.ended = TRUE]
        BY <2>2, <3>2, <3>4 DEF Writes, Send, ToSocket, PeerCutOff
      <4> QED BY <1>4, <4>1
    <3> QED BY <3>3, <3>4
  <2>3. ASSUME pc[p] = "send", NEW ok \in BOOLEAN, FlushSends(p, ok)
        PROVE  wire'.state = "whole" /\ wire'.key <= key'
    <3>1. flight # << >> /\ key' = key /\ NextOut(p) = Head(flight)
      BY <2>3 DEF FlushSends, NextOut
    <3> QED BY <1>5, <2>1, <2>3, <3>1, NextPending
  <2> QED BY <1>5, <2>2, <2>3, WireSteps
<1> QED BY <1>2, <1>4, <1>5 DEF WireStep

\* Whoever may send data writes to an open stream.
LEMMA MayPreserved ==
  ASSUME BaseInv, NoBareAlert, Steady, Orderly, NEW p \in Proc, Step(p), StreamStep(p), MaySendData'
  PROVE  ~wire'.ended /\ wire'.phase = "open"
<1>1. /\ outErr \in BOOLEAN /\ closeNotifySent \in BOOLEAN /\ status \in {0, 1}
      /\ DataOnItsWay(p) /\ SettlesOpen(p) /\ wire \in Wires
  BY DEF BaseInv, TypeOK, Steady, Orderly, Wires, Phases
<1>2. /\ ~closeNotifySent /\ ~outErr
      /\ status = 1 \/ Settles(p)
  <2>1. CASE \E ok \in BOOLEAN : Writes(p, ok)
    BY <1>1, <2>1 DEF Writes, MaySendData, DataOnItsWay, Send, ToSocket, ToBuffer
  <2>2. CASE ~(\E ok \in BOOLEAN : Writes(p, ok))
    BY <1>1, <2>2 DEF StreamStep, Elsewhere, Seals, HandshakeBuffers, LoadBuffer, FlushNothing,
         FlushStarts, FlushSends, FlushClears, FlushEnds, GoesOn, Settles, MaySendData, outgoing, handshake
  <2> QED BY <2>1, <2>2
<1>3. CASE Settles(p)
  BY <1>1, <1>2, <1>3 DEF Settles, SettlesOpen
<1>4. CASE status = 1
  <2>1. ~wire.ended /\ wire.phase = "open"
    BY <1>2, <1>4 DEF Orderly, InStep, MaySendData
  <2>2. ~HoldsHandshake(p)
    BY <1>4 DEF BaseInv, HandshakeInv
  <2>3. ASSUME pc[p] = "put", ~buffering, NEW ok \in BOOLEAN, Writes(p, ok)
        PROVE  ~wire'.ended /\ wire'.phase = "open"
    <3>1. rec[p].kind \notin Handshakes
      BY <2>2, <2>3 DEF HoldsHandshake, Writing
    <3>2. rec[p].kind \in Alerts \cup {"notify", "data", "update"}
      BY <2>3, <3>1 DEF BaseInv, CallInv, RecordFits, Alerts, Writing
    <3>3. rec[p].kind \notin Alerts \cup {"notify"}
      BY <2>3 DEF Writes, MaySendData
    <3>4. ok
      BY <2>3, <3>2, <3>3 DEF Writes, MaySendData
    <3>5. wire' = PeerDecrypts(wire, rec[p]) /\ Fits(wire, rec[p])
      BY <2>1, <2>3, <3>4, NothingPending DEF Writes, Send, ToSocket, ToBuffer, PeerReads
    <3>6. /\ wire'.ended = (rec[p].kind \in Alerts \cup {"notify"})
          /\ wire'.phase = Passed(View(wire), rec[p]).phase
      BY <1>1, <3>5, Decrypted
    <3>7. Passed(View(wire), rec[p]).phase = wire.phase
      BY <3>1 DEF Passed, View, Handshakes
    <3> QED BY <2>1, <3>3, <3>6, <3>7
  <2>4. pc[p] # "send"
    BY <2>2 DEF HoldsHandshake, Flushing
  <2> QED BY <2>1, <2>3, <2>4, WireSteps
<1> QED BY <1>2, <1>3, <1>4

\* A handshake ends in a stream that goes on.
LEMMA SettlesPreserved ==
  ASSUME BaseInv, NoBareAlert, Steady, Orderly, NEW p \in Proc, Step(p), StreamStep(p), NEW q \in Proc
  PROVE  SettlesOpen(q)'
<1> SUFFICES ASSUME pc'[q] = "settle" \/ (pc'[q] \in Flushing /\ rec'[q].kind = "finished"),
                    wire'.key = key', ~outErr', ~closeNotifySent'
             PROVE  ~wire'.ended
  BY DEF SettlesOpen
<1>1. /\ Others(p) /\ SettlesOpen(q) /\ BufferFits(q) /\ DataOnItsWay(p)
      /\ wire \in Wires /\ pc \in [Proc -> Places]
      /\ rec \in [Proc -> [kind : Records \cup {"none"}, key : Nat, seq : Nat]]
      /\ wire.key \in Nat /\ key \in Nat /\ wire.key <= key
      /\ outErr \in BOOLEAN /\ closeNotifySent \in BOOLEAN
      /\ flight \in Seq(Sealed) /\ Marked(flight)
  BY OthersStay DEF BaseInv, TypeOK, Orderly, InStep, Wires, Phases, Steady
<1>2. CASE q # p
  <2>1. /\ pc[q] = "settle" \/ (pc[q] \in Flushing /\ rec[q].kind = "finished")
        /\ InFlight(q)
    BY <1>1, <1>2 DEF Others, InFlight
  <2>2. ~HoldsHandshake(p) /\ ~HoldsIn(p)
    BY <1>2, <2>1, Apart, InFlightHolds
  <2>3. CASE \E ok \in BOOLEAN : Writes(p, ok)
    <3>1. PICK ok \in BOOLEAN : Writes(p, ok)
      BY <2>3
    <3>2. rec[p].kind \in {"notify", "data"}
      BY <2>2, <3>1 DEF BaseInv, CallInv, RecordFits, HoldsIn, HoldsHandshake, Alerts, Handshakes,
         Writing, Writes, Send, ToSocket, ToBuffer
    <3>3. FALSE
      BY <2>1, <3>1, <3>2, <1>1 DEF Writes, DataOnItsWay, Send, ToSocket, ToBuffer
    <3> QED BY <3>3
  <2>4. CASE ~(\E ok \in BOOLEAN : Writes(p, ok))
    <3>1. UNCHANGED <<wire, key, outErr, closeNotifySent>>
      BY <2>2, <2>4 DEF StreamStep, Elsewhere, Settles, Seals, HandshakeBuffers, LoadBuffer, FlushNothing,
         FlushStarts, FlushSends, FlushClears, FlushEnds, HoldsHandshake, Flushing, outgoing
    <3> QED BY <1>1, <2>1, <3>1 DEF SettlesOpen
  <2> QED BY <2>3, <2>4
<1>3. CASE q = p
  <2>1. CASE Elsewhere(p) \/ Settles(p) \/ Seals(p) \/ HandshakeBuffers(p) \/ LoadBuffer(p)
    BY <1>1, <1>3, <2>1 DEF Elsewhere, Settles, Seals, HandshakeBuffers, LoadBuffer, Flushing, Handshakes,
       Goto, Places
  <2>2. CASE FlushNothing(p) /\ GoesOn(p)
    BY <1>1, <1>3, <2>2 DEF FlushNothing, GoesOn, BufferFits, Handshakes, Flushing
  <2>3. CASE FlushStarts(p) \/ FlushClears(p)
    <3>1. UNCHANGED <<wire, key, outErr, closeNotifySent, rec>> /\ pc[p] \in Flushing /\ pc'[p] # "settle"
      BY <1>1, <2>3 DEF FlushStarts, FlushClears, Goto, Flushing, Places
    <3> QED BY <1>1, <1>3, <3>1 DEF SettlesOpen
  <2>4. CASE FlushEnds(p) /\ GoesOn(p)
    <3>1. UNCHANGED <<wire, key, outErr, closeNotifySent>> /\ pc[p] \in Flushing
      BY <2>4 DEF FlushEnds, Flushing
    <3>2. rec[p].kind = "finished"
      BY <1>3, <2>4 DEF GoesOn, Flushing
    <3> QED BY <1>1, <1>3, <3>1, <3>2 DEF SettlesOpen
  <2>5. ASSUME NEW ok \in BOOLEAN, FlushSends(p, ok)
        PROVE  ~wire'.ended
    <3>1. /\ UNCHANGED <<key, outErr, closeNotifySent, pc>> /\ pc[p] = "send" /\ flight # << >>
          /\ ok /\ wire' = PeerReads(wire, Head(flight)) /\ rec' = rec
      BY <1>1, <1>3, <2>5 DEF FlushSends, NoRecord, Flushing
    <3>2. Head(flight).kind # "data" /\ (Head(flight).kind \in Alerts \cup {"notify"} => outErr \/ closeNotifySent)
      BY <1>1, <3>1 DEF Marked
    <3>3. CASE wire.ended
      <4>1. wire' = wire
        BY <3>1, <3>2, <3>3 DEF PeerReads
      <4> QED BY <1>1, <1>3, <3>1, <4>1 DEF SettlesOpen, Flushing
    <3>4. CASE ~wire.ended
      <4>1. Fits(wire, Head(flight))
        BY <3>1, <3>4, NextPending
      <4>2. wire' = PeerDecrypts(wire, Head(flight))
        BY <3>1, <3>4, <4>1 DEF PeerReads
      <4> QED BY <1>1, <3>1, <3>2, <4>1, <4>2, Decrypted
    <3> QED BY <3>3, <3>4, <1>1 DEF Wires
  <2>6. ASSUME NEW ok \in BOOLEAN, Writes(p, ok)
        PROVE  ~wire'.ended
    <3>1. pc'[p] = "flush" /\ rec'[p].kind = "finished"
      BY <1>3, <2>6 DEF Writes, Flushing
    <3>2. ok /\ rec[p].kind = "finished" /\ MustBuffer("finished")
      BY <2>6, <3>1 DEF Writes, Handshakes
    <3>3. buffering
      BY <1>1, <1>3, <2>6, <3>2 DEF BufferFits, Writes, Send, ToSocket, ToBuffer
    <3>4. wire' = wire
      BY <2>6, <3>3 DEF Writes, Send, ToSocket, ToBuffer
    <3>5. key' = key + 1
      BY <2>6, <3>2 DEF Writes, SwitchesKey
    <3> QED BY <1>1, <3>4, <3>5
  <2> QED BY <2>1, <2>2, <2>3, <2>4, <2>5, <2>6 DEF StreamStep
<1> QED BY <1>2, <1>3

\* Flush and write find the buffer as they expect it.
LEMMA BuffersPreserved ==
  ASSUME BaseInv, NoBareAlert, Steady, Orderly, NEW p \in Proc, Step(p), StreamStep(p), ~overlap'
  PROVE  /\ status' = 1 => ~buffering'
         /\ ~buffering' => sendBuf' = << >>
         /\ \A q \in Proc : BufferFits(q)'
<1>1. /\ Others(p) /\ pc \in [Proc -> Places]
      /\ status = 1 => ~buffering
      /\ ~buffering => sendBuf = << >>
      /\ \A q \in Proc : BufferFits(q)
      /\ status \in {0, 1} /\ buffering \in BOOLEAN
      /\ base \in Seq(Sealed) /\ mode' = mode
  BY OthersStay, HandshakeSteps DEF BaseInv, TypeOK, Orderly, HandshakeStep
<1>2. HoldsHandshake(p) => status = 0
  BY DEF BaseInv, HandshakeInv
<1>3. \A q \in Proc \ {p} : pc[q] \in Flushing \cup {"settle"} => ~HoldsHandshake(p)
  BY Apart DEF HoldsHandshake
<1>4. ASSUME NEW q \in Proc \ {p}, pc[p] \in {"put", "append"}
      PROVE  pc[q] \notin {"put", "append"}
  BY <1>4, Apart
<1>5. ASSUME NEW q \in Proc \ {p}, pc[q] \in {"put", "append"}, MustBuffer(rec[q].kind)
      PROVE  ~HoldsHandshake(p)
  <2>1. HoldsHandshake(q)
    BY <1>5 DEF MustBuffer, HoldsHandshake, Writing, Handshakes
  <2> QED BY <2>1, Apart
<1> USE <1>1 DEF Others, BufferFits
<1>6. CASE Elsewhere(p)
  BY <1>6 DEF Elsewhere, MustBuffer, Handshakes, buffer
<1>16. CASE Settles(p)
  BY <1>16 DEF Settles, MustBuffer, Flushing, buffer
<1>7. CASE Seals(p)
  BY <1>4, <1>7 DEF Seals, MustBuffer, buffer
<1>8. CASE HandshakeBuffers(p)
  <2>1. HoldsHandshake(p)
    BY <1>8 DEF HandshakeBuffers, HoldsHandshake, Writing, Handshakes
  <2>2. status' = 0 /\ UNCHANGED <<pc, rec, sendBuf, base, mode>> /\ buffering' /\ pc[p] = "seal"
    BY <1>2, <1>8, <2>1 DEF HandshakeBuffers, handshake
  <2> QED BY <1>3, <2>1, <2>2 DEF Flushing, MustBuffer
<1>9. CASE LoadBuffer(p)
  <2>1. \A q \in Proc : pc[q] \notin {"send", "unbuffer"}
    BY <1>9 DEF LoadBuffer
  <2>2. /\ UNCHANGED <<rec, sendBuf, buffering, status, mode>> /\ base' = sendBuf /\ buffering
        /\ pc[p] = "put" /\ pc' = [pc EXCEPT ![p] = "append"]
    BY <1>9 DEF LoadBuffer, Goto, handshake
  <2> QED BY <1>4, <2>1, <2>2 DEF MustBuffer
<1>10. CASE FlushNothing(p) /\ GoesOn(p)
  <2>1. UNCHANGED <<sendBuf, buffering, status, base, mode>> /\ pc[p] = "flush" /\ sendBuf = << >>
    BY <1>10 DEF FlushNothing, GoesOn, outgoing, buffer
  <2>2. pc'[p] = "idle"
    BY <1>10, <2>1 DEF GoesOn, Handshakes
  <2> QED BY <2>1, <2>2 DEF MustBuffer
<1>11. CASE FlushStarts(p)
  <2>1. /\ UNCHANGED <<rec, sendBuf, buffering, base, status, mode>>
        /\ sendBuf # << >> /\ pc[p] = "flush" /\ pc' = [pc EXCEPT ![p] = "send"]
        /\ \A q \in Proc : pc[q] # "append"
    BY <1>11 DEF FlushStarts, Goto, handshake
  <2> QED BY <2>1 DEF MustBuffer
<1>12. CASE FlushClears(p)
  <2>1. /\ UNCHANGED <<rec, buffering, base, status, mode>>
        /\ sendBuf' = << >> /\ pc[p] = "send" /\ pc' = [pc EXCEPT ![p] = "unbuffer"]
    BY <1>12 DEF FlushClears, Goto, handshake
  <2>2. \A q \in Proc : pc[q] # "append"
    BY <2>1
  <2>3. \A q \in Proc \ {p} : pc[q] \notin Flushing
    BY <1>3, <2>1 DEF HoldsHandshake, Flushing
  <2> QED BY <2>1, <2>2, <2>3 DEF MustBuffer, Flushing
<1>13. CASE FlushEnds(p) /\ GoesOn(p)
  <2>1. /\ UNCHANGED <<base, sendBuf, status, mode>> /\ ~buffering'
        /\ pc[p] = "unbuffer" /\ sendBuf = << >> /\ pc'[p] \in {"seal", "settle", "idle"}
    BY <1>13 DEF FlushEnds, GoesOn
  <2>2. \A q \in Proc : pc[q] # "append"
    BY <2>1
  <2>3. HoldsHandshake(p)
    BY <2>1 DEF HoldsHandshake, Flushing
  <2> QED BY <1>3, <1>5, <2>1, <2>2, <2>3 DEF MustBuffer, Flushing
<1>14. ASSUME NEW ok \in BOOLEAN, FlushSends(p, ok)
       PROVE  /\ status' = 1 => ~buffering'
              /\ ~buffering' => sendBuf' = << >>
              /\ \A q \in Proc : BufferFits(q)'
  <2>1. UNCHANGED <<pc, sendBuf, buffering, base, status, mode>> /\ pc[p] = "send"
    BY <1>14 DEF FlushSends, handshake
  <2> QED BY <2>1 DEF MustBuffer
<1>15. ASSUME NEW ok \in BOOLEAN, Writes(p, ok)
       PROVE  /\ status' = 1 => ~buffering'
              /\ ~buffering' => sendBuf' = << >>
              /\ \A q \in Proc : BufferFits(q)'
  <2>1. /\ UNCHANGED <<buffering, base, status, mode>>
        /\ pc[p] \in {"put", "append"}
        /\ pc'[p] \notin {"put", "append", "send", "unbuffer", "settle"}
    BY <1>15 DEF Writes, Send, ToSocket, ToBuffer
  <2>2. CASE ToSocket(p, ok)
    <3>1. sendBuf' = sendBuf /\ pc[p] = "put" /\ ~buffering
      BY <2>2 DEF ToSocket
    <3>2. ~(pc'[p] = "flush" /\ rec'[p].kind \in Handshakes)
      BY <1>15, <2>1, <3>1 DEF Writes
    <3> QED BY <1>4, <2>1, <3>1, <3>2 DEF MustBuffer
  <2>3. CASE ToBuffer(p)
    <3>1. sendBuf' # << >> /\ buffering /\ pc[p] = "append"
      BY <2>3 DEF ToBuffer
    <3>2. \A q \in Proc : pc[q] \notin {"send", "unbuffer"}
      BY <3>1
    <3> QED BY <1>4, <2>1, <3>1, <3>2 DEF MustBuffer
  <2> QED BY <1>15, <2>2, <2>3 DEF Writes, Send
<1> HIDE DEF BufferFits, Others
<1> QED BY <1>6, <1>7, <1>8, <1>9, <1>10, <1>11, <1>12, <1>13, <1>14, <1>15, <1>16 DEF StreamStep

LEMMA ChainedNext ==
  Chained' <=> (~wire'.ended => Chain(wire', Pending', key', Position', Awaited'))
  BY DEF Chained, Chain, Leads, View

\* Sealed, buffered and sent, the records stay in the order of their numbers.
LEMMA ChainPreserved ==
  ASSUME BaseInv, NoBareAlert, Steady, Orderly, NEW p \in Proc, Step(p), StreamStep(p), ~overlap'
  PROVE  Chained'
<1> SUFFICES ASSUME ~wire'.ended
             PROVE  Chain(wire', Pending', key', Position', Awaited')
  BY ChainedNext
<1>1. /\ Others(p) /\ pc \in [Proc -> Places] /\ p # NoProc
      /\ \A q \in Proc \ {p} : pc'[q] = pc[q] /\ rec'[q] = rec[q] /\ (AwaitsFinish(q)' <=> AwaitsFinish(q))
      /\ sendBuf \in Seq(Sealed) /\ flight \in Seq(Sealed) /\ base \in Seq(Sealed)
      /\ wire \in Wires /\ wire' \in Wires /\ View(wire') \in Views
  <2>1. Others(p) /\ p # NoProc /\ wire' \in Wires
    BY OthersStay, SharedPreserved, ConstantsAssumption
  <2> QED BY <2>1 DEF BaseInv, TypeOK, Others, AwaitsFinish, WritesFinished, Wires, Phases, View, Views
<1>2. ~wire.ended
  BY WireSteps DEF WireStep
<1>3. Chain(wire, Pending, key, Position, Awaited)
  BY <1>2 DEF Orderly, Chained
<1>4. \A q \in Proc : BufferFits(q)
  BY DEF Orderly
<1>5. /\ outLock \in Proc \cup {NoProc}
      /\ \A q \in Proc : outLock = q <=> pc[q] \in {"put", "append"}
  BY DEF BaseInv, TypeOK, LockDiscipline, HoldsOut, NoBareAlert, Writing
<1>6. ASSUME UNCHANGED <<wire, key, seq, outLock, sendBuf, flight>>,
             pc[p] \in {"put", "append"} => rec'[p].seq = rec[p].seq,
             pc[p] # "send", pc'[p] # "send", AwaitsFinish(p)' => Awaited
      PROVE  Chain(wire', Pending', key', Position', Awaited')
  <2>1. Sending' <=> Sending
    BY <1>1, <1>6 DEF Sending
  <2>2. Position' = Position
    BY <1>1, <1>5, <1>6 DEF Position, Free
  <2>3. Awaited' => Awaited
    BY <1>1, <1>6 DEF Awaited
  <2> QED BY <1>3, <1>6, <2>1, <2>2, <2>3 DEF Pending, Chain
<1>7. CASE Elsewhere(p) \/ Settles(p)
  BY <1>1, <1>6, <1>7 DEF Elsewhere, Settles, Flushing, Awaited, buffer
<1>8. CASE HandshakeBuffers(p)
  BY <1>6, <1>8 DEF HandshakeBuffers, Awaited, AwaitsFinish, WritesFinished, locks
<1>9. CASE LoadBuffer(p)
  <2>1. AwaitsFinish(p)' => AwaitsFinish(p)
    BY <1>1, <1>9 DEF LoadBuffer, Goto, AwaitsFinish, WritesFinished, Writing, Flushing
  <2> QED BY <1>1, <1>6, <1>9, <2>1 DEF LoadBuffer, Goto, Awaited, locks
<1>10. CASE (FlushNothing(p) \/ FlushEnds(p)) /\ GoesOn(p)
  <2>1. AwaitsFinish(p)' => AwaitsFinish(p)
    BY <1>10 DEF FlushNothing, FlushEnds, GoesOn, AwaitsFinish, WritesFinished, Writing, Flushing, Handshakes
  <2>2. pc[p] \in {"flush", "unbuffer"} /\ pc'[p] # "send"
    BY <1>10 DEF FlushNothing, FlushEnds, GoesOn
  <2> QED BY <1>6, <1>10, <2>1, <2>2 DEF FlushNothing, FlushEnds, Awaited, outgoing, buffer
<1>11. CASE Seals(p)
  <2>1. /\ Position = seq /\ Position' = rec'[p].seq /\ rec'[p].seq = seq
        /\ UNCHANGED <<wire, key, sendBuf, flight>>
    BY <1>1, <1>11 DEF Seals, Position, Free, buffer
  <2>2. Sending' <=> Sending
    BY <1>1, <1>11 DEF Sending, Seals
  <2>3. Awaited' => Awaited
    BY <1>1, <1>11 DEF Awaited, AwaitsFinish, WritesFinished, Seals, Writing, Flushing
  <2> QED BY <1>3, <2>1, <2>2, <2>3 DEF Pending, Chain
<1>12. ASSUME pc[p] \in Flushing, UNCHANGED <<key, seq, outLock>>
       PROVE  /\ Position' = Position
              /\ \A q \in Proc \ {p} : pc[q] \notin Flushing
  <2>1. pc[p] \notin {"put", "append"}
    BY <1>12 DEF Flushing
  <2>2. Position' = Position
    BY <1>1, <1>5, <1>12, <2>1 DEF Position, Free
  <2>3. \A q \in Proc \ {p} : pc[q] \notin Flushing
    BY <1>12, Apart DEF HoldsHandshake
  <2> QED BY <2>2, <2>3
<1>13. CASE FlushStarts(p)
  <2>1. /\ pc[p] = "flush" /\ pc' = [pc EXCEPT ![p] = "send"] /\ flight' = sendBuf
        /\ UNCHANGED <<wire, key, seq, outLock, rec>>
    BY <1>13 DEF FlushStarts, Goto, locks
  <2>2. Position' = Position /\ ~Sending /\ Sending'
    BY <1>1, <1>12, <2>1 DEF Sending, Flushing
  <2>3. Awaited' => Awaited
    BY <1>1, <2>1 DEF Awaited, AwaitsFinish, WritesFinished, Writing, Flushing
  <2> QED BY <1>3, <2>1, <2>2, <2>3 DEF Pending, Chain
<1>14. CASE FlushClears(p)
  <2>1. /\ pc[p] = "send" /\ pc' = [pc EXCEPT ![p] = "unbuffer"] /\ flight = << >> /\ sendBuf' = << >>
        /\ UNCHANGED <<wire, key, seq, outLock, rec>>
    BY <1>14 DEF FlushClears, Goto, locks
  <2>2. Position' = Position /\ Sending /\ ~Sending'
    BY <1>1, <1>12, <2>1 DEF Sending, Flushing
  <2>3. Awaited' => Awaited
    BY <1>1, <2>1 DEF Awaited, AwaitsFinish, WritesFinished, Writing, Flushing
  <2> QED BY <1>3, <2>1, <2>2, <2>3 DEF Pending, Chain
<1>15. ASSUME NEW ok \in BOOLEAN, FlushSends(p, ok)
       PROVE  Chain(wire', Pending', key', Position', Awaited')
  <2>1. /\ pc[p] = "send" /\ flight # << >> /\ UNCHANGED <<pc, key, seq, outLock>>
        /\ wire' = PeerReads(wire, Head(flight)) /\ flight' = Tail(flight) /\ rec' = rec
    <3>1. wire' # PeerCutOff(wire)
      BY <1>1 DEF PeerCutOff, Wires
    <3> QED BY <1>15, <3>1 DEF FlushSends, locks
  <2>2. Position' = Position /\ Sending /\ Sending'
    BY <1>12, <2>1 DEF Sending, Flushing
  <2>3. Awaited' <=> Awaited
    BY <2>1 DEF Awaited, AwaitsFinish, WritesFinished
  <2>4. /\ Fits(wire, Head(flight))
        /\ \E ph \in Phases :
              /\ Leads(Tail(flight), Passed(View(wire), Head(flight)),
                       [phase |-> ph, key |-> key, seq |-> Position])
              /\ Awaited => ph = "handshake"
    BY <1>2, <2>1, NextPending
  <2>5. View(wire') = Passed(View(wire), Head(flight))
    <3>1. wire' = PeerDecrypts(wire, Head(flight))
      BY <1>2, <2>1, <2>4 DEF PeerReads
    <3> QED BY <1>1, <2>4, <3>1, Decrypted
  <2> QED BY <2>1, <2>2, <2>3, <2>4, <2>5 DEF Pending, Chain
<1>16. ASSUME NEW ok \in BOOLEAN, Writes(p, ok)
       PROVE  Chain(wire', Pending', key', Position', Awaited')
  <2>1. /\ pc[p] \in {"put", "append"} /\ pc'[p] # "send" /\ Position' = seq' /\ Position = rec[p].seq
        /\ rec[p].key = key /\ seq = After(key, rec[p].seq)
    <3>1. pc[p] \in {"put", "append"} /\ pc'[p] # "send" /\ outLock' = NoProc
      BY <1>16 DEF Writes, Send, ToSocket, ToBuffer
    <3> QED BY <1>1, <1>5, <3>1 DEF Position, Free, Steady, Stamped
  <2>2. ok
    <3>1. ASSUME ~ok PROVE wire' = PeerCutOff(wire)
      BY <1>16, <3>1 DEF Writes, Send, ToSocket
    <3> QED BY <1>1, <3>1 DEF PeerCutOff, Wires
  <2>3. \A ph \in Phases :
          [phase |-> Passed([phase |-> ph, key |-> key, seq |-> Position], rec[p]).phase,
           key |-> key', seq |-> seq'] = Passed([phase |-> ph, key |-> key, seq |-> Position], rec[p])
    BY <1>16, <2>1, <2>2 DEF Writes, Passed
  <2>4. Awaited' => \/ rec[p].kind = "hello"
                    \/ Awaited /\ rec[p].kind # "finished"
    <3>1. ASSUME NEW q \in Proc \ {p}, AwaitsFinish(q)
          PROVE  rec[p].kind # "finished"
      <4>1. ~HoldsHandshake(p)
        BY <3>1, Apart, InFlightHolds
      <4> QED BY <2>1, <4>1 DEF HoldsHandshake, Writing, Handshakes
    <3> QED BY <1>1, <1>16, <3>1 DEF Awaited, Writes
  <2>5. \A ph \in Phases : /\ Passed([phase |-> ph, key |-> key, seq |-> Position], rec[p]).phase \in Phases
                           /\ (Awaited => ph = "handshake") =>
                              (Awaited' => Passed([phase |-> ph, key |-> key, seq |-> Position], rec[p]).phase = "handshake")
    BY <2>4 DEF Passed, Phases
  <2>6. CASE ToSocket(p, ok)
    <3>1. /\ pc[p] = "put" /\ ~buffering /\ wire' = PeerReads(wire, rec[p])
          /\ UNCHANGED <<sendBuf, flight>>
      BY <1>16, <2>2, <2>6 DEF ToSocket, Writes, Send, ToBuffer
    <3>2. /\ Fits(wire, rec[p]) /\ wire.key = key
          /\ Awaited => wire.phase = "handshake"
      BY <1>2, <3>1, NothingPending
    <3>3. View(wire') = Passed(View(wire), rec[p])
      <4>1. wire' = PeerDecrypts(wire, rec[p])
        BY <1>2, <3>1, <3>2 DEF PeerReads
      <4> QED BY <1>1, <3>2, <4>1, Decrypted
    <3>4. Pending' = << >>
      <4>1. ~Sending' /\ sendBuf = << >>
        BY <1>1, <1>4, <2>1, <3>1 DEF Sending, BufferFits, Orderly
      <4> QED BY <3>1, <4>1 DEF Pending
    <3>5. View(wire) = [phase |-> wire.phase, key |-> key, seq |-> Position] /\ wire.phase \in Phases
      BY <1>1, <2>1, <3>2 DEF View, Fits, Wires, Phases
    <3>6. View(wire') = [phase |-> View(wire').phase, key |-> key', seq |-> seq']
          /\ View(wire').phase \in Phases /\ (Awaited' => View(wire').phase = "handshake")
      BY <2>3, <2>5, <3>2, <3>3, <3>5
    <3> QED BY <1>1, <2>1, <3>4, <3>6, LeadsNowhere DEF Chain
  <2>7. CASE ToBuffer(p)
    <3>1. pc[p] = "append" /\ sendBuf' = Append(base, rec[p]) /\ wire' = wire /\ base = sendBuf
      BY <1>4, <2>7 DEF ToBuffer, BufferFits
    <3>2. Pending = sendBuf /\ Pending' = sendBuf'
      BY <1>1, <1>4, <2>1, <3>1 DEF Pending, Sending, BufferFits
    <3>3. PICK ph \in Phases :
            /\ Leads(sendBuf, View(wire), [phase |-> ph, key |-> key, seq |-> Position])
            /\ Awaited => ph = "handshake"
      BY <1>3, <3>2 DEF Chain
    <3> DEFINE u == [phase |-> ph, key |-> key, seq |-> Position]
    <3>4. Allowed(u, rec[p])
      <4>1. rec[p].kind = "finished" => Awaited
        BY <3>1 DEF Awaited, AwaitsFinish, WritesFinished, Writing
      <4> QED BY <2>1, <3>3, <4>1 DEF Allowed, Fits
    <3>5. rec[p] \in Sealed
      BY <2>1 DEF BaseInv, TypeOK, CallInv, RecordFits, Sealed, Records, Handshakes, Alerts, Writing
    <3>6. Leads(sendBuf', View(wire'), Passed(u, rec[p]))
      BY <1>1, <3>1, <3>3, <3>4, <3>5, LeadsFurther
    <3> QED BY <2>1, <2>3, <2>5, <3>2, <3>3, <3>6 DEF Chain
  <2> QED BY <1>16, <2>6, <2>7 DEF Writes, Send
<1> QED BY <1>7, <1>8, <1>9, <1>10, <1>11, <1>13, <1>14, <1>15, <1>16 DEF StreamStep

LEMMA StreamPreserved ==
  ASSUME BaseInv, StreamInv, "huge" \notin Arrivals, NEW p \in Proc, Step(p)
  PROVE  StreamInv'
<1>1. StreamStep(p) /\ NoBareAlert /\ Steady /\ (~overlap => Orderly)
  BY StreamKinds DEF StreamInv
<1>2. NoBareAlert' /\ Steady'
  BY <1>1, NoBarePreserved, SteadyPreserved
<1>3. ASSUME ~overlap'
      PROVE  Orderly'
  <2>1. ~overlap
    BY <1>1, <1>3 DEF StreamStep, Elsewhere, Settles, Seals, HandshakeBuffers, LoadBuffer, FlushNothing,
       FlushStarts, FlushSends, FlushClears, FlushEnds, Writes, Send, outgoing, buffer
  <2>2. Orderly
    BY <1>1, <2>1
  <2> QED BY <1>1, <1>3, <2>2, KeysPreserved, MayPreserved, SettlesPreserved, BuffersPreserved,
             ChainPreserved DEF Orderly, InStep
<1> QED BY <1>2, <1>3 DEF StreamInv

\* Every record is a step of the stream, everything else leaves it alone.
LEMMA StreamSteps ==
  ASSUME BaseInv, StreamInv, NEW p \in Proc, Step(p)
  PROVE  [Stream!StreamNext]_<<wire.phase, wire.ended, wire.sent>>
<1>1. /\ StreamStep(p) /\ NoBareAlert /\ Steady /\ (~overlap => Orderly)
      /\ wire \in Wires /\ wire.ended \in BOOLEAN /\ wire.phase \in Phases
      /\ handshakes \in Nat
  BY StreamKinds DEF StreamInv, BaseInv, TypeOK, Wires, Phases
<1> USE DEF Stream!StreamNext, Stream!BeginHandshake, Stream!FinishHandshake,
        Stream!SendData, Stream!EndStream
<1>2. CASE wire' = PeerCutOff(wire)
  BY <1>1, <1>2 DEF PeerCutOff, Wires
<1>3. ASSUME NEW r, r.kind = "data" => ~wire.ended /\ wire.phase = "open",
             r.kind = "finished" /\ ~wire.ended /\ Fits(wire, r) => wire.phase # "clear",
             wire' = PeerReads(wire, r)
      PROVE  [Stream!StreamNext]_<<wire.phase, wire.ended, wire.sent>>
  <2>1. CASE wire.ended
    BY <1>3, <2>1 DEF PeerReads
  <2>2. CASE ~wire.ended /\ ~Fits(wire, r)
    <3>1. wire' = [wire EXCEPT !.state = "garbled", !.ended = TRUE]
      BY <1>3, <2>2 DEF PeerReads
    <3> QED BY <1>1, <3>1 DEF Wires
  <2>3. CASE ~wire.ended /\ Fits(wire, r)
    <3>1. wire' = PeerDecrypts(wire, r)
      BY <1>3, <2>3 DEF PeerReads
    <3>2. /\ wire'.ended = (r.kind \in Alerts \cup {"notify"})
          /\ wire'.sent = IF r.kind = "data" THEN wire.sent + 1 ELSE wire.sent
          /\ wire'.phase = CASE r.kind = "hello" -> "handshake"
                             [] r.kind = "finished" -> "open"
                             [] OTHER -> wire.phase
      <4>1. /\ wire'.ended = (r.kind \in Alerts \cup {"notify"})
            /\ wire'.sent = IF r.kind = "data" THEN wire.sent + 1 ELSE wire.sent
            /\ wire'.phase = Passed(View(wire), r).phase
        BY <1>1, <2>3, <3>1, Decrypted
      <4>2. Passed(View(wire), r).phase = CASE r.kind = "hello" -> "handshake"
                                            [] r.kind = "finished" -> "open"
                                            [] OTHER -> wire.phase
        BY DEF Passed, View
      <4> QED BY <4>1, <4>2
    <3>3. CASE r.kind = "hello"
      BY <1>1, <2>3, <3>2, <3>3 DEF Alerts, Phases
    <3>4. CASE r.kind = "finished"
      BY <1>1, <1>3, <2>3, <3>2, <3>4 DEF Alerts, Phases
    <3>5. CASE r.kind = "data"
      BY <1>1, <1>3, <2>3, <3>2, <3>5 DEF Alerts, Phases
    <3>6. CASE r.kind \notin {"hello", "finished", "data"}
      <4>1. wire'.phase = wire.phase /\ wire'.sent = wire.sent
        BY <3>2, <3>6
      <4>2. wire'.ended = TRUE \/ wire'.ended = wire.ended
        <5>1. wire.ended = FALSE
          BY <1>1, <2>3
        <5>2. wire'.ended \in BOOLEAN
          BY <3>2
        <5> QED BY <5>1, <5>2
      <4> QED BY <4>1, <4>2
    <3> QED BY <3>3, <3>4, <3>5, <3>6
  <2> QED BY <1>1, <2>1, <2>2, <2>3
<1>4. overlap => wire.phase # "clear"
  BY <1>1 DEF Steady, Overlapped
<1>5. ASSUME NEW ok \in BOOLEAN, Writes(p, ok), ToSocket(p, ok), ok
      PROVE  [Stream!StreamNext]_<<wire.phase, wire.ended, wire.sent>>
  <2>1. pc[p] = "put" /\ ~buffering /\ wire' = PeerReads(wire, rec[p])
    BY <1>5 DEF ToSocket
  <2>2. rec[p].kind = "data" => ~wire.ended /\ wire.phase = "open"
    BY <1>1, <2>1 DEF Steady, DataOnItsWay
  <2>3. rec[p].kind = "finished" => wire.phase # "clear"
    BY <1>1, <1>4, <2>1 DEF Orderly, BufferFits, MustBuffer
  <2> QED BY <1>3, <2>1, <2>2, <2>3
<1>6. ASSUME NEW ok \in BOOLEAN, FlushSends(p, ok), wire' = PeerReads(wire, Head(flight))
      PROVE  [Stream!StreamNext]_<<wire.phase, wire.ended, wire.sent>>
  <2>1. pc[p] = "send" /\ flight # << >> /\ flight \in Seq(Sealed)
    BY <1>6 DEF FlushSends, BaseInv, TypeOK
  <2>2. Head(flight).kind # "data"
    BY <1>1, <2>1 DEF Steady, Marked
  <2>3. Head(flight).kind = "finished" /\ ~wire.ended => wire.phase # "clear"
    BY <1>1, <1>4, <2>1, NextPending
  <2> QED BY <1>3, <1>6, <2>2, <2>3
<1>7. \/ UNCHANGED wire \/ wire' = PeerCutOff(wire)
      \/ \E ok \in BOOLEAN : Writes(p, ok) /\ ToSocket(p, ok) /\ ok
      \/ \E ok \in BOOLEAN : FlushSends(p, ok) /\ wire' = PeerReads(wire, Head(flight))
  BY <1>1 DEF StreamStep, Elsewhere, Settles, Seals, HandshakeBuffers, LoadBuffer, FlushNothing,
     FlushStarts, FlushSends, FlushClears, FlushEnds, Writes, Send, ToSocket, ToBuffer, outgoing
<1> QED BY <1>2, <1>5, <1>6, <1>7

LEMMA InitStream == Init => StreamInv
<1> SUFFICES ASSUME Init PROVE StreamInv
  OBVIOUS
<1>1. NoBareAlert
  BY DEF Init, NoBareAlert, Writing, Messages
<1>2. Steady
  BY DEF Init, Steady, Marked, Stamped, DataOnItsWay
<1>3. Chained
  <2>1. Pending = << >> /\ Position = 0 /\ key = 0 /\ ~Awaited
    BY DEF Init, Pending, Sending, Position, Free, Awaited, AwaitsFinish, WritesFinished, Writing, Flushing
  <2>2. View(wire) = [phase |-> "clear", key |-> 0, seq |-> 0] /\ View(wire) \in Views
    BY DEF Init, View, Views, Phases
  <2>3. Leads(<< >>, View(wire), View(wire))
    BY <2>2, LeadsNowhere
  <2> QED BY <2>1, <2>2, <2>3 DEF Chained, Chain, Phases
<1>4. InStep /\ \A p \in Proc : SettlesOpen(p) /\ BufferFits(p)
  BY DEF Init, InStep, MaySendData, SettlesOpen, BufferFits, Flushing
<1> QED BY <1>1, <1>2, <1>3, <1>4 DEF Init, StreamInv, Orderly

\* A closing alert that counts as sent has ended the stream or waits in the
\* buffer, unless flush and write have overlapped.
Waits == \E i \in DOMAIN Pending : Pending[i].kind = "notify"

Told ==
  closeNotifySent => handshakes > 0 /\ (overlap \/ wire.ended \/ Waits)

\* The peer reads to the end of the stream and no further.
LEMMA EndsThere ==
  ASSUME NEW w \in Wires, NEW r
  PROVE  /\ PeerCutOff(w).ended
         /\ r.kind = "notify" => PeerReads(w, r).ended
         /\ w.ended => PeerReads(w, r).ended
<1>1. PeerCutOff(w).ended
  BY DEF PeerCutOff, Wires
<1>2. PeerDecrypts(w, r).ended = (r.kind \in Alerts \cup {"notify"})
  BY DEF PeerDecrypts, Wires
<1>3. /\ [w EXCEPT !.state = "garbled", !.ended = TRUE].ended
      /\ [w EXCEPT !.sent = @ + 1].ended = w.ended
      /\ w.ended \in BOOLEAN
  BY DEF Wires
<1>4. ASSUME w.ended PROVE PeerReads(w, r).ended
  BY <1>3, <1>4 DEF PeerReads
<1>5. ASSUME r.kind = "notify" PROVE PeerReads(w, r).ended
  BY <1>2, <1>3, <1>4, <1>5 DEF PeerReads
<1> QED BY <1>1, <1>4, <1>5

\* From the buffer to the socket the closing alert is not lost.
LEMMA ToldPreserved ==
  ASSUME BaseInv, StreamInv, Told, NEW p \in Proc, Step(p)
  PROVE  Told'
<1>1. /\ StreamStep(p) /\ NoBareAlert /\ Steady /\ (~overlap => Orderly)
      /\ wire \in Wires /\ flight \in Seq(Sealed) /\ base \in Seq(Sealed)
      /\ handshakes \in Nat /\ pc \in [Proc -> Places]
  BY StreamKinds DEF StreamInv, BaseInv, TypeOK, Wires, Phases
<1>2. /\ \A q \in Proc \ {p} : pc'[q] = pc[q]
      /\ handshakes' \in {handshakes, handshakes + 1}
  BY OthersStay, HandshakeSteps DEF Others, HandshakeStep
<1>3. closeNotifySent' => \/ closeNotifySent
                          \/ \E ok \in BOOLEAN : Writes(p, ok) /\ rec[p].kind = "notify"
  BY <1>1 DEF StreamStep, Elsewhere, Settles, Seals, HandshakeBuffers, LoadBuffer, FlushNothing,
     FlushStarts, FlushSends, FlushClears, FlushEnds, Writes, outgoing
<1>4. closeNotifySent' => handshakes' > 0
  <2>1. ASSUME NEW ok \in BOOLEAN, Writes(p, ok), rec[p].kind = "notify"
        PROVE  handshakes > 0
    <3>1. pc[p] \in Writing
      BY <2>1 DEF Writes, Send, ToSocket, ToBuffer, Writing
    <3> QED BY <2>1, <3>1 DEF BaseInv, HandshakeInv, PastHandshake
  <2> QED BY <1>1, <1>2, <1>3, <2>1 DEF Told
<1>5. wire.ended => wire'.ended
  <2>1. \/ UNCHANGED wire \/ wire' = PeerCutOff(wire)
        \/ \E r : wire' = PeerReads(wire, r)
    BY <1>1 DEF StreamStep, Elsewhere, Settles, Seals, HandshakeBuffers, LoadBuffer, FlushNothing,
       FlushStarts, FlushSends, FlushClears, FlushEnds, Writes, Send, ToSocket, ToBuffer, outgoing
  <2> QED BY <1>1, <2>1, EndsThere
<1>6. overlap => overlap'
  BY <1>1 DEF StreamStep, Elsewhere, Settles, Seals, HandshakeBuffers, LoadBuffer, FlushNothing,
     FlushStarts, FlushSends, FlushClears, FlushEnds, Writes, Send, outgoing, buffer
<1> SUFFICES ASSUME closeNotifySent', ~overlap', ~wire'.ended
             PROVE  Waits'
  BY <1>4 DEF Told
<1>7. closeNotifySent => Waits
  BY <1>5, <1>6 DEF Told
<1>8. ASSUME UNCHANGED <<closeNotifySent, sendBuf, flight>>, pc[p] # "send", pc'[p] # "send"
      PROVE  Waits'
  <2>1. Sending' <=> Sending
    BY <1>2, <1>8 DEF Sending
  <2> QED BY <1>7, <1>8, <2>1 DEF Waits, Pending
<1>9. CASE \/ Elsewhere(p) \/ Settles(p) \/ Seals(p) \/ HandshakeBuffers(p) \/ LoadBuffer(p)
           \/ (FlushNothing(p) \/ FlushEnds(p)) /\ GoesOn(p)
  <2>1. pc[p] # "send" /\ pc'[p] # "send"
    BY <1>1, <1>9 DEF Elsewhere, Settles, Seals, HandshakeBuffers, LoadBuffer, FlushNothing, FlushEnds,
       GoesOn, Goto, Flushing
  <2>2. UNCHANGED <<closeNotifySent, sendBuf, flight>>
    BY <1>9 DEF Elsewhere, Settles, Seals, HandshakeBuffers, LoadBuffer, FlushNothing, FlushEnds,
       outgoing, buffer
  <2> QED BY <1>8, <2>1, <2>2
<1>10. ASSUME pc[p] \in Flushing
       PROVE  \A q \in Proc \ {p} : pc[q] \notin Flushing
  BY <1>1, <1>10, Apart DEF HoldsHandshake
<1>11. CASE FlushStarts(p)
  <2>1. /\ pc[p] = "flush" /\ pc'[p] = "send" /\ flight' = sendBuf
        /\ UNCHANGED closeNotifySent
    BY <1>1, <1>11 DEF FlushStarts, Goto, Places, Flushing
  <2>2. ~Sending /\ Sending'
    BY <1>10, <2>1 DEF Sending, Flushing
  <2> QED BY <1>7, <2>1, <2>2 DEF Waits, Pending
<1>12. CASE FlushClears(p)
  <2>1. pc[p] = "send" /\ flight = << >> /\ UNCHANGED closeNotifySent
    BY <1>12 DEF FlushClears
  <2>2. Pending = << >>
    BY <2>1 DEF Sending, Pending
  <2> QED BY <1>7, <2>1, <2>2 DEF Waits
<1>13. ASSUME NEW ok \in BOOLEAN, FlushSends(p, ok)
       PROVE  Waits'
  <2>1. /\ pc[p] = "send" /\ flight # << >> /\ UNCHANGED <<pc, closeNotifySent>>
        /\ wire' = PeerReads(wire, Head(flight)) /\ flight' = Tail(flight)
    BY <1>1, <1>13, EndsThere DEF FlushSends
  <2>2. Pending = flight /\ Pending' = flight'
    BY <2>1 DEF Pending, Sending
  <2>3. PICK i \in DOMAIN flight : flight[i].kind = "notify"
    BY <1>7, <2>1, <2>2 DEF Waits
  <2>4. i # 1
    BY <1>1, <2>1, <2>3, EndsThere
  <2>5. i - 1 \in DOMAIN Tail(flight) /\ Tail(flight)[i - 1] = flight[i]
    BY <1>1, <2>1, <2>3, <2>4
  <2> QED BY <2>1, <2>2, <2>3, <2>5 DEF Waits
<1>14. ASSUME NEW ok \in BOOLEAN, Writes(p, ok)
       PROVE  Waits'
  <2>1. pc'[p] # "send" /\ pc[p] \in {"put", "append"}
    BY <1>14 DEF Writes, Send, ToSocket, ToBuffer
  <2>2. CASE ToSocket(p, ok)
    <3>1. /\ UNCHANGED sendBuf
          /\ wire' = IF ok THEN PeerReads(wire, rec[p]) ELSE PeerCutOff(wire)
      BY <2>2 DEF ToSocket
    <3>2. UNCHANGED closeNotifySent
      BY <1>1, <1>3, <1>14, <3>1, EndsThere DEF Writes
    <3>3. UNCHANGED flight
      BY <1>14 DEF Writes, Send
    <3> QED BY <1>8, <2>1, <3>1, <3>2, <3>3
  <2>3. CASE ToBuffer(p)
    <3>1. pc[p] = "append" /\ sendBuf' = Append(base, rec[p]) /\ base = sendBuf
      BY <1>1, <1>6, <2>3 DEF ToBuffer, Orderly, BufferFits
    <3>2. Pending = sendBuf /\ Pending' = sendBuf'
      <4>1. \A q \in Proc : pc[q] # "send"
        BY <1>1, <1>6, <3>1 DEF Orderly, BufferFits
      <4>2. ~Sending /\ ~Sending'
        BY <1>2, <2>1, <4>1 DEF Sending
      <4> QED BY <4>2 DEF Pending
    <3>3. CASE closeNotifySent
      <4>1. PICK i \in DOMAIN sendBuf : sendBuf[i].kind = "notify"
        BY <1>7, <3>2, <3>3 DEF Waits
      <4>2. i \in DOMAIN sendBuf' /\ sendBuf'[i] = sendBuf[i]
        BY <1>1, <3>1
      <4> QED BY <3>2, <4>1, <4>2 DEF Waits
    <3>4. CASE ~closeNotifySent
      <4>1. rec[p].kind = "notify"
        BY <1>3, <3>4
      <4>2. Len(base) + 1 \in DOMAIN sendBuf' /\ sendBuf'[Len(base) + 1] = rec[p]
        BY <1>1, <3>1
      <4> QED BY <3>2, <4>1, <4>2 DEF Waits
    <3> QED BY <3>3, <3>4
  <2> QED BY <1>14, <2>2, <2>3 DEF Writes, Send
<1> QED BY <1>1, <1>9, <1>11, <1>12, <1>13, <1>14 DEF StreamStep

-----------------------------------------------------------------------------
(* The handshake messages in c.hand, in TLS 1.3.                           *)

WritesBare(p) == pc[p] \in Writing /\ rec[p].kind = "bare"

\* At most one message waits; unless somebody is about to deal with it, it is
\* the first half of one, or too large, which fails in before in is given back.
HandInv ==
  mode.v13 =>
    /\ Len(hand) <= 1
    /\ \A p \in Proc : pc[p] # "aheadMore"
    /\ \/ hand = << >>
       \/ Head(hand) = "half"
       \/ \E p \in Proc : pc[p] = "post"
       \/ Head(hand) = "huge" /\ (inErr \/ \E p \in Proc : WritesBare(p))

\* What a step does to them: it leaves them alone, finds one it cannot deal with
\* alone, deals with the first, or reads one.
HandStep(p) ==
  /\ mode' = mode /\ (inErr => inErr')
  /\ mode.v13 =>
     \/ /\ pc[p] # "post" /\ pc'[p] # "aheadMore" /\ hand' = hand
        /\ WritesBare(p) => WritesBare(p)' \/ inErr'
     \/ /\ pc[p] = "post" /\ pc'[p] # "aheadMore" /\ hand' = hand
        /\ hand = << >> \/ Head(hand) = "half" \/ (Head(hand) = "huge" /\ WritesBare(p)')
     \/ /\ pc[p] = "post" /\ pc'[p] # "aheadMore" /\ hand # << >> /\ hand' = Tail(hand)
     \/ /\ pc[p] \in Reading /\ pc'[p] = "post" /\ ~inErr
        /\ \E kind \in Messages :
             hand' = CASE hand # << >> /\ hand[Len(hand)] = "half" -> [hand EXCEPT ![Len(hand)] = kind]
                       [] OTHER -> Append(hand, kind)

LEMMA HandSteps ==
  ASSUME BaseInv, HandInv, NEW p \in Proc, Step(p)
  PROVE  HandStep(p)
<1>a. Movements(p)
  BY Moving DEF BaseInv, TypeOK, LocalTypes
<1>b. CallFits(p) /\ RecordFits(p)
  BY DEF BaseInv, CallInv
<1>c. (mode.v13 => pc[p] # "aheadMore") /\ hand \in Seq(Messages) /\ inErr \in BOOLEAN
  BY DEF BaseInv, TypeOK, HandInv
<1> USE <1>a, <1>b, <1>c DEF Movements, HandStep, WritesBare, CallFits, RecordFits,
        Handshakes, Alerts, Records, Reading, Writing, Flushing, Places, handshake, incoming
<1>1. CASE BeginRead(p)
  BY <1>1 DEF BeginRead
<1>2. CASE BeginWrite(p)
  BY <1>2 DEF BeginWrite
<1>3. CASE BeginClose(p)
  BY <1>3 DEF BeginClose
<1>4. CASE BeginCloseWrite(p)
  BY <1>4 DEF BeginCloseWrite
<1>5. CASE HandshakeDone(p)
  BY <1>5 DEF HandshakeDone
<1>6. CASE HandshakeStarts(p)
  BY <1>6 DEF HandshakeStarts
<1>7. CASE HandshakeTakesIn(p)
  BY <1>7 DEF HandshakeTakesIn
<1>8. CASE LockRead(p)
  BY <1>8 DEF LockRead
<1>9. CASE Renegotiate(p)
  BY <1>9 DEF Renegotiate
<1>10. CASE Seal(p)
  <2>1. rec' = [rec EXCEPT ![p] = [rec[p] EXCEPT !.key = key, !.seq = seq]]
    BY <1>10 DEF Seal, Encrypt
  <2>2. pc'[p] = "put" /\ rec'[p].kind = rec[p].kind
    BY <1>10, <2>1 DEF Seal, Encrypt, BaseInv, TypeOK
  <2> QED BY <1>10, <2>2 DEF Seal
<1>11. CASE SealRefused(p)
  BY <1>11 DEF SealRefused
<1>12. CASE CloseChecks(p)
  BY <1>12 DEF CloseChecks
<1>13. CASE Shut(p)
  BY <1>13 DEF Shut
<1>14. CASE SealBare(p)
  <2>1. rec' = [rec EXCEPT ![p] = [rec[p] EXCEPT !.key = key, !.seq = seq]]
    BY <1>14 DEF SealBare, Encrypt
  <2>2. pc'[p] = "put" /\ rec'[p].kind = rec[p].kind
    BY <1>14, <2>1 DEF SealBare, Encrypt, BaseInv, TypeOK
  <2> QED BY <1>14, <2>2 DEF SealBare
<1>15. CASE Take(p)
  BY <1>15 DEF Take
<1>16. CASE NoMessage(p)
  BY <1>16 DEF NoMessage
<1>17. CASE WantMore(p)
  BY <1>17 DEF WantMore, HasMessage
<1>18. CASE Oversized(p)
  BY <1>18 DEF Oversized, HasMessage
<1>19. CASE Malformed(p)
  BY <1>19 DEF Malformed, HasMessage
<1>20. CASE Reject(p)
  BY <1>20 DEF Reject, HasMessage
<1>21. CASE Absorb(p)
  BY <1>21 DEF Absorb, HasMessage, Handled
<1>22. CASE AnswerUpdate(p)
  BY <1>22 DEF AnswerUpdate, HasMessage
<1>23. CASE AcceptRenegotiation(p)
  BY <1>23 DEF AcceptRenegotiation, HasMessage, Welcome
<1>24. CASE ReceiveData(p)
  BY <1>24 DEF ReceiveData, Receives, RecordRead
<1>25. CASE ReceiveMessage(p)
  <2>1. PICK kind \in Messages :
          /\ Receives(p, kind)
          /\ hand' = CASE hand # << >> /\ hand[Len(hand)] = "half" -> [hand EXCEPT ![Len(hand)] = kind]
                      [] OTHER -> Append(hand, kind)
          /\ RecordRead(p, hand', input)
          /\ UNCHANGED inErr
    BY <1>25 DEF ReceiveMessage
  <2>2. mode' = mode /\ pc[p] \in Reading /\ ~inErr /\ UNCHANGED inErr
    BY <2>1 DEF Receives
  <2>3. hand' # << >>
    BY <2>1
  <2>4. ASSUME mode.v13 PROVE pc'[p] = "post"
    <3>1. pc[p] \notin {"ahead", "aheadMore"}
      BY <2>1, <2>4 DEF Receives, Ahead, Messages
    <3>2. ReadOn(p, hand', input)
      BY <2>1, <3>1 DEF RecordRead
    <3> QED BY <2>3, <3>2 DEF ReadOn, BaseInv, TypeOK
  <2> HIDE DEF Movements
  <2> QED BY <2>1, <2>2, <2>4
<1>26. CASE ReceiveIgnored(p)
  BY <1>26 DEF ReceiveIgnored, Receives, Ahead, Ignored
<1>27. CASE ReceiveEnd(p)
  BY <1>27 DEF ReceiveEnd, Receives
<1>28. CASE ReceiveBad(p)
  BY <1>28 DEF ReceiveBad, Receives
<1>29. CASE ReadFails(p)
  BY <1>29 DEF ReadFails
<1>30. CASE HandshakeFails(p)
  <2>1. inErr' = inErr \/ inErr' = TRUE
    BY <1>30 DEF HandshakeFails
  <2>2. inErr => inErr'
    BY <2>1
  <2> QED BY <1>30, <2>2 DEF HandshakeFails, InHandshake, GiveUp, HandshakeFailed
<1>31. CASE HandshakeAlerts(p)
  <2>1. inErr' = inErr \/ inErr' = TRUE
    BY <1>31 DEF HandshakeAlerts
  <2>2. inErr => inErr'
    BY <2>1
  <2> QED BY <1>31, <2>2 DEF HandshakeAlerts, InHandshake
<1>32. CASE HandshakeSucceeds(p)
  BY <1>32 DEF HandshakeSucceeds
<1>33. ASSUME NEW ok \in BOOLEAN, PutData(p, ok) PROVE HandStep(p)
  BY <1>33 DEF PutData, PutKind, Put, Send, ToSocket, ToBuffer
<1>34. ASSUME NEW ok \in BOOLEAN, PutNotify(p, ok) PROVE HandStep(p)
  BY <1>34 DEF PutNotify, PutKind, Put, Send, ToSocket, ToBuffer
<1>35. ASSUME NEW ok \in BOOLEAN, PutAlert(p, ok) PROVE HandStep(p)
  BY <1>35 DEF PutAlert, PutKind, Put, Send, ToSocket, ToBuffer
<1>36. ASSUME NEW ok \in BOOLEAN, PutHandshakeAlert(p, ok) PROVE HandStep(p)
  BY <1>36 DEF PutHandshakeAlert, GiveUp, HandshakeFailed, Send, ToSocket, ToBuffer
<1>37. ASSUME NEW ok \in BOOLEAN, PutUpdate(p, ok) PROVE HandStep(p)
  BY <1>37 DEF PutUpdate, PutKind, Put, Send, ToSocket, ToBuffer
<1>38. ASSUME NEW ok \in BOOLEAN, PutHandshake(p, ok) PROVE HandStep(p)
  <2>1. /\ UNCHANGED <<mode, hand, inErr>>
        /\ pc[p] \in {"put", "append"} /\ rec[p].kind \in Handshakes
    BY <1>38 DEF PutHandshake, Send, ToSocket, ToBuffer, GiveUp, HandshakeFailed
  <2>2. pc'[p] \in {"seal", "flush", "idle"}
    BY <1>38 DEF PutHandshake, HandshakeFailed
  <2> QED BY <2>1, <2>2
<1>39. CASE HandshakeBuffers(p)
  BY <1>39 DEF HandshakeBuffers
<1>40. CASE LoadBuffer(p)
  BY <1>40 DEF LoadBuffer
<1>41. CASE FlushNothing(p)
  BY <1>41 DEF FlushNothing, Flushed, HandshakeFailed
<1>42. CASE FlushStarts(p)
  BY <1>42 DEF FlushStarts
<1>43. ASSUME NEW ok \in BOOLEAN, FlushSends(p, ok)
       PROVE  HandStep(p)
  BY <1>43 DEF FlushSends
<1>44. CASE FlushClears(p)
  BY <1>44 DEF FlushClears
<1>45. CASE FlushEnds(p)
  BY <1>45 DEF FlushEnds, Flushed, HandshakeFailed
<1> QED
  BY <1>1, <1>2, <1>3, <1>4, <1>5, <1>6, <1>7, <1>8, <1>9, <1>10, <1>11, <1>12,
       <1>13, <1>14, <1>15, <1>16, <1>17, <1>18, <1>19, <1>20, <1>21, <1>22, <1>23, <1>24,
       <1>25, <1>26, <1>27, <1>28, <1>29, <1>30, <1>31, <1>32, <1>33, <1>34, <1>35, <1>36, <1>37, <1>38, <1>39, <1>40, <1>41,
       <1>42, <1>43, <1>44, <1>45
  DEF Step, Calls, LockSteps, LocalSteps, NetworkSteps, Receive, PutAny

LEMMA OneAtMost ==
  ASSUME NEW S, NEW s \in Seq(S), Len(s) <= 1, s # << >>
  PROVE  Len(s) = 1
<1>1. Len(s) \in Nat /\ Len(s) # 0
  OBVIOUS
<1> QED BY <1>1

LEMMA HandPreserved ==
  ASSUME BaseInv, HandInv, NEW p \in Proc, Step(p)
  PROVE  HandInv'
<1>1. Others(p) /\ mode \in Modes /\ hand \in Seq(Messages)
  BY OthersStay DEF BaseInv, TypeOK
<1>2. HandStep(p) /\ mode' = mode
  BY HandSteps DEF HandStep
<1> SUFFICES ASSUME mode.v13 PROVE HandInv'
  BY <1>2 DEF HandInv
<1>3. HandStep(p)
  BY <1>2
<1>4. /\ Len(hand) <= 1
      /\ \A q \in Proc : pc[q] # "aheadMore"
      /\ \/ hand = << >>
         \/ Head(hand) = "half"
         \/ \E q \in Proc : pc[q] = "post"
         \/ Head(hand) = "huge" /\ (inErr \/ \E q \in Proc : WritesBare(q))
  BY DEF HandInv
<1>5. \A q \in Proc \ {p} : pc'[q] = pc[q] /\ (WritesBare(q)' <=> WritesBare(q))
  BY <1>1 DEF Others, WritesBare
<1>6. \A q \in Proc : pc'[q] # "aheadMore"
  BY <1>3, <1>4, <1>5 DEF HandStep
<1>7. CASE hand' = hand
  BY <1>3, <1>4, <1>5, <1>6, <1>7 DEF HandStep, HandInv
<1>8. CASE hand # << >> /\ hand' = Tail(hand)
  <2>1. hand' = << >>
    BY <1>1, <1>4, <1>8
  <2> QED BY <1>6, <2>1 DEF HandInv
<1>9. ASSUME pc[p] \in Reading, pc'[p] = "post", ~inErr, NEW kind \in Messages,
             hand' = CASE hand # << >> /\ hand[Len(hand)] = "half" -> [hand EXCEPT ![Len(hand)] = kind]
                       [] OTHER -> Append(hand, kind)
      PROVE  HandInv'
  <2>1. \A q \in Proc : pc[q] # "post" /\ ~WritesBare(q)
    <3>1. \A q \in Proc : HoldsIn(q) => q = p
      BY <1>9 DEF BaseInv, LockDiscipline, HoldsIn
    <3>2. pc[p] # "post" /\ ~WritesBare(p)
      BY <1>9 DEF Reading, Writing, Flushing, WritesBare
    <3>3. \A q \in Proc : pc[q] = "post" \/ WritesBare(q) => HoldsIn(q)
      BY DEF HoldsIn, WritesBare, Alerts
    <3> QED BY <3>1, <3>2, <3>3
  <2>2. hand = << >> \/ (Len(hand) = 1 /\ hand[Len(hand)] = "half")
    <3>1. hand = << >> \/ Head(hand) = "half"
      BY <1>4, <1>9, <2>1
    <3>2. hand # << >> => Len(hand) = 1
      BY <1>1, <1>4, OneAtMost
    <3>3. Head(hand) = hand[1]
      OBVIOUS
    <3> QED BY <3>1, <3>2, <3>3
  <2>3. Len(hand') <= 1
    BY <1>1, <1>9, <2>2
  <2> QED BY <1>6, <1>9, <2>3 DEF HandInv
<1> QED BY <1>3, <1>7, <1>8, <1>9 DEF HandStep

LEMMA Waiting ==
  ASSUME BaseInv, HandInv
  PROVE  KeysInStep
<1> SUFFICES ASSUME NEW p \in Proc, pc[p] \in Reading, mode.v13, NEW i \in DOMAIN hand
             PROVE  hand[i] \notin {"update", "updateReq"}
  BY DEF KeysInStep
<1>1. hand \in Seq(Messages) /\ Len(hand) <= 1
  BY DEF BaseInv, TypeOK, HandInv
<1>2. i = 1 /\ hand # << >> /\ Head(hand) = hand[1]
  BY <1>1
<1>3. \A q \in Proc : pc[q] # "post"
  <2>1. \A q \in Proc : HoldsIn(q) => q = p
    BY DEF BaseInv, LockDiscipline, HoldsIn
  <2> QED BY <2>1 DEF HoldsIn, Reading, Writing, Flushing
<1>4. Head(hand) = "half" \/ Head(hand) = "huge"
  BY <1>2, <1>3 DEF HandInv
<1> QED BY <1>2, <1>4

-----------------------------------------------------------------------------
(* The theorems.                                                           *)

LEMMA Stutter ==
  ASSUME UNCHANGED vars
  PROVE  (IInv => IInv') /\ (StreamInv => StreamInv')
<1>1. BaseInv => BaseInv'
  BY DEF vars, buffer, BaseInv, TypeOK, CallInv, CallFits, RecordFits, LockDiscipline,
         HoldsIn, HoldsOut, HoldsHandshake, HandshakeInv, PastHandshake, Renegotiates, Free
<1>2. ActiveCallCounts => ActiveCallCounts'
  BY DEF vars, ActiveCallCounts, Writers, Closed
<1>3. StreamInv => StreamInv'
  <2>1. NoBareAlert => NoBareAlert'
    BY DEF vars, NoBareAlert
  <2>2. Steady => Steady'
    BY DEF vars, Steady, Marked, Overlapped, Stamped, DataOnItsWay, InFlight, WritesFinished
  <2>3. Chained => Chained'
    <3>1. Pending' = Pending /\ Position' = Position /\ (Awaited' <=> Awaited) /\ UNCHANGED <<wire, key>>
      BY DEF vars, Pending, Sending, Position, Awaited, AwaitsFinish, WritesFinished, Free
    <3> QED BY <3>1, ChainedNext DEF Chained, Chain
  <2>4. Orderly => Orderly'
    BY <2>3 DEF vars, Orderly, InStep, MaySendData, SettlesOpen, BufferFits, MustBuffer
  <2> QED BY <2>1, <2>2, <2>4 DEF vars, StreamInv
<1> QED BY <1>1, <1>2, <1>3 DEF IInv

\* The invariant holds.
LEMMA Invariance == Spec => []IInv
<1>1. IInv /\ [Next]_vars => IInv'
  <2> SUFFICES ASSUME IInv, [Next]_vars PROVE IInv'
    OBVIOUS
  <2>1. CASE UNCHANGED vars
    BY <2>1, Stutter
  <2>2. ASSUME NEW p \in Proc, Step(p) PROVE IInv'
    BY <2>2, StepIInv
  <2> QED BY <2>1, <2>2, StepOrStutter
<1> QED BY <1>1, InitIInv, PTL DEF Spec

\* Every variable keeps its type; activeCall never falls below zero, however
\* Write and Close overlap (the compare-and-swap loops and the AddInt32 of Write).
THEOREM TlsTypeCorrect == Spec => []TypeOK
<1>1. IInv => TypeOK
  BY DEF IInv, BaseInv
<1> QED BY <1>1, Invariance, PTL

\* A mutex is held by one goroutine at a time, exactly in the code it guards,
\* over all paths that give it back (the Lock and defer Unlock pairs of conn.go).
THEOREM TlsExclusion == Spec => []LockDiscipline
<1>1. IInv => LockDiscipline
  BY DEF IInv, BaseInv
<1> QED BY <1>1, Invariance, PTL

\* The opposite orders in which Handshake and handleRenegotiation take their two
\* mutexes never meet: the first belongs to the first handshake, before which
\* nobody reads.
THEOREM LockOrderIsSafe == Spec => []NoInversion
<1>1. IInv => NoInversion
  BY DEF IInv, BaseInv, TypeOK, HandshakeInv, PastHandshake, NoInversion
<1> QED BY <1>1, Invariance, PTL

\* activeCall is the number of Writes in flight and the mark of Close, whatever
\* ended the Writes.
THEOREM ActiveCallIsExact == Spec => []ActiveCallCounts
<1>1. IInv => ActiveCallCounts
  BY DEF IInv
<1> QED BY <1>1, Invariance, PTL

\* In TLS 1.3 every KeyUpdate is applied before the next record is read, by the
\* Read that found it or by the next one (Read's loop over c.hand).
THEOREM KeysStayInStep == Spec => []KeysInStep
<1>1. Init => HandInv
  BY DEF Init, HandInv
<1>2. IInv /\ HandInv /\ [Next]_vars => (IInv /\ HandInv)'
  <2> SUFFICES ASSUME IInv, HandInv, [Next]_vars PROVE (IInv /\ HandInv)'
    OBVIOUS
  <2>1. CASE UNCHANGED vars
    <3>1. HandInv'
      BY <2>1 DEF vars, HandInv, WritesBare
    <3> QED BY <2>1, <3>1, Stutter
  <2>2. ASSUME NEW p \in Proc, Step(p) PROVE (IInv /\ HandInv)'
    BY <2>2, StepIInv, HandPreserved DEF IInv
  <2> QED BY <2>1, <2>2, StepOrStutter
<1>3. IInv /\ HandInv => KeysInStep
  BY Waiting DEF IInv
<1> QED BY <1>1, <1>2, <1>3, InitIInv, PTL DEF Spec

\* Without oversized handshake messages nobody writes an alert without out.
LEMMA StreamInvariance ==
  ASSUME "huge" \notin Arrivals
  PROVE  Spec => [](IInv /\ StreamInv)
<1>1. IInv /\ StreamInv /\ [Next]_vars => (IInv /\ StreamInv)'
  <2> SUFFICES ASSUME IInv, StreamInv, [Next]_vars PROVE (IInv /\ StreamInv)'
    OBVIOUS
  <2>1. CASE UNCHANGED vars
    BY <2>1, Stutter
  <2>2. ASSUME NEW p \in Proc, Step(p) PROVE (IInv /\ StreamInv)'
    BY <2>2, StepIInv, StreamPreserved DEF IInv
  <2> QED BY <2>1, <2>2, StepOrStutter
<1> QED BY <1>1, InitIInv, InitStream, PTL DEF Spec

\* Unless the peer sends an oversized handshake message, records reach the
\* socket, through the buffer or not, in the order of their sequence numbers and
\* each under the key the peer expects, across handshakes, renegotiations and key
\* updates, as long as flush and the write of another goroutine do not meet; they
\* only meet in the renegotiation of a client (write, flush and their callers).
THEOREM RecordsStayInOrder ==
  ASSUME "huge" \notin Arrivals
  PROVE  Spec => []RecordsInOrder
<1>1. IInv /\ StreamInv => RecordsInOrder
  BY DEF IInv, BaseInv, TypeOK, StreamInv, Steady, Overlapped, Orderly, InStep, RecordsInOrder
<1> QED BY <1>1, StreamInvariance, PTL

\* Under the same condition what goes out is a TLS stream: no application data
\* during a handshake, after the closing alert or behind a failed record.
THEOREM StreamRefined ==
  ASSUME "huge" \notin Arrivals
  PROVE  Spec => ImplementsStream
<1>1. Init => Stream!StreamInit
  BY DEF Init, Stream!StreamInit
<1>2. ASSUME IInv, StreamInv, [Next]_vars
      PROVE  [Stream!StreamNext]_<<wire.phase, wire.ended, wire.sent>>
  <2>1. CASE UNCHANGED vars
    BY <2>1 DEF vars
  <2>2. ASSUME NEW p \in Proc, Step(p)
        PROVE  [Stream!StreamNext]_<<wire.phase, wire.ended, wire.sent>>
    BY <1>2, <2>2, StreamSteps DEF IInv
  <2> QED BY <1>2, <2>1, <2>2, StepOrStutter
<1> QED BY <1>1, <1>2, StreamInvariance, PTL
    DEF Spec, ImplementsStream, Stream!StreamSpec, Stream!svars

\* Under the same condition a closing alert that counts as sent tells the peer of
\* the end, also one that waits in the buffer of a renegotiation, unless that
\* fails or flush and the write of another goroutine meet (closeNotify, write,
\* flush).
THEOREM PeerIsTold ==
  ASSUME "huge" \notin Arrivals
  PROVE  Spec => []ShutsDown
<1>1. Init => Told
  BY DEF Init, Told
<1>2. IInv /\ StreamInv /\ Told /\ [Next]_vars => Told'
  <2> SUFFICES ASSUME IInv, StreamInv, Told, [Next]_vars PROVE Told'
    OBVIOUS
  <2>1. CASE UNCHANGED vars
    BY <2>1 DEF vars, Told, Waits, Pending, Sending
  <2>2. ASSUME NEW p \in Proc, Step(p) PROVE Told'
    BY <2>2, ToldPreserved DEF IInv
  <2> QED BY <2>1, <2>2, StepOrStutter
<1>3. IInv /\ StreamInv /\ Told => ShutsDown
  <2> SUFFICES ASSUME IInv, StreamInv, Told, closeNotifySent, Free(hsLock), ~hsErr, ~overlap
               PROVE  wire.ended
    BY DEF ShutsDown
  <2>1. BaseInv /\ Orderly /\ handshakes > 0
    BY DEF IInv, StreamInv, Told
  <2>2. status = 1
    BY <2>1 DEF BaseInv, TypeOK, HandshakeInv
  <2>3. sendBuf = << >>
    BY <2>1, <2>2 DEF Orderly
  <2>4. ~Sending
    BY <2>1, ConstantsAssumption DEF BaseInv, LockDiscipline, HoldsHandshake, Flushing, Sending, Free
  <2> QED BY <2>3, <2>4 DEF Told, Waits, Pending
<1> QED BY <1>1, <1>2, <1>3, StreamInvariance, PTL DEF Spec
=============================================================================
