--------------------------- MODULE XmppServerProofs ---------------------------
(***************************************************************************)
(* Theorems about XmppServer, for any number of connections, API workers,  *)
(* users and rooms.                                                        *)
(***************************************************************************)
EXTENDS XmppServer, TLAPS

(* Lists of connections.                                                   *)

\* A removal leaves a list of the same kind of things, all of them old ones.
LEMMA SwapRemoveType ==
  ASSUME NEW S, NEW s \in Seq(S), NEW c
  PROVE  /\ SwapRemove(s, c) \in Seq(S)
         /\ Listed(SwapRemove(s, c)) \subseteq Listed(s)
<1>1. CASE c \notin Listed(s)
  BY <1>1 DEF SwapRemove
<1>2. CASE c \in Listed(s)
  <2>1. Len(s) \in Nat /\ Len(s) >= 1 /\ DOMAIN s = 1 .. Len(s)
    BY <1>2 DEF Listed
  <2> DEFINE t == [k \in 1 .. (Len(s) - 1) |->
                     IF k = Position(s, c) THEN s[Len(s)] ELSE s[k]]
  <2>2. SwapRemove(s, c) = t
    BY <1>2 DEF SwapRemove
  <2>3. \A k \in 1 .. (Len(s) - 1) : t[k] \in S /\ t[k] \in Listed(s)
    BY <2>1 DEF Listed
  <2>4. t \in Seq(S)
    BY <2>1, <2>3
  <2>5. DOMAIN t = 1 .. (Len(s) - 1)
    OBVIOUS
  <2> HIDE DEF t
  <2>6. Listed(t) \subseteq Listed(s)
    BY <2>3, <2>5 DEF Listed
  <2> QED BY <2>2, <2>4, <2>6
<1> QED BY <1>1, <1>2

\* Removing a connection from a list without duplicates removes it altogether
\* and makes no duplicates: the swap is right at either end of the list too.
LEMMA SwapRemoveGone ==
  ASSUME NEW S, NEW s \in Seq(S), NEW c, Distinct(s)
  PROVE  c \notin Listed(SwapRemove(s, c)) /\ Distinct(SwapRemove(s, c))
<1>1. CASE c \notin Listed(s)
  BY <1>1 DEF SwapRemove
<1>2. CASE c \in Listed(s)
  <2> DEFINE i == Position(s, c)
             n == Len(s)
             t == [k \in 1 .. (n - 1) |-> IF k = i THEN s[n] ELSE s[k]]
  <2>1. n \in Nat /\ n >= 1 /\ DOMAIN s = 1 .. n
    BY <1>2 DEF Listed
  <2>2. i \in 1 .. n /\ s[i] = c
    <3>1. PICK m \in DOMAIN s : s[m] = c
      BY <1>2 DEF Listed
    <3>2. \A j \in 1 .. (m - 1) : s[j] # c
      BY <2>1, <3>1 DEF Distinct
    <3> QED BY <2>1, <3>1, <3>2 DEF Position
  <2>3. SwapRemove(s, c) = t
    BY <1>2 DEF SwapRemove
  <2>4. \A j, k \in 1 .. n : s[j] = s[k] => j = k
    BY <2>1 DEF Distinct
  <2>5. DOMAIN t = 1 .. (n - 1)
    OBVIOUS
  <2> HIDE DEF i, n
  <2>6. \A k \in 1 .. (n - 1) : t[k] # c
    BY <2>1, <2>2, <2>4
  <2>7. \A j, k \in 1 .. (n - 1) : t[j] = t[k] => j = k
    BY <2>1, <2>2, <2>4
  <2> HIDE DEF t
  <2> QED BY <2>3, <2>5, <2>6, <2>7 DEF Listed, Distinct
<1> QED BY <1>1, <1>2

\* Adding a connection adds that one and no duplicate.
LEMMA AddOnceType ==
  ASSUME NEW S, NEW s \in Seq(S), NEW c \in S
  PROVE  /\ AddOnce(s, c) \in Seq(S)
         /\ Listed(AddOnce(s, c)) = Listed(s) \cup {c}
         /\ Distinct(s) => Distinct(AddOnce(s, c))
<1>1. CASE c \in Listed(s)
  BY <1>1 DEF AddOnce
<1>2. CASE c \notin Listed(s)
  <2> DEFINE t == Append(s, c)
  <2>1. /\ t \in Seq(S)
        /\ DOMAIN t = 1 .. (Len(s) + 1)
        /\ DOMAIN s = 1 .. Len(s)
        /\ Len(s) \in Nat
        /\ t[Len(s) + 1] = c
        /\ \A k \in 1 .. Len(s) : t[k] = s[k]
    OBVIOUS
  <2>2. AddOnce(s, c) = t
    BY <1>2 DEF AddOnce
  <2> HIDE DEF t
  <2>3. Listed(t) = Listed(s) \cup {c}
    BY <2>1 DEF Listed
  <2>4. ASSUME Distinct(s) PROVE Distinct(t)
    BY <1>2, <2>1, <2>4 DEF Distinct, Listed
  <2> QED BY <2>1, <2>2, <2>3, <2>4
<1> QED BY <1>1, <1>2

\* The list Join's second loop ranges over.
LEMMA OthersType ==
  ASSUME NEW S, NEW s \in Seq(S), NEW c \in S, c \in Listed(s)
  PROVE  <<c>> \o Others(s, c) \in Seq(S)
<1>1. Len(s) \in Nat /\ Len(s) >= 1 /\ DOMAIN s = 1 .. Len(s)
  BY DEF Listed
<1>2. Others(s, c) \in Seq(S)
  <2> DEFINE t == [k \in 1 .. (Len(s) - 1) |->
                     IF k < Position(s, c) THEN s[k] ELSE s[k + 1]]
  <2>1. \A k \in 1 .. (Len(s) - 1) : t[k] \in S
    BY <1>1
  <2>2. t \in Seq(S)
    BY <1>1, <2>1
  <2> QED BY <2>2 DEF Others
<1> QED BY <1>2

-----------------------------------------------------------------------------
(* The inductive invariant.                                                *)

\* CloseError and Close have a client to work on.
TargetInv == \A p \in Proc : pc[p] \in Kicking \ {"scan"} => todo[p] # << >>

\* The address a handler is about fits what it is doing.
ArgInv == \A c \in Conn :
  /\ pc[c] = "store" => arg[c] \in Jid
  /\ pc[c] \in {"join", "leave"} => arg[c] \in RoomNames

\* The loop over Clients is at registered clients.
KickInv == \A p \in Proc : pc[p] \in Kicking => Listed(todo[p]) \subseteq Listed(clients)

\* A connection not accepted yet is neither registered nor kicked.
NewInv == \A c \in Conn : pc[c] = "new" => c \notin Listed(clients) /\ ~streamClosed[c]

\* RemoveClient has emptied the rooms it has passed of its connection.
DropInv ==
  \A c \in Conn : pc[c] = "drop" =>
    /\ idx[c] >= 1
    /\ \A i \in DOMAIN rooms : i < idx[c] => c \notin Listed(rooms[i].members)

IInv ==
  /\ TypeOK
  /\ LockDiscipline
  /\ TargetInv
  /\ ArgInv
  /\ KickInv
  /\ NewInv
  /\ NoDuplicates
  /\ DropInv
  /\ NoGhost
  /\ KickedIsClosed

-----------------------------------------------------------------------------
(* Type correctness.                                                       *)

\* A room edited in place.
LEMMA EditRoom ==
  ASSUME NEW rs \in Seq(Room), NEW i, NEW m \in Seq(Conn)
  PROVE  /\ [rs EXCEPT ![i].members = m] \in Seq(Room)
         /\ DOMAIN [rs EXCEPT ![i].members = m] = DOMAIN rs
         /\ \A k \in DOMAIN rs :
              /\ [rs EXCEPT ![i].members = m][k].jid = rs[k].jid
              /\ [rs EXCEPT ![i].members = m][k].members = IF k = i THEN m ELSE rs[k].members
<1> DEFINE es == [rs EXCEPT ![i].members = m]
<1>1. DOMAIN es = DOMAIN rs /\ DOMAIN rs = 1 .. Len(rs) /\ Len(rs) \in Nat
  OBVIOUS
<1>2. \A k \in DOMAIN rs : rs[k] \in Room
  OBVIOUS
<1>3. \A k \in DOMAIN rs :
        es[k] = IF k = i THEN [rs[k] EXCEPT !.members = m] ELSE rs[k]
  OBVIOUS
<1> HIDE DEF es
<1>4. \A k \in DOMAIN rs : /\ es[k] \in Room
                             /\ es[k].jid = rs[k].jid
                             /\ es[k].members = IF k = i THEN m ELSE rs[k].members
  BY <1>2, <1>3 DEF Room
<1>5. es = [k \in 1 .. Len(rs) |-> es[k]]
  BY <1>1 DEF es
<1>6. es \in Seq(Room)
  BY <1>1, <1>4, <1>5
<1> QED BY <1>1, <1>4, <1>6 DEF es

\* Room addresses being distinct, a lookup finds one room at most: it is First.
LEMMA FirstType ==
  ASSUME TypeOK, NoDuplicates, NEW a
  PROVE  /\ FoldRooms(a) # {} => /\ First(FoldRooms(a)) \in FoldRooms(a)
                                 /\ First(FoldRooms(a)) \in Nat
         /\ ExactRooms(a) # {} => /\ First(ExactRooms(a)) \in ExactRooms(a)
                                  /\ First(ExactRooms(a)) \in Nat
<1>1. \A i, j \in FoldRooms(a) : i = j
  BY DEF NoDuplicates, FoldRooms, SameFold
<1>2. \A i, j \in ExactRooms(a) : i = j
  BY DEF NoDuplicates, ExactRooms, SameFold
<1>3. ASSUME NEW S \in {FoldRooms(a), ExactRooms(a)}, S # {}
      PROVE  First(S) \in S /\ First(S) \in Nat
  <2>1. PICK i \in S : TRUE
    BY <1>3
  <2>2. i \in Nat
    BY <2>1 DEF FoldRooms, ExactRooms, TypeOK
  <2>3. \A j \in S : i <= j
    <3>1. \A j \in S : i = j
      BY <1>1, <1>2
    <3> QED BY <2>2, <3>1
  <2>4. First(S) \in S
    BY <2>1, <2>3 DEF First
  <2>5. First(S) = i
    BY <1>1, <1>2, <2>1, <2>4
  <2> QED BY <2>2, <2>4, <2>5
<1> QED BY <1>3

\* The members of a room, or none.
LEMMA MembersType ==
  ASSUME rooms \in Seq(Room), NEW i
  PROVE  MembersAt(i) \in Seq(Conn)
<1>1. CASE i \in DOMAIN rooms
  <2>1. rooms[i] \in Room
    BY <1>1
  <2> QED BY <1>1, <2>1 DEF MembersAt, Room
<1>2. CASE i \notin DOMAIN rooms
  BY <1>2 DEF MembersAt
<1> QED BY <1>1, <1>2

\* What removing c from a room changes.
LEMMA RemoveMemberFacts ==
  ASSUME rooms \in Seq(Room), NEW i, NEW c
  PROVE  /\ RemoveMember(i, c) \in Seq(Room)
         /\ DOMAIN RemoveMember(i, c) = DOMAIN rooms
         /\ \A k \in DOMAIN rooms :
              /\ rooms[k].members \in Seq(Conn)
              /\ RemoveMember(i, c)[k].jid = rooms[k].jid
              /\ RemoveMember(i, c)[k].members = IF k = i THEN SwapRemove(rooms[k].members, c)
                                                         ELSE rooms[k].members
<1> DEFINE es == RemoveMember(i, c)
<1>1. DOMAIN es = DOMAIN rooms /\ DOMAIN rooms = 1 .. Len(rooms) /\ Len(rooms) \in Nat
  BY DEF RemoveMember
<1>2. \A k \in DOMAIN rooms : rooms[k] \in Room
  OBVIOUS
<1>3. \A k \in DOMAIN rooms :
        es[k] = IF k = i THEN [rooms[k] EXCEPT !.members = SwapRemove(@, c)] ELSE rooms[k]
  BY DEF RemoveMember
<1>4. es = [k \in 1 .. Len(rooms) |-> es[k]]
  BY <1>1 DEF RemoveMember
<1> HIDE DEF es
<1>5. \A k \in DOMAIN rooms :
        /\ es[k] \in Room
        /\ rooms[k].members \in Seq(Conn)
        /\ es[k].jid = rooms[k].jid
        /\ es[k].members = IF k = i THEN SwapRemove(rooms[k].members, c) ELSE rooms[k].members
  <2> TAKE k \in DOMAIN rooms
  <2>1. rooms[k] \in Room /\ rooms[k].members \in Seq(Conn)
    BY <1>2 DEF Room
  <2>2. SwapRemove(rooms[k].members, c) \in Seq(Conn)
    BY <2>1, SwapRemoveType
  <2>3. CASE k = i
    BY <1>3, <2>1, <2>2, <2>3 DEF Room
  <2>4. CASE k # i
    BY <1>3, <2>1, <2>4
  <2> QED BY <2>3, <2>4
<1>6. es \in Seq(Room)
  BY <1>1, <1>4, <1>5
<1> QED BY <1>1, <1>5, <1>6 DEF es

LEMMA GotoType ==
  ASSUME pc \in [Proc -> Places], NEW p \in Proc, NEW place \in Places, Goto(p, place)
  PROVE  pc' \in [Proc -> Places]
BY DEF Goto

LEMMA PlaceNames ==
  /\ "hello" \in Places /\ "read" \in Places /\ "tls" \in Places /\ "store" \in Places
  /\ "welcome" \in Places /\ "ended" \in Places /\ "sendEnd" \in Places
  /\ "close" \in Places /\ "done" \in Places /\ "ready" \in Places /\ "login" \in Places
  /\ "join" \in Places /\ "leave" \in Places /\ "avail" \in Places /\ "group" \in Places
  /\ "direct" \in Places /\ "exit" \in Places /\ "scan" \in Places
  /\ "kickErr" \in Places /\ "kickMark" \in Places /\ "kickEnd" \in Places
  /\ "kickWait" \in Places /\ "joinCast" \in Places /\ "leaveCast" \in Places
  /\ "roomCast" \in Places /\ "userCast" \in Places /\ "drop" \in Places
BY DEF Places, Waiting, Critical, Kicking, Casting

\* The parts of TypeOK an action with these effects preserves.
LEMMA WriteToType ==
  ASSUME TypeOK, NEW d \in Conn, WriteTo(d)
  PROVE  /\ open' \in [Conn -> BOOLEAN]
         /\ \A e \in Conn : open'[e] => open[e]
BY DEF TypeOK, WriteTo

LEMMA TakeType ==
  ASSUME TypeOK, NEW c \in Conn, NEW kind
  PROVE  /\ Arrives(c, kind) => used' \in [Proc -> Nat]
         /\ Take(c, kind) => /\ used' \in [Proc -> Nat]
                             /\ buffered' \in [Conn -> 0 .. MaxBuffered]
<1>1. c \in Proc
  BY DEF Proc
<1>2. Arrives(c, kind) => used' \in [Proc -> Nat]
  BY <1>1 DEF TypeOK, Arrives
<1>3. Take(c, kind) => buffered' \in [Conn -> 0 .. MaxBuffered]
  BY DEF TypeOK, Take
<1>4. Take(c, kind) => Arrives(c, kind)
  BY DEF Take
<1> QED BY <1>2, <1>3, <1>4

LEMMA IterateType ==
  ASSUME TypeOK, NEW p \in Proc, NEW s \in Seq(Conn), NEW i \in Nat, Iterate(p, s, i)
  PROVE  todo' \in [Proc -> Seq(Conn)] /\ idx' \in [Proc -> Nat]
BY DEF TypeOK, Iterate

LEMMA TailType ==
  ASSUME TypeOK, NEW p \in Proc, todo[p] # << >>, Iterate(p, Tail(todo[p]), idx[p])
  PROVE  todo' \in [Proc -> Seq(Conn)] /\ idx' \in [Proc -> Nat]
<1>1. Tail(todo[p]) \in Seq(Conn) /\ idx[p] \in Nat
  BY DEF TypeOK
<1> QED BY <1>1, IterateType

\* What is left of a loop.
LEMMA ListedTail ==
  ASSUME NEW s \in Seq(Conn), s # << >>
  PROVE  Listed(Tail(s)) \subseteq Listed(s) /\ Head(s) \in Listed(s)
<1>1. Len(s) \in Nat /\ Len(s) >= 1 /\ DOMAIN s = 1 .. Len(s)
  OBVIOUS
<1>2. DOMAIN Tail(s) = 1 .. (Len(s) - 1) /\ \A k \in DOMAIN Tail(s) : Tail(s)[k] = s[k + 1]
  BY <1>1
<1>3. Listed(Tail(s)) \subseteq Listed(s)
  BY <1>1, <1>2 DEF Listed
<1>4. Head(s) = s[1] /\ 1 \in DOMAIN s
  BY <1>1
<1> QED BY <1>3, <1>4 DEF Listed

LEMMA TypeStep ==
  ASSUME TypeOK, TargetInv, ArgInv, NoDuplicates, [Next]_vars
  PROVE  TypeOK'
<1> USE PlaceNames DEF TypeOK, vars, registry, session, input, loop, Goto
<1>0. Conn \subseteq Proc /\ Admin \subseteq Proc
  BY DEF Proc
<1>1. ASSUME NEW c \in Conn, Accept(c) PROVE TypeOK'
  BY <1>0, <1>1 DEF Accept
<1>2. ASSUME NEW c \in Conn, Hello(c) PROVE TypeOK'
  <2>1. open' \in [Conn -> BOOLEAN]
    BY <1>0, <1>2, WriteToType DEF Hello
  <2> QED BY <1>0, <1>2, <2>1 DEF Hello
<1>3. ASSUME NEW c \in Conn, Chat(c) PROVE TypeOK'
  <2>1. open' \in [Conn -> BOOLEAN]
    BY <1>0, <1>3, WriteToType DEF Chat
  <2> QED BY <1>0, <1>3, <2>1, TakeType DEF Chat
<1>4. ASSUME NEW c \in Conn, StartTLS(c) PROVE TypeOK'
  <2>1. open' \in [Conn -> BOOLEAN]
    BY <1>0, <1>4, WriteToType DEF StartTLS
  <2>2. used' \in [Proc -> Nat]
    BY <1>4, TakeType DEF StartTLS
  <2>3. buffered' \in [Conn -> 0 .. MaxBuffered]
    BY <1>4, ConstantsAssumption DEF StartTLS
  <2> QED BY <1>0, <1>4, <2>1, <2>2, <2>3 DEF StartTLS
<1>5. ASSUME NEW c \in Conn, TlsUp(c) PROVE TypeOK'
  BY <1>0, <1>5 DEF TlsUp
<1>6. ASSUME NEW c \in Conn, TlsFails(c) PROVE TypeOK'
  BY <1>0, <1>6 DEF TlsFails
<1>7. ASSUME NEW c \in Conn, ReadEnd(c) PROVE TypeOK'
  <2>1. used' \in [Proc -> Nat]
    BY <1>7, TakeType DEF ReadEnd
  <2>2. pc' \in [Proc -> Places] /\ buffered' \in [Conn -> 0 .. MaxBuffered]
    BY <1>0, <1>7, ConstantsAssumption DEF ReadEnd
  <2> QED BY <1>7, <2>1, <2>2 DEF ReadEnd
<1>8. ASSUME NEW c \in Conn, NEW j \in Jid, Auth(c, j) PROVE TypeOK'
  BY <1>0, <1>8, TakeType DEF Addr, Auth
<1>9. ASSUME NEW c \in Conn, Presence(c) PROVE TypeOK'
  <2>1. used' \in [Proc -> Nat] /\ buffered' \in [Conn -> 0 .. MaxBuffered]
    BY <1>9, TakeType DEF Presence
  <2>2. pc' \in [Proc -> Places]
    <3>1. pc' = [pc EXCEPT ![c] = "avail"] \/ pc' = [pc EXCEPT ![c] = "join"]
            \/ pc' = [pc EXCEPT ![c] = "leave"]
      BY <1>9 DEF Presence
    <3> QED BY <1>0, <3>1
  <2>3. arg' \in [Proc -> Addr \cup {NoArg}]
    <3>1. arg' = arg \/ \E r \in RoomNames : arg' = [arg EXCEPT ![c] = r]
      BY <1>9 DEF Presence
    <3>2. RoomNames \subseteq Addr
      BY ConstantsAssumption DEF Addr
    <3> QED BY <1>0, <3>1, <3>2
  <2> QED BY <1>9, <2>1, <2>2, <2>3 DEF Presence
<1>10. ASSUME NEW c \in Conn, NEW to \in Targets, Message(c, to) PROVE TypeOK'
  <2>1. used' \in [Proc -> Nat] /\ buffered' \in [Conn -> 0 .. MaxBuffered]
    BY <1>10, TakeType DEF Message
  <2>2. pc' \in [Proc -> Places]
    <3>1. pc' = [pc EXCEPT ![c] = "group"] \/ pc' = [pc EXCEPT ![c] = "direct"]
      BY <1>10 DEF Message
    <3> QED BY <1>0, <3>1
  <2>3. arg' \in [Proc -> Addr \cup {NoArg}]
    BY <1>0, <1>10, ConstantsAssumption DEF Addr, Message
  <2> QED BY <1>10, <2>1, <2>2, <2>3 DEF Message
<1>11. ASSUME NEW c \in Conn, ReadError(c) PROVE TypeOK'
  BY <1>0, <1>11, ConstantsAssumption DEF ReadError
<1>12. ASSUME NEW a \in Admin, NEW b \in Targets \cap Bare, AdminKick(a, b) PROVE TypeOK'
  <2>1. used' \in [Proc -> Nat]
    BY <1>0, <1>12 DEF AdminKick
  <2> QED BY <1>0, <1>12, <2>1 DEF Addr, AdminKick
<1>13. ASSUME NEW a \in Admin, NEW to \in Targets \cap Bare, AdminSend(a, to) PROVE TypeOK'
  <2>1. used' \in [Proc -> Nat]
    BY <1>0, <1>13 DEF AdminSend
  <2>2. pc' \in [Proc -> Places]
    <3>1. pc' = [pc EXCEPT ![a] = "group"] \/ pc' = [pc EXCEPT ![a] = "direct"]
      BY <1>13 DEF AdminSend
    <3> QED BY <1>0, <3>1
  <2>3. arg' \in [Proc -> Addr \cup {NoArg}]
    BY <1>0, <1>13 DEF Addr, AdminSend
  <2> QED BY <1>13, <2>1, <2>2, <2>3 DEF AdminSend
<1>14. ASSUME NEW c \in Conn, AnswerEnd(c) PROVE TypeOK'
  <2>1. open' \in [Conn -> BOOLEAN]
    BY <1>0, <1>14, WriteToType DEF AnswerEnd
  <2>2. pc' = [pc EXCEPT ![c] = "sendEnd"] \/ pc' = [pc EXCEPT ![c] = "exit"]
    BY <1>14 DEF AnswerEnd
  <2>3. UNCHANGED <<lock, registry, session, input, arg, loop>>
    BY <1>14 DEF AnswerEnd
  <2>4. pc' \in [Proc -> Places]
    BY <1>0, <2>2
  <2> QED BY <2>1, <2>3, <2>4
<1>15. ASSUME NEW c \in Conn, StoreJid(c) PROVE TypeOK'
  BY <1>0, <1>15 DEF StoreJid, ArgInv
<1>16. ASSUME NEW p \in Proc, KickLock(p) PROVE TypeOK'
  BY <1>0, <1>16, IterateType DEF KickLock, Acquire
<1>17. ASSUME NEW p \in Proc, ScanHit(p) PROVE TypeOK'
  BY <1>0, <1>17 DEF ScanHit
<1>18. ASSUME NEW p \in Proc, ScanMiss(p) PROVE TypeOK'
  BY <1>0, <1>18, TailType DEF ScanMiss
<1>19. ASSUME NEW p \in Proc, ScanEnd(p) PROVE TypeOK'
  BY <1>0, <1>19 DEF ScanEnd, Release
<1>20. ASSUME NEW p \in Proc, pc[p] \in Kicking \ {"scan"} PROVE Head(todo[p]) \in Conn
  BY <1>0, <1>20 DEF TargetInv
<1>21. ASSUME NEW p \in Proc, KickError(p) PROVE TypeOK'
  <2>1. open' \in [Conn -> BOOLEAN]
    BY <1>0, <1>20, <1>21, WriteToType DEF KickError, Kicking
  <2> QED BY <1>0, <1>21, <2>1 DEF KickError
<1>22. ASSUME NEW p \in Proc, KickMark(p) PROVE TypeOK'
  BY <1>0, <1>20, <1>22 DEF KickMark, Kicking
<1>23. ASSUME NEW p \in Proc, KickEnd(p) PROVE TypeOK'
  <2>1. open' \in [Conn -> BOOLEAN]
    BY <1>0, <1>20, <1>23, WriteToType DEF KickEnd, Kicking
  <2> QED BY <1>0, <1>23, <2>1 DEF KickEnd
<1>24. ASSUME NEW p \in Proc, StreamEnd(p) PROVE TypeOK'
  <2>1. todo[p] # << >>
    BY <1>24 DEF StreamEnd, TargetInv, Kicking
  <2>2. todo' \in [Proc -> Seq(Conn)] /\ idx' \in [Proc -> Nat]
    BY <1>24, <2>1, TailType DEF StreamEnd
  <2> QED BY <1>0, <1>24, <2>2 DEF StreamEnd
<1>25. ASSUME NEW p \in Proc, CloseTimeout(p) PROVE TypeOK'
  <2>1. todo[p] # << >> /\ Head(todo[p]) \in Conn
    BY <1>20, <1>25 DEF CloseTimeout, TargetInv, Kicking
  <2>2. todo' \in [Proc -> Seq(Conn)] /\ idx' \in [Proc -> Nat]
    BY <1>25, <2>1, TailType DEF CloseTimeout
  <2> QED BY <1>0, <1>25, <2>1, <2>2 DEF CloseTimeout
<1>26. ASSUME NEW c \in Conn, Welcome(c) PROVE TypeOK'
  <2>1. open' \in [Conn -> BOOLEAN]
    BY <1>0, <1>26, WriteToType DEF Welcome
  <2> QED BY <1>0, <1>26, <2>1 DEF Welcome
<1>27. ASSUME NEW c \in Conn, AddClient(c) PROVE TypeOK'
  BY <1>0, <1>27, AddOnceType DEF AddClient
<1>28. ASSUME NEW c \in Conn, Join(c) PROVE TypeOK'
  <2> DEFINE found == FoldRooms(arg[c])
             i == IF found = {} THEN Len(rooms) + 1 ELSE First(found)
             members == AddOnce(MembersAt(i), c)
  <2>1. members \in Seq(Conn) /\ c \in Listed(members)
    BY MembersType, AddOnceType
  <2>2. <<c>> \o Others(members, c) \in Seq(Conn)
    BY <2>1, OthersType
  <2>3. arg[c] \in Bare
    BY <1>28, ConstantsAssumption DEF Join, ArgInv
  <2>4. i \in Nat
    <3>1. CASE found = {}
      BY <3>1
    <3>2. CASE found # {}
      BY <3>2, FirstType
    <3> QED BY <3>1, <3>2
  <2>5. rooms' \in Seq(Room)
    <3>1. CASE found = {}
      <4>1. [jid |-> arg[c], members |-> members] \in Room
        BY <2>1, <2>3 DEF Room
      <4>2. rooms' = Append(rooms, [jid |-> arg[c], members |-> members])
        BY <1>28, <3>1 DEF Join
      <4> QED BY <4>1, <4>2
    <3>2. CASE found # {}
      <4>1. rooms' = [rooms EXCEPT ![i].members = members]
        BY <1>28, <3>2 DEF Join
      <4> QED BY <2>1, <4>1, EditRoom
    <3> QED BY <3>1, <3>2
  <2>6. Iterate(c, <<c>> \o Others(members, c), i)
    BY <1>28 DEF Join
  <2> HIDE DEF found, i, members
  <2>7. todo' \in [Proc -> Seq(Conn)] /\ idx' \in [Proc -> Nat]
    BY <1>0, <2>2, <2>4, <2>6, IterateType
  <2> QED BY <1>0, <1>28, <2>5, <2>7 DEF Join, Acquire
<1>29. ASSUME NEW c \in Conn, Leave(c) PROVE TypeOK'
  <2> DEFINE i == First(ExactRooms(arg[c]))
  <2>1. CASE ExactRooms(arg[c]) = {}
    <3>1. /\ pc' = [pc EXCEPT ![c] = "read"] /\ arg' = [arg EXCEPT ![c] = NoArg]
          /\ UNCHANGED <<lock, todo, idx, clients, rooms, open, tls, jid, authed, streamClosed, used, buffered>>
      BY <1>29, <2>1 DEF Leave
    <3> HIDE DEF i
    <3> QED BY <1>0, <3>1
  <2>2. CASE ExactRooms(arg[c]) # {}
    <3>1. i \in Nat
      BY <2>2, FirstType
    <3>2. Iterate(c, MembersAt(i), i) /\ lock' = c /\ UNCHANGED arg
      BY <1>29, <2>2 DEF Leave
    <3>3. pc' = [pc EXCEPT ![c] = "leaveCast"]
      BY <1>29, <2>2 DEF Leave
    <3> HIDE DEF i
    <3>4. todo' \in [Proc -> Seq(Conn)] /\ idx' \in [Proc -> Nat]
      BY <1>0, <3>1, <3>2, MembersType, IterateType
    <3> QED BY <1>0, <1>29, <3>2, <3>3, <3>4 DEF Leave
  <2> QED BY <2>1, <2>2
<1>30. ASSUME NEW p \in Proc, RouteRoom(p) PROVE TypeOK'
  <2> DEFINE i == First(FoldRooms(arg[p]))
  <2>1. CASE arg[p] \in Jid \/ FoldRooms(arg[p]) = {}
    BY <1>30, <2>1 DEF RouteRoom
  <2>2. CASE ~(arg[p] \in Jid \/ FoldRooms(arg[p]) = {})
    <3>1. i \in Nat
      BY <2>2, FirstType
    <3>2. Iterate(p, MembersAt(i), i) /\ lock' = p
      BY <1>30, <2>2 DEF RouteRoom
    <3>3. pc' = [pc EXCEPT ![p] = "roomCast"]
      BY <1>30, <2>2 DEF RouteRoom
    <3> HIDE DEF i
    <3>4. todo' \in [Proc -> Seq(Conn)] /\ idx' \in [Proc -> Nat]
      BY <3>1, <3>2, MembersType, IterateType
    <3> QED BY <1>30, <3>2, <3>3, <3>4 DEF RouteRoom
  <2> QED BY <2>1, <2>2
<1>31. ASSUME NEW p \in Proc, RouteUser(p) PROVE TypeOK'
  <2>1. \A i \in DOMAIN clients : <<clients[i]>> \in Seq(Conn)
    OBVIOUS
  <2>2. << >> \in Seq(Conn)
    OBVIOUS
  <2>3. todo' \in [Proc -> Seq(Conn)] /\ idx' \in [Proc -> Nat]
    BY <1>31, <2>1, <2>2, IterateType DEF RouteUser
  <2> QED BY <1>0, <1>31, <2>3 DEF RouteUser, Acquire
<1>32. ASSUME NEW p \in Proc, Cast(p) PROVE TypeOK'
  <2>1. Head(todo[p]) \in Conn
    BY <1>0, <1>32 DEF Cast
  <2>2. open' \in [Conn -> BOOLEAN]
    BY <1>0, <1>32, <2>1, WriteToType DEF Cast
  <2>3. todo' \in [Proc -> Seq(Conn)] /\ idx' \in [Proc -> Nat]
    BY <1>32, TailType DEF Cast
  <2> QED BY <1>0, <1>32, <2>2, <2>3 DEF Cast
<1>33. ASSUME NEW p \in Proc, CastEnd(p) PROVE TypeOK'
  <2>1. rooms' \in Seq(Room)
    BY <1>33, RemoveMemberFacts DEF CastEnd
  <2>2. pc' \in [Proc -> Places]
    BY <1>33 DEF CastEnd, Home
  <2> QED BY <1>33, <2>1, <2>2 DEF CastEnd, Release
<1>34. ASSUME NEW c \in Conn, RemoveClient(c) PROVE TypeOK'
  BY <1>0, <1>34, MembersType, IterateType DEF RemoveClient, Acquire
<1>35. ASSUME NEW c \in Conn, DropMember(c) PROVE TypeOK'
  <2>1. rooms' \in Seq(Room)
    BY <1>35, RemoveMemberFacts DEF DropMember
  <2>2. idx[c] + 1 \in Nat
    BY <1>0
  <2>3. todo' \in [Proc -> Seq(Conn)] /\ idx' \in [Proc -> Nat]
    BY <1>0, <1>35, <2>2, MembersType, IterateType DEF DropMember
  <2> QED BY <1>35, <2>1, <2>3 DEF DropMember
<1>36. ASSUME NEW c \in Conn, DropClient(c) PROVE TypeOK'
  BY <1>0, <1>36, SwapRemoveType DEF DropClient, Release
<1>37. ASSUME NEW c \in Conn, CloseConn(c) PROVE TypeOK'
  BY <1>0, <1>37 DEF CloseConn
<1>38. ASSUME UNCHANGED vars PROVE TypeOK'
  BY <1>38
<1> QED
  BY <1>1, <1>2, <1>3, <1>4, <1>5, <1>6, <1>7, <1>8, <1>9, <1>10, <1>11, <1>12,
     <1>13, <1>14, <1>15, <1>16, <1>17, <1>18, <1>19, <1>21, <1>22, <1>23, <1>24,
     <1>25, <1>26, <1>27, <1>28, <1>29, <1>30, <1>31, <1>32, <1>33, <1>34, <1>35,
     <1>36, <1>37, <1>38
  DEF Next, Environment, Request, Lock, Run, Quiescent

-----------------------------------------------------------------------------
(* The mutex.                                                              *)

LEMMA LockStep ==
  ASSUME TypeOK, LockDiscipline, TargetInv, [Next]_vars
  PROVE  LockDiscipline'
<1> USE DEF TypeOK, LockDiscipline, Goto, Critical, Kicking, Casting
<1>0. Conn \subseteq Proc /\ Admin \subseteq Proc /\ NoProc \notin Proc
  BY ConstantsAssumption DEF Proc
<1>1. ASSUME NEW c \in Conn, Accept(c) PROVE LockDiscipline'
  BY <1>0, <1>1, ConstantsAssumption DEF Accept
<1>2. ASSUME NEW c \in Conn, Hello(c) PROVE LockDiscipline'
  BY <1>0, <1>2, ConstantsAssumption DEF Hello
<1>3. ASSUME NEW c \in Conn, Chat(c) PROVE LockDiscipline'
  BY <1>0, <1>3, ConstantsAssumption DEF Chat, Take, Arrives
<1>4. ASSUME NEW c \in Conn, StartTLS(c) PROVE LockDiscipline'
  BY <1>0, <1>4, ConstantsAssumption DEF StartTLS, Arrives
<1>5. ASSUME NEW c \in Conn, TlsUp(c) PROVE LockDiscipline'
  BY <1>0, <1>5, ConstantsAssumption DEF TlsUp
<1>6. ASSUME NEW c \in Conn, TlsFails(c) PROVE LockDiscipline'
  BY <1>0, <1>6, ConstantsAssumption DEF TlsFails
<1>7. ASSUME NEW c \in Conn, ReadEnd(c) PROVE LockDiscipline'
  BY <1>0, <1>7, ConstantsAssumption DEF ReadEnd, Arrives
<1>8. ASSUME NEW c \in Conn, Presence(c) PROVE LockDiscipline'
  <2>1. \E next \in {"avail", "join", "leave"} : pc' = [pc EXCEPT ![c] = next]
    BY <1>8 DEF Presence
  <2>2. pc[c] = "read" /\ lock' = lock
    BY <1>8 DEF Presence, Take, Arrives
  <2> QED BY <1>0, <2>1, <2>2
<1>9. ASSUME NEW c \in Conn, ReadError(c) PROVE LockDiscipline'
  BY <1>0, <1>9, ConstantsAssumption DEF ReadError
<1>10. ASSUME NEW c \in Conn, AnswerEnd(c) PROVE LockDiscipline'
  <2>1. \/ pc' = [pc EXCEPT ![c] = "sendEnd"]
        \/ pc' = [pc EXCEPT ![c] = "exit"]
    BY <1>10 DEF AnswerEnd
  <2>2. pc[c] = "ended" /\ lock' = lock
    BY <1>10 DEF AnswerEnd
  <2> QED BY <1>0, <2>1, <2>2
<1>11. ASSUME NEW c \in Conn, StoreJid(c) PROVE LockDiscipline'
  BY <1>0, <1>11, ConstantsAssumption DEF StoreJid
<1>12. ASSUME NEW c \in Conn, Welcome(c) PROVE LockDiscipline'
  BY <1>0, <1>12, ConstantsAssumption DEF Welcome
<1>13. ASSUME NEW c \in Conn, AddClient(c) PROVE LockDiscipline'
  BY <1>0, <1>13, ConstantsAssumption DEF AddClient
<1>14. ASSUME NEW c \in Conn, Join(c) PROVE LockDiscipline'
  BY <1>0, <1>14, ConstantsAssumption DEF Join, Acquire
<1>15. ASSUME NEW c \in Conn, Leave(c) PROVE LockDiscipline'
  BY <1>0, <1>15, ConstantsAssumption DEF Leave
<1>16. ASSUME NEW c \in Conn, RemoveClient(c) PROVE LockDiscipline'
  BY <1>0, <1>16, ConstantsAssumption DEF RemoveClient, Acquire
<1>17. ASSUME NEW c \in Conn, DropMember(c) PROVE LockDiscipline'
  BY <1>0, <1>17, ConstantsAssumption DEF DropMember
<1>18. ASSUME NEW c \in Conn, DropClient(c) PROVE LockDiscipline'
  BY <1>0, <1>18, ConstantsAssumption DEF DropClient, Release
<1>19. ASSUME NEW c \in Conn, CloseConn(c) PROVE LockDiscipline'
  BY <1>0, <1>19, ConstantsAssumption DEF CloseConn
<1>20. ASSUME NEW c \in Conn, NEW j \in Jid, Auth(c, j) PROVE LockDiscipline'
  BY <1>0, <1>20, ConstantsAssumption DEF Auth, Take, Arrives
<1>21. ASSUME NEW c \in Conn, NEW to \in Targets, Message(c, to) PROVE LockDiscipline'
  <2>1. \E next \in {"group", "direct"} : pc' = [pc EXCEPT ![c] = next]
    BY <1>21 DEF Message
  <2>2. pc[c] = "read" /\ lock' = lock
    BY <1>21 DEF Message, Take, Arrives
  <2> QED BY <1>0, <2>1, <2>2
<1>22. ASSUME NEW a \in Admin, NEW b \in Targets \cap Bare, AdminKick(a, b) PROVE LockDiscipline'
  BY <1>0, <1>22, ConstantsAssumption DEF AdminKick
<1>23. ASSUME NEW a \in Admin, NEW to \in Targets \cap Bare, AdminSend(a, to) PROVE LockDiscipline'
  BY <1>0, <1>23, ConstantsAssumption DEF AdminSend
<1>24. ASSUME NEW p \in Proc, KickLock(p) PROVE LockDiscipline'
  BY <1>0, <1>24, ConstantsAssumption DEF KickLock, Acquire
<1>25. ASSUME NEW p \in Proc, ScanHit(p) PROVE LockDiscipline'
  BY <1>0, <1>25, ConstantsAssumption DEF ScanHit
<1>26. ASSUME NEW p \in Proc, ScanMiss(p) PROVE LockDiscipline'
  BY <1>0, <1>26, ConstantsAssumption DEF ScanMiss
<1>27. ASSUME NEW p \in Proc, ScanEnd(p) PROVE LockDiscipline'
  BY <1>0, <1>27, ConstantsAssumption DEF ScanEnd, Release
<1>28. ASSUME NEW p \in Proc, KickError(p) PROVE LockDiscipline'
  BY <1>0, <1>28, ConstantsAssumption DEF KickError
<1>29. ASSUME NEW p \in Proc, KickMark(p) PROVE LockDiscipline'
  BY <1>0, <1>29, ConstantsAssumption DEF KickMark
<1>30. ASSUME NEW p \in Proc, KickEnd(p) PROVE LockDiscipline'
  BY <1>0, <1>30, ConstantsAssumption DEF KickEnd
<1>31. ASSUME NEW p \in Proc, StreamEnd(p) PROVE LockDiscipline'
  BY <1>0, <1>31, ConstantsAssumption DEF StreamEnd
<1>32. ASSUME NEW p \in Proc, CloseTimeout(p) PROVE LockDiscipline'
  BY <1>0, <1>32, ConstantsAssumption DEF CloseTimeout
<1>33. ASSUME NEW p \in Proc, RouteRoom(p) PROVE LockDiscipline'
  BY <1>0, <1>33, ConstantsAssumption DEF RouteRoom
<1>34. ASSUME NEW p \in Proc, RouteUser(p) PROVE LockDiscipline'
  BY <1>0, <1>34, ConstantsAssumption DEF RouteUser, Acquire
<1>35. ASSUME NEW p \in Proc, Cast(p) PROVE LockDiscipline'
  BY <1>0, <1>35, ConstantsAssumption DEF Cast
<1>36. ASSUME NEW p \in Proc, CastEnd(p) PROVE LockDiscipline'
  BY <1>0, <1>36, ConstantsAssumption DEF CastEnd, Release, Home
<1>37. ASSUME UNCHANGED vars PROVE LockDiscipline'
  BY <1>0, <1>37, ConstantsAssumption DEF vars
<1> QED
  BY <1>1, <1>2, <1>3, <1>4, <1>5, <1>6, <1>7, <1>8, <1>9, <1>10, <1>11, <1>12, <1>13, <1>14, <1>15, <1>16, <1>17, <1>18, <1>19, <1>20, <1>21, <1>22, <1>23, <1>24, <1>25, <1>26, <1>27, <1>28, <1>29, <1>30, <1>31, <1>32, <1>33, <1>34, <1>35, <1>36, <1>37
  DEF Next, Environment, Request, Lock, Run, Quiescent

-----------------------------------------------------------------------------
(* What a goroutine is about.                                              *)

LEMMA TargetStep ==
  ASSUME TypeOK, TargetInv, [Next]_vars
  PROVE  TargetInv'
<1> USE DEF TypeOK, TargetInv, Goto, Kicking, loop
<1>0. Conn \subseteq Proc /\ Admin \subseteq Proc /\ NoProc \notin Proc
  BY ConstantsAssumption DEF Proc
<1>1. ASSUME NEW c \in Conn, Accept(c) PROVE TargetInv'
  BY <1>0, <1>1 DEF Accept
<1>2. ASSUME NEW c \in Conn, Hello(c) PROVE TargetInv'
  BY <1>0, <1>2 DEF Hello
<1>3. ASSUME NEW c \in Conn, Chat(c) PROVE TargetInv'
  BY <1>0, <1>3 DEF Chat, Take, Arrives
<1>4. ASSUME NEW c \in Conn, StartTLS(c) PROVE TargetInv'
  BY <1>0, <1>4 DEF StartTLS, Arrives
<1>5. ASSUME NEW c \in Conn, TlsUp(c) PROVE TargetInv'
  BY <1>0, <1>5 DEF TlsUp
<1>6. ASSUME NEW c \in Conn, TlsFails(c) PROVE TargetInv'
  BY <1>0, <1>6 DEF TlsFails
<1>7. ASSUME NEW c \in Conn, ReadEnd(c) PROVE TargetInv'
  BY <1>0, <1>7 DEF ReadEnd, Arrives
<1>8. ASSUME NEW c \in Conn, Presence(c) PROVE TargetInv'
  <2>1. \E next \in {"avail", "join", "leave"} : pc' = [pc EXCEPT ![c] = next]
    BY <1>8 DEF Presence
  <2>2. UNCHANGED todo
    BY <1>8 DEF Presence
  <2> QED BY <1>0, <2>1, <2>2
<1>9. ASSUME NEW c \in Conn, ReadError(c) PROVE TargetInv'
  BY <1>0, <1>9 DEF ReadError
<1>10. ASSUME NEW c \in Conn, AnswerEnd(c) PROVE TargetInv'
  BY <1>0, <1>10 DEF AnswerEnd
<1>11. ASSUME NEW c \in Conn, StoreJid(c) PROVE TargetInv'
  BY <1>0, <1>11 DEF StoreJid
<1>12. ASSUME NEW c \in Conn, Welcome(c) PROVE TargetInv'
  BY <1>0, <1>12 DEF Welcome
<1>13. ASSUME NEW c \in Conn, AddClient(c) PROVE TargetInv'
  BY <1>0, <1>13 DEF AddClient
<1>14. ASSUME NEW c \in Conn, Join(c) PROVE TargetInv'
  BY <1>0, <1>14 DEF Join, Acquire, Iterate
<1>15. ASSUME NEW c \in Conn, Leave(c) PROVE TargetInv'
  <2>1. /\ pc' = [pc EXCEPT ![c] = "read"] \/ pc' = [pc EXCEPT ![c] = "leaveCast"]
        /\ \A p \in Proc \ {c} : todo'[p] = todo[p]
    BY <1>0, <1>15 DEF Leave, Iterate
  <2> QED BY <1>0, <2>1
<1>16. ASSUME NEW c \in Conn, RemoveClient(c) PROVE TargetInv'
  BY <1>0, <1>16 DEF RemoveClient, Acquire, Iterate
<1>17. ASSUME NEW c \in Conn, DropMember(c) PROVE TargetInv'
  BY <1>0, <1>17 DEF DropMember, Iterate
<1>18. ASSUME NEW c \in Conn, DropClient(c) PROVE TargetInv'
  BY <1>0, <1>18 DEF DropClient, Release
<1>19. ASSUME NEW c \in Conn, CloseConn(c) PROVE TargetInv'
  BY <1>0, <1>19 DEF CloseConn
<1>20. ASSUME NEW c \in Conn, NEW j \in Jid, Auth(c, j) PROVE TargetInv'
  BY <1>0, <1>20 DEF Auth, Take, Arrives
<1>21. ASSUME NEW c \in Conn, NEW to \in Targets, Message(c, to) PROVE TargetInv'
  BY <1>0, <1>21 DEF Message, Take, Arrives
<1>22. ASSUME NEW a \in Admin, NEW b \in Targets \cap Bare, AdminKick(a, b) PROVE TargetInv'
  BY <1>0, <1>22 DEF AdminKick
<1>23. ASSUME NEW a \in Admin, NEW to \in Targets \cap Bare, AdminSend(a, to) PROVE TargetInv'
  BY <1>0, <1>23 DEF AdminSend
<1>24. ASSUME NEW p \in Proc, KickLock(p) PROVE TargetInv'
  BY <1>0, <1>24 DEF KickLock, Acquire, Iterate
<1>25. ASSUME NEW p \in Proc, ScanHit(p) PROVE TargetInv'
  BY <1>0, <1>25 DEF ScanHit
<1>26. ASSUME NEW p \in Proc, ScanMiss(p) PROVE TargetInv'
  BY <1>0, <1>26 DEF ScanMiss, Iterate
<1>27. ASSUME NEW p \in Proc, ScanEnd(p) PROVE TargetInv'
  BY <1>0, <1>27 DEF ScanEnd, Release
<1>28. ASSUME NEW p \in Proc, KickError(p) PROVE TargetInv'
  BY <1>0, <1>28 DEF KickError
<1>29. ASSUME NEW p \in Proc, KickMark(p) PROVE TargetInv'
  BY <1>0, <1>29 DEF KickMark
<1>30. ASSUME NEW p \in Proc, KickEnd(p) PROVE TargetInv'
  BY <1>0, <1>30 DEF KickEnd
<1>31. ASSUME NEW p \in Proc, StreamEnd(p) PROVE TargetInv'
  BY <1>0, <1>31 DEF StreamEnd, Iterate
<1>32. ASSUME NEW p \in Proc, CloseTimeout(p) PROVE TargetInv'
  BY <1>0, <1>32 DEF CloseTimeout, Iterate
<1>33. ASSUME NEW p \in Proc, RouteRoom(p) PROVE TargetInv'
  <2>1. CASE pc' = [pc EXCEPT ![p] = "direct"] /\ UNCHANGED <<registry, open, session, input, arg, loop>>
    BY <1>0, <2>1
  <2>2. CASE pc' = [pc EXCEPT ![p] = "roomCast"]
    BY <1>0, <1>33, <2>2 DEF RouteRoom, Iterate
  <2> QED BY <1>33, <2>1, <2>2 DEF RouteRoom
<1>34. ASSUME NEW p \in Proc, RouteUser(p) PROVE TargetInv'
  BY <1>0, <1>34 DEF RouteUser, Acquire, Iterate
<1>35. ASSUME NEW p \in Proc, Cast(p) PROVE TargetInv'
  BY <1>0, <1>35 DEF Cast, Iterate, Casting
<1>36. ASSUME NEW p \in Proc, CastEnd(p) PROVE TargetInv'
  BY <1>0, <1>36 DEF CastEnd, Release, Home
<1>37. ASSUME UNCHANGED vars PROVE TargetInv'
  BY <1>0, <1>37 DEF vars
<1> QED
  BY <1>1, <1>2, <1>3, <1>4, <1>5, <1>6, <1>7, <1>8, <1>9, <1>10, <1>11, <1>12, <1>13, <1>14, <1>15, <1>16, <1>17, <1>18, <1>19, <1>20, <1>21, <1>22, <1>23, <1>24, <1>25, <1>26, <1>27, <1>28, <1>29, <1>30, <1>31, <1>32, <1>33, <1>34, <1>35, <1>36, <1>37
  DEF Next, Environment, Request, Lock, Run, Quiescent

\* A presence is read: nothing but the place and the address of its handler changes.
LEMMA PresenceReads ==
  ASSUME TypeOK, NEW c \in Conn, Presence(c)
  PROVE  /\ pc[c] = "read" /\ UNCHANGED <<lock, registry, open, session, loop>>
         /\ \E place \in {"avail", "join", "leave"} :
              pc' = [pc EXCEPT ![c] = place] /\ (place # "avail" => arg'[c] \in RoomNames)
         /\ \A d \in Conn \ {c} : arg'[d] = arg[d]
<1>1. c \in Proc /\ Conn \subseteq Proc /\ DOMAIN arg = Proc /\ DOMAIN pc = Proc
  BY DEF TypeOK, Proc
<1>2. pc[c] = "read" /\ UNCHANGED <<lock, registry, open, session, loop>>
  BY DEF Presence, Take, Arrives
<1>3. CASE pc' = [pc EXCEPT ![c] = "avail"] /\ UNCHANGED arg
  BY <1>2, <1>3
<1>4. ASSUME NEW kind \in {"join", "leave"}, NEW r \in RoomNames,
             pc' = [pc EXCEPT ![c] = kind], arg' = [arg EXCEPT ![c] = r]
      PROVE  /\ \E place \in {"avail", "join", "leave"} :
                  pc' = [pc EXCEPT ![c] = place] /\ (place # "avail" => arg'[c] \in RoomNames)
             /\ \A d \in Conn \ {c} : arg'[d] = arg[d]
  <2>1. arg'[c] \in RoomNames /\ \A d \in Conn \ {c} : arg'[d] = arg[d]
    BY <1>1, <1>4
  <2> QED BY <1>4, <2>1
<1> QED BY <1>2, <1>3, <1>4 DEF Presence, Goto

\* Leave finds the room and goes on to its members, or goes back to reading.
LEMMA LeaveLooks ==
  ASSUME TypeOK, NEW c \in Conn, Leave(c)
  PROVE  /\ pc[c] = "leave" /\ UNCHANGED <<registry, open, session>>
         /\ \E place \in {"read", "leaveCast"} : pc' = [pc EXCEPT ![c] = place]
         /\ \A p \in Proc \ {c} : idx'[p] = idx[p] /\ todo'[p] = todo[p]
         /\ \A d \in Conn \ {c} : arg'[d] = arg[d]
<1>1. c \in Proc /\ Conn \subseteq Proc /\ DOMAIN arg = Proc /\ DOMAIN idx = Proc /\ DOMAIN todo = Proc
  BY DEF TypeOK, Proc
<1>2. pc[c] = "leave" /\ UNCHANGED <<registry, open, session>>
  BY DEF Leave
<1>3. CASE ExactRooms(arg[c]) = {}
  <2>1. pc' = [pc EXCEPT ![c] = "read"] /\ UNCHANGED loop /\ arg' = [arg EXCEPT ![c] = NoArg]
    BY <1>3 DEF Leave, Goto
  <2> QED BY <1>1, <1>2, <2>1 DEF loop
<1>4. CASE ExactRooms(arg[c]) # {}
  <2>1. /\ pc' = [pc EXCEPT ![c] = "leaveCast"] /\ UNCHANGED arg
        /\ \E ms, i : todo' = [todo EXCEPT ![c] = ms] /\ idx' = [idx EXCEPT ![c] = i]
    BY <1>4 DEF Leave, Goto, Iterate
  <2> QED BY <1>1, <1>2, <2>1
<1> QED BY <1>3, <1>4

LEMMA ArgStep ==
  ASSUME TypeOK, ArgInv, [Next]_vars
  PROVE  ArgInv'
<1> USE DEF TypeOK, ArgInv, Goto, loop
<1>0. Conn \subseteq Proc /\ Admin \subseteq Proc /\ NoProc \notin Proc
  BY ConstantsAssumption DEF Proc
<1>1. ASSUME NEW c \in Conn, Accept(c) PROVE ArgInv'
  BY <1>0, <1>1 DEF Accept
<1>2. ASSUME NEW c \in Conn, Hello(c) PROVE ArgInv'
  BY <1>0, <1>2 DEF Hello
<1>3. ASSUME NEW c \in Conn, Chat(c) PROVE ArgInv'
  BY <1>0, <1>3 DEF Chat, Take, Arrives
<1>4. ASSUME NEW c \in Conn, StartTLS(c) PROVE ArgInv'
  BY <1>0, <1>4 DEF StartTLS, Arrives
<1>5. ASSUME NEW c \in Conn, TlsUp(c) PROVE ArgInv'
  BY <1>0, <1>5 DEF TlsUp
<1>6. ASSUME NEW c \in Conn, TlsFails(c) PROVE ArgInv'
  BY <1>0, <1>6 DEF TlsFails
<1>7. ASSUME NEW c \in Conn, ReadEnd(c) PROVE ArgInv'
  BY <1>0, <1>7 DEF ReadEnd, Arrives
<1>8. ASSUME NEW c \in Conn, Presence(c) PROVE ArgInv'
  BY <1>0, <1>8, PresenceReads
<1>9. ASSUME NEW c \in Conn, ReadError(c) PROVE ArgInv'
  BY <1>0, <1>9 DEF ReadError
<1>10. ASSUME NEW c \in Conn, AnswerEnd(c) PROVE ArgInv'
  BY <1>0, <1>10 DEF AnswerEnd
<1>11. ASSUME NEW c \in Conn, StoreJid(c) PROVE ArgInv'
  BY <1>0, <1>11 DEF StoreJid
<1>12. ASSUME NEW c \in Conn, Welcome(c) PROVE ArgInv'
  BY <1>0, <1>12 DEF Welcome
<1>13. ASSUME NEW c \in Conn, AddClient(c) PROVE ArgInv'
  BY <1>0, <1>13 DEF AddClient
<1>14. ASSUME NEW c \in Conn, Join(c) PROVE ArgInv'
  BY <1>0, <1>14 DEF Join, Acquire, Iterate
<1>15. ASSUME NEW c \in Conn, Leave(c) PROVE ArgInv'
  BY <1>0, <1>15, LeaveLooks
<1>16. ASSUME NEW c \in Conn, RemoveClient(c) PROVE ArgInv'
  BY <1>0, <1>16 DEF RemoveClient, Acquire, Iterate
<1>17. ASSUME NEW c \in Conn, DropMember(c) PROVE ArgInv'
  BY <1>0, <1>17 DEF DropMember, Iterate
<1>18. ASSUME NEW c \in Conn, DropClient(c) PROVE ArgInv'
  BY <1>0, <1>18 DEF DropClient, Release
<1>19. ASSUME NEW c \in Conn, CloseConn(c) PROVE ArgInv'
  BY <1>0, <1>19 DEF CloseConn
<1>20. ASSUME NEW c \in Conn, NEW j \in Jid, Auth(c, j) PROVE ArgInv'
  BY <1>0, <1>20 DEF Auth, Take, Arrives
<1>21. ASSUME NEW c \in Conn, NEW to \in Targets, Message(c, to) PROVE ArgInv'
  BY <1>0, <1>21 DEF Message, Take, Arrives
<1>22. ASSUME NEW a \in Admin, NEW b \in Targets \cap Bare, AdminKick(a, b) PROVE ArgInv'
  BY <1>0, <1>22 DEF AdminKick
<1>23. ASSUME NEW a \in Admin, NEW to \in Targets \cap Bare, AdminSend(a, to) PROVE ArgInv'
  BY <1>0, <1>23 DEF AdminSend
<1>24. ASSUME NEW p \in Proc, KickLock(p) PROVE ArgInv'
  BY <1>0, <1>24 DEF KickLock, Acquire, Iterate
<1>25. ASSUME NEW p \in Proc, ScanHit(p) PROVE ArgInv'
  BY <1>0, <1>25 DEF ScanHit
<1>26. ASSUME NEW p \in Proc, ScanMiss(p) PROVE ArgInv'
  BY <1>0, <1>26 DEF ScanMiss, Iterate
<1>27. ASSUME NEW p \in Proc, ScanEnd(p) PROVE ArgInv'
  BY <1>0, <1>27 DEF ScanEnd, Release
<1>28. ASSUME NEW p \in Proc, KickError(p) PROVE ArgInv'
  BY <1>0, <1>28 DEF KickError
<1>29. ASSUME NEW p \in Proc, KickMark(p) PROVE ArgInv'
  BY <1>0, <1>29 DEF KickMark
<1>30. ASSUME NEW p \in Proc, KickEnd(p) PROVE ArgInv'
  BY <1>0, <1>30 DEF KickEnd
<1>31. ASSUME NEW p \in Proc, StreamEnd(p) PROVE ArgInv'
  BY <1>0, <1>31 DEF StreamEnd, Iterate
<1>32. ASSUME NEW p \in Proc, CloseTimeout(p) PROVE ArgInv'
  BY <1>0, <1>32 DEF CloseTimeout, Iterate
<1>33. ASSUME NEW p \in Proc, RouteRoom(p) PROVE ArgInv'
  BY <1>0, <1>33 DEF RouteRoom, Iterate
<1>34. ASSUME NEW p \in Proc, RouteUser(p) PROVE ArgInv'
  BY <1>0, <1>34 DEF RouteUser, Acquire, Iterate
<1>35. ASSUME NEW p \in Proc, Cast(p) PROVE ArgInv'
  BY <1>0, <1>35 DEF Cast, Iterate
<1>36. ASSUME NEW p \in Proc, CastEnd(p) PROVE ArgInv'
  BY <1>0, <1>36 DEF CastEnd, Release, Home
<1>37. ASSUME UNCHANGED vars PROVE ArgInv'
  BY <1>0, <1>37 DEF vars
<1> QED
  BY <1>1, <1>2, <1>3, <1>4, <1>5, <1>6, <1>7, <1>8, <1>9, <1>10, <1>11, <1>12, <1>13, <1>14, <1>15, <1>16, <1>17, <1>18, <1>19, <1>20, <1>21, <1>22, <1>23, <1>24, <1>25, <1>26, <1>27, <1>28, <1>29, <1>30, <1>31, <1>32, <1>33, <1>34, <1>35, <1>36, <1>37
  DEF Next, Environment, Request, Lock, Run, Quiescent

LEMMA KickStep ==
  ASSUME TypeOK, LockDiscipline, TargetInv, KickInv, [Next]_vars
  PROVE  KickInv'
<1> USE DEF TypeOK, LockDiscipline, KickInv, Goto, Kicking, loop, registry
<1>0. Conn \subseteq Proc /\ Admin \subseteq Proc /\ NoProc \notin Proc
  BY ConstantsAssumption DEF Proc
<1>1. ASSUME NEW c \in Conn, Accept(c) PROVE KickInv'
  BY <1>0, <1>1 DEF Accept
<1>2. ASSUME NEW c \in Conn, Hello(c) PROVE KickInv'
  BY <1>0, <1>2 DEF Hello
<1>3. ASSUME NEW c \in Conn, Chat(c) PROVE KickInv'
  BY <1>0, <1>3 DEF Chat, Take, Arrives
<1>4. ASSUME NEW c \in Conn, StartTLS(c) PROVE KickInv'
  BY <1>0, <1>4 DEF StartTLS, Arrives
<1>5. ASSUME NEW c \in Conn, TlsUp(c) PROVE KickInv'
  BY <1>0, <1>5 DEF TlsUp
<1>6. ASSUME NEW c \in Conn, TlsFails(c) PROVE KickInv'
  BY <1>0, <1>6 DEF TlsFails
<1>7. ASSUME NEW c \in Conn, ReadEnd(c) PROVE KickInv'
  BY <1>0, <1>7 DEF ReadEnd, Arrives
<1>8. ASSUME NEW c \in Conn, Presence(c) PROVE KickInv'
  <2>1. UNCHANGED <<clients, todo>>
    BY <1>8 DEF Presence, Take
  <2>2. ASSUME NEW p \in Proc, pc'[p] \in Kicking PROVE pc[p] \in Kicking
    <3>1. \E next \in {"avail", "join", "leave"} : pc' = [pc EXCEPT ![c] = next]
      BY <1>8 DEF Presence
    <3> QED BY <1>0, <2>2, <3>1
  <2> QED BY <2>1, <2>2
<1>9. ASSUME NEW c \in Conn, ReadError(c) PROVE KickInv'
  BY <1>0, <1>9 DEF ReadError
<1>10. ASSUME NEW c \in Conn, AnswerEnd(c) PROVE KickInv'
  <2>1. \E next \in {"sendEnd", "exit"} : pc' = [pc EXCEPT ![c] = next]
    BY <1>10 DEF AnswerEnd
  <2>2. UNCHANGED <<todo, clients>>
    BY <1>10 DEF AnswerEnd
  <2> QED BY <1>0, <2>1, <2>2
<1>11. ASSUME NEW c \in Conn, StoreJid(c) PROVE KickInv'
  BY <1>0, <1>11 DEF StoreJid
<1>12. ASSUME NEW c \in Conn, Welcome(c) PROVE KickInv'
  BY <1>0, <1>12 DEF Welcome
<1>13. ASSUME NEW c \in Conn, AddClient(c) PROVE KickInv'
  <2>1. Listed(clients) \subseteq Listed(clients')
    BY <1>13, AddOnceType DEF AddClient
  <2> QED BY <1>0, <1>13, <2>1 DEF AddClient
<1>14. ASSUME NEW c \in Conn, Join(c) PROVE KickInv'
  BY <1>0, <1>14 DEF Join, Acquire, Iterate
<1>15. ASSUME NEW c \in Conn, Leave(c) PROVE KickInv'
  <2>1. /\ pc' = [pc EXCEPT ![c] = "read"] \/ pc' = [pc EXCEPT ![c] = "leaveCast"]
        /\ \A p \in Proc \ {c} : todo'[p] = todo[p]
        /\ UNCHANGED clients
    BY <1>0, <1>15 DEF Leave, Iterate
  <2> QED BY <1>0, <2>1
<1>16. ASSUME NEW c \in Conn, RemoveClient(c) PROVE KickInv'
  BY <1>0, <1>16 DEF RemoveClient, Acquire, Iterate
<1>17. ASSUME NEW c \in Conn, DropMember(c) PROVE KickInv'
  BY <1>0, <1>17 DEF DropMember, Iterate
<1>18. ASSUME NEW c \in Conn, DropClient(c) PROVE KickInv'
  <2>1. \A p \in Proc : pc'[p] \notin Kicking
    BY <1>0, <1>18 DEF DropClient, Critical, Casting
  <2> QED BY <2>1
<1>19. ASSUME NEW c \in Conn, CloseConn(c) PROVE KickInv'
  BY <1>0, <1>19 DEF CloseConn
<1>20. ASSUME NEW c \in Conn, NEW j \in Jid, Auth(c, j) PROVE KickInv'
  BY <1>0, <1>20 DEF Auth, Take, Arrives
<1>21. ASSUME NEW c \in Conn, NEW to \in Targets, Message(c, to) PROVE KickInv'
  BY <1>0, <1>21 DEF Message, Take, Arrives
<1>22. ASSUME NEW a \in Admin, NEW b \in Targets \cap Bare, AdminKick(a, b) PROVE KickInv'
  BY <1>0, <1>22 DEF AdminKick
<1>23. ASSUME NEW a \in Admin, NEW to \in Targets \cap Bare, AdminSend(a, to) PROVE KickInv'
  BY <1>0, <1>23 DEF AdminSend
<1>24. ASSUME NEW p \in Proc, KickLock(p) PROVE KickInv'
  BY <1>0, <1>24 DEF KickLock, Acquire, Iterate
<1>25. ASSUME NEW p \in Proc, ScanHit(p) PROVE KickInv'
  BY <1>0, <1>25 DEF ScanHit
<1>26. ASSUME NEW p \in Proc, ScanMiss(p) PROVE KickInv'
  <2>1. todo[p] # << >> /\ todo[p] \in Seq(Conn)
    BY <1>26 DEF ScanMiss, TargetInv
  <2>2. Listed(Tail(todo[p])) \subseteq Listed(todo[p])
    BY <2>1, ListedTail
  <2> QED BY <1>0, <1>26, <2>2 DEF ScanMiss, Iterate
<1>27. ASSUME NEW p \in Proc, ScanEnd(p) PROVE KickInv'
  BY <1>0, <1>27 DEF ScanEnd, Release
<1>28. ASSUME NEW p \in Proc, KickError(p) PROVE KickInv'
  BY <1>0, <1>28 DEF KickError
<1>29. ASSUME NEW p \in Proc, KickMark(p) PROVE KickInv'
  BY <1>0, <1>29 DEF KickMark
<1>30. ASSUME NEW p \in Proc, KickEnd(p) PROVE KickInv'
  BY <1>0, <1>30 DEF KickEnd
<1>31. ASSUME NEW p \in Proc, StreamEnd(p) PROVE KickInv'
  <2>1. todo[p] # << >> /\ todo[p] \in Seq(Conn)
    BY <1>31 DEF StreamEnd, TargetInv
  <2>2. Listed(Tail(todo[p])) \subseteq Listed(todo[p])
    BY <2>1, ListedTail
  <2> QED BY <1>0, <1>31, <2>2 DEF StreamEnd, Iterate
<1>32. ASSUME NEW p \in Proc, CloseTimeout(p) PROVE KickInv'
  <2>1. todo[p] # << >> /\ todo[p] \in Seq(Conn)
    BY <1>32 DEF CloseTimeout, TargetInv
  <2>2. Listed(Tail(todo[p])) \subseteq Listed(todo[p])
    BY <2>1, ListedTail
  <2> QED BY <1>0, <1>32, <2>2 DEF CloseTimeout, Iterate
<1>33. ASSUME NEW p \in Proc, RouteRoom(p) PROVE KickInv'
  <2>1. /\ pc' = [pc EXCEPT ![p] = "direct"] \/ pc' = [pc EXCEPT ![p] = "roomCast"]
        /\ \A q \in Proc \ {p} : todo'[q] = todo[q]
        /\ UNCHANGED clients
    BY <1>33 DEF RouteRoom, Iterate
  <2>2. \A q \in Proc : pc'[q] \in Kicking => q # p /\ pc[q] \in Kicking
    BY <1>0, <2>1
  <2> QED BY <1>0, <2>1, <2>2
<1>34. ASSUME NEW p \in Proc, RouteUser(p) PROVE KickInv'
  BY <1>0, <1>34 DEF RouteUser, Acquire, Iterate
<1>35. ASSUME NEW p \in Proc, Cast(p) PROVE KickInv'
  BY <1>0, <1>35 DEF Cast, Iterate, Casting
<1>36. ASSUME NEW p \in Proc, CastEnd(p) PROVE KickInv'
  BY <1>0, <1>36 DEF CastEnd, Release, Home
<1>37. ASSUME UNCHANGED vars PROVE KickInv'
  BY <1>0, <1>37 DEF vars
<1> QED
  BY <1>1, <1>2, <1>3, <1>4, <1>5, <1>6, <1>7, <1>8, <1>9, <1>10, <1>11, <1>12, <1>13, <1>14, <1>15, <1>16, <1>17, <1>18, <1>19, <1>20, <1>21, <1>22, <1>23, <1>24, <1>25, <1>26, <1>27, <1>28, <1>29, <1>30, <1>31, <1>32, <1>33, <1>34, <1>35, <1>36, <1>37
  DEF Next, Environment, Request, Lock, Run, Quiescent

LEMMA NewStep ==
  ASSUME TypeOK, TargetInv, KickInv, NewInv, [Next]_vars
  PROVE  NewInv'
<1> USE DEF TypeOK, NewInv, Goto, registry, session
<1>0. Conn \subseteq Proc /\ Admin \subseteq Proc /\ NoProc \notin Proc
  BY ConstantsAssumption DEF Proc
<1>1. ASSUME NEW c \in Conn, Accept(c) PROVE NewInv'
  BY <1>0, <1>1 DEF Accept
<1>2. ASSUME NEW c \in Conn, Hello(c) PROVE NewInv'
  BY <1>0, <1>2 DEF Hello
<1>3. ASSUME NEW c \in Conn, Chat(c) PROVE NewInv'
  BY <1>0, <1>3 DEF Chat, Take, Arrives
<1>4. ASSUME NEW c \in Conn, StartTLS(c) PROVE NewInv'
  BY <1>0, <1>4 DEF StartTLS, Arrives
<1>5. ASSUME NEW c \in Conn, TlsUp(c) PROVE NewInv'
  BY <1>0, <1>5 DEF TlsUp
<1>6. ASSUME NEW c \in Conn, TlsFails(c) PROVE NewInv'
  BY <1>0, <1>6 DEF TlsFails
<1>7. ASSUME NEW c \in Conn, ReadEnd(c) PROVE NewInv'
  BY <1>0, <1>7 DEF ReadEnd, Arrives
<1>8. ASSUME NEW c \in Conn, Presence(c) PROVE NewInv'
  BY <1>0, <1>8 DEF Presence, Take, Arrives
<1>9. ASSUME NEW c \in Conn, ReadError(c) PROVE NewInv'
  BY <1>0, <1>9 DEF ReadError
<1>10. ASSUME NEW c \in Conn, AnswerEnd(c) PROVE NewInv'
  BY <1>0, <1>10 DEF AnswerEnd
<1>11. ASSUME NEW c \in Conn, StoreJid(c) PROVE NewInv'
  BY <1>0, <1>11 DEF StoreJid
<1>12. ASSUME NEW c \in Conn, Welcome(c) PROVE NewInv'
  BY <1>0, <1>12 DEF Welcome
<1>13. ASSUME NEW c \in Conn, AddClient(c) PROVE NewInv'
  <2>1. Listed(clients') = Listed(clients) \cup {c}
    BY <1>13, AddOnceType DEF AddClient
  <2> QED BY <1>0, <1>13, <2>1 DEF AddClient
<1>14. ASSUME NEW c \in Conn, Join(c) PROVE NewInv'
  BY <1>0, <1>14 DEF Join, Acquire, Iterate
<1>15. ASSUME NEW c \in Conn, Leave(c) PROVE NewInv'
  BY <1>0, <1>15 DEF Leave, Iterate
<1>16. ASSUME NEW c \in Conn, RemoveClient(c) PROVE NewInv'
  BY <1>0, <1>16 DEF RemoveClient, Acquire, Iterate
<1>17. ASSUME NEW c \in Conn, DropMember(c) PROVE NewInv'
  BY <1>0, <1>17 DEF DropMember, Iterate
<1>18. ASSUME NEW c \in Conn, DropClient(c) PROVE NewInv'
  <2>1. Listed(clients') \subseteq Listed(clients)
    BY <1>18, SwapRemoveType DEF DropClient
  <2> QED BY <1>0, <1>18, <2>1 DEF DropClient
<1>19. ASSUME NEW c \in Conn, CloseConn(c) PROVE NewInv'
  BY <1>0, <1>19 DEF CloseConn
<1>20. ASSUME NEW c \in Conn, NEW j \in Jid, Auth(c, j) PROVE NewInv'
  BY <1>0, <1>20 DEF Auth, Take, Arrives
<1>21. ASSUME NEW c \in Conn, NEW to \in Targets, Message(c, to) PROVE NewInv'
  BY <1>0, <1>21 DEF Message, Take, Arrives
<1>22. ASSUME NEW a \in Admin, NEW b \in Targets \cap Bare, AdminKick(a, b) PROVE NewInv'
  BY <1>0, <1>22 DEF AdminKick
<1>23. ASSUME NEW a \in Admin, NEW to \in Targets \cap Bare, AdminSend(a, to) PROVE NewInv'
  BY <1>0, <1>23 DEF AdminSend
<1>24. ASSUME NEW p \in Proc, KickLock(p) PROVE NewInv'
  BY <1>0, <1>24 DEF KickLock, Acquire, Iterate
<1>25. ASSUME NEW p \in Proc, ScanHit(p) PROVE NewInv'
  BY <1>0, <1>25 DEF ScanHit
<1>26. ASSUME NEW p \in Proc, ScanMiss(p) PROVE NewInv'
  BY <1>0, <1>26 DEF ScanMiss, Iterate
<1>27. ASSUME NEW p \in Proc, ScanEnd(p) PROVE NewInv'
  BY <1>0, <1>27 DEF ScanEnd, Release
<1>28. ASSUME NEW p \in Proc, KickError(p) PROVE NewInv'
  BY <1>0, <1>28 DEF KickError
<1>29. ASSUME NEW p \in Proc, KickMark(p) PROVE NewInv'
  <2>1. todo[p] # << >> /\ pc[p] \in Kicking
    BY <1>29 DEF KickMark, TargetInv, Kicking
  <2>2. Head(todo[p]) \in Listed(clients)
    BY <2>1, ListedTail DEF KickInv
  <2> QED BY <1>0, <1>29, <2>2 DEF KickMark
<1>30. ASSUME NEW p \in Proc, KickEnd(p) PROVE NewInv'
  BY <1>0, <1>30 DEF KickEnd
<1>31. ASSUME NEW p \in Proc, StreamEnd(p) PROVE NewInv'
  BY <1>0, <1>31 DEF StreamEnd, Iterate
<1>32. ASSUME NEW p \in Proc, CloseTimeout(p) PROVE NewInv'
  BY <1>0, <1>32 DEF CloseTimeout, Iterate
<1>33. ASSUME NEW p \in Proc, RouteRoom(p) PROVE NewInv'
  BY <1>0, <1>33 DEF RouteRoom, Iterate
<1>34. ASSUME NEW p \in Proc, RouteUser(p) PROVE NewInv'
  BY <1>0, <1>34 DEF RouteUser, Acquire, Iterate
<1>35. ASSUME NEW p \in Proc, Cast(p) PROVE NewInv'
  BY <1>0, <1>35 DEF Cast, Iterate
<1>36. ASSUME NEW p \in Proc, CastEnd(p) PROVE NewInv'
  BY <1>0, <1>36 DEF CastEnd, Release, Home
<1>37. ASSUME UNCHANGED vars PROVE NewInv'
  BY <1>0, <1>37 DEF vars
<1> QED
  BY <1>1, <1>2, <1>3, <1>4, <1>5, <1>6, <1>7, <1>8, <1>9, <1>10, <1>11, <1>12, <1>13, <1>14, <1>15, <1>16, <1>17, <1>18, <1>19, <1>20, <1>21, <1>22, <1>23, <1>24, <1>25, <1>26, <1>27, <1>28, <1>29, <1>30, <1>31, <1>32, <1>33, <1>34, <1>35, <1>36, <1>37
  DEF Next, Environment, Request, Lock, Run, Quiescent

-----------------------------------------------------------------------------
(* The registry.                                                           *)

\* What Join changes: one room gets c, an old one or a new one whose address
\* is the first of its kind.
LEMMA JoinFacts ==
  ASSUME TypeOK, ArgInv, NoDuplicates, NEW c \in Conn, Join(c)
  PROVE  \E i \in Nat :
           /\ DOMAIN rooms' = DOMAIN rooms \cup {i}
           /\ MembersAt(i) \in Seq(Conn)
           /\ rooms'[i].members = AddOnce(MembersAt(i), c)
           /\ \A k \in DOMAIN rooms \ {i} : rooms'[k] = rooms[k]
           /\ i \in DOMAIN rooms => rooms'[i].jid = rooms[i].jid
           /\ i \notin DOMAIN rooms => /\ rooms'[i].jid = arg[c]
                                       /\ FoldRooms(arg[c]) = {}
<1> DEFINE found == FoldRooms(arg[c])
           i == IF found = {} THEN Len(rooms) + 1 ELSE First(found)
           members == AddOnce(MembersAt(i), c)
<1>1. rooms \in Seq(Room) /\ DOMAIN rooms = 1 .. Len(rooms) /\ Len(rooms) \in Nat
  BY DEF TypeOK
<1>2. MembersAt(i) \in Seq(Conn) /\ members \in Seq(Conn)
  BY <1>1, MembersType, AddOnceType
<1>3. CASE found = {}
  <2> DEFINE r == [jid |-> arg[c], members |-> members]
  <2>1. rooms' = Append(rooms, r)
    BY <1>3 DEF Join
  <2>2. i = Len(rooms) + 1
    BY <1>3
  <2>3. r.jid = arg[c] /\ r.members = members
    OBVIOUS
  <2> HIDE DEF r, i, members
  <2>4. /\ DOMAIN rooms' = DOMAIN rooms \cup {i}
        /\ rooms'[i] = r
        /\ \A k \in DOMAIN rooms : rooms'[k] = rooms[k]
        /\ i \notin DOMAIN rooms
    BY <1>1, <2>1, <2>2
  <2>5. i \in Nat
    BY <1>1, <2>2
  <2> QED BY <1>2, <1>3, <2>3, <2>4, <2>5 DEF members
<1>4. CASE found # {}
  <2>1. i \in found /\ i \in Nat
    BY <1>4, FirstType
  <2>2. rooms' = [rooms EXCEPT ![i].members = members]
    BY <1>4 DEF Join
  <2>3. i \in DOMAIN rooms
    BY <2>1 DEF FoldRooms
  <2> HIDE DEF i
  <2>4. /\ DOMAIN rooms' = DOMAIN rooms
        /\ \A k \in DOMAIN rooms \ {i} : rooms'[k] = rooms[k]
    BY <2>2
  <2>5. rooms'[i].members = members /\ rooms'[i].jid = rooms[i].jid
    BY <1>1, <1>2, <2>2, <2>3, EditRoom
  <2> QED BY <1>2, <2>1, <2>3, <2>4, <2>5
<1> QED BY <1>3, <1>4

LEMMA DuplicateStep ==
  ASSUME TypeOK, ArgInv, NoDuplicates, [Next]_vars
  PROVE  NoDuplicates'
<1> USE DEF TypeOK, registry
<1>0. Conn \subseteq Proc /\ Admin \subseteq Proc /\ NoProc \notin Proc
  BY ConstantsAssumption DEF Proc
<1>1. ASSUME NEW c \in Conn, Accept(c) PROVE NoDuplicates'
  BY <1>1 DEF NoDuplicates, Accept
<1>2. ASSUME NEW c \in Conn, Hello(c) PROVE NoDuplicates'
  BY <1>2 DEF NoDuplicates, Hello
<1>3. ASSUME NEW c \in Conn, Chat(c) PROVE NoDuplicates'
  BY <1>0, <1>3 DEF NoDuplicates, Chat, Take, Arrives
<1>4. ASSUME NEW c \in Conn, StartTLS(c) PROVE NoDuplicates'
  BY <1>4 DEF NoDuplicates, StartTLS, Arrives
<1>5. ASSUME NEW c \in Conn, TlsUp(c) PROVE NoDuplicates'
  BY <1>5 DEF NoDuplicates, TlsUp
<1>6. ASSUME NEW c \in Conn, TlsFails(c) PROVE NoDuplicates'
  BY <1>6 DEF NoDuplicates, TlsFails
<1>7. ASSUME NEW c \in Conn, ReadEnd(c) PROVE NoDuplicates'
  BY <1>7 DEF NoDuplicates, ReadEnd, Arrives
<1>8. ASSUME NEW c \in Conn, Presence(c) PROVE NoDuplicates'
  BY <1>8 DEF NoDuplicates, Presence, Take, Arrives
<1>9. ASSUME NEW c \in Conn, ReadError(c) PROVE NoDuplicates'
  BY <1>9 DEF NoDuplicates, ReadError
<1>10. ASSUME NEW c \in Conn, AnswerEnd(c) PROVE NoDuplicates'
  BY <1>10 DEF NoDuplicates, AnswerEnd
<1>11. ASSUME NEW c \in Conn, StoreJid(c) PROVE NoDuplicates'
  BY <1>11 DEF NoDuplicates, StoreJid
<1>12. ASSUME NEW c \in Conn, Welcome(c) PROVE NoDuplicates'
  BY <1>12 DEF NoDuplicates, Welcome
<1>13. ASSUME NEW c \in Conn, AddClient(c) PROVE NoDuplicates'
  BY <1>13, AddOnceType DEF AddClient, NoDuplicates
<1>14. ASSUME NEW c \in Conn, Join(c) PROVE NoDuplicates'
  <2>1. UNCHANGED clients
    BY <1>14 DEF Join
  <2>2. PICK i \in Nat :
           /\ DOMAIN rooms' = DOMAIN rooms \cup {i}
           /\ MembersAt(i) \in Seq(Conn)
           /\ rooms'[i].members = AddOnce(MembersAt(i), c)
           /\ \A k \in DOMAIN rooms \ {i} : rooms'[k] = rooms[k]
           /\ i \in DOMAIN rooms => rooms'[i].jid = rooms[i].jid
           /\ i \notin DOMAIN rooms => /\ rooms'[i].jid = arg[c]
                                       /\ FoldRooms(arg[c]) = {}
    BY <1>14, JoinFacts
  <2>3. Distinct(MembersAt(i))
    <3>1. Distinct(<< >>)
      BY DEF Distinct
    <3> QED BY <3>1 DEF MembersAt, NoDuplicates
  <2>4. Distinct(rooms'[i].members)
    BY <2>2, <2>3, AddOnceType
  <2>5. \A k \in DOMAIN rooms' : Distinct(rooms'[k].members)
    BY <2>2, <2>4 DEF NoDuplicates
  <2>6. \A k, l \in DOMAIN rooms' : SameFold(rooms'[k].jid, rooms'[l].jid) => k = l
    BY <2>2 DEF NoDuplicates, SameFold, FoldRooms
  <2> QED BY <2>1, <2>5, <2>6 DEF NoDuplicates
<1>15. ASSUME NEW c \in Conn, Leave(c) PROVE NoDuplicates'
  BY <1>15 DEF NoDuplicates, Leave, Iterate
<1>16. ASSUME NEW c \in Conn, RemoveClient(c) PROVE NoDuplicates'
  BY <1>16 DEF NoDuplicates, RemoveClient, Acquire, Iterate
<1>17. ASSUME NEW c \in Conn, DropMember(c) PROVE NoDuplicates'
  <2>1. UNCHANGED clients
    BY <1>17 DEF DropMember
  <2>2. rooms' = RemoveMember(idx[c], c) \/ rooms' = rooms
    BY <1>17 DEF DropMember
  <2>3. CASE rooms' = rooms
    BY <2>1, <2>3 DEF NoDuplicates
  <2>4. CASE rooms' = RemoveMember(idx[c], c)
    <3>1. DOMAIN rooms' = DOMAIN rooms /\ \A k \in DOMAIN rooms : rooms'[k].jid = rooms[k].jid
      BY <2>4, RemoveMemberFacts
    <3>2. ASSUME NEW k \in DOMAIN rooms PROVE Distinct(rooms'[k].members)
      <4>1. /\ rooms[k].members \in Seq(Conn)
            /\ \/ rooms'[k].members = SwapRemove(rooms[k].members, c)
               \/ rooms'[k].members = rooms[k].members
        BY <2>4, RemoveMemberFacts
      <4>2. Distinct(rooms[k].members)
        BY DEF NoDuplicates
      <4> QED BY <4>1, <4>2, SwapRemoveGone
    <3> QED BY <2>1, <3>1, <3>2 DEF NoDuplicates, SameFold
  <2> QED BY <2>2, <2>3, <2>4
<1>18. ASSUME NEW c \in Conn, DropClient(c) PROVE NoDuplicates'
  BY <1>18, SwapRemoveGone DEF DropClient, NoDuplicates
<1>19. ASSUME NEW c \in Conn, CloseConn(c) PROVE NoDuplicates'
  BY <1>19 DEF NoDuplicates, CloseConn
<1>20. ASSUME NEW c \in Conn, NEW j \in Jid, Auth(c, j) PROVE NoDuplicates'
  BY <1>20 DEF NoDuplicates, Auth, Take, Arrives
<1>21. ASSUME NEW c \in Conn, NEW to \in Targets, Message(c, to) PROVE NoDuplicates'
  BY <1>21 DEF NoDuplicates, Message, Take, Arrives
<1>22. ASSUME NEW a \in Admin, NEW b \in Targets \cap Bare, AdminKick(a, b) PROVE NoDuplicates'
  BY <1>22 DEF NoDuplicates, AdminKick
<1>23. ASSUME NEW a \in Admin, NEW to \in Targets \cap Bare, AdminSend(a, to) PROVE NoDuplicates'
  BY <1>23 DEF NoDuplicates, AdminSend
<1>24. ASSUME NEW p \in Proc, KickLock(p) PROVE NoDuplicates'
  BY <1>24 DEF NoDuplicates, KickLock, Acquire, Iterate
<1>25. ASSUME NEW p \in Proc, ScanHit(p) PROVE NoDuplicates'
  BY <1>25 DEF NoDuplicates, ScanHit
<1>26. ASSUME NEW p \in Proc, ScanMiss(p) PROVE NoDuplicates'
  BY <1>26 DEF NoDuplicates, ScanMiss, Iterate
<1>27. ASSUME NEW p \in Proc, ScanEnd(p) PROVE NoDuplicates'
  BY <1>27 DEF NoDuplicates, ScanEnd, Release
<1>28. ASSUME NEW p \in Proc, KickError(p) PROVE NoDuplicates'
  BY <1>28 DEF NoDuplicates, KickError
<1>29. ASSUME NEW p \in Proc, KickMark(p) PROVE NoDuplicates'
  BY <1>29 DEF NoDuplicates, KickMark
<1>30. ASSUME NEW p \in Proc, KickEnd(p) PROVE NoDuplicates'
  BY <1>30 DEF NoDuplicates, KickEnd
<1>31. ASSUME NEW p \in Proc, StreamEnd(p) PROVE NoDuplicates'
  BY <1>31 DEF NoDuplicates, StreamEnd, Iterate
<1>32. ASSUME NEW p \in Proc, CloseTimeout(p) PROVE NoDuplicates'
  BY <1>32 DEF NoDuplicates, CloseTimeout, Iterate
<1>33. ASSUME NEW p \in Proc, RouteRoom(p) PROVE NoDuplicates'
  BY <1>33 DEF NoDuplicates, RouteRoom, Iterate
<1>34. ASSUME NEW p \in Proc, RouteUser(p) PROVE NoDuplicates'
  BY <1>34 DEF NoDuplicates, RouteUser, Acquire, Iterate
<1>35. ASSUME NEW p \in Proc, Cast(p) PROVE NoDuplicates'
  BY <1>35 DEF NoDuplicates, Cast, Iterate
<1>36. ASSUME NEW p \in Proc, CastEnd(p) PROVE NoDuplicates'
  <2>1. UNCHANGED clients
    BY <1>36 DEF CastEnd
  <2>2. rooms' = RemoveMember(idx[p], p) \/ rooms' = rooms
    BY <1>36 DEF CastEnd
  <2>3. CASE rooms' = rooms
    BY <2>1, <2>3 DEF NoDuplicates
  <2>4. CASE rooms' = RemoveMember(idx[p], p)
    <3>1. DOMAIN rooms' = DOMAIN rooms /\ \A k \in DOMAIN rooms : rooms'[k].jid = rooms[k].jid
      BY <2>4, RemoveMemberFacts
    <3>2. ASSUME NEW k \in DOMAIN rooms PROVE Distinct(rooms'[k].members)
      <4>1. /\ rooms[k].members \in Seq(Conn)
            /\ \/ rooms'[k].members = SwapRemove(rooms[k].members, p)
               \/ rooms'[k].members = rooms[k].members
        BY <2>4, RemoveMemberFacts
      <4>2. Distinct(rooms[k].members)
        BY DEF NoDuplicates
      <4> QED BY <4>1, <4>2, SwapRemoveGone
    <3> QED BY <2>1, <3>1, <3>2 DEF NoDuplicates, SameFold
  <2> QED BY <2>2, <2>3, <2>4
<1>37. ASSUME UNCHANGED vars PROVE NoDuplicates'
  BY <1>37 DEF NoDuplicates, vars
<1> QED
  BY <1>1, <1>2, <1>3, <1>4, <1>5, <1>6, <1>7, <1>8, <1>9, <1>10, <1>11, <1>12, <1>13, <1>14, <1>15, <1>16, <1>17, <1>18, <1>19, <1>20, <1>21, <1>22, <1>23, <1>24, <1>25, <1>26, <1>27, <1>28, <1>29, <1>30, <1>31, <1>32, <1>33, <1>34, <1>35, <1>36, <1>37
  DEF Next, Environment, Request, Lock, Run, Quiescent

LEMMA GhostStep ==
  ASSUME TypeOK, LockDiscipline, ArgInv, NoDuplicates, DropInv, NoGhost, [Next]_vars
  PROVE  DropInv' /\ NoGhost'
<1> USE DEF TypeOK, Goto, DropInv, NoGhost, Registered, InAnyRoom, registry, loop
<1>0. Conn \subseteq Proc /\ Admin \subseteq Proc /\ NoProc \notin Proc
  BY ConstantsAssumption DEF Proc
<1>1. ASSUME NEW c \in Conn, Accept(c) PROVE DropInv' /\ NoGhost'
  BY <1>0, <1>1 DEF Accept
<1>2. ASSUME NEW c \in Conn, Hello(c) PROVE DropInv' /\ NoGhost'
  BY <1>0, <1>2 DEF Hello
<1>3. ASSUME NEW c \in Conn, Chat(c) PROVE DropInv' /\ NoGhost'
  BY <1>0, <1>3 DEF Chat, Take, Arrives
<1>4. ASSUME NEW c \in Conn, StartTLS(c) PROVE DropInv' /\ NoGhost'
  BY <1>0, <1>4 DEF StartTLS, Arrives
<1>5. ASSUME NEW c \in Conn, TlsUp(c) PROVE DropInv' /\ NoGhost'
  BY <1>0, <1>5 DEF TlsUp
<1>6. ASSUME NEW c \in Conn, TlsFails(c) PROVE DropInv' /\ NoGhost'
  BY <1>0, <1>6 DEF TlsFails
<1>7. ASSUME NEW c \in Conn, ReadEnd(c) PROVE DropInv' /\ NoGhost'
  BY <1>0, <1>7 DEF ReadEnd, Arrives
<1>8. ASSUME NEW c \in Conn, Presence(c) PROVE DropInv' /\ NoGhost'
  BY <1>0, <1>8, PresenceReads
<1>9. ASSUME NEW c \in Conn, ReadError(c) PROVE DropInv' /\ NoGhost'
  BY <1>0, <1>9 DEF ReadError
<1>10. ASSUME NEW c \in Conn, AnswerEnd(c) PROVE DropInv' /\ NoGhost'
  <2>1. pc[c] = "ended" /\ \E next \in {"sendEnd", "exit"} : pc' = [pc EXCEPT ![c] = next]
    BY <1>10 DEF AnswerEnd
  <2>2. UNCHANGED <<idx, clients, rooms, authed>>
    BY <1>10 DEF AnswerEnd, session
  <2> QED BY <1>0, <2>1, <2>2
<1>11. ASSUME NEW c \in Conn, StoreJid(c) PROVE DropInv' /\ NoGhost'
  BY <1>0, <1>11 DEF StoreJid
<1>12. ASSUME NEW c \in Conn, Welcome(c) PROVE DropInv' /\ NoGhost'
  BY <1>0, <1>12 DEF Welcome
<1>13. ASSUME NEW c \in Conn, AddClient(c) PROVE DropInv' /\ NoGhost'
  <2>1. Listed(clients') = Listed(clients) \cup {c}
    BY <1>13, AddOnceType DEF AddClient
  <2> QED BY <1>0, <1>13, <2>1 DEF AddClient
<1>14. ASSUME NEW c \in Conn, Join(c) PROVE DropInv' /\ NoGhost'
  <2>1. \A e \in Conn : pc[e] # "drop"
    BY <1>0, <1>14 DEF Join, Acquire, LockDiscipline, Critical, Casting
  <2>2. PICK i \in Nat :
           /\ DOMAIN rooms' = DOMAIN rooms \cup {i}
           /\ MembersAt(i) \in Seq(Conn)
           /\ rooms'[i].members = AddOnce(MembersAt(i), c)
           /\ \A k \in DOMAIN rooms \ {i} : rooms'[k] = rooms[k]
    BY <1>14, JoinFacts
  <2>3. Listed(rooms'[i].members) = Listed(MembersAt(i)) \cup {c}
    BY <2>2, AddOnceType
  <2>4. Listed(MembersAt(i)) = IF i \in DOMAIN rooms THEN Listed(rooms[i].members) ELSE {}
    BY DEF MembersAt, Listed
  <2>5. \A e \in Conn \ {c} : InAnyRoom(e)' => InAnyRoom(e)
    BY <2>2, <2>3, <2>4
  <2>6. UNCHANGED clients /\ pc' = [pc EXCEPT ![c] = "joinCast"]
    BY <1>14 DEF Join
  <2> QED BY <1>0, <2>1, <2>5, <2>6
<1>15. ASSUME NEW c \in Conn, Leave(c) PROVE DropInv' /\ NoGhost'
  <2>1. /\ UNCHANGED <<clients, rooms>> /\ pc'[c] \in {"read", "leaveCast"}
        /\ \A d \in Conn \ {c} : pc'[d] = pc[d] /\ idx'[d] = idx[d]
    BY <1>0, <1>15, LeaveLooks
  <2> QED BY <2>1
<1>16. ASSUME NEW c \in Conn, RemoveClient(c) PROVE DropInv' /\ NoGhost'
  BY <1>0, <1>16 DEF RemoveClient, Acquire, Iterate
<1>17. ASSUME NEW c \in Conn, DropMember(c) PROVE DropInv' /\ NoGhost'
  <2>1. \A k \in DOMAIN rooms : Listed(rooms'[k].members) \subseteq Listed(rooms[k].members)
    <3>1. rooms' = RemoveMember(idx[c], c) \/ rooms' = rooms
      BY <1>17 DEF DropMember
    <3>2. ASSUME NEW k \in DOMAIN rooms
          PROVE  Listed(rooms'[k].members) \subseteq Listed(rooms[k].members)
      <4>1. CASE rooms' = rooms
        BY <4>1
      <4>2. CASE rooms' = RemoveMember(idx[c], c)
        <5>1. /\ rooms[k].members \in Seq(Conn)
              /\ \/ rooms'[k].members = SwapRemove(rooms[k].members, c)
                 \/ rooms'[k].members = rooms[k].members
          BY <4>2, RemoveMemberFacts
        <5> QED BY <5>1, SwapRemoveType
      <4> QED BY <3>1, <4>1, <4>2
    <3> QED BY <3>2
  <2>2. DOMAIN rooms' = DOMAIN rooms /\ UNCHANGED clients
    BY <1>17, RemoveMemberFacts DEF DropMember
  <2>3. c \notin Listed(rooms'[idx[c]].members)
    <3>1. /\ rooms[idx[c]].members \in Seq(Conn)
          /\ rooms'[idx[c]].members = SwapRemove(rooms[idx[c]].members, c)
      BY <1>17, RemoveMemberFacts DEF DropMember
    <3> QED BY <1>17, <3>1, SwapRemoveGone DEF DropMember, NoDuplicates
  <2>4. \A e \in Conn : /\ pc'[e] = pc[e]
                        /\ e # c => idx'[e] = idx[e]
                        /\ e = c => idx'[e] = idx[e] + 1
    BY <1>0, <1>17 DEF DropMember, Iterate
  <2>5. \A e \in Conn : idx[e] \in Nat
    BY <1>0
  <2>6. NoGhost'
    BY <2>1, <2>2, <2>4
  <2>7. ASSUME NEW e \in Conn, pc'[e] = "drop", NEW k \in DOMAIN rooms', k < idx'[e]
        PROVE  e \notin Listed(rooms'[k].members)
    <3>1. CASE e = c /\ k = idx[c]
      BY <2>3, <3>1
    <3>2. CASE ~(e = c /\ k = idx[c])
      <4>1. k < idx[e]
        BY <2>2, <2>4, <2>5, <2>7, <3>2
      <4> QED BY <2>1, <2>2, <2>4, <2>7, <4>1
    <3> QED BY <3>1, <3>2
  <2>8. ASSUME NEW e \in Conn, pc'[e] = "drop" PROVE idx'[e] >= 1
    <3>1. pc[e] = "drop" /\ idx[e] \in Nat /\ idx[e] >= 1
      BY <2>4, <2>5, <2>8
    <3>2. idx'[e] = idx[e] \/ idx'[e] = idx[e] + 1
      BY <2>4
    <3> QED BY <3>1, <3>2
  <2> QED BY <2>6, <2>7, <2>8
<1>18. ASSUME NEW c \in Conn, DropClient(c) PROVE DropInv' /\ NoGhost'
  <2>1. Listed(clients') \subseteq Listed(clients) /\ c \notin Listed(clients')
    BY <1>18, SwapRemoveType, SwapRemoveGone DEF DropClient, NoDuplicates
  <2>2. UNCHANGED rooms /\ pc' = [pc EXCEPT ![c] = "close"] /\ idx' = [idx EXCEPT ![c] = 0]
    BY <1>18 DEF DropClient
  <2>3. ~InAnyRoom(c)
    <3>1. \A i \in DOMAIN rooms : i < idx[c]
      BY <1>0, <1>18 DEF DropClient
    <3> QED BY <1>18, <3>1 DEF DropClient
  <2> QED BY <1>0, <2>1, <2>2, <2>3
<1>19. ASSUME NEW c \in Conn, CloseConn(c) PROVE DropInv' /\ NoGhost'
  BY <1>0, <1>19 DEF CloseConn
<1>20. ASSUME NEW c \in Conn, NEW j \in Jid, Auth(c, j) PROVE DropInv' /\ NoGhost'
  BY <1>0, <1>20 DEF Auth, Take, Arrives
<1>21. ASSUME NEW c \in Conn, NEW to \in Targets, Message(c, to) PROVE DropInv' /\ NoGhost'
  BY <1>0, <1>21 DEF Message, Take, Arrives
<1>22. ASSUME NEW a \in Admin, NEW b \in Targets \cap Bare, AdminKick(a, b) PROVE DropInv' /\ NoGhost'
  BY <1>0, <1>22 DEF AdminKick
<1>23. ASSUME NEW a \in Admin, NEW to \in Targets \cap Bare, AdminSend(a, to) PROVE DropInv' /\ NoGhost'
  BY <1>0, <1>23 DEF AdminSend
<1>24. ASSUME NEW p \in Proc, KickLock(p) PROVE DropInv' /\ NoGhost'
  BY <1>0, <1>24 DEF KickLock, Acquire, Iterate
<1>25. ASSUME NEW p \in Proc, ScanHit(p) PROVE DropInv' /\ NoGhost'
  BY <1>0, <1>25 DEF ScanHit
<1>26. ASSUME NEW p \in Proc, ScanMiss(p) PROVE DropInv' /\ NoGhost'
  BY <1>0, <1>26 DEF ScanMiss, Iterate
<1>27. ASSUME NEW p \in Proc, ScanEnd(p) PROVE DropInv' /\ NoGhost'
  BY <1>0, <1>27 DEF ScanEnd, Release
<1>28. ASSUME NEW p \in Proc, KickError(p) PROVE DropInv' /\ NoGhost'
  BY <1>0, <1>28 DEF KickError
<1>29. ASSUME NEW p \in Proc, KickMark(p) PROVE DropInv' /\ NoGhost'
  BY <1>0, <1>29 DEF KickMark
<1>30. ASSUME NEW p \in Proc, KickEnd(p) PROVE DropInv' /\ NoGhost'
  BY <1>0, <1>30 DEF KickEnd
<1>31. ASSUME NEW p \in Proc, StreamEnd(p) PROVE DropInv' /\ NoGhost'
  BY <1>0, <1>31 DEF StreamEnd, Iterate
<1>32. ASSUME NEW p \in Proc, CloseTimeout(p) PROVE DropInv' /\ NoGhost'
  BY <1>0, <1>32 DEF CloseTimeout, Iterate
<1>33. ASSUME NEW p \in Proc, RouteRoom(p) PROVE DropInv' /\ NoGhost'
  <2>1. /\ pc[p] = "group"
        /\ pc' = [pc EXCEPT ![p] = "direct"] \/ pc' = [pc EXCEPT ![p] = "roomCast"]
        /\ \A q \in Proc \ {p} : idx'[q] = idx[q]
        /\ UNCHANGED <<clients, rooms, authed>>
    BY <1>33 DEF RouteRoom, Iterate, session
  <2> QED BY <1>0, <2>1
<1>34. ASSUME NEW p \in Proc, RouteUser(p) PROVE DropInv' /\ NoGhost'
  BY <1>0, <1>34 DEF RouteUser, Acquire, Iterate
<1>35. ASSUME NEW p \in Proc, Cast(p) PROVE DropInv' /\ NoGhost'
  BY <1>0, <1>35 DEF Cast, Iterate
<1>36. ASSUME NEW p \in Proc, CastEnd(p) PROVE DropInv' /\ NoGhost'
  <2>1. \A k \in DOMAIN rooms : Listed(rooms'[k].members) \subseteq Listed(rooms[k].members)
    <3>1. rooms' = RemoveMember(idx[p], p) \/ rooms' = rooms
      BY <1>36 DEF CastEnd
    <3>2. ASSUME NEW k \in DOMAIN rooms
          PROVE  Listed(rooms'[k].members) \subseteq Listed(rooms[k].members)
      <4>1. CASE rooms' = rooms
        BY <4>1
      <4>2. CASE rooms' = RemoveMember(idx[p], p)
        <5>1. /\ rooms[k].members \in Seq(Conn)
              /\ \/ rooms'[k].members = SwapRemove(rooms[k].members, p)
                 \/ rooms'[k].members = rooms[k].members
          BY <4>2, RemoveMemberFacts
        <5> QED BY <5>1, SwapRemoveType
      <4> QED BY <3>1, <4>1, <4>2
    <3> QED BY <3>2
  <2>2. DOMAIN rooms' = DOMAIN rooms /\ UNCHANGED clients
    BY <1>36, RemoveMemberFacts DEF CastEnd
  <2>3. \A e \in Conn : /\ pc'[e] = "drop" => pc[e] = "drop" /\ idx'[e] = idx[e]
                        /\ pc'[e] \in {"close", "done"} => pc[e] = pc'[e]
    BY <1>0, <1>36 DEF CastEnd, Home
  <2> QED BY <2>1, <2>2, <2>3
<1>37. ASSUME UNCHANGED vars PROVE DropInv' /\ NoGhost'
  BY <1>0, <1>37 DEF vars
<1> QED
  BY <1>1, <1>2, <1>3, <1>4, <1>5, <1>6, <1>7, <1>8, <1>9, <1>10, <1>11, <1>12, <1>13, <1>14, <1>15, <1>16, <1>17, <1>18, <1>19, <1>20, <1>21, <1>22, <1>23, <1>24, <1>25, <1>26, <1>27, <1>28, <1>29, <1>30, <1>31, <1>32, <1>33, <1>34, <1>35, <1>36, <1>37
  DEF Next, Environment, Request, Lock, Run, Quiescent

-----------------------------------------------------------------------------
(* Kicks.                                                                  *)

\* A step of one goroutine that opens no socket, marks no stream, does not give
\* up a kick and does not turn back from leaving.
LEMMA ClosedFrame ==
  ASSUME TypeOK, KickedIsClosed, NEW p \in Proc,
         UNCHANGED streamClosed,
         \A e \in Conn : open'[e] => open[e],
         \A q \in Proc \ {p} : pc'[q] = pc[q] /\ todo'[q] = todo[q],
         pc[p] \in {"exit", "drop", "close", "done"} =>
           pc'[p] \in {"exit", "drop", "close", "done"},
         pc[p] \in {"kickEnd", "kickWait"} =>
           pc'[p] \in {"kickEnd", "kickWait"} /\ todo'[p] = todo[p]
  PROVE  KickedIsClosed'
<1> SUFFICES ASSUME NEW d \in Conn, streamClosed[d], open[d],
                    pc'[d] \notin {"exit", "drop", "close", "done"}
             PROVE  Attended(d)'
  BY DEF KickedIsClosed
<1>1. d \in Proc
  BY DEF Proc
<1>2. pc[d] \notin {"exit", "drop", "close", "done"}
  BY <1>1
<1>3. PICK q \in Proc : pc[q] \in {"kickEnd", "kickWait"} /\ Head(todo[q]) = d
  BY <1>2 DEF KickedIsClosed, Attended
<1>4. pc'[q] \in {"kickEnd", "kickWait"} /\ todo'[q] = todo[q]
  BY <1>3
<1> QED BY <1>3, <1>4 DEF Attended

LEMMA ClosedStep ==
  ASSUME TypeOK, TargetInv, NewInv, KickedIsClosed, [Next]_vars
  PROVE  KickedIsClosed'
<1> USE DEF TypeOK
<1>0. Conn \subseteq Proc /\ Admin \subseteq Proc /\ NoProc \notin Proc
  BY ConstantsAssumption DEF Proc
<1>1. ASSUME NEW c \in Conn, Accept(c) PROVE KickedIsClosed'
  <2>1. ~streamClosed[c]
    BY <1>1 DEF Accept, NewInv
  <2>2. /\ \A e \in Conn \ {c} : open'[e] = open[e]
        /\ UNCHANGED <<streamClosed, todo>>
        /\ pc[c] = "new" /\ pc' = [pc EXCEPT ![c] = "hello"]
    BY <1>1 DEF Accept, session, loop, Goto
  <2> QED BY <1>0, <2>1, <2>2 DEF KickedIsClosed, Attended
<1>2. ASSUME NEW c \in Conn, Hello(c) PROVE KickedIsClosed'
  <2>1. \A e \in Conn : open'[e] => open[e]
    BY <1>2, WriteToType DEF Hello
  <2>2. /\ UNCHANGED streamClosed
        /\ \A q \in Proc \ {c} : pc'[q] = pc[q] /\ todo'[q] = todo[q]
    BY <1>0, <1>2 DEF Hello, session, loop, Goto
  <2>3. /\ pc[c] \in {"exit", "drop", "close", "done"} =>
             pc'[c] \in {"exit", "drop", "close", "done"}
        /\ pc[c] \in {"kickEnd", "kickWait"} =>
             pc'[c] \in {"kickEnd", "kickWait"} /\ todo'[c] = todo[c]
    BY <1>0, <1>2 DEF Hello, loop, Goto
  <2> QED BY <1>0, <2>1, <2>2, <2>3, ClosedFrame
<1>3. ASSUME NEW c \in Conn, Chat(c) PROVE KickedIsClosed'
  <2>1. \A e \in Conn : open'[e] => open[e]
    BY <1>3, WriteToType DEF Chat
  <2>2. /\ UNCHANGED streamClosed
        /\ \A q \in Proc \ {c} : pc'[q] = pc[q] /\ todo'[q] = todo[q]
    BY <1>0, <1>3 DEF Chat, Take, Arrives, session, loop, Goto
  <2>3. /\ pc[c] \in {"exit", "drop", "close", "done"} =>
             pc'[c] \in {"exit", "drop", "close", "done"}
        /\ pc[c] \in {"kickEnd", "kickWait"} =>
             pc'[c] \in {"kickEnd", "kickWait"} /\ todo'[c] = todo[c]
    BY <1>0, <1>3 DEF Chat, Take, Arrives, loop, Goto
  <2> QED BY <1>0, <2>1, <2>2, <2>3, ClosedFrame
<1>4. ASSUME NEW c \in Conn, StartTLS(c) PROVE KickedIsClosed'
  <2>1. \A e \in Conn : open'[e] => open[e]
    BY <1>4, WriteToType DEF StartTLS
  <2>2. /\ UNCHANGED streamClosed
        /\ \A q \in Proc \ {c} : pc'[q] = pc[q] /\ todo'[q] = todo[q]
    BY <1>0, <1>4 DEF StartTLS, Arrives, session, loop, Goto
  <2>3. /\ pc[c] \in {"exit", "drop", "close", "done"} =>
             pc'[c] \in {"exit", "drop", "close", "done"}
        /\ pc[c] \in {"kickEnd", "kickWait"} =>
             pc'[c] \in {"kickEnd", "kickWait"} /\ todo'[c] = todo[c]
    BY <1>0, <1>4 DEF StartTLS, Arrives, loop, Goto
  <2> QED BY <1>0, <2>1, <2>2, <2>3, ClosedFrame
<1>5. ASSUME NEW c \in Conn, TlsUp(c) PROVE KickedIsClosed'
  <2>1. \A e \in Conn : open'[e] => open[e]
    BY <1>5 DEF TlsUp, session
  <2>2. /\ UNCHANGED streamClosed
        /\ \A q \in Proc \ {c} : pc'[q] = pc[q] /\ todo'[q] = todo[q]
    BY <1>0, <1>5 DEF TlsUp, session, loop, Goto
  <2>3. /\ pc[c] \in {"exit", "drop", "close", "done"} =>
             pc'[c] \in {"exit", "drop", "close", "done"}
        /\ pc[c] \in {"kickEnd", "kickWait"} =>
             pc'[c] \in {"kickEnd", "kickWait"} /\ todo'[c] = todo[c]
    BY <1>0, <1>5 DEF TlsUp, loop, Goto
  <2> QED BY <1>0, <2>1, <2>2, <2>3, ClosedFrame
<1>6. ASSUME NEW c \in Conn, TlsFails(c) PROVE KickedIsClosed'
  <2>1. \A e \in Conn : open'[e] => open[e]
    BY <1>6 DEF TlsFails, session
  <2>2. /\ UNCHANGED streamClosed
        /\ \A q \in Proc \ {c} : pc'[q] = pc[q] /\ todo'[q] = todo[q]
    BY <1>0, <1>6 DEF TlsFails, session, loop, Goto
  <2>3. /\ pc[c] \in {"exit", "drop", "close", "done"} =>
             pc'[c] \in {"exit", "drop", "close", "done"}
        /\ pc[c] \in {"kickEnd", "kickWait"} =>
             pc'[c] \in {"kickEnd", "kickWait"} /\ todo'[c] = todo[c]
    BY <1>0, <1>6 DEF TlsFails, loop, Goto
  <2> QED BY <1>0, <2>1, <2>2, <2>3, ClosedFrame
<1>7. ASSUME NEW c \in Conn, ReadEnd(c) PROVE KickedIsClosed'
  <2>1. \A e \in Conn : open'[e] => open[e]
    BY <1>7 DEF ReadEnd, Arrives, session
  <2>2. /\ UNCHANGED streamClosed
        /\ \A q \in Proc \ {c} : pc'[q] = pc[q] /\ todo'[q] = todo[q]
    BY <1>0, <1>7 DEF ReadEnd, Arrives, session, loop, Goto
  <2>3. /\ pc[c] \in {"exit", "drop", "close", "done"} =>
             pc'[c] \in {"exit", "drop", "close", "done"}
        /\ pc[c] \in {"kickEnd", "kickWait"} =>
             pc'[c] \in {"kickEnd", "kickWait"} /\ todo'[c] = todo[c]
    BY <1>0, <1>7 DEF ReadEnd, Arrives, loop, Goto
  <2> QED BY <1>0, <2>1, <2>2, <2>3, ClosedFrame
<1>8. ASSUME NEW c \in Conn, Presence(c) PROVE KickedIsClosed'
  <2>1. \A e \in Conn : open'[e] => open[e]
    BY <1>8 DEF Presence, Take, Arrives, session
  <2>2. /\ UNCHANGED streamClosed
        /\ \A q \in Proc \ {c} : pc'[q] = pc[q] /\ todo'[q] = todo[q]
    BY <1>0, <1>8 DEF Presence, Take, Arrives, session, loop, Goto
  <2>3. /\ pc[c] \in {"exit", "drop", "close", "done"} =>
             pc'[c] \in {"exit", "drop", "close", "done"}
        /\ pc[c] \in {"kickEnd", "kickWait"} =>
             pc'[c] \in {"kickEnd", "kickWait"} /\ todo'[c] = todo[c]
    BY <1>0, <1>8 DEF Presence, Take, Arrives, loop, Goto
  <2> QED BY <1>0, <2>1, <2>2, <2>3, ClosedFrame
<1>9. ASSUME NEW c \in Conn, ReadError(c) PROVE KickedIsClosed'
  <2>1. \A e \in Conn : open'[e] => open[e]
    BY <1>9 DEF ReadError, session
  <2>2. /\ UNCHANGED streamClosed
        /\ \A q \in Proc \ {c} : pc'[q] = pc[q] /\ todo'[q] = todo[q]
    BY <1>0, <1>9 DEF ReadError, session, loop, Goto
  <2>3. /\ pc[c] \in {"exit", "drop", "close", "done"} =>
             pc'[c] \in {"exit", "drop", "close", "done"}
        /\ pc[c] \in {"kickEnd", "kickWait"} =>
             pc'[c] \in {"kickEnd", "kickWait"} /\ todo'[c] = todo[c]
    BY <1>0, <1>9 DEF ReadError, loop, Goto
  <2> QED BY <1>0, <2>1, <2>2, <2>3, ClosedFrame
<1>10. ASSUME NEW c \in Conn, AnswerEnd(c) PROVE KickedIsClosed'
  <2>1. \A e \in Conn : open'[e] => open[e]
    BY <1>10, WriteToType DEF AnswerEnd
  <2>2. /\ UNCHANGED streamClosed
        /\ \A q \in Proc \ {c} : pc'[q] = pc[q] /\ todo'[q] = todo[q]
    BY <1>0, <1>10 DEF AnswerEnd, session, loop, Goto
  <2>3. /\ pc[c] \in {"exit", "drop", "close", "done"} =>
             pc'[c] \in {"exit", "drop", "close", "done"}
        /\ pc[c] \in {"kickEnd", "kickWait"} =>
             pc'[c] \in {"kickEnd", "kickWait"} /\ todo'[c] = todo[c]
    BY <1>0, <1>10 DEF AnswerEnd, loop, Goto
  <2> QED BY <1>0, <2>1, <2>2, <2>3, ClosedFrame
<1>11. ASSUME NEW c \in Conn, StoreJid(c) PROVE KickedIsClosed'
  <2>1. \A e \in Conn : open'[e] => open[e]
    BY <1>11 DEF StoreJid, session
  <2>2. /\ UNCHANGED streamClosed
        /\ \A q \in Proc \ {c} : pc'[q] = pc[q] /\ todo'[q] = todo[q]
    BY <1>0, <1>11 DEF StoreJid, session, loop, Goto
  <2>3. /\ pc[c] \in {"exit", "drop", "close", "done"} =>
             pc'[c] \in {"exit", "drop", "close", "done"}
        /\ pc[c] \in {"kickEnd", "kickWait"} =>
             pc'[c] \in {"kickEnd", "kickWait"} /\ todo'[c] = todo[c]
    BY <1>0, <1>11 DEF StoreJid, loop, Goto
  <2> QED BY <1>0, <2>1, <2>2, <2>3, ClosedFrame
<1>12. ASSUME NEW c \in Conn, Welcome(c) PROVE KickedIsClosed'
  <2>1. \A e \in Conn : open'[e] => open[e]
    BY <1>12, WriteToType DEF Welcome
  <2>2. /\ UNCHANGED streamClosed
        /\ \A q \in Proc \ {c} : pc'[q] = pc[q] /\ todo'[q] = todo[q]
    BY <1>0, <1>12 DEF Welcome, session, loop, Goto
  <2>3. /\ pc[c] \in {"exit", "drop", "close", "done"} =>
             pc'[c] \in {"exit", "drop", "close", "done"}
        /\ pc[c] \in {"kickEnd", "kickWait"} =>
             pc'[c] \in {"kickEnd", "kickWait"} /\ todo'[c] = todo[c]
    BY <1>0, <1>12 DEF Welcome, loop, Goto
  <2> QED BY <1>0, <2>1, <2>2, <2>3, ClosedFrame
<1>13. ASSUME NEW c \in Conn, AddClient(c) PROVE KickedIsClosed'
  <2>1. \A e \in Conn : open'[e] => open[e]
    BY <1>13 DEF AddClient, session
  <2>2. /\ UNCHANGED streamClosed
        /\ \A q \in Proc \ {c} : pc'[q] = pc[q] /\ todo'[q] = todo[q]
    BY <1>0, <1>13 DEF AddClient, session, loop, Goto
  <2>3. /\ pc[c] \in {"exit", "drop", "close", "done"} =>
             pc'[c] \in {"exit", "drop", "close", "done"}
        /\ pc[c] \in {"kickEnd", "kickWait"} =>
             pc'[c] \in {"kickEnd", "kickWait"} /\ todo'[c] = todo[c]
    BY <1>0, <1>13 DEF AddClient, loop, Goto
  <2> QED BY <1>0, <2>1, <2>2, <2>3, ClosedFrame
<1>14. ASSUME NEW c \in Conn, Join(c) PROVE KickedIsClosed'
  <2>1. \A e \in Conn : open'[e] => open[e]
    BY <1>14 DEF Join, Acquire, Iterate, session
  <2>2. /\ UNCHANGED streamClosed
        /\ \A q \in Proc \ {c} : pc'[q] = pc[q] /\ todo'[q] = todo[q]
    BY <1>0, <1>14 DEF Join, Acquire, Iterate, session, loop, Goto
  <2>3. /\ pc[c] \in {"exit", "drop", "close", "done"} =>
             pc'[c] \in {"exit", "drop", "close", "done"}
        /\ pc[c] \in {"kickEnd", "kickWait"} =>
             pc'[c] \in {"kickEnd", "kickWait"} /\ todo'[c] = todo[c]
    BY <1>0, <1>14 DEF Join, Acquire, Iterate, loop, Goto
  <2> QED BY <1>0, <2>1, <2>2, <2>3, ClosedFrame
<1>15. ASSUME NEW c \in Conn, Leave(c) PROVE KickedIsClosed'
  <2>1. \A e \in Conn : open'[e] => open[e]
    BY <1>15 DEF Leave, Iterate, session
  <2>2. /\ UNCHANGED streamClosed
        /\ \A q \in Proc \ {c} : pc'[q] = pc[q] /\ todo'[q] = todo[q]
    BY <1>0, <1>15 DEF Leave, Iterate, session, loop, Goto
  <2>3. /\ pc[c] \in {"exit", "drop", "close", "done"} =>
             pc'[c] \in {"exit", "drop", "close", "done"}
        /\ pc[c] \in {"kickEnd", "kickWait"} =>
             pc'[c] \in {"kickEnd", "kickWait"} /\ todo'[c] = todo[c]
    BY <1>0, <1>15 DEF Leave, Iterate, loop, Goto
  <2> QED BY <1>0, <2>1, <2>2, <2>3, ClosedFrame
<1>16. ASSUME NEW c \in Conn, RemoveClient(c) PROVE KickedIsClosed'
  <2>1. \A e \in Conn : open'[e] => open[e]
    BY <1>16 DEF RemoveClient, Acquire, Iterate, session
  <2>2. /\ UNCHANGED streamClosed
        /\ \A q \in Proc \ {c} : pc'[q] = pc[q] /\ todo'[q] = todo[q]
    BY <1>0, <1>16 DEF RemoveClient, Acquire, Iterate, session, loop, Goto
  <2>3. /\ pc[c] \in {"exit", "drop", "close", "done"} =>
             pc'[c] \in {"exit", "drop", "close", "done"}
        /\ pc[c] \in {"kickEnd", "kickWait"} =>
             pc'[c] \in {"kickEnd", "kickWait"} /\ todo'[c] = todo[c]
    BY <1>0, <1>16 DEF RemoveClient, Acquire, Iterate, loop, Goto
  <2> QED BY <1>0, <2>1, <2>2, <2>3, ClosedFrame
<1>17. ASSUME NEW c \in Conn, DropMember(c) PROVE KickedIsClosed'
  <2>1. \A e \in Conn : open'[e] => open[e]
    BY <1>17 DEF DropMember, Iterate, session
  <2>2. /\ UNCHANGED streamClosed
        /\ \A q \in Proc \ {c} : pc'[q] = pc[q] /\ todo'[q] = todo[q]
    BY <1>0, <1>17 DEF DropMember, Iterate, session, loop, Goto
  <2>3. /\ pc[c] \in {"exit", "drop", "close", "done"} =>
             pc'[c] \in {"exit", "drop", "close", "done"}
        /\ pc[c] \in {"kickEnd", "kickWait"} =>
             pc'[c] \in {"kickEnd", "kickWait"} /\ todo'[c] = todo[c]
    BY <1>0, <1>17 DEF DropMember, Iterate, loop, Goto
  <2> QED BY <1>0, <2>1, <2>2, <2>3, ClosedFrame
<1>18. ASSUME NEW c \in Conn, DropClient(c) PROVE KickedIsClosed'
  <2>1. \A e \in Conn : open'[e] => open[e]
    BY <1>18 DEF DropClient, Release, session
  <2>2. /\ UNCHANGED streamClosed
        /\ \A q \in Proc \ {c} : pc'[q] = pc[q] /\ todo'[q] = todo[q]
    BY <1>0, <1>18 DEF DropClient, Release, session, loop, Goto
  <2>3. /\ pc[c] \in {"exit", "drop", "close", "done"} =>
             pc'[c] \in {"exit", "drop", "close", "done"}
        /\ pc[c] \in {"kickEnd", "kickWait"} =>
             pc'[c] \in {"kickEnd", "kickWait"} /\ todo'[c] = todo[c]
    BY <1>0, <1>18 DEF DropClient, Release, loop, Goto
  <2> QED BY <1>0, <2>1, <2>2, <2>3, ClosedFrame
<1>19. ASSUME NEW c \in Conn, CloseConn(c) PROVE KickedIsClosed'
  <2>1. \A e \in Conn : open'[e] => open[e]
    BY <1>19 DEF CloseConn, session
  <2>2. /\ UNCHANGED streamClosed
        /\ \A q \in Proc \ {c} : pc'[q] = pc[q] /\ todo'[q] = todo[q]
    BY <1>0, <1>19 DEF CloseConn, session, loop, Goto
  <2>3. /\ pc[c] \in {"exit", "drop", "close", "done"} =>
             pc'[c] \in {"exit", "drop", "close", "done"}
        /\ pc[c] \in {"kickEnd", "kickWait"} =>
             pc'[c] \in {"kickEnd", "kickWait"} /\ todo'[c] = todo[c]
    BY <1>0, <1>19 DEF CloseConn, loop, Goto
  <2> QED BY <1>0, <2>1, <2>2, <2>3, ClosedFrame
<1>20. ASSUME NEW c \in Conn, NEW j \in Jid, Auth(c, j) PROVE KickedIsClosed'
  <2>1. \A e \in Conn : open'[e] => open[e]
    BY <1>20 DEF Auth, Take, Arrives, session
  <2>2. /\ UNCHANGED streamClosed
        /\ \A q \in Proc \ {c} : pc'[q] = pc[q] /\ todo'[q] = todo[q]
    BY <1>0, <1>20 DEF Auth, Take, Arrives, session, loop, Goto
  <2>3. /\ pc[c] \in {"exit", "drop", "close", "done"} =>
             pc'[c] \in {"exit", "drop", "close", "done"}
        /\ pc[c] \in {"kickEnd", "kickWait"} =>
             pc'[c] \in {"kickEnd", "kickWait"} /\ todo'[c] = todo[c]
    BY <1>0, <1>20 DEF Auth, Take, Arrives, loop, Goto
  <2> QED BY <1>0, <2>1, <2>2, <2>3, ClosedFrame
<1>21. ASSUME NEW c \in Conn, NEW to \in Targets, Message(c, to) PROVE KickedIsClosed'
  <2>1. \A e \in Conn : open'[e] => open[e]
    BY <1>21 DEF Message, Take, Arrives, session
  <2>2. /\ UNCHANGED streamClosed
        /\ \A q \in Proc \ {c} : pc'[q] = pc[q] /\ todo'[q] = todo[q]
    BY <1>0, <1>21 DEF Message, Take, Arrives, session, loop, Goto
  <2>3. /\ pc[c] \in {"exit", "drop", "close", "done"} =>
             pc'[c] \in {"exit", "drop", "close", "done"}
        /\ pc[c] \in {"kickEnd", "kickWait"} =>
             pc'[c] \in {"kickEnd", "kickWait"} /\ todo'[c] = todo[c]
    BY <1>0, <1>21 DEF Message, Take, Arrives, loop, Goto
  <2> QED BY <1>0, <2>1, <2>2, <2>3, ClosedFrame
<1>22. ASSUME NEW a \in Admin, NEW b \in Targets \cap Bare, AdminKick(a, b) PROVE KickedIsClosed'
  <2>1. \A e \in Conn : open'[e] => open[e]
    BY <1>22 DEF AdminKick, session
  <2>2. /\ UNCHANGED streamClosed
        /\ \A q \in Proc \ {a} : pc'[q] = pc[q] /\ todo'[q] = todo[q]
    BY <1>0, <1>22 DEF AdminKick, session, loop, Goto
  <2>3. /\ pc[a] \in {"exit", "drop", "close", "done"} =>
             pc'[a] \in {"exit", "drop", "close", "done"}
        /\ pc[a] \in {"kickEnd", "kickWait"} =>
             pc'[a] \in {"kickEnd", "kickWait"} /\ todo'[a] = todo[a]
    BY <1>0, <1>22 DEF AdminKick, loop, Goto
  <2> QED BY <1>0, <2>1, <2>2, <2>3, ClosedFrame
<1>23. ASSUME NEW a \in Admin, NEW to \in Targets \cap Bare, AdminSend(a, to) PROVE KickedIsClosed'
  <2>1. \A e \in Conn : open'[e] => open[e]
    BY <1>23 DEF AdminSend, session
  <2>2. /\ UNCHANGED streamClosed
        /\ \A q \in Proc \ {a} : pc'[q] = pc[q] /\ todo'[q] = todo[q]
    BY <1>0, <1>23 DEF AdminSend, session, loop, Goto
  <2>3. /\ pc[a] \in {"exit", "drop", "close", "done"} =>
             pc'[a] \in {"exit", "drop", "close", "done"}
        /\ pc[a] \in {"kickEnd", "kickWait"} =>
             pc'[a] \in {"kickEnd", "kickWait"} /\ todo'[a] = todo[a]
    BY <1>0, <1>23 DEF AdminSend, loop, Goto
  <2> QED BY <1>0, <2>1, <2>2, <2>3, ClosedFrame
<1>24. ASSUME NEW p \in Proc, KickLock(p) PROVE KickedIsClosed'
  <2>1. \A e \in Conn : open'[e] => open[e]
    BY <1>24 DEF KickLock, Acquire, Iterate, session
  <2>2. /\ UNCHANGED streamClosed
        /\ \A q \in Proc \ {p} : pc'[q] = pc[q] /\ todo'[q] = todo[q]
    BY <1>0, <1>24 DEF KickLock, Acquire, Iterate, session, loop, Goto
  <2>3. /\ pc[p] \in {"exit", "drop", "close", "done"} =>
             pc'[p] \in {"exit", "drop", "close", "done"}
        /\ pc[p] \in {"kickEnd", "kickWait"} =>
             pc'[p] \in {"kickEnd", "kickWait"} /\ todo'[p] = todo[p]
    BY <1>0, <1>24 DEF KickLock, Acquire, Iterate, loop, Goto
  <2> QED BY <1>0, <2>1, <2>2, <2>3, ClosedFrame
<1>25. ASSUME NEW p \in Proc, ScanHit(p) PROVE KickedIsClosed'
  <2>1. \A e \in Conn : open'[e] => open[e]
    BY <1>25 DEF ScanHit, session
  <2>2. /\ UNCHANGED streamClosed
        /\ \A q \in Proc \ {p} : pc'[q] = pc[q] /\ todo'[q] = todo[q]
    BY <1>0, <1>25 DEF ScanHit, session, loop, Goto
  <2>3. /\ pc[p] \in {"exit", "drop", "close", "done"} =>
             pc'[p] \in {"exit", "drop", "close", "done"}
        /\ pc[p] \in {"kickEnd", "kickWait"} =>
             pc'[p] \in {"kickEnd", "kickWait"} /\ todo'[p] = todo[p]
    BY <1>0, <1>25 DEF ScanHit, loop, Goto
  <2> QED BY <1>0, <2>1, <2>2, <2>3, ClosedFrame
<1>26. ASSUME NEW p \in Proc, ScanMiss(p) PROVE KickedIsClosed'
  <2>1. \A e \in Conn : open'[e] => open[e]
    BY <1>26 DEF ScanMiss, Iterate, session
  <2>2. /\ UNCHANGED streamClosed
        /\ \A q \in Proc \ {p} : pc'[q] = pc[q] /\ todo'[q] = todo[q]
    BY <1>0, <1>26 DEF ScanMiss, Iterate, session, loop, Goto
  <2>3. /\ pc[p] \in {"exit", "drop", "close", "done"} =>
             pc'[p] \in {"exit", "drop", "close", "done"}
        /\ pc[p] \in {"kickEnd", "kickWait"} =>
             pc'[p] \in {"kickEnd", "kickWait"} /\ todo'[p] = todo[p]
    BY <1>0, <1>26 DEF ScanMiss, Iterate, loop, Goto
  <2> QED BY <1>0, <2>1, <2>2, <2>3, ClosedFrame
<1>27. ASSUME NEW p \in Proc, ScanEnd(p) PROVE KickedIsClosed'
  <2>1. \A e \in Conn : open'[e] => open[e]
    BY <1>27 DEF ScanEnd, Release, session
  <2>2. /\ UNCHANGED streamClosed
        /\ \A q \in Proc \ {p} : pc'[q] = pc[q] /\ todo'[q] = todo[q]
    BY <1>0, <1>27 DEF ScanEnd, Release, session, loop, Goto
  <2>3. /\ pc[p] \in {"exit", "drop", "close", "done"} =>
             pc'[p] \in {"exit", "drop", "close", "done"}
        /\ pc[p] \in {"kickEnd", "kickWait"} =>
             pc'[p] \in {"kickEnd", "kickWait"} /\ todo'[p] = todo[p]
    BY <1>0, <1>27 DEF ScanEnd, Release, loop, Goto
  <2> QED BY <1>0, <2>1, <2>2, <2>3, ClosedFrame
<1>28. ASSUME NEW p \in Proc, KickError(p) PROVE KickedIsClosed'
  <2>1. Head(todo[p]) \in Conn
    BY <1>28 DEF KickError, TargetInv, Kicking
  <2>2. \A e \in Conn : open'[e] => open[e]
    BY <1>28, <2>1, WriteToType DEF KickError
  <2>3. /\ UNCHANGED streamClosed
        /\ \A q \in Proc \ {p} : pc'[q] = pc[q] /\ todo'[q] = todo[q]
    BY <1>0, <1>28 DEF KickError, session, loop, Goto
  <2>4. /\ pc[p] \in {"exit", "drop", "close", "done"} =>
             pc'[p] \in {"exit", "drop", "close", "done"}
        /\ pc[p] \in {"kickEnd", "kickWait"} =>
             pc'[p] \in {"kickEnd", "kickWait"} /\ todo'[p] = todo[p]
    BY <1>0, <1>28 DEF KickError, loop, Goto
  <2> QED BY <1>0, <2>2, <2>3, <2>4, ClosedFrame
<1>29. ASSUME NEW p \in Proc, KickMark(p) PROVE KickedIsClosed'
  <2>1. /\ pc[p] = "kickMark" /\ pc' = [pc EXCEPT ![p] = "kickEnd"]
        /\ streamClosed' = [streamClosed EXCEPT ![Head(todo[p])] = TRUE]
        /\ UNCHANGED <<open, todo>>
    BY <1>29 DEF KickMark, loop, Goto
  <2>2. Attended(Head(todo[p]))'
    BY <2>1 DEF Attended
  <2>3. ASSUME NEW d \in Conn, Attended(d) PROVE Attended(d)'
    BY <2>1, <2>3 DEF Attended
  <2>4. \A d \in Conn : pc'[d] \in {"exit", "drop", "close", "done"} <=>
                        pc[d] \in {"exit", "drop", "close", "done"}
    BY <1>0, <2>1
  <2> QED BY <2>1, <2>2, <2>3, <2>4 DEF KickedIsClosed
<1>30. ASSUME NEW p \in Proc, KickEnd(p) PROVE KickedIsClosed'
  <2>1. Head(todo[p]) \in Conn
    BY <1>30 DEF KickEnd, TargetInv, Kicking
  <2>2. \A e \in Conn : open'[e] => open[e]
    BY <1>30, <2>1, WriteToType DEF KickEnd
  <2>3. /\ UNCHANGED streamClosed
        /\ \A q \in Proc \ {p} : pc'[q] = pc[q] /\ todo'[q] = todo[q]
    BY <1>0, <1>30 DEF KickEnd, session, loop, Goto
  <2>4. /\ pc[p] \in {"exit", "drop", "close", "done"} =>
             pc'[p] \in {"exit", "drop", "close", "done"}
        /\ pc[p] \in {"kickEnd", "kickWait"} =>
             pc'[p] \in {"kickEnd", "kickWait"} /\ todo'[p] = todo[p]
    BY <1>0, <1>30 DEF KickEnd, loop, Goto
  <2> QED BY <1>0, <2>2, <2>3, <2>4, ClosedFrame
<1>31. ASSUME NEW p \in Proc, StreamEnd(p) PROVE KickedIsClosed'
  <2> DEFINE d == Head(todo[p])
  <2>1. /\ pc[p] = "kickWait" /\ pc[d] = "sendEnd"
        /\ pc' = [pc EXCEPT ![p] = "scan", ![d] = "exit"]
        /\ \A q \in Proc \ {p} : todo'[q] = todo[q]
        /\ UNCHANGED <<open, streamClosed>>
    BY <1>31 DEF StreamEnd, Iterate, session
  <2> HIDE DEF d
  <2>2. \A e \in Conn \ {d} : Attended(e) => Attended(e)'
    BY <2>1 DEF Attended, d
  <2>3. \A e \in Conn \ {d} : pc[e] \in {"exit", "drop", "close", "done"} =>
                              pc'[e] \in {"exit", "drop", "close", "done"}
    BY <1>0, <2>1
  <2>4. d \in Conn => pc'[d] = "exit"
    BY <1>0, <2>1
  <2> QED BY <2>1, <2>2, <2>3, <2>4 DEF KickedIsClosed
<1>32. ASSUME NEW p \in Proc, CloseTimeout(p) PROVE KickedIsClosed'
  <2> DEFINE d == Head(todo[p])
  <2>1. /\ pc[p] = "kickWait" /\ pc' = [pc EXCEPT ![p] = "scan"]
        /\ \A q \in Proc \ {p} : todo'[q] = todo[q]
        /\ open' = [open EXCEPT ![d] = FALSE]
        /\ UNCHANGED streamClosed
    BY <1>32 DEF CloseTimeout, Iterate, session, Goto
  <2> HIDE DEF d
  <2>2. \A e \in Conn \ {d} : Attended(e) => Attended(e)'
    BY <2>1 DEF Attended, d
  <2>3. \A e \in Conn : pc[e] \in {"exit", "drop", "close", "done"} =>
                        pc'[e] \in {"exit", "drop", "close", "done"}
    BY <1>0, <2>1
  <2>4. \A e \in Conn : open'[e] => open[e] /\ e # d
    BY <2>1
  <2> QED BY <2>1, <2>2, <2>3, <2>4 DEF KickedIsClosed
<1>33. ASSUME NEW p \in Proc, RouteRoom(p) PROVE KickedIsClosed'
  <2>1. \A e \in Conn : open'[e] => open[e]
    BY <1>33 DEF RouteRoom, Iterate, session
  <2>2. /\ UNCHANGED streamClosed
        /\ \A q \in Proc \ {p} : pc'[q] = pc[q] /\ todo'[q] = todo[q]
    BY <1>0, <1>33 DEF RouteRoom, Iterate, session, loop, Goto
  <2>3. /\ pc[p] \in {"exit", "drop", "close", "done"} =>
             pc'[p] \in {"exit", "drop", "close", "done"}
        /\ pc[p] \in {"kickEnd", "kickWait"} =>
             pc'[p] \in {"kickEnd", "kickWait"} /\ todo'[p] = todo[p]
    BY <1>0, <1>33 DEF RouteRoom, Iterate, loop, Goto
  <2> QED BY <1>0, <2>1, <2>2, <2>3, ClosedFrame
<1>34. ASSUME NEW p \in Proc, RouteUser(p) PROVE KickedIsClosed'
  <2>1. \A e \in Conn : open'[e] => open[e]
    BY <1>34 DEF RouteUser, Acquire, Iterate, session
  <2>2. /\ UNCHANGED streamClosed
        /\ \A q \in Proc \ {p} : pc'[q] = pc[q] /\ todo'[q] = todo[q]
    BY <1>0, <1>34 DEF RouteUser, Acquire, Iterate, session, loop, Goto
  <2>3. /\ pc[p] \in {"exit", "drop", "close", "done"} =>
             pc'[p] \in {"exit", "drop", "close", "done"}
        /\ pc[p] \in {"kickEnd", "kickWait"} =>
             pc'[p] \in {"kickEnd", "kickWait"} /\ todo'[p] = todo[p]
    BY <1>0, <1>34 DEF RouteUser, Acquire, Iterate, loop, Goto
  <2> QED BY <1>0, <2>1, <2>2, <2>3, ClosedFrame
<1>35. ASSUME NEW p \in Proc, Cast(p) PROVE KickedIsClosed'
  <2>1. Head(todo[p]) \in Conn
    BY <1>35 DEF Cast
  <2>2. \A e \in Conn : open'[e] => open[e]
    BY <1>35, <2>1, WriteToType DEF Cast
  <2>3. /\ UNCHANGED streamClosed
        /\ \A q \in Proc \ {p} : pc'[q] = pc[q] /\ todo'[q] = todo[q]
    BY <1>0, <1>35 DEF Cast, Iterate, Casting, session, loop, Goto
  <2>4. /\ pc[p] \in {"exit", "drop", "close", "done"} =>
             pc'[p] \in {"exit", "drop", "close", "done"}
        /\ pc[p] \in {"kickEnd", "kickWait"} =>
             pc'[p] \in {"kickEnd", "kickWait"} /\ todo'[p] = todo[p]
    BY <1>0, <1>35 DEF Cast, Iterate, Casting, loop, Goto
  <2> QED BY <1>0, <2>2, <2>3, <2>4, ClosedFrame
<1>36. ASSUME NEW p \in Proc, CastEnd(p) PROVE KickedIsClosed'
  <2>1. \A e \in Conn : open'[e] => open[e]
    BY <1>36 DEF CastEnd, Release, Home, Casting, session
  <2>2. /\ UNCHANGED streamClosed
        /\ \A q \in Proc \ {p} : pc'[q] = pc[q] /\ todo'[q] = todo[q]
    BY <1>0, <1>36 DEF CastEnd, Release, Home, Casting, session, loop, Goto
  <2>3. /\ pc[p] \in {"exit", "drop", "close", "done"} =>
             pc'[p] \in {"exit", "drop", "close", "done"}
        /\ pc[p] \in {"kickEnd", "kickWait"} =>
             pc'[p] \in {"kickEnd", "kickWait"} /\ todo'[p] = todo[p]
    BY <1>0, <1>36 DEF CastEnd, Release, Home, Casting, loop, Goto
  <2> QED BY <1>0, <2>1, <2>2, <2>3, ClosedFrame
<1>37. ASSUME UNCHANGED vars PROVE KickedIsClosed'
  BY <1>37 DEF vars, KickedIsClosed, Attended
<1> QED
  BY <1>1, <1>2, <1>3, <1>4, <1>5, <1>6, <1>7, <1>8, <1>9, <1>10, <1>11, <1>12, <1>13, <1>14, <1>15, <1>16, <1>17, <1>18, <1>19, <1>20, <1>21, <1>22, <1>23, <1>24, <1>25, <1>26, <1>27, <1>28, <1>29, <1>30, <1>31, <1>32, <1>33, <1>34, <1>35, <1>36, <1>37
  DEF Next, Environment, Request, Lock, Run, Quiescent

-----------------------------------------------------------------------------
(* The theorems.                                                           *)

LEMMA InitInv == Init => IInv
<1> SUFFICES ASSUME Init PROVE IInv
  OBVIOUS
<1> USE DEF Init
<1>0. /\ NoProc \notin Proc /\ Conn \subseteq Proc
      /\ \A p \in Proc : pc[p] = "new" \/ pc[p] = "ready"
      /\ \A p \in Proc : pc[p] \notin Critical
      /\ Listed(clients) = {}
  BY ConstantsAssumption DEF Proc, Critical, Kicking, Casting, Listed
<1>1. TypeOK
  BY <1>0, PlaceNames, ConstantsAssumption DEF TypeOK, Places
<1>2. LockDiscipline
  BY <1>0 DEF LockDiscipline
<1>3. TargetInv /\ KickInv
  BY <1>0 DEF TargetInv, KickInv, Kicking, Critical
<1>4. ArgInv
  BY <1>0 DEF ArgInv
<1>5. NewInv
  BY <1>0 DEF NewInv
<1>6. NoDuplicates
  BY DEF NoDuplicates, Distinct
<1>7. DropInv /\ NoGhost
  BY <1>0 DEF DropInv, NoGhost
<1>8. KickedIsClosed
  BY DEF KickedIsClosed
<1> QED BY <1>1, <1>2, <1>3, <1>4, <1>5, <1>6, <1>7, <1>8 DEF IInv

LEMMA InvStep == IInv /\ [Next]_vars => IInv'
<1> SUFFICES ASSUME IInv, [Next]_vars PROVE IInv'
  OBVIOUS
<1> USE DEF IInv
<1>1. TypeOK'
  BY TypeStep
<1>2. LockDiscipline'
  BY LockStep
<1>3. TargetInv' /\ ArgInv' /\ KickInv' /\ NewInv'
  BY TargetStep, ArgStep, KickStep, NewStep
<1>4. NoDuplicates'
  BY DuplicateStep
<1>5. DropInv' /\ NoGhost'
  BY GhostStep
<1>6. KickedIsClosed'
  BY ClosedStep
<1> QED BY <1>1, <1>2, <1>3, <1>4, <1>5, <1>6

LEMMA Inductive == Spec => []IInv
<1>1. Init => IInv
  BY InitInv
<1>2. IInv /\ [Next]_vars => IInv'
  BY InvStep
<1> QED BY <1>1, <1>2, PTL DEF Spec

\* The variables keep their types, whatever the peers and the API's callers do.
THEOREM TypeCorrect == Spec => []TypeOK
<1>1. IInv => TypeOK
  BY DEF IInv
<1> QED BY <1>1, Inductive, PTL

\* Two goroutines are never in a section of the server's mutex together, and one
\* that has left its section holds it no more.
THEOREM Exclusion == Spec => []LockDiscipline
<1>1. IInv => LockDiscipline
  BY DEF IInv
<1> QED BY <1>1, Inductive, PTL

\* Clients, the members of a room and the rooms themselves never hold an entry
\* twice: the append and the swap are only made under the mutex.
THEOREM SlicesAreSets == Spec => []NoDuplicates
<1>1. IInv => NoDuplicates
  BY DEF IInv
<1> QED BY <1>1, Inductive, PTL

\* When RemoveClient has returned, no list holds its connection, however joins
\* and logins of the same connection were interleaved with kicks.
THEOREM NoneLeftBehind == Spec => []NoGhost
<1>1. IInv => NoGhost
  BY DEF IInv
<1> QED BY <1>1, Inductive, PTL

\* A kick cannot be lost between Close, its timeout and the handler's own exit.
THEOREM KicksTakeEffect == Spec => []KickedIsClosed
<1>1. IInv => KickedIsClosed
  BY DEF IInv
<1> QED BY <1>1, Inductive, PTL

-----------------------------------------------------------------------------
(***************************************************************************)
(* Parked handlers, loops over shared slices, and the roster the registry  *)
(* promises.                                                               *)
(***************************************************************************)
-----------------------------------------------------------------------------
(* Two parts of the inductive invariant.                                   *)

\* Only a handler that found its stream closed goes to wait on streamEnd.
ParkedInv == \A c \in Conn : pc[c] = "sendEnd" => streamClosed[c]

\* Only a connection that has logged in works on its entries in the registry.
Registering == {"avail", "join", "joinCast", "leave", "leaveCast"}
AuthInv == \A p \in Proc : pc[p] \in Registering => p \in Conn /\ authed[p]

\* streamClosed is never taken back.
LEMMA ParkedStep ==
  ASSUME TypeOK, ParkedInv, [Next]_vars
  PROVE  ParkedInv'
<1> USE DEF TypeOK, ParkedInv, Goto, session
<1>0. Conn \subseteq Proc /\ Admin \subseteq Proc /\ NoProc \notin Proc
  BY ConstantsAssumption DEF Proc
<1>1. ASSUME NEW c \in Conn, Accept(c) PROVE ParkedInv'
  BY <1>0, <1>1 DEF Accept
<1>2. ASSUME NEW c \in Conn, Hello(c) PROVE ParkedInv'
  BY <1>0, <1>2 DEF Hello
<1>3. ASSUME NEW c \in Conn, Chat(c) PROVE ParkedInv'
  BY <1>0, <1>3 DEF Chat, Take, Arrives
<1>4. ASSUME NEW c \in Conn, StartTLS(c) PROVE ParkedInv'
  BY <1>0, <1>4 DEF StartTLS, Arrives
<1>5. ASSUME NEW c \in Conn, TlsUp(c) PROVE ParkedInv'
  BY <1>0, <1>5 DEF TlsUp
<1>6. ASSUME NEW c \in Conn, TlsFails(c) PROVE ParkedInv'
  BY <1>0, <1>6 DEF TlsFails
<1>7. ASSUME NEW c \in Conn, ReadEnd(c) PROVE ParkedInv'
  BY <1>0, <1>7 DEF ReadEnd, Arrives
<1>8. ASSUME NEW c \in Conn, Presence(c) PROVE ParkedInv'
  BY <1>0, <1>8 DEF Presence, Take, Arrives
<1>9. ASSUME NEW c \in Conn, ReadError(c) PROVE ParkedInv'
  BY <1>0, <1>9 DEF ReadError
<1>10. ASSUME NEW c \in Conn, AnswerEnd(c) PROVE ParkedInv'
  BY <1>0, <1>10 DEF AnswerEnd
<1>11. ASSUME NEW c \in Conn, StoreJid(c) PROVE ParkedInv'
  BY <1>0, <1>11 DEF StoreJid
<1>12. ASSUME NEW c \in Conn, Welcome(c) PROVE ParkedInv'
  BY <1>0, <1>12 DEF Welcome
<1>13. ASSUME NEW c \in Conn, AddClient(c) PROVE ParkedInv'
  BY <1>0, <1>13 DEF AddClient
<1>14. ASSUME NEW c \in Conn, Join(c) PROVE ParkedInv'
  BY <1>0, <1>14 DEF Join, Acquire
<1>15. ASSUME NEW c \in Conn, Leave(c) PROVE ParkedInv'
  BY <1>0, <1>15 DEF Leave
<1>16. ASSUME NEW c \in Conn, RemoveClient(c) PROVE ParkedInv'
  BY <1>0, <1>16 DEF RemoveClient, Acquire
<1>17. ASSUME NEW c \in Conn, DropMember(c) PROVE ParkedInv'
  BY <1>0, <1>17 DEF DropMember
<1>18. ASSUME NEW c \in Conn, DropClient(c) PROVE ParkedInv'
  BY <1>0, <1>18 DEF DropClient, Release
<1>19. ASSUME NEW c \in Conn, CloseConn(c) PROVE ParkedInv'
  BY <1>0, <1>19 DEF CloseConn
<1>20. ASSUME NEW c \in Conn, NEW j \in Jid, Auth(c, j) PROVE ParkedInv'
  BY <1>0, <1>20 DEF Auth, Take, Arrives
<1>21. ASSUME NEW c \in Conn, NEW to \in Targets, Message(c, to) PROVE ParkedInv'
  BY <1>0, <1>21 DEF Message, Take, Arrives
<1>22. ASSUME NEW a \in Admin, NEW b \in Targets \cap Bare, AdminKick(a, b) PROVE ParkedInv'
  BY <1>0, <1>22 DEF AdminKick
<1>23. ASSUME NEW a \in Admin, NEW to \in Targets \cap Bare, AdminSend(a, to) PROVE ParkedInv'
  BY <1>0, <1>23 DEF AdminSend
<1>24. ASSUME NEW p \in Proc, KickLock(p) PROVE ParkedInv'
  BY <1>0, <1>24 DEF KickLock, Acquire
<1>25. ASSUME NEW p \in Proc, ScanHit(p) PROVE ParkedInv'
  BY <1>0, <1>25 DEF ScanHit
<1>26. ASSUME NEW p \in Proc, ScanMiss(p) PROVE ParkedInv'
  BY <1>0, <1>26 DEF ScanMiss
<1>27. ASSUME NEW p \in Proc, ScanEnd(p) PROVE ParkedInv'
  BY <1>0, <1>27 DEF ScanEnd, Release
<1>28. ASSUME NEW p \in Proc, KickError(p) PROVE ParkedInv'
  BY <1>0, <1>28 DEF KickError
<1>29. ASSUME NEW p \in Proc, KickMark(p) PROVE ParkedInv'
  BY <1>0, <1>29 DEF KickMark
<1>30. ASSUME NEW p \in Proc, KickEnd(p) PROVE ParkedInv'
  BY <1>0, <1>30 DEF KickEnd
<1>31. ASSUME NEW p \in Proc, StreamEnd(p) PROVE ParkedInv'
  BY <1>0, <1>31 DEF StreamEnd
<1>32. ASSUME NEW p \in Proc, CloseTimeout(p) PROVE ParkedInv'
  BY <1>0, <1>32 DEF CloseTimeout
<1>33. ASSUME NEW p \in Proc, RouteRoom(p) PROVE ParkedInv'
  BY <1>0, <1>33 DEF RouteRoom
<1>34. ASSUME NEW p \in Proc, RouteUser(p) PROVE ParkedInv'
  BY <1>0, <1>34 DEF RouteUser, Acquire
<1>35. ASSUME NEW p \in Proc, Cast(p) PROVE ParkedInv'
  BY <1>0, <1>35 DEF Cast
<1>36. ASSUME NEW p \in Proc, CastEnd(p) PROVE ParkedInv'
  BY <1>0, <1>36 DEF CastEnd, Release, Home
<1>37. ASSUME UNCHANGED vars PROVE ParkedInv'
  BY <1>0, <1>37 DEF vars
<1> QED
  BY <1>1, <1>2, <1>3, <1>4, <1>5, <1>6, <1>7, <1>8, <1>9, <1>10, <1>11, <1>12, <1>13, <1>14,
     <1>15, <1>16, <1>17, <1>18, <1>19, <1>20, <1>21, <1>22, <1>23, <1>24, <1>25, <1>26, <1>27,
     <1>28, <1>29, <1>30, <1>31, <1>32, <1>33, <1>34, <1>35, <1>36, <1>37
  DEF Next, Environment, Request, Lock, Run, Quiescent

\* authenticated is never taken back.
LEMMA AuthStep ==
  ASSUME TypeOK, AuthInv, [Next]_vars
  PROVE  AuthInv'
<1> USE DEF TypeOK, AuthInv, Goto, session, Registering
<1>0. Conn \subseteq Proc /\ Admin \subseteq Proc /\ NoProc \notin Proc
  BY ConstantsAssumption DEF Proc
<1>1. ASSUME NEW c \in Conn, Accept(c) PROVE AuthInv'
  BY <1>0, <1>1 DEF Accept
<1>2. ASSUME NEW c \in Conn, Hello(c) PROVE AuthInv'
  BY <1>0, <1>2 DEF Hello
<1>3. ASSUME NEW c \in Conn, Chat(c) PROVE AuthInv'
  BY <1>0, <1>3 DEF Chat, Take, Arrives
<1>4. ASSUME NEW c \in Conn, StartTLS(c) PROVE AuthInv'
  BY <1>0, <1>4 DEF StartTLS, Arrives
<1>5. ASSUME NEW c \in Conn, TlsUp(c) PROVE AuthInv'
  BY <1>0, <1>5 DEF TlsUp
<1>6. ASSUME NEW c \in Conn, TlsFails(c) PROVE AuthInv'
  BY <1>0, <1>6 DEF TlsFails
<1>7. ASSUME NEW c \in Conn, ReadEnd(c) PROVE AuthInv'
  BY <1>0, <1>7 DEF ReadEnd, Arrives
<1>8. ASSUME NEW c \in Conn, Presence(c) PROVE AuthInv'
  BY <1>0, <1>8 DEF Presence, Take, Arrives
<1>9. ASSUME NEW c \in Conn, ReadError(c) PROVE AuthInv'
  BY <1>0, <1>9 DEF ReadError
<1>10. ASSUME NEW c \in Conn, AnswerEnd(c) PROVE AuthInv'
  BY <1>0, <1>10 DEF AnswerEnd
<1>11. ASSUME NEW c \in Conn, StoreJid(c) PROVE AuthInv'
  BY <1>0, <1>11 DEF StoreJid
<1>12. ASSUME NEW c \in Conn, Welcome(c) PROVE AuthInv'
  BY <1>0, <1>12 DEF Welcome
<1>13. ASSUME NEW c \in Conn, AddClient(c) PROVE AuthInv'
  BY <1>0, <1>13 DEF AddClient
<1>14. ASSUME NEW c \in Conn, Join(c) PROVE AuthInv'
  BY <1>0, <1>14 DEF Join, Acquire
<1>15. ASSUME NEW c \in Conn, Leave(c) PROVE AuthInv'
  BY <1>0, <1>15 DEF Leave
<1>16. ASSUME NEW c \in Conn, RemoveClient(c) PROVE AuthInv'
  BY <1>0, <1>16 DEF RemoveClient, Acquire
<1>17. ASSUME NEW c \in Conn, DropMember(c) PROVE AuthInv'
  BY <1>0, <1>17 DEF DropMember
<1>18. ASSUME NEW c \in Conn, DropClient(c) PROVE AuthInv'
  BY <1>0, <1>18 DEF DropClient, Release
<1>19. ASSUME NEW c \in Conn, CloseConn(c) PROVE AuthInv'
  BY <1>0, <1>19 DEF CloseConn
<1>20. ASSUME NEW c \in Conn, NEW j \in Jid, Auth(c, j) PROVE AuthInv'
  BY <1>0, <1>20 DEF Auth, Take, Arrives
<1>21. ASSUME NEW c \in Conn, NEW to \in Targets, Message(c, to) PROVE AuthInv'
  BY <1>0, <1>21 DEF Message, Take, Arrives
<1>22. ASSUME NEW a \in Admin, NEW b \in Targets \cap Bare, AdminKick(a, b) PROVE AuthInv'
  BY <1>0, <1>22 DEF AdminKick
<1>23. ASSUME NEW a \in Admin, NEW to \in Targets \cap Bare, AdminSend(a, to) PROVE AuthInv'
  BY <1>0, <1>23 DEF AdminSend
<1>24. ASSUME NEW p \in Proc, KickLock(p) PROVE AuthInv'
  BY <1>0, <1>24 DEF KickLock, Acquire
<1>25. ASSUME NEW p \in Proc, ScanHit(p) PROVE AuthInv'
  BY <1>0, <1>25 DEF ScanHit
<1>26. ASSUME NEW p \in Proc, ScanMiss(p) PROVE AuthInv'
  BY <1>0, <1>26 DEF ScanMiss
<1>27. ASSUME NEW p \in Proc, ScanEnd(p) PROVE AuthInv'
  BY <1>0, <1>27 DEF ScanEnd, Release
<1>28. ASSUME NEW p \in Proc, KickError(p) PROVE AuthInv'
  BY <1>0, <1>28 DEF KickError
<1>29. ASSUME NEW p \in Proc, KickMark(p) PROVE AuthInv'
  BY <1>0, <1>29 DEF KickMark
<1>30. ASSUME NEW p \in Proc, KickEnd(p) PROVE AuthInv'
  BY <1>0, <1>30 DEF KickEnd
<1>31. ASSUME NEW p \in Proc, StreamEnd(p) PROVE AuthInv'
  BY <1>0, <1>31 DEF StreamEnd
<1>32. ASSUME NEW p \in Proc, CloseTimeout(p) PROVE AuthInv'
  BY <1>0, <1>32 DEF CloseTimeout
<1>33. ASSUME NEW p \in Proc, RouteRoom(p) PROVE AuthInv'
  BY <1>0, <1>33 DEF RouteRoom
<1>34. ASSUME NEW p \in Proc, RouteUser(p) PROVE AuthInv'
  BY <1>0, <1>34 DEF RouteUser, Acquire
<1>35. ASSUME NEW p \in Proc, Cast(p) PROVE AuthInv'
  BY <1>0, <1>35 DEF Cast
<1>36. ASSUME NEW p \in Proc, CastEnd(p) PROVE AuthInv'
  BY <1>0, <1>36 DEF CastEnd, Release, Home
<1>37. ASSUME UNCHANGED vars PROVE AuthInv'
  BY <1>0, <1>37 DEF vars
<1> QED
  BY <1>1, <1>2, <1>3, <1>4, <1>5, <1>6, <1>7, <1>8, <1>9, <1>10, <1>11, <1>12, <1>13, <1>14,
     <1>15, <1>16, <1>17, <1>18, <1>19, <1>20, <1>21, <1>22, <1>23, <1>24, <1>25, <1>26, <1>27,
     <1>28, <1>29, <1>30, <1>31, <1>32, <1>33, <1>34, <1>35, <1>36, <1>37
  DEF Next, Environment, Request, Lock, Run, Quiescent

-----------------------------------------------------------------------------
(* Loops and the slices they range over.                                   *)

\* The loops that send to the members of a room, and to one client.
CastInv ==
  \A p \in Proc :
    /\ pc[p] = "userCast" => Listed(todo[p]) \subseteq Listed(clients)
    /\ pc[p] \in Casting \ {"userCast"} => Listed(todo[p]) \subseteq Listed(MembersAt(idx[p]))

\* The list Join ranges over holds members only.
LEMMA OthersListed ==
  ASSUME NEW S, NEW s \in Seq(S), NEW c \in S, c \in Listed(s)
  PROVE  Listed(<<c>> \o Others(s, c)) \subseteq Listed(s)
<1> DEFINE o == Others(s, c)
<1>1. Len(s) \in Nat /\ Len(s) >= 1 /\ DOMAIN s = 1 .. Len(s)
  BY DEF Listed
<1>2. o \in Seq(S) /\ Len(o) = Len(s) - 1 /\ \A k \in 1 .. Len(s) - 1 : o[k] \in Listed(s)
  <2> DEFINE t == [k \in 1 .. (Len(s) - 1) |-> IF k < Position(s, c) THEN s[k] ELSE s[k + 1]]
  <2>1. \A k \in 1 .. (Len(s) - 1) : t[k] \in S /\ t[k] \in Listed(s)
    BY <1>1 DEF Listed
  <2>2. t \in Seq(S) /\ Len(t) = Len(s) - 1
    BY <1>1, <2>1
  <2> QED BY <2>1, <2>2 DEF Others
<1> HIDE DEF o
<1>3. \A k \in 1 .. Len(s) : (<<c>> \o o)[k] \in Listed(s)
  <2> TAKE k \in 1 .. Len(s)
  <2>1. CASE k = 1
    BY <1>1, <1>2, <2>1
  <2>2. CASE k # 1
    <3>1. k - 1 \in 1 .. Len(s) - 1 /\ (<<c>> \o o)[k] = o[k - 1]
      BY <1>1, <1>2, <2>2
    <3> QED BY <1>2, <3>1
  <2> QED BY <2>1, <2>2
<1>4. DOMAIN (<<c>> \o o) = 1 .. Len(s)
  <2>1. <<c>> \o o \in Seq(S) /\ Len(<<c>> \o o) = 1 + Len(o)
    BY <1>2
  <2>2. 1 + Len(o) = Len(s)
    BY <1>1, <1>2
  <2>3. Len(<<c>> \o o) = Len(s)
    BY <2>1, <2>2
  <2> QED BY <2>1, <2>3
<1> QED BY <1>3, <1>4 DEF Listed, o


\* A removal takes the connection out and nothing else.
LEMMA SwapRemoveListed ==
  ASSUME NEW S, NEW s \in Seq(S), NEW c, Distinct(s)
  PROVE  Listed(SwapRemove(s, c)) = Listed(s) \ {c}
<1>1. CASE c \notin Listed(s)
  BY <1>1 DEF SwapRemove
<1>2. CASE c \in Listed(s)
  <2> DEFINE i == Position(s, c)
             n == Len(s)
             t == [k \in 1 .. (n - 1) |-> IF k = i THEN s[n] ELSE s[k]]
  <2>1. n \in Nat /\ n >= 1 /\ DOMAIN s = 1 .. n
    BY <1>2 DEF Listed
  <2>2. i \in 1 .. n /\ s[i] = c
    <3>1. PICK m \in DOMAIN s : s[m] = c
      BY <1>2 DEF Listed
    <3>2. \A j \in 1 .. (m - 1) : s[j] # c
      BY <2>1, <3>1 DEF Distinct
    <3> QED BY <2>1, <3>1, <3>2 DEF Position
  <2>3. SwapRemove(s, c) = t
    BY <1>2 DEF SwapRemove
  <2>4. DOMAIN t = 1 .. (n - 1) /\ \A k \in 1 .. (n - 1) : t[k] = IF k = i THEN s[n] ELSE s[k]
    OBVIOUS
  <2> HIDE DEF i, n, t
  <2>5. ASSUME NEW x \in Listed(s), x # c PROVE x \in Listed(t)
    <3>1. PICK k \in 1 .. n : s[k] = x
      BY <2>1 DEF Listed
    <3>2. k # i
      BY <2>2, <2>5, <3>1
    <3>3. CASE k = n
      <4>1. i \in 1 .. (n - 1) /\ t[i] = x
        BY <2>1, <2>2, <2>4, <3>1, <3>2, <3>3
      <4> QED BY <2>4, <4>1 DEF Listed
    <3>4. CASE k # n
      <4>1. k \in 1 .. (n - 1) /\ t[k] = x
        BY <2>1, <2>4, <3>1, <3>2, <3>4
      <4> QED BY <2>4, <4>1 DEF Listed
    <3> QED BY <3>3, <3>4
  <2>6. c \notin Listed(t) /\ Listed(t) \subseteq Listed(s)
    BY <2>3, SwapRemoveGone, SwapRemoveType
  <2> QED BY <2>3, <2>5, <2>6
<1> QED BY <1>1, <1>2

\* Join's room, found or made, is one with the address in question.
LEMMA JoinRoom ==
  ASSUME TypeOK, ArgInv, NoDuplicates, NEW c \in Conn, Join(c)
  PROVE  \E i \in Nat :
           /\ DOMAIN rooms' = DOMAIN rooms \cup {i}
           /\ MembersAt(i) \in Seq(Conn)
           /\ rooms'[i].members = AddOnce(MembersAt(i), c)
           /\ \A k \in DOMAIN rooms \ {i} : rooms'[k] = rooms[k]
           /\ Fold[rooms'[i].jid] = Fold[arg[c]]
           /\ i \in DOMAIN rooms => rooms'[i].jid = rooms[i].jid
           /\ todo' = [todo EXCEPT ![c] = <<c>> \o Others(AddOnce(MembersAt(i), c), c)]
           /\ idx' = [idx EXCEPT ![c] = i]
<1> DEFINE found == FoldRooms(arg[c])
           i == IF found = {} THEN Len(rooms) + 1 ELSE First(found)
           members == AddOnce(MembersAt(i), c)
<1>1. rooms \in Seq(Room) /\ DOMAIN rooms = 1 .. Len(rooms) /\ Len(rooms) \in Nat
  BY DEF TypeOK
<1>2. MembersAt(i) \in Seq(Conn) /\ members \in Seq(Conn)
  BY <1>1, MembersType, AddOnceType
<1>3. /\ todo' = [todo EXCEPT ![c] = <<c>> \o Others(members, c)]
      /\ idx' = [idx EXCEPT ![c] = i]
      /\ rooms' = IF found = {} THEN Append(rooms, [jid |-> arg[c], members |-> members])
                  ELSE [rooms EXCEPT ![i].members = members]
  BY DEF Join, Iterate
<1>4. CASE found = {}
  <2> DEFINE r == [jid |-> arg[c], members |-> members]
  <2>1. rooms' = Append(rooms, r) /\ r.members = members /\ r.jid = arg[c] /\ i = Len(rooms) + 1
    BY <1>3, <1>4
  <2> HIDE DEF r, i, members, found
  <2>2. /\ DOMAIN rooms' = DOMAIN rooms \cup {i} /\ rooms'[i] = r
        /\ \A k \in DOMAIN rooms : rooms'[k] = rooms[k]
        /\ i \notin DOMAIN rooms /\ i \in Nat
    BY <1>1, <2>1
  <2> QED BY <1>2, <1>3, <2>1, <2>2 DEF members
<1>5. CASE found # {}
  <2>1. i \in found /\ i \in Nat
    BY <1>5, FirstType
  <2>2. i \in DOMAIN rooms /\ Fold[rooms[i].jid] = Fold[arg[c]]
    BY <2>1 DEF FoldRooms, SameFold
  <2>3. rooms' = [rooms EXCEPT ![i].members = members]
    BY <1>3, <1>5
  <2> HIDE DEF i, members, found
  <2>4. DOMAIN rooms' = DOMAIN rooms /\ \A k \in DOMAIN rooms \ {i} : rooms'[k] = rooms[k]
    BY <2>3
  <2>5. rooms'[i].members = members /\ rooms'[i].jid = rooms[i].jid
    BY <1>1, <1>2, <2>2, <2>3, EditRoom
  <2>6. DOMAIN rooms' = DOMAIN rooms \cup {i} /\ Fold[rooms'[i].jid] = Fold[arg[c]]
    BY <2>2, <2>4, <2>5
  <2>7. rooms'[i].members = AddOnce(MembersAt(i), c) /\ todo' = [todo EXCEPT ![c] = <<c>> \o Others(AddOnce(MembersAt(i), c), c)]
    BY <1>3, <2>5 DEF members
  <2> QED BY <1>2, <1>3, <2>1, <2>4, <2>5, <2>6, <2>7
<1> QED BY <1>4, <1>5

\* RemoveMember takes one connection out of one room.
LEMMA MemberLeft ==
  ASSUME TypeOK, NoDuplicates, NEW j, NEW c, NEW n \in DOMAIN rooms
  PROVE  /\ RemoveMember(j, c)[n].jid = rooms[n].jid
         /\ n = j => Listed(RemoveMember(j, c)[n].members) = Listed(rooms[n].members) \ {c}
         /\ n # j => RemoveMember(j, c)[n].members = rooms[n].members
<1>1. rooms \in Seq(Room)
  BY DEF TypeOK
<1>2. /\ rooms[n].members \in Seq(Conn)
      /\ RemoveMember(j, c)[n].jid = rooms[n].jid
      /\ RemoveMember(j, c)[n].members =
           IF n = j THEN SwapRemove(rooms[n].members, c) ELSE rooms[n].members
  BY <1>1, RemoveMemberFacts
<1>3. Listed(SwapRemove(rooms[n].members, c)) = Listed(rooms[n].members) \ {c}
  BY <1>2, SwapRemoveListed DEF NoDuplicates
<1> QED BY <1>2, <1>3

\* A goroutine that does not enter a loop leaves the loops as they are.
LEMMA CastFrame ==
  ASSUME CastInv, UNCHANGED <<clients, rooms>>,
         \A p \in Proc : pc'[p] \in Casting => pc'[p] = pc[p] /\ todo'[p] = todo[p] /\ idx'[p] = idx[p]
  PROVE  CastInv'
<1>1. \A i : MembersAt(i)' = MembersAt(i)'
  OBVIOUS
<1> SUFFICES ASSUME NEW p \in Proc, pc'[p] \in Casting
             PROVE  /\ pc'[p] = "userCast" => Listed(todo'[p]) \subseteq Listed(clients')
                    /\ pc'[p] # "userCast" => Listed(todo'[p]) \subseteq Listed(MembersAt(idx[p])')
  BY DEF CastInv, Casting
<1>2. MembersAt(idx[p])' = MembersAt(idx[p])
  BY DEF MembersAt
<1> QED BY <1>2 DEF CastInv

\* Lists change under the mutex, when no other loop is under way, and at the
\* end of the loop that changes them or before it begins.
LEMMA CastStep ==
  ASSUME TypeOK, LockDiscipline, ArgInv, NoDuplicates, CastInv, [Next]_vars
  PROVE  CastInv'
<1> USE DEF TypeOK, LockDiscipline, CastInv, Goto, loop, registry, Casting
<1>0. Conn \subseteq Proc /\ Admin \subseteq Proc /\ NoProc \notin Proc
  BY ConstantsAssumption DEF Proc
<1>1. ASSUME NEW c \in Conn, Accept(c) PROVE CastInv'
  BY <1>0, <1>1, CastFrame DEF Accept
<1>2. ASSUME NEW c \in Conn, Hello(c) PROVE CastInv'
  BY <1>0, <1>2, CastFrame DEF Hello
<1>3. ASSUME NEW c \in Conn, Chat(c) PROVE CastInv'
  BY <1>0, <1>3, CastFrame DEF Chat, Take, Arrives
<1>4. ASSUME NEW c \in Conn, StartTLS(c) PROVE CastInv'
  BY <1>0, <1>4, CastFrame DEF StartTLS, Arrives
<1>5. ASSUME NEW c \in Conn, TlsUp(c) PROVE CastInv'
  BY <1>0, <1>5, CastFrame DEF TlsUp
<1>6. ASSUME NEW c \in Conn, TlsFails(c) PROVE CastInv'
  BY <1>0, <1>6, CastFrame DEF TlsFails
<1>7. ASSUME NEW c \in Conn, ReadEnd(c) PROVE CastInv'
  BY <1>0, <1>7, CastFrame DEF ReadEnd, Arrives
<1>8. ASSUME NEW c \in Conn, Presence(c) PROVE CastInv'
  BY <1>0, <1>8, PresenceReads, CastFrame
<1>9. ASSUME NEW c \in Conn, ReadError(c) PROVE CastInv'
  BY <1>0, <1>9, CastFrame DEF ReadError
<1>10. ASSUME NEW c \in Conn, AnswerEnd(c) PROVE CastInv'
  BY <1>0, <1>10, CastFrame DEF AnswerEnd
<1>11. ASSUME NEW c \in Conn, StoreJid(c) PROVE CastInv'
  BY <1>0, <1>11, CastFrame DEF StoreJid
<1>12. ASSUME NEW c \in Conn, Welcome(c) PROVE CastInv'
  BY <1>0, <1>12, CastFrame DEF Welcome
<1>13. ASSUME NEW c \in Conn, AddClient(c) PROVE CastInv'
  <2>1. \A q \in Proc : pc'[q] \notin Casting
    BY <1>0, <1>13 DEF AddClient, Critical
  <2> QED BY <2>1
<1>14. ASSUME NEW c \in Conn, Join(c) PROVE CastInv'
  <2>1. \A q \in Proc : pc[q] \notin Casting
    BY <1>0, <1>14 DEF Join, Acquire, Critical
  <2>2. PICK i \in Nat : /\ todo' = [todo EXCEPT ![c] = <<c>> \o Others(AddOnce(MembersAt(i), c), c)]
                       /\ idx' = [idx EXCEPT ![c] = i]
                       /\ MembersAt(i) \in Seq(Conn)
                       /\ i \in DOMAIN rooms' /\ rooms'[i].members = AddOnce(MembersAt(i), c)
    BY <1>14, JoinRoom
  <2>3. pc' = [pc EXCEPT ![c] = "joinCast"]
    BY <1>14 DEF Join
  <2>4. /\ AddOnce(MembersAt(i), c) \in Seq(Conn)
        /\ c \in Listed(AddOnce(MembersAt(i), c))
    BY <2>2, AddOnceType
  <2>5. Listed(<<c>> \o Others(AddOnce(MembersAt(i), c), c)) \subseteq Listed(AddOnce(MembersAt(i), c))
    BY <2>4, OthersListed
  <2>6. MembersAt(idx[c])' = AddOnce(MembersAt(i), c)
    BY <1>0, <2>2 DEF MembersAt
  <2>7. \A q \in Proc : pc'[q] \in Casting => q = c
    BY <1>0, <2>1, <2>3
  <2>8. pc'[c] = "joinCast" /\ todo'[c] = <<c>> \o Others(AddOnce(MembersAt(i), c), c)
    BY <1>0, <2>2, <2>3
  <2> QED BY <2>5, <2>6, <2>7, <2>8
<1>15. ASSUME NEW c \in Conn, Leave(c) PROVE CastInv'
  <2>1. \A q \in Proc : pc[q] \notin Casting
    BY <1>0, <1>15 DEF Leave, Acquire, Critical
  <2>2. /\ UNCHANGED rooms /\ \A q \in Proc \ {c} : pc'[q] = pc[q]
        /\ pc'[c] \in Casting =>
             pc'[c] \in {"leaveCast", "roomCast", "drop"} /\ todo'[c] = MembersAt(idx'[c])
    BY <1>0, <1>15 DEF Leave, Acquire, Iterate
  <2>3. MembersAt(idx[c])' = MembersAt(idx'[c])
    BY <2>2 DEF MembersAt
  <2> QED BY <2>1, <2>2, <2>3
<1>16. ASSUME NEW c \in Conn, RemoveClient(c) PROVE CastInv'
  <2>1. \A q \in Proc : pc[q] \notin Casting
    BY <1>0, <1>16 DEF RemoveClient, Acquire, Critical
  <2>2. /\ UNCHANGED rooms /\ \A q \in Proc \ {c} : pc'[q] = pc[q]
        /\ pc'[c] \in Casting =>
             pc'[c] \in {"leaveCast", "roomCast", "drop"} /\ todo'[c] = MembersAt(idx'[c])
    BY <1>0, <1>16 DEF RemoveClient, Acquire, Iterate
  <2>3. MembersAt(idx[c])' = MembersAt(idx'[c])
    BY <2>2 DEF MembersAt
  <2> QED BY <2>1, <2>2, <2>3
<1>17. ASSUME NEW c \in Conn, DropMember(c) PROVE CastInv'
  <2>1. \A q \in Proc \ {c} : pc[q] \notin Casting
    BY <1>0, <1>17 DEF DropMember, Critical
  <2>2. /\ pc[c] = "drop" /\ UNCHANGED pc /\ rooms' = RemoveMember(idx[c], c)
        /\ idx'[c] = idx[c] + 1 /\ todo'[c] = MembersAt(idx[c] + 1) /\ idx[c] \in DOMAIN rooms
    BY <1>0, <1>17 DEF DropMember, Iterate
  <2>3. /\ DOMAIN rooms' = DOMAIN rooms /\ idx[c] \in Nat
        /\ \A i \in DOMAIN rooms \ {idx[c]} : rooms'[i] = rooms[i]
    BY <1>0, <2>2 DEF RemoveMember
  <2>4. MembersAt(idx[c])' = MembersAt(idx[c] + 1)
    <3>1. idx'[c] # idx[c]
      BY <2>2, <2>3
    <3> QED BY <2>2, <2>3, <3>1 DEF MembersAt
  <2> QED BY <2>1, <2>2, <2>4
<1>18. ASSUME NEW c \in Conn, DropClient(c) PROVE CastInv'
  <2>1. \A q \in Proc : pc'[q] \notin Casting
    BY <1>0, <1>18 DEF DropClient, Critical, Kicking
  <2> QED BY <2>1
<1>19. ASSUME NEW c \in Conn, CloseConn(c) PROVE CastInv'
  BY <1>0, <1>19, CastFrame DEF CloseConn
<1>20. ASSUME NEW c \in Conn, NEW j \in Jid, Auth(c, j) PROVE CastInv'
  BY <1>0, <1>20, CastFrame DEF Auth, Take, Arrives
<1>21. ASSUME NEW c \in Conn, NEW to \in Targets, Message(c, to) PROVE CastInv'
  BY <1>0, <1>21, CastFrame DEF Message, Take, Arrives
<1>22. ASSUME NEW a \in Admin, NEW b \in Targets \cap Bare, AdminKick(a, b) PROVE CastInv'
  BY <1>0, <1>22, CastFrame DEF AdminKick
<1>23. ASSUME NEW a \in Admin, NEW to \in Targets \cap Bare, AdminSend(a, to) PROVE CastInv'
  BY <1>0, <1>23, CastFrame DEF AdminSend
<1>24. ASSUME NEW p \in Proc, KickLock(p) PROVE CastInv'
  BY <1>0, <1>24, CastFrame DEF KickLock, Acquire, Iterate
<1>25. ASSUME NEW p \in Proc, ScanHit(p) PROVE CastInv'
  BY <1>0, <1>25, CastFrame DEF ScanHit
<1>26. ASSUME NEW p \in Proc, ScanMiss(p) PROVE CastInv'
  BY <1>0, <1>26, CastFrame DEF ScanMiss, Iterate
<1>27. ASSUME NEW p \in Proc, ScanEnd(p) PROVE CastInv'
  BY <1>0, <1>27, CastFrame DEF ScanEnd, Release
<1>28. ASSUME NEW p \in Proc, KickError(p) PROVE CastInv'
  BY <1>0, <1>28, CastFrame DEF KickError
<1>29. ASSUME NEW p \in Proc, KickMark(p) PROVE CastInv'
  BY <1>0, <1>29, CastFrame DEF KickMark
<1>30. ASSUME NEW p \in Proc, KickEnd(p) PROVE CastInv'
  BY <1>0, <1>30, CastFrame DEF KickEnd
<1>31. ASSUME NEW p \in Proc, StreamEnd(p) PROVE CastInv'
  BY <1>0, <1>31, CastFrame DEF StreamEnd, Iterate
<1>32. ASSUME NEW p \in Proc, CloseTimeout(p) PROVE CastInv'
  BY <1>0, <1>32, CastFrame DEF CloseTimeout, Iterate
<1>33. ASSUME NEW p \in Proc, RouteRoom(p) PROVE CastInv'
  <2>1. \A q \in Proc : pc[q] \notin Casting
    BY <1>0, <1>33 DEF RouteRoom, Acquire, Critical
  <2>2. /\ UNCHANGED rooms /\ \A q \in Proc \ {p} : pc'[q] = pc[q]
        /\ pc'[p] \in Casting =>
             pc'[p] \in {"leaveCast", "roomCast", "drop"} /\ todo'[p] = MembersAt(idx'[p])
    BY <1>0, <1>33 DEF RouteRoom, Acquire, Iterate
  <2>3. MembersAt(idx[p])' = MembersAt(idx'[p])
    BY <2>2 DEF MembersAt
  <2> QED BY <2>1, <2>2, <2>3
<1>34. ASSUME NEW p \in Proc, RouteUser(p) PROVE CastInv'
  <2>1. \A q \in Proc : pc[q] \notin Casting
    BY <1>0, <1>34 DEF RouteUser, Acquire, Critical
  <2>2. /\ UNCHANGED clients /\ \A q \in Proc \ {p} : pc'[q] = pc[q]
        /\ pc'[p] = "userCast"
    BY <1>0, <1>34 DEF RouteUser
  <2>3. todo'[p] = << >> \/ \E i \in DOMAIN clients : todo'[p] = <<clients[i]>>
    BY <1>0, <1>34 DEF RouteUser, Iterate
  <2>4. Listed(todo'[p]) \subseteq Listed(clients)
    BY <2>3 DEF Listed
  <2> QED BY <2>1, <2>2, <2>4
<1>35. ASSUME NEW p \in Proc, Cast(p) PROVE CastInv'
  <2>1. \A q \in Proc \ {p} : pc[q] \notin Casting
    BY <1>35 DEF Cast, Critical
  <2>2. /\ UNCHANGED <<pc, clients, rooms>> /\ todo[p] # << >> /\ todo[p] \in Seq(Conn)
        /\ todo'[p] = Tail(todo[p]) /\ idx'[p] = idx[p]
    BY <1>35 DEF Cast, Iterate
  <2>3. Listed(todo'[p]) \subseteq Listed(todo[p])
    BY <2>2, ListedTail
  <2>4. MembersAt(idx[p])' = MembersAt(idx[p])
    BY <2>2 DEF MembersAt
  <2> QED BY <2>1, <2>2, <2>3, <2>4
<1>36. ASSUME NEW p \in Proc, CastEnd(p) PROVE CastInv'
  <2>1. \A q \in Proc : pc'[q] \notin Casting
    BY <1>0, <1>36 DEF CastEnd, Critical, Home
  <2> QED BY <2>1
<1>37. ASSUME UNCHANGED vars PROVE CastInv'
  BY <1>0, <1>37, CastFrame DEF vars
<1> QED
  BY <1>1, <1>2, <1>3, <1>4, <1>5, <1>6, <1>7, <1>8, <1>9, <1>10, <1>11, <1>12, <1>13, <1>14,
     <1>15, <1>16, <1>17, <1>18, <1>19, <1>20, <1>21, <1>22, <1>23, <1>24, <1>25, <1>26, <1>27,
     <1>28, <1>29, <1>30, <1>31, <1>32, <1>33, <1>34, <1>35, <1>36, <1>37
  DEF Next, Environment, Request, Lock, Run, Quiescent

-----------------------------------------------------------------------------
(* The roster.                                                             *)

Keys == {Fold[b] : b \in Bare}

\* What the roster sees: x is in a room of this key.
Member(x, k) == \E i \in DOMAIN rooms : Fold[rooms[i].jid] = k /\ x \in Listed(rooms[i].members)

\* The four variables of the roster.
Known   == {c \in Conn : authed[c]}
Online  == {c \in Conn : c \in Listed(clients) /\ pc[c] # "drop"}
Inside  == [k \in Keys |-> {c \in Conn : Member(c, k) /\ pc[c] # "drop"}]
Gone    == {c \in Conn : pc[c] \in {"drop", "close", "done"}}
Picture == <<Known, Online, Inside, Gone>>

\* The mapping of inside, as XmppServer states it, is Inside.
Mapped == [k \in {Fold[b] : b \in Bare} |->
             Seen(UNION {Listed(rooms[i].members) : i \in {n \in DOMAIN rooms : Fold[rooms[n].jid] = k}})]

LEMMA Mapping == ASSUME TypeOK PROVE Seen(Listed(clients)) = Online /\ Mapped = Inside
<1>1. Listed(clients) \subseteq Conn
  BY DEF TypeOK, Listed
<1>2. ASSUME NEW i \in DOMAIN rooms PROVE Listed(rooms[i].members) \subseteq Conn
  <2>1. rooms[i] \in Room
    BY DEF TypeOK
  <2>2. rooms[i].members \in Seq(Conn)
    BY <2>1 DEF Room
  <2> QED BY <2>2 DEF Listed
<1>3. Seen(Listed(clients)) = Online
  BY <1>1 DEF Seen, Online
<1>4. ASSUME NEW k \in Keys
      PROVE  Seen(UNION {Listed(rooms[i].members) : i \in {n \in DOMAIN rooms : Fold[rooms[n].jid] = k}})
               = {c \in Conn : Member(c, k) /\ pc[c] # "drop"}
  BY <1>2 DEF Seen, Member
<1> QED BY <1>3, <1>4 DEF Mapped, Inside, Keys

\* The same for the next state.
LEMMA MappingNext == ASSUME TypeOK' PROVE Seen(Listed(clients))' = Online' /\ Mapped' = Inside'
<1>1. Listed(clients') \subseteq Conn
  BY DEF TypeOK, Listed
<1>2. ASSUME NEW i \in DOMAIN rooms' PROVE Listed(rooms'[i].members) \subseteq Conn
  <2>1. rooms'[i] \in Room
    BY DEF TypeOK
  <2>2. rooms'[i].members \in Seq(Conn)
    BY <2>1 DEF Room
  <2> QED BY <2>2 DEF Listed
<1>3. Seen(Listed(clients))' = Online'
  BY <1>1 DEF Seen, Online
<1>4. ASSUME NEW k \in Keys
      PROVE  Seen(UNION {Listed(rooms[i].members) : i \in {n \in DOMAIN rooms : Fold[rooms[n].jid] = k}})'
               = {c \in Conn : Member(c, k) /\ pc[c] # "drop"}'
  BY <1>2 DEF Seen, Member
<1> QED BY <1>3, <1>4 DEF Mapped, Inside, Keys

\* Nobody logs in, comes or goes.
Quiet ==
  /\ UNCHANGED <<authed, clients, rooms>>
  /\ \A c \in Conn : (pc'[c] = "drop" <=> pc[c] = "drop")
  /\ \A c \in Conn : (pc'[c] \in {"drop", "close", "done"} <=> pc[c] \in {"drop", "close", "done"})

\* What a step may do to the roster.
Kind ==
  \/ Quiet
  \/ \E c \in Conn : Welcome(c) \/ AddClient(c) \/ Join(c) \/ RemoveClient(c) \/ DropMember(c) \/ DropClient(c)
  \/ \E p \in Proc : CastEnd(p) /\ pc[p] = "leaveCast"

\* One lemma for each.
LEMMA QuietStep == ASSUME Quiet PROVE UNCHANGED Picture
<1>1. \A x, k : Member(x, k)' = Member(x, k)
  BY DEF Quiet, Member
<1> QED BY <1>1 DEF Quiet, Picture, Known, Online, Inside, Gone

\* The end of a login is Login.
LEMMA WelcomeStep ==
  ASSUME TypeOK, NEW c \in Conn, Welcome(c)
  PROVE  /\ c \notin Gone /\ Known' = Known \cup {c}
         /\ UNCHANGED <<Online, Inside, Gone>>
<1>1. /\ pc[c] = "welcome" /\ pc' = [pc EXCEPT ![c] = "read"] /\ authed' = [authed EXCEPT ![c] = TRUE]
      /\ UNCHANGED <<clients, rooms>>
  BY DEF Welcome, Goto, registry
<1>2. \A x, k : Member(x, k)' = Member(x, k)
  BY <1>1 DEF Member
<1>3. \A x \in Conn : (pc'[x] = "drop" <=> pc[x] = "drop")
                      /\ (pc'[x] \in {"drop", "close", "done"} <=> pc[x] \in {"drop", "close", "done"})
  BY <1>1 DEF TypeOK, Proc
<1>4. Known' = Known \cup {c} /\ c \notin Gone
  BY <1>1 DEF TypeOK, Known, Gone
<1> QED BY <1>1, <1>2, <1>3, <1>4 DEF Online, Inside, Gone

\* AddClient is Appear.
LEMMA AddClientStep ==
  ASSUME TypeOK, AuthInv, NEW c \in Conn, AddClient(c)
  PROVE  /\ c \in Known \ Gone /\ Online' = Online \cup {c}
         /\ UNCHANGED <<Known, Inside, Gone>>
<1>1. /\ pc[c] = "avail" /\ pc' = [pc EXCEPT ![c] = "read"] /\ clients' = AddOnce(clients, c)
      /\ UNCHANGED <<authed, rooms>>
  BY DEF AddClient, Goto, session
<1>2. \A x, k : Member(x, k)' = Member(x, k)
  BY <1>1 DEF Member
<1>3. \A x \in Conn : (pc'[x] = "drop" <=> pc[x] = "drop")
                      /\ (pc'[x] \in {"drop", "close", "done"} <=> pc[x] \in {"drop", "close", "done"})
  BY <1>1 DEF TypeOK, Proc
<1>4. Listed(clients') = Listed(clients) \cup {c}
  BY <1>1, AddOnceType DEF TypeOK
<1>5. c \in Known \ Gone
  BY <1>1 DEF AuthInv, Registering, Known, Gone, Proc
<1>6. Online' = Online \cup {c}
  BY <1>1, <1>3, <1>4 DEF Online
<1> QED BY <1>1, <1>2, <1>3, <1>5, <1>6 DEF Known, Inside, Gone

\* A join is Enter, of the room with the folded address.
LEMMA JoinStep ==
  ASSUME TypeOK, AuthInv, ArgInv, NoDuplicates, NEW c \in Conn, Join(c)
  PROVE  /\ c \in Known \ Gone /\ Fold[arg[c]] \in Keys
         /\ Inside' = [Inside EXCEPT ![Fold[arg[c]]] = @ \cup {c}]
         /\ UNCHANGED <<Known, Online, Gone>>
<1>1. /\ pc[c] = "join" /\ pc' = [pc EXCEPT ![c] = "joinCast"]
      /\ UNCHANGED <<authed, clients>>
  BY DEF Join, Goto, session
<1>2. \A x \in Conn : (pc'[x] = "drop" <=> pc[x] = "drop")
                      /\ (pc'[x] \in {"drop", "close", "done"} <=> pc[x] \in {"drop", "close", "done"})
  BY <1>1 DEF TypeOK, Proc
<1>3. c \in Known \ Gone
  BY <1>1 DEF AuthInv, Registering, Known, Gone, Proc
<1>4. Fold[arg[c]] \in Keys
  BY <1>1, ConstantsAssumption DEF ArgInv, Keys
<1>5. PICK i : /\ DOMAIN rooms' = DOMAIN rooms \cup {i}
               /\ MembersAt(i) \in Seq(Conn)
               /\ rooms'[i].members = AddOnce(MembersAt(i), c)
               /\ \A k \in DOMAIN rooms \ {i} : rooms'[k] = rooms[k]
               /\ Fold[rooms'[i].jid] = Fold[arg[c]]
               /\ i \in DOMAIN rooms => rooms'[i].jid = rooms[i].jid
  BY JoinRoom
<1>6. Listed(rooms'[i].members) = Listed(MembersAt(i)) \cup {c}
  BY <1>5, AddOnceType
<1>7. ASSUME NEW x, NEW k
      PROVE  Member(x, k)' <=> Member(x, k) \/ (x = c /\ k = Fold[arg[c]])
  <2>1. CASE i \in DOMAIN rooms
    <3>1. MembersAt(i) = rooms[i].members
      BY <2>1 DEF MembersAt
    <3> QED BY <1>5, <1>6, <2>1, <3>1 DEF Member
  <2>2. CASE i \notin DOMAIN rooms
    <3>1. Listed(MembersAt(i)) = {}
      BY <2>2 DEF MembersAt, Listed
    <3> QED BY <1>5, <1>6, <2>2, <3>1 DEF Member
  <2> QED BY <2>1, <2>2
<1>8. pc'[c] # "drop"
  BY <1>1 DEF TypeOK, Proc
<1>9. Inside' = [Inside EXCEPT ![Fold[arg[c]]] = @ \cup {c}]
  <2> DEFINE new == [Inside EXCEPT ![Fold[arg[c]]] = @ \cup {c}]
  <2>1. ASSUME NEW k \in Keys PROVE Inside'[k] = new[k]
    <3>1. Inside'[k] = {x \in Conn : Member(x, k)' /\ pc'[x] # "drop"}
      BY DEF Inside
    <3>2. Inside[k] = {x \in Conn : Member(x, k) /\ pc[x] # "drop"}
      BY DEF Inside
    <3>3. new[k] = IF k = Fold[arg[c]] THEN Inside[k] \cup {c} ELSE Inside[k]
      BY DEF Inside
    <3> HIDE DEF new
    <3> QED BY <1>2, <1>7, <1>8, <3>1, <3>2, <3>3
  <2> QED BY <2>1 DEF Inside
<1> QED BY <1>1, <1>2, <1>3, <1>4, <1>9 DEF Known, Online, Gone

\* RemoveClient is Vanish when it takes the mutex ...
LEMMA RemoveClientStep ==
  ASSUME TypeOK, NEW c \in Conn, RemoveClient(c)
  PROVE  /\ c \notin Gone /\ Gone' = Gone \cup {c} /\ Online' = Online \ {c}
         /\ Inside' = [k \in Keys |-> Inside[k] \ {c}]
         /\ UNCHANGED Known
<1>1. /\ pc[c] = "exit" /\ pc' = [pc EXCEPT ![c] = "drop"]
      /\ UNCHANGED <<authed, clients, rooms>>
  BY DEF RemoveClient, Goto, session, registry
<1>2. \A x, k : Member(x, k)' = Member(x, k)
  BY <1>1 DEF Member
<1>3. pc'[c] = "drop" /\ \A x \in Conn \ {c} : pc'[x] = pc[x]
  BY <1>1 DEF TypeOK, Proc
<1>4. ASSUME NEW k \in Keys PROVE Inside'[k] = Inside[k] \ {c}
  BY <1>1, <1>2, <1>3 DEF Inside
<1>5. Inside' = [k \in Keys |-> Inside[k] \ {c}]
  BY <1>4 DEF Inside
<1>6. c \notin Gone /\ Gone' = Gone \cup {c} /\ Online' = Online \ {c}
  BY <1>1, <1>3 DEF Gone, Online
<1> QED BY <1>1, <1>5, <1>6 DEF Known

\* Who is in which room after a removal.
LEMMA MemberGone ==
  ASSUME TypeOK, NoDuplicates, NEW j, NEW c, rooms' = RemoveMember(j, c), NEW x, NEW k
  PROVE  /\ x # c => (Member(x, k)' <=> Member(x, k))
         /\ j \notin DOMAIN rooms => (Member(x, k)' <=> Member(x, k))
         /\ j \in DOMAIN rooms =>
              (Member(x, k)' <=> Member(x, k) /\ ~(x = c /\ k = Fold[rooms[j].jid]))
<1>1. DOMAIN rooms' = DOMAIN rooms
  BY DEF RemoveMember
<1>2. ASSUME NEW n \in DOMAIN rooms
      PROVE  /\ rooms'[n].jid = rooms[n].jid
             /\ n = j => Listed(rooms'[n].members) = Listed(rooms[n].members) \ {c}
             /\ n # j => rooms'[n].members = rooms[n].members
  BY MemberLeft
<1>3. Member(x, k)' <=> \E i \in DOMAIN rooms : /\ Fold[rooms[i].jid] = k
                                                /\ x \in Listed(rooms[i].members)
                                                /\ ~(i = j /\ x = c)
  BY <1>1, <1>2 DEF Member
<1>4. \A i \in DOMAIN rooms : j \in DOMAIN rooms /\ Fold[rooms[i].jid] = Fold[rooms[j].jid] => i = j
  BY DEF NoDuplicates, SameFold
<1> QED BY <1>3, <1>4 DEF Member

\* ... and nothing more after that, room by room ...
LEMMA DropMemberStep ==
  ASSUME TypeOK, NoDuplicates, NEW c \in Conn, DropMember(c) PROVE UNCHANGED Picture
<1>1. pc[c] = "drop" /\ rooms' = RemoveMember(idx[c], c) /\ UNCHANGED <<authed, clients, pc>>
  BY DEF DropMember, session
<1>2. ASSUME NEW x \in Conn \ {c}, NEW k PROVE Member(x, k)' <=> Member(x, k)
  BY <1>1, MemberGone
<1>3. UNCHANGED Inside
  BY <1>1, <1>2 DEF Inside
<1> QED BY <1>1, <1>3 DEF Picture, Known, Online, Gone

\* ... and at its end: nothing is left that could show again.
LEMMA DropClientStep ==
  ASSUME TypeOK, NoDuplicates, NoGhost', NEW c \in Conn, DropClient(c) PROVE UNCHANGED Picture
<1>1. /\ pc[c] = "drop" /\ pc' = [pc EXCEPT ![c] = "close"]
      /\ clients' = SwapRemove(clients, c) /\ UNCHANGED <<authed, rooms>>
  BY DEF DropClient, Goto, session
<1>2. pc'[c] = "close" /\ \A x \in Conn \ {c} : pc'[x] = pc[x]
  BY <1>1 DEF TypeOK, Proc
<1>3. Listed(clients') = Listed(clients) \ {c}
  BY <1>1, SwapRemoveListed DEF TypeOK, NoDuplicates
<1>4. \A k : ~Member(c, k)'
  BY <1>2 DEF NoGhost, Registered, InAnyRoom, Member
<1>5. \A x, k : Member(x, k)' = Member(x, k)
  BY <1>1 DEF Member
<1>6. UNCHANGED Inside
  BY <1>1, <1>2, <1>4, <1>5 DEF Inside
<1>7. UNCHANGED Online
  BY <1>1, <1>2, <1>3 DEF Online
<1>8. UNCHANGED Gone
  BY <1>1, <1>2 DEF Gone
<1> QED BY <1>1, <1>6, <1>7, <1>8 DEF Picture, Known

\* The end of a leave is Depart.
LEMMA LeaveStep ==
  ASSUME TypeOK, AuthInv, NoDuplicates, NEW p \in Proc, CastEnd(p), pc[p] = "leaveCast"
  PROVE  \/ UNCHANGED Picture
         \/ /\ p \in Known \ Gone
            /\ \E k \in Keys : Inside' = [Inside EXCEPT ![k] = @ \ {p}]
            /\ UNCHANGED <<Known, Online, Gone>>
<1>1. p \in Conn /\ authed[p]
  BY DEF AuthInv, Registering
<1>2. /\ pc' = [pc EXCEPT ![p] = "read"] /\ rooms' = RemoveMember(idx[p], p)
      /\ UNCHANGED <<authed, clients>>
  BY <1>1 DEF CastEnd, Goto, Home, session
<1>3. \A x \in Conn : (pc'[x] = "drop" <=> pc[x] = "drop")
                      /\ (pc'[x] \in {"drop", "close", "done"} <=> pc[x] \in {"drop", "close", "done"})
  BY <1>2 DEF TypeOK, Proc
<1>4. p \in Known \ Gone /\ UNCHANGED <<Known, Online, Gone>>
  BY <1>1, <1>2, <1>3 DEF Known, Online, Gone
<1>5. CASE idx[p] \in DOMAIN rooms
  <2> DEFINE key == Fold[rooms[idx[p]].jid]
  <2>1. key \in Keys
    <3>1. rooms[idx[p]] \in Room
      BY <1>5 DEF TypeOK
    <3>2. rooms[idx[p]].jid \in Bare
      BY <3>1 DEF Room
    <3> QED BY <3>2 DEF Keys
  <2>3. ASSUME NEW x, NEW k PROVE Member(x, k)' <=> Member(x, k) /\ ~(x = p /\ k = key)
    BY <1>2, <1>5, MemberGone
  <2> HIDE DEF key
  <2>4. Inside' = [Inside EXCEPT ![key] = @ \ {p}]
    <3> DEFINE new == [Inside EXCEPT ![key] = @ \ {p}]
    <3>1. ASSUME NEW k \in Keys PROVE Inside'[k] = new[k]
      <4>1. Inside'[k] = {x \in Conn : Member(x, k)' /\ pc'[x] # "drop"}
        BY DEF Inside
      <4>2. Inside[k] = {x \in Conn : Member(x, k) /\ pc[x] # "drop"}
        BY DEF Inside
      <4>3. new[k] = IF k = key THEN Inside[k] \ {p} ELSE Inside[k]
        BY DEF Inside
      <4> HIDE DEF new
      <4> QED BY <1>3, <2>3, <4>1, <4>2, <4>3
    <3> QED BY <3>1 DEF Inside
  <2> QED BY <1>4, <2>1, <2>4
<1>6. CASE idx[p] \notin DOMAIN rooms
  <2>1. ASSUME NEW x, NEW k PROVE Member(x, k)' <=> Member(x, k)
    BY <1>2, <1>6, MemberGone
  <2>2. UNCHANGED Inside
    BY <1>3, <2>1 DEF Inside
  <2> QED BY <1>4, <2>2 DEF Picture
<1> QED BY <1>5, <1>6

\* There are no other steps.
LEMMA Kinds ==
  ASSUME TypeOK, [Next]_vars
  PROVE  Kind
<1> USE DEF TypeOK, Quiet, Goto, session, registry
<1>0. Conn \subseteq Proc /\ Admin \subseteq Proc /\ NoProc \notin Proc
  BY ConstantsAssumption DEF Proc
<1>1. ASSUME NEW c \in Conn, Accept(c) PROVE Kind
  BY <1>0, <1>1 DEF Kind, Accept
<1>2. ASSUME NEW c \in Conn, Hello(c) PROVE Kind
  BY <1>0, <1>2 DEF Kind, Hello
<1>3. ASSUME NEW c \in Conn, Chat(c) PROVE Kind
  BY <1>0, <1>3 DEF Kind, Chat, Take, Arrives
<1>4. ASSUME NEW c \in Conn, StartTLS(c) PROVE Kind
  BY <1>0, <1>4 DEF Kind, StartTLS, Arrives
<1>5. ASSUME NEW c \in Conn, TlsUp(c) PROVE Kind
  BY <1>0, <1>5 DEF Kind, TlsUp
<1>6. ASSUME NEW c \in Conn, TlsFails(c) PROVE Kind
  BY <1>0, <1>6 DEF Kind, TlsFails
<1>7. ASSUME NEW c \in Conn, ReadEnd(c) PROVE Kind
  BY <1>0, <1>7 DEF Kind, ReadEnd, Arrives
<1>8. ASSUME NEW c \in Conn, Presence(c) PROVE Kind
  BY <1>0, <1>8, PresenceReads DEF Kind
<1>9. ASSUME NEW c \in Conn, ReadError(c) PROVE Kind
  BY <1>0, <1>9 DEF Kind, ReadError
<1>10. ASSUME NEW c \in Conn, AnswerEnd(c) PROVE Kind
  BY <1>0, <1>10 DEF Kind, AnswerEnd
<1>11. ASSUME NEW c \in Conn, StoreJid(c) PROVE Kind
  BY <1>0, <1>11 DEF Kind, StoreJid
<1>12. ASSUME NEW c \in Conn, Welcome(c) PROVE Kind
  BY <1>12 DEF Kind
<1>13. ASSUME NEW c \in Conn, AddClient(c) PROVE Kind
  BY <1>13 DEF Kind
<1>14. ASSUME NEW c \in Conn, Join(c) PROVE Kind
  BY <1>14 DEF Kind
<1>15. ASSUME NEW c \in Conn, Leave(c) PROVE Kind
  BY <1>0, <1>15 DEF Kind, Leave
<1>16. ASSUME NEW c \in Conn, RemoveClient(c) PROVE Kind
  BY <1>16 DEF Kind
<1>17. ASSUME NEW c \in Conn, DropMember(c) PROVE Kind
  BY <1>17 DEF Kind
<1>18. ASSUME NEW c \in Conn, DropClient(c) PROVE Kind
  BY <1>18 DEF Kind
<1>19. ASSUME NEW c \in Conn, CloseConn(c) PROVE Kind
  BY <1>0, <1>19 DEF Kind, CloseConn
<1>20. ASSUME NEW c \in Conn, NEW j \in Jid, Auth(c, j) PROVE Kind
  BY <1>0, <1>20 DEF Kind, Auth, Take, Arrives
<1>21. ASSUME NEW c \in Conn, NEW to \in Targets, Message(c, to) PROVE Kind
  BY <1>0, <1>21 DEF Kind, Message, Take, Arrives
<1>22. ASSUME NEW a \in Admin, NEW b \in Targets \cap Bare, AdminKick(a, b) PROVE Kind
  BY <1>0, <1>22 DEF Kind, AdminKick
<1>23. ASSUME NEW a \in Admin, NEW to \in Targets \cap Bare, AdminSend(a, to) PROVE Kind
  BY <1>0, <1>23 DEF Kind, AdminSend
<1>24. ASSUME NEW p \in Proc, KickLock(p) PROVE Kind
  BY <1>0, <1>24 DEF Kind, KickLock, Acquire
<1>25. ASSUME NEW p \in Proc, ScanHit(p) PROVE Kind
  BY <1>0, <1>25 DEF Kind, ScanHit
<1>26. ASSUME NEW p \in Proc, ScanMiss(p) PROVE Kind
  BY <1>0, <1>26 DEF Kind, ScanMiss
<1>27. ASSUME NEW p \in Proc, ScanEnd(p) PROVE Kind
  BY <1>0, <1>27 DEF Kind, ScanEnd, Release
<1>28. ASSUME NEW p \in Proc, KickError(p) PROVE Kind
  BY <1>0, <1>28 DEF Kind, KickError
<1>29. ASSUME NEW p \in Proc, KickMark(p) PROVE Kind
  BY <1>0, <1>29 DEF Kind, KickMark
<1>30. ASSUME NEW p \in Proc, KickEnd(p) PROVE Kind
  BY <1>0, <1>30 DEF Kind, KickEnd
<1>31. ASSUME NEW p \in Proc, StreamEnd(p) PROVE Kind
  BY <1>0, <1>31 DEF Kind, StreamEnd
<1>32. ASSUME NEW p \in Proc, CloseTimeout(p) PROVE Kind
  BY <1>0, <1>32 DEF Kind, CloseTimeout
<1>33. ASSUME NEW p \in Proc, RouteRoom(p) PROVE Kind
  BY <1>0, <1>33 DEF Kind, RouteRoom
<1>34. ASSUME NEW p \in Proc, RouteUser(p) PROVE Kind
  BY <1>0, <1>34 DEF Kind, RouteUser, Acquire
<1>35. ASSUME NEW p \in Proc, Cast(p) PROVE Kind
  BY <1>0, <1>35 DEF Kind, Cast
<1>36. ASSUME NEW p \in Proc, CastEnd(p) PROVE Kind
  <2>1. CASE pc[p] = "leaveCast"
    BY <1>36, <2>1 DEF Kind
  <2>2. CASE pc[p] # "leaveCast"
    <3>1. UNCHANGED <<authed, clients, rooms>>
      BY <1>36, <2>2 DEF CastEnd
    <3>2. pc[p] # "drop" /\ \E to \in {"direct", "read", "ready"} : pc' = [pc EXCEPT ![p] = to]
      BY <1>36 DEF CastEnd, Home, Casting
    <3>3. pc[p] \in Casting \ {"drop"}
      BY <1>36 DEF CastEnd
    <3> QED BY <1>0, <3>1, <3>2, <3>3 DEF Kind, Casting
  <2> QED BY <2>1, <2>2
<1>37. ASSUME UNCHANGED vars PROVE Kind
  BY <1>37 DEF Kind, vars
<1> QED
  BY <1>1, <1>2, <1>3, <1>4, <1>5, <1>6, <1>7, <1>8, <1>9, <1>10, <1>11, <1>12, <1>13, <1>14,
     <1>15, <1>16, <1>17, <1>18, <1>19, <1>20, <1>21, <1>22, <1>23, <1>24, <1>25, <1>26, <1>27,
     <1>28, <1>29, <1>30, <1>31, <1>32, <1>33, <1>34, <1>35, <1>36, <1>37
  DEF Next, Environment, Request, Lock, Run, Quiescent

\* A step of the handlers is one of the roster or none.
LEMMA RosterStep ==
  ASSUME IInv, AuthInv, [Next]_vars
  PROVE  [R!RosterNext]_(R!rvars)
<1>1. TypeOK /\ ArgInv /\ NoDuplicates /\ TypeOK' /\ NoGhost'
  BY InvStep DEF IInv
<1>2. /\ Seen(Listed(clients)) = Online /\ Mapped = Inside
      /\ Seen(Listed(clients))' = Online' /\ Mapped' = Inside'
  BY <1>1, Mapping, MappingNext
<1>3. Kind
  BY <1>1, Kinds
<1>4. UNCHANGED Picture => UNCHANGED R!rvars
  BY <1>2 DEF Picture, R!rvars, Known, Gone, Mapped
<1>5. CASE Quiet
  BY <1>4, <1>5, QuietStep
<1>6. ASSUME NEW c \in Conn, Welcome(c) PROVE R!RosterNext
  <2>1. R!Login(c)
    BY <1>1, <1>2, <1>6, WelcomeStep DEF R!Login, Known, Gone, Mapped
  <2> QED BY <2>1 DEF R!RosterNext
<1>7. ASSUME NEW c \in Conn, AddClient(c) PROVE R!RosterNext
  <2>1. R!Appear(c)
    BY <1>1, <1>2, <1>7, AddClientStep DEF R!Appear, Known, Gone, Mapped
  <2> QED BY <2>1 DEF R!RosterNext
<1>8. ASSUME NEW c \in Conn, Join(c) PROVE R!RosterNext
  <2>1. /\ c \in Known \ Gone /\ Fold[arg[c]] \in Keys
        /\ Inside' = [Inside EXCEPT ![Fold[arg[c]]] = @ \cup {c}]
        /\ UNCHANGED <<Known, Online, Gone>>
    BY <1>1, <1>8, JoinStep
  <2>2. PICK k \in Keys : k = Fold[arg[c]]
    BY <2>1
  <2>3. R!Enter(c, k)
    BY <1>2, <2>1, <2>2 DEF R!Enter, Known, Gone, Mapped
  <2> QED BY <2>3 DEF R!RosterNext, Keys
<1>9. ASSUME NEW c \in Conn, RemoveClient(c) PROVE R!RosterNext
  <2>1. R!Vanish(c)
    BY <1>1, <1>2, <1>9, RemoveClientStep DEF R!Vanish, Known, Gone, Mapped, Keys
  <2> QED BY <2>1 DEF R!RosterNext
<1>10. ASSUME NEW c \in Conn, DropMember(c) PROVE UNCHANGED R!rvars
  BY <1>1, <1>4, <1>10, DropMemberStep
<1>11. ASSUME NEW c \in Conn, DropClient(c) PROVE UNCHANGED R!rvars
  BY <1>1, <1>4, <1>11, DropClientStep
<1>12. ASSUME NEW p \in Proc, CastEnd(p), pc[p] = "leaveCast" PROVE [R!RosterNext]_(R!rvars)
  <2>1. CASE UNCHANGED Picture
    BY <1>4, <2>1
  <2>2. CASE /\ p \in Known \ Gone
             /\ \E k \in Keys : Inside' = [Inside EXCEPT ![k] = @ \ {p}]
             /\ UNCHANGED <<Known, Online, Gone>>
    <3>1. PICK k \in Keys : Inside' = [Inside EXCEPT ![k] = @ \ {p}]
      BY <2>2
    <3>2. R!Depart(p, k)
      BY <1>2, <2>2, <3>1 DEF R!Depart, Known, Gone, Mapped
    <3>3. p \in Conn
      BY <2>2 DEF Known
    <3> QED BY <3>2, <3>3 DEF R!RosterNext, Keys
  <2> QED BY <1>1, <1>12, <2>1, <2>2, LeaveStep
<1> QED BY <1>3, <1>5, <1>6, <1>7, <1>8, <1>9, <1>10, <1>11, <1>12 DEF Kind

-----------------------------------------------------------------------------
(* Logins.                                                                 *)

\* A session that has been kicked, or whose login waits for the mutex.
Settled(d) == streamClosed[d] \/ pc[d] \in {"store", "login"}

\* Of the sessions of its user a login has settled those its loop has passed.
Passed(c) ==
  /\ \A d \in Listed(clients) : SameUser(c, d) => d \in Listed(todo[c]) \/ Settled(d)
  /\ pc[c] \in {"kickEnd", "kickWait"} => streamClosed[Head(todo[c])]
ScanInv == \A c \in Conn : pc[c] \in Kicking => Passed(c)

\* A step of p that is not about the loop of a login or an API's kick.
Aside(p) ==
  /\ UNCHANGED <<clients, jid, streamClosed>>
  /\ pc[p] \notin Kicking \cup {"store", "login"} /\ pc'[p] \notin Kicking
  /\ \A q \in Proc \ {p} : pc'[q] = pc[q] /\ todo'[q] = todo[q]

\* The steps that are.
LoopStep(p) ==
  \/ KickLock(p) \/ ScanHit(p) \/ ScanMiss(p) \/ ScanEnd(p)
  \/ KickError(p) \/ KickMark(p) \/ KickEnd(p) \/ StreamEnd(p) \/ CloseTimeout(p)

\* No loop is under way.
Between == \A p \in Proc : pc[p] \notin Kicking /\ pc'[p] \notin Kicking

\* What a step is to the loops over Clients.
LoopKind ==
  \/ \E p \in Proc : Aside(p) \/ LoopStep(p)
  \/ \E c \in Conn : StoreJid(c)
  \/ Between
  \/ UNCHANGED vars

\* There are no other steps.
LEMMA LoopKinds ==
  ASSUME TypeOK, LockDiscipline, [Next]_vars
  PROVE  LoopKind
<1> USE DEF TypeOK, Goto, Kicking, Aside, registry, session, loop
<1>0. Conn \subseteq Proc /\ Admin \subseteq Proc /\ NoProc \notin Proc
  BY ConstantsAssumption DEF Proc
<1>1. ASSUME NEW c \in Conn, Accept(c) PROVE Aside(c)
  BY <1>0, <1>1 DEF Accept
<1>2. ASSUME NEW c \in Conn, Hello(c) PROVE Aside(c)
  BY <1>0, <1>2 DEF Hello
<1>3. ASSUME NEW c \in Conn, Chat(c) PROVE Aside(c)
  BY <1>0, <1>3 DEF Chat, Take, Arrives
<1>4. ASSUME NEW c \in Conn, StartTLS(c) PROVE Aside(c)
  BY <1>0, <1>4 DEF StartTLS, Arrives
<1>5. ASSUME NEW c \in Conn, TlsUp(c) PROVE Aside(c)
  BY <1>0, <1>5 DEF TlsUp
<1>6. ASSUME NEW c \in Conn, TlsFails(c) PROVE Aside(c)
  BY <1>0, <1>6 DEF TlsFails
<1>7. ASSUME NEW c \in Conn, ReadEnd(c) PROVE Aside(c)
  BY <1>0, <1>7 DEF ReadEnd, Arrives
<1>8. ASSUME NEW c \in Conn, Presence(c) PROVE Aside(c)
  BY <1>0, <1>8 DEF Presence, Take, Arrives
<1>9. ASSUME NEW c \in Conn, ReadError(c) PROVE Aside(c)
  BY <1>0, <1>9 DEF ReadError
<1>10. ASSUME NEW c \in Conn, AnswerEnd(c) PROVE Aside(c)
  BY <1>0, <1>10 DEF AnswerEnd
<1>11. ASSUME NEW c \in Conn, StoreJid(c) PROVE LoopKind
  BY <1>11 DEF LoopKind
<1>12. ASSUME NEW c \in Conn, Welcome(c) PROVE Aside(c)
  BY <1>0, <1>12 DEF Welcome
<1>13. ASSUME NEW c \in Conn, AddClient(c) PROVE Between
  BY <1>0, <1>13 DEF AddClient, Between, LockDiscipline, Critical, Casting
<1>14. ASSUME NEW c \in Conn, Join(c) PROVE Aside(c)
  BY <1>0, <1>14 DEF Join, Acquire, Iterate
<1>15. ASSUME NEW c \in Conn, Leave(c) PROVE Aside(c)
  BY <1>0, <1>15 DEF Leave, Iterate
<1>16. ASSUME NEW c \in Conn, RemoveClient(c) PROVE Aside(c)
  BY <1>0, <1>16 DEF RemoveClient, Acquire, Iterate
<1>17. ASSUME NEW c \in Conn, DropMember(c) PROVE Aside(c)
  BY <1>0, <1>17 DEF DropMember, Iterate
<1>18. ASSUME NEW c \in Conn, DropClient(c) PROVE Between
  BY <1>0, <1>18 DEF DropClient, Between, LockDiscipline, Critical, Casting
<1>19. ASSUME NEW c \in Conn, CloseConn(c) PROVE Aside(c)
  BY <1>0, <1>19 DEF CloseConn
<1>20. ASSUME NEW c \in Conn, NEW j \in Jid, Auth(c, j) PROVE Aside(c)
  BY <1>0, <1>20 DEF Auth, Take, Arrives
<1>21. ASSUME NEW c \in Conn, NEW to \in Targets, Message(c, to) PROVE Aside(c)
  BY <1>0, <1>21 DEF Message, Take, Arrives
<1>22. ASSUME NEW a \in Admin, NEW b \in Targets \cap Bare, AdminKick(a, b) PROVE Aside(a)
  BY <1>0, <1>22 DEF AdminKick
<1>23. ASSUME NEW a \in Admin, NEW to \in Targets \cap Bare, AdminSend(a, to) PROVE Aside(a)
  BY <1>0, <1>23 DEF AdminSend
<1>24. ASSUME NEW p \in Proc, RouteRoom(p) PROVE Aside(p)
  BY <1>0, <1>24 DEF RouteRoom, Iterate
<1>25. ASSUME NEW p \in Proc, RouteUser(p) PROVE Aside(p)
  BY <1>0, <1>25 DEF RouteUser, Acquire, Iterate
<1>26. ASSUME NEW p \in Proc, Cast(p) PROVE Aside(p)
  BY <1>0, <1>26 DEF Cast, Iterate, Casting
<1>27. ASSUME NEW p \in Proc, CastEnd(p) PROVE Aside(p)
  BY <1>0, <1>27 DEF CastEnd, Release, Home, Casting
<1>28. ASSUME NEW p \in Proc, LoopStep(p) PROVE LoopKind
  BY <1>28 DEF LoopKind
<1>29. ASSUME UNCHANGED vars PROVE LoopKind
  BY <1>29 DEF LoopKind
<1> HIDE DEF TypeOK, Aside
<1> QED
  BY <1>0, <1>1, <1>2, <1>3, <1>4, <1>5, <1>6, <1>7, <1>8, <1>9, <1>10, <1>11, <1>12, <1>13, <1>14, <1>15, <1>16, <1>17, <1>18, <1>19, <1>20, <1>21, <1>22, <1>23, <1>24, <1>25, <1>26, <1>27, <1>28, <1>29
  DEF Next, Environment, Request, Lock, Run, Quiescent, LoopKind, LoopStep

\* What is left of a loop, the client it has dealt with apart.
LEMMA ListedRest ==
  ASSUME NEW s \in Seq(Conn), s # << >>, NEW d \in Listed(s), d # Head(s)
  PROVE  d \in Listed(Tail(s))
<1>1. PICK i \in 1 .. Len(s) : d = s[i]
  BY DEF Listed
<1>2. i # 1
  BY <1>1
<1>3. i - 1 \in 1 .. Len(Tail(s)) /\ Tail(s)[i - 1] = s[i] /\ DOMAIN Tail(s) = 1 .. Len(Tail(s))
  BY <1>1, <1>2
<1> QED BY <1>1, <1>3 DEF Listed

\* The sessions a loop passes over are settled and stay so until it ends.
LEMMA ScanStep == IInv /\ ScanInv /\ LoopKind => ScanInv'
<1> SUFFICES ASSUME IInv, ScanInv, LoopKind, NEW c \in Conn, pc'[c] \in Kicking
             PROVE  Passed(c)'
  BY DEF ScanInv
<1>0. /\ Conn \subseteq Proc /\ NoProc \notin Proc /\ c \in Proc
      /\ pc \in [Proc -> Places] /\ todo \in [Proc -> Seq(Conn)]
      /\ jid \in [Conn -> Jid \cup {NoJid}] /\ streamClosed \in [Conn -> BOOLEAN]
      /\ clients \in Seq(Conn) /\ Listed(clients) \subseteq Conn
  BY ConstantsAssumption DEF Proc, IInv, TypeOK, Listed
<1>1. pc[c] \in Kicking => Passed(c)
  BY DEF ScanInv
<1>2. ASSUME NEW p \in Proc, pc[c] \in Kicking, lock = NoProc PROVE FALSE
  BY <1>0, <1>2 DEF IInv, LockDiscipline, Critical
<1>3. ASSUME NEW p \in Proc, Aside(p) PROVE Passed(c)'
  <2>1. /\ c # p /\ pc'[c] = pc[c] /\ todo'[c] = todo[c]
        /\ \A d \in Conn : pc[d] \in {"store", "login"} => pc'[d] = pc[d]
        /\ UNCHANGED <<clients, jid, streamClosed>>
    BY <1>0, <1>3 DEF Aside
  <2> QED BY <1>0, <1>1, <2>1 DEF Passed, SameUser, Settled
<1>4. ASSUME NEW p \in Conn, StoreJid(p) PROVE Passed(c)'
  <2>1. /\ c # p /\ pc'[c] = pc[c] /\ pc[c] \in Kicking
        /\ pc'[p] = "login"
        /\ UNCHANGED <<clients, streamClosed, todo>>
        /\ \A d \in Conn \ {p} : pc'[d] = pc[d] /\ jid'[d] = jid[d]
    BY <1>0, <1>4 DEF StoreJid, Goto, Kicking, registry, loop
  <2>2. \A d \in Conn \ {p} : SameUser(c, d)' <=> SameUser(c, d)
    BY <2>1 DEF SameUser
  <2> QED BY <1>0, <1>1, <2>1, <2>2 DEF Passed, Settled
<1>5. CASE Between
  BY <1>0, <1>5 DEF Between
<1>6. CASE UNCHANGED vars
  BY <1>1, <1>6 DEF vars, Passed, SameUser, Settled
<1>7. ASSUME NEW p \in Proc, LoopStep(p) PROVE Passed(c)'
  <2> USE DEF Goto, registry, session, loop, input
  <2>1. UNCHANGED <<clients, jid>> /\ \A d \in Conn : SameUser(c, d)' <=> SameUser(c, d)
    <3>1. UNCHANGED <<clients, jid>>
      BY <1>7 DEF LoopStep, KickLock, ScanHit, ScanMiss, ScanEnd, KickError, KickMark, KickEnd, StreamEnd, CloseTimeout
    <3> QED BY <3>1 DEF SameUser
  <2>2. ASSUME pc[p] # "login" PROVE \A d \in Conn : Settled(d) => Settled(d)'
    <3> SUFFICES ASSUME NEW d \in Conn, Settled(d) PROVE Settled(d)'
      OBVIOUS
    <3>1. d # p \/ streamClosed[d]
      BY <1>7, <2>2 DEF Settled, LoopStep, KickLock, ScanHit, ScanMiss, ScanEnd, KickError, KickMark, KickEnd, StreamEnd, CloseTimeout
    <3> QED BY <1>0, <1>7, <2>2, <3>1 DEF Settled, LoopStep, KickLock, ScanHit, ScanMiss, ScanEnd, KickError, KickMark, KickEnd, StreamEnd, CloseTimeout
  <2>3. CASE KickLock(p)
    <3>1. pc' = [pc EXCEPT ![p] = "scan"] /\ todo' = [todo EXCEPT ![p] = clients] /\ lock = NoProc
      BY <2>3 DEF KickLock, Acquire, Iterate
    <3>2. c = p
      BY <1>0, <1>2, <3>1
    <3>3. todo'[c] = clients /\ pc'[c] = "scan"
      BY <1>0, <3>1, <3>2
    <3> QED BY <2>1, <3>3 DEF Passed
  <2>4. ASSUME ~KickLock(p) PROVE pc[p] \in Kicking /\ c = p /\ pc[c] # "login"
    <3>1. pc[p] \in Kicking
      BY <1>7, <2>4 DEF LoopStep, ScanHit, ScanMiss, ScanEnd, KickError, KickMark, KickEnd, StreamEnd, CloseTimeout, Kicking
    <3>2. lock = p
      BY <3>1 DEF IInv, LockDiscipline, Critical
    <3>3. \A q \in Proc \ {p} : pc[q] \notin Kicking
      BY <1>0, <3>2 DEF IInv, LockDiscipline, Critical
    <3>4. \A q \in Proc \ {p} : pc'[q] = pc[q] \/ pc'[q] = "exit"
      BY <1>0, <1>7, <2>4 DEF LoopStep, ScanHit, ScanMiss, ScanEnd, KickError, KickMark, KickEnd, StreamEnd, CloseTimeout
    <3>5. "exit" \notin Kicking /\ "login" \notin Kicking
      BY DEF Kicking
    <3> QED BY <1>0, <3>1, <3>3, <3>4, <3>5
  <2>5. CASE ScanHit(p) \/ KickError(p)
    <3>1. c = p /\ todo' = todo /\ streamClosed' = streamClosed /\ pc'[c] \in {"kickErr", "kickMark"} /\ pc[c] # "login"
      BY <1>0, <2>4, <2>5 DEF ScanHit, KickError, KickLock
    <3> QED BY <1>0, <1>1, <2>1, <2>2, <2>4, <2>5, <3>1 DEF Passed, KickLock, ScanHit, KickError
  <2>6. CASE ScanMiss(p)
    <3>1. /\ pc[p] = "scan" /\ c = p /\ pc' = pc /\ streamClosed' = streamClosed /\ todo[c] # << >>
          /\ todo'[c] = Tail(todo[c])
          /\ \E j \in JidSeen(Head(todo[c])) : ~KickMatch(c, j)
      BY <1>0, <2>4, <2>6 DEF ScanMiss, KickLock, Iterate
    <3>2. Head(todo[c]) \in Conn
      BY <1>0, <3>1
    <3>3. SameUser(c, Head(todo[c])) => Settled(Head(todo[c]))
      BY <3>1, <3>2 DEF JidSeen, KickMatch, SameUser, SameFold, Settled
    <3>4. \A d \in Conn : Settled(d)' <=> Settled(d)
      BY <3>1 DEF Settled
    <3>5. \A d \in Listed(todo[c]) : d = Head(todo[c]) \/ d \in Listed(Tail(todo[c]))
      BY <1>0, <3>1, ListedRest
    <3> QED BY <1>0, <1>1, <2>1, <3>1, <3>3, <3>4, <3>5 DEF Passed, Kicking
  <2>7. CASE ScanEnd(p)
    <3>1. pc'[p] \notin Kicking
      BY <1>0, <2>7 DEF ScanEnd, Kicking
    <3> QED BY <2>4, <2>7, <3>1 DEF ScanEnd, KickLock
  <2>8. CASE KickMark(p)
    <3>1. /\ pc[p] = "kickMark" /\ c = p /\ todo' = todo /\ pc'[c] = "kickEnd" /\ todo[c] # << >>
          /\ streamClosed' = [streamClosed EXCEPT ![Head(todo[c])] = TRUE]
      BY <1>0, <2>4, <2>8 DEF KickMark, KickLock, IInv, TargetInv, Kicking
    <3>2. streamClosed'[Head(todo[c])]
      BY <1>0, <3>1
    <3> QED BY <1>0, <1>1, <2>1, <2>2, <3>1, <3>2 DEF Passed, Kicking
  <2>9. CASE KickEnd(p)
    <3>1. /\ pc[p] = "kickEnd" /\ c = p /\ todo' = todo /\ streamClosed' = streamClosed
      BY <1>0, <2>4, <2>9 DEF KickEnd, KickLock
    <3> QED BY <1>0, <1>1, <2>1, <2>2, <3>1 DEF Passed, Kicking
  <2>10. CASE StreamEnd(p) \/ CloseTimeout(p)
    <3>1. /\ pc[p] = "kickWait" /\ c = p /\ streamClosed' = streamClosed /\ todo[c] # << >>
          /\ todo'[c] = Tail(todo[c]) /\ pc'[c] \in {"scan", "exit"}
      BY <1>0, <2>4, <2>10 DEF StreamEnd, CloseTimeout, KickLock, Iterate, IInv, TargetInv, Kicking
    <3>2. Settled(Head(todo[c])) /\ Head(todo[c]) \in Conn
      BY <1>0, <1>1, <3>1 DEF Passed, Settled, Kicking
    <3>3. \A d \in Listed(todo[c]) : d = Head(todo[c]) \/ d \in Listed(Tail(todo[c]))
      BY <1>0, <3>1, ListedRest
    <3> QED BY <1>0, <1>1, <2>1, <2>2, <3>1, <3>2, <3>3 DEF Passed, Kicking
  <2> QED BY <1>7, <2>3, <2>5, <2>6, <2>7, <2>8, <2>9, <2>10 DEF LoopStep
<1> QED BY <1>3, <1>4, <1>5, <1>6, <1>7 DEF LoopKind

-----------------------------------------------------------------------------
(* The theorems.                                                           *)

\* The inductive invariant.
RInv == IInv /\ ParkedInv /\ AuthInv /\ CastInv

\* It holds in every reachable state.
LEMMA RInvAlways == Spec => []RInv
<1>1. Init => RInv
  <2>1. ASSUME Init PROVE ParkedInv /\ AuthInv /\ CastInv
    <3>1. \A p \in Proc : pc[p] = "new" \/ pc[p] = "ready"
      BY <2>1 DEF Init
    <3> QED BY <3>1 DEF ParkedInv, AuthInv, CastInv, Registering, Casting, Proc
  <2> QED BY <2>1, InitInv DEF RInv
<1>2. RInv /\ [Next]_vars => RInv'
  BY InvStep, ParkedStep, AuthStep, CastStep DEF RInv, IInv
<1> QED BY <1>1, <1>2, PTL DEF Spec

\* A handler that waits on streamEnd has been kicked: somebody receives, or its
\* socket is closed.
THEOREM NobodyParksAlone == Spec => []ParkedWasKicked
<1>1. RInv => ParkedWasKicked
  BY DEF RInv, IInv, ParkedInv, KickedIsClosed, ParkedWasKicked, Proc
<1> QED BY <1>1, RInvAlways, PTL

\* No slice changes under a loop that ranges over it.
THEOREM LoopsAreSafe == Spec => []LoopsSeeTheList
<1>1. RInv => LoopsSeeTheList
  <2> SUFFICES ASSUME RInv, NEW p \in Proc, pc[p] \in Critical
               PROVE  Listed(todo[p]) \subseteq RangedOver(p)
    BY DEF LoopsSeeTheList
  <2>1. CASE pc[p] \in Kicking
    BY <2>1 DEF RInv, IInv, KickInv, RangedOver
  <2>2. CASE pc[p] = "userCast"
    BY <2>2 DEF RInv, CastInv, RangedOver, Kicking
  <2>3. CASE pc[p] \in Casting \ {"userCast"}
    <3>1. pc[p] \notin Kicking /\ pc[p] # "userCast"
      BY <2>3 DEF Casting, Kicking
    <3>2. RangedOver(p) = Listed(MembersAt(idx[p]))
      BY <3>1 DEF RangedOver
    <3> QED BY <2>3, <3>2 DEF RInv, CastInv
  <2> QED BY <2>1, <2>2, <2>3 DEF Critical
<1> QED BY <1>1, RInvAlways, PTL

\* When a login is over, every other registered session of its user has been
\* kicked or is at a login that will run the same loop (handleIq): a kick by
\* full scan under the mutex misses none, whatever the sessions do meanwhile.
THEOREM LoginsSettle == Spec => ConflictResolved
<1>1. Init => ScanInv
  <2> SUFFICES ASSUME Init, NEW c \in Conn PROVE pc[c] \notin Kicking
    BY DEF ScanInv
  <2> QED BY DEF Init, Proc, Kicking
<1>2. IInv /\ ScanInv /\ [Next]_vars => ScanInv'
  BY LoopKinds, ScanStep DEF IInv
<1>3. Spec => [](IInv /\ ScanInv)
  BY <1>1, <1>2, InitInv, InvStep, PTL DEF Spec
<1>4. ASSUME IInv, ScanInv, [Next]_vars, NEW c \in Conn, pc[c] = "scan", pc'[c] = "welcome",
             NEW d \in Listed(clients), SameUser(c, d)
      PROVE  streamClosed[d] \/ pc[d] \in {"store", "login"}
  <2>0. Conn \subseteq Proc /\ pc \in [Proc -> Places] /\ c \in Proc
    BY <1>4 DEF Proc, IInv, TypeOK
  <2>1. PICK p \in Proc : LoopStep(p)
    <3>1. LoopKind
      BY <1>4, LoopKinds DEF IInv
    <3>2. ASSUME NEW p \in Proc, Aside(p) PROVE FALSE
      BY <1>4, <2>0, <3>2 DEF Aside, Kicking
    <3>3. ASSUME NEW p \in Conn, StoreJid(p) PROVE FALSE
      BY <1>4, <2>0, <3>3 DEF StoreJid, Goto
    <3>4. ~Between /\ ~UNCHANGED vars
      BY <1>4, <2>0 DEF Between, Kicking, vars
    <3> QED BY <3>1, <3>2, <3>3, <3>4 DEF LoopKind
  <2>2. todo[c] = << >>
    <3>1. ScanEnd(p)
      BY <1>4, <2>0, <2>1 DEF LoopStep, KickLock, ScanHit, ScanMiss, ScanEnd, KickError, KickMark, KickEnd, StreamEnd, CloseTimeout, Goto
    <3>2. p = c
      BY <1>4, <2>0, <3>1 DEF ScanEnd, Goto
    <3> QED BY <3>1, <3>2 DEF ScanEnd
  <2>3. Listed(todo[c]) = {}
    BY <2>2 DEF Listed
  <2> QED BY <1>4, <2>3 DEF ScanInv, Passed, Settled, Kicking
<1>5. IInv /\ ScanInv /\ [Next]_vars =>
        [\A c \in Conn : pc[c] = "scan" /\ pc'[c] = "welcome" =>
           \A d \in Listed(clients) :
             SameUser(c, d) => streamClosed[d] \/ pc[d] \in {"store", "login"}]_vars
  BY <1>4
<1> QED BY <1>3, <1>5, PTL DEF Spec, ConflictResolved

\* Every step of the handlers and of the API is one step of the roster or none.
THEOREM RosterRefined == Spec => ImplementsRoster
<1>1. Init => R!RosterInit
  <2> SUFFICES ASSUME Init PROVE R!RosterInit
    OBVIOUS
  <2>1. TypeOK
    BY InitInv DEF IInv
  <2>2. Online = {} /\ Inside = [k \in Keys |-> {}] /\ Known = {} /\ Gone = {}
    BY DEF Init, Online, Inside, Known, Gone, Member, Listed, Proc
  <2> QED BY <2>1, <2>2, Mapping DEF R!RosterInit, Known, Gone, Mapped, Keys
<1>2. RInv /\ [Next]_vars => [R!RosterNext]_(R!rvars)
  BY RosterStep DEF RInv
<1> QED BY <1>1, <1>2, RInvAlways, PTL DEF Spec, ImplementsRoster, R!RosterSpec
=============================================================================
