------------------------------- MODULE Roster -------------------------------
(***************************************************************************)
(* What the server's registry promises to those who look at it under the   *)
(* mutex: who is online, and who is in which room.  A session becomes known *)
(* by logging in, appears, enters and leaves rooms, and vanishes from all  *)
(* of them in one step, for good.  Rooms whose addresses differ in case    *)
(* only are one room.  Locks, sockets, kicks and loops do not appear.      *)
(***************************************************************************)
CONSTANTS
  Session,  \* the sessions there may be
  RoomKey   \* the rooms there may be, by case-folded address

VARIABLES
  known,    \* sessions that have logged in
  online,   \* sessions that are available
  inside,   \* the sessions in each room
  gone      \* sessions that have ended

rvars == <<known, online, inside, gone>>

RosterInit ==
  /\ known = {}
  /\ online = {}
  /\ inside = [k \in RoomKey |-> {}]
  /\ gone = {}

Login(s) ==
  /\ s \notin gone
  /\ known' = known \cup {s}
  /\ UNCHANGED <<online, inside, gone>>

Appear(s) ==
  /\ s \in known \ gone
  /\ online' = online \cup {s}
  /\ UNCHANGED <<known, inside, gone>>

Enter(s, k) ==
  /\ s \in known \ gone
  /\ inside' = [inside EXCEPT ![k] = @ \cup {s}]
  /\ UNCHANGED <<known, online, gone>>

Depart(s, k) ==
  /\ s \in known \ gone
  /\ inside' = [inside EXCEPT ![k] = @ \ {s}]
  /\ UNCHANGED <<known, online, gone>>

Vanish(s) ==
  /\ s \notin gone
  /\ gone' = gone \cup {s}
  /\ online' = online \ {s}
  /\ inside' = [k \in RoomKey |-> inside[k] \ {s}]
  /\ UNCHANGED known

RosterNext ==
  \E s \in Session :
    \/ Login(s) \/ Appear(s) \/ Vanish(s)
    \/ \E k \in RoomKey : Enter(s, k) \/ Depart(s, k)

RosterSpec == RosterInit /\ [][RosterNext]_rvars
=============================================================================
