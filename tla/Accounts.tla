------------------------------ MODULE Accounts ------------------------------
(***************************************************************************)
(* The user store (src/db/db.go), the requests of the API that change it   *)
(* and kick (src/api/api.go), and the logins that read it (handleIq in     *)
(* src/xmpp/client.go).  A transaction that was committed outlives a crash *)
(* of the program; logins, sessions and requests do not.                   *)
(*                                                                         *)
(* A section under the server's mutex is one step here; XmppServer has its *)
(* inside, with addresses in several spellings and other kinds of stanzas. *)
(***************************************************************************)
EXTENDS Nil

CONSTANTS
  Sessions,    \* connections, one after the other of each
  Workers,     \* goroutines of the API
  Users,       \* names
  Passwords, Empty

ASSUME AccountsAssumption == Empty \in Passwords /\ None \notin Users

VARIABLES
  users,     \* the bucket, committed: a password for each name, None without one
  phase,     \* of each session: "idle", "read", "kick" in a login
  login,     \* the login under way: name, password given, password read
  jid,       \* XmppClient.JID: the name in it, None before the first login
  with,      \* history: the password the session took its JID with
  authed, listed, closed,   \* authenticated; in Clients; being closed
  request,   \* of each worker: its request, None without one
  kicked,    \* history: names kicked since they last changed
  underway   \* history: for each name, sessions the last kick could not find

sessions    == <<phase, login, jid, with, authed, listed, closed>>
history     == <<kicked, underway>>
accountVars == <<users, sessions, request, history>>

NoLogin == [name |-> None, given |-> Empty, stored |-> Empty]

AccountsInit ==
  /\ users \in [Users -> Passwords \cup {None}]
  /\ phase = [s \in Sessions |-> "idle"] /\ login = [s \in Sessions |-> NoLogin]
  /\ jid = [s \in Sessions |-> None] /\ with = [s \in Sessions |-> Empty]
  /\ authed = [s \in Sessions |-> FALSE] /\ listed = [s \in Sessions |-> FALSE]
  /\ closed = [s \in Sessions |-> FALSE]
  /\ request = [w \in Workers |-> None]
  /\ kicked = {} /\ underway = [n \in Users |-> {}]

\* What GetUser makes of a name: nil, which equals "", when there is none.
PasswordOf(n) == IF users[n] = None THEN Empty ELSE users[n]

----------------------------------------------------------------------------
(***************************************************************************)
(* Logins and sessions.                                                    *)
(***************************************************************************)
GetUser(s, n, given) ==
  /\ phase[s] = "idle"
  /\ login' = [login EXCEPT ![s] = [name |-> n, given |-> given, stored |-> PasswordOf(n)]]
  /\ phase' = [phase EXCEPT ![s] = "read"]
  /\ UNCHANGED <<users, jid, with, authed, listed, closed, request, history>>

\* bytes.Equal; the JID is stored before the mutex is taken.
Compare(s) ==
  /\ phase[s] = "read"
  /\ IF login[s].given = login[s].stored
     THEN /\ jid' = [jid EXCEPT ![s] = login[s].name]
          /\ with' = [with EXCEPT ![s] = login[s].given]
          /\ phase' = [phase EXCEPT ![s] = "kick"]
     ELSE phase' = [phase EXCEPT ![s] = "idle"] /\ UNCHANGED <<jid, with>>
  /\ login' = [login EXCEPT ![s] = NoLogin]
  /\ UNCHANGED <<users, authed, listed, closed, request, history>>

Found(n) == {q \in Sessions : listed[q] /\ jid[q] = n}

Close(found) == closed' = [q \in Sessions |-> closed[q] \/ q \in found]

\* The sessions of the user that are listed are closed, this one included.
Conflict(s) ==
  /\ phase[s] = "kick"
  /\ Close(Found(jid[s]))
  /\ authed' = [authed EXCEPT ![s] = TRUE]
  /\ phase' = [phase EXCEPT ![s] = "idle"]
  /\ UNCHANGED <<users, login, jid, with, listed, request, history>>

Available(s) ==
  /\ phase[s] = "idle" /\ authed[s]
  /\ listed' = [listed EXCEPT ![s] = TRUE]
  /\ UNCHANGED <<users, phase, login, jid, with, authed, closed, request, history>>

\* The handler returns, and its place is taken by a new connection.
Leave(s) ==
  /\ phase[s] = "idle"
  /\ jid' = [jid EXCEPT ![s] = None] /\ with' = [with EXCEPT ![s] = Empty]
  /\ authed' = [authed EXCEPT ![s] = FALSE] /\ listed' = [listed EXCEPT ![s] = FALSE]
  /\ closed' = [closed EXCEPT ![s] = FALSE]
  /\ underway' = [n \in Users |-> underway[n] \ {s}]
  /\ UNCHANGED <<users, phase, login, request, kicked>>

----------------------------------------------------------------------------
(***************************************************************************)
(* Requests.                                                               *)
(***************************************************************************)
\* A valid request: a user with a password, no user, or a kick.
Request(w) ==
  /\ request[w] = None
  /\ \E n \in Users :
       \/ \E p \in Passwords \cup {None} : request' = [request EXCEPT ![w] = [put |-> TRUE, name |-> n, password |-> p]]
       \/ request' = [request EXCEPT ![w] = [put |-> FALSE, name |-> n, password |-> None]]
  /\ UNCHANGED <<users, sessions, history>>

\* UpsertUser or DeleteUser: one transaction.  Whoever is logged in stays.
Commit(w) ==
  /\ request[w] # None /\ request[w].put
  /\ users' = [users EXCEPT ![request[w].name] = request[w].password]
  /\ kicked' = kicked \ {request[w].name}
  /\ request' = [request EXCEPT ![w] = None]
  /\ UNCHANGED <<sessions, underway>>

\* Logins of the user, and sessions that have not become available.
Unlisted(n) ==
  {s \in Sessions : (phase[s] = "read" /\ login[s].name = n) \/ (jid[s] = n /\ ~listed[s])}

\* Faulty: the loop ends at the first session of the user.
KickFirst(w) ==
  /\ request[w] # None /\ ~request[w].put
  /\ LET n == request[w].name
     IN  /\ IF Found(n) = {} THEN UNCHANGED closed ELSE Close({CHOOSE s \in Found(n) : TRUE})
         /\ kicked' = kicked \cup {n}
         /\ underway' = [underway EXCEPT ![n] = Unlisted(n)]
  /\ request' = [request EXCEPT ![w] = None]
  /\ UNCHANGED <<users, phase, login, jid, with, authed, listed>>

\* kickUser.
Kick(w) ==
  /\ request[w] # None /\ ~request[w].put
  /\ LET n == request[w].name
     IN  /\ Close(Found(n))
         /\ kicked' = kicked \cup {n}
         /\ underway' = [underway EXCEPT ![n] = Unlisted(n)]
  /\ request' = [request EXCEPT ![w] = None]
  /\ UNCHANGED <<users, phase, login, jid, with, authed, listed>>

\* The program ends and is started again.
Restart ==
  /\ phase' = [s \in Sessions |-> "idle"] /\ login' = [s \in Sessions |-> NoLogin]
  /\ jid' = [s \in Sessions |-> None] /\ with' = [s \in Sessions |-> Empty]
  /\ authed' = [s \in Sessions |-> FALSE] /\ listed' = [s \in Sessions |-> FALSE]
  /\ closed' = [s \in Sessions |-> FALSE]
  /\ request' = [w \in Workers |-> None]
  /\ underway' = [n \in Users |-> {}]
  /\ UNCHANGED <<users, kicked>>

AccountsNext ==
  \/ \E s \in Sessions :
       \/ \E n \in Users, p \in Passwords : GetUser(s, n, p)
       \/ Compare(s) \/ Conflict(s) \/ Available(s) \/ Leave(s)
  \/ \E w \in Workers : Request(w) \/ Commit(w) \/ Kick(w)
  \/ Restart

AccountsSpec == AccountsInit /\ [][AccountsNext]_accountVars

----------------------------------------------------------------------------
(***************************************************************************)
(* Properties.                                                             *)
(***************************************************************************)
\* A kick that follows a change of the user leaves no session behind that had
\* logged in with another password, except one the kick could not find because
\* its login was under way or it had not become available: a login reads the
\* store before it takes the mutex, and is not looked at again.
KickFollowsChange ==
  \A n \in kicked : \A s \in Sessions :
    listed[s] /\ jid[s] = n /\ ~closed[s] => with[s] = PasswordOf(n) \/ s \in underway[n]
=============================================================================
