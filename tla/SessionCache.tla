---------------------------- MODULE SessionCache ----------------------------
(***************************************************************************)
(* lruSessionCache (src/tls/common.go) and the clients that share it: the  *)
(* goroutines of several connections, each of which looks its session up   *)
(* in loadSession, makes its handshake, and puts a new session or nil.     *)
(* The mutex makes each Get and each Put one step; a handshake lies        *)
(* between them.                                                           *)
(*                                                                         *)
(* The list of the cache holds elements, pointers that the map shares; an  *)
(* element is reused when its entry is evicted.                            *)
(***************************************************************************)
EXTENDS Nil, Naturals, SequencesExt

CONSTANTS
  Clients,      \* goroutines with a connection each
  Keys,         \* cache keys, the names of servers
  Capacity,
  MaxSessions   \* bound: sessions ever established

ASSUME CapacityAssumption == Capacity \in Nat \ {0}

VARIABLES
  m,        \* the map: key to element
  q,        \* the list of elements, the most recent first
  entry,    \* what the elements hold
  at, key, session,  \* of each client: where it is, its key, the session it got
  count,    \* sessions so far
  recent,   \* history: the keys Put and Get promise to keep, by their last use
  strayed   \* history: nil was put for a key that the cache did not have

cache == <<m, q, entry, recent, strayed>>
cacheVars == <<cache, at, key, session, count>>

Elements == 1 .. Capacity

CacheInit ==
  /\ m = <<>> /\ q = <<>>
  /\ entry = [e \in Elements |-> [key |-> None, state |-> None]]
  /\ at = [c \in Clients |-> "idle"]
  /\ key = [c \in Clients |-> None]
  /\ session = [c \in Clients |-> None]
  /\ count = 0 /\ recent = <<>> /\ strayed = FALSE

----------------------------------------------------------------------------
MoveToFront(s, x) == <<x>> \o RemoveFirst(s, x)

\* The key has a session; the cache also keeps keys with nil.
Live(k) == k \in DOMAIN m /\ entry[m[k]].state # None

\* What the comment of Put and the name of the cache promise: a session is the
\* most recent one, and the least recent is given up for it; nil removes the
\* entry of its key.
AtMost(n, s) == IF Len(s) <= n THEN s ELSE SubSeq(s, 1, n)

Promised(k, cs) ==
  IF cs = None THEN RemoveFirst(recent, k)
  ELSE AtMost(Capacity, MoveToFront(recent, k))

\* Put of a key that the map has.
Replace(k, cs) ==
  /\ k \in DOMAIN m
  /\ IF cs = None
     THEN /\ q' = RemoveFirst(q, m[k])
          /\ m' = [j \in DOMAIN m \ {k} |-> m[j]]
          /\ UNCHANGED entry
     ELSE /\ entry' = [entry EXCEPT ![m[k]].state = cs]
          /\ q' = MoveToFront(q, m[k])
          /\ UNCHANGED m

\* Put of a key that is new, while there is room: a new element, for nil too.
Insert(k, cs) ==
  /\ k \notin DOMAIN m /\ Len(q) < Capacity
  /\ LET e == CHOOSE x \in Elements : x \notin ToSet(q)
     IN  /\ entry' = [entry EXCEPT ![e] = [key |-> k, state |-> cs]]
         /\ q' = <<e>> \o q
         /\ m' = [j \in DOMAIN m \cup {k} |-> IF j = k THEN e ELSE m[j]]

\* Faulty: the map keeps the evicted key.
EvictKeyKept(k, cs) ==
  /\ k \notin DOMAIN m /\ Len(q) >= Capacity
  /\ LET e == Last(q)
     IN  /\ entry' = [entry EXCEPT ![e] = [key |-> k, state |-> cs]]
         /\ q' = MoveToFront(q, e)
         /\ m' = [j \in DOMAIN m \cup {k} |-> IF j = k THEN e ELSE m[j]]

\* Faulty: the element stays at the end of the list.
EvictInPlace(k, cs) ==
  /\ k \notin DOMAIN m /\ Len(q) >= Capacity
  /\ LET e == Last(q)
     IN  /\ entry' = [entry EXCEPT ![e] = [key |-> k, state |-> cs]]
         /\ m' = [j \in (DOMAIN m \ {entry[e].key}) \cup {k} |-> IF j = k THEN e ELSE m[j]]
  /\ UNCHANGED q

\* Put of a key that is new, at capacity: the last element changes hands, for
\* nil too.
Evict(k, cs) ==
  /\ k \notin DOMAIN m /\ Len(q) >= Capacity
  /\ LET e == Last(q)
     IN  /\ entry' = [entry EXCEPT ![e] = [key |-> k, state |-> cs]]
         /\ q' = MoveToFront(q, e)
         /\ m' = [j \in (DOMAIN m \ {entry[e].key}) \cup {k} |-> IF j = k THEN e ELSE m[j]]

Put(k, cs) ==
  /\ Replace(k, cs) \/ Insert(k, cs) \/ Evict(k, cs)
  /\ recent' = Promised(k, cs)
  /\ strayed' = (strayed \/ (cs = None /\ k \notin DOMAIN m))

----------------------------------------------------------------------------
(***************************************************************************)
(* The clients.                                                            *)
(***************************************************************************)
\* loadSession: Get.
LoadHit(c, k) ==
  /\ at[c] = "idle" /\ k \in DOMAIN m
  /\ q' = MoveToFront(q, m[k])
  /\ recent' = IF Live(k) THEN MoveToFront(recent, k) ELSE recent
  /\ key' = [key EXCEPT ![c] = k]
  /\ session' = [session EXCEPT ![c] = entry[m[k]].state]
  /\ at' = [at EXCEPT ![c] = "loaded"]
  /\ UNCHANGED <<m, entry, strayed, count>>

LoadMiss(c, k) ==
  /\ at[c] = "idle" /\ k \notin DOMAIN m
  /\ key' = [key EXCEPT ![c] = k]
  /\ session' = [session EXCEPT ![c] = None]
  /\ at' = [at EXCEPT ![c] = "handshake"]
  /\ UNCHANGED <<cache, count>>

\* The session is good enough to offer, or it cannot be used this time.
Offer(c) ==
  /\ at[c] = "loaded"
  /\ session' \in {session, [session EXCEPT ![c] = None]}
  /\ at' = [at EXCEPT ![c] = "handshake"]
  /\ UNCHANGED <<cache, key, count>>

\* It has expired.
Discard(c) ==
  /\ at[c] = "loaded" /\ session[c] # None
  /\ Put(key[c], None)
  /\ session' = [session EXCEPT ![c] = None]
  /\ at' = [at EXCEPT ![c] = "handshake"]
  /\ UNCHANGED <<key, count>>

\* A handshake that succeeds, with a ticket or without: the new session is put
\* at its end, in TLS 1.3 when the ticket is read.
Establish(c) ==
  /\ at[c] = "handshake" /\ count < MaxSessions
  /\ count' = count + 1
  /\ Put(key[c], [of |-> key[c], n |-> count'])
  /\ at' = [at EXCEPT ![c] = "idle"]
  /\ UNCHANGED <<key, session>>

EstablishPlain(c) ==
  /\ at[c] = "handshake"
  /\ at' = [at EXCEPT ![c] = "idle"]
  /\ UNCHANGED <<cache, key, session, count>>

\* Faulty variant of Fail: whether a session was offered is not looked at.
FailAlways(c) ==
  /\ at[c] = "handshake"
  /\ Put(key[c], None)
  /\ at' = [at EXCEPT ![c] = "idle"]
  /\ UNCHANGED <<key, session, count>>

\* A handshake that fails: the deferred Put of clientHandshake.
Fail(c) ==
  /\ at[c] = "handshake"
  /\ IF session[c] # None THEN Put(key[c], None) ELSE UNCHANGED cache
  /\ at' = [at EXCEPT ![c] = "idle"]
  /\ UNCHANGED <<key, session, count>>

CacheNext == \E c \in Clients :
  \/ \E k \in Keys : LoadHit(c, k) \/ LoadMiss(c, k)
  \/ Offer(c) \/ Discard(c) \/ Establish(c) \/ EstablishPlain(c) \/ Fail(c)

CacheSpec == CacheInit /\ [][CacheNext]_cacheVars

----------------------------------------------------------------------------
(***************************************************************************)
(* Properties.                                                             *)
(***************************************************************************)
\* The variables have their types.
CacheTypeOK ==
  /\ DOMAIN m \subseteq Keys /\ \A k \in DOMAIN m : m[k] \in Elements
  /\ q \in Seq(Elements)
  /\ entry \in [Elements -> [key : Keys \cup {None}, state : [of : Keys, n : Nat] \cup {None}]]
  /\ at \in [Clients -> {"idle", "loaded", "handshake"}]
  /\ key \in [Clients -> Keys \cup {None}]
  /\ session \in [Clients -> [of : Keys, n : Nat] \cup {None}]
  /\ count \in Nat
  /\ recent \in Seq(Keys) /\ strayed \in BOOLEAN
  /\ \A c \in Clients : at[c] # "idle" => key[c] \in Keys

\* "An LRU caching strategy": the sessions of the cache are the ones it promises
\* to keep, in the order of their last use, whichever of the clients used them;
\* and the map leads to the same elements as the list, each under the key of its
\* entry. A nil put for a key that is not there takes a place of its own, and
\* costs the least recent sessions; no other session is lost to it.
KeepsMostRecent ==
  /\ Len(q) <= Capacity /\ ToSet(q) = {m[k] : k \in DOMAIN m}
  /\ \A k \in DOMAIN m : entry[m[k]].key = k
  /\ \E n \in 0 .. Len(recent) :
       /\ \A k \in Keys : Live(k) <=> \E i \in 1 .. n : recent[i] = k
       /\ strayed \/ n = Len(recent)
  /\ \A a, b \in DOMAIN q : a < b =>
       \A i, j \in DOMAIN recent :
         entry[q[a]].key = recent[i] /\ entry[q[b]].key = recent[j] => i < j

\* To "throw away the session ticket" of a handshake that failed, or a session that
\* has expired, costs the cache the client's own session, or a newer one of
\* the same server, which another client has put meanwhile, and no other session,
\* unless the entry has gone.  Then nil is put as a new entry, in the place of
\* another server's session.
LosesNoOther ==
  [][\A c \in Clients : Discard(c) \/ Fail(c) =>
       \A k \in Keys : Live(k) /\ ~Live(k)' =>
         /\ session[c] # None
         /\ \/ key[c] \notin DOMAIN m
            \/ k = key[c] /\ entry[m[k]].state.n >= session[c].n]_cacheVars

\* A session is offered to the server it was established with and to no other,
\* although elements change hands between a client's Get and its Put.
OfferedToItsServer == \A c \in Clients : session[c] # None => session[c].of = key[c]
=============================================================================
