----------------------------- MODULE TicketKeys -----------------------------
(***************************************************************************)
(* The session ticket keys of two configurations (src/tls/common.go): the  *)
(* one given to Server, and the one that GetConfigForClient returns, which *)
(* may be a Clone of the first.  Handshakes of several connections, Clone  *)
(* and SetSessionTicketKeys run concurrently; serverInit runs once per     *)
(* configuration (sync.Once) and reads and writes its fields in steps that *)
(* SetSessionTicketKeys may come between.                                  *)
(*                                                                         *)
(* A key is a number; SessionTicketKey and the ticketKey expanded from it  *)
(* are the same key here.  A read and a write of the keys that race are    *)
(* taken to happen one after the other.                                    *)
(***************************************************************************)
EXTENDS Nil, Naturals, SequencesExt

CONSTANTS
  Goroutines,  \* connections being served, and callers of Clone
  Jobs,        \* what they do: a subset of {"serve", "clone"}
  MaxKeys      \* bound: keys ever made

Original == "original"
Returned == "returned"
Configs  == {Original, Returned}

ASSUME JobsAssumption == Jobs \subseteq {"serve", "clone"}
ASSUME KeysAssumption == MaxKeys \in Nat /\ None \notin Nat \cup Seq(Nat)

VARIABLES
  disabled,  \* SessionTicketsDisabled
  given,     \* SessionTicketKey, None for all zeros
  keys,      \* sessionTicketKeys
  once,      \* serverInitOnce: "new", "running", "done"
  pc, cfg, job,  \* of each goroutine: where it is, its configuration, its job
  made,      \* keys so far
  tickets,   \* history: the configuration and key of the tickets that should still open
  set        \* history: the keys last set by SetSessionTicketKeys

config  == <<disabled, given, keys>>
threads == <<once, pc, cfg, job>>
keysVars == <<config, threads, made, tickets, set>>

\* Each configuration with tickets or without, with a key of its own or none.
KeysInit ==
  /\ disabled \in [Configs -> BOOLEAN]
  /\ given \in {g \in [Configs -> {None, 1, 2}] : g[Original] # 2 /\ g[Returned] # 1}
  /\ keys = [c \in Configs |-> <<>>]
  /\ once = [c \in Configs |-> "new"]
  /\ pc = [g \in Goroutines |-> "idle"]
  /\ cfg = [g \in Goroutines |-> Original]
  /\ job = [g \in Goroutines |-> "serve"]
  /\ made = 2 /\ tickets = {}
  /\ set = [c \in Configs |-> None]

----------------------------------------------------------------------------
(***************************************************************************)
(* serverInit, under serverInitOnce.                                       *)
(***************************************************************************)
Goes(g, to) == pc' = [pc EXCEPT ![g] = to]

\* What the caller of serverInitOnce.Do goes on with.
After(g) ==
  IF cfg[g] = Returned THEN "serve" ELSE IF job[g] = "clone" THEN "copy" ELSE "hello"

\* A connection on the original configuration, or a call of its Clone.
Begin(g) ==
  /\ pc[g] = "idle"
  /\ job' \in {[job EXCEPT ![g] = j] : j \in Jobs}
  /\ cfg' = [cfg EXCEPT ![g] = Original]
  /\ Goes(g, "once")
  /\ UNCHANGED <<config, once, made, tickets, set>>

\* Faulty: whoever comes second does not wait for the first.
OnceEager(g) ==
  /\ pc[g] = "once"
  /\ once' = [once EXCEPT ![cfg[g]] = IF @ = "new" THEN "running" ELSE @]
  /\ Goes(g, IF once[cfg[g]] = "new" THEN "check" ELSE After(g))
  /\ UNCHANGED <<config, cfg, job, made, tickets, set>>

\* Faulty: everyone initialises.
OnceEvery(g) ==
  /\ pc[g] = "once"
  /\ Goes(g, "check")
  /\ UNCHANGED <<config, once, cfg, job, made, tickets, set>>

\* sync.Once: the first caller runs serverInit, the others wait until it is done.
Once(g) ==
  /\ pc[g] = "once" /\ once[cfg[g]] # "running"
  /\ once' = [once EXCEPT ![cfg[g]] = IF @ = "new" THEN "running" ELSE @]
  /\ Goes(g, IF once[cfg[g]] = "new" THEN "check" ELSE After(g))
  /\ UNCHANGED <<config, cfg, job, made, tickets, set>>

InitDone(g) ==
  /\ once' = [once EXCEPT ![cfg[g]] = "done"]
  /\ Goes(g, After(g))

\* Tickets are disabled or the keys are there already.
Check(g) ==
  /\ pc[g] = "check"
  /\ IF disabled[cfg[g]] \/ keys[cfg[g]] # <<>> THEN InitDone(g) ELSE Goes(g, "fill") /\ UNCHANGED once
  /\ UNCHANGED <<config, cfg, job, made, tickets, set>>

\* SessionTicketKey: its own, the original's, or a random one.
Fill(g) ==
  /\ pc[g] = "fill"
  /\ Goes(g, "assign")
  /\ \/ given[cfg[g]] # None /\ UNCHANGED <<given, made>>
     \/ /\ given[cfg[g]] = None /\ cfg[g] = Returned
        /\ given' = [given EXCEPT ![Returned] = given[Original]] /\ UNCHANGED made
     \/ /\ given[cfg[g]] = None /\ cfg[g] = Original /\ made < MaxKeys
        /\ made' = made + 1 /\ given' = [given EXCEPT ![Original] = made']
  /\ UNCHANGED <<disabled, keys, once, cfg, job, tickets, set>>

\* The source of random numbers fails.
FillFails(g) ==
  /\ pc[g] = "fill" /\ given[cfg[g]] = None /\ cfg[g] = Original
  /\ disabled' = [disabled EXCEPT ![Original] = TRUE]
  /\ InitDone(g)
  /\ UNCHANGED <<given, keys, cfg, job, made, tickets, set>>

\* The keys of the original, or the key expanded from SessionTicketKey.
Assign(g) ==
  /\ pc[g] = "assign"
  /\ keys' = [keys EXCEPT ![cfg[g]] = IF cfg[g] = Returned THEN keys[Original] ELSE <<given[Original]>>]
  /\ InitDone(g)
  /\ UNCHANGED <<disabled, given, cfg, job, made, tickets, set>>

----------------------------------------------------------------------------
(***************************************************************************)
(* A connection, and the other methods.                                    *)
(***************************************************************************)
\* GetConfigForClient: nil, or the other configuration.
Hello(g) ==
  /\ pc[g] = "hello"
  /\ \/ Goes(g, "serve") /\ UNCHANGED cfg
     \/ Goes(g, "once") /\ cfg' = [cfg EXCEPT ![g] = Returned]
  /\ UNCHANGED <<config, once, job, made, tickets, set>>

\* The rest of the handshake; encryptTicket takes the first key, and panics
\* when there is none.
Serve(g) ==
  /\ pc[g] = "serve"
  /\ IF disabled[cfg[g]] THEN Goes(g, "idle") /\ UNCHANGED tickets
     ELSE IF keys[cfg[g]] = <<>> THEN Goes(g, "panic") /\ UNCHANGED tickets
     ELSE Goes(g, "idle") /\ tickets' = tickets \cup {[cfg |-> cfg[g], key |-> keys[cfg[g]][1]]}
  /\ UNCHANGED <<config, once, cfg, job, made, set>>

\* Clone, of which the callback makes the configuration it returns, unless it
\* has been returned already.
Copy(g) ==
  /\ pc[g] = "copy"
  /\ IF once[Returned] = "new"
     THEN /\ disabled' = [disabled EXCEPT ![Returned] = disabled[Original]]
          /\ given' = [given EXCEPT ![Returned] = given[Original]]
          /\ keys' = [keys EXCEPT ![Returned] = keys[Original]]
          /\ set' = [set EXCEPT ![Returned] = set[Original]]
     ELSE UNCHANGED <<config, set>>
  /\ Goes(g, "idle")
  /\ UNCHANGED <<once, cfg, job, made, tickets>>

Opens(c, t) == t.key \in ToSet(keys[c])

\* SetSessionTicketKeys with a new key, one of the current ones kept behind it or none.
Set(c) ==
  /\ made < MaxKeys
  /\ made' = made + 1
  /\ \E kept \in {<<>>} \cup {<<k>> : k \in ToSet(keys[c])} : keys' = [keys EXCEPT ![c] = <<made'>> \o kept]
  /\ set' = [set EXCEPT ![c] = keys'[c]]
  /\ tickets' = {t \in tickets : t.cfg = c => t.key \in ToSet(keys'[c])}
  /\ UNCHANGED <<disabled, given, threads>>

Handler(g) ==
  Begin(g) \/ Once(g) \/ Check(g) \/ Fill(g) \/ FillFails(g) \/ Assign(g) \/ Hello(g) \/ Serve(g) \/ Copy(g)

KeysNext == (\E g \in Goroutines : Handler(g)) \/ (\E c \in Configs : Set(c))

KeysSpec == KeysInit /\ [][KeysNext]_keysVars

----------------------------------------------------------------------------
(***************************************************************************)
(* Properties.                                                             *)
(***************************************************************************)
\* The variables have their types.
KeysTypeOK ==
  /\ disabled \in [Configs -> BOOLEAN]
  /\ given \in [Configs -> Nat \cup {None}]
  /\ keys \in [Configs -> Seq(Nat)]
  /\ once \in [Configs -> {"new", "running", "done"}]
  /\ pc \in [Goroutines -> {"idle", "once", "check", "fill", "assign", "hello", "serve", "copy", "panic"}]
  /\ cfg \in [Goroutines -> Configs]
  /\ job \in [Goroutines -> {"serve", "clone"}]
  /\ made \in Nat
  /\ tickets \subseteq [cfg : Configs, key : Nat]
  /\ set \in [Configs -> Seq(Nat) \cup {None}]

\* serverInit of a configuration runs once, in one goroutine, and nobody serves
\* with the configuration before it is done.
InitExclusive ==
  /\ \A g, h \in Goroutines :
       {pc[g], pc[h]} \subseteq {"check", "fill", "assign"} /\ cfg[g] = cfg[h] => g = h
  /\ \A g \in Goroutines : pc[g] \in {"hello", "copy", "serve"} => once[cfg[g]] = "done"

\* Whoever comes to encrypt a ticket finds a key (encryptTicket indexes the
\* keys without a look at their number), unless the configuration was returned
\* for an original whose tickets are disabled.
KeyToEncrypt ==
  \A g \in Goroutines :
    pc[g] \in {"serve", "panic"} /\ ~disabled[cfg[g]] /\ keys[cfg[g]] = <<>> =>
      cfg[g] = Returned /\ disabled[Original]

\* A configuration is served with only after it is initialised, once, and with a
\* key to encrypt tickets with.
KeysReady == InitExclusive /\ KeyToEncrypt

\* A ticket opens at every later handshake with its configuration until
\* SetSessionTicketKeys drops its key, whichever connection initialised it.
TicketsOpen == \A t \in tickets : Opens(t.cfg, t)

\* "It is safe to call this function while the server is running in order to
\* rotate the session ticket keys": the keys stay as they were last set.
KeysStaySet == \A c \in Configs : set[c] # None => keys[c] = set[c]
=============================================================================
