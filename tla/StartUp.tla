------------------------------ MODULE StartUp ------------------------------
(***************************************************************************)
(* What main (src/main.go) does before it serves: the configuration file   *)
(* it generates and reads, the address it listens on, the certificate that *)
(* certgen generates and it loads, the database.  Processes are started in *)
(* one directory, may be killed between any two system calls or find the   *)
(* disk full, and are started again; the files stay as they are.           *)
(*                                                                         *)
(* A PEM file is None when there is none, Torn when it is created but not  *)
(* fully written, else a number; a key and its certificate have the same   *)
(* one.  (What the operating system loses in a crash of its own is not     *)
(* modelled.)                                                              *)
(***************************************************************************)
EXTENDS Nil, Naturals

CONSTANTS
  Processes,
  MaxPairs     \* bound: keys ever generated

ASSUME PairsAssumption == MaxPairs \in Nat /\ None \notin Nat \cup {"made", "given"}

Torn == 0

\* The configuration the program writes, with a certificate of its own making,
\* and an operator's, with a certificate he has.
Written == [addr |-> TRUE, files |-> "generated"]
ByHand  == [addr |-> TRUE, files |-> "operators"]

\* What is left of a file is cut somewhere: the address comes before the domain.
Truncated == {Written, [addr |-> TRUE, files |-> "unnamed"], [addr |-> FALSE, files |-> "unnamed"]}

\* What toml.Decode may make of the file.
Decoded == [none |-> {}, torn |-> Truncated, written |-> {Written}, manual |-> {ByHand}]

VARIABLES
  toml,     \* sbrwxmpp.toml: "none", "torn", "written" by the program or "manual"
  dir,      \* sbrwxmpp-certs: None, "made" by the program or "given"
  root,     \* the processes may enter a directory without the x bit
  pem,      \* key and certificate, by the settings that name them
  step,     \* of each process: what it does next
  conf,     \* of each process: its configuration
  priv,     \* of each process: the key it has generated
  pairs,    \* keys so far
  fatal     \* history: where the last run of a process ended by log.Fatalf

files     == <<toml, dir, root, pem>>
startVars == <<files, step, conf, priv, pairs, fatal>>

StartInit ==
  /\ toml \in {"none", "written", "manual"}
  /\ dir \in {None, "given"}
  /\ root \in BOOLEAN
  /\ pem = [f \in {"generated", "unnamed", "operators"} |->
              IF f = "operators" THEN [key |-> 1, crt |-> 1] ELSE [key |-> None, crt |-> None]]
  /\ step = [p \in Processes |-> "off"]
  /\ conf = [p \in Processes |-> Written]
  /\ priv = [p \in Processes |-> None]
  /\ pairs = 1
  /\ fatal = [p \in Processes |-> "no"]

----------------------------------------------------------------------------
Goto(p, s) == step' = [step EXCEPT ![p] = s] /\ UNCHANGED fatal
Fatalf(p)  == step' = [step EXCEPT ![p] = "off"] /\ fatal' = [fatal EXCEPT ![p] = step[p]]

Start(p) ==
  /\ step[p] = "off"
  /\ step' = [step EXCEPT ![p] = "config"] /\ fatal' = [fatal EXCEPT ![p] = "no"]
  /\ UNCHANGED <<files, conf, priv, pairs>>

\* LoadConfig, before and after a configuration is generated.
LoadConfig(p) ==
  /\ step[p] = "config"
  /\ \/ toml = "none" /\ Goto(p, "create config") /\ UNCHANGED conf
     \/ toml = "torn" /\ Fatalf(p) /\ UNCHANGED conf
     \/ /\ \E c \in Decoded[toml] : conf' = [conf EXCEPT ![p] = c]
        /\ Goto(p, "listen")
  /\ UNCHANGED <<files, priv, pairs>>

\* WriteFile truncates whatever another process has written meanwhile.
CreateConfig(p) ==
  /\ step[p] = "create config"
  /\ toml' = "torn"
  /\ Goto(p, "write config")
  /\ UNCHANGED <<dir, root, pem, conf, priv, pairs>>

WriteConfig(p) ==
  /\ step[p] = "write config"
  /\ toml' = "written"
  /\ Goto(p, "config")
  /\ UNCHANGED <<dir, root, pem, conf, priv, pairs>>

Listening(q) == conf[q].addr /\ step[q] \notin {"off", "config", "create config", "write config", "listen"}

\* Faulty: the listener is opened when everything else is done.
ListenLast(p) ==
  /\ step[p] = "listen"
  /\ Goto(p, "stat")
  /\ UNCHANGED <<files, conf, priv, pairs>>

\* One process at a time has the address; an empty one is a free port.
Listen(p) ==
  /\ step[p] = "listen"
  /\ IF conf[p].addr /\ \E q \in Processes : Listening(q) THEN Fatalf(p) ELSE Goto(p, "stat")
  /\ UNCHANGED <<files, conf, priv, pairs>>

----------------------------------------------------------------------------
Entered == dir = "given" \/ (dir = "made" /\ root)
Pem(p)  == pem[conf[p].files]
PutPem(p, f) == pem' = [pem EXCEPT ![conf[p].files] = f]

\* Only "does not exist" makes it generate, not any other error of Stat.
Stat(p) ==
  /\ step[p] = "stat"
  /\ IF conf[p].files # "operators" /\ (dir = None \/ (Entered /\ Pem(p).crt = None))
     THEN dir' = (IF dir = None THEN "made" ELSE dir) /\ Goto(p, "create key")
     ELSE UNCHANGED dir /\ Goto(p, "load")
  /\ UNCHANGED <<toml, root, pem, conf, priv, pairs>>

CreateKey(p) ==
  /\ step[p] = "create key" /\ pairs < MaxPairs
  /\ IF Entered
     THEN /\ pairs' = pairs + 1 /\ priv' = [priv EXCEPT ![p] = pairs']
          /\ PutPem(p, [Pem(p) EXCEPT !.key = Torn])
          /\ Goto(p, "write key")
     ELSE Fatalf(p) /\ UNCHANGED <<pairs, priv, pem>>
  /\ UNCHANGED <<toml, dir, root, conf>>

WriteKey(p) ==
  /\ step[p] = "write key"
  /\ PutPem(p, [Pem(p) EXCEPT !.key = priv[p]])
  /\ Goto(p, "create crt")
  /\ UNCHANGED <<toml, dir, root, conf, priv, pairs>>

CreateCrt(p) ==
  /\ step[p] = "create crt"
  /\ PutPem(p, [Pem(p) EXCEPT !.crt = Torn])
  /\ Goto(p, "write crt")
  /\ UNCHANGED <<toml, dir, root, conf, priv, pairs>>

WriteCrt(p) ==
  /\ step[p] = "write crt"
  /\ PutPem(p, [Pem(p) EXCEPT !.crt = priv[p]])
  /\ Goto(p, "load")
  /\ UNCHANGED <<toml, dir, root, conf, priv, pairs>>

Loadable(p) ==
  /\ conf[p].files # "operators" => Entered
  /\ Pem(p).crt \notin {None, Torn} /\ Pem(p).key = Pem(p).crt

LoadX509KeyPair(p) ==
  /\ step[p] = "load"
  /\ IF Loadable(p) THEN Goto(p, "open") ELSE Fatalf(p)
  /\ UNCHANGED <<files, conf, priv, pairs>>

\* bolt.Open waits for the lock of the file; Initialize is one transaction.
OpenDB(p) ==
  /\ step[p] = "open" /\ \A q \in Processes : step[q] # "serve"
  /\ Goto(p, "serve")
  /\ UNCHANGED <<files, conf, priv, pairs>>

\* Killed, or a write failed: the files stay.
Crash(p) ==
  /\ step[p] # "off"
  /\ Goto(p, "off")
  /\ UNCHANGED <<files, conf, priv, pairs>>

StartNext == \E p \in Processes :
  \/ Start(p) \/ LoadConfig(p) \/ CreateConfig(p) \/ WriteConfig(p) \/ Listen(p)
  \/ Stat(p) \/ CreateKey(p) \/ WriteKey(p) \/ CreateCrt(p) \/ WriteCrt(p)
  \/ LoadX509KeyPair(p) \/ OpenDB(p) \/ Crash(p)

StartSpec == StartInit /\ [][StartNext]_startVars

----------------------------------------------------------------------------
(***************************************************************************)
(* Properties.                                                             *)
(***************************************************************************)
\* Whatever was killed when and started again, even twice at a time: a
\* certificate that was written belongs to the key beside it, and a process
\* fails to load the pair only when a certificate was left torn (it is never
\* written again) or the directory cannot be entered.
CertificateKept ==
  /\ pem["generated"].crt \notin {None, Torn} => pem["generated"].key = pem["generated"].crt
  /\ \A p \in Processes :
       fatal[p] = "load" /\ conf[p].files = "generated" => pem["generated"].crt = Torn \/ ~Entered
=============================================================================
