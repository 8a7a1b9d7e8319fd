------------------------- MODULE ServerPartsProofs -------------------------
(***************************************************************************)
(* Theorems about the parts of the server that share no state: start-up    *)
(* (StartUp, for any number of processes and of keys), logging in and      *)
(* changing a password (Accounts, for any number of sessions, API workers, *)
(* users and passwords) and reading the stream of a connection (XmlStream, *)
(* for any number of tokens and any depth).                                *)
(***************************************************************************)
EXTENDS StartUp, Accounts, XmlStream, ListProofs, FiniteSetTheorems, TLAPS

----------------------------------------------------------------------------
(***************************************************************************)
(* Start-up.                                                               *)
(***************************************************************************)
Settings == {"generated", "unnamed", "operators"}
Confs    == [addr : BOOLEAN, files : Settings]
PEM      == [key : Nat \cup {None}, crt : Nat \cup {None}]

Before     == {"off", "config", "create config", "write config", "listen"}
Generating == {"create key", "write key", "create crt", "write crt"}
Steps      == Before \cup Generating \cup {"stat", "load", "open", "serve"}

StartTypeOK ==
  /\ toml \in {"none", "torn", "written", "manual"}
  /\ dir \in {None, "made", "given"}
  /\ root \in BOOLEAN
  /\ pem \in [Settings -> PEM]
  /\ step \in [Processes -> Steps]
  /\ conf \in [Processes -> Confs]
  /\ priv \in [Processes -> Nat \cup {None}]
  /\ pairs \in Nat \ {0}
  /\ fatal \in [Processes -> Steps \cup {"no"}]

\* Whoever uses the generated pair has an address.
AddressInv == \A p \in Processes : conf[p].files = "generated" => conf[p].addr

\* The listener keeps the others out of what comes after it.
ListenerInv == \A p, q \in Processes : Listening(p) /\ Listening(q) => p = q

\* The pair, as its one user has left it so far.
At(p, s) == conf[p].files = "generated" /\ step[p] = s

Key == pem["generated"].key
Crt == pem["generated"].crt
Whole == Crt # None /\ Crt # Torn

PairInv ==
  /\ Whole => Key = Crt
  /\ \A p \in Processes :
       /\ At(p, "create key") => Crt = None
       /\ At(p, "write key") => Crt = None /\ priv[p] \in Nat \ {Torn}
       /\ At(p, "create crt") => Crt = None /\ Key = priv[p] /\ priv[p] \in Nat \ {Torn}
       /\ At(p, "write crt") => Key = priv[p] /\ priv[p] \in Nat \ {Torn}
       /\ step[p] \in Generating \cup {"load"} => dir # None \/ conf[p].files = "operators"
       /\ At(p, "load") => ~Entered \/ Crt # None

\* A torn certificate stays, and so does a directory that cannot be entered.
FatalInv ==
  \A p \in Processes :
    fatal[p] = "load" /\ conf[p].files = "generated" =>
      /\ dir # None
      /\ ~Entered \/ (Crt = Torn /\ \A q \in Processes : conf[q].files = "generated" => step[q] \notin Generating)

\* There is nothing in a directory that is not there; a process that goes on has
\* not ended by log.Fatalf.
FreshInv ==
  /\ dir = None => Crt = None
  /\ \A p \in Processes : fatal[p] = "no" \/ step[p] = "off"

StartIInv == StartTypeOK /\ AddressInv /\ ListenerInv /\ PairInv /\ FatalInv /\ FreshInv

----------------------------------------------------------------------------
LEMMA StartInitIInv == StartInit => StartIInv
<1> SUFFICES ASSUME StartInit PROVE StartIInv
  OBVIOUS
<1> USE PairsAssumption DEF StartInit
<1>1. StartTypeOK
  BY DEF StartTypeOK, Settings, Confs, PEM, Steps, Before, Generating, Written
<1>2. AddressInv
  BY DEF AddressInv, Written
<1>3. ListenerInv
  BY DEF ListenerInv, Listening
<1>4. PairInv
  BY DEF PairInv, At, Key, Crt, Whole, Generating
<1>5. FatalInv
  BY DEF FatalInv
<1>6. FreshInv
  BY DEF FreshInv, Crt
<1> QED BY <1>1, <1>2, <1>3, <1>4, <1>5, <1>6 DEF StartIInv

LEMMA DecodedFacts ==
  ASSUME StartTypeOK, NEW c \in Decoded[toml]
  PROVE  c \in Confs /\ (c.files = "generated" => c.addr)
<1>1. c \in Truncated \cup {Written, ByHand}
  <2>1. toml \in {"none", "torn", "written", "manual"}
    BY DEF StartTypeOK
  <2> QED BY <2>1 DEF Decoded
<1>2. CASE c = Written
  BY <1>2 DEF Written, Confs, Settings
<1>3. CASE c = ByHand
  BY <1>3 DEF ByHand, Confs, Settings
<1>4. CASE c = [addr |-> TRUE, files |-> "unnamed"]
  BY <1>4 DEF Confs, Settings
<1>5. CASE c = [addr |-> FALSE, files |-> "unnamed"]
  BY <1>5 DEF Confs, Settings
<1> QED BY <1>1, <1>2, <1>3, <1>4, <1>5 DEF Truncated

LEMMA Successor == \A n \in Nat : n + 1 \in Nat \ {0}
OBVIOUS

LEMMA StartTypeStep == StartTypeOK /\ [StartNext]_startVars => StartTypeOK'
<1> SUFFICES ASSUME StartTypeOK, [StartNext]_startVars PROVE StartTypeOK'
  OBVIOUS
<1> USE DEF StartTypeOK, files
<1> USE DEF Steps, Before, Generating
<1>1. ASSUME NEW p \in Processes, Start(p) PROVE StartTypeOK'
  BY <1>1 DEF Start
<1>2. ASSUME NEW p \in Processes, LoadConfig(p) PROVE StartTypeOK'
  <2>1. conf' \in [Processes -> Confs]
    BY <1>2, DecodedFacts DEF LoadConfig
  <2> QED BY <1>2, <2>1 DEF LoadConfig, Goto, Fatalf
<1>3. ASSUME NEW p \in Processes, CreateConfig(p) PROVE StartTypeOK'
  BY <1>3 DEF CreateConfig, Goto
<1>4. ASSUME NEW p \in Processes, WriteConfig(p) PROVE StartTypeOK'
  BY <1>4 DEF WriteConfig, Goto
<1>5. ASSUME NEW p \in Processes, Listen(p) PROVE StartTypeOK'
  BY <1>5 DEF Listen, Goto, Fatalf
<1>6. ASSUME NEW p \in Processes, Stat(p) PROVE StartTypeOK'
  BY <1>6 DEF Stat, Goto
<1>7. ASSUME NEW p \in Processes, NEW f \in PEM, PutPem(p, f) PROVE pem' \in [Settings -> PEM]
  BY <1>7 DEF PutPem, Confs
<1>8. \A p \in Processes : Pem(p) \in PEM
  BY DEF Pem, Confs
<1>9. ASSUME NEW p \in Processes, NEW n \in Nat \cup {None}
      PROVE  [Pem(p) EXCEPT !.key = n] \in PEM /\ [Pem(p) EXCEPT !.crt = n] \in PEM
  BY <1>8 DEF PEM
<1>10. ASSUME NEW p \in Processes, CreateKey(p) PROVE StartTypeOK'
  <2>1. CASE Entered
    <3>1. pairs' = pairs + 1 /\ priv' = [priv EXCEPT ![p] = pairs'] /\ Goto(p, "write key")
      BY <1>10, <2>1 DEF CreateKey
    <3>2. pem' \in [Settings -> PEM]
      <4>1. PutPem(p, [Pem(p) EXCEPT !.key = Torn]) /\ Torn \in Nat
        BY <1>10, <2>1 DEF CreateKey, Torn
      <4> QED BY <4>1, <1>7, <1>9
    <3>3. pairs' \in Nat \ {0}
      <4>1. pairs \in Nat
        OBVIOUS
      <4>2. pairs' = pairs + 1
        BY <3>1
      <4> QED BY <4>1, <4>2, Successor
    <3>4. priv' \in [Processes -> Nat \cup {None}]
      BY <3>1, <3>3
    <3> QED BY <1>10, <3>1, <3>2, <3>3, <3>4 DEF CreateKey, Goto
  <2>2. CASE ~Entered
    BY <1>10, <2>2 DEF CreateKey, Fatalf
  <2> QED BY <2>1, <2>2
<1>11. ASSUME NEW p \in Processes, WriteKey(p) PROVE StartTypeOK'
  BY <1>11, <1>7, <1>9 DEF WriteKey, Goto
<1>12. ASSUME NEW p \in Processes, CreateCrt(p) PROVE StartTypeOK'
  BY <1>12, <1>7, <1>9 DEF CreateCrt, Goto, Torn
<1>13. ASSUME NEW p \in Processes, WriteCrt(p) PROVE StartTypeOK'
  BY <1>13, <1>7, <1>9 DEF WriteCrt, Goto
<1>14. ASSUME NEW p \in Processes, LoadX509KeyPair(p) PROVE StartTypeOK'
  BY <1>14 DEF LoadX509KeyPair, Goto, Fatalf
<1>15. ASSUME NEW p \in Processes, OpenDB(p) PROVE StartTypeOK'
  BY <1>15 DEF OpenDB, Goto
<1>16. ASSUME NEW p \in Processes, Crash(p) PROVE StartTypeOK'
  BY <1>16 DEF Crash, Goto
<1>17. CASE UNCHANGED startVars
  BY <1>17 DEF startVars
<1> QED
  BY <1>1, <1>2, <1>3, <1>4, <1>5, <1>6, <1>10, <1>11, <1>12, <1>13, <1>14, <1>15, <1>16, <1>17
  DEF StartNext

----------------------------------------------------------------------------
(***************************************************************************)
(* One process at a time.                                                  *)
(***************************************************************************)
LEMMA ListenerStep == StartIInv /\ [StartNext]_startVars => (AddressInv /\ ListenerInv)'
<1> SUFFICES ASSUME StartIInv, [StartNext]_startVars PROVE (AddressInv /\ ListenerInv)'
  OBVIOUS
<1> USE DEF StartIInv, StartTypeOK, AddressInv, ListenerInv, Listening, Goto, Fatalf
<1>1. ASSUME NEW p \in Processes, UNCHANGED conf,
             \A q \in Processes \ {p} : step'[q] = step[q],
             step'[p] \in Before \/ Listening(p)
      PROVE  (AddressInv /\ ListenerInv)'
  BY <1>1 DEF Before
<1>2. ASSUME NEW p \in Processes, Start(p) PROVE (AddressInv /\ ListenerInv)'
  <2>1. UNCHANGED conf /\ step' = [step EXCEPT ![p] = "config"] /\ step \in [Processes -> Steps]
    BY <1>2 DEF Start
  <2>2. step'[p] \in Before /\ \A q \in Processes \ {p} : step'[q] = step[q]
    BY <2>1 DEF Before
  <2> QED BY <1>1, <2>1, <2>2
<1>3. ASSUME NEW p \in Processes, LoadConfig(p) PROVE (AddressInv /\ ListenerInv)'
  <2>1. CASE UNCHANGED conf
    <3>1. \E next \in {"off", "create config", "listen"} : step' = [step EXCEPT ![p] = next]
      BY <1>3 DEF LoadConfig
    <3>2. step'[p] \in Before /\ \A q \in Processes \ {p} : step'[q] = step[q]
      BY <3>1 DEF Before
    <3> QED BY <1>1, <2>1, <3>2
  <2>2. ASSUME NEW c \in Decoded[toml], conf' = [conf EXCEPT ![p] = c], Goto(p, "listen")
        PROVE  (AddressInv /\ ListenerInv)'
    <3>1. c \in Confs /\ (c.files = "generated" => c.addr)
      BY DecodedFacts
    <3>2. /\ conf'[p] = c /\ step'[p] = "listen"
          /\ \A q \in Processes \ {p} : conf'[q] = conf[q] /\ step'[q] = step[q]
      BY <2>2
    <3>3. ~Listening(p)' /\ \A q \in Processes \ {p} : Listening(q)' <=> Listening(q)
      BY <3>2
    <3>4. AddressInv'
      BY <3>1, <3>2
    <3>5. ListenerInv'
      BY <3>3
    <3> QED BY ONLY <3>4, <3>5
  <2> QED BY <1>3, <2>1, <2>2 DEF LoadConfig
<1>4. ASSUME NEW p \in Processes, CreateConfig(p) \/ WriteConfig(p) \/ Crash(p)
      PROVE  (AddressInv /\ ListenerInv)'
  BY <1>1, <1>4 DEF CreateConfig, WriteConfig, Crash, Before
<1>5. ASSUME NEW p \in Processes, Listen(p) PROVE (AddressInv /\ ListenerInv)'
  <2>1. CASE conf[p].addr /\ \E q \in Processes : Listening(q)
    BY <1>1, <1>5, <2>1 DEF Listen, Before
  <2>2. CASE ~(conf[p].addr /\ \E q \in Processes : Listening(q))
    <3>1. UNCHANGED conf /\ step \in [Processes -> Steps] /\ step' = [step EXCEPT ![p] = "stat"]
      BY <1>5, <2>2 DEF Listen
    <3>2. \A q \in Processes \ {p} : Listening(q)' <=> Listening(q)
      BY <3>1
    <3>3. conf[p].addr => \A q \in Processes : ~Listening(q)
      BY <2>2
    <3>4. Listening(p)' => conf[p].addr
      BY <3>1
    <3>5. AddressInv'
      BY <3>1
    <3>6. ASSUME NEW q \in Processes, NEW r \in Processes, Listening(q)', Listening(r)' PROVE q = r
      <4>1. CASE q # p /\ r # p
        BY <3>2, <3>6, <4>1
      <4>2. CASE q = p \/ r = p
        BY <3>2, <3>3, <3>4, <3>6, <4>2
      <4> QED BY ONLY <4>1, <4>2
    <3> QED BY ONLY <3>5, <3>6 DEF ListenerInv
  <2> QED BY <2>1, <2>2
<1>6. ASSUME NEW p \in Processes,
             Stat(p) \/ CreateKey(p) \/ WriteKey(p) \/ CreateCrt(p) \/ WriteCrt(p) \/ LoadX509KeyPair(p) \/ OpenDB(p)
      PROVE  (AddressInv /\ ListenerInv)'
  <2>1. step[p] \notin Before /\ UNCHANGED conf /\ \A q \in Processes \ {p} : step'[q] = step[q]
    BY <1>6 DEF Stat, CreateKey, WriteKey, CreateCrt, WriteCrt, LoadX509KeyPair, OpenDB, Before
  <2> QED BY <2>1 DEF Before
<1>7. CASE UNCHANGED startVars
  BY <1>7 DEF startVars
<1> QED BY <1>2, <1>3, <1>4, <1>5, <1>6, <1>7 DEF StartNext

----------------------------------------------------------------------------
(***************************************************************************)
(* The pair.                                                               *)
(***************************************************************************)
Gen(p) == conf[p].files = "generated"

\* The one that uses the generated pair.
LEMMA Alone ==
  ASSUME StartIInv, NEW p \in Processes, Gen(p), step[p] \notin Before
  PROVE  \A q \in Processes \ {p} : Gen(q) => step[q] \in Before
BY DEF StartIInv, AddressInv, ListenerInv, Listening, Gen, Before

LEMMA PutFacts ==
  ASSUME StartTypeOK, NEW p \in Processes, NEW f, PutPem(p, f)
  PROVE  /\ Gen(p) => pem'["generated"] = f
         /\ ~Gen(p) => pem'["generated"] = pem["generated"]
BY DEF StartTypeOK, PutPem, Gen, Settings, Confs

LEMMA PemFacts ==
  ASSUME StartTypeOK, NEW p \in Processes, Gen(p), NEW n
  PROVE  /\ [Pem(p) EXCEPT !.key = n] = [key |-> n, crt |-> Crt]
         /\ [Pem(p) EXCEPT !.crt = n] = [key |-> Key, crt |-> n]
<1>1. Pem(p) = pem["generated"] /\ pem["generated"] \in PEM
  BY DEF StartTypeOK, Pem, Gen, Settings
<1> QED BY <1>1 DEF PEM, Crt, Key

\* The directory, once it is there, can be entered or not as before.
DirStep == UNCHANGED dir \/ (dir = None /\ dir' = "made")

LEMMA EnteredStep ==
  ASSUME DirStep, UNCHANGED root PROVE dir # None => (Entered' <=> Entered) /\ dir' # None
BY DEF DirStep, Entered

\* A step of p does nothing to the others.
Apart(p) ==
  /\ \A q \in Processes \ {p} :
       step'[q] = step[q] /\ fatal'[q] = fatal[q] /\ conf'[q] = conf[q] /\ priv'[q] = priv[q]
  /\ UNCHANGED root /\ DirStep

\* A step of a process that does not use the generated pair, or leaves it alone.
LEMMA Aside ==
  ASSUME StartIInv, NEW p \in Processes, Apart(p), pem'["generated"] = pem["generated"],
         ~Gen(p)' \/ step'[p] \notin Generating \cup {"load"},
         step'[p] \in Generating \cup {"load"} => conf'[p].files = "operators" \/ dir' # None,
         fatal'[p] = "no" \/ step'[p] = "off",
         Gen(p)' /\ fatal'[p] = "load" => Gen(p) /\ fatal[p] = "load"
  PROVE  (PairInv /\ FatalInv /\ FreshInv)'
<1> USE EnteredStep DEF StartIInv, Apart, Gen
<1>1. Key' = Key /\ Crt' = Crt
  BY DEF Key, Crt
<1>2. FreshInv'
  BY <1>1 DEF FreshInv, DirStep
<1>3. (Whole => Key = Crt)'
  BY <1>1 DEF PairInv, Whole
<1>4. ASSUME NEW q \in Processes \ {p}
      PROVE  /\ (At(q, "create key") => Crt = None)'
             /\ (At(q, "write key") => Crt = None /\ priv[q] \in Nat \ {Torn})'
             /\ (At(q, "create crt") => Crt = None /\ Key = priv[q] /\ priv[q] \in Nat \ {Torn})'
             /\ (At(q, "write crt") => Key = priv[q] /\ priv[q] \in Nat \ {Torn})'
             /\ (step[q] \in Generating \cup {"load"} => dir # None \/ conf[q].files = "operators")'
             /\ (At(q, "load") => ~Entered \/ Crt # None)'
  <2>1. At(q, "load") => dir # None
    BY DEF PairInv, At
  <2> QED BY <1>1, <2>1 DEF PairInv, At, DirStep
<1>5. PairInv'
  BY <1>3, <1>4 DEF PairInv, At, Generating
<1>6. FatalInv'
  <2>1. ASSUME NEW q \in Processes, fatal'[q] = "load", Gen(q)'
        PROVE  fatal[q] = "load" /\ Gen(q)
    BY <2>1
  <2>2. \A q \in Processes : Gen(q)' /\ step'[q] \in Generating => Gen(q) /\ step[q] \in Generating
    OBVIOUS
  <2> QED BY <1>1, <2>1, <2>2 DEF FatalInv
<1> QED BY <1>2, <1>5, <1>6

\* A step of the one process that uses the generated pair.
LEMMA Inside ==
  ASSUME StartIInv, NEW p \in Processes, Gen(p), step[p] \notin Before, Apart(p), UNCHANGED conf,
         fatal'[p] = "no" \/ step'[p] = "off",
         dir' = None => Crt' = None,
         (Whole => Key = Crt)',
         (At(p, "create key") => Crt = None)',
         (At(p, "write key") => Crt = None /\ priv[p] \in Nat \ {Torn})',
         (At(p, "create crt") => Crt = None /\ Key = priv[p] /\ priv[p] \in Nat \ {Torn})',
         (At(p, "write crt") => Key = priv[p] /\ priv[p] \in Nat \ {Torn})',
         (step[p] \in Generating \cup {"load"} => dir # None)',
         (At(p, "load") => ~Entered \/ Crt # None)',
         dir = None \/ ~Entered \/ Crt # Torn \/ step[p] \in Generating \/ (Crt' = Torn /\ step'[p] \notin Generating),
         fatal'[p] = "load" => dir' # None /\ (~Entered' \/ (Crt' = Torn /\ step'[p] \notin Generating))
  PROVE  (PairInv /\ FatalInv /\ FreshInv)'
<1> USE EnteredStep DEF StartIInv, Apart, Gen
<1>1. \A q \in Processes \ {p} : Gen(q) => step[q] \in Before /\ step'[q] \in Before
  BY Alone
<1>2. FreshInv'
  BY DEF FreshInv
<1>3. ASSUME NEW q \in Processes \ {p}
      PROVE  /\ (Gen(q) => step[q] \notin Generating \cup {"load"})'
             /\ (step[q] \in Generating \cup {"load"} => dir # None \/ conf[q].files = "operators")'
  BY <1>1 DEF Before, Generating, PairInv, DirStep
<1>4. PairInv'
  BY <1>3 DEF PairInv, At, Generating
<1>5. FatalInv'
  <2> SUFFICES ASSUME NEW q \in Processes, fatal'[q] = "load", Gen(q)'
               PROVE  dir' # None /\ (~Entered' \/ (Crt' = Torn /\ step'[p] \notin Generating))
    BY <1>3 DEF FatalInv
  <2>1. CASE q = p
    BY <2>1
  <2>2. CASE q # p
    <3>1. dir # None /\ (~Entered \/ (Crt = Torn /\ step[p] \notin Generating))
      BY <2>2 DEF FatalInv
    <3> QED BY <3>1
  <2> QED BY <2>1, <2>2
<1> QED BY <1>2, <1>4, <1>5

\* The generated pair and the directory, step by step.
LEMMA PairStep == StartIInv /\ StartTypeOK' /\ [StartNext]_startVars => (PairInv /\ FatalInv /\ FreshInv)'
<1> SUFFICES ASSUME StartIInv, StartTypeOK', [StartNext]_startVars PROVE (PairInv /\ FatalInv /\ FreshInv)'
  OBVIOUS
<1> USE DEF StartIInv, StartTypeOK, files
<1>1. ASSUME NEW p \in Processes, Start(p) PROVE (PairInv /\ FatalInv /\ FreshInv)'
  BY <1>1, Aside DEF Start, Apart, DirStep, Gen, Generating
<1>2. ASSUME NEW p \in Processes, LoadConfig(p) PROVE (PairInv /\ FatalInv /\ FreshInv)'
  <2>1. fatal[p] = "no"
    BY <1>2 DEF LoadConfig, FreshInv
  <2>2. Apart(p) /\ fatal'[p] # "load" /\ step'[p] \notin Generating \cup {"load"} /\ UNCHANGED pem
    BY <1>2, <2>1 DEF LoadConfig, Apart, DirStep, Goto, Fatalf, Generating
  <2>3. fatal'[p] = "no" \/ step'[p] = "off"
    BY <1>2, <2>1 DEF LoadConfig, Goto, Fatalf
  <2> QED BY <2>2, <2>3, Aside
<1>3. ASSUME NEW p \in Processes, CreateConfig(p) \/ WriteConfig(p) \/ Listen(p) \/ OpenDB(p) \/ Crash(p)
      PROVE  (PairInv /\ FatalInv /\ FreshInv)'
  <2>1. step[p] # "off" /\ fatal[p] = "no"
    BY <1>3 DEF CreateConfig, WriteConfig, Listen, OpenDB, Crash, FreshInv
  <2>2. Apart(p) /\ fatal'[p] # "load" /\ step'[p] \notin Generating \cup {"load"} /\ UNCHANGED pem
    BY <1>3, <2>1 DEF CreateConfig, WriteConfig, Listen, OpenDB, Crash, Apart, DirStep, Goto, Fatalf, Generating
  <2>3. fatal'[p] = "no" \/ step'[p] = "off"
    BY <1>3, <2>1 DEF CreateConfig, WriteConfig, Listen, OpenDB, Crash, Goto, Fatalf
  <2> QED BY <2>2, <2>3, Aside
<1>4. ASSUME NEW p \in Processes, Stat(p) PROVE (PairInv /\ FatalInv /\ FreshInv)'
  <2>1. fatal[p] = "no" /\ step[p] = "stat" /\ Apart(p) /\ fatal'[p] = "no" /\ UNCHANGED <<pem, conf, priv>>
    BY <1>4 DEF Stat, Goto, Apart, DirStep, FreshInv
  <2>2. dir' # None \/ conf[p].files = "operators"
    <3>1. CASE dir = None /\ conf[p].files # "operators"
      <4>1. dir' = "made"
        BY <1>4, <3>1 DEF Stat
      <4> QED BY <4>1, PairsAssumption
    <3>2. CASE dir # None
      BY <1>4, <3>2 DEF Stat
    <3> QED BY <3>1, <3>2
  <2>3. CASE ~Gen(p)
    BY <2>1, <2>2, <2>3, Aside DEF Gen
  <2>4. CASE Gen(p)
    <3>1. Pem(p).crt = Crt
      BY <2>4 DEF Pem, Gen, Crt
    <3>2. \/ step'[p] = "create key" /\ (dir = None \/ (Entered /\ Crt = None))
          \/ step'[p] = "load" /\ dir # None /\ UNCHANGED dir /\ ~(Entered /\ Crt = None)
      BY <1>4, <2>4, <3>1 DEF Stat, Goto, Gen
    <3>3. Key' = Key /\ Crt' = Crt
      BY <2>1 DEF Key, Crt
    <3>4. dir = None => Crt = None
      BY DEF FreshInv
    <3>5. UNCHANGED root /\ (UNCHANGED dir => (Entered' <=> Entered))
      BY <2>1 DEF Apart, Entered
    <3>6. Crt = None => Crt # Torn
      BY PairsAssumption DEF Torn
    <3> QED
      BY <2>1, <2>2, <2>4, <3>2, <3>3, <3>4, <3>5, <3>6, Inside
      DEF PairInv, Whole, At, Gen, Before, Generating
  <2> QED BY <2>3, <2>4
<1>5. ASSUME NEW p \in Processes, CreateKey(p) \/ WriteKey(p) \/ CreateCrt(p) \/ WriteCrt(p), ~Gen(p)
      PROVE  (PairInv /\ FatalInv /\ FreshInv)'
  <2>1. fatal[p] = "no" /\ step[p] \in Generating /\ (dir # None \/ conf[p].files = "operators")
    BY <1>5 DEF CreateKey, WriteKey, CreateCrt, WriteCrt, FreshInv, PairInv, Generating
  <2>2. pem'["generated"] = pem["generated"]
    BY <1>5, PutFacts DEF CreateKey, WriteKey, CreateCrt, WriteCrt
  <2>3. Apart(p) /\ UNCHANGED <<dir, conf>> /\ fatal'[p] \in {"no", "create key"}
    BY <1>5, <2>1 DEF CreateKey, WriteKey, CreateCrt, WriteCrt, Goto, Fatalf, Apart, DirStep
  <2>4. fatal'[p] = "no" \/ step'[p] = "off"
    BY <1>5, <2>1 DEF CreateKey, WriteKey, CreateCrt, WriteCrt, Goto, Fatalf
  <2> QED BY <1>5, <2>1, <2>2, <2>3, <2>4, Aside DEF Gen
<1>6. ASSUME NEW p \in Processes, CreateKey(p), Gen(p) PROVE (PairInv /\ FatalInv /\ FreshInv)'
  <2>1. step[p] = "create key" /\ fatal[p] = "no" /\ Crt = None /\ dir # None
    BY <1>6 DEF CreateKey, FreshInv, PairInv, At, Gen, Generating
  <2>2. CASE ~Entered
    <3>1. Apart(p) /\ UNCHANGED <<pem, conf, dir>> /\ step'[p] = "off" /\ fatal'[p] = "create key"
      BY <1>6, <2>1, <2>2 DEF CreateKey, Fatalf, Apart, DirStep
    <3> QED BY <3>1, Aside DEF Generating
  <2>3. CASE Entered
    <3>1. Apart(p) /\ UNCHANGED <<conf, dir>> /\ step'[p] = "write key" /\ fatal'[p] = "no"
      BY <1>6, <2>1, <2>3 DEF CreateKey, Goto, Apart, DirStep
    <3>2. priv'[p] \in Nat \ {Torn}
      BY <1>6, <2>3 DEF CreateKey, Torn
    <3>3. Crt' = None
      <4>1. pem'["generated"] = [key |-> Torn, crt |-> Crt]
        BY <1>6, <2>3, PutFacts, PemFacts DEF CreateKey
      <4>2. Crt' = Crt
        BY <4>1 DEF Crt
      <4> QED BY <2>1, <4>2
    <3>4. None # Torn
      BY PairsAssumption DEF Torn
    <3> QED
      BY <1>6, <2>1, <3>1, <3>2, <3>3, <3>4, Inside DEF Whole, At, Before, Generating
  <2> QED BY <2>2, <2>3
<1>7. ASSUME NEW p \in Processes, WriteKey(p), Gen(p) PROVE (PairInv /\ FatalInv /\ FreshInv)'
  <2>1. /\ step[p] = "write key" /\ fatal[p] = "no" /\ Crt = None /\ dir # None
        /\ priv[p] \in Nat \ {Torn} /\ priv' = priv
    BY <1>7 DEF WriteKey, FreshInv, PairInv, At, Gen, Generating
  <2>2. Apart(p) /\ UNCHANGED <<conf, dir>> /\ step'[p] = "create crt" /\ fatal'[p] = "no"
    BY <1>7, <2>1 DEF WriteKey, Goto, Apart, DirStep
  <2>3. Crt' = None /\ Key' = priv[p]
    <3>1. pem'["generated"] = [key |-> priv[p], crt |-> Crt]
      <4>1. PutPem(p, [Pem(p) EXCEPT !.key = priv[p]])
        BY <1>7 DEF WriteKey
      <4>2. pem'["generated"] = [Pem(p) EXCEPT !.key = priv[p]]
        BY <1>7, <4>1, PutFacts
      <4> QED BY <1>7, <4>2, PemFacts
    <3>2. Crt' = Crt /\ Key' = priv[p]
      BY <3>1 DEF Crt, Key
    <3> QED BY <2>1, <3>2
  <2>4. None # Torn
    BY PairsAssumption DEF Torn
  <2> QED BY <1>7, <2>1, <2>2, <2>3, <2>4, Inside DEF Whole, At, Before, Generating
<1>8. ASSUME NEW p \in Processes, CreateCrt(p), Gen(p) PROVE (PairInv /\ FatalInv /\ FreshInv)'
  <2>1. /\ step[p] = "create crt" /\ fatal[p] = "no" /\ Crt = None /\ dir # None
        /\ priv[p] \in Nat \ {Torn} /\ priv' = priv /\ Key = priv[p]
    BY <1>8 DEF CreateCrt, FreshInv, PairInv, At, Gen, Generating
  <2>2. Apart(p) /\ UNCHANGED <<conf, dir>> /\ step'[p] = "write crt" /\ fatal'[p] = "no"
    BY <1>8, <2>1 DEF CreateCrt, Goto, Apart, DirStep
  <2>3. Crt' = Torn /\ Key' = Key
    <3>1. pem'["generated"] = [key |-> Key, crt |-> Torn]
      BY <1>8, PutFacts, PemFacts DEF CreateCrt
    <3> QED BY <3>1 DEF Crt, Key
  <2>4. None # Torn
    BY PairsAssumption DEF Torn
  <2> QED BY <1>8, <2>1, <2>2, <2>3, <2>4, Inside DEF Whole, At, Before, Generating
<1>9. ASSUME NEW p \in Processes, WriteCrt(p), Gen(p) PROVE (PairInv /\ FatalInv /\ FreshInv)'
  <2>1. /\ step[p] = "write crt" /\ fatal[p] = "no" /\ dir # None
        /\ priv[p] \in Nat \ {Torn} /\ priv' = priv /\ Key = priv[p]
    BY <1>9 DEF WriteCrt, FreshInv, PairInv, At, Gen, Generating
  <2>2. Apart(p) /\ UNCHANGED <<conf, dir>> /\ step'[p] = "load" /\ fatal'[p] = "no"
    BY <1>9, <2>1 DEF WriteCrt, Goto, Apart, DirStep
  <2>3. Crt' = priv[p] /\ Key' = Key
    <3>1. pem'["generated"] = [key |-> Key, crt |-> priv[p]]
      BY <1>9, PutFacts, PemFacts DEF WriteCrt
    <3> QED BY <3>1 DEF Crt, Key
  <2>4. priv[p] # None
    BY <2>1, PairsAssumption
  <2> QED BY <1>9, <2>1, <2>2, <2>3, <2>4, Inside DEF Whole, At, Before, Generating
<1>10. ASSUME NEW p \in Processes, LoadX509KeyPair(p) PROVE (PairInv /\ FatalInv /\ FreshInv)'
  <2>1. fatal[p] = "no" /\ step[p] = "load"
    BY <1>10 DEF LoadX509KeyPair, FreshInv
  <2>2. Apart(p) /\ UNCHANGED <<pem, conf, priv, dir>>
    BY <1>10 DEF LoadX509KeyPair, Apart, DirStep, Goto, Fatalf
  <2>3. \/ Loadable(p) /\ step'[p] = "open" /\ fatal'[p] = "no"
        \/ ~Loadable(p) /\ step'[p] = "off" /\ fatal'[p] = "load"
    BY <1>10, <2>1 DEF LoadX509KeyPair, Goto, Fatalf
  <2>4. CASE ~Gen(p) \/ Loadable(p)
    BY <2>1, <2>2, <2>3, <2>4, Aside DEF Gen, Generating
  <2>5. CASE Gen(p) /\ ~Loadable(p)
    <3>1. dir # None /\ (~Entered \/ Crt # None) /\ (Whole => Key = Crt)
      BY <2>1, <2>5 DEF PairInv, At, Gen
    <3>2. ~Entered \/ Crt = Torn
      BY <2>5, <3>1 DEF Loadable, Pem, Gen, Whole, Key, Crt
    <3>3. Key' = Key /\ Crt' = Crt /\ (Entered' <=> Entered)
      BY <2>2 DEF Key, Crt, Apart, Entered
    <3> QED
      BY <2>1, <2>2, <2>3, <2>5, <3>1, <3>2, <3>3, Inside DEF Whole, At, Before, Generating
  <2> QED BY <2>4, <2>5
<1>11. CASE UNCHANGED startVars
  BY <1>11 DEF startVars, PairInv, FatalInv, FreshInv, At, Key, Crt, Whole, Entered
<1> QED
  BY <1>1, <1>2, <1>3, <1>4, <1>5, <1>6, <1>7, <1>8, <1>9, <1>10, <1>11 DEF StartNext

----------------------------------------------------------------------------
\* Whatever is killed when, and however many processes are started in one
\* directory, a certificate that is whole belongs to the key beside it, and only
\* a torn one or a closed directory keeps the program from loading the pair.
THEOREM CertificatesAreKept == StartSpec => []CertificateKept
<1>1. StartIInv /\ [StartNext]_startVars => StartIInv'
  BY StartTypeStep, ListenerStep, PairStep DEF StartIInv
<1>2. StartIInv => CertificateKept
  BY DEF StartIInv, PairInv, FatalInv, CertificateKept, Whole, Key, Crt
<1> QED BY <1>1, <1>2, StartInitIInv, PTL DEF StartSpec

----------------------------------------------------------------------------
(***************************************************************************)
(* Accounts.                                                               *)
(***************************************************************************)
Requests == [put : BOOLEAN, name : Users, password : Passwords \cup {None}]

AccountsTypeOK ==
  /\ users \in [Users -> Passwords \cup {None}]
  /\ phase \in [Sessions -> {"idle", "read", "kick"}]
  /\ login \in [Sessions -> [name : Users \cup {None}, given : Passwords, stored : Passwords]]
  /\ jid \in [Sessions -> Users \cup {None}]
  /\ with \in [Sessions -> Passwords]
  /\ authed \in [Sessions -> BOOLEAN]
  /\ listed \in [Sessions -> BOOLEAN]
  /\ closed \in [Sessions -> BOOLEAN]
  /\ request \in [Workers -> Requests \cup {None}]
  /\ kicked \subseteq Users
  /\ underway \in [Users -> SUBSET Sessions]

\* While a kicked user stays as he is, a login of his has read the password he
\* has, unless it was under way when he was kicked.
LoginInv ==
  \A n \in kicked, s \in Sessions :
    phase[s] = "read" /\ login[s].name = n => login[s].stored = PasswordOf(n) \/ s \in underway[n]

\* The same of sessions, listed or not: those the kick found are being closed,
\* which ends with the session only.
SessionInv ==
  \A n \in kicked, s \in Sessions :
    jid[s] = n /\ ~closed[s] => with[s] = PasswordOf(n) \/ s \in underway[n]

AccountsIInv == AccountsTypeOK /\ LoginInv /\ SessionInv

LEMMA AccountsInitIInv == AccountsInit => AccountsIInv
<1> USE AccountsAssumption
<1>1. AccountsInit => AccountsTypeOK
  BY DEF AccountsInit, AccountsTypeOK, NoLogin
<1>2. AccountsInit => LoginInv /\ SessionInv
  BY DEF AccountsInit, LoginInv, SessionInv
<1> QED BY <1>1, <1>2 DEF AccountsIInv

LEMMA PasswordType ==
  ASSUME AccountsTypeOK, NEW n \in Users PROVE PasswordOf(n) \in Passwords
BY AccountsAssumption DEF AccountsTypeOK, PasswordOf

LEMMA AccountsTypeStep == AccountsTypeOK /\ [AccountsNext]_accountVars => AccountsTypeOK'
<1> SUFFICES ASSUME AccountsTypeOK, [AccountsNext]_accountVars PROVE AccountsTypeOK'
  OBVIOUS
<1> USE DEF AccountsTypeOK, sessions, history
<1>1. ASSUME NEW s \in Sessions, NEW n \in Users, NEW p \in Passwords, GetUser(s, n, p)
      PROVE  AccountsTypeOK'
  BY <1>1, PasswordType DEF GetUser
<1>2. ASSUME NEW s \in Sessions, Compare(s) PROVE AccountsTypeOK'
  <2>1. NoLogin \in [name : Users \cup {None}, given : Passwords, stored : Passwords]
    BY AccountsAssumption DEF NoLogin
  <2> HIDE DEF NoLogin
  <2>2. login' \in [Sessions -> [name : Users \cup {None}, given : Passwords, stored : Passwords]]
    <3>1. login' = [login EXCEPT ![s] = NoLogin]
      BY <1>2 DEF Compare
    <3> QED BY <2>1, <3>1
  <2>3. jid' \in [Sessions -> Users \cup {None}] /\ with' \in [Sessions -> Passwords]
    <3>1. login[s].name \in Users \cup {None} /\ login[s].given \in Passwords
      OBVIOUS
    <3>2. \/ jid' = [jid EXCEPT ![s] = login[s].name] /\ with' = [with EXCEPT ![s] = login[s].given]
          \/ UNCHANGED <<jid, with>>
      BY <1>2 DEF Compare
    <3> QED BY <3>1, <3>2
  <2>4. phase' \in [Sessions -> {"idle", "read", "kick"}]
    <3>1. \E to \in {"idle", "kick"} : phase' = [phase EXCEPT ![s] = to]
      BY <1>2 DEF Compare
    <3> QED BY <3>1
  <2> QED BY <1>2, <2>2, <2>3, <2>4 DEF Compare
<1>3. ASSUME NEW s \in Sessions, Conflict(s) PROVE AccountsTypeOK'
  BY <1>3 DEF Conflict, Close
<1>4. ASSUME NEW s \in Sessions, Available(s) PROVE AccountsTypeOK'
  BY <1>4 DEF Available
<1>5. ASSUME NEW s \in Sessions, Leave(s) PROVE AccountsTypeOK'
  <2>1. underway' \in [Users -> SUBSET Sessions]
    BY <1>5 DEF Leave
  <2>2. jid' \in [Sessions -> Users \cup {None}] /\ with' \in [Sessions -> Passwords]
    BY <1>5, AccountsAssumption DEF Leave
  <2>3. /\ authed' \in [Sessions -> BOOLEAN]
        /\ listed' \in [Sessions -> BOOLEAN]
        /\ closed' \in [Sessions -> BOOLEAN]
    BY <1>5 DEF Leave
  <2> QED BY <1>5, <2>1, <2>2, <2>3 DEF Leave
<1>6. ASSUME NEW w \in Workers, Request(w) PROVE AccountsTypeOK'
  <2>1. PICK n \in Users, b \in BOOLEAN, p \in Passwords \cup {None} :
          request' = [request EXCEPT ![w] = [put |-> b, name |-> n, password |-> p]]
    BY <1>6 DEF Request
  <2>2. [put |-> b, name |-> n, password |-> p] \in Requests
    BY DEF Requests
  <2>3. request' \in [Workers -> Requests \cup {None}]
    BY <2>1, <2>2
  <2> QED BY <1>6, <2>3 DEF Request
<1>7. ASSUME NEW w \in Workers, Commit(w) PROVE AccountsTypeOK'
  <2>1. request[w] \in Requests
    BY <1>7 DEF Commit
  <2> QED BY <1>7, <2>1 DEF Commit, Requests
<1>8. ASSUME NEW w \in Workers, Kick(w) PROVE AccountsTypeOK'
  <2>1. request[w].name \in Users
    BY <1>8 DEF Kick, Requests
  <2> QED BY <1>8, <2>1 DEF Kick, Close, Unlisted
<1>9. CASE Restart
  BY <1>9, AccountsAssumption DEF Restart, NoLogin
<1>10. CASE UNCHANGED accountVars
  BY <1>10 DEF accountVars
<1> QED BY <1>1, <1>2, <1>3, <1>4, <1>5, <1>6, <1>7, <1>8, <1>9, <1>10 DEF AccountsNext

LEMMA AccountsInvStep == AccountsIInv /\ [AccountsNext]_accountVars => (LoginInv /\ SessionInv)'
<1> SUFFICES ASSUME AccountsIInv, [AccountsNext]_accountVars PROVE (LoginInv /\ SessionInv)'
  OBVIOUS
<1> USE DEF AccountsIInv, AccountsTypeOK, LoginInv, SessionInv, PasswordOf, sessions, history
<1>1. ASSUME NEW s \in Sessions, NEW n \in Users, NEW p \in Passwords, GetUser(s, n, p)
      PROVE  (LoginInv /\ SessionInv)'
  BY <1>1 DEF GetUser
<1>2. ASSUME NEW s \in Sessions, Compare(s) PROVE (LoginInv /\ SessionInv)'
  <2>1. CASE login[s].given = login[s].stored
    BY <1>2, <2>1, AccountsAssumption DEF Compare, NoLogin
  <2>2. CASE login[s].given # login[s].stored
    BY <1>2, <2>2, AccountsAssumption DEF Compare, NoLogin
  <2> QED BY <2>1, <2>2
<1>3. ASSUME NEW s \in Sessions, Conflict(s) PROVE (LoginInv /\ SessionInv)'
  BY <1>3 DEF Conflict, Close
<1>4. ASSUME NEW s \in Sessions, Available(s) PROVE (LoginInv /\ SessionInv)'
  BY <1>4 DEF Available
<1>5. ASSUME NEW s \in Sessions, Leave(s) PROVE (LoginInv /\ SessionInv)'
  BY <1>5, AccountsAssumption DEF Leave
<1>6. ASSUME NEW w \in Workers, Request(w) PROVE (LoginInv /\ SessionInv)'
  BY <1>6 DEF Request
<1>7. ASSUME NEW w \in Workers, Commit(w) PROVE (LoginInv /\ SessionInv)'
  BY <1>7 DEF Commit
<1>8. ASSUME NEW w \in Workers, Kick(w) PROVE (LoginInv /\ SessionInv)'
  <2> DEFINE n == request[w].name
  <2>1. n \in Users
    BY <1>8 DEF Kick, Requests
  <2>2. \A s \in Sessions : phase[s] = "read" /\ login[s].name = n => s \in Unlisted(n)
    BY DEF Unlisted
  <2>3. \A s \in Sessions : jid[s] = n /\ ~closed'[s] => s \in Unlisted(n)
    BY <1>8 DEF Kick, Close, Found, Unlisted
  <2>4. \A s \in Sessions : closed[s] => closed'[s]
    BY <1>8 DEF Kick, Close
  <2>5. underway' = [underway EXCEPT ![n] = Unlisted(n)] /\ kicked' = kicked \cup {n}
    BY <1>8 DEF Kick
  <2>6. UNCHANGED <<users, phase, login, jid, with>>
    BY <1>8 DEF Kick
  <2> HIDE DEF n
  <2> QED BY <2>1, <2>2, <2>3, <2>4, <2>5, <2>6
<1>9. CASE Restart
  BY <1>9, AccountsAssumption DEF Restart
<1>10. CASE UNCHANGED accountVars
  BY <1>10 DEF accountVars
<1> QED BY <1>1, <1>2, <1>3, <1>4, <1>5, <1>6, <1>7, <1>8, <1>9, <1>10 DEF AccountsNext

\* Whatever logins, changes, kicks and restarts are interleaved, a kick that
\* follows a change of the user leaves no listed session behind that logged in
\* with another password, but for those the kick could not find.
THEOREM KicksFollowChanges == AccountsSpec => []KickFollowsChange
<1>1. AccountsInit => AccountsIInv
  BY AccountsInitIInv
<1>2. AccountsIInv /\ [AccountsNext]_accountVars => AccountsIInv'
  BY AccountsTypeStep, AccountsInvStep DEF AccountsIInv
<1>3. AccountsIInv => KickFollowsChange
  BY DEF AccountsIInv, SessionInv, KickFollowsChange
<1> QED BY <1>1, <1>2, <1>3, PTL DEF AccountsSpec

----------------------------------------------------------------------------
(***************************************************************************)
(* Streams.  What is proved of the elements of a sequence of tokens is     *)
(* what one token more does to them (StartGrows, TextGrows, EndGrows),     *)
(* then that the elements a server has under way are those still open      *)
(* (Following), then that this is so of what the server has read (XmlInv). *)
(*                                                                         *)
(* Depths.                                                                 *)
(***************************************************************************)
Count(s, n, type) == Cardinality({j \in 1 .. n : s[j].type = type})

LEMMA CountNext ==
  ASSUME NEW s, NEW n \in Nat, NEW type
  PROVE  /\ Count(s, n, type) \in Nat
         /\ Count(s, n + 1, type) = Count(s, n, type) + IF s[n + 1].type = type THEN 1 ELSE 0
<1> DEFINE A == {j \in 1 .. n : s[j].type = type}
           B == {j \in 1 .. n + 1 : s[j].type = type}
<1>1. IsFiniteSet(A)
  <2>1. IsFiniteSet(1 .. n) /\ A \subseteq 1 .. n
    BY FS_Interval
  <2> HIDE DEF A
  <2> QED BY <2>1, FS_Subset
<1>2. n + 1 \notin A /\ B = IF s[n + 1].type = type THEN A \cup {n + 1} ELSE A
  OBVIOUS
<1>3. Count(s, n, type) = Cardinality(A) /\ Count(s, n + 1, type) = Cardinality(B)
  BY DEF Count
<1> HIDE DEF A, B
<1>4. Cardinality(A) \in Nat
  BY <1>1, FS_CardinalityType
<1>5. Cardinality(A \cup {n + 1}) = Cardinality(A) + 1
  BY <1>1, <1>2, FS_AddElement
<1> QED BY <1>2, <1>3, <1>4, <1>5

\* A token changes the depth by one at most.
LEMMA DepthNext ==
  ASSUME NEW s, NEW n \in Nat
  PROVE  /\ Depth(s, n) \in Int
         /\ s[n + 1].type = "start" => Depth(s, n + 1) = Depth(s, n) + 1
         /\ s[n + 1].type = "end" => Depth(s, n + 1) = Depth(s, n) - 1
         /\ s[n + 1].type \notin {"start", "end"} => Depth(s, n + 1) = Depth(s, n)
<1>1. \A m \in Nat : Depth(s, m) = Count(s, m, "start") - Count(s, m, "end")
  BY DEF Depth, Count
<1>2. /\ Count(s, n, "start") \in Nat
      /\ Count(s, n + 1, "start") = Count(s, n, "start") + IF s[n + 1].type = "start" THEN 1 ELSE 0
  BY CountNext
<1>3. /\ Count(s, n, "end") \in Nat
      /\ Count(s, n + 1, "end") = Count(s, n, "end") + IF s[n + 1].type = "end" THEN 1 ELSE 0
  BY CountNext
<1> QED BY <1>1, <1>2, <1>3

LEMMA DepthType == ASSUME NEW s, NEW n \in Nat PROVE Depth(s, n) \in Int
BY DepthNext

\* The depth after n tokens depends on these only.
LEMMA DepthSame ==
  ASSUME NEW s, NEW u, NEW n \in Nat, \A j \in 1 .. n : s[j] = u[j]
  PROVE  Depth(s, n) = Depth(u, n)
<1>1. ASSUME NEW type PROVE {j \in 1 .. n : s[j].type = type} = {j \in 1 .. n : u[j].type = type}
  OBVIOUS
<1> QED BY <1>1 DEF Depth

----------------------------------------------------------------------------
(***************************************************************************)
(* One token more: u is s with x at the end.                               *)
(***************************************************************************)
Longer(s, x, u) ==
  /\ Len(s) \in Nat /\ DOMAIN s = 1 .. Len(s)
  /\ Len(u) = Len(s) + 1 /\ DOMAIN u = 1 .. Len(u)
  /\ u[Len(s) + 1] = x /\ \A j \in 1 .. Len(s) : u[j] = s[j]

LEMMA AppendLonger ==
  ASSUME NEW S, NEW s \in Seq(S), NEW x \in S
  PROVE  Longer(s, x, Append(s, x))
BY DEF Longer

LEMMA StartsLonger ==
  ASSUME NEW s, NEW x, NEW u, Longer(s, x, u)
  PROVE  Starts(u) = Starts(s) \cup (IF x.type = "start" THEN {Len(s) + 1} ELSE {})
BY DEF Longer, Starts

LEMMA DepthLonger ==
  ASSUME NEW s, NEW x, NEW u, Longer(s, x, u)
  PROVE  \A m \in 0 .. Len(s) : Depth(u, m) = Depth(s, m) /\ Depth(s, m) \in Int
<1> SUFFICES ASSUME NEW m \in 0 .. Len(s) PROVE Depth(u, m) = Depth(s, m) /\ Depth(s, m) \in Int
  OBVIOUS
<1>1. m \in Nat /\ \A j \in 1 .. m : u[j] = s[j]
  BY DEF Longer
<1> QED BY <1>1, DepthSame, DepthType

LEMMA DirectlyLonger ==
  ASSUME NEW s, NEW x, NEW u, Longer(s, x, u), NEW i \in 1 .. Len(s), NEW j \in 1 .. Len(s)
  PROVE  Directly(u, i, j) <=> Directly(s, i, j)
<1>1. i <= j - 1 => \A k \in i .. j - 1 : k \in 0 .. Len(s)
  BY DEF Longer
<1>2. i < j => i \in 0 .. Len(s) /\ j - 1 \in 0 .. Len(s) /\ i <= j - 1
  BY DEF Longer
<1> QED BY <1>1, <1>2, DepthLonger DEF Directly

LEMMA EndedLonger ==
  ASSUME NEW s, NEW x, NEW u, Longer(s, x, u), NEW i \in 1 .. Len(s)
  PROVE  Ended(u, i) <=> Ended(s, i) \/ Depth(u, Len(s) + 1) < Depth(s, i)
<1>1. Len(s) \in Nat /\ Len(u) = Len(s) + 1
  BY DEF Longer
<1>2. i + 1 .. Len(u) = i + 1 .. Len(s) \cup {Len(s) + 1}
  BY <1>1
<1>3. i \in 0 .. Len(s) /\ \A k \in i + 1 .. Len(s) : k \in 0 .. Len(s)
  BY <1>1
<1> QED BY <1>2, <1>3, DepthLonger DEF Ended

\* The new token stands in the inmost element that has not ended.
LEMMA NewDirectly ==
  ASSUME NEW s, NEW x, NEW u, Longer(s, x, u), NEW i \in 1 .. Len(s)
  PROVE  Directly(u, i, Len(s) + 1) <=> Depth(s, Len(s)) = Depth(s, i) /\ ~Ended(s, i)
<1> DEFINE n == Len(s)
<1>1. n \in Nat /\ i < n + 1 /\ (n + 1) - 1 = n /\ i \in 0 .. n /\ n \in 0 .. n
  BY DEF Longer
<1>2. i .. n = {i} \cup i + 1 .. n /\ \A k \in i .. n : k \in 0 .. n
  BY <1>1
<1> HIDE DEF n
<1>3. Directly(u, i, n + 1) <=> Depth(s, n) = Depth(s, i) /\ \A k \in i .. n : Depth(s, k) >= Depth(s, i)
  BY <1>1, <1>2, DepthLonger DEF Directly, n
<1>4. \A k \in 0 .. n : Depth(s, k) \in Int
  BY DepthLonger DEF n
<1>5. ~Ended(s, i) <=> \A k \in i + 1 .. n : Depth(s, k) >= Depth(s, i)
  BY <1>1, <1>2, <1>4 DEF Ended, n
<1> QED BY <1>1, <1>2, <1>3, <1>4, <1>5 DEF n

LEMMA NewOpen ==
  ASSUME NEW s, NEW x, NEW u, Longer(s, x, u)
  PROVE  ~Ended(u, Len(s) + 1) /\ \A j \in 1 .. Len(u) : ~Directly(u, Len(s) + 1, j)
<1>1. Len(s) \in Nat /\ Len(u) = Len(s) + 1
  BY DEF Longer
<1> QED BY <1>1 DEF Ended, Directly

\* The children of an element that have ended, and the texts directly in it.
Kids(s, i)  == {j \in Starts(s) : Directly(s, i, j) /\ Ended(s, j)}
Texts(s, i) == {j \in DOMAIN s : Directly(s, i, j) /\ s[j].type = "text"}

\* The elements that are open at the end of s and the innermost of them.
Inmost(s) == {p \in Starts(s) : ~Ended(s, p) /\ Depth(s, p) = Depth(s, Len(s))}

\* A start is one deeper than what is before it.
LEMMA StartDepth ==
  ASSUME NEW s, Len(s) \in Nat, DOMAIN s = 1 .. Len(s), NEW p \in Starts(s)
  PROVE  p \in 1 .. Len(s) /\ Depth(s, p - 1) \in Int /\ Depth(s, p) = Depth(s, p - 1) + 1
<1>1. p \in 1 .. Len(s) /\ p - 1 \in Nat /\ (p - 1) + 1 = p /\ s[p].type = "start"
  BY DEF Starts
<1> QED BY <1>1, DepthNext

\* Two elements are not open at the same depth.
LEMMA OneInmost ==
  ASSUME NEW s, Len(s) \in Nat, DOMAIN s = 1 .. Len(s), NEW p \in Starts(s), NEW q \in Starts(s),
         ~Ended(s, p), ~Ended(s, q), Depth(s, p) = Depth(s, q)
  PROVE  p = q
<1>1. ASSUME NEW i \in Starts(s), NEW j \in Starts(s), ~Ended(s, i), Depth(s, i) = Depth(s, j), i < j PROVE FALSE
  <2>1. /\ i \in 1 .. Len(s) /\ j \in 1 .. Len(s) /\ Depth(s, j - 1) \in Int
        /\ Depth(s, j) = Depth(s, j - 1) + 1
    BY StartDepth
  <2>2. Depth(s, j - 1) < Depth(s, i)
    BY <1>1, <2>1
  <2>3. j - 1 # i
    BY <2>1, <2>2
  <2>4. j - 1 \in i + 1 .. Len(s)
    BY <1>1, <2>1, <2>3
  <2> QED BY <1>1, <2>2, <2>4 DEF Ended
<1>2. p \in Nat /\ q \in Nat
  BY StartDepth
<1> QED BY <1>1, <1>2

\* Unless the new token is an end, no child comes to an element.
LEMMA KidsStay ==
  ASSUME NEW s, NEW x, NEW u, Longer(s, x, u), x.type # "end", NEW i \in 1 .. Len(s)
  PROVE  Kids(u, i) = Kids(s, i)
<1> DEFINE n == Len(s)
<1>1. n \in Nat /\ Len(u) = n + 1 /\ u[n + 1] = x /\ Starts(s) \subseteq 1 .. n
  BY DEF Longer, Starts
<1>2. Depth(s, n) \in Int /\ Depth(u, n) = Depth(s, n)
  BY <1>1, DepthLonger
<1>3. Depth(u, n + 1) >= Depth(s, n)
  <2>1. u[n + 1].type # "end"
    BY <1>1
  <2> HIDE DEF n
  <2> QED BY <1>1, <1>2, <2>1, DepthNext
<1>4. ASSUME NEW j \in 1 .. n PROVE Ended(u, j) <=> Ended(s, j)
  <2>1. Ended(u, j) <=> Ended(s, j) \/ Depth(u, n + 1) < Depth(s, j)
    BY EndedLonger
  <2>2. Depth(s, j) \in Int
    BY <1>1, DepthType
  <2>3. ~Ended(s, j) => Depth(s, n) >= Depth(s, j)
    <3>1. CASE j = n
      BY <1>2, <3>1
    <3>2. CASE j # n
      <4>1. n \in j + 1 .. Len(s)
        BY <1>1, <3>2
      <4> QED BY <1>2, <2>2, <4>1 DEF Ended
    <3> QED BY <3>1, <3>2
  <2> HIDE DEF n
  <2> QED BY <1>2, <1>3, <2>1, <2>2, <2>3, <1>1, DepthType
<1>5. ~Ended(u, n + 1)
  BY NewOpen
<1>6. ASSUME NEW j \in 1 .. n PROVE Directly(u, i, j) <=> Directly(s, i, j)
  BY DirectlyLonger
<1>7. Starts(u) = Starts(s) \cup (IF x.type = "start" THEN {n + 1} ELSE {})
  BY StartsLonger
<1> HIDE DEF n
<1>8. ASSUME NEW j PROVE j \in Kids(u, i) <=> j \in Kids(s, i)
  BY <1>1, <1>4, <1>5, <1>6, <1>7 DEF Kids
<1> QED BY <1>8

\* An end ends the inmost element.
LEMMA KidsEnd ==
  ASSUME NEW s, NEW x, NEW u, Longer(s, x, u), x.type = "end", NEW i \in 1 .. Len(s)
  PROVE  Kids(u, i) = Kids(s, i) \cup {p \in Inmost(s) : Directly(s, i, p)}
<1> DEFINE n == Len(s)
<1>1. n \in Nat /\ Len(u) = n + 1 /\ u[n + 1] = x /\ Starts(s) \subseteq 1 .. n
  BY DEF Longer, Starts
<1>2. Depth(s, n) \in Int /\ Depth(u, n) = Depth(s, n)
  BY <1>1, DepthLonger
<1>3. Depth(u, n + 1) = Depth(s, n) - 1
  <2>1. u[n + 1].type = "end"
    BY <1>1
  <2> HIDE DEF n
  <2> QED BY <1>1, <1>2, <2>1, DepthNext
<1>4. ASSUME NEW j \in 1 .. n PROVE Ended(u, j) <=> Ended(s, j) \/ (~Ended(s, j) /\ Depth(s, j) = Depth(s, n))
  <2>1. Ended(u, j) <=> Ended(s, j) \/ Depth(u, n + 1) < Depth(s, j)
    BY EndedLonger
  <2>2. Depth(s, j) \in Int
    BY <1>1, DepthType
  <2>3. ~Ended(s, j) => Depth(s, n) >= Depth(s, j)
    <3>1. CASE j = n
      BY <1>2, <3>1
    <3>2. CASE j # n
      <4>1. n \in j + 1 .. Len(s)
        BY <1>1, <3>2
      <4> QED BY <1>2, <2>2, <4>1 DEF Ended
    <3> QED BY <3>1, <3>2
  <2> HIDE DEF n
  <2> QED BY <1>2, <1>3, <2>1, <2>2, <2>3
<1>6. ASSUME NEW j \in 1 .. n PROVE Directly(u, i, j) <=> Directly(s, i, j)
  BY DirectlyLonger
<1>7. Starts(u) = Starts(s)
  BY StartsLonger
<1>8. Inmost(s) = {p \in Starts(s) : ~Ended(s, p) /\ Depth(s, p) = Depth(s, n)}
  BY DEF Inmost
<1> HIDE DEF n
<1>9. ASSUME NEW j PROVE j \in Kids(u, i) <=> j \in Kids(s, i) \/ (j \in Inmost(s) /\ Directly(s, i, j))
  BY <1>1, <1>4, <1>6, <1>7, <1>8 DEF Kids
<1> QED BY <1>9

\* An element that has ended gets no more children.
LEMMA KidsOfEnded ==
  ASSUME NEW s, NEW x, NEW u, Longer(s, x, u), NEW i \in Starts(s), Ended(s, i)
  PROVE  Kids(u, i) = Kids(s, i)
<1>1. i \in 1 .. Len(s) /\ Len(s) \in Nat /\ DOMAIN s = 1 .. Len(s)
  BY DEF Longer, Starts
<1>2. CASE x.type # "end"
  BY <1>1, <1>2, KidsStay
<1>3. CASE x.type = "end"
  <2>1. ASSUME NEW p \in Inmost(s), Directly(s, i, p) PROVE FALSE
    <3>1. /\ p \in Starts(s) /\ ~Ended(s, p)
          /\ i < p /\ Depth(s, p - 1) = Depth(s, i) /\ \A k \in i .. p - 1 : Depth(s, k) >= Depth(s, i)
      BY <2>1 DEF Inmost, Directly
    <3>2. p \in 1 .. Len(s) /\ Depth(s, p - 1) \in Int /\ Depth(s, p) = Depth(s, p - 1) + 1
      BY <1>1, <3>1, StartDepth
    <3>3. PICK j \in i + 1 .. Len(s) : Depth(s, j) < Depth(s, i)
      BY DEF Ended
    <3>4. Depth(s, j) \in Int
      BY <1>1, <3>3, DepthType
    <3>5. j \notin i .. p - 1
      BY <3>1, <3>2, <3>3, <3>4
    <3>6. j # p
      BY <3>1, <3>2, <3>3, <3>4
    <3>7. j \in p + 1 .. Len(s)
      BY <1>1, <3>2, <3>3, <3>5, <3>6
    <3>8. Depth(s, j) < Depth(s, p)
      BY <3>1, <3>2, <3>3, <3>4
    <3> QED BY <3>1, <3>7, <3>8 DEF Ended
  <2> QED BY <1>1, <1>3, <2>1, KidsEnd
<1> QED BY <1>2, <1>3

\* A text is one of the inmost element, anything else of none.
LEMMA TextsLonger ==
  ASSUME NEW s, NEW x, NEW u, Longer(s, x, u), NEW i \in 1 .. Len(s)
  PROVE  Texts(u, i) = Texts(s, i) \cup
           (IF x.type = "text" /\ Depth(s, Len(s)) = Depth(s, i) /\ ~Ended(s, i) THEN {Len(s) + 1} ELSE {})
<1> DEFINE n == Len(s)
<1>1. /\ n \in Nat /\ u[n + 1] = x /\ DOMAIN s = 1 .. n /\ DOMAIN u = 1 .. n \cup {n + 1}
      /\ \A j \in 1 .. n : u[j] = s[j]
  BY DEF Longer
<1>2. Directly(u, i, n + 1) <=> Depth(s, n) = Depth(s, i) /\ ~Ended(s, i)
  BY NewDirectly
<1>3. ASSUME NEW j \in 1 .. n PROVE Directly(u, i, j) <=> Directly(s, i, j)
  BY DirectlyLonger
<1> HIDE DEF n
<1>4. ASSUME NEW j
      PROVE  j \in Texts(u, i) <=>
               j \in Texts(s, i) \/ (j = n + 1 /\ x.type = "text" /\ Depth(s, n) = Depth(s, i) /\ ~Ended(s, i))
  BY <1>1, <1>2, <1>3 DEF Texts
<1> QED BY <1>4 DEF n

LEMMA TextsStay ==
  ASSUME NEW s, NEW x, NEW u, Longer(s, x, u), NEW i \in 1 .. Len(s), x.type # "text" \/ Ended(s, i)
  PROVE  Texts(u, i) = Texts(s, i)
<1> DEFINE more == x.type = "text" /\ Depth(s, Len(s)) = Depth(s, i) /\ ~Ended(s, i)
<1>1. ~more
  OBVIOUS
<1>2. Texts(u, i) = Texts(s, i) \cup (IF more THEN {Len(s) + 1} ELSE {})
  BY TextsLonger
<1> HIDE DEF more
<1> QED BY <1>1, <1>2

----------------------------------------------------------------------------
(***************************************************************************)
(* Elements.                                                               *)
(***************************************************************************)
\* The equation of the recursive function in ElementsIn.
KidsInOrder(s, i) == Among(Positions(s), Kids(s, i))

ElementOf(f, s, i) ==
  [name |-> s[i].name,
   children |-> [k \in 1 .. Len(KidsInOrder(s, i)) |-> f[KidsInOrder(s, i)[k]]],
   text |-> IF Texts(s, i) = {} THEN NoText ELSE s[Max(Texts(s, i))].text]

LEMMA InOrderIs ==
  ASSUME NEW s, NEW i, Len(s) \in Nat, DOMAIN s = 1 .. Len(s)
  PROVE  /\ Positions(s) = UpTo(Len(s)) /\ Positions(s) \in Seq(Nat)
         /\ Len(KidsInOrder(s, i)) \in Nat
         /\ \A k \in 1 .. Len(KidsInOrder(s, i)) : KidsInOrder(s, i)[k] \in Kids(s, i)
<1> DEFINE all  == Positions(s)
           kids == KidsInOrder(s, i)
<1>1. all = UpTo(Len(s)) /\ all \in Seq(Nat)
  BY UpToNext DEF Positions, UpTo
<1>2. kids \in Seq(ToSet(all)) /\ ToSet(kids) = ToSet(all) \cap Kids(s, i)
  BY <1>1, AmongIs DEF KidsInOrder
<1> HIDE DEF kids, all
<1>3. Len(kids) \in Nat /\ \A k \in 1 .. Len(kids) : kids[k] \in ToSet(kids)
  BY <1>2 DEF ToSet
<1> QED BY <1>1, <1>2, <1>3 DEF kids, all

\* The children of an element start after it: functions that agree on these agree on it.
LEMMA ElementSame ==
  ASSUME NEW s, Len(s) \in Nat, DOMAIN s = 1 .. Len(s), NEW f, NEW g, NEW i,
         \A j \in Kids(s, i) : f[j] = g[j]
  PROVE  ElementOf(f, s, i) = ElementOf(g, s, i)
<1> DEFINE kids == KidsInOrder(s, i)
<1>1. \A k \in 1 .. Len(kids) : kids[k] \in Kids(s, i)
  BY InOrderIs
<1>2. [k \in 1 .. Len(kids) |-> f[kids[k]]] = [k \in 1 .. Len(kids) |-> g[kids[k]]]
  BY <1>1
<1> QED BY <1>2 DEF ElementOf

LEMMA ElementsExist ==
  ASSUME NEW s, Len(s) \in Nat, DOMAIN s = 1 .. Len(s)
  PROVE  \E f : f = [i \in Starts(s) |-> ElementOf(f, s, i)]
<1> DEFINE n == Len(s)
           Ok(f, m) == f = [i \in Starts(s) |-> f[i]] /\ \A i \in Starts(s) : i > n - m => f[i] = ElementOf(f, s, i)
           T == {m \in Nat : \E f : Ok(f, m)}
<1>0. Starts(s) \subseteq 1 .. n /\ n \in Nat
  BY DEF Starts
<1>1. 0 \in T
  <2>1. Ok([i \in Starts(s) |-> 0], 0)
    BY <1>0
  <2> QED BY <2>1
<1>2. ASSUME NEW m \in Nat, m \in T PROVE m + 1 \in T
  <2>1. PICK f : Ok(f, m)
    BY <1>2
  <2> DEFINE g == [i \in Starts(s) |-> IF i > n - m THEN f[i] ELSE ElementOf(f, s, i)]
  <2>2. g = [i \in Starts(s) |-> g[i]]
    OBVIOUS
  <2>3. ASSUME NEW i \in Starts(s), i > n - (m + 1) PROVE g[i] = ElementOf(g, s, i)
    <3>1. g[i] = ElementOf(f, s, i)
      BY <2>1
    <3>2. ASSUME NEW j \in Kids(s, i) PROVE g[j] = f[j]
      <4>1. j \in Starts(s) /\ i < j
        BY DEF Kids, Directly
      <4>2. i \in Nat /\ j \in Nat /\ n \in Nat
        BY <1>0, <4>1
      <4>3. j > n - m
        <5> HIDE DEF n
        <5> QED BY <2>3, <4>1, <4>2
      <4> QED BY <4>1, <4>3
    <3>3. \A j \in Kids(s, i) : f[j] = g[j]
      BY <3>2
    <3> HIDE DEF g
    <3>4. ElementOf(f, s, i) = ElementOf(g, s, i)
      BY <3>3, ElementSame
    <3> QED BY <3>1, <3>4
  <2>4. Ok(g, m + 1)
    BY <2>2, <2>3
  <2> HIDE DEF g
  <2>5. \E h : Ok(h, m + 1)
    BY <2>4
  <2> QED BY <2>5
<1>3. n \in T
  <2> HIDE DEF T
  <2> QED BY <1>0, <1>1, <1>2, Induction
<1>4. PICK f : Ok(f, n)
  BY <1>3
<1>5. \A i \in Starts(s) : i > n - n
  BY <1>0
<1> HIDE DEF n
<1>6. f = [i \in Starts(s) |-> ElementOf(f, s, i)]
  BY <1>4, <1>5
<1> QED BY <1>6

LEMMA ElementIs ==
  ASSUME NEW s, Len(s) \in Nat, DOMAIN s = 1 .. Len(s), NEW i \in Starts(s)
  PROVE  ElementsIn(s)[i] = ElementOf(ElementsIn(s), s, i)
<1> DEFINE Body(f) == [j \in Starts(s) |-> ElementOf(f, s, j)]
           g == CHOOSE f : f = Body(f)
<1>1. \E f : f = Body(f)
  BY ElementsExist
<1>2. g = Body(g)
  BY <1>1
<1>3. ElementsIn(s) = g
  BY DEF ElementsIn, ElementOf, KidsInOrder, Kids, Texts
<1> HIDE DEF g
<1> QED BY <1>2, <1>3

\* The order of a set of earlier positions does not change.
LEMMA InOrderLonger ==
  ASSUME NEW s, NEW x, NEW u, Longer(s, x, u), NEW A \in SUBSET (1 .. Len(s))
  PROVE  Among(Positions(u), A) = Among(Positions(s), A)
<1> DEFINE n == Len(s)
<1>1. n \in Nat /\ Len(u) = n + 1
  BY DEF Longer
<1>2. Positions(u) = UpTo(n + 1) /\ Positions(s) = UpTo(n)
  BY <1>1 DEF Positions, UpTo
<1>3. UpTo(n) \in Seq(Nat) /\ UpTo(n + 1) = Append(UpTo(n), n + 1) /\ n + 1 \in Nat
  BY <1>1, UpToNext
<1>4. n + 1 \notin A
  BY <1>1
<1> DEFINE list == UpTo(n)
           y    == n + 1
<1> HIDE DEF n, list, y
<1>5. Among(Append(list, y), A) = Among(list, A)
  <2>1. list \in Seq(Nat) /\ y \in Nat /\ y \notin A
    BY <1>3, <1>4 DEF list, y
  <2> QED BY <2>1, AmongAppend
<1> QED BY <1>2, <1>3, <1>5 DEF list, y

\* An element with the same children and texts is the same, if the children are.
LEMMA ElementLonger ==
  ASSUME NEW s, NEW x, NEW u, Longer(s, x, u), NEW i \in Starts(s),
         Kids(u, i) = Kids(s, i), Texts(u, i) = Texts(s, i),
         \A j \in Kids(s, i) : ElementsIn(u)[j] = ElementsIn(s)[j]
  PROVE  ElementsIn(u)[i] = ElementsIn(s)[i]
<1> DEFINE E == ElementsIn(s)
           F == ElementsIn(u)
<1>1. /\ Len(s) \in Nat /\ DOMAIN s = 1 .. Len(s) /\ Len(u) \in Nat /\ DOMAIN u = 1 .. Len(u)
      /\ \A j \in 1 .. Len(s) : u[j] = s[j]
  BY DEF Longer
<1>2. i \in Starts(u) /\ i \in 1 .. Len(s)
  BY <1>1, StartsLonger DEF Starts
<1>3. E[i] = ElementOf(E, s, i) /\ F[i] = ElementOf(F, u, i)
  BY <1>1, <1>2, ElementIs
<1>4. KidsInOrder(u, i) = KidsInOrder(s, i)
  <2>1. Kids(s, i) \in SUBSET (1 .. Len(s))
    BY <1>1 DEF Kids, Starts
  <2> QED BY <2>1, InOrderLonger DEF KidsInOrder
<1>5. Texts(s, i) # {} => u[Max(Texts(s, i))].text = s[Max(Texts(s, i))].text
  <2>1. Texts(s, i) \in SUBSET (1 .. Len(s))
    BY <1>1 DEF Texts
  <2>2. Texts(s, i) # {} => Max(Texts(s, i)) \in 1 .. Len(s)
    BY <1>1, <2>1, Greatest
  <2> QED BY <1>1, <2>2
<1> HIDE DEF E, F
<1>6. ElementOf(F, u, i) = ElementOf(F, s, i)
  BY <1>1, <1>2, <1>4, <1>5 DEF ElementOf
<1>7. ElementOf(F, s, i) = ElementOf(E, s, i)
  <2>1. \A j \in Kids(s, i) : F[j] = E[j]
    BY DEF E, F
  <2> QED BY <1>1, <2>1, ElementSame
<1> QED BY <1>3, <1>6, <1>7 DEF E, F

\* An element that has ended stays as it is.
LEMMA EndedStays ==
  ASSUME NEW s, NEW x, NEW u, Longer(s, x, u)
  PROVE  \A i \in Starts(s) : Ended(s, i) => ElementsIn(u)[i] = ElementsIn(s)[i]
<1> DEFINE n == Len(s)
           Same(i) == Ended(s, i) => ElementsIn(u)[i] = ElementsIn(s)[i]
           T == {m \in Nat : \A i \in Starts(s) : i > n - m => Same(i)}
<1>0. Starts(s) \subseteq 1 .. n /\ n \in Nat
  BY DEF Starts, Longer
<1>1. 0 \in T
  BY <1>0
<1>2. ASSUME NEW m \in Nat, m \in T PROVE m + 1 \in T
  <2> SUFFICES ASSUME NEW i \in Starts(s), i > n - (m + 1), Ended(s, i)
               PROVE  ElementsIn(u)[i] = ElementsIn(s)[i]
    OBVIOUS
  <2>1. Kids(u, i) = Kids(s, i)
    BY KidsOfEnded
  <2>2. Texts(u, i) = Texts(s, i)
    <3>1. i \in 1 .. Len(s)
      BY <1>0
    <3> QED BY <3>1, TextsStay
  <2>3. ASSUME NEW j \in Kids(s, i) PROVE ElementsIn(u)[j] = ElementsIn(s)[j]
    <3>1. j \in Starts(s) /\ i < j /\ Ended(s, j)
      BY DEF Kids, Directly
    <3>2. j > n - m
      <4>1. i \in Nat /\ j \in Nat /\ n \in Nat
        BY <1>0, <3>1
      <4> HIDE DEF n
      <4> QED BY <3>1, <4>1
    <3> QED BY <1>2, <3>1, <3>2
  <2> QED BY <2>1, <2>2, <2>3, ElementLonger
<1>3. n \in T
  <2> HIDE DEF T
  <2> QED BY <1>0, <1>1, <1>2, Induction
<1>4. \A i \in Starts(s) : i > n - n
  BY <1>0
<1> QED BY <1>3, <1>4

LEMMA KidsEnded == ASSUME NEW s, NEW i, NEW j \in Kids(s, i) PROVE j \in Starts(s) /\ Ended(s, j)
BY DEF Kids

\* A start opens an element and changes no other.
LEMMA StartGrows ==
  ASSUME NEW s, NEW x, NEW u, Longer(s, x, u), x.type = "start"
  PROVE  /\ \A i \in Starts(s) : ElementsIn(u)[i] = ElementsIn(s)[i]
         /\ Len(s) + 1 \in Starts(u) /\ ElementsIn(u)[Len(s) + 1] = Element(x.name)
<1>1. /\ Len(s) \in Nat /\ DOMAIN s = 1 .. Len(s) /\ Len(u) \in Nat /\ DOMAIN u = 1 .. Len(u)
      /\ u[Len(s) + 1] = x /\ Len(u) = Len(s) + 1
  BY DEF Longer
<1>2. ASSUME NEW i \in Starts(s) PROVE ElementsIn(u)[i] = ElementsIn(s)[i]
  <2>1. i \in 1 .. Len(s)
    BY <1>1 DEF Starts
  <2>2. Kids(u, i) = Kids(s, i)
    BY <2>1, KidsStay
  <2>3. Texts(u, i) = Texts(s, i)
    <3>1. x.type # "text"
      OBVIOUS
    <3> QED BY <2>1, <3>1, TextsStay
  <2>4. \A j \in Kids(s, i) : ElementsIn(u)[j] = ElementsIn(s)[j]
    BY KidsEnded, EndedStays
  <2> QED BY <2>2, <2>3, <2>4, ElementLonger
<1>3. Len(s) + 1 \in Starts(u)
  BY StartsLonger
<1> DEFINE i == Len(s) + 1
<1>4. Kids(u, i) = {} /\ Texts(u, i) = {}
  BY <1>1, NewOpen DEF Kids, Texts, Starts
<1>5. ElementsIn(u)[i] = ElementOf(ElementsIn(u), u, i)
  BY <1>1, <1>3, ElementIs
<1>6. KidsInOrder(u, i) = <<>>
  <2>1. \A k \in 1 .. Len(KidsInOrder(u, i)) : FALSE
    BY <1>1, <1>4, InOrderIs
  <2>2. Positions(u) \in Seq(Nat)
    BY <1>1, InOrderIs
  <2>3. KidsInOrder(u, i) \in Seq(ToSet(Positions(u)))
    BY <2>2, AmongIs DEF KidsInOrder
  <2> HIDE DEF i
  <2> QED BY <2>1, <2>3
<1>7. [k \in 1 .. Len(KidsInOrder(u, i)) |-> ElementsIn(u)[KidsInOrder(u, i)[k]]] = <<>>
  <2>1. Len(KidsInOrder(u, i)) = 0
    BY <1>6
  <2> HIDE DEF i
  <2> QED BY <2>1
<1>8. ElementsIn(u)[i] = Element(x.name)
  <2> HIDE DEF i
  <2> QED BY <1>1, <1>4, <1>5, <1>7 DEF ElementOf, Element, i
<1> QED BY <1>2, <1>3, <1>8

\* A text becomes the text of the inmost element.
LEMMA TextGrows ==
  ASSUME NEW s, NEW x, NEW u, Longer(s, x, u), x.type = "text"
  PROVE  \A i \in Starts(s) : ElementsIn(u)[i] = IF i \in Inmost(s) THEN [ElementsIn(s)[i] EXCEPT !.text = x.text]
                                                 ELSE ElementsIn(s)[i]
<1> SUFFICES ASSUME NEW i \in Starts(s)
             PROVE  ElementsIn(u)[i] = IF i \in Inmost(s) THEN [ElementsIn(s)[i] EXCEPT !.text = x.text]
                                       ELSE ElementsIn(s)[i]
  OBVIOUS
<1> DEFINE n == Len(s)
           E == ElementsIn(s)
           F == ElementsIn(u)
<1>1. /\ n \in Nat /\ DOMAIN s = 1 .. n /\ Len(u) = n + 1 /\ DOMAIN u = 1 .. n + 1
      /\ u[n + 1] = x /\ i \in 1 .. n /\ u[i] = s[i]
  BY DEF Longer, Starts
<1>2. Kids(u, i) = Kids(s, i)
  BY <1>1, KidsStay
<1>3. Texts(u, i) = Texts(s, i) \cup (IF i \in Inmost(s) THEN {n + 1} ELSE {})
  BY <1>1, TextsLonger DEF Inmost
<1>4. \A j \in Kids(s, i) : F[j] = E[j]
  BY KidsEnded, EndedStays
<1>5. CASE i \notin Inmost(s)
  <2>1. Texts(u, i) = Texts(s, i)
    BY <1>3, <1>5
  <2> QED BY <1>2, <1>4, <1>5, <2>1, ElementLonger
<1>6. CASE i \in Inmost(s)
  <2>1. E[i] = ElementOf(E, s, i)
    BY <1>1, ElementIs
  <2>2. F[i] = ElementOf(F, u, i)
    <3>1. i \in Starts(u) /\ Len(u) \in Nat /\ DOMAIN u = 1 .. Len(u)
      BY <1>1, StartsLonger
    <3> QED BY <3>1, ElementIs
  <2>3. KidsInOrder(u, i) = KidsInOrder(s, i)
    <3>1. Kids(s, i) \in SUBSET (1 .. Len(s))
      BY <1>1 DEF Kids, Starts
    <3> QED BY <1>2, <3>1, InOrderLonger DEF KidsInOrder
  <2>4. Texts(u, i) # {} /\ Max(Texts(u, i)) = n + 1
    <3> DEFINE A == Texts(s, i)
    <3>1. A \in SUBSET (1 .. n)
      BY <1>1 DEF Texts
    <3>2. Texts(u, i) = A \cup {n + 1}
      BY <1>3, <1>6
    <3> HIDE DEF A, n
    <3>3. \A y \in A \cup {n + 1} : n + 1 >= y
      BY <1>1, <3>1
    <3>4. \A m \in A \cup {n + 1} : (\A y \in A \cup {n + 1} : m >= y) => m = n + 1
      BY <1>1, <3>1
    <3>5. Max(A \cup {n + 1}) = n + 1
      BY <3>3, <3>4 DEF Max
    <3> QED BY <3>2, <3>5
  <2> DEFINE kids == KidsInOrder(s, i)
  <2>5. [k \in 1 .. Len(kids) |-> F[kids[k]]] = [k \in 1 .. Len(kids) |-> E[kids[k]]]
    BY <1>1, <1>4, InOrderIs
  <2> HIDE DEF E, F, n, kids
  <2>6. F[i] = [name |-> s[i].name, children |-> [k \in 1 .. Len(kids) |-> F[kids[k]]], text |-> x.text]
    BY <1>1, <2>2, <2>3, <2>4 DEF ElementOf, kids
  <2>7. E[i] = [name |-> s[i].name, children |-> [k \in 1 .. Len(kids) |-> E[kids[k]]],
                text |-> IF Texts(s, i) = {} THEN NoText ELSE s[Max(Texts(s, i))].text]
    BY <2>1 DEF ElementOf, kids
  <2>8. F[i] = [E[i] EXCEPT !.text = x.text]
    BY <2>5, <2>6, <2>7
  <2> QED BY <1>6, <2>8 DEF E, F
<1> QED BY <1>5, <1>6
----------------------------------------------------------------------------
\* The elements open at a depth: one that contains another ends after it.
LEMMA DirectlyOpen ==
  ASSUME NEW s, Len(s) \in Nat, DOMAIN s = 1 .. Len(s), NEW i \in Starts(s), NEW p \in Starts(s), ~Ended(s, p),
         Directly(s, i, p)
  PROVE  i < p /\ Depth(s, i) = Depth(s, p) - 1 /\ ~Ended(s, i)
<1>1. /\ i < p /\ Depth(s, p - 1) = Depth(s, i) /\ \A k \in i .. p - 1 : Depth(s, k) >= Depth(s, i)
  BY DEF Directly
<1>2. /\ i \in 1 .. Len(s) /\ p \in 1 .. Len(s) /\ Depth(s, p - 1) \in Int
      /\ Depth(s, p) = Depth(s, p - 1) + 1
  BY StartDepth
<1>3. ASSUME Ended(s, i) PROVE FALSE
  <2>1. PICK j \in i + 1 .. Len(s) : Depth(s, j) < Depth(s, i)
    BY <1>3 DEF Ended
  <2>2. Depth(s, j) \in Int
    BY <2>1, <1>2, DepthType
  <2>3. j \notin i .. p - 1 /\ j # p
    BY <1>1, <1>2, <2>1, <2>2
  <2>4. j \in p + 1 .. Len(s) /\ Depth(s, j) < Depth(s, p)
    BY <1>1, <1>2, <2>1, <2>2, <2>3
  <2> QED BY <2>4 DEF Ended
<1> QED BY <1>1, <1>2, <1>3

LEMMA OpenDirectly ==
  ASSUME NEW s, Len(s) \in Nat, DOMAIN s = 1 .. Len(s), NEW i \in Starts(s), NEW p \in Starts(s), ~Ended(s, p),
         ~Ended(s, i), Depth(s, i) = Depth(s, p) - 1
  PROVE  Directly(s, i, p)
<1>1. /\ i \in 1 .. Len(s) /\ p \in 1 .. Len(s) /\ Depth(s, p - 1) \in Int
      /\ Depth(s, p) = Depth(s, p - 1) + 1 /\ Depth(s, i) = Depth(s, p - 1)
  BY StartDepth
<1>2. i < p
  <2>1. ASSUME p < i PROVE FALSE
    <3>1. Depth(s, i - 1) \in Int /\ Depth(s, i) = Depth(s, i - 1) + 1
      BY StartDepth
    <3>2. i \in p + 1 .. Len(s) /\ Depth(s, i) < Depth(s, p)
      BY <1>1, <2>1
    <3> QED BY <3>2 DEF Ended
  <2>2. i # p
    BY <1>1
  <2> QED BY <1>1, <2>1, <2>2
<1>3. ASSUME NEW k \in i .. p - 1 PROVE Depth(s, k) >= Depth(s, i)
  <2>1. CASE k = i
    BY <1>1, <2>1
  <2>2. CASE k # i
    <3>1. k \in i + 1 .. Len(s) /\ k \in Nat
      BY <1>1, <2>2
    <3>2. ~(Depth(s, k) < Depth(s, i)) /\ Depth(s, k) \in Int
      BY <3>1, DepthType DEF Ended
    <3> QED BY <1>1, <3>2
  <2> QED BY <2>1, <2>2
<1> QED BY <1>1, <1>2, <1>3 DEF Directly

\* The children of an element that have ended started before the one that is open in it.
LEMMA KidsBefore ==
  ASSUME NEW s, Len(s) \in Nat, DOMAIN s = 1 .. Len(s), NEW i \in Starts(s), NEW p \in Starts(s), ~Ended(s, p),
         Directly(s, i, p)
  PROVE  Kids(s, i) \in SUBSET (1 .. p - 1)
<1> SUFFICES ASSUME NEW j \in Kids(s, i) PROVE j \in 1 .. p - 1
  OBVIOUS
<1>1. j \in Starts(s) /\ Directly(s, i, j) /\ Ended(s, j) /\ j # p
  BY DEF Kids
<1>2. /\ j \in 1 .. Len(s) /\ p \in 1 .. Len(s) /\ i \in 1 .. Len(s)
      /\ Depth(s, p - 1) \in Int /\ Depth(s, p) = Depth(s, p - 1) + 1
      /\ Depth(s, j - 1) \in Int
  BY <1>1, StartDepth
<1>3. Depth(s, p - 1) = Depth(s, i) /\ Depth(s, j - 1) = Depth(s, i)
  BY <1>1 DEF Directly
<1>4. ~(j > p)
  <2> SUFFICES ASSUME j > p PROVE FALSE
    OBVIOUS
  <2>1. Depth(s, j - 1) < Depth(s, p)
    BY <1>2, <1>3
  <2>2. j - 1 # p
    BY <1>2, <2>1
  <2>3. j - 1 \in p + 1 .. Len(s)
    BY <1>2, <2>2
  <2> QED BY <2>1, <2>3 DEF Ended
<1> QED BY <1>1, <1>2, <1>4

\* The end of the inmost element makes it the last child of the one it is in,
\* and changes no other.
LEMMA EndGrows ==
  ASSUME NEW s, NEW x, NEW u, Longer(s, x, u), x.type = "end", NEW p \in Inmost(s), NEW i \in Starts(s)
  PROVE  ElementsIn(u)[i] = IF Directly(s, i, p)
                            THEN [ElementsIn(s)[i] EXCEPT !.children = Append(@, ElementsIn(s)[p])]
                            ELSE ElementsIn(s)[i]
<1> DEFINE n == Len(s)
           E == ElementsIn(s)
           F == ElementsIn(u)
<1>1. /\ n \in Nat /\ DOMAIN s = 1 .. n /\ Len(u) = n + 1 /\ DOMAIN u = 1 .. n + 1
      /\ Starts(s) \subseteq 1 .. n /\ \A j \in 1 .. n : u[j] = s[j]
  BY DEF Longer, Starts
<1>2. p \in Starts(s) /\ ~Ended(s, p) /\ Depth(s, p) = Depth(s, n)
  BY DEF Inmost
<1>3. Inmost(s) = {p}
  BY <1>1, OneInmost DEF Inmost
<1>4. ASSUME NEW j \in Starts(s) PROVE Texts(u, j) = Texts(s, j)
  <2>1. j \in 1 .. Len(s)
    BY <1>1
  <2>2. x.type # "text"
    OBVIOUS
  <2> QED BY <2>1, <2>2, TextsStay
<1>5. ASSUME NEW j \in Starts(s) PROVE Kids(u, j) = IF Directly(s, j, p) THEN Kids(s, j) \cup {p} ELSE Kids(s, j)
  <2>1. j \in 1 .. Len(s)
    BY <1>1
  <2>2. Kids(u, j) = Kids(s, j) \cup {q \in Inmost(s) : Directly(s, j, q)}
    BY <2>1, KidsEnd
  <2> QED BY <1>3, <2>2
<1>6. ASSUME NEW j \in Starts(s), ~Directly(s, j, p) PROVE F[j] = E[j]
  <2>1. \A k \in Kids(s, j) : F[k] = E[k]
    BY KidsEnded, EndedStays
  <2>2. Kids(u, j) = Kids(s, j) /\ Texts(u, j) = Texts(s, j)
    BY <1>4, <1>5, <1>6
  <2> QED BY <2>1, <2>2, ElementLonger
<1>7. CASE Directly(s, i, p)
  <2> DEFINE old == KidsInOrder(s, i)
             new == KidsInOrder(u, i)
  <2>1. E[i] = ElementOf(E, s, i)
    BY <1>1, ElementIs
  <2>2. F[i] = ElementOf(F, u, i)
    <3>1. i \in Starts(u) /\ Len(u) \in Nat /\ DOMAIN u = 1 .. Len(u)
      BY <1>1, StartsLonger
    <3> QED BY <3>1, ElementIs
  <2>3. new = Append(old, p)
    <3>1. Kids(s, i) \in SUBSET (1 .. p - 1) /\ Kids(u, i) = Kids(s, i) \cup {p}
      BY <1>1, <1>2, <1>5, <1>7, KidsBefore
    <3>2. p \in 1 .. n /\ Kids(u, i) \in SUBSET (1 .. n)
      BY <1>1, <1>2, <3>1
    <3>3. KidsInOrder(u, i) = Among(Positions(s), Kids(u, i))
      BY <3>2, InOrderLonger DEF KidsInOrder
    <3>4. Positions(s) = UpTo(n)
      BY DEF Positions, UpTo
    <3> DEFINE A == Kids(s, i)
    <3> HIDE DEF A, n
    <3>5. Among(UpTo(n), A \cup {p}) = Append(Among(UpTo(n), A), p)
      BY <1>1, <3>1, <3>2, AmongLast DEF A
    <3> QED BY <3>1, <3>3, <3>4, <3>5 DEF KidsInOrder, A
  <2>4. \A k \in 1 .. Len(old) : old[k] \in Kids(s, i)
    BY <1>1, InOrderIs
  <2>5. F[p] = E[p]
    <3>1. ~Directly(s, p, p)
      BY <1>1, <1>2 DEF Directly
    <3> QED BY <1>2, <1>6, <3>1
  <2>6. \A k \in 1 .. Len(old) : F[old[k]] = E[old[k]]
    BY <2>4, KidsEnded, EndedStays
  <2>7. old \in Seq(Nat) /\ p \in Nat
    <3>1. Positions(s) \in Seq(Nat)
      BY <1>1, InOrderIs
    <3>2. old \in Seq(ToSet(Positions(s)))
      BY <3>1, AmongIs DEF KidsInOrder
    <3>3. ToSet(Positions(s)) \subseteq Nat
      BY <3>1 DEF ToSet
    <3> QED BY <1>1, <1>2, <3>2, <3>3, SeqGrows
  <2>8. Texts(u, i) = Texts(s, i) /\ u[i] = s[i]
    BY <1>1, <1>4
  <2>9. Texts(s, i) # {} => u[Max(Texts(s, i))].text = s[Max(Texts(s, i))].text
    <3>1. Texts(s, i) \in SUBSET (1 .. n)
      BY <1>1 DEF Texts
    <3>2. Texts(s, i) # {} => Max(Texts(s, i)) \in 1 .. n
      BY <1>1, <3>1, Greatest
    <3> QED BY <1>1, <3>2
  <2> HIDE DEF E, F, n, old, new
  <2>10. [k \in 1 .. Len(new) |-> F[new[k]]] = Append([k \in 1 .. Len(old) |-> E[old[k]]], E[p])
    <3>1. /\ Len(new) = Len(old) + 1 /\ Len(old) \in Nat /\ new[Len(old) + 1] = p
          /\ \A k \in 1 .. Len(old) : new[k] = old[k]
      BY <2>3, <2>7
    <3> DEFINE c == [k \in 1 .. Len(old) |-> E[old[k]]]
               S == {E[old[k]] : k \in 1 .. Len(old)} \cup {E[p]}
    <3>2. c \in Seq(S) /\ Len(c) = Len(old) /\ E[p] \in S
      BY <3>1
    <3>3. \A k \in 1 .. Len(old) : c[k] = E[old[k]]
      OBVIOUS
    <3> HIDE DEF c, S
    <3>4. /\ Append(c, E[p]) \in Seq(S) /\ Len(Append(c, E[p])) = Len(old) + 1
          /\ \A k \in 1 .. Len(old) : Append(c, E[p])[k] = c[k]
          /\ Append(c, E[p])[Len(old) + 1] = E[p]
      BY <3>1, <3>2
    <3>5. Append(c, E[p]) = [k \in 1 .. Len(old) + 1 |-> Append(c, E[p])[k]]
      BY <3>4
    <3>6. \A k \in 1 .. Len(old) + 1 : Append(c, E[p])[k] = F[new[k]]
      BY <2>5, <2>6, <3>1, <3>3, <3>4
    <3>7. Append(c, E[p]) = [k \in 1 .. Len(new) |-> F[new[k]]]
      BY <3>1, <3>5, <3>6
    <3> QED BY <3>7 DEF c
  <2>11. F[i] = [name |-> s[i].name, children |-> [k \in 1 .. Len(new) |-> F[new[k]]],
                 text |-> IF Texts(s, i) = {} THEN NoText ELSE s[Max(Texts(s, i))].text]
    BY <2>2, <2>8, <2>9 DEF ElementOf, new
  <2>12. E[i] = [name |-> s[i].name, children |-> [k \in 1 .. Len(old) |-> E[old[k]]],
                 text |-> IF Texts(s, i) = {} THEN NoText ELSE s[Max(Texts(s, i))].text]
    BY <2>1 DEF ElementOf, old
  <2>13. F[i] = [E[i] EXCEPT !.children = Append(@, E[p])]
    <3> DEFINE c == [k \in 1 .. Len(old) |-> E[old[k]]]
               d == [k \in 1 .. Len(new) |-> F[new[k]]]
               t == IF Texts(s, i) = {} THEN NoText ELSE s[Max(Texts(s, i))].text
    <3>1. d = Append(c, E[p])
      BY <2>10
    <3>2. F[i] = [name |-> s[i].name, children |-> d, text |-> t]
      BY <2>11
    <3>3. E[i] = [name |-> s[i].name, children |-> c, text |-> t]
      BY <2>12
    <3> DEFINE e == E[i]
               q == E[p]
               name == s[i].name
    <3> HIDE DEF c, d, t, e, q, name
    <3>4. e = [name |-> name, children |-> c, text |-> t]
      BY <3>3 DEF e, name
    <3>5. [e EXCEPT !.children = Append(@, q)] = [name |-> name, children |-> Append(c, q), text |-> t]
      BY <3>4
    <3> QED BY <3>1, <3>2, <3>5 DEF e, q, name
  <2> QED BY <1>7, <2>13 DEF E, F
<1>8. CASE ~Directly(s, i, p)
  BY <1>6, <1>8
<1> QED BY <1>7, <1>8

----------------------------------------------------------------------------
(***************************************************************************)
(* The children of the root.                                               *)
(***************************************************************************)
LEMMA ChildrenAre ==
  ASSUME NEW s, Len(s) \in Nat, DOMAIN s = 1 .. Len(s)
  PROVE  /\ \E S : Children(s) \in Seq(S)
         /\ 1 \in Starts(s) => Children(s) = [k \in 1 .. Len(KidsInOrder(s, 1)) |-> ElementsIn(s)[KidsInOrder(s, 1)[k]]]
<1>1. CASE 1 \in Starts(s)
  <2> DEFINE kids == KidsInOrder(s, 1)
             E    == ElementsIn(s)
             c    == [k \in 1 .. Len(kids) |-> E[kids[k]]]
             S    == {E[kids[k]] : k \in 1 .. Len(kids)}
  <2>1. E[1] = ElementOf(E, s, 1) /\ Len(kids) \in Nat
    BY <1>1, ElementIs, InOrderIs
  <2>2. Children(s) = E[1].children
    BY <1>1 DEF Children
  <2> HIDE DEF E, kids
  <2>3. E[1].children = c
    BY <2>1 DEF ElementOf, kids
  <2>4. c \in Seq(S)
    BY <2>1
  <2> QED BY <2>2, <2>3, <2>4 DEF kids, E
<1>2. CASE 1 \notin Starts(s)
  <2>1. Children(s) = <<>> /\ <<>> \in Seq({})
    BY <1>2 DEF Children
  <2> QED BY <1>2, <2>1
<1> QED BY <1>1, <1>2

\* A sequence that agrees with the beginning of another is a prefix of it.
LEMMA PrefixIs ==
  ASSUME NEW S, NEW T, NEW s \in Seq(S), NEW t \in Seq(T),
         Len(s) <= Len(t), \A k \in 1 .. Len(s) : s[k] = t[k]
  PROVE  IsPrefix(s, t)
<1>1. Len(s) \in Nat /\ Len(t) \in Nat
  OBVIOUS
<1>2. SubSeq(s, 1, Len(s)) = [k \in 1 .. Len(s) |-> s[k]]
  BY <1>1
<1>3. SubSeq(t, 1, Len(s)) = [k \in 1 .. Len(s) |-> t[k]]
  BY <1>1
<1> QED BY <1>2, <1>3 DEF IsPrefix

\* The complete children stay with every token more.
LEMMA ChildrenGrow ==
  ASSUME NEW s, NEW x, NEW u, Longer(s, x, u)
  PROVE  /\ Len(Children(s)) \in Nat /\ Len(Children(u)) \in Nat
         /\ Len(Children(s)) <= Len(Children(u))
         /\ \A k \in 1 .. Len(Children(s)) : Children(s)[k] = Children(u)[k]
<1>1. /\ Len(s) \in Nat /\ DOMAIN s = 1 .. Len(s) /\ Len(u) \in Nat /\ DOMAIN u = 1 .. Len(u)
      /\ Len(u) = Len(s) + 1
  BY DEF Longer
<1>2. PICK S, T : Children(s) \in Seq(S) /\ Children(u) \in Seq(T)
  BY <1>1, ChildrenAre
<1>3. CASE 1 \notin Starts(s)
  <2>1. Children(s) = <<>>
    BY <1>3 DEF Children
  <2> QED BY <1>2, <2>1
<1>4. CASE 1 \in Starts(s)
  <2> DEFINE E == ElementsIn(s)
             F == ElementsIn(u)
             kids == KidsInOrder(s, 1)
  <2>1. 1 \in Starts(u) /\ 1 \in 1 .. Len(s)
    BY <1>1, <1>4, StartsLonger DEF Starts
  <2>2. CASE \E p \in Inmost(s) : x.type = "end" /\ Directly(s, 1, p)
    <3>1. PICK p \in Inmost(s) : x.type = "end" /\ Directly(s, 1, p)
      BY <2>2
    <3>2. F[1] = [E[1] EXCEPT !.children = Append(@, E[p])]
      BY <1>4, <3>1, EndGrows
    <3>3. E[1] = ElementOf(E, s, 1)
      BY <1>1, <1>4, ElementIs
    <3>4. Children(s) = E[1].children /\ Children(u) = F[1].children
      BY <1>4, <2>1 DEF Children
    <3> DEFINE q == E[p]
    <3> HIDE DEF E, F, q
    <3>5. F[1].children = Append(E[1].children, E[p])
      BY <3>2, <3>3 DEF ElementOf
    <3>6. Children(u) = Append(Children(s), q)
      BY <3>4, <3>5 DEF q
    <3> QED BY <1>2, <3>6
  <2>3. CASE ~ \E p \in Inmost(s) : x.type = "end" /\ Directly(s, 1, p)
    <3>1. Kids(u, 1) = Kids(s, 1)
      <4>1. CASE x.type = "end"
        <5>1. Kids(u, 1) = Kids(s, 1) \cup {p \in Inmost(s) : Directly(s, 1, p)}
          BY <2>1, <4>1, KidsEnd
        <5> QED BY <2>3, <4>1, <5>1
      <4>2. CASE x.type # "end"
        BY <2>1, <4>2, KidsStay
      <4> QED BY <4>1, <4>2
    <3>2. KidsInOrder(u, 1) = kids
      <4>1. Kids(s, 1) \in SUBSET (1 .. Len(s))
        BY <1>1 DEF Kids, Starts
      <4> QED BY <3>1, <4>1, InOrderLonger DEF KidsInOrder
    <3>3. \A k \in 1 .. Len(kids) : F[kids[k]] = E[kids[k]]
      BY <1>1, InOrderIs, KidsEnded, EndedStays
    <3>4. /\ Children(s) = [k \in 1 .. Len(kids) |-> E[kids[k]]]
          /\ Children(u) = [k \in 1 .. Len(kids) |-> F[kids[k]]]
      BY <1>1, <1>4, <2>1, <3>2, ChildrenAre
    <3>5. Children(s) = Children(u)
      BY <3>3, <3>4
    <3> QED BY <1>2, <3>5
  <2> QED BY <2>2, <2>3
<1> QED BY <1>3, <1>4

\* The first tokens of a sequence.
LEMMA FirstLonger ==
  ASSUME NEW S, NEW s \in Seq(S), NEW c \in 0 .. Len(s) - 1
  PROVE  Longer(SubSeq(s, 1, c), s[c + 1], SubSeq(s, 1, c + 1))
<1>1. SubSeq(s, 1, c) = [k \in 1 .. c |-> s[k]] /\ SubSeq(s, 1, c + 1) = [k \in 1 .. c + 1 |-> s[k]]
  OBVIOUS
<1>2. Len(SubSeq(s, 1, c)) = c /\ Len(SubSeq(s, 1, c + 1)) = c + 1 /\ c \in Nat
  OBVIOUS
<1> QED BY <1>1, <1>2 DEF Longer

LEMMA FirstKeeps ==
  ASSUME NEW S, NEW s \in Seq(S), NEW x \in S, NEW c \in 0 .. Len(s)
  PROVE  SubSeq(Append(s, x), 1, c) = SubSeq(s, 1, c)
<1>1. SubSeq(s, 1, c) = [k \in 1 .. c |-> s[k]] /\ SubSeq(Append(s, x), 1, c) = [k \in 1 .. c |-> Append(s, x)[k]]
  OBVIOUS
<1>2. \A k \in 1 .. c : Append(s, x)[k] = s[k]
  OBVIOUS
<1> QED BY <1>1, <1>2

LEMMA FirstAll ==
  ASSUME NEW S, NEW s \in Seq(S)
  PROVE  SubSeq(s, 1, Len(s)) = s
OBVIOUS

\* What has been read of a stream is complete in it as well.
LEMMA ChildrenOfFirst ==
  ASSUME NEW S, NEW s \in Seq(S), NEW c \in 0 .. Len(s)
  PROVE  IsPrefix(Children(SubSeq(s, 1, c)), Children(s))
<1> DEFINE C(m) == Children(SubSeq(s, 1, m))
           T == {m \in Nat : c + m <= Len(s) =>
                   /\ Len(C(c)) \in Nat /\ Len(C(c + m)) \in Nat /\ Len(C(c)) <= Len(C(c + m))
                   /\ \A k \in 1 .. Len(C(c)) : C(c)[k] = C(c + m)[k]}
<1>1. ASSUME NEW m \in 0 .. Len(s) PROVE \E Z : C(m) \in Seq(Z)
  <2> DEFINE p == SubSeq(s, 1, m)
  <2>1. p \in Seq(S)
    OBVIOUS
  <2>2. Len(p) \in Nat /\ DOMAIN p = 1 .. Len(p)
    BY <2>1
  <2> HIDE DEF p
  <2> QED BY <2>2, ChildrenAre DEF p
<1>2. 0 \in T
  <2>1. \E Z : C(c) \in Seq(Z)
    BY <1>1
  <2>2. Len(C(c)) \in Nat /\ c + 0 = c
    <3> HIDE DEF C
    <3> QED BY <2>1
  <2> HIDE DEF C
  <2> QED BY <2>2
<1>3. ASSUME NEW m \in Nat, m \in T PROVE m + 1 \in T
  <2> SUFFICES ASSUME c + (m + 1) <= Len(s)
               PROVE  /\ Len(C(c)) \in Nat /\ Len(C(c + (m + 1))) \in Nat /\ Len(C(c)) <= Len(C(c + (m + 1)))
                      /\ \A k \in 1 .. Len(C(c)) : C(c)[k] = C(c + (m + 1))[k]
    OBVIOUS
  <2> DEFINE d == c + m
  <2>1. d \in 0 .. Len(s) - 1 /\ c + (m + 1) = d + 1 /\ d <= Len(s)
    OBVIOUS
  <2>2. Longer(SubSeq(s, 1, d), s[d + 1], SubSeq(s, 1, d + 1))
    BY <2>1, FirstLonger
  <2>3. /\ Len(C(d)) \in Nat /\ Len(C(d + 1)) \in Nat /\ Len(C(d)) <= Len(C(d + 1))
        /\ \A k \in 1 .. Len(C(d)) : C(d)[k] = C(d + 1)[k]
    BY <2>2, ChildrenGrow
  <2>4. /\ Len(C(c)) \in Nat /\ Len(C(c)) <= Len(C(d))
        /\ \A k \in 1 .. Len(C(c)) : C(c)[k] = C(d)[k]
    BY <1>3, <2>1
  <2> HIDE DEF C, d
  <2> QED BY <2>1, <2>3, <2>4
<1>4. Len(s) - c \in T
  <2> HIDE DEF T
  <2>1. Len(s) - c \in Nat
    OBVIOUS
  <2> QED BY <1>2, <1>3, <2>1, Induction
<1>5. C(Len(s)) = Children(s)
  BY FirstAll
<1>6. c + (Len(s) - c) = Len(s)
  OBVIOUS
<1>7. PICK Z, Y : C(c) \in Seq(Z) /\ C(Len(s)) \in Seq(Y)
  <2>1. Len(s) \in 0 .. Len(s)
    OBVIOUS
  <2> QED BY <1>1, <2>1
<1>8. Len(C(c)) <= Len(C(Len(s))) /\ \A k \in 1 .. Len(C(c)) : C(c)[k] = C(Len(s))[k]
  <2>1. c + (Len(s) - c) <= Len(s)
    BY <1>6
  <2> HIDE DEF C
  <2> QED BY <1>4, <1>6, <2>1
<1>9. IsPrefix(C(c), C(Len(s)))
  <2> HIDE DEF C
  <2> QED BY <1>7, <1>8, PrefixIs
<1> QED BY <1>5, <1>9

----------------------------------------------------------------------------
(***************************************************************************)
(* Following a stream.                                                     *)
(***************************************************************************)
Elements(s) == {ElementsIn(s)[p] : p \in Starts(s)}

\* Start p is the element of s under way at depth d.
IsOpen(s, p, d) == p \in Starts(s) /\ ~Ended(s, p) /\ Depth(s, p) = d

\* The server has followed s into the elements o, the children of the root
\* before them are kids.
Following(s, o, kids) ==
  /\ IsOpen(s, 1, 1)
  /\ Depth(s, Len(s)) = Len(o) + 1
  /\ o \in Seq(Elements(s))
  /\ \A k \in 1 .. Len(o) : \E p : IsOpen(s, p, k + 1) /\ o[k] = ElementsIn(s)[p]
  /\ kids = ElementsIn(s)[1].children


\* The start of the root.
LEMMA FollowRoot ==
  ASSUME NEW s, NEW x, NEW u, Longer(s, x, u), Len(s) = 0, x.type = "start"
  PROVE  Following(u, <<>>, <<>>)
<1>1. Len(s) \in Nat /\ Len(u) = 1 /\ u[1] = x /\ 0 \in 0 .. Len(s)
  BY DEF Longer
<1>2. 1 \in Starts(u) /\ ElementsIn(u)[1] = Element(x.name)
  <2>1. Len(s) + 1 = 1
    OBVIOUS
  <2> QED BY <2>1, StartGrows
<1>3. ~Ended(u, 1)
  <2>1. Len(s) + 1 = 1
    OBVIOUS
  <2> QED BY <2>1, NewOpen
<1>4. Depth(u, 0) = 0
  <2> DEFINE A(type) == {j \in 1 .. 0 : u[j].type = type}
  <2>1. \A type : A(type) = {}
    OBVIOUS
  <2>2. Depth(u, 0) = Cardinality(A("start")) - Cardinality(A("end"))
    BY DEF Depth
  <2> HIDE DEF A
  <2> QED BY <2>1, <2>2, FS_EmptySet
<1>5. Depth(u, 1) = 1
  <2>1. u[0 + 1].type = "start" /\ 0 \in Nat
    BY <1>1
  <2>2. Depth(u, 0 + 1) = Depth(u, 0) + 1
    BY <2>1, DepthNext
  <2> QED BY <1>4, <2>2
<1>6. <<>> \in Seq(Elements(u)) /\ Len(<<>>) = 0 /\ ElementsIn(u)[1].children = <<>>
  BY <1>2 DEF Element
<1> QED BY <1>1, <1>2, <1>3, <1>5, <1>6 DEF Following, IsOpen

\* An open element stays open while the depth does not fall below its own.
LEMMA OpenStays ==
  ASSUME NEW s, NEW x, NEW u, Longer(s, x, u), NEW p, NEW d \in Int, IsOpen(s, p, d),
         Depth(u, Len(s) + 1) >= d
  PROVE  IsOpen(u, p, d)
<1>1. p \in Starts(s) /\ ~Ended(s, p) /\ Depth(s, p) = d /\ Len(s) \in Nat /\ p \in 1 .. Len(s)
  BY DEF IsOpen, Longer, Starts
<1>2. Depth(u, Len(s) + 1) \in Int
  BY <1>1, DepthType
<1>3. ~Ended(u, p)
  BY <1>1, <1>2, EndedLonger
<1>4. Depth(u, p) = d /\ p \in Starts(u)
  <2>1. p \in 0 .. Len(s)
    BY <1>1
  <2> QED BY <1>1, <2>1, DepthLonger, StartsLonger
<1> QED BY <1>3, <1>4 DEF IsOpen

\* The depth after the token.
LEMMA DepthAfter ==
  ASSUME NEW s, NEW x, NEW u, Longer(s, x, u)
  PROVE  /\ Len(s) \in Nat /\ Depth(s, Len(s)) \in Int /\ Len(u) = Len(s) + 1
         /\ Depth(u, Len(u)) = Depth(s, Len(s)) + (IF x.type = "start" THEN 1 ELSE IF x.type = "end" THEN -1 ELSE 0)
<1> DEFINE n == Len(s)
<1>1. n \in Nat /\ u[n + 1] = x /\ Len(u) = n + 1 /\ n \in 0 .. n
  BY DEF Longer
<1>2. Depth(u, n) = Depth(s, n) /\ Depth(s, n) \in Int
  BY <1>1, DepthLonger
<1> HIDE DEF n
<1>3. /\ x.type = "start" => Depth(u, n + 1) = Depth(u, n) + 1
      /\ x.type = "end" => Depth(u, n + 1) = Depth(u, n) - 1
      /\ x.type \notin {"start", "end"} => Depth(u, n + 1) = Depth(u, n)
  BY <1>1, DepthNext
<1> QED BY <1>1, <1>2, <1>3 DEF n

\* The root keeps its children unless an end makes one more of them.
LEMMA RootKeeps ==
  ASSUME NEW s, NEW x, NEW u, Longer(s, x, u), NEW o, NEW kids, Following(s, o, kids),
         x.type \in {"start", "text"}
  PROVE  ElementsIn(u)[1].children = kids
<1>1. 1 \in Starts(s) /\ kids = ElementsIn(s)[1].children
  BY DEF Following, IsOpen
<1>2. CASE x.type = "start"
  BY <1>1, <1>2, StartGrows
<1>3. CASE x.type = "text"
  <2>1. ElementsIn(s)[1] = ElementOf(ElementsIn(s), s, 1)
    BY <1>1, ElementIs DEF Longer
  <2>2. ElementsIn(u)[1] = IF 1 \in Inmost(s) THEN [ElementsIn(s)[1] EXCEPT !.text = x.text] ELSE ElementsIn(s)[1]
    BY <1>1, <1>3, TextGrows
  <2> DEFINE e == ElementsIn(s)[1]
  <2>3. \E a, b, c : e = [name |-> a, children |-> b, text |-> c]
    BY <2>1 DEF ElementOf
  <2> HIDE DEF e
  <2>4. [e EXCEPT !.text = x.text].children = e.children
    BY <2>3
  <2> QED BY <1>1, <2>2, <2>4 DEF e
<1> QED BY <1>2, <1>3

LEMMA FollowStart ==
  ASSUME NEW s, NEW x, NEW u, Longer(s, x, u), NEW o, NEW kids, Following(s, o, kids), x.type = "start"
  PROVE  Following(u, Append(o, Element(x.name)), kids)
<1> DEFINE e == Element(x.name)
           r == Append(o, e)
<1>1. /\ o \in Seq(Elements(s)) /\ IsOpen(s, 1, 1) /\ Depth(s, Len(s)) = Len(o) + 1 /\ Len(o) \in Nat
      /\ \A k \in 1 .. Len(o) : \E p : IsOpen(s, p, k + 1) /\ o[k] = ElementsIn(s)[p]
  BY DEF Following
<1>2. /\ \A i \in Starts(s) : ElementsIn(u)[i] = ElementsIn(s)[i]
      /\ Len(s) + 1 \in Starts(u) /\ ElementsIn(u)[Len(s) + 1] = e
  BY StartGrows
<1>3. Depth(u, Len(u)) = Len(o) + 2 /\ Len(u) = Len(s) + 1
  BY <1>1, DepthAfter
<1>4. Elements(s) \subseteq Elements(u) /\ e \in Elements(u)
  BY <1>2, StartsLonger DEF Elements
<1>5. o \in Seq(Elements(u))
  BY <1>1, <1>4, SeqGrows
<1> HIDE DEF e
<1>6. /\ r \in Seq(Elements(u)) /\ Len(r) = Len(o) + 1 /\ r[Len(o) + 1] = e
      /\ \A k \in 1 .. Len(o) : r[k] = o[k]
  BY <1>4, <1>5
<1>7. IsOpen(u, 1, 1)
  BY <1>1, <1>3, OpenStays
<1>8. ASSUME NEW k \in 1 .. Len(r) PROVE \E p : IsOpen(u, p, k + 1) /\ r[k] = ElementsIn(u)[p]
  <2>1. CASE k \in 1 .. Len(o)
    <3>1. PICK p : IsOpen(s, p, k + 1) /\ o[k] = ElementsIn(s)[p]
      BY <1>1, <2>1
    <3>2. IsOpen(u, p, k + 1)
      <4>1. k + 1 \in Int /\ Depth(u, Len(s) + 1) >= k + 1
        BY <1>1, <1>3, <2>1
      <4> QED BY <3>1, <4>1, OpenStays
    <3> QED BY <1>2, <1>6, <2>1, <3>1, <3>2 DEF IsOpen
  <2>2. CASE k = Len(o) + 1
    <3>1. ~Ended(u, Len(s) + 1)
      BY NewOpen
    <3>2. IsOpen(u, Len(s) + 1, k + 1)
      BY <1>1, <1>2, <1>3, <2>2, <3>1 DEF IsOpen
    <3> QED BY <1>2, <1>6, <2>2, <3>2
  <2> QED BY <1>1, <1>6, <2>1, <2>2
<1>9. ElementsIn(u)[1].children = kids
  BY RootKeeps
<1>10. Depth(u, Len(u)) = Len(r) + 1
  BY <1>1, <1>3, <1>6
<1> HIDE DEF r
<1>11. Following(u, r, kids)
  BY <1>6, <1>7, <1>8, <1>9, <1>10 DEF Following
<1> QED BY <1>11 DEF r, e

LEMMA FollowChildren ==
  ASSUME NEW s, NEW o, NEW kids, Following(s, o, kids)
  PROVE  Children(s) = kids
BY DEF Following, IsOpen, Children

LEMMA ElementsLonger ==
  ASSUME NEW s, NEW x, NEW u, Longer(s, x, u), NEW p \in Starts(s)
  PROVE  ElementsIn(u)[p] \in Elements(u)
BY StartsLonger DEF Elements

LEMMA FollowText ==
  ASSUME NEW s, NEW x, NEW u, Longer(s, x, u), NEW o, NEW kids, Following(s, o, kids), x.type = "text"
  PROVE  Following(u, IF o = <<>> THEN o ELSE Append(Front(o), [Last(o) EXCEPT !.text = x.text]), kids)
<1>1. /\ o \in Seq(Elements(s)) /\ IsOpen(s, 1, 1) /\ Depth(s, Len(s)) = Len(o) + 1 /\ Len(o) \in Nat
      /\ \A k \in 1 .. Len(o) : \E p : IsOpen(s, p, k + 1) /\ o[k] = ElementsIn(s)[p]
  BY DEF Following
<1>2. \A i \in Starts(s) : ElementsIn(u)[i] = IF i \in Inmost(s) THEN [ElementsIn(s)[i] EXCEPT !.text = x.text]
                                                ELSE ElementsIn(s)[i]
  BY TextGrows
<1>3. Depth(u, Len(u)) = Len(o) + 1 /\ Len(u) = Len(s) + 1 /\ Len(s) \in Nat
  BY <1>1, DepthAfter
<1>4. IsOpen(u, 1, 1)
  BY <1>1, <1>3, OpenStays
<1>5. ElementsIn(u)[1].children = kids
  BY RootKeeps
<1>6. CASE o = <<>>
  <2>1. o \in Seq(Elements(u)) /\ Len(o) = 0
    BY <1>6
  <2>2. Following(u, o, kids)
    BY <1>3, <1>4, <1>5, <2>1 DEF Following
  <2> QED BY <1>6, <2>2
<1>7. CASE o # <<>>
  <2> DEFINE m == Len(o)
             e == [Last(o) EXCEPT !.text = x.text]
             r == Append(Front(o), e)
  <2>0. m \in 1 .. Len(o) /\ m \in Nat /\ m # 0
    BY <1>1, <1>7
  <2> DEFINE Part(k) == \E p \in Starts(s) : IsOpen(u, p, k + 1) /\ (IF k = m THEN e ELSE o[k]) = ElementsIn(u)[p]
  <2>1. ASSUME NEW k \in 1 .. m PROVE Part(k)
    <3>1. PICK p : IsOpen(s, p, k + 1) /\ o[k] = ElementsIn(s)[p]
      BY <1>1
    <3>2. IsOpen(u, p, k + 1)
      <4>1. k + 1 \in Int /\ Depth(u, Len(s) + 1) >= k + 1
        BY <1>1, <1>3
      <4> QED BY <3>1, <4>1, OpenStays
    <3>3. p \in Inmost(s) <=> k = m
      BY <1>1, <2>0, <3>1 DEF Inmost, IsOpen
    <3>4. p \in Starts(s) /\ ElementsIn(u)[p] = IF k = m THEN [ElementsIn(s)[p] EXCEPT !.text = x.text] ELSE ElementsIn(s)[p]
      BY <1>2, <3>1, <3>3 DEF IsOpen
    <3>5. (IF k = m THEN e ELSE o[k]) = ElementsIn(u)[p]
      BY <3>1, <3>4 DEF Last
    <3> QED BY <3>2, <3>4, <3>5
  <2> HIDE DEF e
  <2>2. Part(m)
    BY <2>0, <2>1
  <2>3. e \in Elements(u)
    BY <2>2, ElementsLonger
  <2>4. \A k \in 1 .. m - 1 : o[k] \in Elements(u)
    <3> SUFFICES ASSUME NEW k \in 1 .. m - 1 PROVE o[k] \in Elements(u)
      OBVIOUS
    <3>1. k \in 1 .. m /\ k # m
      BY <2>0
    <3>2. Part(k)
      BY <2>1, <3>1
    <3> QED BY <3>1, <3>2, ElementsLonger
  <2>5. /\ r \in Seq(Elements(u)) /\ Len(r) = m /\ r[m] = e
        /\ \A k \in 1 .. m - 1 : r[k] = o[k]
    <3> DEFINE S == Elements(s)
               f == Front(o)
    <3> HIDE DEF S
    <3>1. o \in Seq(S)
      BY <1>1 DEF S
    <3>2. f \in Seq(S) /\ Len(f) = m - 1 /\ \A k \in 1 .. m - 1 : f[k] = o[k]
      BY <2>0, <3>1 DEF Front
    <3>3. f \in Seq(Elements(u))
      <4>1. f = [k \in 1 .. m - 1 |-> o[k]] /\ m - 1 \in Nat
        BY <2>0, <3>1, <3>2
      <4> HIDE DEF f, m
      <4> QED BY <2>4, <4>1
    <3> HIDE DEF f, m
    <3>4. /\ Append(f, e) \in Seq(Elements(u)) /\ Len(Append(f, e)) = m /\ Append(f, e)[m] = e
          /\ \A k \in 1 .. m - 1 : Append(f, e)[k] = f[k]
      BY <2>0, <2>3, <3>2, <3>3
    <3> QED BY <3>2, <3>4 DEF f
  <2>6. ASSUME NEW k \in 1 .. Len(r) PROVE \E p : IsOpen(u, p, k + 1) /\ r[k] = ElementsIn(u)[p]
    <3>1. k \in 1 .. m
      BY <2>5
    <3>2. r[k] = IF k = m THEN e ELSE o[k]
      BY <2>0, <2>5, <3>1
    <3>3. Part(k)
      BY <2>1, <3>1
    <3> QED BY <3>2, <3>3
  <2>7. Depth(u, Len(u)) = Len(r) + 1
    BY <1>3, <2>5
  <2> HIDE DEF r
  <2>8. Following(u, r, kids)
    BY <1>4, <1>5, <2>5, <2>6, <2>7 DEF Following
  <2> QED BY <1>7, <2>8 DEF r, e
<1> QED BY <1>6, <1>7

\* After an end the element k of o is open, the last but one with the last as
\* its child.
StillOpen(s, u, o, k) ==
  \E q \in Starts(s) :
    /\ IsOpen(u, q, k + 1)
    /\ ElementsIn(u)[q] = IF k = Len(o) - 1 THEN [o[k] EXCEPT !.children = Append(@, o[Len(o)])] ELSE o[k]

Shut(s, u, o, kids) ==
  /\ Depth(u, Len(u)) = Len(o) /\ IsOpen(u, 1, 1)
  /\ \A k \in 1 .. Len(o) - 1 : StillOpen(s, u, o, k)
  /\ ElementsIn(u)[1].children = IF Len(o) = 1 THEN Append(kids, o[1]) ELSE kids

\* An end ends the inmost element, the last of o.
LEMMA FollowEnd ==
  ASSUME NEW s, NEW x, NEW u, Longer(s, x, u), NEW o, NEW kids, Following(s, o, kids), x.type = "end", o # <<>>
  PROVE  Shut(s, u, o, kids)
<1> DEFINE m == Len(o)
           E == ElementsIn(s)
           F == ElementsIn(u)
<1>1. /\ o \in Seq(Elements(s)) /\ IsOpen(s, 1, 1) /\ Depth(s, Len(s)) = m + 1 /\ m \in Nat
      /\ \A k \in 1 .. m : \E q : IsOpen(s, q, k + 1) /\ o[k] = E[q]
      /\ kids = E[1].children
  BY DEF Following
<1>2. m \in Nat \ {0} /\ Len(s) \in Nat /\ DOMAIN s = 1 .. Len(s)
  BY <1>1 DEF Longer
<1>3. PICK p : IsOpen(s, p, m + 1) /\ o[m] = E[p]
  BY <1>1, <1>2
<1>4. p \in Starts(s) /\ ~Ended(s, p) /\ Depth(s, p) = m + 1 /\ p \in Inmost(s)
  BY <1>1, <1>3 DEF IsOpen, Inmost
<1>5. Depth(u, Len(u)) = m /\ Len(u) = Len(s) + 1
  BY <1>1, DepthAfter
<1>6. IsOpen(u, 1, 1)
  <2>1. Depth(u, Len(s) + 1) >= 1
    BY <1>2, <1>5
  <2> QED BY <1>1, <2>1, OpenStays
<1>7. ASSUME NEW d \in Nat, NEW q, IsOpen(s, q, d)
      PROVE  /\ q \in Starts(s)
             /\ F[q] = IF d = m THEN [E[q] EXCEPT !.children = Append(@, E[p])] ELSE E[q]
  <2>1. q \in Starts(s) /\ ~Ended(s, q) /\ Depth(s, q) = d
    BY <1>7 DEF IsOpen
  <2>2. Directly(s, q, p) <=> d = m
    <3>1. Directly(s, q, p) => Depth(s, q) = Depth(s, p) - 1
      BY <1>2, <1>4, <2>1, DirectlyOpen
    <3>2. Depth(s, q) = Depth(s, p) - 1 => Directly(s, q, p)
      BY <1>2, <1>4, <2>1, OpenDirectly
    <3>3. Depth(s, q) = Depth(s, p) - 1 <=> d = m
      <4> HIDE DEF m
      <4> QED BY <1>1, <1>4, <2>1
    <3> QED BY <3>1, <3>2, <3>3
  <2>3. F[q] = IF Directly(s, q, p) THEN [E[q] EXCEPT !.children = Append(@, E[p])] ELSE E[q]
    BY <1>4, <2>1, EndGrows
  <2> DEFINE e   == F[q]
             old == E[q]
             new == [E[q] EXCEPT !.children = Append(@, E[p])]
  <2>4. e = IF Directly(s, q, p) THEN new ELSE old
    BY <2>3
  <2> HIDE DEF e, old, new, m
  <2>5. e = IF d = m THEN new ELSE old
    BY <2>2, <2>4
  <2> QED BY <2>1, <2>5 DEF e, old, new
<1>8. ASSUME NEW k \in 1 .. m - 1
      PROVE  \E q : /\ q \in Starts(s) /\ IsOpen(u, q, k + 1)
                    /\ F[q] = IF k = m - 1 THEN [o[k] EXCEPT !.children = Append(@, o[m])] ELSE o[k]
  <2>0. k \in 1 .. m /\ k + 1 \in Nat /\ k + 1 \in Int /\ (k + 1 = m <=> k = m - 1) /\ m >= k + 1
    BY <1>2
  <2>1. PICK q : IsOpen(s, q, k + 1) /\ o[k] = E[q]
    BY <1>1, <2>0
  <2>2. IsOpen(u, q, k + 1)
    <3>1. Depth(u, Len(s) + 1) >= k + 1
      BY <1>5, <2>0
    <3> QED BY <2>0, <2>1, <3>1, OpenStays
  <2>3. q \in Starts(s) /\ F[q] = IF k + 1 = m THEN [E[q] EXCEPT !.children = Append(@, E[p])] ELSE E[q]
    BY <1>7, <2>0, <2>1
  <2>4. F[q] = IF k = m - 1 THEN [o[k] EXCEPT !.children = Append(@, o[m])] ELSE o[k]
    <3> DEFINE a == E[q]
               b == E[p]
               c == F[q]
    <3>1. o[k] = a /\ o[m] = b /\ c = IF k + 1 = m THEN [a EXCEPT !.children = Append(@, b)] ELSE a
      BY <1>3, <2>1, <2>3
    <3> HIDE DEF a, b, c, m
    <3>2. c = IF k = m - 1 THEN [o[k] EXCEPT !.children = Append(@, o[m])] ELSE o[k]
      BY <2>0, <3>1
    <3> QED BY <3>2 DEF c
  <2> QED BY <2>2, <2>3, <2>4
<1>9. F[1].children = IF m = 1 THEN Append(kids, o[1]) ELSE kids
  <2>1. 1 \in Starts(s) /\ F[1] = IF 1 = m THEN [E[1] EXCEPT !.children = Append(@, E[p])] ELSE E[1]
    BY <1>1, <1>7
  <2>2. E[1] = ElementOf(E, s, 1)
    BY <1>2, <2>1, ElementIs
  <2> DEFINE a == E[1]
             b == E[p]
             c == F[1]
  <2>3. \E y, z, t : a = [name |-> y, children |-> z, text |-> t]
    BY <2>2 DEF ElementOf
  <2>4. kids = a.children /\ o[m] = b /\ c = IF 1 = m THEN [a EXCEPT !.children = Append(@, b)] ELSE a
    BY <1>1, <1>3, <2>1
  <2> HIDE DEF a, b, c, m
  <2>5. c.children = IF m = 1 THEN Append(kids, o[1]) ELSE kids
    <3>1. [a EXCEPT !.children = Append(@, b)].children = Append(a.children, b)
      BY <2>3
    <3> QED BY <2>4, <3>1
  <2> QED BY <2>5 DEF c
<1>10. \A k \in 1 .. m - 1 : StillOpen(s, u, o, k)
  BY <1>8 DEF StillOpen
<1> QED BY <1>5, <1>6, <1>9, <1>10 DEF Shut

\* A sequence whose entries are in a set.
LEMMA SeqInto == ASSUME NEW S, NEW T, NEW s \in Seq(S), \A k \in 1 .. Len(s) : s[k] \in T PROVE s \in Seq(T)
<1>1. s = [k \in 1 .. Len(s) |-> s[k]] /\ Len(s) \in Nat
  OBVIOUS
<1> QED BY <1>1

\* The end of an element in another one.
LEMMA FollowChild ==
  ASSUME NEW s, NEW x, NEW u, Longer(s, x, u), NEW o, NEW kids, Following(s, o, kids), x.type = "end", Len(o) > 1
  PROVE  Following(u, Append(Front(Front(o)), [Last(Front(o)) EXCEPT !.children = Append(@, Last(o))]), kids)
<1> DEFINE m == Len(o)
           e == [Last(Front(o)) EXCEPT !.children = Append(@, Last(o))]
           r == Append(Front(Front(o)), e)
<1>1. o \in Seq(Elements(s)) /\ m \in Nat /\ o # <<>> /\ m > 1
  BY DEF Following
<1>2. Shut(s, u, o, kids)
  BY <1>1, FollowEnd
<1>3. /\ Depth(u, Len(u)) = m /\ IsOpen(u, 1, 1)
      /\ \A k \in 1 .. m - 1 : StillOpen(s, u, o, k)
      /\ ElementsIn(u)[1].children = IF m = 1 THEN Append(kids, o[1]) ELSE kids
  BY <1>2 DEF Shut
<1>9. ElementsIn(u)[1].children = kids
  BY <1>1, <1>3
<1>4. /\ Len(r) = m - 1 /\ r[m - 1] = [o[m - 1] EXCEPT !.children = Append(@, o[m])]
      /\ \A k \in 1 .. m - 2 : r[k] = o[k]
      /\ \E S : r \in Seq(S)
  <2> DEFINE T == Elements(s) \cup {e}
             f == Front(o)
             g == Front(f)
  <2>1. o \in Seq(T)
    BY <1>1, SeqGrows
  <2> DEFINE U == T
  <2> HIDE DEF U
  <2>2. f \in Seq(U) /\ Len(f) = m - 1 /\ \A k \in 1 .. m - 1 : f[k] = o[k]
    <3>1. o \in Seq(U)
      BY <2>1 DEF U
    <3> QED BY <1>1, <3>1 DEF Front
  <2> HIDE DEF f, m
  <2>3. g \in Seq(U) /\ Len(g) = m - 2 /\ \A k \in 1 .. m - 2 : g[k] = f[k]
    BY <1>1, <2>2 DEF Front
  <2>4. e = [o[m - 1] EXCEPT !.children = Append(@, o[m])]
    <3>1. Last(f) = o[m - 1] /\ Last(o) = o[m]
      BY <1>1, <2>2 DEF Last, m
    <3>2. e = [Last(f) EXCEPT !.children = Append(@, Last(o))]
      BY DEF f
    <3> HIDE DEF e
    <3> QED BY <3>1, <3>2
  <2>5. e \in U
    BY DEF U
  <2> HIDE DEF g, e
  <2>6. /\ Append(g, e) \in Seq(U) /\ Len(Append(g, e)) = m - 1 /\ Append(g, e)[m - 1] = e
        /\ \A k \in 1 .. m - 2 : Append(g, e)[k] = g[k]
    BY <1>1, <2>3, <2>5
  <2>7. \A k \in 1 .. m - 2 : Append(g, e)[k] = o[k]
    BY <1>1, <2>2, <2>3, <2>6
  <2> QED BY <2>4, <2>6, <2>7 DEF f, g
<1> HIDE DEF r, e
<1>5. ASSUME NEW k \in 1 .. Len(r) PROVE \E q : q \in Starts(s) /\ IsOpen(u, q, k + 1) /\ r[k] = ElementsIn(u)[q]
  <2>1. k \in 1 .. m - 1 /\ (k = m - 1 \/ k \in 1 .. m - 2)
    BY <1>1, <1>4
  <2>2. r[k] = IF k = m - 1 THEN [o[k] EXCEPT !.children = Append(@, o[m])] ELSE o[k]
    <3>1. CASE k = m - 1
      BY <1>4, <3>1
    <3>2. CASE k # m - 1
      BY <1>4, <2>1, <3>2
    <3> QED BY <3>1, <3>2
  <2>3. PICK q \in Starts(s) :
          /\ IsOpen(u, q, k + 1)
          /\ ElementsIn(u)[q] = IF k = m - 1 THEN [o[k] EXCEPT !.children = Append(@, o[m])] ELSE o[k]
    BY <1>3, <2>1 DEF StillOpen
  <2> QED BY <2>2, <2>3
<1>6. r \in Seq(Elements(u))
  <2>1. \A k \in 1 .. Len(r) : r[k] \in Elements(u)
    BY <1>5, ElementsLonger
  <2> QED BY <1>4, <2>1, SeqInto
<1>7. Depth(u, Len(u)) = Len(r) + 1
  BY <1>1, <1>3, <1>4
<1>8. Following(u, r, kids)
  BY <1>3, <1>5, <1>6, <1>7, <1>9 DEF Following
<1> QED BY <1>8 DEF r, e

\* The end of a child of the root.
LEMMA FollowReturn ==
  ASSUME NEW s, NEW x, NEW u, Longer(s, x, u), NEW o, NEW kids, Following(s, o, kids), x.type = "end", Len(o) = 1
  PROVE  Following(u, <<>>, Append(kids, o[1]))
<1>1. o # <<>>
  <2>1. Len(o) # 0
    OBVIOUS
  <2> QED BY <2>1
<1>2. Shut(s, u, o, kids)
  BY <1>1, FollowEnd
<1>3. /\ Depth(u, Len(u)) = Len(o) /\ IsOpen(u, 1, 1)
      /\ ElementsIn(u)[1].children = IF Len(o) = 1 THEN Append(kids, o[1]) ELSE kids
  BY <1>2 DEF Shut
<1> QED BY <1>3 DEF Following

\* The end of the root.
LEMMA FollowNoMore ==
  ASSUME NEW s, NEW x, NEW u, Longer(s, x, u), NEW kids, Following(s, <<>>, kids), x.type = "end"
  PROVE  Children(u) = kids
<1>1. 1 \in Starts(s) /\ ~Ended(s, 1) /\ Depth(s, 1) = 1 /\ Depth(s, Len(s)) = 1 /\ kids = ElementsIn(s)[1].children
  BY DEF Following, IsOpen
<1>2. 1 \in Inmost(s) /\ 1 \in Starts(u) /\ ~Directly(s, 1, 1)
  BY <1>1, StartsLonger DEF Inmost, Directly
<1>3. ElementsIn(u)[1] = ElementsIn(s)[1]
  <2> SUFFICES ASSUME NEW i \in Starts(s), NEW p \in Inmost(s), ~Directly(s, i, p)
               PROVE  ElementsIn(u)[i] = ElementsIn(s)[i]
    BY <1>1, <1>2
  <2> QED BY EndGrows
<1> QED BY <1>1, <1>2, <1>3 DEF Children

----------------------------------------------------------------------------
(***************************************************************************)
(* The invariant of the peer and the server.                               *)
(***************************************************************************)
Token   == [type : {"start"}, name : Names \cup {Root}] \cup [type : {"text"}, text : Nat] \cup {EndToken, BadToken}
InWire  == [in : Layers, n : Nat, token : Token]

XmlTypeOK ==
  /\ sent \in [Layers -> Seq(Token)]
  /\ wire \in Seq(InWire) /\ buffer \in Seq(InWire)
  /\ layer \in Layers /\ stage \in {"root", "child", "ended", "failed"}
  /\ got = [l \in Layers |-> got[l]]

\* The tokens of the first stream and of the second after it, and a list of
\* what follows the first r of them.
Entry(C, L, g) ==
  IF g <= Len(C) THEN [in |-> "clear", n |-> g, token |-> C[g]]
  ELSE [in |-> "tls", n |-> g - Len(C), token |-> L[g - Len(C)]]

Follows(C, L, q, r) == \A k \in 1 .. Len(q) : q[k] = Entry(C, L, r + k)

\* How many of these have left the buffer.
Passed == Len(sent["clear"]) + Len(sent["tls"]) - Len(buffer) - Len(wire)

First(l, c) == SubSeq(sent[l], 1, c)
Asks(kids)  == \E i \in DOMAIN kids : kids[i].name = "starttls"

\* Before the stream that is being read.
Offset == IF layer = "clear" THEN 0 ELSE Len(sent["clear"])

\* What has not been read yet is the end of what was sent.
InTransit ==
  /\ Passed >= 0
  /\ Follows(sent["clear"], sent["tls"], buffer, Passed)
  /\ Follows(sent["clear"], sent["tls"], wire, Passed + Len(buffer))

\* Of the first stream the server has read what comes before TLS.
FirstStream ==
  /\ layer = "clear" => got["tls"] = <<>>
  /\ layer = "tls" =>
       /\ Asks(got["clear"])
       /\ \E m \in 0 .. Len(sent["clear"]) :
            got["clear"] = Children(First("clear", m)) /\ (patient => m = Len(sent["clear"]))

\* A peer that waits sends nothing after it has asked, until TLS is started.
Waits ==
  patient => /\ \A m \in 0 .. Len(sent["clear"]) - 1 : ~Asks(Children(First("clear", m)))
             /\ layer = "clear" => sent["tls"] = <<>>
             /\ Passed >= Offset

\* Of the stream it reads the server has followed the first c tokens.
Reads ==
  /\ stage = "root" => open = <<>> /\ got[layer] = <<>> /\ (layer = "clear" \/ patient => Passed = Offset)
  /\ stage = "child" =>
       \E c \in 0 .. Len(sent[layer]) : Passed = Offset + c /\ Following(First(layer, c), open, got[layer])
  /\ stage \in {"ended", "failed"} =>
       \E c \in 0 .. Len(sent[layer]) :
         got[layer] = Children(First(layer, c)) /\ (stage = "ended" => Passed = Offset + c /\ sent[layer] # <<>>)

NothingLost == patient /\ stage = "failed" => BadToken \in ToSet(sent[layer])

XmlInv == XmlTypeOK /\ InTransit /\ FirstStream /\ Waits /\ Reads /\ NothingLost

\* The length of what is in transit.
LEMMA Lengths ==
  ASSUME XmlTypeOK
  PROVE  /\ sent["clear"] \in Seq(Token) /\ sent["tls"] \in Seq(Token) /\ sent[layer] \in Seq(Token)
         /\ Len(sent["clear"]) \in Nat /\ Len(sent["tls"]) \in Nat
         /\ Len(buffer) \in Nat /\ Len(wire) \in Nat
         /\ Passed \in Int /\ Offset \in Nat
<1>1. sent["clear"] \in Seq(Token) /\ sent["tls"] \in Seq(Token) /\ sent[layer] \in Seq(Token)
  BY DEF XmlTypeOK, Layers
<1>2. wire \in Seq(InWire) /\ buffer \in Seq(InWire)
  BY DEF XmlTypeOK
<1> QED BY <1>1, <1>2 DEF Passed, Offset

\* The token that is taken is the next one of the stream that is read.
LEMMA NextToken ==
  ASSUME XmlInv, buffer # <<>>, Readable, NEW c \in Nat,
         IF stage = "root" THEN c = 0 ELSE stage = "child" /\ Passed = Offset + c
  PROVE  /\ c \in 0 .. Len(sent[layer]) - 1 /\ Passed = Offset + c
         /\ Next1 = sent[layer][c + 1]
<1>1. /\ Len(sent["clear"]) \in Nat /\ Len(sent["tls"]) \in Nat /\ Len(buffer) \in Nat /\ Len(wire) \in Nat
      /\ Passed \in Int /\ Passed >= 0
  BY Lengths DEF XmlInv, InTransit
<1>2. Len(buffer) >= 1 /\ Head(buffer) = buffer[1] /\ 1 \in 1 .. Len(buffer)
  BY <1>1 DEF XmlInv, XmlTypeOK
<1>3. Head(buffer) = Entry(sent["clear"], sent["tls"], Passed + 1)
  BY <1>2 DEF XmlInv, InTransit, Follows
<1> DEFINE r == Passed
           g == r + 1
           n == Len(sent["clear"])
           t == Len(sent["tls"])
           b == Len(buffer)
           w == Len(wire)
<1>4. g <= n + t
  <2>1. r = n + t - b - w
    BY DEF Passed
  <2>2. n \in Nat /\ t \in Nat /\ b \in Nat /\ w \in Nat /\ b >= 1
    BY <1>1, <1>2
  <2> HIDE DEF r, n, t, b, w
  <2> QED BY <2>1, <2>2
<1>5. CASE layer = "clear"
  <2>1. Head(buffer).in = "clear" /\ Offset = 0
    BY <1>5 DEF Readable, Offset
  <2>2. Passed = c
    <3>1. stage = "root" => Passed = 0
      BY <1>5, <2>1 DEF XmlInv, Reads
    <3> QED BY <1>1, <2>1, <3>1
  <2>3. g <= n
    <3> SUFFICES ASSUME ~(g <= n) PROVE FALSE
      OBVIOUS
    <3>1. Head(buffer).in = "tls"
      BY <1>3 DEF Entry
    <3> QED BY <2>1, <3>1
  <2>4. Head(buffer).token = sent["clear"][g]
    BY <1>3, <2>3 DEF Entry
  <2> QED BY <1>1, <1>5, <2>1, <2>2, <2>3, <2>4 DEF Next1
<1>6. CASE layer = "tls"
  <2>1. Head(buffer).in = "tls" /\ (stage = "root" => Head(buffer).n = 1) /\ Offset = n
    BY <1>6 DEF Readable, Offset
  <2>2. ~(g <= n)
    <3> SUFFICES ASSUME g <= n PROVE FALSE
      OBVIOUS
    <3>1. Head(buffer).in = "clear"
      BY <1>3 DEF Entry
    <3> QED BY <2>1, <3>1
  <2>3. Head(buffer).n = g - n /\ Head(buffer).token = sent["tls"][g - n]
    BY <1>3, <2>2 DEF Entry
  <2>4. stage = "root" => g - n = 1
    BY <2>1, <2>3
  <2>5. stage # "root" => r = n + c
    BY <2>1
  <2>6. g = n + (c + 1) /\ r = n + c /\ c + 1 <= t
    <3>1. r \in Int /\ n \in Nat /\ t \in Nat
      BY <1>1
    <3> HIDE DEF r, n, t
    <3> QED BY <3>1, <1>4, <2>4, <2>5
  <2>7. g - n = c + 1
    <3>1. n \in Nat
      BY <1>1
    <3> HIDE DEF g, n
    <3> QED BY <3>1, <2>6
  <2>8. Next1 = sent["tls"][c + 1]
    BY <2>3, <2>7 DEF Next1
  <2>9. c \in 0 .. t - 1
    <3>1. t \in Nat
      BY <1>1
    <3> HIDE DEF t
    <3> QED BY <3>1, <2>6
  <2> QED BY <1>6, <2>1, <2>6, <2>8, <2>9
<1> QED BY <1>5, <1>6 DEF XmlInv, XmlTypeOK, Layers

\* The head of the buffer is taken.
LEMMA TakesTransit ==
  ASSUME XmlTypeOK, InTransit, buffer # <<>>, buffer' = Tail(buffer), UNCHANGED <<sent, wire>>
  PROVE  InTransit' /\ Passed' = Passed + 1 /\ buffer' \in Seq(InWire)
<1>1. /\ Len(sent["clear"]) \in Nat /\ Len(sent["tls"]) \in Nat /\ Len(buffer) \in Nat /\ Len(wire) \in Nat
      /\ Passed \in Int /\ Passed >= 0
  BY Lengths DEF InTransit
<1>2. /\ buffer \in Seq(InWire) /\ buffer' \in Seq(InWire) /\ Len(buffer) >= 1 /\ Len(buffer') = Len(buffer) - 1
      /\ \A k \in 1 .. Len(buffer) - 1 : buffer'[k] = buffer[k + 1]
  BY DEF XmlTypeOK
<1>3. Passed' = Passed + 1
  <2> DEFINE n == Len(sent["clear"])
             t == Len(sent["tls"])
             b == Len(buffer)
             w == Len(wire)
  <2>1. Passed = n + t - b - w /\ Passed' = n + t - (b - 1) - w
    BY <1>2 DEF Passed
  <2>2. n \in Nat /\ t \in Nat /\ b \in Nat /\ w \in Nat
    BY <1>1
  <2> HIDE DEF n, t, b, w
  <2> QED BY <2>1, <2>2
<1> DEFINE C == sent["clear"]
           L == sent["tls"]
<1>4. Follows(C, L, buffer', Passed + 1)
  <2>1. \A k \in 1 .. Len(buffer') : k + 1 \in 1 .. Len(buffer) /\ (Passed + 1) + k = Passed + (k + 1)
    BY <1>1, <1>2
  <2>2. \A k \in 1 .. Len(buffer) : buffer[k] = Entry(C, L, Passed + k)
    BY DEF InTransit, Follows
  <2> HIDE DEF C, L
  <2> QED BY <1>2, <2>1, <2>2 DEF Follows
<1>5. (Passed + 1) + Len(buffer') = Passed + Len(buffer)
  BY <1>1, <1>2
<1>6. Follows(C, L, wire, (Passed + 1) + Len(buffer'))
  BY <1>5 DEF InTransit
<1>7. Passed + 1 >= 0
  BY <1>1
<1> QED BY <1>2, <1>3, <1>4, <1>6, <1>7 DEF InTransit

\* A token more in either stream, in the first only before the second.
LEMMA EntryLonger ==
  ASSUME NEW C \in Seq(Token), NEW L \in Seq(Token), NEW t \in Token, NEW g \in 1 .. Len(C) + Len(L)
  PROVE  /\ Len(L) = 0 => Entry(Append(C, t), L, g) = Entry(C, L, g)
         /\ Entry(C, Append(L, t), g) = Entry(C, L, g)
<1> DEFINE n == Len(C)
           m == Len(L)
           D == Append(C, t)
           K == Append(L, t)
<1>1. n \in Nat /\ m \in Nat /\ g \in 1 .. n + m
  OBVIOUS
<1>2. /\ Len(D) = n + 1 /\ \A k \in 1 .. n : D[k] = C[k]
      /\ Len(K) = m + 1 /\ \A k \in 1 .. m : K[k] = L[k]
  OBVIOUS
<1> HIDE DEF n, m, D, K
<1>3. ASSUME m = 0 PROVE Entry(D, L, g) = Entry(C, L, g)
  <2>1. g \in 1 .. n /\ g <= n /\ g <= n + 1
    BY <1>1, <1>3
  <2> QED BY <1>2, <2>1 DEF Entry, n
<1>4. Entry(C, K, g) = Entry(C, L, g)
  <2>1. CASE g <= n
    BY <2>1 DEF Entry, n
  <2>2. CASE ~(g <= n)
    <3>1. g - n \in 1 .. m
      BY <1>1, <2>2
    <3>2. K[g - n] = L[g - n]
      BY <1>2, <3>1
    <3> QED BY <2>2, <3>2 DEF Entry, n
  <2> QED BY <2>1, <2>2
<1> QED BY <1>3, <1>4 DEF m, D, K

\* The new token comes after them all.
LEMMA EntryNew ==
  ASSUME NEW C \in Seq(Token), NEW L \in Seq(Token), NEW t \in Token
  PROVE  /\ Len(L) = 0 => Entry(Append(C, t), L, Len(C) + Len(L) + 1) = [in |-> "clear", n |-> Len(C) + 1, token |-> t]
         /\ Entry(C, Append(L, t), Len(C) + Len(L) + 1) = [in |-> "tls", n |-> Len(L) + 1, token |-> t]
<1> DEFINE n == Len(C)
           m == Len(L)
           D == Append(C, t)
           K == Append(L, t)
           g == n + m + 1
<1>1. n \in Nat /\ m \in Nat
  OBVIOUS
<1>2. Len(D) = n + 1 /\ D[n + 1] = t /\ Len(K) = m + 1 /\ K[m + 1] = t
  OBVIOUS
<1> HIDE DEF n, m, D, K
<1>3. ASSUME m = 0 PROVE Entry(D, L, g) = [in |-> "clear", n |-> n + 1, token |-> t]
  <2>1. g = n + 1 /\ g <= Len(D)
    BY <1>1, <1>2, <1>3
  <2> HIDE DEF g
  <2> QED BY <1>2, <2>1 DEF Entry
<1>4. Entry(C, K, g) = [in |-> "tls", n |-> m + 1, token |-> t]
  <2>1. ~(g <= n) /\ g - n = m + 1
    BY <1>1
  <2> HIDE DEF g
  <2> QED BY <1>2, <2>1 DEF Entry, n
<1> QED BY <1>3, <1>4 DEF n, m, D, K

LEMMA FollowsLonger ==
  ASSUME NEW C \in Seq(Token), NEW L \in Seq(Token), NEW q \in Seq(InWire), NEW r \in Nat, NEW t \in Token,
         r + Len(q) <= Len(C) + Len(L), Follows(C, L, q, r)
  PROVE  /\ Len(L) = 0 => Follows(Append(C, t), L, q, r)
         /\ Follows(C, Append(L, t), q, r)
<1>1. ASSUME NEW k \in 1 .. Len(q)
      PROVE  /\ q[k] = Entry(C, L, r + k)
             /\ Len(L) = 0 => Entry(Append(C, t), L, r + k) = Entry(C, L, r + k)
             /\ Entry(C, Append(L, t), r + k) = Entry(C, L, r + k)
  <2>1. Len(q) \in Nat /\ Len(C) \in Nat /\ Len(L) \in Nat
    OBVIOUS
  <2>2. r + k \in 1 .. Len(C) + Len(L)
    BY <2>1
  <2>3. q[k] = Entry(C, L, r + k)
    BY DEF Follows
  <2> QED BY <2>2, <2>3, EntryLonger
<1> QED BY <1>1 DEF Follows

LEMMA FollowsNew ==
  ASSUME NEW C, NEW L, NEW q \in Seq(InWire), NEW r \in Nat, NEW x \in InWire, Follows(C, L, q, r),
         x = Entry(C, L, r + Len(q) + 1)
  PROVE  Follows(C, L, Append(q, x), r)
<1> DEFINE p == Append(q, x)
<1>1. Len(p) = Len(q) + 1 /\ Len(q) \in Nat /\ p[Len(q) + 1] = x /\ \A k \in 1 .. Len(q) : p[k] = q[k]
  OBVIOUS
<1> HIDE DEF p
<1>2. ASSUME NEW k \in 1 .. Len(p) PROVE p[k] = Entry(C, L, r + k)
  <2>1. CASE k \in 1 .. Len(q)
    BY <1>1, <2>1 DEF Follows
  <2>2. CASE k = Len(q) + 1
    <3>1. r + k = r + Len(q) + 1
      BY <1>1, <2>2
    <3> QED BY <1>1, <2>2, <3>1
  <2> QED BY <1>1, <2>1, <2>2
<1> QED BY <1>2 DEF Follows, p

\* The peer sends a token.
LEMMA SendsTransit ==
  ASSUME XmlTypeOK, InTransit, NEW l \in Layers, NEW t \in Token, l = "clear" => sent["tls"] = <<>>,
         sent' = [sent EXCEPT ![l] = Append(@, t)],
         wire' = Append(wire, [in |-> l, n |-> Len(sent'[l]), token |-> t]),
         UNCHANGED buffer
  PROVE  /\ InTransit' /\ Passed' = Passed
         /\ sent' \in [Layers -> Seq(Token)] /\ wire' \in Seq(InWire)
<1> DEFINE C == sent["clear"]
           L == sent["tls"]
           D == IF l = "clear" THEN Append(C, t) ELSE C
           K == IF l = "clear" THEN L ELSE Append(L, t)
           n == Len(C)
           m == Len(L)
           b == Len(buffer)
           w == Len(wire)
           x == [in |-> l, n |-> IF l = "clear" THEN n + 1 ELSE m + 1, token |-> t]
           r == Passed
<1>1. C \in Seq(Token) /\ L \in Seq(Token) /\ wire \in Seq(InWire) /\ buffer \in Seq(InWire)
  BY Lengths DEF XmlTypeOK
<1>2. n \in Nat /\ m \in Nat /\ b \in Nat /\ w \in Nat /\ r \in Nat /\ r = n + m - b - w
  <2>1. n \in Nat /\ m \in Nat /\ b \in Nat /\ w \in Nat /\ r \in Int /\ r >= 0
    BY Lengths DEF InTransit
  <2>2. r = n + m - b - w
    BY DEF Passed
  <2> HIDE DEF n, m, b, w, r
  <2> QED BY <2>1, <2>2
<1>3. sent'["clear"] = D /\ sent'["tls"] = K
  BY DEF XmlTypeOK, Layers
<1>4. /\ D \in Seq(Token) /\ K \in Seq(Token)
      /\ Len(D) = (IF l = "clear" THEN n + 1 ELSE n) /\ Len(K) = (IF l = "clear" THEN m ELSE m + 1)
  BY <1>1
<1>5. wire' = Append(wire, x) /\ x \in InWire
  <2>1. Len(sent'[l]) = IF l = "clear" THEN n + 1 ELSE m + 1
    BY <1>3, <1>4 DEF Layers
  <2> HIDE DEF n, m
  <2> QED BY <1>2, <2>1 DEF InWire
<1>6. Passed' = r
  <2>1. Len(wire') = w + 1
    <3> HIDE DEF x
    <3> QED BY <1>1, <1>5
  <2>2. Passed' = Len(D) + Len(K) - b - (w + 1)
    BY <1>3, <2>1 DEF Passed
  <2>3. Len(D) + Len(K) = n + m + 1
    <3> HIDE DEF D, K, n, m
    <3> QED BY <1>2, <1>4
  <2>4. Len(D) \in Nat /\ Len(K) \in Nat
    BY <1>4
  <2> HIDE DEF D, K, n, m, b, w, r
  <2> QED BY <1>2, <2>2, <2>3, <2>4
<1>7. l = "clear" => Len(L) = 0
  OBVIOUS
<1>8. ASSUME NEW q \in Seq(InWire), NEW h \in Nat, h + Len(q) <= n + m, Follows(C, L, q, h)
      PROVE  Follows(D, K, q, h)
  <2>1. /\ Len(L) = 0 => Follows(Append(C, t), L, q, h)
        /\ Follows(C, Append(L, t), q, h)
    BY <1>1, <1>8, FollowsLonger
  <2> QED BY <1>7, <2>1
<1>9. x = Entry(D, K, n + m + 1)
  <2>1. /\ Len(L) = 0 => Entry(Append(C, t), L, n + m + 1) = [in |-> "clear", n |-> n + 1, token |-> t]
        /\ Entry(C, Append(L, t), n + m + 1) = [in |-> "tls", n |-> m + 1, token |-> t]
    BY <1>1, EntryNew
  <2> QED BY <1>7, <2>1 DEF Layers
<1>10. Follows(D, K, buffer, r)
  <2>1. Follows(C, L, buffer, r)
    BY DEF InTransit
  <2>2. r + b <= n + m
    <3> HIDE DEF n, m, b, w, r
    <3> QED BY <1>2
  <2> QED BY <1>1, <1>2, <1>8, <2>1, <2>2
<1>11. Follows(D, K, wire', r + b)
  <2>1. Follows(C, L, wire, r + b)
    BY DEF InTransit
  <2>2. (r + b) + w <= n + m /\ r + b \in Nat /\ (r + b) + w + 1 = n + m + 1
    <3> HIDE DEF n, m, b, w, r
    <3> QED BY <1>2
  <2>3. Follows(D, K, wire, r + b)
    <3> DEFINE h == r + b
    <3>1. h \in Nat /\ h + Len(wire) <= n + m /\ Follows(C, L, wire, h)
      BY <2>1, <2>2
    <3> HIDE DEF h
    <3>2. Follows(D, K, wire, h)
      BY <1>1, <1>8, <3>1
    <3> QED BY <3>2 DEF h
  <2>4. x = Entry(D, K, (r + b) + Len(wire) + 1)
    BY <1>9, <2>2
  <2> DEFINE h == r + b
  <2>5. h \in Nat
    BY <2>2
  <2> HIDE DEF D, K, x, h
  <2>6. Follows(D, K, Append(wire, x), h)
    <3>1. Follows(D, K, wire, h) /\ x = Entry(D, K, h + Len(wire) + 1) /\ x \in InWire /\ wire \in Seq(InWire)
      BY <1>1, <1>5, <2>3, <2>4 DEF h
    <3> QED BY <2>5, <3>1, FollowsNew
  <2> QED BY <1>5, <2>6 DEF h
<1>12. wire' \in Seq(InWire)
  <2> HIDE DEF x
  <2> QED BY <1>1, <1>5
<1>13. sent' \in [Layers -> Seq(Token)]
  BY <1>1, <1>4 DEF XmlTypeOK
<1>14. r >= 0
  <2> HIDE DEF n, m, b, w, r
  <2> QED BY <1>2
<1> HIDE DEF D, K
<1> QED BY <1>3, <1>6, <1>10, <1>11, <1>12, <1>13, <1>14 DEF InTransit

\* In a child of the root the next token makes what was read longer.
LEMMA ChildNext ==
  ASSUME XmlInv, stage = "child", buffer # <<>>, Readable
  PROVE  \E c \in 0 .. Len(sent[layer]) - 1 :
           /\ Passed = Offset + c /\ Following(First(layer, c), open, got[layer])
           /\ Longer(First(layer, c), Next1, First(layer, c + 1))
<1>1. PICK c \in 0 .. Len(sent[layer]) : Passed = Offset + c /\ Following(First(layer, c), open, got[layer])
  BY DEF XmlInv, Reads
<1>2. sent[layer] \in Seq(Token) /\ c \in Nat
  BY Lengths DEF XmlInv
<1>3. c \in 0 .. Len(sent[layer]) - 1 /\ Next1 = sent[layer][c + 1]
  BY <1>1, <1>2, NextToken
<1>4. Longer(First(layer, c), Next1, First(layer, c + 1))
  BY <1>2, <1>3, FirstLonger DEF First
<1> QED BY <1>1, <1>3, <1>4

\* Whatever token is taken, all but Reads holds after it.
LEMMA TakesInv ==
  ASSUME XmlInv, NEW type, Takes(type), UNCHANGED <<peer, wire, layer>>, stage' \in {"child", "ended"},
         got' = [l \in Layers |-> got'[l]], \A l \in Layers : l # layer => got'[l] = got[l]
  PROVE  /\ XmlTypeOK' /\ InTransit' /\ FirstStream' /\ Waits' /\ NothingLost'
         /\ Passed' = Passed + 1 /\ Offset' = Offset
<1>1. InTransit' /\ Passed' = Passed + 1 /\ buffer' \in Seq(InWire)
  BY TakesTransit DEF XmlInv, Takes, peer
<1>2. XmlTypeOK'
  BY <1>1 DEF XmlInv, XmlTypeOK, peer
<1>3. Offset' = Offset
  BY DEF Offset, peer
<1>4. FirstStream'
  <2>1. layer = "clear" => got'["tls"] = <<>>
    BY DEF XmlInv, FirstStream, Layers
  <2>2. layer = "tls" => got'["clear"] = got["clear"]
    BY DEF Layers
  <2> QED BY <2>1, <2>2 DEF XmlInv, FirstStream, First, peer
<1>5. Waits'
  <2>1. patient => Passed + 1 >= Offset
    <3>1. Passed \in Int /\ Offset \in Nat
      BY Lengths DEF XmlInv
    <3>2. patient => Passed >= Offset
      BY DEF XmlInv, Waits
    <3> QED BY <3>1, <3>2
  <2> QED BY <1>1, <1>3, <2>1 DEF XmlInv, Waits, First, peer
<1>6. NothingLost'
  BY DEF NothingLost
<1> QED BY <1>1, <1>2, <1>3, <1>4, <1>5, <1>6

\* The stream is followed on.
LEMMA FollowsOn ==
  ASSUME XmlInv, NEW type, Takes(type), UNCHANGED <<peer, wire, layer>>, stage' = "child",
         got' = [l \in Layers |-> got'[l]], \A l \in Layers : l # layer => got'[l] = got[l],
         NEW c \in 0 .. Len(sent[layer]) - 1, Passed = Offset + c,
         Following(First(layer, c + 1), open', got'[layer])
  PROVE  XmlInv'
<1>1. /\ XmlTypeOK' /\ InTransit' /\ FirstStream' /\ Waits' /\ NothingLost'
      /\ Passed' = Passed + 1 /\ Offset' = Offset
  BY TakesInv
<1>2. Len(sent[layer]) \in Nat /\ Offset \in Nat
  BY Lengths DEF XmlInv
<1>3. c + 1 \in 0 .. Len(sent[layer]) /\ Passed' = Offset + (c + 1)
  BY <1>1, <1>2
<1>4. First(layer, c + 1)' = First(layer, c + 1)
  BY DEF First, peer
<1>5. Reads'
  BY <1>1, <1>3, <1>4 DEF Reads, peer
<1> QED BY <1>1, <1>5 DEF XmlInv

LEMMA XmlInitInv == XmlInit => XmlInv
<1> SUFFICES ASSUME XmlInit PROVE XmlInv
  OBVIOUS
<1>1. /\ sent["clear"] = <<>> /\ sent["tls"] = <<>> /\ got["clear"] = <<>> /\ got["tls"] = <<>>
      /\ buffer = <<>> /\ wire = <<>> /\ layer = "clear" /\ stage = "root" /\ open = <<>>
  BY DEF XmlInit, Layers
<1>2. XmlTypeOK
  <2>1. <<>> \in Seq(Token) /\ <<>> \in Seq(InWire)
    OBVIOUS
  <2> QED BY <2>1 DEF XmlInit, XmlTypeOK, Layers
<1>3. Passed = 0 /\ Offset = 0
  BY <1>1 DEF Passed, Offset
<1>4. InTransit
  BY <1>1, <1>3 DEF InTransit, Follows
<1> QED BY <1>1, <1>2, <1>3, <1>4 DEF XmlInv, FirstStream, Waits, Reads, NothingLost

LEMMA ReadAheadInv == XmlInv /\ ReadAhead => XmlInv'
<1> SUFFICES ASSUME XmlInv, ReadAhead PROVE XmlInv'
  OBVIOUS
<1> USE DEF XmlInv
<1>1. PICK n \in DOMAIN wire : buffer' = SubSeq(wire, 1, n) /\ wire' = SubSeq(wire, n + 1, Len(wire))
  BY DEF ReadAhead
<1>2. buffer = <<>> /\ UNCHANGED <<patient, sent, layer, stage, open, got>>
  BY DEF ReadAhead, peer
<1>3. wire \in Seq(InWire) /\ n \in 1 .. Len(wire) /\ Len(wire) \in Nat
  BY DEF XmlTypeOK
<1>4. /\ buffer' \in Seq(InWire) /\ Len(buffer') = n /\ \A k \in 1 .. n : buffer'[k] = wire[k]
      /\ wire' \in Seq(InWire) /\ Len(wire') = Len(wire) - n
      /\ \A k \in 1 .. Len(wire) - n : wire'[k] = wire[n + k]
  BY <1>1, <1>3
<1>5. Passed' = Passed /\ Passed \in Int /\ Len(buffer) = 0
  <2> DEFINE a == Len(sent["clear"])
             b == Len(sent["tls"])
             w == Len(wire)
  <2>1. Passed = a + b - 0 - w /\ Passed' = a + b - n - (w - n)
    BY <1>2, <1>4 DEF Passed
  <2>2. a \in Nat /\ b \in Nat /\ w \in Nat
    BY Lengths
  <2> HIDE DEF a, b, w
  <2> QED BY <1>2, <1>3, <2>1, <2>2
<1> DEFINE C == sent["clear"]
           L == sent["tls"]
<1>6. \A k \in 1 .. Len(wire) : wire[k] = Entry(C, L, Passed + k)
  <2>1. Passed + Len(buffer) = Passed
    BY <1>5
  <2> QED BY <2>1 DEF InTransit, Follows
<1>7. Follows(C, L, buffer', Passed)
  <2>1. \A k \in 1 .. n : k \in 1 .. Len(wire)
    BY <1>3
  <2> QED BY <1>4, <1>6, <2>1 DEF Follows
<1>8. Follows(C, L, wire', Passed + Len(buffer'))
  <2>1. \A k \in 1 .. Len(wire) - n : n + k \in 1 .. Len(wire) /\ Passed + (n + k) = Passed + n + k
    BY <1>3, <1>5
  <2> HIDE DEF C, L
  <2> QED BY <1>4, <1>6, <2>1 DEF Follows
<1>9. InTransit'
  BY <1>2, <1>5, <1>7, <1>8 DEF InTransit
<1>10. XmlTypeOK'
  BY <1>2, <1>4 DEF XmlTypeOK
<1>11. FirstStream' /\ NothingLost' /\ Offset' = Offset /\ \A l, c : First(l, c)' = First(l, c)
  BY <1>2 DEF FirstStream, NothingLost, Offset, First
<1>12. Waits'
  BY <1>2, <1>5, <1>11 DEF Waits, First
<1>13. Reads'
  BY <1>2, <1>5, <1>11 DEF Reads, First
<1> QED BY <1>9, <1>10, <1>11, <1>12, <1>13

LEMMA StartElementInv == XmlInv /\ StartElement => XmlInv'
<1> SUFFICES ASSUME XmlInv, StartElement PROVE XmlInv'
  OBVIOUS
<1>1. stage = "child" /\ Takes("start") /\ Next1.type = "start" /\ buffer # <<>> /\ Readable
  BY DEF StartElement, Takes
<1>2. PICK c \in 0 .. Len(sent[layer]) - 1 :
        /\ Passed = Offset + c /\ Following(First(layer, c), open, got[layer])
        /\ Longer(First(layer, c), Next1, First(layer, c + 1))
  BY <1>1, ChildNext
<1>3. Following(First(layer, c + 1), open', got[layer])
  <2>1. open' = Append(open, Element(Next1.name))
    BY DEF StartElement
  <2>2. Following(First(layer, c + 1), Append(open, Element(Next1.name)), got[layer])
    BY <1>1, <1>2, FollowStart
  <2> QED BY <2>1, <2>2
<1> QED BY <1>1, <1>2, <1>3, FollowsOn DEF StartElement, XmlInv, XmlTypeOK

LEMMA CharDataInv == XmlInv /\ CharData => XmlInv'
<1> SUFFICES ASSUME XmlInv, CharData PROVE XmlInv'
  OBVIOUS
<1>1. stage = "child" /\ Takes("text") /\ Next1.type = "text" /\ buffer # <<>> /\ Readable
  BY DEF CharData, Takes
<1>2. PICK c \in 0 .. Len(sent[layer]) - 1 :
        /\ Passed = Offset + c /\ Following(First(layer, c), open, got[layer])
        /\ Longer(First(layer, c), Next1, First(layer, c + 1))
  BY <1>1, ChildNext
<1>3. Following(First(layer, c + 1), open', got[layer])
  <2>1. open' = IF open = <<>> THEN open ELSE Append(Front(open), [Last(open) EXCEPT !.text = Next1.text])
    BY DEF CharData
  <2>2. Following(First(layer, c + 1),
                  IF open = <<>> THEN open ELSE Append(Front(open), [Last(open) EXCEPT !.text = Next1.text]),
                  got[layer])
    BY <1>1, <1>2, FollowText
  <2> QED BY <2>1, <2>2
<1> QED BY <1>1, <1>2, <1>3, FollowsOn DEF CharData, XmlInv, XmlTypeOK

LEMMA EndChildInv == XmlInv /\ EndChild => XmlInv'
<1> SUFFICES ASSUME XmlInv, EndChild PROVE XmlInv'
  OBVIOUS
<1>1. stage = "child" /\ Takes("end") /\ Next1.type = "end" /\ buffer # <<>> /\ Readable /\ Len(open) > 1
  BY DEF EndChild, Takes
<1>2. PICK c \in 0 .. Len(sent[layer]) - 1 :
        /\ Passed = Offset + c /\ Following(First(layer, c), open, got[layer])
        /\ Longer(First(layer, c), Next1, First(layer, c + 1))
  BY <1>1, ChildNext
<1>3. Following(First(layer, c + 1), open', got[layer])
  <2>1. open' = Append(Front(Front(open)), [Last(Front(open)) EXCEPT !.children = Append(@, Last(open))])
    BY DEF EndChild
  <2>2. Following(First(layer, c + 1),
                  Append(Front(Front(open)), [Last(Front(open)) EXCEPT !.children = Append(@, Last(open))]),
                  got[layer])
    BY <1>1, <1>2, FollowChild
  <2> QED BY <2>1, <2>2
<1> QED BY <1>1, <1>2, <1>3, FollowsOn DEF EndChild, XmlInv, XmlTypeOK

\* An element of the root is returned.
LEMMA ReturnsElement ==
  ASSUME XmlInv, EndElement
  PROVE  \E c \in 0 .. Len(sent[layer]) - 1 :
           /\ Passed = Offset + c
           /\ Following(First(layer, c), open, got[layer])
           /\ Following(First(layer, c + 1), <<>>, Append(got[layer], open[1]))
<1>1. stage = "child" /\ Next1.type = "end" /\ buffer # <<>> /\ Readable /\ Len(open) = 1
  BY DEF EndElement
<1>2. PICK c \in 0 .. Len(sent[layer]) - 1 :
        /\ Passed = Offset + c /\ Following(First(layer, c), open, got[layer])
        /\ Longer(First(layer, c), Next1, First(layer, c + 1))
  BY <1>1, ChildNext
<1> QED BY <1>1, <1>2, FollowReturn

LEMMA EndElementInv == XmlInv /\ EndElement => XmlInv'
<1> SUFFICES ASSUME XmlInv, EndElement PROVE XmlInv'
  OBVIOUS
<1>1. PICK c \in 0 .. Len(sent[layer]) - 1 :
        /\ Passed = Offset + c
        /\ Following(First(layer, c), open, got[layer])
        /\ Following(First(layer, c + 1), <<>>, Append(got[layer], open[1]))
  BY ReturnsElement
<1>2. /\ got' = [l \in Layers |-> got'[l]] /\ got'[layer] = Append(got[layer], open[1])
      /\ \A l \in Layers : l # layer => got'[l] = got[l]
  BY DEF EndElement, XmlInv, XmlTypeOK
<1>3. CASE layer = "clear" /\ open[1].name = "starttls"
  <2>0. /\ layer' = "tls" /\ stage' = "root" /\ buffer' = <<>> /\ open' = <<>>
        /\ UNCHANGED <<patient, sent, wire>> /\ buffer # <<>>
    BY <1>3 DEF EndElement, peer
  <2> DEFINE n == Len(sent["clear"])
             m == Len(sent["tls"])
             b == Len(buffer)
             w == Len(wire)
  <2>1. /\ n \in Nat /\ m \in Nat /\ b \in Nat /\ w \in Nat /\ b >= 1 /\ sent["clear"] \in Seq(Token)
        /\ c \in 0 .. n - 1 /\ Passed = c /\ Passed = n + m - b - w /\ Passed' = n + m - 0 - w
    <3>1. n \in Nat /\ m \in Nat /\ b \in Nat /\ w \in Nat /\ sent["clear"] \in Seq(Token)
      BY Lengths DEF XmlInv
    <3>2. b >= 1
      BY <2>0 DEF XmlInv, XmlTypeOK
    <3>3. Passed = n + m - b - w /\ Passed' = n + m - 0 - w
      BY <2>0 DEF Passed
    <3>4. Offset = 0
      BY <1>3 DEF Offset
    <3>5. c \in 0 .. n - 1 /\ Passed = c
      <4>1. c \in 0 .. n - 1 /\ Passed = 0 + c
        BY <1>1, <1>3, <3>4
      <4> QED BY <4>1
    <3> QED BY <3>1, <3>2, <3>3, <3>5
  <2>2. XmlTypeOK'
    <3>1. <<>> \in Seq(InWire)
      OBVIOUS
    <3> QED BY <1>2, <2>0, <3>1 DEF XmlInv, XmlTypeOK, Layers
  <2>3. InTransit'
    <3>1. Passed' >= 0 /\ Passed + b = Passed' + 0
      <4> DEFINE r == Passed
                 q == Passed'
      <4>1. r = n + m - b - w /\ q = n + m - 0 - w /\ r = c
        BY <2>1
      <4> HIDE DEF n, m, b, w, r, q
      <4> QED BY <2>1, <4>1
    <3>2. Follows(sent["clear"], sent["tls"], wire, Passed' + Len(<<>>))
      BY <3>1 DEF XmlInv, InTransit
    <3>3. Follows(sent["clear"], sent["tls"], <<>>, Passed')
      BY DEF Follows
    <3> QED BY <2>0, <3>1, <3>2, <3>3 DEF InTransit
  <2>4. got'["clear"] = Children(First("clear", c + 1)) /\ Asks(got'["clear"])
    <3> DEFINE kids == got["clear"]
               e    == open[1]
    <3>1. Children(First("clear", c)) = kids /\ Children(First("clear", c + 1)) = Append(kids, e)
      BY <1>1, <1>3, FollowChildren
    <3>2. \E S : kids \in Seq(S)
      <4> DEFINE s == First("clear", c)
      <4>1. s \in Seq(Token)
        <5> DEFINE C == sent["clear"]
        <5>1. C \in Seq(Token) /\ c \in 0 .. Len(C) - 1
          BY <2>1
        <5> HIDE DEF C
        <5>2. SubSeq(C, 1, c) \in Seq(Token)
          BY <5>1
        <5> QED BY <5>2 DEF First, C
      <4>2. Len(s) \in Nat /\ DOMAIN s = 1 .. Len(s)
        BY <4>1
      <4> HIDE DEF s
      <4>3. \E S : Children(s) \in Seq(S)
        BY <4>2, ChildrenAre
      <4> QED BY <3>1, <4>3 DEF s
    <3>3. got'["clear"] = Append(kids, e) /\ e.name = "starttls"
      BY <1>2, <1>3
    <3> HIDE DEF kids, e
    <3>4. PICK S : kids \in Seq(S)
      BY <3>2
    <3>5. kids \in Seq(S \cup {e})
      BY <3>4, SeqGrows
    <3>6. Len(kids) + 1 \in DOMAIN Append(kids, e) /\ Append(kids, e)[Len(kids) + 1] = e
      BY <3>5
    <3> QED BY <3>1, <3>3, <3>6 DEF Asks
  <2>5. patient => c + 1 = n /\ m = 0 /\ w = 0
    <3> SUFFICES ASSUME patient PROVE c + 1 = n /\ m = 0 /\ w = 0
      OBVIOUS
    <3>1. m = 0
      BY <1>3 DEF XmlInv, Waits
    <3>2. ASSUME c + 1 # n PROVE FALSE
      <4>1. c + 1 \in 0 .. n - 1
        <5> HIDE DEF n, m, b, w
        <5> QED BY <2>1, <3>2
      <4> QED BY <2>4, <4>1 DEF XmlInv, Waits
    <3>3. w = 0
      <4> HIDE DEF n, m, b, w
      <4> QED BY <2>1, <3>1, <3>2
    <3> QED BY <3>1, <3>2, <3>3
  <2>6. FirstStream'
    <3>1. c + 1 \in 0 .. n
      <4> HIDE DEF n, m, b, w
      <4> QED BY <2>1
    <3>2. First("clear", c + 1)' = First("clear", c + 1)
      BY <2>0 DEF First
    <3> QED BY <2>0, <2>4, <2>5, <3>1, <3>2 DEF FirstStream
  <2>7. patient => Passed' = n /\ Offset' = n
    <3>1. patient => Passed' = n
      <4> DEFINE q == Passed'
      <4>1. q = n + m - 0 - w
        BY <2>1
      <4> HIDE DEF n, m, b, w, q
      <4> QED BY <2>1, <2>5, <4>1
    <3> QED BY <2>0, <3>1 DEF Offset
  <2>8. Waits'
    <3>1. patient => \A k \in 0 .. Len(sent'["clear"]) - 1 : ~Asks(Children(First("clear", k)'))
      BY <2>0 DEF XmlInv, Waits, First
    <3>2. patient => Passed' >= Offset'
      <4> HIDE DEF n, m, b, w
      <4> QED BY <2>1, <2>7
    <3> QED BY <2>0, <3>1, <3>2 DEF Waits
  <2>9. Reads'
    <3>1. got'["tls"] = <<>>
      BY <1>2, <1>3 DEF XmlInv, FirstStream, Layers
    <3> QED BY <2>0, <2>7, <3>1 DEF Reads
  <2>10. NothingLost'
    BY <2>0 DEF NothingLost
  <2> QED BY <2>2, <2>3, <2>6, <2>8, <2>9, <2>10 DEF XmlInv
<1>4. CASE ~(layer = "clear" /\ open[1].name = "starttls")
  <2>1. Takes("end") /\ UNCHANGED <<peer, wire, layer>> /\ stage' = "child" /\ open' = <<>>
    BY <1>4 DEF EndElement, Takes
  <2> QED BY <1>1, <1>2, <2>1, FollowsOn
<1> QED BY <1>3, <1>4

LEMMA EndStreamInv == XmlInv /\ EndStream => XmlInv'
<1> SUFFICES ASSUME XmlInv, EndStream PROVE XmlInv'
  OBVIOUS
<1>1. /\ stage = "child" /\ Takes("end") /\ Next1.type = "end" /\ buffer # <<>> /\ Readable /\ open = <<>>
      /\ UNCHANGED <<peer, wire, layer, open, got>> /\ stage' = "ended"
  BY DEF EndStream, Takes
<1>2. PICK c \in 0 .. Len(sent[layer]) - 1 :
        /\ Passed = Offset + c /\ Following(First(layer, c), open, got[layer])
        /\ Longer(First(layer, c), Next1, First(layer, c + 1))
  BY <1>1, ChildNext
<1>3. Children(First(layer, c + 1)) = got[layer]
  BY <1>1, <1>2, FollowNoMore
<1>4. got = [l \in Layers |-> got[l]]
  BY DEF XmlInv, XmlTypeOK
<1>5. /\ XmlTypeOK' /\ InTransit' /\ FirstStream' /\ Waits' /\ NothingLost'
      /\ Passed' = Passed + 1 /\ Offset' = Offset
  BY <1>1, <1>4, TakesInv
<1>6. Reads'
  <2>1. /\ Len(sent[layer]) \in Nat /\ Offset \in Nat
    BY Lengths DEF XmlInv
  <2>2. c + 1 \in 0 .. Len(sent[layer]) /\ Passed' = Offset + (c + 1) /\ sent[layer] # <<>>
    BY <1>2, <1>5, <2>1
  <2>3. First(layer, c + 1)' = First(layer, c + 1)
    BY <1>1 DEF First, peer
  <2> QED BY <1>1, <1>3, <1>5, <2>2, <2>3 DEF Reads, peer
<1> QED BY <1>5, <1>6 DEF XmlInv

LEMMA OpenStreamInv == XmlInv /\ OpenStream => XmlInv'
<1> SUFFICES ASSUME XmlInv, OpenStream PROVE XmlInv'
  OBVIOUS
<1>1. /\ stage = "root" /\ Takes("start") /\ Next1.type = "start" /\ buffer # <<>> /\ Readable
      /\ UNCHANGED <<peer, wire, layer, open, got>> /\ stage' = "child"
  BY DEF OpenStream, Takes
<1>2. open = <<>> /\ got[layer] = <<>>
  BY <1>1 DEF XmlInv, Reads
<1>3. 0 \in 0 .. Len(sent[layer]) - 1 /\ Passed = Offset + 0 /\ Next1 = sent[layer][0 + 1]
  BY <1>1, NextToken
<1>4. sent[layer] \in Seq(Token)
  BY Lengths DEF XmlInv
<1>5. Longer(First(layer, 0), Next1, First(layer, 0 + 1)) /\ Len(First(layer, 0)) = 0
  BY <1>3, <1>4, FirstLonger DEF First
<1>6. Following(First(layer, 0 + 1), <<>>, <<>>)
  BY <1>1, <1>5, FollowRoot
<1>7. got = [l \in Layers |-> got[l]]
  BY DEF XmlInv, XmlTypeOK
<1>8. Following(First(layer, 0 + 1), open', got'[layer])
  BY <1>1, <1>2, <1>6
<1> QED BY <1>1, <1>3, <1>7, <1>8, FollowsOn

LEMMA FailsInv == XmlInv /\ Fails => XmlInv'
<1> SUFFICES ASSUME XmlInv, Fails PROVE XmlInv'
  OBVIOUS
<1> USE DEF XmlInv
<1>1. /\ Reading /\ buffer # <<>> /\ ~Readable /\ stage' = "failed"
      /\ UNCHANGED <<patient, sent, wire, buffer, layer, open, got>>
  BY DEF Fails, peer
<1>2. /\ Len(sent["clear"]) \in Nat /\ Len(sent["tls"]) \in Nat /\ Len(buffer) \in Nat /\ Len(wire) \in Nat
      /\ Passed \in Int /\ Passed >= 0 /\ sent["clear"] \in Seq(Token) /\ sent["tls"] \in Seq(Token)
      /\ sent[layer] \in Seq(Token) /\ Offset \in Nat
  BY Lengths DEF InTransit
<1>3. Passed' = Passed /\ Offset' = Offset /\ InTransit' /\ FirstStream' /\ Waits' /\ XmlTypeOK'
  BY <1>1 DEF Passed, Offset, InTransit, FirstStream, Waits, XmlTypeOK, First
<1>4. Reads'
  <2>1. \E c \in 0 .. Len(sent[layer]) : got[layer] = Children(First(layer, c))
    <3>1. CASE stage = "root"
      <4>1. First(layer, 0) = <<>> /\ 0 \in 0 .. Len(sent[layer])
        BY <1>2 DEF First
      <4>2. Children(<<>>) = <<>>
        BY DEF Children, Starts
      <4> QED BY <3>1, <4>1, <4>2 DEF Reads
    <3>2. CASE stage = "child"
      BY <3>2, FollowChildren DEF Reads
    <3> QED BY <1>1, <3>1, <3>2 DEF Reading
  <2>2. \A l, c : First(l, c)' = SubSeq(sent[l], 1, c)
    BY <1>1 DEF First
  <2> QED BY <1>1, <2>1 DEF Reads, First
<1>5. NothingLost'
  <2> SUFFICES ASSUME patient PROVE BadToken \in ToSet(sent[layer])
    BY <1>1 DEF NothingLost
  <2> DEFINE C == sent["clear"]
             L == sent["tls"]
             n == Len(C)
             m == Len(L)
             g == Passed + 1
             h == Head(buffer)
  <2>1. /\ h = Entry(C, L, g) /\ h \in InWire /\ 1 \in 1 .. Len(buffer)
    <3>1. buffer \in Seq(InWire) /\ Len(buffer) >= 1 /\ h = buffer[1] /\ h \in InWire
      BY <1>1 DEF XmlTypeOK
    <3>2. 1 \in 1 .. Len(buffer)
      BY <1>2, <3>1
    <3> QED BY <3>1, <3>2 DEF InTransit, Follows
  <2>2. g <= n + m /\ g \in Nat
    <3> DEFINE r == Passed
               b == Len(buffer)
               w == Len(wire)
    <3>1. r = n + m - b - w
      BY DEF Passed
    <3>2. n \in Nat /\ m \in Nat /\ b \in Nat /\ w \in Nat /\ b >= 1 /\ r \in Nat /\ g = r + 1
      BY <1>2, <2>1
    <3> HIDE DEF n, m, b, w, r, g
    <3> QED BY <3>1, <3>2
  <2>3. Passed >= Offset /\ (stage = "root" => Passed = Offset)
    BY <1>3 DEF Waits, Reads
  <2>4. /\ h.token \in ToSet(sent[layer])
        /\ IF layer = "clear" THEN h.in = "clear" ELSE h.in = "tls" /\ (stage = "root" => h.n = 1)
    <3>1. CASE layer = "clear"
      <4>1. m = 0
        BY <3>1 DEF Waits
      <4>2. g \in 1 .. n /\ g <= n
        BY <1>2, <2>2, <4>1
      <4>3. h.in = "clear" /\ h.token = C[g]
        BY <2>1, <4>2 DEF Entry
      <4> QED BY <1>2, <3>1, <4>2, <4>3 DEF ToSet
    <3>2. CASE layer = "tls"
      <4>1. Passed >= n /\ (stage = "root" => Passed = n)
        BY <2>3, <3>2 DEF Offset
      <4>2. ~(g <= n) /\ g - n \in 1 .. m /\ (stage = "root" => g - n = 1)
        <5> DEFINE r == Passed
        <5>1. n \in Nat /\ m \in Nat /\ r \in Nat /\ g = r + 1 /\ r >= n /\ (stage = "root" => r = n)
          BY <1>2, <4>1
        <5> HIDE DEF n, m, r, g
        <5> QED BY <2>2, <5>1
      <4>3. h.in = "tls" /\ h.n = g - n /\ h.token = L[g - n]
        BY <2>1, <4>2 DEF Entry
      <4>4. L[g - n] \in ToSet(L)
        <5> DEFINE j == g - n
        <5>1. j \in 1 .. Len(L) /\ L \in Seq(Token)
          BY <1>2, <4>2
        <5> HIDE DEF j, L
        <5>2. L[j] \in ToSet(L)
          BY <5>1 DEF ToSet
        <5> QED BY <5>2 DEF j
      <4> QED BY <3>2, <4>2, <4>3, <4>4
    <3> QED BY <3>1, <3>2 DEF XmlTypeOK, Layers
  <2>5. h.token.type = "bad"
    BY <1>1, <2>4 DEF Readable, Next1
  <2>6. h.token = BadToken
    BY <2>1, <2>5 DEF InWire, Token, BadToken, EndToken
  <2> QED BY <2>4, <2>6
<1> QED BY <1>3, <1>4, <1>5

\* What comes out of PeerSends.
LEMMA SendsInv == XmlInv /\ PeerSends => XmlInv'
<1> SUFFICES ASSUME XmlInv, PeerSends PROVE XmlInv'
  OBVIOUS
<1> USE DEF XmlInv
<1>1. PICK l \in Layers, t \in Token : Sends(l, t)
  <2>1. PICK l \in Layers :
          \/ \E n \in Names \cup {Root} : Sends(l, StartToken(n))
          \/ Sends(l, EndToken) \/ Sends(l, BadToken) \/ Sends(l, Text(Len(sent[l])))
    BY DEF PeerSends
  <2>2. Len(sent[l]) \in Nat
    BY DEF XmlTypeOK
  <2>3. /\ \A n \in Names \cup {Root} : StartToken(n) \in Token
        /\ EndToken \in Token /\ BadToken \in Token /\ Text(Len(sent[l])) \in Token
    BY <2>2 DEF Token, StartToken, Text
  <2> QED BY <2>1, <2>3
<1>2. /\ l = "clear" => sent["tls"] = <<>> /\ (Asked => ~patient)
      /\ l = "tls" => Asked /\ (patient => layer = "tls")
      /\ sent' = [sent EXCEPT ![l] = Append(@, t)]
      /\ wire' = Append(wire, [in |-> l, n |-> Len(sent'[l]), token |-> t])
      /\ UNCHANGED <<patient, buffer, layer, stage, open, got>>
  BY <1>1 DEF Sends, decoder
<1> DEFINE C == sent["clear"]
           L == sent["tls"]
<1>3. /\ C \in Seq(Token) /\ L \in Seq(Token) /\ Len(C) \in Nat /\ Len(L) \in Nat
  BY Lengths
<1>4. /\ InTransit' /\ Passed' = Passed
      /\ sent' \in [Layers -> Seq(Token)] /\ wire' \in Seq(InWire)
  BY <1>1, <1>2, SendsTransit
<1>5. XmlTypeOK'
  BY <1>2, <1>4 DEF XmlTypeOK
<1>6. /\ sent'["clear"] = IF l = "clear" THEN Append(C, t) ELSE C
      /\ sent'["tls"] = IF l = "tls" THEN Append(L, t) ELSE L
  BY <1>2 DEF XmlTypeOK, Layers
<1>7. /\ Append(C, t) \in Seq(Token) /\ Len(Append(C, t)) = Len(C) + 1
      /\ Append(L, t) \in Seq(Token) /\ Len(Append(L, t)) = Len(L) + 1
  BY <1>3
\* What was read of a stream stays what it was.
<1>8. ASSUME NEW k \in Layers, NEW c \in 0 .. Len(sent[k])
      PROVE  SubSeq(sent'[k], 1, c) = SubSeq(sent[k], 1, c) /\ c \in 0 .. Len(sent'[k])
  <2>1. CASE k = l
    <3>1. sent[k] \in Seq(Token) /\ sent'[k] = Append(sent[k], t)
      BY <1>2, <2>1 DEF XmlTypeOK
    <3>2. SubSeq(Append(sent[k], t), 1, c) = SubSeq(sent[k], 1, c)
      BY <3>1, FirstKeeps
    <3>3. Len(sent'[k]) = Len(sent[k]) + 1 /\ Len(sent[k]) \in Nat
      BY <3>1
    <3> QED BY <3>1, <3>2, <3>3
  <2>2. CASE k # l
    BY <1>2, <2>2 DEF XmlTypeOK
  <2> QED BY <2>1, <2>2
\* A peer that waits sends in the layer that is read.
<1>9. patient => l = layer
  <2> SUFFICES ASSUME patient, l = "clear", layer = "tls" PROVE FALSE
    BY <1>2 DEF XmlTypeOK, Layers
  <2>1. Asks(got["clear"]) /\ got["clear"] = Children(First("clear", Len(C)))
    BY DEF FirstStream
  <2>2. First("clear", Len(C)) = C
    BY <1>3, FirstAll DEF First
  <2> QED BY <1>2, <2>1, <2>2 DEF Asked, Asks
<1>10. FirstStream'
  <2> SUFFICES ASSUME layer = "tls"
               PROVE  /\ Asks(got["clear"])
                      /\ \E m \in 0 .. Len(sent'["clear"]) :
                           got["clear"] = Children(SubSeq(sent'["clear"], 1, m)) /\ (patient => m = Len(sent'["clear"]))
    BY <1>2 DEF FirstStream, First
  <2>1. PICK m \in 0 .. Len(C) : got["clear"] = Children(SubSeq(C, 1, m)) /\ (patient => m = Len(C))
    BY DEF FirstStream, First
  <2>2. SubSeq(sent'["clear"], 1, m) = SubSeq(C, 1, m) /\ m \in 0 .. Len(sent'["clear"])
    BY <1>8, <2>1 DEF Layers
  <2>3. patient => sent'["clear"] = C
    BY <1>6, <1>9
  <2> QED BY <2>1, <2>2, <2>3 DEF FirstStream
<1>11. stage # "root" \/ layer = "clear" \/ patient => stage = "failed" \/ Offset' = Offset
  <2> SUFFICES ASSUME layer = "tls", l = "clear", stage # "failed", stage # "root" \/ patient PROVE FALSE
    BY <1>2, <1>6 DEF Offset, XmlTypeOK, Layers
  <2>1. ~patient
    BY <1>9
  <2>2. L = <<>>
    BY <1>2
  <2>3. stage = "child"
    <3>1. stage # "ended"
      BY <2>2 DEF Reads
    <3> QED BY <2>1, <3>1 DEF XmlTypeOK
  <2>4. PICK c \in 0 .. Len(L) : Following(First("tls", c), open, got["tls"])
    BY <2>3 DEF Reads
  <2>5. First("tls", c) = <<>>
    BY <2>2, <2>4 DEF First
  <2> QED BY <2>4, <2>5 DEF Following, IsOpen, Starts
<1>12. Waits'
  <2> SUFFICES ASSUME patient
               PROVE  /\ \A m \in 0 .. Len(sent'["clear"]) - 1 : ~Asks(Children(SubSeq(sent'["clear"], 1, m)))
                      /\ layer = "clear" => sent'["tls"] = <<>>
                      /\ Passed >= Offset'
    BY <1>2, <1>4 DEF Waits, First
  <2>1. ASSUME NEW m \in 0 .. Len(sent'["clear"]) - 1 PROVE ~Asks(Children(SubSeq(sent'["clear"], 1, m)))
    <3>1. CASE l = "clear"
      <4>1. m \in 0 .. Len(C)
        BY <1>3, <1>6, <1>7, <3>1
      <4>2. SubSeq(sent'["clear"], 1, m) = SubSeq(C, 1, m)
        BY <1>8, <4>1 DEF Layers
      <4>3. CASE m = Len(C)
        <5>1. ~Asks(Children(C))
          BY <1>2, <3>1 DEF Asked, Asks
        <5>2. SubSeq(C, 1, m) = C
          BY <1>3, <4>3, FirstAll
        <5> QED BY <4>2, <5>1, <5>2
      <4>4. CASE m # Len(C)
        <5>1. m \in 0 .. Len(C) - 1
          <6> DEFINE n == Len(C)
          <6>1. n \in Nat /\ m \in 0 .. n /\ m # n
            BY <1>3, <4>1, <4>4
          <6> HIDE DEF n
          <6>2. m \in 0 .. n - 1
            BY <6>1
          <6> QED BY <6>2 DEF n
        <5> QED BY <4>2, <5>1 DEF Waits, First
      <4> QED BY <4>3, <4>4
    <3>2. CASE l # "clear"
      BY <1>6, <3>2 DEF Waits, First
    <3> QED BY <3>1, <3>2
  <2>2. layer = "clear" => sent'["tls"] = <<>>
    BY <1>6, <1>9 DEF Waits
  <2>3. Offset' = Offset
    BY <1>2, <1>6, <1>9 DEF Offset
  <2> QED BY <2>1, <2>2, <2>3 DEF Waits
<1>13. Reads'
  <2>1. stage = "root" => open = <<>> /\ got[layer] = <<>> /\ (layer = "clear" \/ patient => Passed = Offset')
    BY <1>11 DEF Reads
  <2>2. stage = "child" =>
          \E c \in 0 .. Len(sent'[layer]) :
            Passed = Offset' + c /\ Following(SubSeq(sent'[layer], 1, c), open, got[layer])
    <3> SUFFICES ASSUME stage = "child"
                 PROVE  \E c \in 0 .. Len(sent'[layer]) :
                          Passed = Offset' + c /\ Following(SubSeq(sent'[layer], 1, c), open, got[layer])
      OBVIOUS
    <3>1. PICK c \in 0 .. Len(sent[layer]) : Passed = Offset + c /\ Following(SubSeq(sent[layer], 1, c), open, got[layer])
      BY DEF Reads, First
    <3>2. SubSeq(sent'[layer], 1, c) = SubSeq(sent[layer], 1, c) /\ c \in 0 .. Len(sent'[layer])
      BY <1>8, <3>1 DEF XmlTypeOK
    <3> QED BY <1>11, <3>1, <3>2
  <2>3. stage \in {"ended", "failed"} =>
          \E c \in 0 .. Len(sent'[layer]) :
            /\ got[layer] = Children(SubSeq(sent'[layer], 1, c))
            /\ stage = "ended" => Passed = Offset' + c /\ sent'[layer] # <<>>
    <3> SUFFICES ASSUME stage \in {"ended", "failed"}
                 PROVE  \E c \in 0 .. Len(sent'[layer]) :
                          /\ got[layer] = Children(SubSeq(sent'[layer], 1, c))
                          /\ stage = "ended" => Passed = Offset' + c /\ sent'[layer] # <<>>
      OBVIOUS
    <3>1. PICK c \in 0 .. Len(sent[layer]) :
            /\ got[layer] = Children(SubSeq(sent[layer], 1, c))
            /\ stage = "ended" => Passed = Offset + c /\ sent[layer] # <<>>
      BY DEF Reads, First
    <3>2. SubSeq(sent'[layer], 1, c) = SubSeq(sent[layer], 1, c) /\ c \in 0 .. Len(sent'[layer])
      BY <1>8, <3>1 DEF XmlTypeOK
    <3>3. sent[layer] # <<>> => sent'[layer] # <<>>
      <4>1. Append(C, t) # <<>> /\ Append(L, t) # <<>>
        BY <1>3, <1>7
      <4> HIDE DEF C, L
      <4> QED BY <1>6, <4>1 DEF C, L, XmlTypeOK, Layers
    <3> QED BY <1>11, <3>1, <3>2, <3>3
  <2> QED BY <1>2, <1>4, <2>1, <2>2, <2>3 DEF Reads, First
<1>14. NothingLost'
  <2> SUFFICES ASSUME BadToken \in ToSet(sent[layer]) PROVE BadToken \in ToSet(sent'[layer])
    BY <1>2 DEF NothingLost
  <2>1. CASE l = layer
    <3> DEFINE s == sent[layer]
    <3>1. s \in Seq(Token) /\ sent'[layer] = Append(s, t)
      BY <1>2, <2>1 DEF XmlTypeOK
    <3>2. PICK j \in DOMAIN s : s[j] = BadToken
      BY DEF ToSet
    <3> HIDE DEF s
    <3>3. j \in DOMAIN Append(s, t) /\ Append(s, t)[j] = BadToken
      BY <3>1, <3>2
    <3> QED BY <3>1, <3>3 DEF ToSet
  <2>2. CASE l # layer
    BY <1>2, <2>2 DEF XmlTypeOK
  <2> QED BY <2>1, <2>2
<1> QED BY <1>4, <1>5, <1>10, <1>12, <1>13, <1>14

\* What NextChild has returned is whole, in order, and complete when all was read.
LEMMA WholeAndInOrder == XmlInv => StanzasWhole
<1> SUFFICES ASSUME XmlInv PROVE StanzasWhole
  OBVIOUS
<1> USE DEF XmlInv
<1> DEFINE C == sent["clear"]
           L == sent["tls"]
           K(l, c) == Children(SubSeq(sent[l], 1, c))
<1>1. /\ C \in Seq(Token) /\ L \in Seq(Token) /\ Len(C) \in Nat /\ Len(L) \in Nat /\ layer \in Layers
  BY Lengths DEF XmlTypeOK
<1>2. Children(<<>>) = <<>>
  BY DEF Children, Starts
<1>3. ASSUME NEW l \in Layers, NEW c \in 0 .. Len(sent[l]), got[l] = K(l, c) PROVE IsPrefix(got[l], Children(sent[l]))
  <2>1. sent[l] \in Seq(Token)
    BY DEF XmlTypeOK
  <2> QED BY <1>3, <2>1, ChildrenOfFirst
\* Of the stream that is read.
<1>4. \E c \in 0 .. Len(sent[layer]) :
        /\ got[layer] = K(layer, c)
        /\ stage \in {"child", "ended"} => Passed = Offset + c
        /\ stage = "root" => c = 0
  <2>1. CASE stage = "root"
    <3>1. SubSeq(sent[layer], 1, 0) = <<>> /\ 0 \in 0 .. Len(sent[layer])
      BY <1>1 DEF Layers
    <3> QED BY <1>2, <2>1, <3>1 DEF Reads
  <2>2. CASE stage = "child"
    BY <2>2, FollowChildren DEF Reads, First
  <2>3. CASE stage \in {"ended", "failed"}
    BY <2>3 DEF Reads, First
  <2> QED BY <2>1, <2>2, <2>3 DEF XmlTypeOK
<1>5. PICK c \in 0 .. Len(sent[layer]) :
        /\ got[layer] = K(layer, c)
        /\ stage \in {"child", "ended"} => Passed = Offset + c
        /\ stage = "root" => c = 0
  BY <1>4
\* Of the other one.
<1>6. ASSUME NEW l \in Layers, l # layer PROVE \E m \in 0 .. Len(sent[l]) : got[l] = K(l, m)
  <2>1. CASE layer = "clear"
    <3>1. l = "tls" /\ got["tls"] = <<>> /\ SubSeq(L, 1, 0) = <<>> /\ 0 \in 0 .. Len(L)
      BY <1>1, <1>6, <2>1 DEF FirstStream, Layers
    <3> QED BY <1>2, <3>1
  <2>2. CASE layer = "tls"
    <3>1. l = "clear"
      BY <1>6, <2>2 DEF Layers
    <3> QED BY <2>2, <3>1 DEF FirstStream, First
  <2> QED BY <1>1, <2>1, <2>2 DEF Layers
<1>7. \A l \in Layers : IsPrefix(got[l], Children(sent[l]))
  <2> SUFFICES ASSUME NEW l \in Layers PROVE IsPrefix(got[l], Children(sent[l]))
    OBVIOUS
  <2>1. PICK m \in 0 .. Len(sent[l]) : got[l] = K(l, m)
    BY <1>5, <1>6
  <2> QED BY <1>3, <2>1
<1>8. ASSUME patient, wire = <<>>, buffer = <<>>, stage # "failed" PROVE got = [l \in Layers |-> Children(sent[l])]
  <2>1. Passed = Len(C) + Len(L)
    <3> DEFINE n == Len(C)
               m == Len(L)
    <3>1. Passed = n + m - 0 - 0 /\ n \in Nat /\ m \in Nat
      BY <1>1, <1>8 DEF Passed
    <3> HIDE DEF n, m
    <3>2. Passed = n + m
      BY <3>1
    <3> QED BY <3>2 DEF n, m
  <2>2. Passed = Offset + c
    <3>1. stage = "root" => Passed = Offset
      BY <1>8 DEF Reads
    <3>2. Offset \in Nat
      BY Lengths
    <3> QED BY <1>5, <1>8, <3>1, <3>2 DEF XmlTypeOK
  <2>3. CASE layer = "clear"
    <3>1. L = <<>> /\ got["tls"] = <<>> /\ Offset = 0
      BY <1>8, <2>3 DEF Waits, FirstStream, Offset
    <3>2. c = Len(C)
      BY <1>1, <1>5, <2>1, <2>2, <2>3, <3>1
    <3>3. got["clear"] = Children(C)
      BY <1>1, <1>5, <2>3, <3>2, FirstAll
    <3> QED BY <1>2, <3>1, <3>3 DEF XmlTypeOK, Layers
  <2>4. CASE layer = "tls"
    <3>1. Offset = Len(C) /\ got["clear"] = K("clear", Len(C))
      BY <1>8, <2>4 DEF FirstStream, Offset, First
    <3>2. c = Len(L)
      <4> DEFINE n == Len(C)
                 m == Len(L)
      <4>1. n \in Nat /\ m \in Nat /\ c \in 0 .. m /\ n + m = n + c
        BY <1>1, <1>5, <2>1, <2>2, <2>4, <3>1
      <4> HIDE DEF n, m
      <4>2. c = m
        BY <4>1
      <4> QED BY <4>2 DEF m
    <3>3. got["tls"] = Children(L) /\ got["clear"] = Children(C)
      BY <1>1, <1>5, <2>4, <3>1, <3>2, FirstAll
    <3> QED BY <3>3 DEF XmlTypeOK, Layers
  <2> QED BY <1>1, <2>3, <2>4 DEF Layers
<1>9. patient /\ stage = "failed" => BadToken \in ToSet(sent[layer])
  BY DEF NothingLost
<1> QED BY <1>7, <1>8, <1>9 DEF StanzasWhole

LEMMA XmlStutter == XmlInv /\ UNCHANGED xmlVars => XmlInv'
<1> SUFFICES ASSUME XmlInv, UNCHANGED xmlVars PROVE XmlInv'
  OBVIOUS
<1>1. UNCHANGED <<patient, sent, wire, buffer, layer, stage, open, got>>
  BY DEF xmlVars, peer, decoder
<1>2. XmlTypeOK' /\ NothingLost' /\ FirstStream' /\ Passed' = Passed /\ Offset' = Offset
  BY <1>1 DEF XmlInv, XmlTypeOK, NothingLost, FirstStream, First, Passed, Offset
<1>3. InTransit'
  BY <1>1, <1>2 DEF XmlInv, InTransit
<1>4. Waits'
  BY <1>1, <1>2 DEF XmlInv, Waits, First
<1>5. Reads'
  BY <1>1, <1>2 DEF XmlInv, Reads, First
<1> QED BY <1>2, <1>3, <1>4, <1>5 DEF XmlInv

\* NextChild returns the children of the root, whole and in their order, in the
\* stream in the clear and in the one in TLS; to a peer that waits for <proceed/>
\* none is lost with the decoder handleXmlElement gives up for TLS.
THEOREM StreamsWhole == XmlSpec => []StanzasWhole
<1>1. XmlInit => XmlInv
  BY XmlInitInv
<1>2. XmlInv /\ [XmlNext]_xmlVars => XmlInv'
  BY SendsInv, ReadAheadInv, FailsInv, OpenStreamInv, StartElementInv, CharDataInv, EndChildInv, EndElementInv,
     EndStreamInv, XmlStutter DEF XmlNext
<1>3. XmlInv => StanzasWhole
  BY WholeAndInOrder
<1> QED BY <1>1, <1>2, <1>3, PTL DEF XmlSpec
============================================================================
