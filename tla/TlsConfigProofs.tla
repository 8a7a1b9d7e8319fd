-------------------------- MODULE TlsConfigProofs --------------------------
(***************************************************************************)
(* Theorems about a tls.Config: what two of them settle on                 *)
(* (NegotiationLaws, for any configurations), and what one holds between   *)
(* connections, the session cache of clients (SessionCache, for any number *)
(* of clients and servers and any capacity) and the ticket keys of servers *)
(* (TicketKeys, for any number of connections).                            *)
(***************************************************************************)
EXTENDS NegotiationLaws, SessionCache, TicketKeys, ListProofs, FiniteSetTheorems, TLAPS

----------------------------------------------------------------------------
\* The ends that meet.
Met == client \in ClientConfigs /\ server \in ServerConfigs \cup {None}

THEOREM BestVersionHolds == BestVersion
<1> SUFFICES ASSUME server # None, hello # None PROVE BestVersion
  BY DEF BestVersion
<1> DEFINE ours   == SupportedVersions(client, TRUE)
           theirs == SupportedVersions(server, FALSE)
           common == ToSet(ours) \cap ToSet(theirs)
<1>1. /\ ours \in Seq(Nat) /\ ToSet(ours) \subseteq ToSet(AllVersions)
      /\ \A V \in SUBSET ToSet(ours) : FirstIn(ours, V) = FirstIn(AllVersions, V)
  BY Supported
<1>2. ClientVersions(hello) = ours
  BY HelloIs DEF hello, ClientVersions
<1>3. vers = FirstIn(ours, ToSet(theirs))
  BY <1>2 DEF vers, MutualVersion
<1> HIDE DEF ours, theirs
<1>4. CASE common = {}
  <2>1. vers = None
    BY <1>1, <1>3, <1>4, FirstInNone
  <2> QED BY <1>4, <2>1 DEF BestVersion, ours, theirs
<1>5. CASE common # {}
  <2>1. vers = FirstIn(ours, common)
    <3>1. PICK i : IsFirst(i, ours, ToSet(theirs))
      BY <1>1, <1>5, FirstExists
    <3>2. IsFirst(i, ours, common)
      BY <1>1, <3>1 DEF IsFirst, ToSet
    <3> HIDE DEF common
    <3>3. FirstIn(ours, ToSet(theirs)) = ours[i]
      BY <1>1, <3>1, FirstInIs
    <3>4. FirstIn(ours, common) = ours[i]
      BY <1>1, <3>2, FirstInIs
    <3> QED BY <1>3, <3>3, <3>4
  <2>2. vers = FirstIn(AllVersions, common) /\ common \in SUBSET ToSet(AllVersions)
    BY <1>1, <2>1
  <2>3. vers \in common /\ \A v \in common : v <= vers
    <3> HIDE DEF common
    <3> QED BY <1>5, <2>2, HighestFirst
  <2>4. vers = Max(common)
    <3>1. common \subseteq Nat
      BY <1>1, VersionNumbers
    <3> HIDE DEF common
    <3>2. \A x \in common : (\A y \in common : x >= y) => x = vers
      BY <2>3, <3>1
    <3> QED BY <2>3, <3>1, <3>2 DEF Max
  <2>5. MutualVersion(client, TRUE, <<vers>>) = vers
    <3>1. IsFirst(1, <<vers>>, ToSet(ours)) /\ <<vers>> \in Seq(Nat)
      <4>1. vers \in ToSet(ours) /\ vers \in Nat
        BY <1>1, <2>3, VersionNumbers
      <4> QED BY <4>1 DEF IsFirst
    <3>2. FirstIn(<<vers>>, ToSet(ours)) = <<vers>>[1]
      BY <3>1, FirstInIs
    <3> QED BY <3>2 DEF MutualVersion, ours
  <2> QED BY <1>5, <2>4, <2>5 DEF BestVersion, ours, theirs
<1> QED BY <1>4, <1>5

----------------------------------------------------------------------------
(***************************************************************************)
(* Certificates.                                                           *)
(***************************************************************************)
\* BuildNameToCertificate finds a certificate that has the name.
LEMMA ByName ==
  ASSUME NEW S, NEW certs \in Seq(S), NEW n \in DOMAIN BuildNameToCertificate(certs)
  PROVE  LET c == BuildNameToCertificate(certs)[n] IN c \in ToSet(certs) /\ n \in c.names
<1> DEFINE I == {i \in 1 .. Len(certs) : n \in certs[i].names}
<1>1. I # {} /\ n \in UNION {certs[i].names : i \in DOMAIN certs}
  BY DEF BuildNameToCertificate
<1>2. BuildNameToCertificate(certs)[n] = certs[IF I # {} THEN Max(I) ELSE 0]
  BY <1>1 DEF BuildNameToCertificate, SelectLastInSeq
<1>3. Max(I) \in I
  <2>1. I \in SUBSET (1 .. Len(certs)) /\ Len(certs) \in Nat
    OBVIOUS
  <2> HIDE DEF I
  <2> QED BY <1>1, <2>1, Greatest
<1>4. Max(I) \in 1 .. Len(certs) /\ n \in certs[Max(I)].names
  BY <1>3
<1> HIDE DEF I
<1> QED BY <1>1, <1>2, <1>4 DEF ToSet

\* The names GetCertificate tries, in its order.
Labels == IF hello.serverName = <<>> THEN <<"">> ELSE hello.serverName
Tries  == [n \in 1 .. Len(Labels) + 1 |-> Wildcard(Labels, n - 1)]

\* The labels of the names that are tried.
Label == STRING \cup {"", "*"}

\* They are sequences of labels.
LEMMA Tried ==
  ASSUME Met, hello # None
  PROVE  Labels \in Seq(Label) /\ Tries \in Seq(Seq(Label)) /\ Len(Tries) = Len(Labels) + 1
<1>1. hello.serverName \in Seq(Label)
  <2>1. hello.serverName = HostnameInSNI(client.server)
    BY HelloIs DEF hello
  <2>2. client.server \in [name : Seq(STRING), isIP : BOOLEAN]
    BY ConfigsAssumption DEF Met
  <2>3. client.server.name \in Seq(Label) /\ <<>> \in Seq(Label)
    <3> DEFINE A == STRING
    <3>1. client.server.name \in Seq(A)
      BY <2>2
    <3>2. A \subseteq Label
      BY DEF Label
    <3> HIDE DEF A
    <3> QED BY <3>1, <3>2, SeqGrows
  <2> QED BY <2>1, <2>3 DEF HostnameInSNI
<1>2. Labels \in Seq(Label)
  <2>1. ASSUME NEW S, NEW x \in S PROVE <<x>> \in Seq(S)
    OBVIOUS
  <2>2. <<"">> \in Seq(Label)
    BY <2>1 DEF Label
  <2> QED BY <1>1, <2>2 DEF Labels
<1> HIDE DEF Labels
<1>3. ASSUME NEW n PROVE Wildcard(Labels, n) \in Seq(Label)
  <2>1. DOMAIN Labels = 1 .. Len(Labels) /\ Len(Labels) \in Nat
    BY <1>2
  <2>2. "*" \in Label
    BY DEF Label
  <2> HIDE DEF Label
  <2>3. \A i \in 1 .. Len(Labels) : (IF i <= n THEN "*" ELSE Labels[i]) \in Label
    BY <1>2, <2>2
  <2> QED BY <2>1, <2>3 DEF Wildcard
<1>4. Tries \in Seq(Seq(Label)) /\ Len(Tries) = Len(Labels) + 1
  <2> DEFINE S == Seq(Label)
  <2>1. Tries = [n \in 1 .. Len(Labels) + 1 |-> Wildcard(Labels, n - 1)]
    BY DEF Tries
  <2>2. \A n \in 1 .. Len(Labels) + 1 : Wildcard(Labels, n - 1) \in S
    BY <1>3
  <2>3. Len(Labels) + 1 \in Nat
    BY <1>2
  <2> HIDE DEF S
  <2>4. Tries \in Seq(S) /\ Len(Tries) = Len(Labels) + 1
    BY <2>1, <2>2, <2>3
  <2> QED BY <2>4 DEF S
<1> QED BY <1>2, <1>4

\* What GetCertificate answers with: the first certificate, or that of the
\* first name it tries and knows.
ByFirst == /\ cert = server.certs[1] /\ Len(server.certs) > 0
           /\ \/ Len(server.certs) = 1 \/ server.nameToCertificate = None
              \/ ToSet(Tries) \cap DOMAIN BuildNameToCertificate(server.certs) = {}
ByPattern == LET byName == BuildNameToCertificate(server.certs)
             IN  \E n : IsFirst(n, Tries, DOMAIN byName) /\ cert = byName[Tries[n]]

LEMMA CertificateIs ==
  ASSUME Met, Encounter
  PROVE  (ByFirst \/ ByPattern) /\ cert \in ToSet(server.certs) /\ cert \in Certificates
<1> DEFINE certs   == server.certs
           byName  == server.nameToCertificate
           known   == DOMAIN byName
           pattern == FirstIn(Tries, known)
<1>1. cert = IF certs = <<>> THEN None
             ELSE IF Len(certs) = 1 \/ byName = None \/ pattern = None THEN certs[1]
             ELSE byName[pattern]
  BY DEF cert, GetCertificate, Labels, Tries
<1>2. /\ certs \in Seq(Certificates) /\ certs # <<>> /\ cert # None
      /\ byName \in {None, BuildNameToCertificate(certs)}
  BY <1>1, ConfigsAssumption DEF Met, Encounter
<1>3. Tries \in Seq(Seq(Label)) /\ Len(Tries) = Len(Labels) + 1
  BY Tried DEF Encounter
<1> HIDE DEF certs, byName, known
<1>4. Len(certs) > 0 /\ certs[1] \in ToSet(certs)
  BY <1>2 DEF ToSet
<1>5. CASE Len(certs) = 1 \/ byName = None
  <2>1. cert = certs[1]
    BY <1>1, <1>2, <1>5
  <2>2. ByFirst
    BY <1>4, <1>5, <2>1 DEF ByFirst, certs, byName
  <2> QED BY <1>2, <1>4, <2>1, <2>2 DEF certs, ToSet
<1>6. CASE Len(certs) # 1 /\ byName # None
  <2>1. byName = BuildNameToCertificate(certs)
    BY <1>2, <1>6
  <2>2. CASE ToSet(Tries) \cap known = {}
    <3>1. pattern = None
      BY <1>3, <2>2, FirstInNone
    <3>2. cert = certs[1]
      BY <1>1, <1>2, <3>1
    <3>3. ByFirst
      BY <1>4, <2>1, <2>2, <3>2 DEF ByFirst, certs, byName, known
    <3> QED BY <1>2, <1>4, <3>2, <3>3 DEF certs, ToSet
  <2>3. CASE ToSet(Tries) \cap known # {}
    <3>1. PICK n : IsFirst(n, Tries, known)
      BY <1>3, <2>3, FirstExists
    <3>2. pattern = Tries[n]
      BY <1>3, <3>1, FirstInIs
    <3>3. Tries[n] \in known
      BY <3>1 DEF IsFirst
    <3>4. pattern # None
      <4>1. \A k \in known : \E c \in ToSet(certs) : k \in c.names
        BY <1>2, <2>1, ByName DEF known
      <4>2. \A c \in ToSet(certs) : c.names \subseteq Seq(STRING)
        <5>1. \A c \in ToSet(certs) : c \in Certificates
          BY <1>2 DEF ToSet
        <5>2. \A c \in Certificates : c.names \in SUBSET (Seq(STRING) \ {<<>>})
          BY DEF Certificates
        <5> QED BY <5>1, <5>2
      <4>3. Tries[n] \in Seq(STRING)
        BY <3>3, <4>1, <4>2
      <4> QED BY <3>2, <4>3, ConfigsAssumption
    <3>5. cert = byName[Tries[n]]
      BY <1>1, <1>2, <1>6, <3>2, <3>4
    <3>6. ByPattern
      BY <2>1, <3>1, <3>5 DEF ByPattern, certs, byName, known
    <3>7. cert \in ToSet(certs)
      BY <1>2, <2>1, <3>3, <3>5, ByName DEF known
    <3> QED BY <1>2, <3>6, <3>7 DEF certs, ToSet
  <2> QED BY <2>2, <2>3
<1> QED BY <1>5, <1>6

\* A wildcard covers no more than one with more stars.
LEMMA StarsGrow ==
  ASSUME NEW name \in Seq(Label), NEW k \in Nat, NEW n \in Nat, k <= n
  PROVE  Stars(Wildcard(name, k)) <= Stars(Wildcard(name, n))
<1> DEFINE A == {i \in DOMAIN name : Wildcard(name, k)[i] = "*"}
           B == {i \in DOMAIN name : Wildcard(name, n)[i] = "*"}
<1>1. A \subseteq B
  BY DEF Wildcard
<1>2. IsFiniteSet(B)
  <2>1. IsFiniteSet(1 .. Len(name)) /\ B \subseteq 1 .. Len(name)
    BY FS_Interval
  <2> HIDE DEF B
  <2> QED BY <2>1, FS_Subset
<1>3. Stars(Wildcard(name, k)) = Cardinality(A) /\ Stars(Wildcard(name, n)) = Cardinality(B)
  BY DEF Stars, Wildcard
<1>4. Cardinality(A) \in Nat /\ Cardinality(B) \in Nat /\ Cardinality(A) <= Cardinality(B)
  <2> HIDE DEF A, B
  <2> QED BY <1>1, <1>2, FS_Subset, FS_CardinalityType
<1> QED BY <1>3, <1>4

\* A pattern that covers the server name of the hello is one of those tried.
LEMMA CoversTried ==
  ASSUME Met, hello # None, NEW p, p # <<>>, p \in Seq(STRING), Covers(p, hello.serverName)
  PROVE  \E k \in 1 .. Len(Tries) : p = Tries[k] /\ Tries[k] = Wildcard(hello.serverName, k - 1)
<1>1. Labels \in Seq(Label) /\ Len(Tries) = Len(Labels) + 1
  BY Tried
<1>2. hello.serverName # <<>>
  <2>1. Len(p) # 0
    OBVIOUS
  <2>2. Len(p) = Len(hello.serverName) /\ Len(<<>>) = 0
    BY DEF Covers
  <2> QED BY <2>1, <2>2
<1>3. Labels = hello.serverName
  BY <1>2 DEF Labels
<1>4. PICK n \in 0 .. Len(Labels) : p = Wildcard(Labels, n)
  BY <1>3 DEF Covers
<1>5. n + 1 \in 1 .. Len(Labels) + 1 /\ (n + 1) - 1 = n
  BY <1>1, <1>4
<1>6. Tries[n + 1] = Wildcard(Labels, n)
  BY <1>5 DEF Tries
<1> QED BY <1>1, <1>3, <1>4, <1>5, <1>6

\* The certificate fits the name whenever one of the server's does.
LEMMA CertificateHolds == ASSUME Met PROVE CertificateForName
<1> DEFINE name     == hello.serverName
           patterns == {p \in UNION {c.names : c \in ToSet(server.certs)} : Covers(p, name)}
           byName   == BuildNameToCertificate(server.certs)
<1> SUFFICES ASSUME Encounter, server.nameToCertificate # None, patterns # {}
             PROVE  \E p \in patterns : p \in cert.names /\ \A r \in patterns : Stars(p) <= Stars(r)
  BY DEF CertificateForName
<1>1. server.certs \in Seq(Certificates) /\ ToSet(server.certs) \subseteq Certificates
  <2>1. server.certs \in Seq(Certificates)
    BY ConfigsAssumption DEF Met, Encounter
  <2> QED BY <2>1 DEF ToSet
<1>2. \A c \in Certificates : c.names \in SUBSET (Seq(STRING) \ {<<>>})
  BY DEF Certificates
<1>3. \A p \in patterns : \E k \in 1 .. Len(Tries) : p = Tries[k] /\ p = Wildcard(name, k - 1)
  <2> SUFFICES ASSUME NEW p \in patterns
               PROVE  \E k \in 1 .. Len(Tries) : p = Tries[k] /\ p = Wildcard(name, k - 1)
    OBVIOUS
  <2>1. p # <<>> /\ p \in Seq(STRING) /\ Covers(p, hello.serverName)
    BY <1>1, <1>2
  <2> QED BY <2>1, CoversTried DEF Encounter
<1>4. Tries \in Seq(Seq(Label)) /\ Len(Tries) \in Nat /\ name \in Seq(Label)
  <2>1. PICK p \in patterns : TRUE
    OBVIOUS
  <2>2. name # <<>>
    <3>1. p # <<>> /\ p \in Seq(STRING) /\ Covers(p, name)
      BY <1>1, <1>2
    <3>2. Len(p) = Len(name) /\ Len(p) # 0 /\ Len(<<>>) = 0
      BY <3>1 DEF Covers
    <3> QED BY <3>2
  <2> QED BY <2>2, Tried DEF Encounter, Labels
<1>5. \A p, r \in patterns : \A k, n \in 1 .. Len(Tries) :
        p = Wildcard(name, k - 1) /\ r = Wildcard(name, n - 1) /\ k <= n => Stars(p) <= Stars(r)
  BY <1>4, StarsGrow
<1>6. DOMAIN byName = UNION {c.names : c \in ToSet(server.certs)}
  BY <1>1 DEF BuildNameToCertificate, ToSet
<1> HIDE DEF patterns, byName, name
<1>7. CASE ByPattern
  <2>1. PICK n : IsFirst(n, Tries, DOMAIN byName) /\ cert = byName[Tries[n]]
    BY <1>7 DEF ByPattern, byName
  <2>2. \A r \in patterns : \E k \in n .. Len(Tries) : r = Tries[k] /\ r = Wildcard(name, k - 1)
    <3> SUFFICES ASSUME NEW r \in patterns
                 PROVE  \E k \in n .. Len(Tries) : r = Tries[k] /\ r = Wildcard(name, k - 1)
      OBVIOUS
    <3>1. PICK k \in 1 .. Len(Tries) : r = Tries[k] /\ r = Wildcard(name, k - 1)
      BY <1>3
    <3>2. r \in DOMAIN byName
      BY <1>6 DEF patterns
    <3>3. k >= n
      <4>1. n \in 1 .. Len(Tries) /\ \A j \in 1 .. n - 1 : Tries[j] \notin DOMAIN byName
        BY <2>1 DEF IsFirst
      <4>2. k \notin 1 .. n - 1
        BY <3>1, <3>2, <4>1
      <4> QED BY <1>4, <4>1, <4>2
    <3>4. k \in n .. Len(Tries)
      BY <1>4, <2>1, <3>3 DEF IsFirst
    <3> QED BY <3>1, <3>4
  <2>3. Tries[n] \in patterns /\ Tries[n] = Wildcard(name, n - 1)
    <3>1. PICK r \in patterns : TRUE
      OBVIOUS
    <3>2. name \in Seq(Label) /\ Labels = name /\ Len(Tries) = Len(name) + 1
      <4>1. name # <<>>
        <5>1. r # <<>> /\ r \in Seq(STRING) /\ Covers(r, name)
          BY <1>1, <1>2 DEF patterns
        <5>2. Len(r) = Len(name) /\ Len(r) # 0 /\ Len(<<>>) = 0
          BY <5>1 DEF Covers
        <5> QED BY <5>2
      <4> QED BY <1>4, <4>1, Tried DEF Encounter, Labels, name
    <3>3. Tries[n] = Wildcard(name, n - 1) /\ n - 1 \in 0 .. Len(name)
      <4>1. n \in 1 .. Len(name) + 1
        BY <2>1, <3>2 DEF IsFirst
      <4> QED BY <3>2, <4>1 DEF Tries
    <3>4. Len(Tries[n]) = Len(name)
      BY <3>2, <3>3 DEF Wildcard
    <3>5. Tries[n] \in DOMAIN byName
      BY <2>1 DEF IsFirst
    <3> QED BY <1>6, <3>3, <3>4, <3>5 DEF patterns, Covers
  <2>4. Tries[n] \in cert.names
    <3>1. Tries[n] \in DOMAIN byName
      BY <2>1 DEF IsFirst
    <3> QED BY <1>1, <2>1, <3>1, ByName DEF byName
  <2>5. n \in 1 .. Len(Tries)
    BY <2>1 DEF IsFirst
  <2>6. \A r \in patterns : Stars(Tries[n]) <= Stars(r)
    BY <1>4, <1>5, <2>2, <2>3, <2>5
  <2> QED BY <2>3, <2>4, <2>6
<1>8. CASE ByFirst /\ Len(server.certs) = 1
  <2>1. DOMAIN server.certs = {1}
    BY <1>1, <1>8
  <2>2. ToSet(server.certs) = {cert}
    BY <1>8, <2>1 DEF ToSet, ByFirst
  <2> DEFINE I == {k \in 1 .. Len(Tries) : Tries[k] \in patterns /\ Tries[k] = Wildcard(name, k - 1)}
  <2>3. I \subseteq Nat /\ I # {}
    BY <1>3
  <2> HIDE DEF I
  <2>4. PICK n \in I : \A k \in I : n <= k
    BY <2>3, Smallest
  <2>5. Tries[n] \in patterns /\ n \in 1 .. Len(Tries) /\ Tries[n] = Wildcard(name, n - 1)
    BY <2>4 DEF I
  <2>6. \A r \in patterns : Stars(Tries[n]) <= Stars(r)
    <3> SUFFICES ASSUME NEW r \in patterns PROVE Stars(Tries[n]) <= Stars(r)
      OBVIOUS
    <3>1. PICK k \in 1 .. Len(Tries) : r = Tries[k] /\ r = Wildcard(name, k - 1)
      BY <1>3
    <3>2. n <= k
      BY <2>4, <3>1 DEF I
    <3> QED BY <1>5, <2>5, <3>1, <3>2
  <2>7. Tries[n] \in cert.names
    BY <2>2, <2>5 DEF patterns
  <2> QED BY <2>5, <2>6, <2>7
<1>9. CASE ByFirst /\ ToSet(Tries) \cap DOMAIN byName = {}
  <2>1. PICK p \in patterns : TRUE
    OBVIOUS
  <2>2. PICK k \in 1 .. Len(Tries) : p = Tries[k]
    BY <1>3
  <2>3. p \in DOMAIN byName
    BY <1>6 DEF patterns
  <2>4. Tries[k] \in ToSet(Tries)
    BY <1>4 DEF ToSet
  <2> QED BY <1>9, <2>2, <2>3, <2>4
<1>10. ByFirst \/ ByPattern
  BY CertificateIs
<1> QED BY <1>7, <1>8, <1>9, <1>10 DEF ByFirst, byName

----------------------------------------------------------------------------
(***************************************************************************)
(* Cipher suites.                                                          *)
(***************************************************************************)
\* The names of suites: those a configuration may give, and the program's own.
SuiteNames == STRING \cup ToSet(CipherSuites) \cup ToSet(CipherSuitesTLS13)

\* The tables of the program.
LEMMA Tables ==
  /\ CipherSuites \in Seq(ToSet(CipherSuites))
  /\ DefaultCipherSuitesTLS13 \in Seq(ToSet(CipherSuitesTLS13))
  /\ ToSet(DefaultCipherSuitesTLS13) = ToSet(CipherSuitesTLS13)
  /\ ToSet(CipherSuites) \cap ToSet(CipherSuitesTLS13) = {}
<1>1. CipherSuites \in Seq(ToSet(CipherSuites))
  BY DEF CipherSuites, ToSet
<1>2. DefaultCipherSuitesTLS13 \in Seq(ToSet(CipherSuitesTLS13))
  BY DEF DefaultCipherSuitesTLS13, CipherSuitesTLS13, ToSet
<1>3. ToSet(DefaultCipherSuitesTLS13) = ToSet(CipherSuitesTLS13)
  BY DEF DefaultCipherSuitesTLS13, CipherSuitesTLS13, ToSet
<1>4. ToSet(CipherSuites) \cap ToSet(CipherSuitesTLS13) = {}
  BY DEF CipherSuites, CipherSuitesTLS13, ToSet
<1> QED BY <1>1, <1>2, <1>3, <1>4

\* The suites of a configuration.
LEMMA Configured ==
  ASSUME NEW c \in ClientConfigs \cup ServerConfigs
  PROVE  ConfigSuites(c) \in Seq(SuiteNames)
<1>1. CASE c.cipherSuites = None
  <2> DEFINE top  == <<"ECDHE_RSA_CHACHA20", "ECDHE_ECDSA_CHACHA20", "ECDHE_RSA_AES128_GCM",
                       "ECDHE_RSA_AES256_GCM", "ECDHE_ECDSA_AES128_GCM", "ECDHE_ECDSA_AES256_GCM">>
             rest == Among(CipherSuites, ToSet(CipherSuites) \ (ToSet(top) \cup suiteDefaultOff))
             own  == ToSet(CipherSuites)
  <2>1. ConfigSuites(c) = top \o rest
    BY <1>1 DEF ConfigSuites, DefaultCipherSuites
  <2>2. top \in Seq(own)
    BY DEF CipherSuites, ToSet
  <2>3. rest \in Seq(own)
    BY Tables, AmongIs
  <2> HIDE DEF top, rest, own
  <2>4. top \o rest \in Seq(own)
    BY <2>2, <2>3
  <2> QED BY <2>1, <2>4, SeqGrows DEF own, SuiteNames
<1>2. CASE c.cipherSuites # None
  <2> DEFINE A == STRING
  <2>1. c.cipherSuites \in Seq(A) /\ ConfigSuites(c) = c.cipherSuites
    BY <1>2, ConfigsAssumption DEF ConfigSuites
  <2>2. A \subseteq SuiteNames
    BY DEF SuiteNames
  <2> HIDE DEF A
  <2> QED BY <2>1, <2>2, SeqGrows
<1> QED BY <1>1, <1>2

\* The suites a version up to TLS 1.2 allows.
AllowedAt(v) == {s \in ToSet(CipherSuites) : s \in suiteTLS12 => v >= VersionTLS12}

\* The suites of the hello: those of the client that its legacy version allows, in the client's order.
LEMMA Hellos ==
  ASSUME Met, hello # None
  PROVE  /\ hello.cipherSuites \in Seq(SuiteNames)
         /\ ToSet(hello.cipherSuites) \cap ToSet(CipherSuites) = ToSet(ConfigSuites(client)) \cap AllowedAt(hello.vers)
         /\ \A part \in SUBSET AllowedAt(hello.vers) :
              FirstIn(hello.cipherSuites, part) = FirstIn(ConfigSuites(client), part)
<1> DEFINE ours    == ConfigSuites(client)
           allowed == AllowedAt(hello.vers)
           kept    == Among(ours, allowed)
<1>1. ours \in Seq(SuiteNames)
  BY Configured DEF Met
<1>2. kept = AdvertisedSuites(client, hello.vers)
  BY DEF AdvertisedSuites, AllowedAt
<1>3. PICK more \in {<<>>, DefaultCipherSuitesTLS13} : hello.cipherSuites = kept \o more
  BY <1>2, HelloIs DEF hello
<1>4. more \in Seq(SuiteNames) /\ ToSet(more) \cap ToSet(CipherSuites) = {}
  <2>1. <<>> \in Seq(SuiteNames) /\ ToSet(<<>>) = {}
    BY DEF ToSet
  <2>2. DefaultCipherSuitesTLS13 \in Seq(SuiteNames)
    <3>1. ToSet(CipherSuitesTLS13) \subseteq SuiteNames
      BY DEF SuiteNames
    <3> QED BY <3>1, Tables, SeqGrows
  <2> QED BY <1>3, <2>1, <2>2, Tables
<1> HIDE DEF ours, kept
<1>5. kept \in Seq(SuiteNames) /\ ToSet(kept) = ToSet(ours) \cap allowed
  <2>1. kept \in Seq(ToSet(ours)) /\ ToSet(kept) = ToSet(ours) \cap allowed
    BY <1>1, AmongIs DEF kept
  <2>2. ToSet(ours) \subseteq SuiteNames
    BY <1>1 DEF ToSet
  <2> QED BY <2>1, <2>2, SeqGrows
<1>6. hello.cipherSuites \in Seq(SuiteNames) /\ ToSet(hello.cipherSuites) = ToSet(kept) \cup ToSet(more)
  BY <1>3, <1>4, <1>5, SetOfConcat
<1>7. allowed \subseteq ToSet(CipherSuites)
  BY DEF AllowedAt
<1>8. ASSUME NEW part \in SUBSET allowed
      PROVE  FirstIn(hello.cipherSuites, part) = FirstIn(ours, part)
  <2>1. ToSet(more) \cap part = {}
    BY <1>4, <1>7
  <2> HIDE DEF allowed
  <2> QED BY <1>1, <1>3, <1>4, <2>1, AmongFirst DEF kept
<1> QED BY <1>4, <1>5, <1>6, <1>7, <1>8 DEF ours

\* What a suite asks of the two ends: the conditions of SuitePreferred.
Fits(s) ==
  /\ vers < VersionTLS12 => s \notin suiteTLS12
  /\ s \in suiteRSAKA => cert.key = "rsa" /\ cert.decrypts
  /\ s \in suiteECDHE => ToSet(CurvePreferences(client)) \cap ToSet(CurvePreferences(server)) # {}
  /\ s \in suiteECDHE => (cert.key = "rsa" <=> s \notin suiteECDSA)

\* The curves of a configuration.
LEMMA Curves ==
  ASSUME NEW c \in ClientConfigs \cup ServerConfigs
  PROVE  CurvePreferences(c) \in Seq(ToSet(DefaultCurves))
<1>1. c.curves \in Seq(ToSet(DefaultCurves)) /\ DefaultCurves \in Seq(ToSet(DefaultCurves))
  BY ConfigsAssumption DEF DefaultCurves, ToSet
<1> QED BY <1>1 DEF CurvePreferences

\* The server's curve for the client is one of both, if there is one.
LEMMA CurveIs ==
  ASSUME Met, Encounter
  PROVE  LET common == ToSet(CurvePreferences(client)) \cap ToSet(CurvePreferences(server))
             curve  == MutualCurve(server, hello.supportedCurves)
         IN  /\ common # {} <=> curve # None
             /\ curve # None => curve \in ToSet(DefaultCurves)
<1> DEFINE theirs == CurvePreferences(client)
           mine   == CurvePreferences(server)
<1>1. theirs \in Seq(ToSet(DefaultCurves)) /\ mine \in Seq(ToSet(DefaultCurves))
  BY Curves DEF Met, Encounter
<1>2. MutualCurve(server, hello.supportedCurves) = FirstIn(mine, ToSet(theirs))
  BY HelloIs DEF hello, MutualCurve, Encounter
<1>3. None \notin ToSet(DefaultCurves)
  BY ConfigsAssumption
<1> HIDE DEF theirs, mine
<1>4. ToSet(mine) \subseteq ToSet(DefaultCurves)
  BY <1>1 DEF ToSet
<1>5. IF ToSet(mine) \cap ToSet(theirs) = {} THEN FirstIn(mine, ToSet(theirs)) = None
      ELSE FirstIn(mine, ToSet(theirs)) \in ToSet(mine) \cap ToSet(theirs)
  BY <1>1, FirstInEither
<1> QED BY <1>2, <1>3, <1>4, <1>5 DEF theirs, mine

\* The version below TLS 1.3 that is chosen, and the legacy version of the hello.
LEMMA VersionIs ==
  ASSUME Encounter, vers \notin {None, VersionTLS13}
  PROVE  vers \in {768, 769, 770, 771} /\ vers <= hello.vers /\ hello.vers \in Nat
<1> DEFINE ours == SupportedVersions(client, TRUE)
<1>1. ours \in Seq(Nat) /\ ToSet(ours) \subseteq ToSet(AllVersions)
  BY Supported
<1>2. /\ hello.supportedVersions = ours /\ ours # <<>> /\ hello.vers \in Nat
      /\ \A v \in ToSet(ours) : v <= VersionTLS12 => v <= hello.vers
  BY HelloIs DEF hello, Encounter
<1>3. vers = FirstIn(ours, ToSet(SupportedVersions(server, FALSE)))
  BY <1>2 DEF vers, MutualVersion, ClientVersions
<1> HIDE DEF ours
<1>4. vers \in ToSet(ours)
  BY <1>1, <1>3, FirstInEither
<1>5. vers \in {768, 769, 770, 771}
  BY <1>1, <1>4, Versions DEF VersionTLS13
<1> QED BY <1>2, <1>4, <1>5 DEF VersionTLS12

\* The server may use a suite exactly when both ends have it and it fits.
LEMMA CanUse ==
  ASSUME Met, Encounter, vers \notin {None, VersionTLS13}, NEW id, NEW supported
  PROVE  CanUseSuite(id, supported, vers, server, hello, cert)
           <=> id \in ToSet(supported) \cap ToSet(CipherSuites) /\ Fits(id)
<1>1. EllipticOk(server, hello) <=> ToSet(CurvePreferences(client)) \cap ToSet(CurvePreferences(server)) # {}
  BY CurveIs DEF EllipticOk
<1>2. vers < VersionTLS12 <=> ~ (vers >= VersionTLS12)
  BY VersionIs DEF VersionTLS12
<1>3. cert.key \in {"rsa", "P256", "P384", "P521"}
  BY CertificateIs DEF Certificates
<1>4. IsECDSA(cert.key) <=> cert.key # "rsa"
  BY <1>3 DEF IsECDSA
<1>5. id \in ToSet(CipherSuites) => (id \in suiteECDHE <=> id \notin suiteRSAKA)
  BY DEF suiteECDHE
<1>6. CanUseSuite(id, supported, vers, server, hello, cert)
        <=> /\ id \in ToSet(supported) \cap ToSet(CipherSuites)
            /\ IF id \in suiteECDHE
               THEN EllipticOk(server, hello) /\ (id \in suiteECDSA <=> IsECDSA(cert.key))
               ELSE ~IsECDSA(cert.key) /\ cert.decrypts
            /\ id \in suiteTLS12 => vers >= VersionTLS12
  BY DEF CanUseSuite
<1>7. Fits(id) <=> /\ vers < VersionTLS12 => id \notin suiteTLS12
                   /\ id \in suiteRSAKA => cert.key = "rsa" /\ cert.decrypts
                   /\ id \in suiteECDHE =>
                        ToSet(CurvePreferences(client)) \cap ToSet(CurvePreferences(server)) # {}
                   /\ id \in suiteECDHE => (cert.key = "rsa" <=> id \notin suiteECDSA)
  BY DEF Fits
<1> QED BY <1>1, <1>2, <1>4, <1>5, <1>6, <1>7

\* The suites that both ends have and that fit, in the order that counts.
Common == {s \in ToSet(ConfigSuites(client)) \cap ToSet(ConfigSuites(server)) \cap ToSet(CipherSuites) : Fits(s)}
Order  == IF server.preferServer THEN ConfigSuites(server) ELSE ConfigSuites(client)

\* The server picks the first of them.
LEMMA SuiteIs ==
  ASSUME Met, Encounter, vers \notin {None, VersionTLS13}
  PROVE  /\ suite = FirstIn(Order, Common) /\ Order \in Seq(SuiteNames) /\ Common \subseteq ToSet(Order)
         /\ Common \subseteq ToSet(hello.cipherSuites)
<1> DEFINE mine   == ConfigSuites(server)
           theirs == ConfigSuites(client)
<1>1. mine \in Seq(SuiteNames) /\ theirs \in Seq(SuiteNames)
  BY Configured DEF Met, Encounter
<1>2. /\ ToSet(hello.cipherSuites) \cap ToSet(CipherSuites) = ToSet(theirs) \cap AllowedAt(hello.vers)
      /\ \A part \in SUBSET AllowedAt(hello.vers) : FirstIn(hello.cipherSuites, part) = FirstIn(theirs, part)
  BY Hellos DEF Encounter
<1>3. \A s \in ToSet(CipherSuites) : Fits(s) => s \in AllowedAt(hello.vers)
  BY VersionIs DEF Fits, AllowedAt, VersionTLS12
<1>4. Common \subseteq AllowedAt(hello.vers) /\ Common \subseteq ToSet(hello.cipherSuites)
  BY <1>2, <1>3 DEF Common
<1>5. CASE server.preferServer
  <2> DEFINE U == {id \in ToSet(mine) : CanUseSuite(id, hello.cipherSuites, vers, server, hello, cert)}
  <2>1. suite = FirstIn(mine, U)
    BY <1>5 DEF suite, PickCipherSuite
  <2>2. U = {id \in ToSet(mine) : id \in ToSet(hello.cipherSuites) \cap ToSet(CipherSuites) /\ Fits(id)}
    BY CanUse
  <2>3. U = Common
    BY <1>2, <1>3, <2>2 DEF Common
  <2> QED BY <1>1, <1>4, <1>5, <2>1, <2>3 DEF Order, Common
<1>6. CASE ~server.preferServer
  <2> DEFINE U == {id \in ToSet(hello.cipherSuites) : CanUseSuite(id, mine, vers, server, hello, cert)}
  <2>1. suite = FirstIn(hello.cipherSuites, U)
    BY <1>6 DEF suite, PickCipherSuite
  <2>2. U = {id \in ToSet(hello.cipherSuites) : id \in ToSet(mine) \cap ToSet(CipherSuites) /\ Fits(id)}
    BY CanUse
  <2>3. U = Common
    BY <1>2, <1>3, <2>2 DEF Common
  <2>4. suite = FirstIn(theirs, Common)
    BY <1>2, <1>4, <2>1, <2>3
  <2> QED BY <1>1, <1>4, <1>6, <2>4 DEF Order, Common
<1> QED BY <1>5, <1>6

\* A suite that fits is found, and none that is preferred to it fits.
LEMMA PreferredHolds == ASSUME Met PROVE SuitePreferred
<1> DEFINE fits == {s \in ToSet(ConfigSuites(client)) \cap ToSet(ConfigSuites(server)) \cap ToSet(CipherSuites) :
                      /\ vers < VersionTLS12 => s \notin suiteTLS12
                      /\ s \in suiteRSAKA => cert.key = "rsa" /\ cert.decrypts
                      /\ s \in suiteECDHE =>
                           ToSet(CurvePreferences(client)) \cap ToSet(CurvePreferences(server)) # {}
                      /\ s \in suiteECDHE => (cert.key = "rsa" <=> s \notin suiteECDSA)}
           order == IF server.preferServer THEN ConfigSuites(server) ELSE ConfigSuites(client)
           IsRank(s, i) == i \in DOMAIN order /\ order[i] = s /\ \A j \in 1 .. i - 1 : order[j] # s
           rank(s) == CHOOSE i \in DOMAIN order : order[i] = s /\ \A j \in 1 .. i - 1 : order[j] # s
<1> SUFFICES ASSUME Encounter, vers \notin {None, VersionTLS13}
             PROVE  IF fits = {} THEN suite = None
                    ELSE suite \in fits /\ \A s \in fits : rank(suite) <= rank(s)
  BY DEF SuitePreferred
<1>1. fits = Common /\ order = Order
  BY DEF Common, Fits, Order
<1>2. suite = FirstIn(order, fits) /\ order \in Seq(SuiteNames) /\ fits \subseteq ToSet(order)
  BY <1>1, SuiteIs
<1> HIDE DEF fits, order
<1>3. CASE fits = {}
  <2>1. ToSet(order) \cap fits = {}
    BY <1>3
  <2> QED BY <1>2, <1>3, <2>1, FirstInNone
<1>4. CASE fits # {}
  <2>1. PICK n : IsFirst(n, order, fits)
    <3>1. ToSet(order) \cap fits # {}
      BY <1>2, <1>4
    <3> QED BY <1>2, <3>1, FirstExists
  <2>2. suite = order[n]
    BY <1>2, <2>1, FirstInIs
  <2>3. ASSUME NEW s \in fits PROVE IsRank(s, rank(s))
    <3>1. ToSet(order) \cap {s} # {}
      BY <1>2
    <3>2. PICK i : IsFirst(i, order, {s})
      BY <1>2, <3>1, FirstExists
    <3>3. IsRank(s, i)
      BY <1>2, <3>2 DEF IsFirst
    <3>4. \E k \in DOMAIN order : order[k] = s /\ \A j \in 1 .. k - 1 : order[j] # s
      BY <3>3
    <3> QED BY <3>4
  <2>4. suite \in fits
    BY <2>1, <2>2 DEF IsFirst
  <2>5. ASSUME NEW s \in fits PROVE rank(suite) <= rank(s)
    <3> DEFINE r == rank(suite)
               k == rank(s)
    <3>1. IsRank(suite, r) /\ IsRank(s, k)
      BY <2>3, <2>4
    <3> HIDE DEF r, k
    <3>2. n \in Nat /\ r \in Nat /\ k \in Nat /\ n >= 1 /\ r >= 1 /\ k >= 1
      BY <1>2, <2>1, <3>1 DEF IsFirst
    <3>3. n \notin 1 .. r - 1
      BY <2>2, <3>1
    <3>4. k \notin 1 .. n - 1
      BY <2>1, <3>1 DEF IsFirst
    <3>5. r <= n /\ n <= k
      BY <3>2, <3>3, <3>4
    <3> QED BY <3>2, <3>5 DEF r, k
  <2> QED BY <1>4, <2>4, <2>5
<1> QED BY <1>3, <1>4

\* A scheme for every key is among those the server signs with and the client knows.
LEMMA Schemes ==
  /\ SupportedSignatureAlgorithms \in Seq(SignatureSchemes)
  /\ SupportedSignatureAlgorithmsTLS12 \in Seq(SignatureSchemes)
  /\ <<"pkcs1", 256>> \in ToSet(SupportedSignatureAlgorithms) \cap ToSet(SupportedSignatureAlgorithmsTLS12)
  /\ <<"ecdsa", 256>> \in ToSet(SupportedSignatureAlgorithms) \cap ToSet(SupportedSignatureAlgorithmsTLS12)
<1> DEFINE all == SupportedSignatureAlgorithms
           few == SupportedSignatureAlgorithmsTLS12
<1>1. all \in Seq(SignatureSchemes) /\ Len(all) = 11
  BY DEF SupportedSignatureAlgorithms, SignatureSchemes
<1>2. all[4] = <<"pkcs1", 256>> /\ all[5] = <<"ecdsa", 256>>
  BY DEF SupportedSignatureAlgorithms
<1> HIDE DEF all
<1>3. few = SubSeq(all, 4, 11)
  BY DEF SupportedSignatureAlgorithmsTLS12, all
<1> HIDE DEF few
<1>4. few \in Seq(SignatureSchemes) /\ Len(few) = 8 /\ few[1] = all[4] /\ few[2] = all[5]
  <2>1. \A i \in 4 .. 11 : all[i] \in SignatureSchemes
    <3>1. \A i \in 1 .. Len(all) : all[i] \in SignatureSchemes
      BY <1>1, Entries
    <3>2. \A i \in 4 .. 11 : i \in 1 .. Len(all)
      BY <1>1
    <3> QED BY <3>1, <3>2
  <2>2. few = [i \in 1 .. 8 |-> all[i + 3]]
    BY <1>1, <1>3
  <2>3. \A i \in 1 .. 8 : i + 3 \in 4 .. 11 /\ few[i] = all[i + 3]
    BY <2>2
  <2>4. few \in Seq(SignatureSchemes) /\ Len(few) = 8
    BY <2>1, <2>2, <2>3
  <2> QED BY <2>3, <2>4
<1>5. all[4] \in ToSet(all) \cap ToSet(few) /\ all[5] \in ToSet(all) \cap ToSet(few)
  BY <1>1, <1>4 DEF ToSet
<1> QED BY <1>1, <1>2, <1>4, <1>5 DEF all, few

\* The suite that is picked can be carried out by both ends.
LEMMA WorksHolds == ASSUME Met PROVE SuiteWorks
<1> SUFFICES ASSUME Encounter, vers \notin {None, VersionTLS13}, suite # None PROVE SuiteWorks
  BY DEF SuiteWorks
<1> DEFINE curve == MutualCurve(server, hello.supportedCurves)
           sig   == PickSignatureAlgorithm(cert.key, hello.supportedSignatureAlgorithms,
                                           SupportedSignatureAlgorithmsTLS12, vers)
           skx   == KeyExchange(suite, vers, server, hello, cert)
<1>1. suite \in Common /\ suite \in ToSet(hello.cipherSuites)
  BY SuiteIs, FirstInEither
<1>2. MutualCipherSuite(hello.cipherSuites, suite) = suite
  BY <1>1 DEF MutualCipherSuite, Common
<1>3. ASSUME suite \in suiteECDHE PROVE skx # None /\ AcceptsKeyExchange(suite, vers, hello, cert, skx)
  <2>1. Fits(suite)
    BY <1>1 DEF Common
  <2>2. curve # None /\ curve \in ToSet(DefaultCurves)
    BY <1>3, <2>1, CurveIs DEF Fits
  <2>3. cert.key \in {"rsa", "P256", "P384", "P521"}
    BY CertificateIs DEF Certificates
  <2>4. (suite \in suiteECDSA) = IsECDSA(cert.key)
    BY <1>3, <2>1, <2>3 DEF Fits, IsECDSA
  <2>5. vers \in {768, 769, 770, 771} /\ vers <= hello.vers /\ hello.vers \in Nat
    BY VersionIs
  <2>6. None \notin SignatureSchemes
    BY ConfigsAssumption
  <2>7. /\ sig \in SignatureSchemes
        /\ PickSignatureAlgorithm(cert.key, <<sig>>, hello.supportedSignatureAlgorithms, vers) # None
    <3>1. CASE vers < VersionTLS12
      <4>1. ASSUME NEW peer, NEW ours PROVE PickSignatureAlgorithm(cert.key, peer, ours, vers) \in SignatureSchemes
        BY <3>1 DEF PickSignatureAlgorithm, SignatureSchemes
      <4> QED BY <2>6, <4>1
    <3>2. CASE vers >= VersionTLS12
      <4> DEFINE theirs == SupportedSignatureAlgorithms
                 mine   == SupportedSignatureAlgorithmsTLS12
                 Signs(list) == {s \in ToSet(list) : SignsWith(cert.key, s)}
      <4>1. hello.supportedSignatureAlgorithms = theirs
        <5>1. hello.vers >= VersionTLS12
          BY <2>5, <3>2 DEF VersionTLS12
        <5> QED BY <5>1, HelloIs DEF hello, Encounter
      <4>2. ~(vers < VersionTLS12)
        BY <2>5, <3>2 DEF VersionTLS12
      <4>3. /\ theirs \in Seq(SignatureSchemes)
            /\ \E s : s \in ToSet(theirs) /\ s \in Signs(mine)
        BY <2>3, Schemes DEF SignsWith, IsECDSA
      <4>4. theirs # <<>>
        BY <4>3 DEF ToSet
      <4>5. sig = FirstIn(theirs, Signs(mine))
        BY <4>1, <4>2, <4>4 DEF PickSignatureAlgorithm
      <4>6. sig \in ToSet(theirs) /\ sig \in Signs(mine)
        <5> HIDE DEF theirs, Signs, sig
        <5> QED BY <4>3, <4>5, FirstInEither
      <4>7. sig \in SignatureSchemes /\ sig \in Signs(theirs)
        BY <4>3, <4>6 DEF ToSet
      <4>8. PickSignatureAlgorithm(cert.key, <<sig>>, theirs, vers) = FirstIn(<<sig>>, Signs(theirs))
        BY <4>2 DEF PickSignatureAlgorithm
      <4>9. FirstIn(<<sig>>, Signs(theirs)) = sig
        <5> HIDE DEF theirs, Signs, sig
        <5>1. IsFirst(1, <<sig>>, Signs(theirs)) /\ <<sig>> \in Seq(SignatureSchemes)
          BY <4>7 DEF IsFirst
        <5>2. FirstIn(<<sig>>, Signs(theirs)) = <<sig>>[1]
          BY <5>1, FirstInIs
        <5> QED BY <5>2
      <4> QED BY <2>6, <4>1, <4>7, <4>8, <4>9
    <3> QED BY <2>5, <3>1, <3>2 DEF VersionTLS12
  <2>8. skx = [curve |-> curve, sig |-> sig]
    BY <2>2, <2>4, <2>6, <2>7 DEF KeyExchange
  <2> HIDE DEF curve, sig
  <2>9. skx # None
    BY <2>2, <2>7, <2>8, ConfigsAssumption
  <2>10. AcceptsKeyExchange(suite, vers, hello, cert, skx)
    BY <2>2, <2>4, <2>7, <2>8 DEF AcceptsKeyExchange
  <2> QED BY <2>9, <2>10
<1> QED BY <1>2, <1>3 DEF SuiteWorks

----------------------------------------------------------------------------
\* In every encounter of a client and a server the version, the suite and the
\* certificate are the best the two have (mutualVersion, pickCipherSuite,
\* getCertificate), whatever their configurations.
THEOREM Best == LawsSpec => []NegotiatesBest
<1>1. LawsInit => Met
  BY DEF LawsInit, Met
<1>2. Met /\ [LawsNext]_<<client, server>> => Met'
  BY DEF Met, LawsNext
<1>3. Met => NegotiatesBest
  BY BestVersionHolds, WorksHolds, PreferredHolds, CertificateHolds DEF NegotiatesBest
<1> QED BY <1>1, <1>2, <1>3, PTL DEF LawsSpec

----------------------------------------------------------------------------
(***************************************************************************)
(* The session cache.                                                      *)
(***************************************************************************)
NoRepeats(s) == \A i, j \in 1 .. Len(s) : s[i] = s[j] => i = j

----------------------------------------------------------------------------
(***************************************************************************)
(* Lists without repetitions.                                              *)
(***************************************************************************)
LEMMA RemoveAtFacts ==
  ASSUME NEW S, NEW s \in Seq(S), NEW p \in 1 .. Len(s)
  PROVE  /\ RemoveAt(s, p) \in Seq(S)
         /\ Len(RemoveAt(s, p)) = Len(s) - 1
         /\ \A i \in 1 .. Len(s) - 1 : RemoveAt(s, p)[i] = IF i < p THEN s[i] ELSE s[i + 1]
<1> DEFINE a == SubSeq(s, 1, p - 1)
           b == SubSeq(s, p + 1, Len(s))
           n == Len(s)
<1>1. n \in Nat /\ p \in 1 .. n
  OBVIOUS
<1>2. a \in Seq(S) /\ Len(a) = p - 1 /\ \A i \in 1 .. p - 1 : a[i] = s[i]
  OBVIOUS
<1>3. b \in Seq(S) /\ Len(b) = n - p /\ \A i \in 1 .. n - p : b[i] = s[p + i]
  OBVIOUS
<1>4. RemoveAt(s, p) = a \o b
  BY DEF RemoveAt
<1> HIDE DEF a, b, n
<1>5. /\ a \o b \in Seq(S) /\ Len(a \o b) = n - 1
      /\ \A i \in 1 .. n - 1 : (a \o b)[i] = IF i <= p - 1 THEN a[i] ELSE b[i - (p - 1)]
  <2> a \in Seq(S) /\ b \in Seq(S)
    BY <1>2, <1>3
  <2>1. a \o b \in Seq(S)
    OBVIOUS
  <2>2. Len(a \o b) = Len(a) + Len(b)
    OBVIOUS
  <2>3. \A i \in 1 .. Len(a) + Len(b) : (a \o b)[i] = IF i <= Len(a) THEN a[i] ELSE b[i - Len(a)]
    BY <1>2, <1>3
  <2>4. Len(a) + Len(b) = n - 1
    BY <1>1, <1>2, <1>3
  <2> QED BY <1>2, <2>1, <2>2, <2>3, <2>4
<1>6. ASSUME NEW i \in 1 .. n - 1 PROVE (a \o b)[i] = IF i < p THEN s[i] ELSE s[i + 1]
  <2>1. CASE i < p
    <3>1. i \in 1 .. p - 1
      BY <1>1, <2>1
    <3> QED BY <1>2, <1>5, <2>1, <3>1
  <2>2. CASE i >= p
    <3>1. i - (p - 1) \in 1 .. n - p /\ p + (i - (p - 1)) = i + 1 /\ ~(i <= p - 1)
      BY <1>1, <2>2
    <3>2. (a \o b)[i] = b[i - (p - 1)]
      BY <1>5, <3>1
    <3>3. b[i - (p - 1)] = s[p + (i - (p - 1))]
      BY <1>3, <3>1
    <3>4. ~(i < p)
      BY <1>1, <2>2
    <3> QED BY <3>1, <3>2, <3>3, <3>4
  <2>3. i < p \/ i >= p
    BY <1>1
  <2> QED BY <2>1, <2>2, <2>3
<1> QED BY <1>4, <1>5, <1>6 DEF n

LEMMA RemoveFirstFacts ==
  ASSUME NEW S, NEW s \in Seq(S), NoRepeats(s), NEW p \in 1 .. Len(s)
  PROVE  RemoveFirst(s, s[p]) = RemoveAt(s, p)
<1> DEFINE I == {i \in 1 .. Len(s) : s[i] = s[p]}
<1>1. I = {p}
  BY DEF NoRepeats
<1>2. SelectInSeq(s, LAMBDA v : v = s[p]) = p
  <2>1. Min({p}) = p
    BY DEF Min
  <2> QED BY <1>1, <2>1 DEF SelectInSeq
<1> QED BY <1>2 DEF RemoveFirst

LEMMA RemoveFirstNone ==
  ASSUME NEW S, NEW s \in Seq(S), NEW x, \A i \in 1 .. Len(s) : s[i] # x
  PROVE  RemoveFirst(s, x) = s
BY DEF RemoveFirst

\* Removing keeps the order, and repeats nothing.
LEMMA Removed ==
  ASSUME NEW S, NEW s \in Seq(S), NoRepeats(s), NEW p \in 1 .. Len(s)
  PROVE  /\ RemoveFirst(s, s[p]) \in Seq(S)
         /\ Len(RemoveFirst(s, s[p])) = Len(s) - 1
         /\ \A i \in 1 .. Len(s) - 1 : RemoveFirst(s, s[p])[i] = IF i < p THEN s[i] ELSE s[i + 1]
         /\ NoRepeats(RemoveFirst(s, s[p]))
         /\ \A i \in 1 .. Len(s) - 1 : RemoveFirst(s, s[p])[i] # s[p]
<1> DEFINE r == RemoveAt(s, p)
<1>1. /\ r \in Seq(S) /\ Len(r) = Len(s) - 1
      /\ \A i \in 1 .. Len(s) - 1 : r[i] = IF i < p THEN s[i] ELSE s[i + 1]
  BY RemoveAtFacts
<1> HIDE DEF r
<1>2. NoRepeats(r)
  BY <1>1 DEF NoRepeats
<1>3. \A i \in 1 .. Len(s) - 1 : r[i] # s[p]
  BY <1>1 DEF NoRepeats
<1> QED BY <1>1, <1>2, <1>3, RemoveFirstFacts DEF r

\* Moving to the front shifts what was before it.
LEMMA Moved ==
  ASSUME NEW S, NEW s \in Seq(S), NoRepeats(s), NEW p \in 1 .. Len(s)
  PROVE  /\ MoveToFront(s, s[p]) \in Seq(S)
         /\ Len(MoveToFront(s, s[p])) = Len(s)
         /\ NoRepeats(MoveToFront(s, s[p]))
         /\ \A i \in 1 .. Len(s) :
              MoveToFront(s, s[p])[i] = IF i = 1 THEN s[p] ELSE IF i <= p THEN s[i - 1] ELSE s[i]
<1> DEFINE r == RemoveFirst(s, s[p])
           t == <<s[p]>> \o r
<1>1. /\ r \in Seq(S) /\ Len(r) = Len(s) - 1 /\ NoRepeats(r)
      /\ \A i \in 1 .. Len(s) - 1 : r[i] = (IF i < p THEN s[i] ELSE s[i + 1]) /\ r[i] # s[p]
  BY Removed
<1> HIDE DEF r
<1>2. t \in Seq(S) /\ Len(t) = Len(s)
  BY <1>1
<1>3. \A i \in 1 .. Len(s) : t[i] = IF i = 1 THEN s[p] ELSE r[i - 1]
  BY <1>1
<1> HIDE DEF t
<1>4. \A i \in 1 .. Len(s) : t[i] = IF i = 1 THEN s[p] ELSE IF i <= p THEN s[i - 1] ELSE s[i]
  BY <1>1, <1>3
<1>5. NoRepeats(t)
  BY <1>2, <1>4 DEF NoRepeats
<1> QED BY <1>2, <1>4, <1>5 DEF MoveToFront, t, r

\* Something new goes before everything else.
LEMMA Pushed ==
  ASSUME NEW S, NEW s \in Seq(S), NoRepeats(s), NEW x \in S, \A i \in 1 .. Len(s) : s[i] # x
  PROVE  /\ <<x>> \o s \in Seq(S) /\ Len(<<x>> \o s) = Len(s) + 1 /\ NoRepeats(<<x>> \o s)
         /\ \A i \in 1 .. Len(s) + 1 : (<<x>> \o s)[i] = IF i = 1 THEN x ELSE s[i - 1]
         /\ MoveToFront(s, x) = <<x>> \o s
<1> DEFINE t == <<x>> \o s
<1>1. t \in Seq(S) /\ Len(t) = Len(s) + 1
  OBVIOUS
<1>2. \A i \in 1 .. Len(s) + 1 : t[i] = IF i = 1 THEN x ELSE s[i - 1]
  OBVIOUS
<1>3. MoveToFront(s, x) = t
  BY RemoveFirstNone DEF MoveToFront
<1> HIDE DEF t
<1>4. ASSUME NEW i \in 1 .. Len(t), NEW j \in 1 .. Len(t), t[i] = t[j] PROVE i = j
  <2>1. CASE i = 1 \/ j = 1
    BY <1>1, <1>2, <1>4, <2>1
  <2>2. CASE i # 1 /\ j # 1
    <3>1. i - 1 \in 1 .. Len(s) /\ j - 1 \in 1 .. Len(s)
      BY <1>1, <2>2
    <3> QED BY <1>1, <1>2, <1>4, <2>2, <3>1 DEF NoRepeats
  <2> QED BY <2>1, <2>2
<1>5. NoRepeats(t)
  BY <1>4 DEF NoRepeats
<1> QED BY <1>1, <1>2, <1>3, <1>5 DEF t

----------------------------------------------------------------------------
(***************************************************************************)
(* What is on a list, and what comes before what.                          *)
(***************************************************************************)
OnList(s, x) == \E i \in 1 .. Len(s) : s[i] = x

Precedes(s, x, y) == \E i, j \in 1 .. Len(s) : i < j /\ s[i] = x /\ s[j] = y

\* Without repetitions the order is linear.
LEMMA Linear ==
  ASSUME NEW S, NEW s \in Seq(S), NoRepeats(s)
  PROVE  /\ \A x, y : Precedes(s, x, y) => OnList(s, x) /\ OnList(s, y) /\ x # y /\ ~ Precedes(s, y, x)
         /\ \A x, y : OnList(s, x) /\ OnList(s, y) /\ x # y => Precedes(s, x, y) \/ Precedes(s, y, x)
<1>1. Len(s) \in Nat
  OBVIOUS
<1>2. ASSUME NEW x, NEW y, Precedes(s, x, y)
      PROVE  OnList(s, x) /\ OnList(s, y) /\ x # y /\ ~ Precedes(s, y, x)
  <2>1. PICK i \in 1 .. Len(s), j \in 1 .. Len(s) : i < j /\ s[i] = x /\ s[j] = y
    BY <1>2 DEF Precedes
  <2>2. x # y
    BY <2>1 DEF NoRepeats
  <2>3. ASSUME Precedes(s, y, x) PROVE FALSE
    <3>1. PICK a \in 1 .. Len(s), b \in 1 .. Len(s) : a < b /\ s[a] = y /\ s[b] = x
      BY <2>3 DEF Precedes
    <3>2. a = j /\ b = i
      BY <2>1, <3>1 DEF NoRepeats
    <3> QED BY <2>1, <3>1, <3>2
  <2> QED BY <2>1, <2>2, <2>3 DEF OnList
<1>3. ASSUME NEW x, NEW y, OnList(s, x), OnList(s, y), x # y PROVE Precedes(s, x, y) \/ Precedes(s, y, x)
  <2>1. PICK i \in 1 .. Len(s) : s[i] = x
    BY <1>3 DEF OnList
  <2>2. PICK j \in 1 .. Len(s) : s[j] = y
    BY <1>3 DEF OnList
  <2>3. i < j \/ j < i
    BY <1>3, <2>1, <2>2
  <2> QED BY <2>1, <2>2, <2>3 DEF Precedes
<1> QED BY <1>2, <1>3

\* What is removed goes, and the others keep their order.
LEMMA RemovedOrder ==
  ASSUME NEW S, NEW s \in Seq(S), NoRepeats(s), NEW x
  PROVE  LET t == RemoveFirst(s, x)
         IN  /\ t \in Seq(S) /\ NoRepeats(t) /\ Len(t) <= Len(s)
             /\ OnList(s, x) => Len(t) = Len(s) - 1
             /\ ~ OnList(s, x) => t = s
             /\ \A y : OnList(t, y) <=> OnList(s, y) /\ y # x
             /\ \A y, z : Precedes(t, y, z) <=> Precedes(s, y, z) /\ y # x /\ z # x
<1> DEFINE t == RemoveFirst(s, x)
<1>1. Len(s) \in Nat
  OBVIOUS
<1>2. CASE ~ OnList(s, x)
  <2>1. t = s
    BY <1>2, RemoveFirstNone DEF OnList
  <2> HIDE DEF t
  <2>2. \A y : OnList(s, y) => y # x
    BY <1>2
  <2>3. \A y, z : Precedes(s, y, z) => y # x /\ z # x
    BY <2>2, Linear
  <2> QED BY <1>1, <1>2, <2>1, <2>2, <2>3 DEF t
<1>3. CASE OnList(s, x)
  <2>1. PICK p \in 1 .. Len(s) : s[p] = x
    BY <1>3 DEF OnList
  <2>2. /\ t \in Seq(S) /\ Len(t) = Len(s) - 1 /\ NoRepeats(t)
        /\ \A i \in 1 .. Len(s) - 1 : t[i] = (IF i < p THEN s[i] ELSE s[i + 1]) /\ t[i] # x
    BY <2>1, Removed
  <2> HIDE DEF t
  <2> DEFINE to(i) == IF i < p THEN i ELSE i + 1
  <2>3. \A i \in 1 .. Len(t) : to(i) \in 1 .. Len(s) /\ s[to(i)] = t[i] /\ t[i] # x
    BY <1>1, <2>1, <2>2
  <2>4. \A i, j \in 1 .. Len(t) : i < j <=> to(i) < to(j)
    BY <1>1, <2>1, <2>2
  <2>5. ASSUME NEW i \in 1 .. Len(s), s[i] # x PROVE \E a \in 1 .. Len(t) : to(a) = i
    <3>1. CASE i < p
      <4>1. i \in 1 .. Len(t) /\ to(i) = i
        BY <1>1, <2>1, <2>2, <3>1
      <4> QED BY <4>1
    <3>2. CASE i > p
      <4>1. i - 1 \in 1 .. Len(t) /\ to(i - 1) = i
        BY <1>1, <2>1, <2>2, <3>2
      <4> QED BY <4>1
    <3>3. i # p
      BY <2>1, <2>5
    <3> QED BY <1>1, <2>1, <3>1, <3>2, <3>3
  <2> HIDE DEF to
  <2>6. ASSUME NEW y PROVE OnList(t, y) <=> OnList(s, y) /\ y # x
    <3>1. OnList(t, y) => OnList(s, y) /\ y # x
      BY <2>3 DEF OnList
    <3>2. OnList(s, y) /\ y # x => OnList(t, y)
      BY <2>3, <2>5 DEF OnList
    <3> QED BY <3>1, <3>2
  <2>7. ASSUME NEW y, NEW z PROVE Precedes(t, y, z) <=> Precedes(s, y, z) /\ y # x /\ z # x
    <3>1. Precedes(t, y, z) => Precedes(s, y, z) /\ y # x /\ z # x
      BY <2>3, <2>4 DEF Precedes
    <3>2. ASSUME Precedes(s, y, z), y # x, z # x PROVE Precedes(t, y, z)
      <4>1. PICK i \in 1 .. Len(s), j \in 1 .. Len(s) : i < j /\ s[i] = y /\ s[j] = z
        BY <3>2 DEF Precedes
      <4>2. PICK a \in 1 .. Len(t) : to(a) = i
        BY <2>5, <3>2, <4>1
      <4>3. PICK b \in 1 .. Len(t) : to(b) = j
        BY <2>5, <3>2, <4>1
      <4>4. a < b /\ t[a] = y /\ t[b] = z
        BY <2>3, <2>4, <4>1, <4>2, <4>3
      <4> QED BY <4>4 DEF Precedes
    <3> QED BY <3>1, <3>2
  <2> QED BY <1>1, <1>3, <2>2, <2>6, <2>7 DEF t
<1> QED BY <1>2, <1>3

\* What comes to the front precedes everything else.
LEMMA FrontOrder ==
  ASSUME NEW S, NEW s \in Seq(S), NoRepeats(s), NEW x \in S
  PROVE  LET t == MoveToFront(s, x)
         IN  /\ t \in Seq(S) /\ NoRepeats(t)
             /\ Len(t) = IF OnList(s, x) THEN Len(s) ELSE Len(s) + 1
             /\ ~ OnList(s, x) => t = <<x>> \o s
             /\ \A y : OnList(t, y) <=> y = x \/ OnList(s, y)
             /\ \A y, z : Precedes(t, y, z) <=>
                  z # x /\ ((y = x /\ OnList(s, z)) \/ (y # x /\ Precedes(s, y, z)))
<1> DEFINE r == RemoveFirst(s, x)
           t == <<x>> \o r
<1>1. /\ r \in Seq(S) /\ NoRepeats(r)
      /\ OnList(s, x) => Len(r) = Len(s) - 1
      /\ ~ OnList(s, x) => r = s
      /\ \A y : OnList(r, y) <=> OnList(s, y) /\ y # x
      /\ \A y, z : Precedes(r, y, z) <=> Precedes(s, y, z) /\ y # x /\ z # x
  BY RemovedOrder
<1> HIDE DEF r
<1>2. Len(s) \in Nat /\ Len(r) \in Nat
  BY <1>1
<1>3. \A i \in 1 .. Len(r) : r[i] # x
  BY <1>1 DEF OnList
<1>4. /\ t \in Seq(S) /\ Len(t) = Len(r) + 1 /\ NoRepeats(t)
      /\ \A i \in 1 .. Len(r) + 1 : t[i] = IF i = 1 THEN x ELSE r[i - 1]
  BY <1>1, <1>3, Pushed
<1> HIDE DEF t
<1>5. ASSUME NEW i \in 1 .. Len(t)
      PROVE  (i = 1 /\ t[i] = x) \/ (i # 1 /\ i - 1 \in 1 .. Len(r) /\ t[i] = r[i - 1])
  <2>1. i \in 1 .. Len(r) + 1
    BY <1>4
  <2>2. CASE i = 1
    BY <1>4, <2>1, <2>2
  <2>3. CASE i # 1
    <3>1. i - 1 \in 1 .. Len(r)
      BY <1>2, <2>1, <2>3
    <3> QED BY <1>4, <2>1, <2>3, <3>1
  <2> QED BY <2>2, <2>3
<1>6. \A i \in 1 .. Len(r) : i + 1 \in 1 .. Len(t) /\ t[i + 1] = r[i]
  BY <1>2, <1>4
<1>7. 1 \in 1 .. Len(t) /\ t[1] = x
  BY <1>2, <1>4
<1>8. ASSUME NEW y PROVE OnList(t, y) <=> y = x \/ OnList(r, y)
  <2>1. OnList(t, y) => y = x \/ OnList(r, y)
    BY <1>5 DEF OnList
  <2>2. y = x \/ OnList(r, y) => OnList(t, y)
    BY <1>6, <1>7 DEF OnList
  <2> QED BY <2>1, <2>2
<1>9. ASSUME NEW y, NEW z PROVE Precedes(t, y, z) <=> (y = x /\ OnList(r, z)) \/ Precedes(r, y, z)
  <2>1. ASSUME Precedes(t, y, z) PROVE (y = x /\ OnList(r, z)) \/ Precedes(r, y, z)
    <3>1. PICK i \in 1 .. Len(t), j \in 1 .. Len(t) : i < j /\ t[i] = y /\ t[j] = z
      BY <2>1 DEF Precedes
    <3>2. j # 1 /\ j - 1 \in 1 .. Len(r) /\ r[j - 1] = z
      BY <1>5, <3>1
    <3>3. CASE i = 1
      BY <1>7, <3>1, <3>2, <3>3 DEF OnList
    <3>4. CASE i # 1
      <4>1. i - 1 \in 1 .. Len(r) /\ r[i - 1] = y /\ i - 1 < j - 1
        BY <1>5, <3>1, <3>4
      <4> QED BY <3>2, <4>1 DEF Precedes
    <3> QED BY <3>3, <3>4
  <2>2. ASSUME y = x, OnList(r, z) PROVE Precedes(t, y, z)
    <3>1. PICK j \in 1 .. Len(r) : r[j] = z
      BY <2>2 DEF OnList
    <3>2. 1 < j + 1
      OBVIOUS
    <3> QED BY <1>6, <1>7, <2>2, <3>1, <3>2 DEF Precedes
  <2>3. ASSUME Precedes(r, y, z) PROVE Precedes(t, y, z)
    <3>1. PICK i \in 1 .. Len(r), j \in 1 .. Len(r) : i < j /\ r[i] = y /\ r[j] = z
      BY <2>3 DEF Precedes
    <3>2. i + 1 < j + 1
      BY <3>1
    <3> QED BY <1>6, <3>1, <3>2 DEF Precedes
  <2> QED BY <2>1, <2>2, <2>3
<1>10. MoveToFront(s, x) = t
  BY DEF MoveToFront, t, r
<1>11. ~ OnList(s, x) => t = <<x>> \o s
  BY <1>1 DEF t
<1> QED BY <1>1, <1>2, <1>4, <1>8, <1>9, <1>10, <1>11

\* At most the end is cut off.
LEMMA AtMostOrder ==
  ASSUME NEW S, NEW s \in Seq(S), NoRepeats(s), NEW n \in Nat, Len(s) <= n + 1
  PROVE  LET t == AtMost(n, s)
         IN  /\ t \in Seq(S) /\ NoRepeats(t) /\ Len(t) <= n
             /\ Len(s) <= n => t = s
             /\ \A x : OnList(t, x) <=> OnList(s, x) /\ (Len(s) <= n \/ x # s[n + 1])
             /\ \A x, y : Precedes(t, x, y) <=> Precedes(s, x, y) /\ OnList(t, y)
<1> DEFINE t == AtMost(n, s)
<1>1. Len(s) \in Nat
  OBVIOUS
<1>2. CASE Len(s) <= n
  <2>1. t = s
    BY <1>2 DEF AtMost
  <2> HIDE DEF t
  <2> QED BY <1>2, <2>1, Linear DEF t
<1>3. CASE Len(s) = n + 1
  <2>1. t = SubSeq(s, 1, n)
    BY <1>3 DEF AtMost
  <2>2. t \in Seq(S) /\ Len(t) = n /\ \A i \in 1 .. n : t[i] = s[i]
    BY <1>3, <2>1
  <2> HIDE DEF t
  <2>3. NoRepeats(t)
    BY <1>3, <2>2 DEF NoRepeats
  <2>4. ASSUME NEW x PROVE OnList(t, x) <=> OnList(s, x) /\ x # s[n + 1]
    <3>1. ASSUME OnList(t, x) PROVE OnList(s, x) /\ x # s[n + 1]
      <4>1. PICK i \in 1 .. n : t[i] = x
        BY <2>2, <3>1 DEF OnList
      <4>2. i \in 1 .. Len(s) /\ n + 1 \in 1 .. Len(s) /\ i # n + 1 /\ s[i] = x
        BY <1>3, <2>2, <4>1
      <4> QED BY <4>2 DEF OnList, NoRepeats
    <3>2. ASSUME OnList(s, x), x # s[n + 1] PROVE OnList(t, x)
      <4>1. PICK i \in 1 .. Len(s) : s[i] = x
        BY <3>2 DEF OnList
      <4>2. i \in 1 .. n
        BY <1>3, <3>2, <4>1
      <4> QED BY <2>2, <4>1, <4>2 DEF OnList
    <3> QED BY <3>1, <3>2
  <2>5. ASSUME NEW x, NEW y PROVE Precedes(t, x, y) <=> Precedes(s, x, y) /\ OnList(t, y)
    <3>1. ASSUME Precedes(t, x, y) PROVE Precedes(s, x, y) /\ OnList(t, y)
      <4>1. PICK i \in 1 .. n, j \in 1 .. n : i < j /\ t[i] = x /\ t[j] = y
        BY <2>2, <3>1 DEF Precedes
      <4>2. i \in 1 .. Len(s) /\ j \in 1 .. Len(s) /\ s[i] = x /\ s[j] = y
        BY <1>3, <2>2, <4>1
      <4> QED BY <2>2, <4>1, <4>2 DEF Precedes, OnList
    <3>2. ASSUME Precedes(s, x, y), OnList(t, y) PROVE Precedes(t, x, y)
      <4>1. PICK i \in 1 .. Len(s), j \in 1 .. Len(s) : i < j /\ s[i] = x /\ s[j] = y
        BY <3>2 DEF Precedes
      <4>2. y # s[n + 1]
        BY <2>4, <3>2
      <4>3. i \in 1 .. n /\ j \in 1 .. n
        BY <1>3, <4>1, <4>2
      <4> QED BY <2>2, <4>1, <4>3 DEF Precedes
    <3> QED BY <3>1, <3>2
  <2> QED BY <1>3, <2>2, <2>3, <2>4, <2>5 DEF t
<1> QED BY <1>1, <1>2, <1>3

----------------------------------------------------------------------------
(***************************************************************************)
(* The map and the list.                                                   *)
(***************************************************************************)
States == [of : Keys, n : Nat]
Holds  == [key : Keys \cup {None}, state : States \cup {None}]

\* The map and the list hold the same elements, each under the key of its entry
\* and with nil or a session of that server.
CacheInv ==
  /\ m \in [DOMAIN m -> Elements] /\ DOMAIN m \subseteq Keys
  /\ q \in Seq(Elements) /\ NoRepeats(q) /\ Len(q) <= Capacity
  /\ entry \in [Elements -> Holds]
  /\ \A k \in DOMAIN m : OnList(q, m[k]) /\ entry[m[k]].key = k
  /\ \A e : OnList(q, e) => \E k \in DOMAIN m : m[k] = e
  /\ \A k \in DOMAIN m : entry[m[k]].state # None => entry[m[k]].state.of = k

\* Two keys never share an element.
LEMMA Apart ==
  ASSUME CacheInv, NEW j \in DOMAIN m, NEW k \in DOMAIN m, m[j] = m[k] PROVE j = k
BY DEF CacheInv

\* A step in which key k comes first, with element e, and of the others the keys
\* in D stay as they are.
Enters(k, e, D) ==
  /\ k \in Keys /\ e \in Elements /\ D \subseteq DOMAIN m \ {k} /\ \A j \in D : m[j] # e
  /\ DOMAIN m' = D \cup {k} /\ m' \in [DOMAIN m' -> Elements]
  /\ m'[k] = e /\ \A j \in D : m'[j] = m[j]
  /\ q' \in Seq(Elements) /\ NoRepeats(q') /\ Len(q') <= Capacity
  /\ \A x : OnList(q', x) <=> x = e \/ \E j \in D : m[j] = x
  /\ \A x, y : Precedes(q', x, y) /\ x # e => y # e /\ Precedes(q, x, y)
  /\ entry' \in [Elements -> Holds] /\ entry'[e].key = k
  /\ entry'[e].state # None => entry'[e].state.of = k
  /\ \A x \in Elements \ {e} : entry'[x] = entry[x]

\* A step in which key k goes.
Leaves(k) ==
  /\ k \in DOMAIN m /\ DOMAIN m' = DOMAIN m \ {k} /\ \A j \in DOMAIN m' : m'[j] = m[j]
  /\ m' \in [DOMAIN m' -> Elements]
  /\ q' = RemoveFirst(q, m[k]) /\ UNCHANGED entry

\* What goes for k to come: nothing while there is room, or else the last key.
Room(k, D) ==
  \/ D = DOMAIN m \ {k} /\ (k \in DOMAIN m \/ Len(q) < Capacity)
  \/ /\ k \notin DOMAIN m /\ Len(q) = Capacity
     /\ \E v \in DOMAIN m : D = DOMAIN m \ {v} /\ m[v] = q[Len(q)]

LEMMA CacheEnters == ASSUME CacheInv, NEW k, NEW e, NEW D, Enters(k, e, D) PROVE CacheInv'
<1> USE DEF Enters
<1>1. ASSUME NEW j \in DOMAIN m'
      PROVE  /\ OnList(q', m'[j]) /\ entry'[m'[j]].key = j
             /\ entry'[m'[j]].state # None => entry'[m'[j]].state.of = j
  <2>1. CASE j = k
    BY <2>1
  <2>2. CASE j \in D
    <3>1. m'[j] = m[j] /\ m[j] # e /\ j \in DOMAIN m /\ m[j] \in Elements
      BY <2>2 DEF CacheInv
    <3>2. entry'[m[j]] = entry[m[j]]
      BY <3>1
    <3>3. entry[m[j]].key = j /\ (entry[m[j]].state # None => entry[m[j]].state.of = j)
      BY <3>1 DEF CacheInv
    <3> QED BY <2>2, <3>1, <3>2, <3>3
  <2> QED BY <2>1, <2>2
<1>2. ASSUME NEW x, OnList(q', x) PROVE \E j \in DOMAIN m' : m'[j] = x
  BY <1>2
<1>3. DOMAIN m' \subseteq Keys
  BY DEF CacheInv
<1> HIDE DEF Enters
<1> QED BY <1>1, <1>2, <1>3 DEF CacheInv, Enters

LEMMA CacheLeaves == ASSUME CacheInv, NEW k, Leaves(k) PROVE CacheInv'
<1> USE DEF Leaves
<1>1. /\ q \in Seq(Elements) /\ NoRepeats(q) /\ Len(q) \in Nat /\ Len(q) <= Capacity /\ Capacity \in Nat
  BY CapacityAssumption DEF CacheInv
<1> DEFINE t == RemoveFirst(q, m[k])
<1>2. /\ t \in Seq(Elements) /\ NoRepeats(t) /\ Len(t) <= Len(q)
      /\ \A y : OnList(t, y) <=> OnList(q, y) /\ y # m[k]
  BY <1>1, RemovedOrder
<1>3. q' = t
  OBVIOUS
<1> HIDE DEF t
<1>4. Len(q') <= Capacity
  BY <1>1, <1>2, <1>3
<1>5. \A j \in DOMAIN m' : m'[j] = m[j] /\ j \in DOMAIN m /\ m[j] # m[k]
  BY Apart
<1>6. \A j \in DOMAIN m' : OnList(q', m'[j]) /\ entry'[m'[j]].key = j
  BY <1>2, <1>3, <1>5 DEF CacheInv
<1>7. ASSUME NEW x, OnList(q', x) PROVE \E j \in DOMAIN m' : m'[j] = x
  <2>1. OnList(q, x) /\ x # m[k]
    BY <1>2, <1>3, <1>7
  <2>2. PICK j \in DOMAIN m : m[j] = x
    BY <2>1 DEF CacheInv
  <2>3. j \in DOMAIN m' /\ m'[j] = x
    BY <2>1, <2>2
  <2> QED BY <2>3
<1>8. \A j \in DOMAIN m' : entry'[m'[j]].state # None => entry'[m'[j]].state.of = j
  BY <1>5 DEF CacheInv
<1>9. entry' \in [Elements -> Holds] /\ DOMAIN m' \subseteq Keys
  BY DEF CacheInv
<1> QED BY <1>2, <1>3, <1>4, <1>6, <1>7, <1>8, <1>9 DEF CacheInv

----------------------------------------------------------------------------
(***************************************************************************)
(* The sessions that are kept are the most recent ones.                    *)
(***************************************************************************)
RecentInv ==
  /\ recent \in Seq(Keys) /\ NoRepeats(recent) /\ Len(recent) <= Capacity /\ strayed \in BOOLEAN
  /\ \A k : Live(k) => OnList(recent, k)
  /\ \A k \in DOMAIN m : OnList(recent, k) => Live(k)
  /\ \A j, k : Live(k) /\ Precedes(recent, j, k) => Live(j)
  /\ \A j, k : Live(j) /\ Live(k) /\ Precedes(q, m[j], m[k]) => Precedes(recent, j, k)
  /\ ~ strayed => (\A k : OnList(recent, k) => Live(k)) /\ (\A k \in DOMAIN m : Live(k))

\* The size of an interval.
LEMMA UpToSize == \A n \in Nat : IsFiniteSet(1 .. n) /\ Cardinality(1 .. n) = n
<1> TAKE n \in Nat
<1>1. 1 \in Int /\ n \in Int
  OBVIOUS
<1>2. IsFiniteSet(1 .. n) /\ Cardinality(1 .. n) = IF 1 > n THEN 0 ELSE n - 1 + 1
  BY <1>1, FS_Interval, Zenon
<1> QED BY <1>2

\* A full list of sessions leaves no element to anything else.
LEMMA Full ==
  ASSUME CacheInv, RecentInv, Len(recent) = Capacity, \A k : OnList(recent, k) => Live(k), NEW e \in Elements
  PROVE  \E k : OnList(recent, k) /\ m[k] = e
<1> SUFFICES ASSUME \A k : OnList(recent, k) => m[k] # e PROVE FALSE
  OBVIOUS
<1> DEFINE f == [i \in 1 .. Capacity |-> m[recent[i]]]
<1>1. \A i \in 1 .. Capacity : OnList(recent, recent[i])
  BY DEF OnList
<1>2. \A i \in 1 .. Capacity : recent[i] \in DOMAIN m /\ m[recent[i]] \in Elements \ {e}
  BY <1>1 DEF Live, CacheInv
<1>3. f \in [1 .. Capacity -> Elements \ {e}]
  BY <1>2
<1>4. /\ Capacity \in Nat /\ IsFiniteSet(1 .. Capacity) /\ Cardinality(1 .. Capacity) = Capacity
      /\ IsFiniteSet(Elements \ {e}) /\ Cardinality(Elements \ {e}) = Capacity - 1
  <2>1. Capacity \in Nat /\ Capacity > 0
    BY CapacityAssumption
  <2>2. IsFiniteSet(1 .. Capacity) /\ Cardinality(1 .. Capacity) = Capacity
    BY <2>1, FS_Interval
  <2> QED BY <2>1, <2>2, FS_RemoveElement DEF Elements
<1> HIDE DEF f
<1>5. \E x, y \in 1 .. Capacity : x # y /\ f[x] = f[y]
  <2>1. Cardinality(Elements \ {e}) < Cardinality(1 .. Capacity)
    BY <1>4
  <2> QED BY <1>3, <1>4, <2>1, FS_PigeonHole
<1>6. PICK x \in 1 .. Capacity, y \in 1 .. Capacity : x # y /\ f[x] = f[y]
  BY <1>5
<1>7. m[recent[x]] = m[recent[y]]
  BY <1>6 DEF f
<1>8. recent[x] = recent[y]
  BY <1>2, <1>7, Apart
<1> QED BY <1>6, <1>8 DEF RecentInv, NoRepeats

\* While every element has a session, as many sessions are recent.
LEMMA AsMany ==
  ASSUME CacheInv, RecentInv, Len(q) = Capacity, \A k \in DOMAIN m : Live(k) PROVE Len(recent) = Capacity
<1> SUFFICES ASSUME Len(recent) < Capacity PROVE FALSE
  <2>1. Len(recent) \in Nat /\ Len(recent) <= Capacity /\ Capacity \in Nat
    BY CapacityAssumption DEF RecentInv
  <2> QED BY <2>1
<1> DEFINE f == [a \in 1 .. Capacity |->
                   CHOOSE i \in 1 .. Len(recent) : recent[i] \in DOMAIN m /\ m[recent[i]] = q[a]]
<1>1. ASSUME NEW a \in 1 .. Capacity
      PROVE  f[a] \in 1 .. Len(recent) /\ m[recent[f[a]]] = q[a]
  <2>1. OnList(q, q[a])
    BY DEF OnList
  <2>2. PICK k \in DOMAIN m : m[k] = q[a]
    BY <2>1 DEF CacheInv
  <2>3. PICK i \in 1 .. Len(recent) : recent[i] = k
    BY <2>2 DEF RecentInv, OnList
  <2> QED BY <2>2, <2>3
<1>2. f \in [1 .. Capacity -> 1 .. Len(recent)]
  BY <1>1
<1> HIDE DEF f
<1>3. /\ Capacity \in Nat /\ IsFiniteSet(1 .. Capacity) /\ Cardinality(1 .. Capacity) = Capacity
      /\ IsFiniteSet(1 .. Len(recent)) /\ Cardinality(1 .. Len(recent)) = Len(recent)
  <2>1. Capacity \in Nat /\ Capacity > 0 /\ Len(recent) \in Nat
    BY CapacityAssumption DEF RecentInv
  <2>2. \A n \in Nat : IsFiniteSet(1 .. n) /\ Cardinality(1 .. n) = n
    BY UpToSize
  <2> QED BY <2>1, <2>2
<1>4. \E x, y \in 1 .. Capacity : x # y /\ f[x] = f[y]
  BY <1>2, <1>3, FS_PigeonHole
<1>5. PICK x \in 1 .. Capacity, y \in 1 .. Capacity : x # y /\ f[x] = f[y]
  BY <1>4
<1>6. q[x] = q[y]
  BY <1>1, <1>5
<1> QED BY <1>5, <1>6 DEF CacheInv, NoRepeats

\* The key that goes for another one comes after the sessions that stay.
LEMMA LastGoes ==
  ASSUME CacheInv, RecentInv, NEW v \in DOMAIN m, m[v] = q[Len(q)], NEW j, j # v, Live(j), OnList(recent, v)
  PROVE  Precedes(recent, j, v) /\ ~ Precedes(recent, v, j)
<1>1. Live(v) /\ j \in DOMAIN m
  BY DEF RecentInv, Live
<1>2. OnList(q, m[j]) /\ m[j] # m[v]
  BY <1>1, Apart DEF CacheInv
<1>3. PICK a \in 1 .. Len(q) : q[a] = m[j]
  BY <1>2 DEF OnList
<1>4. a < Len(q) /\ Len(q) \in 1 .. Len(q)
  <2>1. Len(q) \in Nat
    BY DEF CacheInv
  <2> QED BY <1>2, <1>3, <2>1
<1>5. Precedes(q, m[j], m[v])
  BY <1>3, <1>4 DEF Precedes
<1>6. Precedes(recent, j, v)
  BY <1>1, <1>5 DEF RecentInv
<1> QED BY <1>6, Linear DEF RecentInv

\* While there is room, some element is not on the list.
LEMMA Unused ==
  ASSUME q \in Seq(Elements), Len(q) < Capacity PROVE \E e \in Elements : e \notin ToSet(q)
<1> SUFFICES ASSUME \A e \in Elements : e \in ToSet(q) PROVE FALSE
  OBVIOUS
<1> DEFINE f == [e \in Elements |-> CHOOSE i \in 1 .. Len(q) : q[i] = e]
<1>1. \A e \in Elements : f[e] \in 1 .. Len(q) /\ q[f[e]] = e
  BY DEF ToSet
<1>2. f \in [Elements -> 1 .. Len(q)]
  BY <1>1
<1>3. Cardinality(Elements) = Capacity /\ IsFiniteSet(Elements)
  BY FS_Interval, CapacityAssumption DEF Elements
<1>4. Len(q) \in Nat /\ IsFiniteSet(1 .. Len(q)) /\ Cardinality(1 .. Len(q)) = Len(q)
  BY UpToSize
<1> HIDE DEF f
<1>5. Cardinality(1 .. Len(q)) < Cardinality(Elements)
  BY <1>3, <1>4
<1>6. \E x, y \in Elements : x # y /\ f[x] = f[y]
  BY <1>2, <1>3, <1>4, <1>5, FS_PigeonHole
<1> QED BY <1>1, <1>6

\* What is live after a key comes first.
LEMMA LiveEnters ==
  ASSUME CacheInv, NEW k, NEW e, NEW D, Enters(k, e, D)
  PROVE  \A j : Live(j)' <=> (j = k /\ entry'[e].state # None) \/ (j \in D /\ Live(j))
<1> TAKE j
<1> USE DEF Enters
<1>1. CASE j = k
  BY <1>1 DEF Live
<1>2. CASE j \in D
  <2>1. m'[j] = m[j] /\ m[j] # e /\ j \in DOMAIN m /\ m[j] \in Elements /\ j # k /\ j \in DOMAIN m'
    BY <1>2 DEF CacheInv
  <2>2. entry'[m'[j]] = entry[m[j]]
    BY <2>1
  <2> QED BY <1>2, <2>1, <2>2 DEF Live
<1>3. CASE j # k /\ j \notin D
  BY <1>3 DEF Live
<1> QED BY <1>1, <1>2, <1>3

\* Put of a session, and Get of one: it is the most recent one, and only the
\* least recent can go.
LEMMA SessionStep ==
  ASSUME CacheInv, RecentInv, NEW k, NEW e, NEW D, Enters(k, e, D), Room(k, D), entry'[e].state # None,
         recent' = AtMost(Capacity, MoveToFront(recent, k)), UNCHANGED strayed
  PROVE  RecentInv'
<1> DEFINE s == MoveToFront(recent, k)
           t == AtMost(Capacity, s)
<1>1. /\ k \in Keys /\ D \subseteq DOMAIN m \ {k} /\ Capacity \in Nat /\ Len(recent) \in Nat
      /\ recent \in Seq(Keys) /\ NoRepeats(recent) /\ Len(recent) <= Capacity
  BY CapacityAssumption DEF Enters, RecentInv
<1>2. /\ s \in Seq(Keys) /\ NoRepeats(s)
      /\ Len(s) = IF OnList(recent, k) THEN Len(recent) ELSE Len(recent) + 1
      /\ ~ OnList(recent, k) => s = <<k>> \o recent
      /\ \A y : OnList(s, y) <=> y = k \/ OnList(recent, y)
      /\ \A y, z : Precedes(s, y, z) <=>
           z # k /\ ((y = k /\ OnList(recent, z)) \/ (y # k /\ Precedes(recent, y, z)))
  BY <1>1, FrontOrder
<1> HIDE DEF s
<1>3. /\ t \in Seq(Keys) /\ NoRepeats(t) /\ Len(t) <= Capacity
      /\ Len(s) <= Capacity => t = s
      /\ \A x : OnList(t, x) <=> OnList(s, x) /\ (Len(s) <= Capacity \/ x # s[Capacity + 1])
      /\ \A x, y : Precedes(t, x, y) <=> Precedes(s, x, y) /\ OnList(t, y)
  <2>1. Len(s) <= Capacity + 1
    BY <1>1, <1>2
  <2> QED BY <1>1, <1>2, <2>1, AtMostOrder
<1>4. recent' = t
  BY DEF s
<1> HIDE DEF t
<1>5. \A j : Live(j)' <=> j = k \/ (j \in D /\ Live(j))
  BY LiveEnters
<1>6. \A j : OnList(t, j) => j = k \/ OnList(recent, j)
  BY <1>2, <1>3
<1>7. ASSUME Len(s) > Capacity
      PROVE  /\ Len(recent) = Capacity /\ ~ OnList(recent, k) /\ Capacity \in 1 .. Len(recent)
             /\ s[Capacity + 1] = recent[Capacity]
  <2>1. Len(recent) = Capacity /\ ~ OnList(recent, k) /\ s = <<k>> \o recent
    BY <1>1, <1>2, <1>7
  <2>2. Capacity > 0
    BY CapacityAssumption
  <2>3. (<<k>> \o recent)[Capacity + 1] = recent[Capacity]
    BY <1>1, <2>1, <2>2
  <2> QED BY <1>1, <2>1, <2>2, <2>3
\* The last of the recent ones comes after all the others.
<1>8. ASSUME Len(s) > Capacity, NEW i, OnList(recent, i), i # recent[Capacity]
      PROVE  Precedes(recent, i, recent[Capacity])
  <2>1. PICK a \in 1 .. Len(recent) : recent[a] = i
    BY <1>8 DEF OnList
  <2>2. a < Capacity
    BY <1>1, <1>7, <1>8, <2>1
  <2> QED BY <1>7, <1>8, <2>1, <2>2 DEF Precedes
<1>9. ASSUME NEW v \in DOMAIN m, D = DOMAIN m \ {v}, m[v] = q[Len(q)], NEW j, j \in D, Live(j), OnList(recent, v)
      PROVE  Precedes(recent, j, v) /\ ~ Precedes(recent, v, j)
  BY <1>9, LastGoes
<1>10. ASSUME NEW j, Live(j)' PROVE OnList(t, j)
  <2>1. j = k \/ (j \in D /\ Live(j) /\ OnList(recent, j))
    BY <1>5, <1>10 DEF RecentInv
  <2>2. CASE Len(s) <= Capacity
    BY <1>2, <1>3, <2>1, <2>2
  <2>3. CASE Len(s) > Capacity
    <3>1. k # recent[Capacity]
      BY <1>7, <2>3 DEF OnList
    <3>2. ASSUME j # k, j = recent[Capacity] PROVE FALSE
      <4>1. \A i : OnList(recent, i) => Live(i)
        BY <1>8, <2>1, <2>3, <3>2 DEF RecentInv
      <4>2. \A x \in Elements : \E i : OnList(recent, i) /\ m[i] = x
        BY <1>7, <2>3, <4>1, Full
      <4>3. k \notin DOMAIN m
        <5> SUFFICES ASSUME k \in DOMAIN m PROVE FALSE
          OBVIOUS
        <5>1. m[k] \in Elements
          BY DEF CacheInv
        <5>2. PICK i : OnList(recent, i) /\ m[i] = m[k]
          BY <4>2, <5>1
        <5>3. i = k
          BY <4>1, <5>2, Apart DEF Live
        <5> QED BY <1>7, <2>3, <5>2, <5>3
      <4>4. ~ (Len(q) < Capacity)
        <5> SUFFICES ASSUME Len(q) < Capacity PROVE FALSE
          OBVIOUS
        <5>1. PICK x \in Elements : x \notin ToSet(q)
          BY Unused DEF CacheInv
        <5>2. PICK i : OnList(recent, i) /\ m[i] = x
          BY <4>2
        <5>3. OnList(q, x) /\ q \in Seq(Elements)
          BY <4>1, <5>2 DEF Live, CacheInv
        <5> QED BY <5>1, <5>3 DEF OnList, ToSet
      <4>5. PICK v \in DOMAIN m : D = DOMAIN m \ {v} /\ m[v] = q[Len(q)]
        BY <4>3, <4>4 DEF Room
      <4>6. OnList(recent, v)
        <5>1. m[v] \in Elements
          BY DEF CacheInv
        <5>2. PICK i : OnList(recent, i) /\ m[i] = m[v]
          BY <4>2, <5>1
        <5>3. i = v
          BY <4>1, <5>2, Apart DEF Live
        <5> QED BY <5>2, <5>3
      <4>7. Precedes(recent, j, v) /\ j # v
        BY <1>9, <2>1, <3>2, <4>5, <4>6
      <4>8. Precedes(recent, v, j)
        BY <1>8, <2>3, <3>2, <4>6, <4>7
      <4> QED BY <1>1, <4>7, <4>8, Linear
    <3> QED BY <1>2, <1>3, <1>7, <2>1, <2>3, <3>1, <3>2
  <2> QED BY <1>1, <1>2, <2>2, <2>3
<1>11. ASSUME NEW j \in DOMAIN m', OnList(t, j) PROVE Live(j)'
  <2>1. j = k \/ (j \in D /\ OnList(recent, j))
    BY <1>6, <1>11 DEF Enters
  <2>2. j \in D => j \in DOMAIN m
    BY <1>1
  <2> QED BY <1>5, <2>1, <2>2 DEF RecentInv
<1>12. ASSUME NEW i, NEW j, Live(j)', Precedes(t, i, j) PROVE Live(i)'
  <2>1. Precedes(s, i, j)
    BY <1>3, <1>12
  <2>2. CASE i = k
    BY <1>5, <2>2
  <2>3. CASE i # k
    <3>1. j # k /\ Precedes(recent, i, j) /\ j \in D /\ Live(j)
      BY <1>2, <1>5, <1>12, <2>1, <2>3
    <3>2. Live(i) /\ i \in DOMAIN m /\ OnList(recent, i)
      BY <1>1, <3>1, Linear DEF RecentInv, Live
    <3>3. i \in D
      <4>1. CASE D = DOMAIN m \ {k}
        BY <2>3, <3>2, <4>1
      <4>2. ASSUME NEW v \in DOMAIN m, D = DOMAIN m \ {v}, m[v] = q[Len(q)] PROVE i \in D
        BY <1>9, <3>1, <3>2, <4>2
      <4> QED BY <4>1, <4>2 DEF Room
    <3> QED BY <1>5, <3>2, <3>3
  <2> QED BY <2>2, <2>3
<1>13. ASSUME NEW i, NEW j, Live(i)', Live(j)', Precedes(q', m'[i], m'[j]) PROVE Precedes(t, i, j)
  <2>1. OnList(t, j) /\ (j = k \/ OnList(recent, j))
    BY <1>6, <1>10, <1>13
  <2>2. m'[i] # m'[j] /\ i # j
    BY <1>13, Linear DEF Enters
  <2>3. CASE i = k
    BY <1>2, <1>3, <2>1, <2>2, <2>3
  <2>4. CASE i # k
    <3>1. i \in D /\ Live(i) /\ m'[i] = m[i] /\ m[i] # e
      BY <1>5, <1>13, <2>4 DEF Enters
    <3>2. m'[j] # e /\ Precedes(q, m'[i], m'[j])
      BY <1>13, <3>1 DEF Enters
    <3>3. j # k
      BY <3>2 DEF Enters
    <3>4. j \in D /\ Live(j) /\ m'[j] = m[j]
      BY <1>5, <1>13, <3>3 DEF Enters
    <3>5. Precedes(recent, i, j)
      BY <3>1, <3>2, <3>4 DEF RecentInv
    <3> QED BY <1>2, <1>3, <2>1, <2>4, <3>3, <3>5
  <2> QED BY <2>3, <2>4
<1>14. ASSUME ~ strayed PROVE \A j : OnList(t, j) => Live(j)'
  <2> SUFFICES ASSUME NEW j, OnList(t, j), j # k PROVE j \in D /\ Live(j)
    BY <1>5
  <2>1. OnList(recent, j) /\ Live(j) /\ j \in DOMAIN m
    BY <1>6, <1>14 DEF RecentInv, Live
  <2>2. ASSUME NEW v \in DOMAIN m, D = DOMAIN m \ {v}, m[v] = q[Len(q)], k \notin DOMAIN m, Len(q) = Capacity
        PROVE  j # v
    <3> SUFFICES ASSUME j = v PROVE FALSE
      OBVIOUS
    <3>1. /\ \A x \in DOMAIN m : Live(x)
          /\ \A x : OnList(recent, x) => Live(x)
      BY <1>14 DEF RecentInv
    <3>2. Len(recent) = Capacity /\ ~ OnList(recent, k)
      BY <2>2, <3>1, AsMany DEF Live
    <3>3. Len(s) > Capacity
      BY <1>1, <1>2, <3>2
    <3>4. OnList(recent, recent[Capacity]) /\ recent[Capacity] # v
      <4>1. OnList(recent, recent[Capacity])
        BY <1>7, <3>3 DEF OnList
      <4>2. v # s[Capacity + 1]
        BY <1>1, <1>2, <1>3, <3>3
      <4> QED BY <1>7, <3>3, <4>1, <4>2
    <3>5. Precedes(recent, v, recent[Capacity])
      BY <1>8, <2>1, <3>3, <3>4
    <3>6. recent[Capacity] \in D /\ Live(recent[Capacity])
      BY <2>2, <3>1, <3>4 DEF Live
    <3>7. ~ Precedes(recent, v, recent[Capacity])
      BY <1>9, <2>1, <2>2, <3>6
    <3> QED BY <3>5, <3>7
  <2>3. j \in D
    BY <2>1, <2>2 DEF Room
  <2> QED BY <2>1, <2>3
<1>15. ASSUME ~ strayed PROVE \A j \in DOMAIN m' : Live(j)'
  BY <1>1, <1>5, <1>15 DEF RecentInv, Enters
<1>16. strayed' \in BOOLEAN
  BY DEF RecentInv
<1> QED BY ONLY <1>3, <1>4, <1>10, <1>11, <1>12, <1>13, <1>14, <1>15, <1>16, UNCHANGED strayed DEF RecentInv

\* Put of nil for a key that is not there, and Get of nil: the sessions that are
\* left are still the most recent ones.
LEMMA NilStep ==
  ASSUME CacheInv, RecentInv, NEW k, NEW e, NEW D, Enters(k, e, D), Room(k, D), entry'[e].state = None,
         recent' = RemoveFirst(recent, k), strayed' = TRUE
  PROVE  RecentInv'
<1> DEFINE t == RemoveFirst(recent, k)
<1>1. /\ D \subseteq DOMAIN m \ {k} /\ Len(recent) \in Nat /\ Capacity \in Nat
      /\ recent \in Seq(Keys) /\ NoRepeats(recent) /\ Len(recent) <= Capacity
  BY CapacityAssumption DEF Enters, RecentInv
<1>2. /\ t \in Seq(Keys) /\ NoRepeats(t) /\ Len(t) <= Len(recent)
      /\ \A y : OnList(t, y) <=> OnList(recent, y) /\ y # k
      /\ \A y, z : Precedes(t, y, z) <=> Precedes(recent, y, z) /\ y # k /\ z # k
  BY <1>1, RemovedOrder
<1>3. recent' = t
  OBVIOUS
<1> HIDE DEF t
<1>4. \A j : Live(j)' <=> j \in D /\ Live(j)
  BY LiveEnters
<1>5. \A j : Live(j)' => OnList(t, j)
  BY <1>1, <1>2, <1>4 DEF RecentInv
<1>6. \A j \in DOMAIN m' : OnList(t, j) => Live(j)'
  <2> TAKE j \in DOMAIN m'
  <2>1. OnList(t, j) => j \in D /\ j \in DOMAIN m /\ OnList(recent, j)
    BY <1>1, <1>2 DEF Enters
  <2> QED BY <1>4, <2>1 DEF RecentInv
<1>7. ASSUME NEW i, NEW j, Live(j)', Precedes(t, i, j) PROVE Live(i)'
  <2>1. Precedes(recent, i, j) /\ i # k /\ j \in D /\ Live(j)
    BY <1>2, <1>4, <1>7
  <2>2. Live(i) /\ i \in DOMAIN m /\ OnList(recent, i)
    BY <1>1, <2>1, Linear DEF RecentInv, Live
  <2>3. i \in D
    <3>1. CASE D = DOMAIN m \ {k}
      BY <2>1, <2>2, <3>1
    <3>2. ASSUME NEW v \in DOMAIN m, D = DOMAIN m \ {v}, m[v] = q[Len(q)] PROVE i \in D
      BY <2>1, <2>2, <3>2, LastGoes
    <3> QED BY <3>1, <3>2 DEF Room
  <2> QED BY <1>4, <2>2, <2>3
<1>8. ASSUME NEW i, NEW j, Live(i)', Live(j)', Precedes(q', m'[i], m'[j]) PROVE Precedes(t, i, j)
  <2>1. /\ i \in D /\ Live(i) /\ m'[i] = m[i] /\ m[i] # e /\ i # k
        /\ j \in D /\ Live(j) /\ m'[j] = m[j] /\ j # k
    BY <1>1, <1>4, <1>8 DEF Enters
  <2>2. Precedes(q, m[i], m[j])
    BY <1>8, <2>1 DEF Enters
  <2>3. Precedes(recent, i, j)
    BY <2>1, <2>2 DEF RecentInv
  <2> QED BY <1>2, <2>1, <2>3
<1>9. Len(t) <= Capacity
  BY <1>1, <1>2
<1> QED BY ONLY <1>2, <1>3, <1>5, <1>6, <1>7, <1>8, <1>9, strayed' = TRUE DEF RecentInv

\* Put of nil for a key that is there.
LEMMA LeaveStep ==
  ASSUME CacheInv, RecentInv, NEW k, Leaves(k), recent' = RemoveFirst(recent, k), UNCHANGED strayed
  PROVE  RecentInv'
<1> DEFINE t == RemoveFirst(recent, k)
           u == RemoveFirst(q, m[k])
<1>1. /\ recent \in Seq(Keys) /\ NoRepeats(recent) /\ Len(recent) <= Capacity /\ Len(recent) \in Nat
      /\ q \in Seq(Elements) /\ NoRepeats(q) /\ Capacity \in Nat
  BY CapacityAssumption DEF CacheInv, RecentInv
<1>2. /\ t \in Seq(Keys) /\ NoRepeats(t) /\ Len(t) <= Len(recent)
      /\ \A y : OnList(t, y) <=> OnList(recent, y) /\ y # k
      /\ \A y, z : Precedes(t, y, z) <=> Precedes(recent, y, z) /\ y # k /\ z # k
  BY <1>1, RemovedOrder
<1>3. \A y, z : Precedes(u, y, z) => Precedes(q, y, z)
  BY <1>1, RemovedOrder
<1>4. recent' = t /\ q' = u
  BY DEF Leaves
<1> HIDE DEF t, u
<1>5. \A j : Live(j)' <=> j # k /\ Live(j)
  BY DEF Leaves, Live
<1>6. \A j \in DOMAIN m' : j # k /\ j \in DOMAIN m /\ m'[j] = m[j]
  BY DEF Leaves
<1>7. /\ \A j : Live(j)' => OnList(t, j)
      /\ \A j \in DOMAIN m' : OnList(t, j) => Live(j)'
  BY <1>2, <1>5, <1>6 DEF RecentInv
<1>8. \A i, j : Live(j)' /\ Precedes(t, i, j) => Live(i)'
  BY <1>2, <1>5 DEF RecentInv
<1>9. ASSUME NEW i, NEW j, Live(i)', Live(j)', Precedes(u, m'[i], m'[j]) PROVE Precedes(t, i, j)
  <2>1. i \in DOMAIN m' /\ j \in DOMAIN m'
    BY <1>9 DEF Live
  <2>2. Precedes(q, m[i], m[j]) /\ Live(i) /\ Live(j)
    BY <1>3, <1>5, <1>6, <1>9, <2>1
  <2>3. Precedes(recent, i, j)
    BY <2>2 DEF RecentInv
  <2> QED BY <1>2, <1>6, <2>1, <2>3
<1>10. ~ strayed => (\A j : OnList(t, j) => Live(j)') /\ (\A j \in DOMAIN m' : Live(j)')
  BY <1>2, <1>5, <1>6 DEF RecentInv
<1>11. Len(t) <= Capacity /\ strayed' \in BOOLEAN
  BY <1>1, <1>2 DEF RecentInv
<1> QED BY ONLY <1>2, <1>4, <1>7, <1>8, <1>9, <1>10, <1>11, UNCHANGED strayed DEF RecentInv

----------------------------------------------------------------------------
(***************************************************************************)
(* Put and Get.                                                            *)
(***************************************************************************)
\* What Put leaves in an element.
LEMMA EntryIs ==
  ASSUME CacheInv, NEW k \in Keys, NEW cs \in States \cup {None}, NEW e \in Elements,
         entry' = [entry EXCEPT ![e] = [key |-> k, state |-> cs]]
  PROVE  /\ entry' \in [Elements -> Holds] /\ entry'[e].key = k /\ entry'[e].state = cs
         /\ \A x \in Elements \ {e} : entry'[x] = entry[x]
<1>1. entry \in [Elements -> Holds] /\ [key |-> k, state |-> cs] \in Holds
  BY DEF CacheInv, Holds
<1>2. entry'[e] = [key |-> k, state |-> cs]
  BY <1>1
<1> QED BY <1>1, <1>2

\* Moving a key that is there to the front.
LEMMA UseEnters ==
  ASSUME CacheInv, NEW k \in DOMAIN m, q' = MoveToFront(q, m[k]), UNCHANGED m,
         entry' \in [Elements -> Holds], entry'[m[k]].key = k,
         entry'[m[k]].state # None => entry'[m[k]].state.of = k,
         \A e \in Elements \ {m[k]} : entry'[e] = entry[e]
  PROVE  Enters(k, m[k], DOMAIN m \ {k}) /\ Room(k, DOMAIN m \ {k})
<1> DEFINE D == DOMAIN m \ {k}
           e == m[k]
           t == MoveToFront(q, e)
<1>1. /\ k \in Keys /\ e \in Elements /\ OnList(q, e) /\ q \in Seq(Elements) /\ NoRepeats(q)
      /\ Len(q) <= Capacity /\ m \in [DOMAIN m -> Elements]
  BY DEF CacheInv
<1>2. \A j \in D : m[j] # e
  BY Apart
<1>3. DOMAIN m = D \cup {k}
  OBVIOUS
<1>4. /\ t \in Seq(Elements) /\ NoRepeats(t) /\ Len(t) = Len(q)
      /\ \A y : OnList(t, y) <=> y = e \/ OnList(q, y)
      /\ \A y, z : Precedes(t, y, z) <=>
           z # e /\ ((y = e /\ OnList(q, z)) \/ (y # e /\ Precedes(q, y, z)))
  <2>0. q \in Seq(Elements) /\ NoRepeats(q) /\ e \in Elements
    BY <1>1
  <2> HIDE DEF e
  <2>1. /\ t \in Seq(Elements) /\ NoRepeats(t)
        /\ Len(t) = IF OnList(q, e) THEN Len(q) ELSE Len(q) + 1
        /\ ~ OnList(q, e) => t = <<e>> \o q
        /\ \A y : OnList(t, y) <=> y = e \/ OnList(q, y)
        /\ \A y, z : Precedes(t, y, z) <=>
             z # e /\ ((y = e /\ OnList(q, z)) \/ (y # e /\ Precedes(q, y, z)))
    BY <2>0, FrontOrder
  <2> HIDE DEF t
  <2> QED BY <1>1, <2>1
<1>5. q' = t
  OBVIOUS
<1> HIDE DEF t
<1>6. ASSUME NEW x PROVE OnList(t, x) <=> x = e \/ \E j \in D : m[j] = x
  <2>1. OnList(q, x) => \E j \in DOMAIN m : m[j] = x
    BY DEF CacheInv
  <2>2. \A j \in D : OnList(q, m[j])
    BY DEF CacheInv
  <2> QED BY <1>3, <1>4, <2>1, <2>2
<1>7. \A x, y : Precedes(t, x, y) /\ x # e => y # e /\ Precedes(q, x, y)
  BY <1>4
<1>8. Enters(k, e, D)
  BY <1>1, <1>2, <1>3, <1>4, <1>5, <1>6, <1>7 DEF Enters
<1> QED BY <1>8 DEF Room

\* A new element.
LEMMA InsertEnters ==
  ASSUME CacheInv, NEW k \in Keys, NEW cs \in States \cup {None}, cs # None => cs.of = k, Insert(k, cs)
  PROVE  \E e : Enters(k, e, DOMAIN m) /\ Room(k, DOMAIN m) /\ entry'[e].state = cs
<1> DEFINE e == CHOOSE x \in Elements : x \notin ToSet(q)
           t == MoveToFront(q, e)
<1>1. /\ q \in Seq(Elements) /\ NoRepeats(q) /\ Len(q) \in Nat /\ Len(q) < Capacity
      /\ k \notin DOMAIN m /\ Capacity \in Nat
  BY CapacityAssumption DEF CacheInv, Insert
<1>2. e \in Elements /\ e \notin ToSet(q)
  BY <1>1, Unused
<1>3. /\ entry' = [entry EXCEPT ![e] = [key |-> k, state |-> cs]]
      /\ q' = <<e>> \o q
      /\ m' = [j \in DOMAIN m \cup {k} |-> IF j = k THEN e ELSE m[j]]
  BY DEF Insert
<1> HIDE DEF e
<1>4. ~ OnList(q, e)
  BY <1>1, <1>2 DEF ToSet, OnList
<1>5. /\ t \in Seq(Elements) /\ NoRepeats(t) /\ Len(t) = Len(q) + 1 /\ t = <<e>> \o q
      /\ \A y : OnList(t, y) <=> y = e \/ OnList(q, y)
      /\ \A y, z : Precedes(t, y, z) <=>
           z # e /\ ((y = e /\ OnList(q, z)) \/ (y # e /\ Precedes(q, y, z)))
  BY <1>1, <1>2, <1>4, FrontOrder
<1>6. q' = t
  BY <1>3, <1>5
<1> HIDE DEF t
<1>7. \A j \in DOMAIN m : m[j] # e /\ OnList(q, m[j]) /\ m[j] \in Elements
  BY <1>4 DEF CacheInv
<1>8. ASSUME NEW x PROVE OnList(t, x) <=> x = e \/ \E j \in DOMAIN m : m[j] = x
  <2>1. OnList(q, x) => \E j \in DOMAIN m : m[j] = x
    BY DEF CacheInv
  <2> QED BY <1>5, <1>7, <2>1
<1>9. /\ DOMAIN m' = DOMAIN m \cup {k} /\ m' \in [DOMAIN m' -> Elements] /\ m'[k] = e
      /\ \A j \in DOMAIN m : m'[j] = m[j]
  BY <1>1, <1>2, <1>3, <1>7
<1>10. /\ entry' \in [Elements -> Holds] /\ entry'[e].key = k /\ entry'[e].state = cs
       /\ \A x \in Elements \ {e} : entry'[x] = entry[x]
  BY <1>2, <1>3, EntryIs
<1>11. Len(t) <= Capacity
  BY <1>1, <1>5
<1>12. \A x, y : Precedes(t, x, y) /\ x # e => y # e /\ Precedes(q, x, y)
  BY <1>5
<1>13. Enters(k, e, DOMAIN m)
  BY <1>1, <1>2, <1>5, <1>6, <1>7, <1>8, <1>9, <1>10, <1>11, <1>12 DEF Enters
<1>14. Room(k, DOMAIN m)
  BY <1>1 DEF Room
<1> QED BY <1>10, <1>13, <1>14

\* The last element, for another key.
LEMMA EvictEnters ==
  ASSUME CacheInv, NEW k \in Keys, NEW cs \in States \cup {None}, cs # None => cs.of = k, Evict(k, cs)
  PROVE  \E e, D : Enters(k, e, D) /\ Room(k, D) /\ entry'[e].state = cs
<1> DEFINE e == Last(q)
           D == DOMAIN m \ {entry[e].key}
           t == MoveToFront(q, e)
<1>1. /\ q \in Seq(Elements) /\ NoRepeats(q) /\ Len(q) = Capacity /\ Len(q) \in 1 .. Len(q)
      /\ k \notin DOMAIN m
  BY CapacityAssumption DEF CacheInv, Evict
<1>2. e = q[Len(q)] /\ e \in Elements /\ OnList(q, e)
  BY <1>1 DEF Last, OnList
<1>3. /\ entry' = [entry EXCEPT ![e] = [key |-> k, state |-> cs]]
      /\ q' = t
      /\ m' = [j \in D \cup {k} |-> IF j = k THEN e ELSE m[j]]
  BY DEF Evict
<1> HIDE DEF e
<1>4. PICK v \in DOMAIN m : m[v] = e
  BY <1>2 DEF CacheInv
<1>5. D = DOMAIN m \ {v}
  BY <1>4 DEF CacheInv
<1>6. \A j \in D : m[j] # e /\ OnList(q, m[j]) /\ m[j] \in Elements
  BY <1>4, <1>5, Apart DEF CacheInv
<1>7. /\ t \in Seq(Elements) /\ NoRepeats(t) /\ Len(t) = Len(q)
      /\ \A y : OnList(t, y) <=> y = e \/ OnList(q, y)
      /\ \A y, z : Precedes(t, y, z) <=>
           z # e /\ ((y = e /\ OnList(q, z)) \/ (y # e /\ Precedes(q, y, z)))
  <2>0. q \in Seq(Elements) /\ NoRepeats(q) /\ e \in Elements
    BY <1>1, <1>2
  <2> HIDE DEF e
  <2>1. /\ t \in Seq(Elements) /\ NoRepeats(t)
        /\ Len(t) = IF OnList(q, e) THEN Len(q) ELSE Len(q) + 1
        /\ ~ OnList(q, e) => t = <<e>> \o q
        /\ \A y : OnList(t, y) <=> y = e \/ OnList(q, y)
        /\ \A y, z : Precedes(t, y, z) <=>
             z # e /\ ((y = e /\ OnList(q, z)) \/ (y # e /\ Precedes(q, y, z)))
    BY <2>0, FrontOrder
  <2> HIDE DEF t
  <2> QED BY <1>1, <1>2, <2>1
<1> HIDE DEF t, D
<1>8. ASSUME NEW x PROVE OnList(t, x) <=> x = e \/ \E j \in D : m[j] = x
  <2>1. OnList(q, x) => \E j \in DOMAIN m : m[j] = x
    BY DEF CacheInv
  <2>2. OnList(q, x) => x = e \/ \E j \in D : m[j] = x
    BY <1>4, <1>5, <2>1
  <2> QED BY <1>6, <1>7, <2>2
<1>9. /\ D \subseteq DOMAIN m \ {k}
      /\ DOMAIN m' = D \cup {k} /\ m' \in [DOMAIN m' -> Elements] /\ m'[k] = e
      /\ \A j \in D : m'[j] = m[j]
  BY <1>1, <1>2, <1>3, <1>5, <1>6
<1>10. /\ entry' \in [Elements -> Holds] /\ entry'[e].key = k /\ entry'[e].state = cs
       /\ \A x \in Elements \ {e} : entry'[x] = entry[x]
  BY <1>2, <1>3, EntryIs
<1>11. \A x, y : Precedes(t, x, y) /\ x # e => y # e /\ Precedes(q, x, y)
  BY <1>7
<1>12. Len(t) <= Capacity
  BY <1>1, <1>7
<1>13. Enters(k, e, D)
  BY <1>2, <1>3, <1>6, <1>7, <1>8, <1>9, <1>10, <1>11, <1>12 DEF Enters
<1>14. Room(k, D)
  BY <1>1, <1>2, <1>4, <1>5 DEF Room
<1> QED BY <1>10, <1>13, <1>14

\* Put.
LEMMA PutStep ==
  ASSUME CacheInv, RecentInv, NEW k \in Keys, NEW cs \in States \cup {None}, cs # None => cs.of = k, Put(k, cs)
  PROVE  CacheInv' /\ RecentInv'
<1>1. /\ recent' = Promised(k, cs)
      /\ strayed' = (strayed \/ (cs = None /\ k \notin DOMAIN m))
  BY DEF Put
<1>2. ASSUME NEW e, NEW D, Enters(k, e, D), Room(k, D), entry'[e].state = cs, cs = None => k \notin DOMAIN m
      PROVE  CacheInv' /\ RecentInv'
  <2>1. CacheInv'
    BY <1>2, CacheEnters
  <2>2. CASE cs = None
    <3>1. recent' = RemoveFirst(recent, k) /\ strayed' = TRUE /\ entry'[e].state = None
      BY <1>1, <1>2, <2>2 DEF Promised
    <3> QED BY <1>2, <2>1, <3>1, NilStep
  <2>3. CASE cs # None
    <3>1. recent' = AtMost(Capacity, MoveToFront(recent, k)) /\ strayed' = strayed
      BY <1>1, <2>3 DEF Promised, RecentInv
    <3> QED BY <1>2, <2>1, <2>3, <3>1, SessionStep
  <2> QED BY <2>1, <2>2, <2>3
<1>3. CASE Insert(k, cs)
  BY <1>2, <1>3, InsertEnters DEF Insert
<1>4. CASE Evict(k, cs)
  BY <1>2, <1>4, EvictEnters DEF Evict
<1>5. CASE Replace(k, cs) /\ cs = None
  <2>1. k \in DOMAIN m /\ q' = RemoveFirst(q, m[k]) /\ m' = [j \in DOMAIN m \ {k} |-> m[j]] /\ UNCHANGED entry
    BY <1>5 DEF Replace
  <2>2. Leaves(k)
    BY <2>1 DEF Leaves, CacheInv
  <2>3. recent' = RemoveFirst(recent, k) /\ strayed' = strayed
    BY <1>1, <1>5, <2>1 DEF Promised, RecentInv
  <2> QED BY <2>2, <2>3, CacheLeaves, LeaveStep
<1>6. CASE Replace(k, cs) /\ cs # None
  <2>1. /\ k \in DOMAIN m /\ entry' = [entry EXCEPT ![m[k]].state = cs]
        /\ q' = MoveToFront(q, m[k]) /\ UNCHANGED m
    BY <1>6 DEF Replace
  <2>2. entry \in [Elements -> Holds] /\ m[k] \in Elements /\ entry[m[k]].key = k
    BY <2>1 DEF CacheInv
  <2>3. entry' = [entry EXCEPT ![m[k]] = [key |-> k, state |-> cs]]
    <3>1. entry' = [entry EXCEPT ![m[k]] = [entry[m[k]] EXCEPT !.state = cs]]
      BY <2>1
    <3>2. [entry[m[k]] EXCEPT !.state = cs] = [key |-> k, state |-> cs]
      BY <2>2 DEF Holds
    <3> QED BY <3>1, <3>2
  <2>4. /\ entry' \in [Elements -> Holds] /\ entry'[m[k]].key = k /\ entry'[m[k]].state = cs
        /\ \A x \in Elements \ {m[k]} : entry'[x] = entry[x]
    BY <2>2, <2>3, EntryIs
  <2> DEFINE D == DOMAIN m \ {k}
  <2>5. Enters(k, m[k], D) /\ Room(k, D)
    BY <2>1, <2>4, UseEnters
  <2> QED BY <1>2, <1>6, <2>4, <2>5
<1> QED BY <1>3, <1>4, <1>5, <1>6 DEF Put

\* Get of a key that is there.
LEMMA GetStep ==
  ASSUME CacheInv, RecentInv, NEW k \in DOMAIN m, q' = MoveToFront(q, m[k]), UNCHANGED <<m, entry, strayed>>,
         recent' = IF Live(k) THEN MoveToFront(recent, k) ELSE recent
  PROVE  CacheInv' /\ RecentInv'
<1> DEFINE D == DOMAIN m \ {k}
<1>1. /\ m[k] \in Elements /\ entry \in [Elements -> Holds] /\ entry[m[k]].key = k /\ k \in Keys
      /\ entry[m[k]].state # None => entry[m[k]].state.of = k
  BY DEF CacheInv
<1>2. Enters(k, m[k], D) /\ Room(k, D)
  BY <1>1, UseEnters
<1> HIDE DEF D
<1>3. /\ recent \in Seq(Keys) /\ NoRepeats(recent) /\ Len(recent) \in Nat /\ Len(recent) <= Capacity
      /\ Capacity \in Nat
  BY CapacityAssumption DEF RecentInv
<1>4. CASE Live(k)
  <2>1. OnList(recent, k)
    BY <1>4 DEF RecentInv
  <2>2. Len(MoveToFront(recent, k)) = Len(recent)
    BY <1>1, <1>3, <2>1, FrontOrder
  <2>3. recent' = AtMost(Capacity, MoveToFront(recent, k))
    BY <1>3, <1>4, <2>2 DEF AtMost
  <2>4. entry'[m[k]].state # None
    BY <1>4 DEF Live
  <2> QED BY <1>2, <2>3, <2>4, CacheEnters, SessionStep
<1>5. CASE ~ Live(k)
  <2>1. ~ OnList(recent, k) /\ strayed = TRUE
    BY <1>5 DEF RecentInv
  <2>2. recent' = RemoveFirst(recent, k)
    BY <1>3, <1>5, <2>1, RemovedOrder
  <2>3. entry'[m[k]].state = None
    BY <1>5 DEF Live
  <2> QED BY <1>2, <2>1, <2>2, <2>3, CacheEnters, NilStep
<1> QED BY <1>4, <1>5

----------------------------------------------------------------------------
(***************************************************************************)
(* The clients.                                                            *)
(***************************************************************************)
\* What a client offers is a session of the server it has looked up.
ClientInv ==
  /\ at \in [Clients -> {"idle", "loaded", "handshake"}]
  /\ key \in [Clients -> Keys \cup {None}]
  /\ session \in [Clients -> States \cup {None}]
  /\ count \in Nat
  /\ \A c \in Clients : at[c] # "idle" => key[c] \in Keys
  /\ OfferedToItsServer

CacheIInv == CacheInv /\ RecentInv /\ ClientInv

LEMMA CacheStarts == CacheInit => CacheIInv
<1> SUFFICES ASSUME CacheInit PROVE CacheIInv
  OBVIOUS
<1>1. /\ q = <<>> /\ recent = <<>> /\ m = <<>> /\ Len(q) = 0 /\ Len(recent) = 0 /\ DOMAIN m = {}
      /\ Capacity \in Nat
  BY CapacityAssumption DEF CacheInit
<1>2. CacheInv
  <2>1. entry \in [Elements -> Holds]
    BY DEF CacheInit, Holds
  <2>2. q \in Seq(Elements) /\ NoRepeats(q) /\ Len(q) <= Capacity /\ \A e : ~ OnList(q, e)
    BY <1>1 DEF NoRepeats, OnList
  <2>3. m \in [DOMAIN m -> Elements] /\ DOMAIN m \subseteq Keys
    BY <1>1
  <2> QED BY <1>1, <2>1, <2>2, <2>3 DEF CacheInv
<1>3. RecentInv
  <2>1. recent \in Seq(Keys) /\ NoRepeats(recent) /\ Len(recent) <= Capacity /\ \A k : ~ OnList(recent, k)
    BY <1>1 DEF NoRepeats, OnList
  <2>2. \A j, k : ~ Precedes(recent, j, k) /\ ~ Live(j)
    BY <1>1 DEF Precedes, Live
  <2>3. strayed \in BOOLEAN
    BY DEF CacheInit
  <2> QED BY <1>1, <2>1, <2>2, <2>3 DEF RecentInv
<1>4. ClientInv
  BY DEF CacheInit, ClientInv, OfferedToItsServer
<1> QED BY <1>2, <1>3, <1>4 DEF CacheIInv

LEMMA CacheSteps == CacheIInv /\ [CacheNext]_cacheVars => CacheIInv'
<1> SUFFICES ASSUME CacheIInv, [CacheNext]_cacheVars PROVE CacheIInv'
  OBVIOUS
<1> USE DEF CacheIInv
<1>1. CASE UNCHANGED cacheVars
  BY <1>1 DEF cacheVars, cache, CacheInv, RecentInv, Live, ClientInv, OfferedToItsServer
<1>2. ASSUME NEW c \in Clients, NEW k \in Keys, LoadHit(c, k) PROVE CacheIInv'
  <2>1. k \in DOMAIN m /\ m[k] \in Elements /\ entry \in [Elements -> Holds]
    BY <1>2 DEF LoadHit, CacheInv
  <2>2. entry[m[k]].state \in States \cup {None} /\ (entry[m[k]].state # None => entry[m[k]].state.of = k)
    BY <2>1 DEF CacheInv, Holds
  <2>3. CacheInv' /\ RecentInv'
    <3>1. /\ q' = MoveToFront(q, m[k]) /\ UNCHANGED <<m, entry, strayed>>
          /\ recent' = IF Live(k) THEN MoveToFront(recent, k) ELSE recent
      BY <1>2 DEF LoadHit
    <3> QED BY <2>1, <3>1, GetStep
  <2>4. ClientInv'
    BY <1>2, <2>2 DEF LoadHit, ClientInv, OfferedToItsServer
  <2> QED BY <2>3, <2>4
<1>3. ASSUME NEW c \in Clients, NEW k \in Keys, LoadMiss(c, k) PROVE CacheIInv'
  BY <1>3 DEF LoadMiss, cache, CacheInv, RecentInv, Live, ClientInv, OfferedToItsServer
<1>4. ASSUME NEW c \in Clients, Offer(c) PROVE CacheIInv'
  <2>1. CacheInv' /\ RecentInv'
    BY <1>4 DEF Offer, cache, CacheInv, RecentInv, Live
  <2>2. session' = session \/ session' = [session EXCEPT ![c] = None]
    BY <1>4 DEF Offer
  <2>3. ClientInv'
    BY <1>4, <2>2 DEF Offer, ClientInv, OfferedToItsServer
  <2> QED BY <2>1, <2>3
<1>5. ASSUME NEW c \in Clients, Discard(c) PROVE CacheIInv'
  <2>1. key[c] \in Keys /\ Put(key[c], None)
    BY <1>5 DEF Discard, ClientInv
  <2>2. CacheInv' /\ RecentInv'
    BY <2>1, PutStep
  <2>3. ClientInv'
    BY <1>5 DEF Discard, ClientInv, OfferedToItsServer
  <2> QED BY <2>2, <2>3
<1>6. ASSUME NEW c \in Clients, Establish(c) PROVE CacheIInv'
  <2> DEFINE cs == [of |-> key[c], n |-> count']
  <2>1. key[c] \in Keys /\ count' \in Nat /\ Put(key[c], cs)
    BY <1>6 DEF Establish, ClientInv
  <2>2. cs \in States /\ cs.of = key[c]
    BY <2>1 DEF States
  <2> HIDE DEF cs
  <2>3. CacheInv' /\ RecentInv'
    BY <2>1, <2>2, PutStep
  <2>4. ClientInv'
    BY <1>6, <2>1 DEF Establish, ClientInv, OfferedToItsServer
  <2> QED BY <2>3, <2>4
<1>7. ASSUME NEW c \in Clients, EstablishPlain(c) PROVE CacheIInv'
  BY <1>7 DEF EstablishPlain, cache, CacheInv, RecentInv, Live, ClientInv, OfferedToItsServer
<1>8. ASSUME NEW c \in Clients, Fail(c) PROVE CacheIInv'
  <2>1. key[c] \in Keys
    BY <1>8 DEF Fail, ClientInv
  <2>2. CASE Put(key[c], None)
    <3>1. CacheInv' /\ RecentInv'
      BY <2>1, <2>2, PutStep
    <3>2. ClientInv'
      BY <1>8 DEF Fail, ClientInv, OfferedToItsServer
    <3> QED BY <3>1, <3>2
  <2>3. CASE UNCHANGED cache
    BY <1>8, <2>3 DEF Fail, cache, CacheInv, RecentInv, Live, ClientInv, OfferedToItsServer
  <2> QED BY <1>8, <2>2, <2>3 DEF Fail
<1> QED BY <1>1, <1>2, <1>3, <1>4, <1>5, <1>6, <1>7, <1>8 DEF CacheNext

LEMMA CacheStays == CacheSpec => []CacheIInv
BY CacheStarts, CacheSteps, PTL DEF CacheSpec

----------------------------------------------------------------------------
(***************************************************************************)
(* What is lost to a session that is thrown away.                          *)
(***************************************************************************)
\* Put leaves the other sessions alone, and all of them if it is nil for a key
\* that is there.
LEMMA PutEffect ==
  ASSUME CacheInv, NEW k \in Keys, NEW cs \in States \cup {None}, Put(k, cs)
  PROVE  /\ Live(k)' => cs # None /\ entry'[m'[k]].state = cs
         /\ \A j \in Keys \ {k} :
              /\ Live(j)' => Live(j) /\ entry'[m'[j]] = entry[m[j]]
              /\ cs = None /\ k \in DOMAIN m => (Live(j) => Live(j)')
<1>1. entry \in [Elements -> Holds] /\ m \in [DOMAIN m -> Elements]
  BY DEF CacheInv
\* An element that takes the key.
<1>2. ASSUME NEW e \in Elements, NEW D, D \subseteq DOMAIN m \ {k}, \A j \in D : m[j] # e,
             entry' = [entry EXCEPT ![e] = [key |-> k, state |-> cs]],
             DOMAIN m' = D \cup {k}, m'[k] = e, \A j \in D : m'[j] = m[j]
      PROVE  /\ Live(k)' => cs # None /\ entry'[m'[k]].state = cs
             /\ \A j \in Keys \ {k} : Live(j)' => Live(j) /\ entry'[m'[j]] = entry[m[j]]
  <2>1. entry'[e].state = cs /\ \A x \in Elements \ {e} : entry'[x] = entry[x]
    BY <1>2, EntryIs
  <2>2. ASSUME NEW j \in D PROVE m'[j] = m[j] /\ entry'[m[j]] = entry[m[j]]
    BY <1>1, <1>2, <2>1
  <2> QED BY <1>2, <2>1, <2>2 DEF Live
<1>3. CASE Insert(k, cs)
  <2> DEFINE e == CHOOSE x \in Elements : x \notin ToSet(q)
  <2>1. e \in Elements /\ e \notin ToSet(q)
    BY <1>3, CapacityAssumption, Unused DEF Insert, CacheInv
  <2>2. /\ entry' = [entry EXCEPT ![e] = [key |-> k, state |-> cs]] /\ k \notin DOMAIN m
        /\ m' = [j \in DOMAIN m \cup {k} |-> IF j = k THEN e ELSE m[j]]
    BY <1>3 DEF Insert
  <2> HIDE DEF e
  <2>3. \A j \in DOMAIN m : m[j] # e
    BY <2>1 DEF CacheInv, OnList, ToSet
  <2> QED BY <1>2, <2>1, <2>2, <2>3
<1>4. CASE Evict(k, cs)
  <2> DEFINE e == Last(q)
             D == DOMAIN m \ {entry[e].key}
  <2>1. /\ entry' = [entry EXCEPT ![e] = [key |-> k, state |-> cs]] /\ k \notin DOMAIN m
        /\ m' = [j \in D \cup {k} |-> IF j = k THEN e ELSE m[j]]
    BY <1>4 DEF Evict
  <2>2. e \in Elements
    BY <1>4, CapacityAssumption DEF Evict, CacheInv, Last
  <2>3. D \subseteq DOMAIN m \ {k} /\ \A j \in D : m[j] # e
    BY <2>1 DEF CacheInv
  <2> HIDE DEF e, D
  <2>4. DOMAIN m' = D \cup {k} /\ m'[k] = e /\ \A j \in D : m'[j] = m[j]
    BY <2>1, <2>3
  <2> QED BY <1>2, <2>1, <2>2, <2>3, <2>4
<1>5. CASE Replace(k, cs) /\ cs = None
  <2>1. /\ k \in DOMAIN m /\ UNCHANGED entry
        /\ m' = [j \in DOMAIN m \ {k} |-> m[j]]
    BY <1>5 DEF Replace
  <2> QED BY <2>1 DEF Live
<1>6. CASE Replace(k, cs) /\ cs # None
  <2>1. /\ k \in DOMAIN m /\ entry' = [entry EXCEPT ![m[k]].state = cs] /\ UNCHANGED m
    BY <1>6 DEF Replace
  <2>2. entry'[m[k]].state = cs /\ \A x \in Elements \ {m[k]} : entry'[x] = entry[x]
    BY <1>1, <2>1 DEF Holds
  <2>3. \A j \in DOMAIN m \ {k} : m[j] # m[k]
    BY <2>1, Apart
  <2> QED BY <1>1, <1>6, <2>1, <2>2, <2>3 DEF Live
<1>7. cs = None /\ k \in DOMAIN m => Replace(k, cs)
  BY DEF Put, Insert, Evict
<1> QED BY <1>3, <1>4, <1>5, <1>6, <1>7 DEF Put

\* The session under a key is never older than one a client has got there.
NewerInv ==
  /\ \A k \in Keys : Live(k) => entry[m[k]].state.n <= count
  /\ \A c \in Clients : session[c] # None =>
       /\ session[c].n <= count
       /\ Live(key[c]) => entry[m[key[c]]].state.n >= session[c].n

\* Clients whose sessions stay or go leave the others' behind no newer one.
LEMMA NewerStays ==
  ASSUME NewerInv, ClientInv, UNCHANGED <<key, count>>,
         \A c \in Clients : session'[c] \in {session[c], None},
         \A k \in Keys : Live(k)' => Live(k) /\ entry'[m'[k]].state = entry[m[k]].state
  PROVE  NewerInv'
BY DEF NewerInv, ClientInv, OfferedToItsServer, States, Live

LEMMA NewerSteps == CacheIInv /\ NewerInv /\ [CacheNext]_cacheVars => NewerInv'
<1> SUFFICES ASSUME CacheIInv, NewerInv, [CacheNext]_cacheVars PROVE NewerInv'
  OBVIOUS
<1> USE DEF CacheIInv
<1>a. /\ key \in [Clients -> Keys \cup {None}] /\ session \in [Clients -> States \cup {None}] /\ count \in Nat
      /\ \A c \in Clients : at[c] # "idle" => key[c] \in Keys
      /\ \A c \in Clients : session[c] # None => session[c] \in States /\ session[c].of = key[c]
  BY DEF ClientInv, OfferedToItsServer
<1>b. \A k \in DOMAIN m : k \in Keys /\ entry[m[k]].state \in States \cup {None}
  BY DEF CacheInv, Holds
<1>c. /\ None \in States \cup {None}
      /\ \A x \in States : x.of \in Keys /\ x.n \in Nat
  BY DEF States
<1>1. CASE UNCHANGED cacheVars
  BY <1>1 DEF cacheVars, cache, NewerInv, Live
<1>2. ASSUME NEW c \in Clients, NEW k \in Keys, LoadHit(c, k) PROVE NewerInv'
  <2>1. /\ k \in DOMAIN m /\ UNCHANGED <<m, entry, count>>
        /\ key' = [key EXCEPT ![c] = k] /\ session' = [session EXCEPT ![c] = entry[m[k]].state]
    BY <1>2 DEF LoadHit
  <2>2. /\ key'[c] = k /\ session'[c] = entry[m[k]].state
        /\ \A d \in Clients \ {c} : key'[d] = key[d] /\ session'[d] = session[d]
    BY <1>a, <2>1
  <2>3. ASSUME session'[c] # None PROVE Live(k) /\ entry[m[k]].state.n <= count
    BY <2>1, <2>2, <2>3 DEF Live, NewerInv
  <2>4. session'[c] # None => session'[c].n <= count /\ (Live(k) => entry[m[k]].state.n >= session'[c].n)
    BY <1>b, <1>c, <2>1, <2>2, <2>3
  <2> QED BY <2>1, <2>2, <2>4 DEF NewerInv, Live
<1>3. ASSUME NEW c \in Clients, NEW k \in Keys, LoadMiss(c, k) PROVE NewerInv'
  <2>1. /\ UNCHANGED <<m, entry, count>>
        /\ key' = [key EXCEPT ![c] = k] /\ session' = [session EXCEPT ![c] = None]
    BY <1>3 DEF LoadMiss, cache
  <2>2. /\ session'[c] = None
        /\ \A d \in Clients \ {c} : key'[d] = key[d] /\ session'[d] = session[d]
    BY <1>a, <2>1
  <2> QED BY <2>1, <2>2 DEF NewerInv, Live
<1>4. ASSUME NEW c \in Clients, Offer(c) PROVE NewerInv'
  <2>1. UNCHANGED <<m, entry, count, key>> /\ \A d \in Clients : session'[d] \in {session[d], None}
    BY <1>4, <1>a DEF Offer, cache
  <2> QED BY <2>1, NewerStays DEF Live
<1>5. ASSUME NEW c \in Clients, key[c] \in Keys, Put(key[c], None), UNCHANGED <<key, count>>,
             \A d \in Clients : session'[d] \in {session[d], None}
      PROVE  NewerInv'
  <2>1. \A j \in Keys : Live(j)' => Live(j) /\ entry'[m'[j]].state = entry[m[j]].state
    BY <1>5, <1>c, PutEffect
  <2> QED BY <1>5, <2>1, NewerStays
<1>6. ASSUME NEW c \in Clients, Discard(c) PROVE NewerInv'
  <2>1. \A d \in Clients : session'[d] \in {session[d], None}
    BY <1>6, <1>a DEF Discard
  <2> QED BY <1>5, <1>6, <1>a, <2>1 DEF Discard
<1>7. ASSUME NEW c \in Clients, Establish(c) PROVE NewerInv'
  <2> DEFINE cs == [of |-> key[c], n |-> count']
  <2>1. key[c] \in Keys /\ count' = count + 1 /\ Put(key[c], cs) /\ UNCHANGED <<key, session>>
    BY <1>7, <1>a DEF Establish
  <2>2. cs \in States /\ cs.n = count + 1
    BY <1>a, <2>1 DEF States
  <2> HIDE DEF cs
  <2>3. /\ Live(key[c])' => entry'[m'[key[c]]].state.n = count + 1
        /\ \A j \in Keys \ {key[c]} : Live(j)' => Live(j) /\ entry'[m'[j]] = entry[m[j]]
    BY <2>1, <2>2, PutEffect
  <2>4. ASSUME NEW j \in Keys, Live(j)' PROVE entry'[m'[j]].state.n <= count'
    <3>1. CASE j = key[c]
      BY <1>a, <2>1, <2>3, <2>4, <3>1
    <3>2. CASE j # key[c]
      <4>1. entry'[m'[j]] = entry[m[j]] /\ entry[m[j]].state.n <= count /\ entry[m[j]].state \in States
        BY <1>b, <2>3, <2>4, <3>2 DEF NewerInv, Live
      <4> QED BY <1>a, <1>c, <2>1, <4>1
    <3> QED BY <3>1, <3>2
  <2>5. ASSUME NEW d \in Clients, session[d] # None
        PROVE  /\ session[d].n <= count'
               /\ Live(key[d])' => entry'[m'[key[d]]].state.n >= session[d].n
    <3>1. session[d].n \in Nat /\ session[d].n <= count /\ key[d] \in Keys
      BY <1>a, <1>c, <2>5 DEF NewerInv
    <3>2. CASE key[d] = key[c]
      BY <1>a, <2>1, <2>3, <3>1, <3>2
    <3>3. CASE key[d] # key[c]
      BY <1>a, <2>1, <2>3, <2>5, <3>1, <3>3 DEF NewerInv
    <3> QED BY <3>2, <3>3
  <2> QED BY <2>1, <2>4, <2>5 DEF NewerInv
<1>8. ASSUME NEW c \in Clients, EstablishPlain(c) PROVE NewerInv'
  BY <1>8 DEF EstablishPlain, cache, NewerInv, Live
<1>9. ASSUME NEW c \in Clients, Fail(c) PROVE NewerInv'
  <2>1. CASE Put(key[c], None)
    BY <1>5, <1>9, <1>a, <2>1 DEF Fail
  <2>2. CASE UNCHANGED cache
    BY <1>9, <2>2 DEF Fail, cache, NewerInv, Live
  <2> QED BY <1>9, <2>1, <2>2 DEF Fail
<1> QED BY <1>1, <1>2, <1>3, <1>4, <1>6, <1>7, <1>8, <1>9 DEF CacheNext

----------------------------------------------------------------------------
(***************************************************************************)
(* The theorems.                                                           *)
(***************************************************************************)
LEMMA InOrder == ASSUME CacheIInv PROVE KeepsMostRecent
<1> USE DEF CacheIInv
<1>1. /\ q \in Seq(Elements) /\ Len(q) \in Nat /\ Len(q) <= Capacity /\ DOMAIN q = 1 .. Len(q)
      /\ \A k \in DOMAIN m : entry[m[k]].key = k
      /\ recent \in Seq(Keys) /\ Len(recent) \in Nat /\ DOMAIN recent = 1 .. Len(recent)
      /\ \A k \in Keys : Live(k) => OnList(recent, k)
  BY DEF CacheInv, RecentInv
<1>2. ToSet(q) = {m[k] : k \in DOMAIN m}
  <2>1. \A e : e \in ToSet(q) <=> OnList(q, e)
    BY <1>1 DEF ToSet, OnList
  <2>2. \A e : OnList(q, e) <=> \E k \in DOMAIN m : m[k] = e
    BY DEF CacheInv
  <2> QED BY <2>1, <2>2
\* The live ones come first.
<1>3. ASSUME NEW n \in 0 .. Len(recent), \A i \in 1 .. n : Live(recent[i]),
             \A i \in 1 .. Len(recent) : Live(recent[i]) => i \in 1 .. n
      PROVE  /\ \A k \in Keys : Live(k) <=> \E i \in 1 .. n : recent[i] = k
             /\ strayed \/ n = Len(recent)
  <2>1. ASSUME NEW k \in Keys, Live(k) PROVE \E i \in 1 .. n : recent[i] = k
    <3>1. PICK i \in 1 .. Len(recent) : recent[i] = k
      BY <1>1, <2>1 DEF OnList
    <3> QED BY <1>3, <2>1, <3>1
  <2>2. ASSUME ~ strayed, n # Len(recent) PROVE FALSE
    <3>1. n + 1 \in 1 .. Len(recent) /\ ~ (n + 1 \in 1 .. n)
      <4> DEFINE l == Len(recent)
      <4>1. n \in 0 .. l /\ n # l /\ l \in Nat
        BY <1>1, <2>2
      <4> HIDE DEF l
      <4>2. n + 1 \in 1 .. l /\ ~ (n + 1 \in 1 .. n)
        BY <4>1
      <4> QED BY <4>2 DEF l
    <3>2. OnList(recent, recent[n + 1])
      BY <3>1 DEF OnList
    <3>3. Live(recent[n + 1])
      BY <2>2, <3>2 DEF RecentInv
    <3> QED BY <1>3, <3>1, <3>3
  <2> QED BY <1>3, <2>1, <2>2
<1>4. \E n \in 0 .. Len(recent) : /\ \A i \in 1 .. n : Live(recent[i])
                                  /\ \A i \in 1 .. Len(recent) : Live(recent[i]) => i \in 1 .. n
  <2> DEFINE T == {n \in 0 .. Len(recent) : \A i \in 1 .. Len(recent) : Live(recent[i]) => i <= n}
  <2>1. Len(recent) \in T /\ T \subseteq Nat
    BY <1>1
  <2>2. PICK n \in T : \A x \in T : n <= x
    BY <2>1, Smallest
  <2>3. n \in 0 .. Len(recent) /\ \A i \in 1 .. Len(recent) : Live(recent[i]) => i <= n
    BY <2>2
  <2>4. n # 0 => n \in 1 .. Len(recent) /\ Live(recent[n])
    <3> SUFFICES ASSUME n # 0 PROVE Live(recent[n])
      BY <1>1, <2>3
    <3>1. n - 1 \in 0 .. Len(recent) /\ ~ (n <= n - 1)
      <4> DEFINE l == Len(recent)
      <4>1. n \in 0 .. l /\ n # 0 /\ l \in Nat
        BY <1>1, <2>3
      <4> HIDE DEF l
      <4>2. n - 1 \in 0 .. l /\ ~ (n <= n - 1)
        BY <4>1
      <4> QED BY <4>2 DEF l
    <3>2. PICK i \in 1 .. Len(recent) : Live(recent[i]) /\ ~ (i <= n - 1)
      <4>1. n - 1 \notin T
        BY <2>2, <3>1
      <4> QED BY <3>1, <4>1
    <3>3. i = n
      BY <1>1, <2>3, <3>2
    <3> QED BY <3>2, <3>3
  <2> HIDE DEF T
  <2>5. ASSUME NEW i \in 1 .. n PROVE Live(recent[i])
    <3>1. n # 0
      BY <2>3, <2>5
    <3>2. CASE i = n
      BY <2>4, <3>1, <3>2
    <3>3. CASE i < n
      <4>1. i \in 1 .. Len(recent) /\ n \in 1 .. Len(recent) /\ Live(recent[n])
        BY <1>1, <2>3, <2>4, <3>1, <3>3
      <4>2. Precedes(recent, recent[i], recent[n])
        BY <3>3, <4>1 DEF Precedes
      <4> QED BY <4>1, <4>2 DEF RecentInv
    <3> QED BY <2>3, <3>2, <3>3
  <2>6. \A i \in 1 .. Len(recent) : Live(recent[i]) => i \in 1 .. n
    BY <2>3
  <2> QED BY <2>3, <2>5, <2>6
<1>5. ASSUME NEW a \in 1 .. Len(q), NEW b \in 1 .. Len(q), a < b,
             NEW i \in 1 .. Len(recent), NEW j \in 1 .. Len(recent),
             entry[q[a]].key = recent[i], entry[q[b]].key = recent[j]
      PROVE  i < j
  <2>1. OnList(q, q[a]) /\ OnList(q, q[b]) /\ OnList(recent, recent[i]) /\ OnList(recent, recent[j])
    BY DEF OnList
  <2>2. recent[i] \in DOMAIN m /\ m[recent[i]] = q[a]
    BY <1>5, <2>1 DEF CacheInv
  <2>3. recent[j] \in DOMAIN m /\ m[recent[j]] = q[b]
    BY <1>5, <2>1 DEF CacheInv
  <2>4. Live(recent[i]) /\ Live(recent[j])
    BY <2>1, <2>2, <2>3 DEF RecentInv
  <2>5. Precedes(q, q[a], q[b])
    BY <1>5 DEF Precedes
  <2>6. Precedes(recent, recent[i], recent[j])
    BY <2>2, <2>3, <2>4, <2>5 DEF RecentInv
  <2>7. PICK c \in 1 .. Len(recent), d \in 1 .. Len(recent) :
          c < d /\ recent[c] = recent[i] /\ recent[d] = recent[j]
    BY <2>6 DEF Precedes
  <2>8. c = i /\ d = j
    BY <2>7 DEF RecentInv, NoRepeats
  <2> QED BY <2>7, <2>8
<1>6. PICK n \in 0 .. Len(recent) : /\ \A i \in 1 .. n : Live(recent[i])
                                    /\ \A i \in 1 .. Len(recent) : Live(recent[i]) => i \in 1 .. n
  BY <1>4
<1>7. /\ \A k \in Keys : Live(k) <=> \E i \in 1 .. n : recent[i] = k
      /\ strayed \/ n = Len(recent)
  <2>1. /\ n \in 0 .. Len(recent) /\ \A i \in 1 .. n : Live(recent[i])
        /\ \A i \in 1 .. Len(recent) : Live(recent[i]) => i \in 1 .. n
    BY <1>6
  <2> QED BY ONLY <1>3, <2>1
<1>8. \E l \in 0 .. Len(recent) :
        /\ \A k \in Keys : Live(k) <=> \E i \in 1 .. l : recent[i] = k
        /\ strayed \/ l = Len(recent)
  BY ONLY <1>7, n \in 0 .. Len(recent)
<1>9. \A a, b \in DOMAIN q : a < b =>
        \A i, j \in DOMAIN recent : entry[q[a]].key = recent[i] /\ entry[q[b]].key = recent[j] => i < j
  BY ONLY <1>1, <1>5, Zenon
<1> QED BY ONLY <1>1, <1>2, <1>8, <1>9, Zenon DEF KeepsMostRecent

\* The variables of the cache and of its clients keep their types.
THEOREM CacheTypes == CacheSpec => []CacheTypeOK
<1>1. CacheIInv => CacheTypeOK
  BY DEF CacheIInv, CacheInv, RecentInv, ClientInv, CacheTypeOK, States, Holds
<1> QED BY <1>1, CacheStays, PTL

\* The sessions of the cache are the most recent ones, in the order of their last
\* use, whoever used them; they are all that Put promises to keep until a nil is
\* put for a key that is not there, and map, list and entries agree:
\* lruSessionCache's Get and Put.
THEOREM LeastRecentGoes == CacheSpec => []KeepsMostRecent
<1>1. CacheIInv => KeepsMostRecent
  BY InOrder
<1> QED BY <1>1, CacheStays, PTL

\* For any number of clients and any capacity: throwing a session away costs the
\* cache the client's own session or a newer one of the same server, unless the
\* entry has gone, as when another client has thrown it away or it was evicted
\* (the Put(nil) of loadSession and clientHandshake, after Gets and Puts of others).
THEOREM NoOtherIsLost == CacheSpec => LosesNoOther
<1>1. CacheInit => NewerInv
  BY DEF CacheInit, NewerInv, Live
<1>2. ASSUME CacheIInv, NewerInv
      PROVE  \A c \in Clients : Discard(c) \/ Fail(c) =>
               \A k \in Keys : Live(k) /\ ~Live(k)' =>
                 /\ session[c] # None
                 /\ \/ key[c] \notin DOMAIN m
                    \/ k = key[c] /\ entry[m[k]].state.n >= session[c].n
  <2> SUFFICES ASSUME NEW c \in Clients, Discard(c) \/ Fail(c), NEW k \in Keys, Live(k), ~Live(k)'
               PROVE  /\ session[c] # None
                      /\ \/ key[c] \notin DOMAIN m
                         \/ k = key[c] /\ entry[m[k]].state.n >= session[c].n
    OBVIOUS
  <2>1. key[c] \in Keys
    BY <1>2 DEF CacheIInv, ClientInv, Discard, Fail
  <2>2. ~UNCHANGED cache
    BY DEF cache, Live
  <2>3. session[c] # None /\ Put(key[c], None)
    BY <2>2 DEF Discard, Fail
  <2>4. CASE key[c] \in DOMAIN m /\ k # key[c]
    BY <1>2, <2>1, <2>3, <2>4, PutEffect DEF CacheIInv
  <2>5. CASE k = key[c]
    BY <1>2, <2>3, <2>5 DEF NewerInv
  <2> QED BY <2>3, <2>4, <2>5
<1> QED BY <1>1, <1>2, NewerSteps, CacheStays, PTL DEF CacheSpec, LosesNoOther

\* No client offers a session to another server than the one that gave it,
\* although Put reuses elements: loadSession and clientHandshake.
THEOREM SessionsReachTheirServer == CacheSpec => []OfferedToItsServer
<1>1. CacheIInv => OfferedToItsServer
  BY DEF CacheIInv, ClientInv
<1> QED BY <1>1, CacheStays, PTL

----------------------------------------------------------------------------
(***************************************************************************)
(* The ticket keys.                                                        *)
(***************************************************************************)
Initialising == {"check", "fill", "assign"}

\* serverInit of a configuration is under way in one goroutine or in none, and
\* has been done before the configuration is used.
OnceInv ==
  /\ InitExclusive
  /\ \A g \in Goroutines : pc[g] \in Initialising => once[cfg[g]] = "running"
  /\ \A g \in Goroutines : pc[g] = "panic" => once[cfg[g]] = "done"

\* The returned configuration is reached through the original only.
OrderInv ==
  \A g \in Goroutines :
    /\ cfg[g] = Returned /\ pc[g] \in Initialising \cup {"once", "serve", "panic"} => once[Original] = "done"
    /\ pc[g] \in {"hello", "copy"} => cfg[g] = Original

\* What is known of a configuration that has been initialised.
DoneInv ==
  /\ \A c \in Configs :
       once[c] = "done" /\ ~disabled[c] /\ keys[c] = <<>> => c = Returned /\ disabled[Original]
  /\ \A g \in Goroutines : pc[g] = "assign" /\ cfg[g] = Original => given[Original] # None
  /\ \A t \in tickets : once[t.cfg] = "done"

KeysIInv == KeysTypeOK /\ OnceInv /\ OrderInv /\ DoneInv /\ TicketsOpen

----------------------------------------------------------------------------
LEMMA ConfigFacts == Original \in Configs /\ Returned \in Configs /\ Original # Returned
BY DEF Configs, Original, Returned

LEMMA AfterFacts ==
  ASSUME KeysTypeOK, NEW g \in Goroutines
  PROVE  /\ After(g) \in {"serve", "copy", "hello"}
         /\ After(g) \in {"copy", "hello"} => cfg[g] = Original
<1> USE ConfigFacts
<1> QED BY DEF After, KeysTypeOK, Configs

LEMMA KeyRange ==
  ASSUME KeysTypeOK, NEW c \in Configs PROVE ToSet(keys[c]) \subseteq Nat
<1>1. keys[c] \in Seq(Nat)
  BY DEF KeysTypeOK
<1>2. \A i \in DOMAIN keys[c] : keys[c][i] \in Nat
  BY <1>1
<1> QED BY <1>2 DEF ToSet

LEMMA KeysStart == KeysInit => KeysIInv
<1> SUFFICES ASSUME KeysInit PROVE KeysIInv
  OBVIOUS
<1> USE ConfigFacts
<1>1. KeysTypeOK
  BY DEF KeysInit, KeysTypeOK
<1>2. OnceInv /\ OrderInv /\ DoneInv /\ TicketsOpen
  BY DEF KeysInit, OnceInv, InitExclusive, OrderInv, DoneInv, TicketsOpen, Initialising
<1> QED BY <1>1, <1>2 DEF KeysIInv

----------------------------------------------------------------------------
(***************************************************************************)
(* Types.                                                                  *)
(***************************************************************************)
LEMMA KeysTypeStep == KeysIInv /\ [KeysNext]_keysVars => KeysTypeOK'
<1> SUFFICES ASSUME KeysIInv, [KeysNext]_keysVars PROVE KeysTypeOK'
  OBVIOUS
<1> USE ConfigFacts, JobsAssumption, KeysAssumption DEF KeysTypeOK, KeysIInv, config, threads
<1>1. ASSUME NEW g \in Goroutines, Begin(g) PROVE KeysTypeOK'
  <2>1. PICK j \in Jobs : job' = [job EXCEPT ![g] = j]
    BY <1>1 DEF Begin
  <2>2. j \in {"serve", "clone"}
    OBVIOUS
  <2>3. pc' = [pc EXCEPT ![g] = "once"] /\ cfg' = [cfg EXCEPT ![g] = Original]
        /\ UNCHANGED <<config, once, made, tickets, set>>
    BY <1>1 DEF Begin, Goes
  <2> QED BY <2>1, <2>2, <2>3
<1>0. ASSUME NEW g \in Goroutines, InitDone(g)
      PROVE  /\ once' \in [Configs -> {"new", "running", "done"}]
             /\ pc' \in [Goroutines -> {"idle", "once", "check", "fill", "assign", "hello", "serve", "copy", "panic"}]
  <2>1. PICK place \in {"serve", "copy", "hello"} : pc' = [pc EXCEPT ![g] = place]
    BY <1>0, AfterFacts DEF InitDone, Goes
  <2> QED BY <1>0, <2>1 DEF InitDone
<1>2. ASSUME NEW g \in Goroutines, Once(g) PROVE KeysTypeOK'
  BY <1>2, AfterFacts DEF Once, Goes
<1>3. ASSUME NEW g \in Goroutines, Check(g) PROVE KeysTypeOK'
  <2>1. CASE InitDone(g)
    BY <1>0, <1>3, <2>1 DEF Check
  <2>2. CASE Goes(g, "fill") /\ UNCHANGED once
    BY <1>3, <2>2 DEF Check, Goes
  <2> QED BY <1>3, <2>1, <2>2 DEF Check
<1>4. ASSUME NEW g \in Goroutines, Fill(g) PROVE KeysTypeOK'
  <2>1. given' \in [Configs -> Nat \cup {None}] /\ made' \in Nat
    <3>1. CASE given[cfg[g]] # None
      BY <1>4, <3>1 DEF Fill
    <3>2. CASE given[cfg[g]] = None /\ cfg[g] = Returned
      <4>1. given' = [given EXCEPT ![Returned] = given[Original]] /\ UNCHANGED made
        BY <1>4, <3>2 DEF Fill
      <4> QED BY <4>1
    <3>3. CASE given[cfg[g]] = None /\ cfg[g] = Original
      <4>1. made' = made + 1 /\ given' = [given EXCEPT ![Original] = made']
        BY <1>4, <3>3 DEF Fill
      <4> QED BY <4>1
    <3> QED BY <3>1, <3>2, <3>3 DEF Configs
  <2> QED BY <1>4, <2>1 DEF Fill, Goes
<1>5. ASSUME NEW g \in Goroutines, FillFails(g) PROVE KeysTypeOK'
  BY <1>0, <1>5 DEF FillFails
<1>6. ASSUME NEW g \in Goroutines, Assign(g) PROVE KeysTypeOK'
  <2>1. keys' \in [Configs -> Seq(Nat)]
    <3>1. CASE cfg[g] = Returned
      BY <1>6, <3>1 DEF Assign
    <3>2. CASE cfg[g] = Original
      <4>1. given[Original] \in Nat
        BY <1>6, <3>2 DEF Assign, DoneInv
      <4> QED BY <1>6, <3>2, <4>1 DEF Assign
    <3> QED BY <3>1, <3>2 DEF Configs
  <2> QED BY <1>0, <1>6, <2>1 DEF Assign
<1>7. ASSUME NEW g \in Goroutines, Hello(g) PROVE KeysTypeOK'
  <2>1. CASE Goes(g, "serve") /\ UNCHANGED cfg
    BY <1>7, <2>1 DEF Hello, Goes
  <2>2. CASE Goes(g, "once") /\ cfg' = [cfg EXCEPT ![g] = Returned]
    BY <1>7, <2>2 DEF Hello, Goes
  <2> QED BY <1>7, <2>1, <2>2 DEF Hello
<1>8. ASSUME NEW g \in Goroutines, Serve(g) PROVE KeysTypeOK'
  <2>1. keys[cfg[g]] # <<>> => keys[cfg[g]][1] \in Nat
    OBVIOUS
  <2>2. tickets' \subseteq [cfg : Configs, key : Nat]
    BY <1>8, <2>1 DEF Serve
  <2>3. pc' \in [Goroutines -> {"idle", "once", "check", "fill", "assign", "hello", "serve", "copy", "panic"}]
    <3>1. \E to \in {"idle", "panic"} : pc' = [pc EXCEPT ![g] = to]
      BY <1>8 DEF Serve, Goes
    <3> QED BY <3>1
  <2> QED BY <1>8, <2>2, <2>3 DEF Serve
<1>9. ASSUME NEW g \in Goroutines, Copy(g) PROVE KeysTypeOK'
  <2>1. disabled' \in [Configs -> BOOLEAN] /\ given' \in [Configs -> Nat \cup {None}]
    BY <1>9 DEF Copy
  <2>2. keys' \in [Configs -> Seq(Nat)] /\ set' \in [Configs -> Seq(Nat) \cup {None}]
    BY <1>9 DEF Copy
  <2> QED BY <1>9, <2>1, <2>2 DEF Copy, Goes
<1>10. ASSUME NEW c \in Configs, Set(c) PROVE KeysTypeOK'
  <2>1. PICK kept \in {<<>>} \cup {<<k>> : k \in ToSet(keys[c])} : keys' = [keys EXCEPT ![c] = <<made'>> \o kept]
    BY <1>10 DEF Set
  <2>2. kept \in Seq(Nat)
    <3>1. CASE kept = <<>>
      BY <3>1
    <3>2. CASE \E k \in Nat : kept = <<k>>
      BY <3>2
    <3> QED BY <3>1, <3>2, KeyRange
  <2>3. <<made'>> \o kept \in Seq(Nat)
    BY <1>10, <2>2 DEF Set
  <2>4. keys' \in [Configs -> Seq(Nat)] /\ keys'[c] \in Seq(Nat)
    BY <2>1, <2>3
  <2> QED BY <1>10, <2>4 DEF Set
<1>11. CASE UNCHANGED keysVars
  BY <1>11 DEF keysVars
<1> QED
  BY <1>1, <1>2, <1>3, <1>4, <1>5, <1>6, <1>7, <1>8, <1>9, <1>10, <1>11 DEF KeysNext, Handler

----------------------------------------------------------------------------
(***************************************************************************)
(* Who runs serverInit.                                                    *)
(***************************************************************************)
LEMMA OnceStep == KeysIInv /\ [KeysNext]_keysVars => (OnceInv /\ OrderInv)'
<1> SUFFICES ASSUME KeysIInv, [KeysNext]_keysVars PROVE (OnceInv /\ OrderInv)'
  OBVIOUS
<1> USE ConfigFacts
    DEF KeysIInv, KeysTypeOK, OnceInv, OrderInv, InitExclusive, Initialising, config, threads, Goes
<1>1. ASSUME NEW g \in Goroutines, Begin(g) PROVE (OnceInv /\ OrderInv)'
  BY <1>1 DEF Begin
<1>2. ASSUME NEW g \in Goroutines, Once(g) PROVE (OnceInv /\ OrderInv)'
  <2>1. CASE once[cfg[g]] = "new"
    BY <1>2, <2>1 DEF Once
  <2>2. CASE once[cfg[g]] = "done"
    <3>1. PICK place \in {"serve", "copy", "hello"} : pc' = [pc EXCEPT ![g] = place] /\ place = After(g)
      BY <1>2, <2>2, AfterFacts DEF Once
    <3>2. once' = once /\ UNCHANGED cfg /\ pc[g] = "once"
      BY <1>2, <2>2 DEF Once
    <3>3. place \in {"copy", "hello"} => cfg[g] = Original
      BY <3>1, AfterFacts
    <3> QED BY <2>2, <3>1, <3>2, <3>3
  <2> QED BY <1>2, <2>1, <2>2 DEF Once
<1>3. ASSUME NEW g \in Goroutines, pc[g] \in Initialising, InitDone(g), UNCHANGED cfg
      PROVE  (OnceInv /\ OrderInv)'
  BY <1>3, AfterFacts DEF InitDone
<1>4. ASSUME NEW g \in Goroutines, Check(g) PROVE (OnceInv /\ OrderInv)'
  <2>1. CASE InitDone(g)
    BY <1>3, <1>4, <2>1 DEF Check
  <2>2. CASE Goes(g, "fill") /\ UNCHANGED once
    BY <1>4, <2>2 DEF Check
  <2> QED BY <1>4, <2>1, <2>2 DEF Check
<1>5. ASSUME NEW g \in Goroutines, Fill(g) PROVE (OnceInv /\ OrderInv)'
  BY <1>5 DEF Fill
<1>6. ASSUME NEW g \in Goroutines, FillFails(g) PROVE (OnceInv /\ OrderInv)'
  BY <1>3, <1>6 DEF FillFails
<1>7. ASSUME NEW g \in Goroutines, Assign(g) PROVE (OnceInv /\ OrderInv)'
  BY <1>3, <1>7 DEF Assign
<1>8. ASSUME NEW g \in Goroutines, Hello(g) PROVE (OnceInv /\ OrderInv)'
  <2>1. CASE Goes(g, "serve") /\ UNCHANGED cfg
    BY <1>8, <2>1 DEF Hello
  <2>2. CASE Goes(g, "once") /\ cfg' = [cfg EXCEPT ![g] = Returned]
    BY <1>8, <2>2 DEF Hello
  <2> QED BY <1>8, <2>1, <2>2 DEF Hello
<1>9. ASSUME NEW g \in Goroutines, Serve(g) PROVE (OnceInv /\ OrderInv)'
  <2>1. UNCHANGED <<once, cfg>> /\ \E to \in {"idle", "panic"} : pc' = [pc EXCEPT ![g] = to]
    BY <1>9 DEF Serve
  <2>2. pc[g] = "serve"
    BY <1>9 DEF Serve
  <2> QED BY <2>1, <2>2
<1>10. ASSUME NEW g \in Goroutines, Copy(g) PROVE (OnceInv /\ OrderInv)'
  BY <1>10 DEF Copy
<1>11. ASSUME NEW c \in Configs, Set(c) PROVE (OnceInv /\ OrderInv)'
  BY <1>11 DEF Set
<1>12. CASE UNCHANGED keysVars
  BY <1>12 DEF keysVars
<1> QED
  BY <1>1, <1>2, <1>4, <1>5, <1>6, <1>7, <1>8, <1>9, <1>10, <1>11, <1>12 DEF KeysNext, Handler

----------------------------------------------------------------------------
(***************************************************************************)
(* What it leaves behind.                                                  *)
(***************************************************************************)
LEMMA DoneStep == KeysIInv /\ [KeysNext]_keysVars => DoneInv'
<1> SUFFICES ASSUME KeysIInv, [KeysNext]_keysVars PROVE DoneInv'
  OBVIOUS
<1> USE ConfigFacts, KeysAssumption
    DEF KeysIInv, KeysTypeOK, OnceInv, OrderInv, InitExclusive, Initialising, DoneInv, config, threads, Goes
<1>1. ASSUME NEW g \in Goroutines, Begin(g) PROVE DoneInv'
  BY <1>1 DEF Begin
<1>2. ASSUME NEW g \in Goroutines, Once(g) PROVE DoneInv'
  <2>1. \A c \in Configs : once'[c] = "done" <=> once[c] = "done"
    BY <1>2 DEF Once
  <2>2. UNCHANGED <<keys, disabled, given, cfg, tickets>> /\ \A h \in Goroutines : pc'[h] = "assign" => pc[h] = "assign"
    BY <1>2, AfterFacts DEF Once
  <2> QED BY <2>1, <2>2
<1>3. ASSUME NEW g \in Goroutines, Check(g) PROVE DoneInv'
  <2>1. CASE InitDone(g)
    <3>1. PICK place \in {"serve", "copy", "hello"} : pc' = [pc EXCEPT ![g] = place]
      BY <2>1, AfterFacts DEF InitDone
    <3>2. disabled[cfg[g]] \/ keys[cfg[g]] # <<>>
      BY <1>3, <2>1, <3>1 DEF Check
    <3> QED BY <1>3, <2>1, <3>1, <3>2 DEF Check, InitDone
  <2>2. CASE Goes(g, "fill") /\ UNCHANGED once
    BY <1>3, <2>2 DEF Check
  <2> QED BY <1>3, <2>1, <2>2 DEF Check
<1>4. ASSUME NEW g \in Goroutines, Fill(g) PROVE DoneInv'
  <2>1. cfg[g] = Original => given'[Original] # None
    BY <1>4 DEF Fill
  <2>2. given[Original] # None => given'[Original] # None
    BY <1>4, <2>1 DEF Fill, Configs
  <2> QED BY <1>4, <2>1, <2>2 DEF Fill
<1>5. ASSUME NEW g \in Goroutines, FillFails(g) PROVE DoneInv'
  <2>1. PICK place \in {"serve", "copy", "hello"} : pc' = [pc EXCEPT ![g] = place]
    BY <1>5, AfterFacts DEF FillFails, InitDone
  <2>2. disabled'[Original] /\ cfg[g] = Original /\ once' = [once EXCEPT ![Original] = "done"]
    BY <1>5 DEF FillFails, InitDone
  <2> QED BY <1>5, <2>1, <2>2 DEF FillFails
<1>6. ASSUME NEW g \in Goroutines, Assign(g) PROVE DoneInv'
  <2>1. cfg[g] = Original => keys'[Original] # <<>>
    BY <1>6 DEF Assign
  <2>2. cfg[g] = Returned => keys'[Returned] = keys[Original] /\ once[Original] = "done"
    BY <1>6 DEF Assign
  <2> QED BY <1>6, <2>1, <2>2, AfterFacts DEF Assign, InitDone, Configs
<1>7. ASSUME NEW g \in Goroutines, Hello(g) PROVE DoneInv'
  BY <1>7 DEF Hello
<1>8. ASSUME NEW g \in Goroutines, Serve(g) PROVE DoneInv'
  BY <1>8 DEF Serve
<1>9. ASSUME NEW g \in Goroutines, Copy(g) PROVE DoneInv'
  BY <1>9 DEF Copy
<1>10. ASSUME NEW c \in Configs, Set(c) PROVE DoneInv'
  <2>1. keys'[c] # <<>> /\ \A d \in Configs \ {c} : keys'[d] = keys[d]
    <3>1. PICK kept \in {<<>>} \cup {<<k>> : k \in ToSet(keys[c])} : keys' = [keys EXCEPT ![c] = <<made'>> \o kept]
      BY <1>10 DEF Set
    <3>2. kept \in Seq(Nat) /\ made' \in Nat
      <4>1. CASE kept = <<>>
        BY <1>10, <4>1 DEF Set
      <4>2. CASE \E k \in Nat : kept = <<k>>
        BY <1>10, <4>2 DEF Set
      <4> QED BY <4>1, <4>2, KeyRange
    <3>3. <<made'>> \o kept # <<>>
      BY <3>2
    <3> QED BY <3>1, <3>3
  <2>2. tickets' \subseteq tickets /\ UNCHANGED <<disabled, given, threads>>
    BY <1>10 DEF Set
  <2> QED BY <2>1, <2>2
<1>11. CASE UNCHANGED keysVars
  BY <1>11 DEF keysVars
<1> QED
  BY <1>1, <1>2, <1>3, <1>4, <1>5, <1>6, <1>7, <1>8, <1>9, <1>10, <1>11 DEF KeysNext, Handler

LEMMA OpenStep == KeysIInv /\ [KeysNext]_keysVars => TicketsOpen'
<1> SUFFICES ASSUME KeysIInv, [KeysNext]_keysVars PROVE TicketsOpen'
  OBVIOUS
<1> USE ConfigFacts DEF KeysIInv, KeysTypeOK, DoneInv, OnceInv, Initialising, TicketsOpen, Opens, config, threads
<1>1. CASE UNCHANGED <<keys, tickets>>
  BY <1>1
<1>2. ASSUME NEW g \in Goroutines, Assign(g) PROVE TicketsOpen'
  <2>1. \A t \in tickets : t.cfg # cfg[g]
    BY <1>2 DEF Assign
  <2> QED BY <1>2, <2>1 DEF Assign
<1>3. ASSUME NEW g \in Goroutines, Serve(g) PROVE TicketsOpen'
  <2>1. keys[cfg[g]] # <<>> => keys[cfg[g]][1] \in ToSet(keys[cfg[g]])
    BY DEF ToSet
  <2> QED BY <1>3, <2>1 DEF Serve
<1>4. ASSUME NEW g \in Goroutines, Copy(g) PROVE TicketsOpen'
  <2>1. once[Returned] = "new" => \A t \in tickets : t.cfg # Returned
    OBVIOUS
  <2> QED BY <1>4, <2>1 DEF Copy
<1>5. ASSUME NEW c \in Configs, Set(c) PROVE TicketsOpen'
  <2>1. \A d \in Configs \ {c} : keys'[d] = keys[d]
    BY <1>5 DEF Set
  <2>2. tickets' = {t \in tickets : t.cfg = c => t.key \in ToSet(keys'[c])}
    BY <1>5 DEF Set
  <2> QED BY <2>1, <2>2
<1> QED
  BY <1>1, <1>2, <1>3, <1>4, <1>5
  DEF KeysNext, Handler, Begin, Once, Check, Fill, FillFails, Hello, keysVars

----------------------------------------------------------------------------
LEMMA Inductive == KeysSpec => []KeysIInv
<1>1. KeysIInv /\ [KeysNext]_keysVars => KeysIInv'
  BY KeysTypeStep, OnceStep, DoneStep, OpenStep DEF KeysIInv
<1> QED BY <1>1, KeysStart, PTL DEF KeysSpec

\* However many connections reach a configuration at once, it is initialised
\* once, nobody serves with it before that, and whoever encrypts a ticket finds
\* a key.
THEOREM KeysAreReady == KeysSpec => []KeysReady
<1>1. KeysIInv => KeysReady
  BY DEF KeysIInv, KeysTypeOK, OnceInv, DoneInv, OrderInv, KeysReady, KeyToEncrypt, InitExclusive
<1> QED BY <1>1, Inductive, PTL

\* No initialisation and no Clone takes away the key of a ticket that was given out.
THEOREM TicketsStayOpen == KeysSpec => []TicketsOpen
<1>1. KeysIInv => TicketsOpen
  BY DEF KeysIInv
<1> QED BY <1>1, Inductive, PTL
=============================================================================
