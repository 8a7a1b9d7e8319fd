-------------------------- MODULE NegotiationLaws --------------------------
(***************************************************************************)
(* What the choices of Negotiation have to satisfy for every pair of       *)
(* configurations: they are compared with definitions that say which       *)
(* choice is right, and with what the other end then does with the choice. *)
(* A state is one encounter of a client, a server and a server name.       *)
(***************************************************************************)
EXTENDS Negotiation, FiniteSets

CONSTANTS
  ClientConfigs,  \* configurations of clients
  ServerConfigs   \* configurations of servers

(***************************************************************************)
(* The versions of a configuration are numbers and its suites names, known *)
(* to the program or not; its curves are those of CurveID, as the key      *)
(* exchange demands; its certificates carry one of the keys that sign, and *)
(* each name has at least one label (strings.Split never returns none).    *)
(***************************************************************************)
Certificates ==
  [key : {"rsa", "P256", "P384", "P521"}, decrypts : BOOLEAN, names : SUBSET (Seq(STRING) \ {<<>>}), issuer : STRING]

SignatureSchemes == {"pss", "pkcs1", "ecdsa"} \X Nat

ASSUME ConfigsAssumption ==
  /\ None \notin Nat \cup ToSet(DefaultCurves) \cup Seq(STRING) \cup SignatureSchemes
  /\ None \notin [curve : ToSet(DefaultCurves), sig : SignatureSchemes]
  /\ None \notin ServerConfigs
  /\ \A c \in ClientConfigs \cup ServerConfigs :
       /\ c.minVersion \in Nat \cup {None} /\ c.maxVersion \in Nat \cup {None}
       /\ c.cipherSuites \in Seq(STRING) \cup {None}
       /\ c.curves \in Seq(ToSet(DefaultCurves))
       /\ c.certs \in Seq(Certificates)
  /\ \A c \in ClientConfigs : c.server \in [name : Seq(STRING), isIP : BOOLEAN]
  /\ \A c \in ServerConfigs :
       c.preferServer \in BOOLEAN /\ c.nameToCertificate \in {None, BuildNameToCertificate(c.certs)}

VARIABLES client, server

LawsInit == client \in ClientConfigs /\ server = None

\* The client meets a server.
LawsNext == server = None /\ server' \in ServerConfigs /\ UNCHANGED client

LawsSpec == LawsInit /\ [][LawsNext]_<<client, server>>

----------------------------------------------------------------------------
hello == MakeClientHello(client)
vers == MutualVersion(server, FALSE, ClientVersions(hello))
cert == GetCertificate(server, hello.serverName)
suite == PickCipherSuite(vers, server, hello, cert)

Encounter == server # None /\ hello # None /\ cert # None

(***************************************************************************)
(* The server picks the highest version both ends support, the client      *)
(* agrees that it may, and there is none only if none is common            *)
(* (mutualVersion, pickTLSVersion).                                        *)
(***************************************************************************)
BestVersion ==
  server # None /\ hello # None =>
    LET common == ToSet(SupportedVersions(client, TRUE)) \cap ToSet(SupportedVersions(server, FALSE))
    IN  IF common = {} THEN vers = None
        ELSE vers = Max(common) /\ MutualVersion(client, TRUE, <<vers>>) = vers

(***************************************************************************)
(* A suite the server picks is one the client offered and one that both    *)
(* ends can carry out: the server finds a curve and a signature algorithm  *)
(* for it, and the client accepts them.  setCipherSuite looks at the keys  *)
(* and curves before the key exchange needs them.                          *)
(***************************************************************************)
SuiteWorks ==
  Encounter /\ vers \notin {None, VersionTLS13} /\ suite # None =>
    /\ MutualCipherSuite(hello.cipherSuites, suite) = suite
    /\ suite \in suiteECDHE =>
         LET skx == KeyExchange(suite, vers, server, hello, cert)
         IN  skx # None /\ AcceptsKeyExchange(suite, vers, hello, cert, skx)

(***************************************************************************)
(* A suite is found whenever the two ends have one that fits the version,  *)
(* the curves and the certificate, and it is the most preferred of those,  *)
(* in the order PreferServerCipherSuites names (pickCipherSuite).          *)
(***************************************************************************)
SuitePreferred ==
  Encounter /\ vers \notin {None, VersionTLS13} =>
    LET fits == {s \in ToSet(ConfigSuites(client)) \cap ToSet(ConfigSuites(server)) \cap ToSet(CipherSuites) :
                   /\ vers < VersionTLS12 => s \notin suiteTLS12
                   /\ s \in suiteRSAKA => cert.key = "rsa" /\ cert.decrypts
                   /\ s \in suiteECDHE => ToSet(CurvePreferences(client)) \cap ToSet(CurvePreferences(server)) # {}
                   /\ s \in suiteECDHE => (cert.key = "rsa" <=> s \notin suiteECDSA)}
        order == IF server.preferServer THEN ConfigSuites(server) ELSE ConfigSuites(client)
        rank(s) == CHOOSE i \in DOMAIN order : order[i] = s /\ \A j \in 1 .. i - 1 : order[j] # s
    IN  IF fits = {} THEN suite = None
        ELSE suite \in fits /\ \A s \in fits : rank(suite) <= rank(s)

(***************************************************************************)
(* The certificate is one for the name if the server has one: with exactly *)
(* that name, or else with the fewest labels replaced by wildcards         *)
(* (getCertificate, BuildNameToCertificate).                               *)
(***************************************************************************)
Covers(pattern, name) ==
  /\ Len(pattern) = Len(name)
  /\ \E n \in 0 .. Len(name) : pattern = Wildcard(name, n)
Stars(pattern) == Cardinality({i \in DOMAIN pattern : pattern[i] = "*"})

CertificateForName ==
  Encounter /\ server.nameToCertificate # None =>
    LET patterns == {p \in UNION {c.names : c \in ToSet(server.certs)} : Covers(p, hello.serverName)}
    IN  patterns # {} =>
          \E p \in patterns : p \in cert.names /\ \A q \in patterns : Stars(p) <= Stars(q)

(***************************************************************************)
(* What the two ends settle on is the best they have in common: the        *)
(* version, a suite that both can carry out and that no other common one   *)
(* is preferred to, and the certificate.                                   *)
(***************************************************************************)
NegotiatesBest == BestVersion /\ SuiteWorks /\ SuitePreferred /\ CertificateForName
=============================================================================
