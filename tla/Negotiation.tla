---------------------------- MODULE Negotiation ----------------------------
(***************************************************************************)
(* What two ends of a TLS connection choose from what each of them offers: *)
(* the version, the cipher suite, the certificate, the curve, the signature*)
(* algorithm and the application protocol.  These are the pure functions   *)
(* of src/tls (common.go, cipher_suites.go, auth.go and the helpers of the *)
(* handshakes); the handshake modules call them where the code does.       *)
(*                                                                         *)
(* A certificate is a record: its key ("rsa" or a curve), whether the key  *)
(* also decrypts, the names it is for, its issuer.  A signature scheme is  *)
(* a pair of signature type and hash.  None stands for nil and for zero.   *)
(***************************************************************************)
EXTENDS Lists

CONSTANT Tls13  \* the program opted into TLS 1.3 (GODEBUG=tls13=1)

ASSUME Tls13Assumption == Tls13 \in BOOLEAN

VersionSSL30 == 768
VersionTLS10 == 769
VersionTLS11 == 770
VersionTLS12 == 771
VersionTLS13 == 772

----------------------------------------------------------------------------
(***************************************************************************)
(* Versions.                                                               *)
(***************************************************************************)
AllVersions ==
  <<VersionTLS13, VersionTLS12, VersionTLS11, VersionTLS10, VersionSSL30>>

SupportedVersions(c, isClient) ==
  Among(AllVersions, {v \in ToSet(AllVersions) :
    /\ c.minVersion # None => v >= c.minVersion
    /\ c.maxVersion # None => v <= c.maxVersion
    /\ isClient => v >= VersionTLS10
    /\ v = VersionTLS13 => Tls13})

SupportedVersionsFromMax(max) == Among(AllVersions, {v \in ToSet(AllVersions) : v <= max})

\* Faulty: our own order instead of the peer's.
MutualVersionLowest(c, isClient, peerVersions) ==
  FirstIn(Reverse(SupportedVersions(c, isClient)), ToSet(peerVersions))

MutualVersion(c, isClient, peerVersions) ==
  FirstIn(peerVersions, ToSet(SupportedVersions(c, isClient)))

\* The versions a ClientHello offers: the extension, or all up to the legacy field.
ClientVersions(hello) ==
  IF hello.supportedVersions = <<>> THEN SupportedVersionsFromMax(hello.vers)
  ELSE hello.supportedVersions

----------------------------------------------------------------------------
(***************************************************************************)
(* Cipher suites.  A suite is named after its key exchange, its signature, *)
(* its cipher and its MAC; SuiteFlags holds what the flags of the table    *)
(* say.                                                                    *)
(***************************************************************************)
CipherSuites == <<
  "ECDHE_RSA_CHACHA20", "ECDHE_ECDSA_CHACHA20", "ECDHE_RSA_AES128_GCM", "ECDHE_ECDSA_AES128_GCM",
  "ECDHE_RSA_AES256_GCM", "ECDHE_ECDSA_AES256_GCM", "ECDHE_RSA_AES128_CBC_SHA256", "ECDHE_RSA_AES128_CBC",
  "ECDHE_ECDSA_AES128_CBC_SHA256", "ECDHE_ECDSA_AES128_CBC", "ECDHE_RSA_AES256_CBC", "ECDHE_ECDSA_AES256_CBC",
  "RSA_AES128_GCM", "RSA_AES256_GCM", "RSA_AES128_CBC_SHA256", "RSA_AES128_CBC", "RSA_AES256_CBC",
  "ECDHE_RSA_3DES", "RSA_3DES", "RSA_RC4", "ECDHE_RSA_RC4", "ECDHE_ECDSA_RC4">>

suiteDefaultOff == {"ECDHE_RSA_AES128_CBC_SHA256", "ECDHE_ECDSA_AES128_CBC_SHA256", "RSA_AES128_CBC_SHA256",
                    "RSA_RC4", "ECDHE_RSA_RC4", "ECDHE_ECDSA_RC4"}
suiteECDSA == {"ECDHE_ECDSA_CHACHA20", "ECDHE_ECDSA_AES128_GCM", "ECDHE_ECDSA_AES256_GCM",
               "ECDHE_ECDSA_AES128_CBC_SHA256", "ECDHE_ECDSA_AES128_CBC", "ECDHE_ECDSA_AES256_CBC",
               "ECDHE_ECDSA_RC4"}
suiteRSAKA == {"RSA_AES128_GCM", "RSA_AES256_GCM", "RSA_AES128_CBC_SHA256", "RSA_AES128_CBC",
               "RSA_AES256_CBC", "RSA_3DES", "RSA_RC4"}
suiteECDHE == ToSet(CipherSuites) \ suiteRSAKA
suiteSHA384 == {"ECDHE_RSA_AES256_GCM", "ECDHE_ECDSA_AES256_GCM", "RSA_AES256_GCM"}
suiteTLS12 == suiteSHA384 \cup
  {"ECDHE_RSA_CHACHA20", "ECDHE_ECDSA_CHACHA20", "ECDHE_RSA_AES128_GCM", "ECDHE_ECDSA_AES128_GCM",
   "ECDHE_RSA_AES128_CBC_SHA256", "ECDHE_ECDSA_AES128_CBC_SHA256", "RSA_AES128_GCM", "RSA_AES128_CBC_SHA256"}

CipherSuitesTLS13 == <<"AES128_GCM_SHA256", "CHACHA20_SHA256", "AES256_GCM_SHA384">>

HashTLS13(suite) == IF suite = "AES256_GCM_SHA384" THEN 384 ELSE 256

\* Without the assembler implementations of GCM, ChaCha20 comes first.
DefaultCipherSuites ==
  LET top == <<"ECDHE_RSA_CHACHA20", "ECDHE_ECDSA_CHACHA20", "ECDHE_RSA_AES128_GCM",
               "ECDHE_RSA_AES256_GCM", "ECDHE_ECDSA_AES128_GCM", "ECDHE_ECDSA_AES256_GCM">>
  IN  top \o Among(CipherSuites, ToSet(CipherSuites) \ (ToSet(top) \cup suiteDefaultOff))

DefaultCipherSuitesTLS13 == <<"CHACHA20_SHA256", "AES128_GCM_SHA256", "AES256_GCM_SHA384">>

ConfigSuites(c) == IF c.cipherSuites = None THEN DefaultCipherSuites ELSE c.cipherSuites

\* The suites of a ClientHello with the legacy version vers.
AdvertisedSuites(c, vers) ==
  Among(ConfigSuites(c), {s \in ToSet(CipherSuites) : s \in suiteTLS12 => vers >= VersionTLS12})

MutualCipherSuite(have, want) == IF want \in ToSet(have) \cap ToSet(CipherSuites) THEN want ELSE None

\* The hash of the pseudorandom function of a version and suite up to TLS 1.2.
PrfForVersion(vers, suite) ==
  CASE vers = VersionSSL30 -> "prf30"
    [] vers \in {VersionTLS10, VersionTLS11} -> "prf10"
    [] vers = VersionTLS12 -> IF suite \in suiteSHA384 THEN "sha384" ELSE "sha256"

----------------------------------------------------------------------------
(***************************************************************************)
(* Curves, keys and signatures.                                            *)
(***************************************************************************)
DefaultCurves == <<"X25519", "P256", "P384", "P521">>

CurvePreferences(c) == IF c.curves = <<>> THEN DefaultCurves ELSE c.curves

MutualCurve(c, offered) == FirstIn(CurvePreferences(c), ToSet(offered))

IsECDSA(key) == key \in {"P256", "P384", "P521"}

SupportedSignatureAlgorithms ==
  << <<"pss", 256>>, <<"pss", 384>>, <<"pss", 512>>, <<"pkcs1", 256>>, <<"ecdsa", 256>>, <<"pkcs1", 384>>,
     <<"ecdsa", 384>>, <<"pkcs1", 512>>, <<"ecdsa", 512>>, <<"pkcs1", 1>>, <<"ecdsa", 1>> >>

\* RSA-PSS is disabled in TLS 1.2.
SupportedSignatureAlgorithmsTLS12 == SubSeq(SupportedSignatureAlgorithms, 4, 11)

SignsWith(key, scheme) == IF IsECDSA(key) THEN scheme[1] = "ecdsa" ELSE scheme[1] \in {"pkcs1", "pss"}

\* Hash 0 stands for MD5 and SHA1 together, what RSA signs before TLS 1.2.
PickSignatureAlgorithm(key, peer, ours, vers) ==
  IF vers < VersionTLS12 \/ peer = <<>>
  THEN IF IsECDSA(key) THEN <<"ecdsa", 1>> ELSE <<"pkcs1", IF vers < VersionTLS12 THEN 0 ELSE 1>>
  ELSE FirstIn(peer, {s \in ToSet(ours) : SignsWith(key, s)})

SignatureSchemesForCertificate(vers, key) ==
  CASE ~IsECDSA(key) /\ vers # VersionTLS13 -> {"pss", "pkcs1"} \X {256, 384, 512} \cup {<<"pkcs1", 1>>}
    [] ~IsECDSA(key) /\ vers = VersionTLS13 -> {"pss"} \X {256, 384, 512}
    [] IsECDSA(key) /\ vers # VersionTLS13 -> {"ecdsa"} \X {256, 384, 512, 1}
    [] IsECDSA(key) /\ vers = VersionTLS13 ->
         {<<"ecdsa", CASE key = "P256" -> 256 [] key = "P384" -> 384 [] key = "P521" -> 512>>}

\* The server may answer with this suite: setCipherSuite of the TLS 1.2 server.
EllipticOk(c, hello) == MutualCurve(c, hello.supportedCurves) # None

CanUseSuite(id, supported, vers, c, hello, cert) ==
  /\ id \in ToSet(supported) \cap ToSet(CipherSuites)
  /\ IF id \in suiteECDHE
     THEN EllipticOk(c, hello) /\ (id \in suiteECDSA <=> IsECDSA(cert.key))
     ELSE ~IsECDSA(cert.key) /\ cert.decrypts
  /\ id \in suiteTLS12 => vers >= VersionTLS12

PickCipherSuite(vers, c, hello, cert) ==
  LET ours       == ConfigSuites(c)
      preference == IF c.preferServer THEN ours ELSE hello.cipherSuites
      supported  == IF c.preferServer THEN hello.cipherSuites ELSE ours
  IN  FirstIn(preference, {id \in ToSet(preference) : CanUseSuite(id, supported, vers, c, hello, cert)})

\* The server key exchange of a suite that the server signs: None when it cannot be made.
KeyExchange(suite, vers, c, hello, cert) ==
  LET curve == MutualCurve(c, hello.supportedCurves)
      sig   == PickSignatureAlgorithm(cert.key, hello.supportedSignatureAlgorithms,
                                      SupportedSignatureAlgorithmsTLS12, vers)
  IN  IF curve \notin ToSet(DefaultCurves) \/ sig = None \/ (suite \in suiteECDSA) # IsECDSA(cert.key) THEN None
      ELSE [curve |-> curve, sig |-> sig]

\* The client accepts the parameters and the scheme of the signature.
AcceptsKeyExchange(suite, vers, hello, cert, skx) ==
  /\ skx.curve \in ToSet(DefaultCurves)
  /\ PickSignatureAlgorithm(cert.key, <<skx.sig>>, hello.supportedSignatureAlgorithms, vers) # None
  /\ (suite \in suiteECDSA) = IsECDSA(cert.key)

----------------------------------------------------------------------------
(***************************************************************************)
(* Protocols and certificates.  A name is the sequence of its labels, in   *)
(* lower case and without final dots.                                      *)
(***************************************************************************)
MutualProtocol(protos, preference) == FirstIn(preference, ToSet(protos))

Wildcard(name, n) == [i \in DOMAIN name |-> IF i <= n THEN "*" ELSE name[i]]

BuildNameToCertificate(certs) ==
  [n \in UNION {certs[i].names : i \in DOMAIN certs} |->
     certs[SelectLastInSeq(certs, LAMBDA cert : n \in cert.names)]]

GetCertificate(c, name) ==
  LET byName  == c.nameToCertificate
      labels  == IF name = <<>> THEN <<"">> ELSE name
      pattern == FirstIn([n \in 1 .. Len(labels) + 1 |-> Wildcard(labels, n - 1)], DOMAIN byName)
  IN  IF c.certs = <<>> THEN None
      ELSE IF Len(c.certs) = 1 \/ byName = None \/ pattern = None THEN c.certs[1]
      ELSE byName[pattern]

\* A literal address is not sent as a server name.
HostnameInSNI(server) == IF server.isIP THEN <<>> ELSE server.name

RequiresClientCert(auth) == auth \in {"RequireAny", "RequireAndVerify"}
VerifiesClientCert(auth) == auth \in {"VerifyIfGiven", "RequireAndVerify"}

\* The certificate request of the server up to TLS 1.2, as the client sees its schemes.
RequestedSchemes(vers) ==
  IF vers >= VersionTLS12 THEN SupportedSignatureAlgorithmsTLS12
  ELSE << <<"ecdsa", 256>>, <<"ecdsa", 384>>, <<"ecdsa", 512>>,
          <<"pkcs1", 256>>, <<"pkcs1", 384>>, <<"pkcs1", 512>>, <<"pkcs1", 1>> >>

GetClientCertificate(c, vers, schemes, acceptableCAs) ==
  LET fits(cert) == /\ SignatureSchemesForCertificate(vers, cert.key) \cap ToSet(schemes) # {}
                    /\ acceptableCAs # {} => cert.issuer \in acceptableCAs
      i == SelectInSeq(c.certs, fits)
  IN  IF i = 0 THEN None ELSE c.certs[i]
----------------------------------------------------------------------------
(***************************************************************************)
(* The ClientHello of a configuration, without its random values and the   *)
(* session it may offer; None when no version is left.  Compression, point *)
(* formats, OCSP and SCT requests and secure renegotiation are the same in *)
(* every ClientHello of this code.  Next protocol negotiation is left out: *)
(* a client that offers it offers ALPN as well, which the server prefers.  *)
(***************************************************************************)
MakeClientHello(c) ==
  LET versions == SupportedVersions(c, TRUE)
      legacy   == IF versions[1] > VersionTLS12 THEN VersionTLS12 ELSE versions[1]
      tls13    == versions[1] = VersionTLS13
  IN  IF versions = <<>> THEN None ELSE
      [vers |-> legacy,
       supportedVersions |-> versions,
       cipherSuites |-> AdvertisedSuites(c, legacy) \o (IF tls13 THEN DefaultCipherSuitesTLS13 ELSE <<>>),
       supportedCurves |-> CurvePreferences(c),
       supportedSignatureAlgorithms |-> IF legacy >= VersionTLS12 THEN SupportedSignatureAlgorithms ELSE <<>>,
       alpnProtocols |-> c.protos,
       serverName |-> HostnameInSNI(c.server),
       keyShares |-> IF tls13 THEN <<CurvePreferences(c)[1]>> ELSE <<>>]
============================================================================
