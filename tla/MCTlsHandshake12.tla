-------------------------- MODULE MCTlsHandshake12 --------------------------
(***************************************************************************)
(* Instances of the handshake of TLS 1.2.                                  *)
(***************************************************************************)
EXTENDS TlsHandshake12, MCConfigs

\* Resumption while the policy for client certificates, the server's versions
\* and the client's checks change in between.
ClientsResuming ==
  {plainClient, ClientOf(<<aliceRsa>>), [plainClient EXCEPT !.insecure = TRUE],
   [plainClient EXCEPT !.server = [name |-> <<"chat", "sub">>, isIP |-> FALSE], !.insecure = TRUE]}
ServersResuming ==
  {ServerOf(<<rsaCert>>), Demanding("VerifyIfGiven", {"users"}), Demanding("RequireAny", {}),
   [ServerOf(<<rsaCert>>) EXCEPT !.maxVersion = VersionTLS11],
   ServerOf(<<[rsaCert EXCEPT !.issuer = "self"]>>)}

\* Every kind of configuration, once.
ClientsMixed ==
  {plainClient, oldClient, alice,
   [plainClient EXCEPT !.insecure = TRUE, !.server = [name |-> <<>>, isIP |-> FALSE], !.protos = <<"r">>],
   [plainClient EXCEPT !.cipherSuites = <<"RSA_AES128_CBC", "ECDHE_ECDSA_AES128_GCM">>],
   [plainClient EXCEPT !.curves = <<"P384">>, !.roots = {}],
   [plainClient EXCEPT !.minVersion = VersionTLS12, !.server = [name |-> <<"other">>, isIP |-> FALSE]],
   [plainClient EXCEPT !.server = [name |-> <<>>, isIP |-> FALSE]],
   [plainClient EXCEPT !.minVersion = VersionTLS12, !.maxVersion = VersionTLS11]}

ServersMixed ==
  {ServerOf(<<rsaCert>>), ServerOf(<<stapled>>), ServerOf(<<>>),
   [ServerOf(<<otherCert, rsaCert>>) EXCEPT !.nameToCertificate = BuildNameToCertificate(<<otherCert, rsaCert>>)],
   [ServerOf(<<rsaCert>>) EXCEPT !.tickets = FALSE, !.curves = <<"P384">>, !.maxVersion = VersionTLS11],
   [ServerOf(<<rsaCert>>) EXCEPT !.preferServer = TRUE, !.cipherSuites = <<"RSA_AES128_GCM", "RSA_AES128_CBC">>],
   Demanding("RequireAny", {}), Demanding("RequestClientCert", {"users"}),
   Demanding("VerifyIfGiven", {"strangers"}), Demanding("RequireAndVerify", {"users"})}

\* One pair, with client certificates asked for and given.
ClientsOne == {ClientOf(<<aliceRsa>>)}
ServersOne == {Demanding("VerifyIfGiven", {"users"})}
ServersTwo == ServersOne \cup {[ServerOf(<<stapled>>) EXCEPT !.tickets = FALSE]}

\* Every pair once; three connections of one client to two servers with faults;
\* three connections each with other configurations, keys and a later clock.
MCPlans ==
  {Plan(ClientsMixed, ServersMixed, 1, 0, 1, 0),
   Plan(ClientsOne, ServersTwo, 3, 2, 2, 0),
   Plan(ClientsResuming, ServersResuming, 3, 0, 3, 2)}

\* The clients that reconnect have the same roots, as AuthenticServer asks.
ASSUME RootsAssumption == SameRoots
============================================================================
