-------------------------- MODULE MCTlsHandshake13 --------------------------
(***************************************************************************)
(* Instances of the handshake of TLS 1.3.                                  *)
(***************************************************************************)
EXTENDS TlsHandshake13, MCConfigs

onlyP384 == [ServerOf(<<rsaCert>>) EXCEPT !.curves = <<"P384">>]

\* Resumption while the policy for client certificates, the server's curves
\* and the client's checks change in between.
ClientsResuming == {plainClient, ClientOf(<<aliceRsa>>), [plainClient EXCEPT !.insecure = TRUE]}
ServersResuming ==
  {onlyP384, Demanding("VerifyIfGiven", {"users"}), Demanding("RequireAny", {}),
   ServerOf(<<[rsaCert EXCEPT !.issuer = "self"]>>)}

\* Every kind of configuration, once.
ClientsMixed ==
  {plainClient, alice, ClientOf(<<aliceRsa>>),
   [plainClient EXCEPT !.insecure = TRUE, !.server = [name |-> <<>>, isIP |-> FALSE], !.protos = <<"r">>],
   [plainClient EXCEPT !.curves = <<"P256", "P384">>, !.tickets = FALSE, !.protos = <<>>],
   [plainClient EXCEPT !.roots = {}],
   [plainClient EXCEPT !.server = [name |-> <<"other">>, isIP |-> FALSE]],
   [plainClient EXCEPT !.server = [name |-> <<>>, isIP |-> FALSE]]}

ServersMixed ==
  {ServerOf(<<rsaCert>>), ServerOf(<<stapled>>), ServerOf(<<>>), onlyP384,
   [ServerOf(<<otherCert, rsaCert>>) EXCEPT !.nameToCertificate = BuildNameToCertificate(<<otherCert, rsaCert>>)],
   [ServerOf(<<rsaCert>>) EXCEPT !.tickets = FALSE, !.curves = <<"P521", "P256">>, !.preferServer = TRUE],
   Demanding("RequireAny", {}), Demanding("RequestClientCert", {"users"}),
   Demanding("VerifyIfGiven", {"strangers"}), Demanding("RequireAndVerify", {"users"})}

\* One client, a server that retries and asks for certificates, one that does not.
ClientsOne == {ClientOf(<<aliceRsa>>)}
ServersOne == {[Demanding("VerifyIfGiven", {"users"}) EXCEPT !.curves = <<"P384">>]}
ServersTwo == ServersOne \cup {ServerOf(<<rsaCert>>)}

\* Every pair once; three connections of one client to two servers with faults;
\* three connections each with other configurations, keys and a later clock.
MCPlans ==
  {Plan(ClientsMixed, ServersMixed, 1, 0, 1, 0),
   Plan(ClientsOne, ServersTwo, 3, 2, 2, 0),
   Plan(ClientsResuming, ServersResuming, 3, 0, 1, 2)}

\* The clients that reconnect have the same roots, as AuthenticServer asks.
ASSUME RootsAssumption == SameRoots
============================================================================
