----------------------------- MODULE MCConfigs -----------------------------
(***************************************************************************)
(* Configurations of TLS ends for TLC: a server with an RSA certificate as *)
(* the program has it (main.go), servers that ask for client certificates, *)
(* an ECDSA server, clients with and without a certificate.                *)
(***************************************************************************)
EXTENDS Negotiation

Cert(key, names, issuer, notAfter) ==
  [key |-> key, decrypts |-> key = "rsa", names |-> names, issuer |-> issuer,
   notAfter |-> notAfter, staple |-> FALSE]

chat == <<"chat", "example">>

rsaCert   == Cert("rsa", {chat}, "CA", 1)
stapled   == [Cert("P256", {<<"*", "example">>}, "CA", 1) EXCEPT !.staple = TRUE]
otherCert == Cert("rsa", {<<"other">>}, "CA", 1)
aliceRsa  == Cert("rsa", {<<"alice">>}, "users", 0)
aliceEC   == Cert("P256", {<<"alice">>}, "strangers", 1)

ServerOf(certs) ==
  [minVersion |-> None, maxVersion |-> None, cipherSuites |-> None, curves |-> <<>>, preferServer |-> FALSE,
   protos |-> <<"p", "q">>, certs |-> certs, nameToCertificate |-> None,
   tickets |-> TRUE, clientAuth |-> "NoClientCert", clientCAs |-> {}]

Demanding(auth, cas) == [ServerOf(<<rsaCert>>) EXCEPT !.clientAuth = auth, !.clientCAs = cas]

ClientOf(certs) ==
  [minVersion |-> None, maxVersion |-> None, cipherSuites |-> None, curves |-> <<>>,
   protos |-> <<"q">>, certs |-> certs, server |-> [name |-> chat, isIP |-> FALSE],
   insecure |-> FALSE, roots |-> {"CA"}, tickets |-> TRUE]

plainClient == ClientOf(<<>>)
oldClient   == [ClientOf(<<>>) EXCEPT !.maxVersion = VersionTLS11, !.protos = <<>>, !.tickets = FALSE]
alice       == ClientOf(<<aliceEC, aliceRsa>>)
============================================================================
