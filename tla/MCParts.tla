------------------------------- MODULE MCParts -------------------------------
(***************************************************************************)
(* The parts of the program that share no state, each explored on its own: *)
(* a behaviour picks one of them and the others stay where they start.     *)
(***************************************************************************)
EXTENDS NegotiationLaws, SessionCache, TicketKeys, StartUp, Accounts, XmlEncoder

VARIABLE part  \* the part this behaviour is about

Parts == {"negotiation", "cache", "keys", "start", "accounts", "xml"}

laws == <<client, server>>

----------------------------------------------------------------------------
(***************************************************************************)
(* Configurations that meet.                                               *)
(***************************************************************************)
CertFor(kind, decrypts, names) == [key |-> kind, decrypts |-> decrypts, names |-> names, issuer |-> "ca"]

rsaCert   == CertFor("rsa", TRUE, {<<"a", "x">>})
rsaSigner == CertFor("rsa", FALSE, {<<"*", "x">>})
ecCert    == CertFor("P256", FALSE, {<<"b", "x">>, <<"*", "*">>})

Host(name) == [name |-> name, isIP |-> FALSE]

Bounds == {<<None, None>>, <<VersionTLS11, None>>, <<None, VersionTLS11>>, <<VersionTLS12, VersionTLS12>>}
SuiteLists == {None, <<"RSA_AES128_CBC", "ECDHE_RSA_AES128_CBC">>,
               <<"ECDHE_ECDSA_AES128_GCM", "ECDHE_RSA_AES128_GCM", "RSA_AES128_CBC">>}

MCClientConfigs ==
  {[minVersion |-> b[1], maxVersion |-> b[2], cipherSuites |-> s, curves |-> cu, protos |-> <<>>,
    server |-> h, certs |-> ce] :
     b \in Bounds, s \in SuiteLists, cu \in {<<>>, <<"P521">>},
     h \in {Host(<<"a", "x">>), Host(<<"c", "x">>), Host(<<"b", "y">>), [name |-> <<"a">>, isIP |-> TRUE]},
     ce \in {<<>>, <<rsaCert>>}}

MCServerConfigs ==
  {[minVersion |-> b[1], maxVersion |-> b[2], cipherSuites |-> s, curves |-> cu, preferServer |-> p,
    certs |-> ce, nameToCertificate |-> IF Len(ce) = 1 THEN None ELSE BuildNameToCertificate(ce)] :
     b \in Bounds, s \in SuiteLists, cu \in {<<>>, <<"X25519", "P256">>}, p \in BOOLEAN,
     ce \in {<<rsaCert>>, <<rsaSigner>>, <<ecCert>>, <<rsaSigner, ecCert, rsaCert>>}}

----------------------------------------------------------------------------
Init ==
  /\ part \in Parts
  /\ IF part = "negotiation" THEN LawsInit ELSE client = None /\ server = None
  /\ CacheInit
  /\ KeysInit
  /\ part # "keys" => disabled = [c \in Configs |-> TRUE] /\ given = [c \in Configs |-> None]
  /\ StartInit
  /\ part # "start" => toml = "none" /\ dir = None /\ ~root
  /\ AccountsInit
  /\ part # "accounts" => users = [n \in Users |-> None]
  /\ XmlInit
  /\ part # "xml" => patient

Next ==
  /\ UNCHANGED part
  /\ \/ part = "negotiation" /\ LawsNext
     \/ part # "negotiation" /\ UNCHANGED laws
  /\ \/ part = "cache" /\ CacheNext
     \/ part # "cache" /\ UNCHANGED cacheVars
  /\ \/ part = "keys" /\ KeysNext
     \/ part # "keys" /\ UNCHANGED keysVars
  /\ \/ part = "start" /\ StartNext
     \/ part # "start" /\ UNCHANGED startVars
  /\ \/ part = "accounts" /\ AccountsNext
     \/ part # "accounts" /\ UNCHANGED accountVars
  /\ \/ part = "xml" /\ XmlNext
     \/ part # "xml" /\ UNCHANGED xmlVars

Spec == Init /\ [][Next]_<<part, laws, cacheVars, keysVars, startVars, accountVars, xmlVars>>
=============================================================================
