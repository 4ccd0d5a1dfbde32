--------------------------- MODULE DeviceIdentity ---------------------------
(* Who an ingest request is from (auth/device_identity.rs), as a function of *)
(* the request, the configuration and the CRL cache; and by which keys the   *)
(* limiters count it (middleware/rate_limit.rs).                             *)
EXTENDS CrlCache

CONSTANTS
  Nobody,   \* no certificate, no header, no identity
  Unknown   \* the "__unknown__" key of the limiters

ASSUME NobodyAssumption == Nobody # "ClientCertificate"

\* parse_san_uri and extract_identity_from_leaf: the first SAN URI of the
\* configured scheme with exactly a tenant and a device.  A URI is its scheme
\* and the parts between its slashes.
StripSlash(parts) == IF Len(parts) > 2 /\ parts[Len(parts)] = ""
                     THEN SubSeq(parts, 1, Len(parts) - 1) ELSE parts
ParseSanUri(uri) ==
  LET parts == StripSlash(uri.parts) IN
  IF uri.scheme = "device" /\ Len(parts) = 2 /\ parts[1] # "" /\ parts[2] # ""
  THEN parts[2] ELSE Nobody
FromLeaf(cert) ==
  LET hits == {i \in 1..Len(cert.uris) : ParseSanUri(cert.uris[i]) # Nobody} IN
  IF hits = {} THEN Nobody
  ELSE ParseSanUri(cert.uris[CHOOSE i \in hits : \A j \in hits : i <= j])

\* decode_peer_cert_header: PEM, base64 of PEM or DER, or percent-encoded PEM;
\* anything else is no certificate.
Decode(header) == IF header = Nobody \/ header.form = "garbage" THEN Nobody ELSE header.cert

Identity(device, source, cert) ==
  [answer |-> "ok", device |-> device, source |-> source, cert |-> cert]
Rejected(status) == [answer |-> status, device |-> Nobody, source |-> Nobody, cert |-> Nobody]

\* validate_cert_against_ca_bundle, which is skipped without a bundle: the
\* certificate is in its validity period and an anchor of the bundle signed it.
ValidateCert(cert, cfg) == cfg.bundle => cert.trusted

\* First source: the proxy's header, from a peer in the trusted range, with a
\* certificate that chains to the CA bundle when there is one.
HeaderPath(r, cfg) ==
  IF cfg.mode # "header" \/ ~cfg.gated \/ ~r.viaProxy \/ Decode(r.certHeader) = Nobody THEN Nobody
  ELSE IF ~ValidateCert(Decode(r.certHeader), cfg) THEN Nobody
  ELSE FromLeaf(Decode(r.certHeader))

\* check_revocation
CheckRevocation(cert, failOpen) ==
  LET status == RevocationStatus(cert.serial) IN
  IF urls = <<>> THEN "accept"
  ELSE IF status = "Revoked" THEN "401"
  ELSE IF status = "Unknown" /\ ~failOpen THEN "503" ELSE "accept"

\* Last source: the X-Device-Id header, unless certificates are required.
DeviceHeader(r, cfg) ==
  IF cfg.require THEN Rejected("401")
  ELSE IF r.deviceHeader = Nobody THEN Rejected("401")
  ELSE IF r.deviceHeader = "invalid" THEN Rejected("400")
  ELSE Identity(r.deviceHeader, "HeaderTemp", Nobody)

\* DeviceIdentity::from_request_parts
FromRequestParts(r, cfg, failOpen) ==
  LET viaHeader == HeaderPath(r, cfg)
      leaf == IF cfg.mode = "tls" THEN r.tlsCert ELSE Nobody
  IN  IF viaHeader # Nobody THEN Identity(viaHeader, "PeerCertHeader", r.certHeader.cert)
      ELSE IF leaf # Nobody /\ CheckRevocation(leaf, failOpen) # "accept"
           THEN Rejected(CheckRevocation(leaf, failOpen))
      ELSE IF leaf # Nobody /\ FromLeaf(leaf) # Nobody
           THEN Identity(FromLeaf(leaf), "ClientCertificate", leaf)
      ELSE DeviceHeader(r, cfg)

\* resolve_device_id: the TLS certificate, the header, or the shared key.
ResolveDeviceId(r, cfg) ==
  LET leaf == IF cfg.mode = "tls" THEN r.tlsCert ELSE Nobody IN
  IF leaf # Nobody /\ FromLeaf(leaf) # Nobody THEN FromLeaf(leaf)
  ELSE IF r.deviceHeader \notin {Nobody, "invalid"} THEN r.deviceHeader
  ELSE Unknown

\* extract_ip: serve_tls passes no peer address on, so there only a forwarded
\* address is left; otherwise that counts when it comes from a trusted proxy.
ExtractIp(r, cfg, trustsProxy) ==
  IF cfg.mode = "tls" THEN (IF r.forwarded # Nobody THEN r.forwarded ELSE Unknown)
  ELSE IF trustsProxy /\ r.viaProxy /\ r.forwarded # Nobody THEN r.forwarded
  ELSE r.peer
=============================================================================
