---------------------------- MODULE Credentials ----------------------------
(***************************************************************************)
(* The signed contracts of misaka-core: who signs which fields, and what   *)
(* each verify accepts (identity.rs, enrollment.rs, gateway.rs,            *)
(* protocol.rs), and the text form of an Invite Code.                      *)
(*                                                                         *)
(* Ed25519 is ideal: a signature is the key and the bytes it was made      *)
(* over, and nobody makes one without the key.  Bytes are the projection   *)
(* of a contract on the fields its ...Unsigned view serialises, so two     *)
(* contracts have the same bytes iff they agree on those fields (bincode   *)
(* tags no type: that contracts of two types never have the same bytes is  *)
(* assumed).  Names, keys, nonces and times are positive numbers, a key    *)
(* pair and its public key are the same number; None is an absent Option.  *)
(***************************************************************************)
EXTENDS Integers, Sequences, SequencesExt

None == 0

Bytes(contract, fields) == [f \in fields |-> contract[f]]

\* Ed25519 as the code uses it.  A key that is no point of the curve (None)
\* verifies nothing.
Signature(key, message) == [by |-> key, over |-> message]

SisterPublicKey_verify(key, message, signature) ==
  /\ key # None
  /\ signature = Signature(key, message)

HumanPublicKey_verify(key, message, signature) ==
  /\ key # None
  /\ signature = Signature(key, message)

AuthorityPublicKey_verify(key, message, signature) ==
  /\ key # None
  /\ signature = Signature(key, message)

SisterKeyPair_sign(key, message) == Signature(key, message)

HumanKeyPair_sign(key, message) == Signature(key, message)

AuthorityKeyPair_sign(key, message) == Signature(key, message)

\* NetworkAuthority::generate: the public descriptor of a Network's trust root.
NetworkAuthority(network_id, key) ==
  [network_id |-> network_id, authority_public_key |-> key]

HumanIdentity(id, display_name, public_key) ==
  [id |-> id, display_name |-> display_name, public_key |-> public_key]

-----------------------------------------------------------------------------
(* Roles *)

Role == {"Owner", "Admin", "Operator"}

Permission ==
  {"NetworkInvite", "NetworkRevoke", "SisterInspect", "JobSubmit", "JobCancel",
   "FileSend", "TunnelOpen", "ShellOpen"}

\* Role::allows
Granted == [r \in Role |->
  CASE r = "Owner" -> Permission
    [] r = "Admin" -> {"NetworkInvite", "NetworkRevoke", "SisterInspect"}
    [] r = "Operator" -> Permission \ {"NetworkInvite", "NetworkRevoke"}]
Role_allows(role, permission) == permission \in Granted[role]

-----------------------------------------------------------------------------
(* Memberships and revocations, signed by the Network Authority *)

HumanMembershipCertificate_signing_bytes(c) ==
  Bytes(c, {"network_id", "human", "role", "issued_at", "expires_at", "serial"})

HumanMembershipCertificate_issue(authority, key, human, role, issued_at, expires_at, serial) ==
  LET c == [network_id |-> authority.network_id, human |-> human, role |-> role,
            issued_at |-> issued_at, expires_at |-> expires_at, serial |-> serial]
  IN  c @@ [authority_signature |->
              AuthorityKeyPair_sign(key, HumanMembershipCertificate_signing_bytes(c))]

HumanMembershipCertificate_verify(c, authority, now) ==
  /\ c.network_id = authority.network_id
  /\ c.expires_at # None => c.issued_at <= c.expires_at
  /\ c.issued_at <= now
  /\ c.expires_at # None => now <= c.expires_at
  /\ AuthorityPublicKey_verify(authority.authority_public_key,
       HumanMembershipCertificate_signing_bytes(c), c.authority_signature)

MembershipCertificate_signing_bytes(c) ==
  Bytes(c, {"network_id", "sister_public_key", "sister_id", "issued_at", "expires_at",
            "serial"})

MembershipCertificate_issue(authority, key, sister_public_key, sister_id, issued_at, expires_at, serial) ==
  LET c == [network_id |-> authority.network_id, sister_public_key |-> sister_public_key,
            sister_id |-> sister_id, issued_at |-> issued_at, expires_at |-> expires_at,
            serial |-> serial]
  IN  c @@ [authority_signature |->
              AuthorityKeyPair_sign(key, MembershipCertificate_signing_bytes(c))]

MembershipCertificate_verify(c, authority) ==
  /\ c.network_id = authority.network_id
  /\ AuthorityPublicKey_verify(authority.authority_public_key,
       MembershipCertificate_signing_bytes(c), c.authority_signature)

MembershipCertificate_is_valid_at(c, timestamp) ==
  /\ c.issued_at <= timestamp
  /\ c.expires_at # None => timestamp <= c.expires_at

MembershipKind == {"Sister", "Human"}

RevocationRecord_signing_bytes(r) ==
  Bytes(r, {"network_id", "membership_kind", "membership_serial", "revoked_at", "reason"})

RevocationRecord_issue(authority, key, kind, serial, revoked_at, reason) ==
  LET r == [network_id |-> authority.network_id, membership_kind |-> kind,
            membership_serial |-> serial, revoked_at |-> revoked_at, reason |-> reason]
  IN  r @@ [authority_signature |->
              AuthorityKeyPair_sign(key, RevocationRecord_signing_bytes(r))]

RevocationRecord_verify(r, authority) ==
  /\ r.network_id = authority.network_id
  /\ AuthorityPublicKey_verify(authority.authority_public_key,
       RevocationRecord_signing_bytes(r), r.authority_signature)

-----------------------------------------------------------------------------
(* What a human authorizes *)

\* Mutant: the signature does not cover the target.
CommandAuthorization_signing_bytes_untargeted(a) ==
  Bytes(a, {"network_id", "issuer", "membership", "role", "permission", "constraints",
            "issued_at", "expires_at", "nonce"})

CommandAuthorization_signing_bytes(a) ==
  Bytes(a, {"network_id", "issuer", "membership", "role", "permission", "target",
            "constraints", "issued_at", "expires_at", "nonce"})

CommandAuthorization_issue(fields, key) ==
  fields @@ [signature |->
               HumanKeyPair_sign(key, CommandAuthorization_signing_bytes(fields))]

CommandAuthorization_verify(a, authority, now) ==
  /\ a.network_id = authority.network_id
  /\ a.issued_at <= a.expires_at
  /\ a.issued_at <= now
  /\ now <= a.expires_at
  /\ Role_allows(a.role, a.permission)
  /\ a.membership.network_id = a.network_id
  /\ a.membership.role = a.role
  /\ a.membership.human = a.issuer
  /\ HumanMembershipCertificate_verify(a.membership, authority, now)
  /\ HumanPublicKey_verify(a.issuer.public_key,
       CommandAuthorization_signing_bytes(a), a.signature)

-----------------------------------------------------------------------------
(* What a Sister says of itself *)

TransportBinding_signing_bytes(b) ==
  Bytes(b, {"network_id", "sister_id", "sister_public_key", "iroh_endpoint_id", "sequence"})

TransportBinding_sign(network_id, sister_id, iroh_endpoint_id, sequence, key) ==
  LET b == [network_id |-> network_id, sister_id |-> sister_id, sister_public_key |-> key,
            iroh_endpoint_id |-> iroh_endpoint_id, sequence |-> sequence]
  IN  b @@ [signature_by_sister_key |->
              SisterKeyPair_sign(key, TransportBinding_signing_bytes(b))]

TransportBinding_verify(b) ==
  SisterPublicKey_verify(b.sister_public_key, TransportBinding_signing_bytes(b),
                         b.signature_by_sister_key)

PeerRecord_signing_bytes(r) ==
  Bytes(r, {"network_id", "sister_id", "sister_public_key", "endpoint_addr",
            "transport_binding", "sequence", "updated_at"})

PeerRecord_issue(network_id, sister_id, endpoint_addr, transport_binding, updated_at, key) ==
  LET r == [network_id |-> network_id, sister_id |-> sister_id, sister_public_key |-> key,
            endpoint_addr |-> endpoint_addr, transport_binding |-> transport_binding,
            sequence |-> transport_binding.sequence, updated_at |-> updated_at]
  IN  r @@ [sister_signature |-> SisterKeyPair_sign(key, PeerRecord_signing_bytes(r))]

PeerRecord_verify(r) ==
  /\ r.network_id = r.transport_binding.network_id
  /\ r.sister_id = r.transport_binding.sister_id
  /\ r.sister_public_key = r.transport_binding.sister_public_key
  /\ r.sequence = r.transport_binding.sequence
  /\ TransportBinding_verify(r.transport_binding)
  /\ SisterPublicKey_verify(r.sister_public_key, PeerRecord_signing_bytes(r),
                            r.sister_signature)

\* The first messages of an authenticated Iroh stream.
AUTH_SESSION_PROTOCOL_VERSION == 1

AuthenticatedClientHello_signing_bytes(h) ==
  Bytes(h, {"protocol_version", "network_id", "sister_id", "sister_public_key",
            "membership_certificate", "transport_binding", "nonce"})

AuthenticatedClientHello_sign(network_id, sister_id, public_key, membership, binding, nonce, key) ==
  LET h == [protocol_version |-> AUTH_SESSION_PROTOCOL_VERSION, network_id |-> network_id,
            sister_id |-> sister_id, sister_public_key |-> public_key,
            membership_certificate |-> membership, transport_binding |-> binding,
            nonce |-> nonce]
  IN  h @@ [signature |-> SisterKeyPair_sign(key, AuthenticatedClientHello_signing_bytes(h))]

AuthenticatedClientHello_verify_signature(h) ==
  SisterPublicKey_verify(h.sister_public_key, AuthenticatedClientHello_signing_bytes(h),
                         h.signature)

AuthenticatedServerHello_signing_bytes(h) ==
  Bytes(h, {"protocol_version", "network_id", "sister_id", "sister_public_key",
            "membership_certificate", "transport_binding", "client_nonce", "nonce"})

AuthenticatedServerHello_sign(network_id, sister_id, public_key, membership, binding, client_nonce, nonce, key) ==
  LET h == [protocol_version |-> AUTH_SESSION_PROTOCOL_VERSION, network_id |-> network_id,
            sister_id |-> sister_id, sister_public_key |-> public_key,
            membership_certificate |-> membership, transport_binding |-> binding,
            client_nonce |-> client_nonce, nonce |-> nonce]
  IN  h @@ [signature |-> SisterKeyPair_sign(key, AuthenticatedServerHello_signing_bytes(h))]

AuthenticatedServerHello_verify_signature(h) ==
  SisterPublicKey_verify(h.sister_public_key, AuthenticatedServerHello_signing_bytes(h),
                         h.signature)

-----------------------------------------------------------------------------
(* Requests to a Gateway *)

\* The bytes the auth of a request digests; a peers query has none of its own and
\* takes a domain tag.
announce_body_bytes(membership, record) == [membership |-> membership, record |-> record]

peers_body_bytes == [domain |-> "misaka-gateway/peers/v1"]

GatewayAuth_signing_bytes(a) ==
  Bytes(a, {"network_id", "sister_id", "timestamp", "nonce", "body_digest"})

\* SHA-256 is ideal: the digest stands for the body.
GatewayAuth_sign(network_id, sister_id, timestamp, nonce, body, key) ==
  LET a == [network_id |-> network_id, sister_id |-> sister_id, timestamp |-> timestamp,
            nonce |-> nonce, body_digest |-> body]
  IN  a @@ [signature |-> SisterKeyPair_sign(key, GatewayAuth_signing_bytes(a))]

GatewayAuth_verify_signature(a, public_key) ==
  SisterPublicKey_verify(public_key, GatewayAuth_signing_bytes(a), a.signature)

\* Ok, or the GatewayAuthError of the first check that fails.
verify_request(auth, body, membership, authority, now, window) ==
  LET checks ==
        <<[error |-> "NetworkMismatch",
           bad |-> auth.network_id # authority.network_id
                   \/ membership.network_id # authority.network_id],
          [error |-> "BodyDigestMismatch", bad |-> auth.body_digest # body],
          [error |-> "StaleTimestamp",
           bad |-> now - auth.timestamp > window \/ auth.timestamp - now > window],
          [error |-> "InvalidMembership",
           bad |-> ~MembershipCertificate_verify(membership, authority)],
          [error |-> "ExpiredMembership",
           bad |-> ~MembershipCertificate_is_valid_at(membership, now)],
          [error |-> "IdentityMismatch", bad |-> auth.sister_id # membership.sister_id],
          [error |-> "BadSignature",
           bad |-> ~GatewayAuth_verify_signature(auth, membership.sister_public_key)]>>
      failed == SelectSeq(checks, LAMBDA c : c.bad)
  IN  IF failed = <<>> THEN "Ok" ELSE Head(failed).error

record_matches_membership(record, membership) ==
  /\ record.network_id = membership.network_id
  /\ record.sister_id = membership.sister_id
  /\ record.sister_public_key = membership.sister_public_key

-----------------------------------------------------------------------------
(* Invites and their redemption *)

NetworkInvite_signing_bytes(i) ==
  Bytes(i, {"network_id", "authority", "bootstrap_records", "issued_at", "expires_at",
            "invite_id", "membership"})

\* membership is an Option, a sequence of at most one certificate.
NetworkInvite_issue(authority, key, bootstrap_records, issued_at, expires_at, invite_id, membership) ==
  LET i == [network_id |-> authority.network_id, authority |-> authority,
            bootstrap_records |-> bootstrap_records, issued_at |-> issued_at,
            expires_at |-> expires_at, invite_id |-> invite_id, membership |-> membership]
  IN  i @@ [authority_signature |->
              AuthorityKeyPair_sign(key, NetworkInvite_signing_bytes(i))]

NetworkInvite_verify(i, now) ==
  /\ i.network_id = i.authority.network_id
  /\ i.issued_at <= i.expires_at
  /\ i.issued_at <= now
  /\ now <= i.expires_at
  /\ AuthorityPublicKey_verify(i.authority.authority_public_key,
       NetworkInvite_signing_bytes(i), i.authority_signature)
  /\ \A r \in ToSet(i.bootstrap_records) : r.network_id = i.network_id /\ PeerRecord_verify(r)
  /\ \A m \in ToSet(i.membership) :
       /\ m.network_id = i.network_id
       /\ MembershipCertificate_verify(m, i.authority)
       /\ MembershipCertificate_is_valid_at(m, now)

ENROLLMENT_VERSION == 1

EnrollmentInvite_signing_bytes(i) ==
  Bytes(i, {"version", "network_id", "authority", "issued_at", "expires_at",
            "invite_nonce", "locator"})

EnrollmentInvite_issue(authority, key, issued_at, expires_at, invite_nonce, locator) ==
  LET i == [version |-> ENROLLMENT_VERSION, network_id |-> authority.network_id,
            authority |-> authority, issued_at |-> issued_at, expires_at |-> expires_at,
            invite_nonce |-> invite_nonce, locator |-> locator]
  IN  i @@ [authority_signature |->
              AuthorityKeyPair_sign(key, EnrollmentInvite_signing_bytes(i))]

EnrollmentInvite_verify(i, now) ==
  /\ i.version = ENROLLMENT_VERSION
  /\ i.network_id = i.authority.network_id
  /\ i.issued_at <= i.expires_at
  /\ i.issued_at <= now
  /\ now <= i.expires_at
  /\ AuthorityPublicKey_verify(i.authority.authority_public_key,
       EnrollmentInvite_signing_bytes(i), i.authority_signature)
  /\ i.locator.network_id = i.network_id
  /\ PeerRecord_verify(i.locator)

EnrollmentInvite_digest(i) == EnrollmentInvite_signing_bytes(i)

ENROLLMENT_PROTOCOL_VERSION == 1

EnrollmentRequest(invite, sister_id, sister_public_key, recipient_nonce) ==
  [protocol_version |-> ENROLLMENT_PROTOCOL_VERSION, invite |-> invite,
   sister_id |-> sister_id, sister_public_key |-> sister_public_key,
   recipient_nonce |-> recipient_nonce]

EnrollmentChallenge(network_id, invite_digest, sister_id, sister_public_key, authority_nonce, recipient_nonce) ==
  [protocol_version |-> ENROLLMENT_PROTOCOL_VERSION, network_id |-> network_id,
   invite_digest |-> invite_digest, sister_id |-> sister_id,
   sister_public_key |-> sister_public_key, authority_nonce |-> authority_nonce,
   recipient_nonce |-> recipient_nonce]

\* A challenge signs all of itself.
EnrollmentChallenge_solve(challenge, sister_key) ==
  SisterKeyPair_sign(sister_key, challenge)

EnrollmentChallenge_verify(challenge, proof) ==
  SisterPublicKey_verify(challenge.sister_public_key, challenge, proof)

EnrollmentResponse_accepted(authority, membership, bootstrap_records) ==
  [protocol_version |-> ENROLLMENT_PROTOCOL_VERSION, outcome |-> "Accepted",
   authority |-> authority, membership |-> membership,
   bootstrap_records |-> bootstrap_records]

EnrollmentResponse_rejected(reason) ==
  [protocol_version |-> ENROLLMENT_PROTOCOL_VERSION, outcome |-> "Rejected",
   reason |-> reason]

\* Ok, or the EnrollmentRejection the join stops with.
EnrollmentResponse_validate_received(response, invite, expected_network_id, sister_id, sister_public_key, now) ==
  LET m == response.membership
      error ==
        IF response.authority # invite.authority
           \/ response.authority.network_id # expected_network_id
          THEN "WrongNetwork"
          ELSE IF \/ m.network_id # expected_network_id
                  \/ m.network_id # response.authority.network_id
                  \/ m.sister_id # sister_id
                  \/ m.sister_public_key # sister_public_key
                  \/ ~MembershipCertificate_verify(m, response.authority)
                  \/ ~MembershipCertificate_is_valid_at(m, now)
                  \/ \E r \in ToSet(response.bootstrap_records) :
                       r.network_id # expected_network_id \/ ~PeerRecord_verify(r)
                 THEN "IssuanceFailed"
                 ELSE "Ok"
  IN  IF response.protocol_version # ENROLLMENT_PROTOCOL_VERSION THEN "ProtocolVersion"
      ELSE IF response.outcome = "Rejected" THEN response.reason
      ELSE error

-----------------------------------------------------------------------------
(* The Invite Code.  A character is its place in the alphabet; NoCharacter is *)
(* one outside of it. *)

NoCharacter == 64

base64url_encode(input) ==
  LET byte(k) == IF k <= Len(input) THEN input[k] ELSE 0
      group(c) == byte(3 * c + 1) * 2^16 + byte(3 * c + 2) * 2^8 + byte(3 * c + 3)
  IN  [i \in 1 .. (8 * Len(input) + 5) \div 6 |->
         (group((i - 1) \div 4) \div 2^(18 - 6 * ((i - 1) % 4))) % 64]

\* The decoder's loop: six bits in, a byte out once eight are there.
base64url_step(state, value) ==
  LET accumulator == state.accumulator * 64 + value
      bits == state.bits + 6
  IN  IF bits < 8
        THEN [state EXCEPT !.accumulator = accumulator, !.bits = bits]
        ELSE [accumulator |-> accumulator % 2^(bits - 8), bits |-> bits - 8,
              output |-> Append(state.output, (accumulator \div 2^(bits - 8)) % 256)]

\* An Option: a sequence of at most one byte string.
base64url_decode(input) ==
  LET last == FoldLeft(base64url_step, [accumulator |-> 0, bits |-> 0, output |-> <<>>],
                       input)
  IN  IF \/ Len(input) % 4 = 1
         \/ NoCharacter \in ToSet(input)
         \/ last.accumulator # 0
        THEN <<>>
        ELSE <<last.output>>

\* bincode writes an invite as PAYLOAD_LEN bytes and ignores what follows them.
PAYLOAD_LEN == 2

EnrollmentInvite_encode_code(payload) ==
  [prefix |-> "misaka1_", body |-> base64url_encode(payload)]

\* An InviteCodeError, or the payload whose invite the code carries.
EnrollmentInvite_decode_code(code) ==
  LET payload == base64url_decode(code.body)
      Error(e) == [error |-> e, payload |-> <<>>]
  IN  IF code.prefix # "misaka1_" THEN Error("UnsupportedPrefix")
      ELSE IF payload = <<>> THEN Error("InvalidEncoding")
      ELSE IF Len(payload[1]) < PAYLOAD_LEN THEN Error("InvalidPayload")
      ELSE [error |-> "Ok", payload |-> SubSeq(payload[1], 1, PAYLOAD_LEN)]

-----------------------------------------------------------------------------
(* What reaches a verifier.  Holders of keys issue contracts, correct or not,  *)
(* no two with the same serial, nonce or date; what arrives is one of them or  *)
(* one with a field taken from another.  The verifier belongs to Network 1,    *)
(* whose Authority holds key 11. *)

Home == NetworkAuthority(1, 11)
Foreign == NetworkAuthority(2, 12)
Namesake == NetworkAuthority(1, 12)
Today == 2

Memberships ==
  {MembershipCertificate_issue(a, a.authority_public_key, 20 + s, s, s, e, 2 * s + e) :
     a \in {Home, Foreign, Namesake}, s \in {1, 2}, e \in {None, 1}}

\* The current certificate of a Sister of Network 1.
OwnMembership(s) == CHOOSE m \in Memberships :
  m.sister_id = s /\ m.network_id = 1 /\ m.expires_at = None
  /\ m.authority_signature.by = 11

Humans == {HumanIdentity(h, "name", 30 + h) : h \in {1, 2}}

HumanMemberships ==
  {HumanMembershipCertificate_issue(a, a.authority_public_key, h, r, h.id, e,
                                    <<h.id, r, e>>) :
     a \in {Home, Foreign}, h \in Humans, r \in {"Operator", "Admin"}, e \in {None, 1, 3}}

Authorizations ==
  {CommandAuthorization_issue(
     [network_id |-> 1, issuer |-> h, membership |-> m, role |-> m.role,
      permission |-> <<"TunnelOpen", "FileSend">>[n], target |-> n, constraints |-> <<n>>,
      issued_at |-> n, expires_at |-> e, nonce |-> <<n, e, m.serial>>], h.public_key) :
     h \in Humans, n \in {1, 2}, e \in {1, 3},
     m \in {x \in HumanMemberships : /\ x.human.id = 1
                                    /\ \/ x.expires_at = None
                                       \/ x.network_id = 1 /\ x.role = "Operator"}}

Revocations ==
  {RevocationRecord_issue(a, a.authority_public_key, k, s, s - 4, <<k, s>>) :
     a \in {Home, Foreign, Namesake}, k \in MembershipKind, s \in {5, 6}}

Bindings ==
  {TransportBinding_sign(1, s, 40 + q, q, 20 + s) : s, q \in {1, 2}}

PeerRecords ==
  {PeerRecord_issue(1, s, 50 + b.sequence, b, b.sequence, 20 + s) : s \in {1, 2}, b \in Bindings}

\* A record of each of two Sisters, with its own binding.
OwnRecord(s) == CHOOSE r \in PeerRecords :
  r.sister_id = s /\ r.transport_binding = TransportBinding_sign(1, s, 41, 1, 20 + s)

Members == {OwnMembership(1), OwnMembership(2),
            MembershipCertificate_issue(Namesake, 12, 21, 1, 1, None, 2)}

Announces ==
  {[auth |-> GatewayAuth_sign(1, s, t, <<s, t, r.sequence>>, announce_body_bytes(m, r), 20 + s),
    membership |-> m, record |-> r] :
     s \in {1, 2}, t \in {1, 9}, m \in Members,
     r \in {OwnRecord(1), OwnRecord(2),
            PeerRecord_issue(1, 1, 52, TransportBinding_sign(1, 1, 42, 2, 21), 2, 21)}}

PeersQueries ==
  {[auth |-> GatewayAuth_sign(n, s, t, <<n, s, t>>, peers_body_bytes, 20 + s), membership |-> m] :
     n \in {1, 2}, s \in {1, 2}, t \in {1, 9}, m \in Members}

Invites ==
  {EnrollmentInvite_issue(a, a.authority_public_key, r.sequence, e, <<e, r.sequence>>, r) :
     a \in {Home, Foreign, Namesake}, e \in {1, 3},
     r \in {x \in PeerRecords : x.sister_id = 1}}

\* The Authority's challenge to a request, and a solution by either key.
Challenges ==
  {LET invite == EnrollmentInvite_issue(Home, 11, 1, 3, 7, OwnRecord(1))
       request == EnrollmentRequest(invite, s, 20 + s, 8)
       c == EnrollmentChallenge(1, EnrollmentInvite_digest(request.invite), request.sister_id,
                                request.sister_public_key, n, request.recipient_nonce)
   IN  [challenge |-> c, proof |-> EnrollmentChallenge_solve(c, 20 + k)] :
     s \in {1, 2}, n \in {7, 8}, k \in {1, 2}}

Responses ==
  {EnrollmentResponse_accepted(a, m, <<OwnRecord(k)>>) :
     a \in {Home, Foreign, Namesake}, m \in Memberships, k \in {1, 2}}

Hellos ==
  {AuthenticatedClientHello_sign(1, s, 20 + s, m, b, <<m.sister_id, b.sister_id>>, 20 + s) :
     s \in {1, 2}, m \in {OwnMembership(1), OwnMembership(2)},
     b \in {x \in Bindings : x.sequence = 1 /\ x.iroh_endpoint_id = 41}}

Replies ==
  {AuthenticatedServerHello_sign(1, s, 20 + s, m, b, c, <<c, m.sister_id, b.sister_id>>, 20 + s) :
     s \in {1, 2}, c \in {7, 8}, m \in {OwnMembership(1), OwnMembership(2)},
     b \in {x \in Bindings : x.sequence = 1 /\ x.iroh_endpoint_id = 41}}

NetworkInvites ==
  {NetworkInvite_issue(a, a.authority_public_key, <<r>>, r.sequence, e, <<e, m, r.sequence>>, m) :
     a \in {Home, Foreign}, e \in {1, 3}, m \in {<<>>, <<OwnMembership(1)>>},
     r \in {x \in PeerRecords : x.sister_id = 1 /\ x.transport_binding.sister_id = 1}}

Issued ==
  [membership |-> Memberships, human_membership |-> HumanMemberships,
   authorization |-> Authorizations, revocation |-> Revocations, binding |-> Bindings,
   peer_record |-> PeerRecords, announce |-> Announces, peers_query |-> PeersQueries,
   invite |-> Invites, challenge |-> Challenges, client_hello |-> Hellos, server_hello |-> Replies,
   network_invite |-> NetworkInvites]

\* A contract with at most one field from another of its kind.
Mixed(issued) ==
  UNION {{[a EXCEPT ![f] = b[f]] : f \in DOMAIN a} : a, b \in issued}

MixedPart(issued, part) ==
  UNION {{[a EXCEPT ![part][f] = b[part][f]] : f \in DOMAIN a[part]} : a, b \in issued}

\* The body of one announce under the auth of another.
Rebodied ==
  {[b EXCEPT !.auth = [a.auth EXCEPT !.body_digest = b.auth.body_digest]] :
     a, b \in Announces}

Presented ==
  UNION {{[kind |-> k, contract |-> c] : c \in Mixed(Issued[k])} : k \in DOMAIN Issued}
  \cup {[kind |-> "announce", contract |-> c] : c \in MixedPart(Announces, "auth") \cup Rebodied}
  \cup {[kind |-> "peers_query", contract |-> c] : c \in MixedPart(PeersQueries, "auth")}
  \cup {[kind |-> "challenge", contract |-> c] : c \in MixedPart(Challenges, "challenge")}
  \cup {[kind |-> "response", contract |-> c] :
          c \in Mixed(Responses) \cup {EnrollmentResponse_rejected("Expired")}}

\* The invite of Network 1 that Sister 1 redeems.
Redeemed == EnrollmentInvite_issue(Home, 11, 1, 3, 7, OwnRecord(1))

\* The verdict of the verifier each kind goes to.
Accepts(kind, c) ==
  \/ kind = "membership" /\ MembershipCertificate_verify(c, Home)
       /\ MembershipCertificate_is_valid_at(c, Today)
  \/ kind = "human_membership" /\ HumanMembershipCertificate_verify(c, Home, Today)
  \/ kind = "authorization" /\ CommandAuthorization_verify(c, Home, Today)
  \/ kind = "revocation" /\ RevocationRecord_verify(c, Home)
  \/ kind = "binding" /\ TransportBinding_verify(c)
  \/ kind = "peer_record" /\ PeerRecord_verify(c)
  \/ kind = "announce"
       /\ verify_request(c.auth, announce_body_bytes(c.membership, c.record), c.membership,
                         Home, Today, 3) = "Ok"
       /\ PeerRecord_verify(c.record) /\ record_matches_membership(c.record, c.membership)
  \/ kind = "peers_query"
       /\ verify_request(c.auth, peers_body_bytes, c.membership, Home, Today, 3) = "Ok"
  \/ kind = "response"
       /\ EnrollmentResponse_validate_received(c, Redeemed, 1, 1, 21, Today) = "Ok"
  \/ kind = "invite" /\ EnrollmentInvite_verify(c, Today)
  \/ kind = "challenge" /\ EnrollmentChallenge_verify(c.challenge, c.proof)
  \/ kind = "client_hello" /\ AuthenticatedClientHello_verify_signature(c)
  \/ kind = "server_hello" /\ AuthenticatedServerHello_verify_signature(c)
  \/ kind = "network_invite" /\ NetworkInvite_verify(c, Today)

\* Who stands behind a contract: the key that signed it.
SignedBy(kind, c) ==
  IF kind \in {"membership", "human_membership", "revocation", "invite", "network_invite"}
    THEN c.authority_signature.by
    ELSE CASE kind = "binding" -> c.signature_by_sister_key.by
           [] kind = "peer_record" -> c.sister_signature.by
           [] kind = "challenge" -> c.proof.by
           [] kind \in {"announce", "peers_query"} -> c.auth.signature.by
           [] OTHER -> c.signature.by

\* What the holder of a contract may conclude from it: the key behind it is the
\* one that may say so, now, and its parts are one subject's.
Vouched(kind, c) ==
  /\ kind \in {"membership", "human_membership", "revocation"} => SignedBy(kind, c) = 11
  /\ kind \in {"invite", "network_invite"} =>
       SignedBy(kind, c) = c.authority.authority_public_key
  /\ kind = "network_invite" =>
       \A m \in ToSet(c.membership) :
         m.authority_signature.by = SignedBy(kind, c) /\ m.network_id = c.network_id
  /\ kind \in {"membership", "human_membership", "authorization", "invite",
               "network_invite"} =>
       c.issued_at <= Today /\ (c.expires_at # None => Today <= c.expires_at)
  /\ kind = "authorization" =>
       \E m \in HumanMemberships :
         /\ SignedBy("human_membership", m) = 11
         /\ m.issued_at <= Today /\ (m.expires_at # None => Today <= m.expires_at)
         /\ m.human.public_key = SignedBy(kind, c)
         /\ Role_allows(m.role, c.permission)
  /\ kind = "peer_record" =>
       /\ c.transport_binding.signature_by_sister_key.by = SignedBy(kind, c)
       /\ c.transport_binding.sequence = c.sequence
       /\ c.transport_binding.sister_id = c.sister_id
  /\ kind \in {"announce", "peers_query"} =>
       /\ c.membership \in {OwnMembership(1), OwnMembership(2)}
       /\ SignedBy(kind, c) = c.membership.sister_public_key
  /\ kind = "announce" => SignedBy("peer_record", c.record) = SignedBy(kind, c)
  /\ kind = "response" =>
       /\ c.authority = Home /\ c.membership = OwnMembership(1)
       /\ \A r \in ToSet(c.bootstrap_records) : r \in PeerRecords

\* Invite Codes: what encode_code makes of each payload, other texts of up to that
\* length, and codes of another generation.
CODE_BYTES == {0, 1, 77, 255}

Payloads == [1 .. PAYLOAD_LEN -> CODE_BYTES]

Texts == UNION {[1 .. n -> {0, 1, 16, 63, NoCharacter}] : n \in 0 .. 4}

Codes ==
  {[prefix |-> "misaka1_", body |-> t] : t \in Texts}
  \cup {[prefix |-> "misaka2_", body |-> base64url_encode(p)] : p \in Payloads}

\* An accepted code is the code of the invite in it, up to the bytes that follow the
\* invite, and the code of an invite is accepted as that invite.
CodeFaithful(kind, c) ==
  /\ kind = "code" =>
       base64url_encode(base64url_decode(c.body)[1]) = c.body
  /\ kind = "payload" =>
       EnrollmentInvite_decode_code(EnrollmentInvite_encode_code(c))
         = [error |-> "Ok", payload |-> c]

=============================================================================
