-------------------------- MODULE ParticipantAuth --------------------------
(***************************************************************************)
(* backend/participant_auth.py: what an invitation, a handshake transcript, *)
(* a safety code and the three protected payloads are made of, and what is *)
(* accepted of one that arrives.                                           *)
(*                                                                         *)
(* Byte strings are symbols.  A hash is what it was computed from, in its  *)
(* order, as if no two inputs had one hash; a safety code is the transcript *)
(* whose digits it shows.  The wording of errors is left out: a value is   *)
(* accepted or not.                                                        *)
(***************************************************************************)
EXTENDS Naturals, Sequences

PROTOCOL_VERSION == 3
TRANSCRIPT_DOMAIN == "MutinyChat channel transcript v3"

\* Base64 of a fixed number of bytes leaves spare bits in the last digit, which
\* decoding drops: of the texts that decode to a value one is canonical.
\* encode_public_key, _encode_fixed_bytes
Encode(value) == [value |-> value, spare |-> 0]

\* decode_public_key, _decode_fixed_bytes: the canonical text alone.
Canonical(text) == text = Encode(text.value)

-----------------------------------------------------------------------------
(* Invitations *)
build_invite(onion, key) ==
    [scheme |-> "mutinychat", netloc |-> "join",
     query |-> [v |-> PROTOCOL_VERSION, onion |-> onion, host_key |-> Encode(key)]]

\* Length, path, user, port and the form of the onion address are left out: no
\* property tells such links apart.
ValidInvite(link) ==
    /\ link.scheme = "mutinychat" /\ link.netloc = "join"
    /\ DOMAIN link.query = {"v", "onion", "host_key"}
    /\ link.query.v = PROTOCOL_VERSION
    /\ Canonical(link.query.host_key)

\* Of a valid link.
parse_invite(link) ==
    [onion_address |-> link.query.onion, host_public_key |-> link.query.host_key.value]

-----------------------------------------------------------------------------
(* Transcripts and safety codes *)
\* (Seeded bug: the nonces are left out.)
TranscriptWithoutNonces(hostKey, guestKey, onion, hostNonce, guestNonce) ==
    <<<<TRANSCRIPT_DOMAIN, PROTOCOL_VERSION>>, onion, hostKey, guestKey>>

\* Both participants hash the host's part before the guest's.
derive_handshake_transcript_hash(hostKey, guestKey, onion, hostNonce, guestNonce) ==
    <<<<TRANSCRIPT_DOMAIN, PROTOCOL_VERSION>>, onion, hostKey, guestKey, hostNonce, guestNonce>>

derive_safety_code(transcript) == [digits |-> transcript]

-----------------------------------------------------------------------------
(* Payloads, each with exactly its own fields *)
Payload(type, role, transcript) ==
    [type |-> type, v |-> PROTOCOL_VERSION, role |-> role, transcript |-> Encode(transcript)]
With(field, value, payload) ==
    [f \in DOMAIN payload \cup {field} |-> IF f = field THEN value ELSE payload[f]]

build_channel_challenge_payload(role, transcript, challenge) ==
    With("challenge", Encode(challenge), Payload("channel_challenge", role, transcript))
build_channel_response_payload(role, transcript, response) ==
    With("response", Encode(response), Payload("channel_response", role, transcript))
build_confirmation_payload(code, role, transcript) ==
    With("code", code, Payload("participant_verification", role, transcript))

\* _validate_expected_role_and_transcript
HasRoleAndTranscript(payload, role, transcript) ==
    /\ payload.role = role
    /\ Canonical(payload.transcript) /\ payload.transcript.value = transcript

\* _parse_protocol_payload, and the fields of its type.
OfType(payload, type, field) ==
    /\ DOMAIN payload = {"type", "v", "role", "transcript", field}
    /\ payload.type = type /\ payload.v = PROTOCOL_VERSION

ValidChallenge(payload, role, transcript) ==
    /\ OfType(payload, "channel_challenge", "challenge")
    /\ HasRoleAndTranscript(payload, role, transcript)
    /\ Canonical(payload.challenge)
ValidResponse(payload, role, transcript) ==
    /\ OfType(payload, "channel_response", "response")
    /\ HasRoleAndTranscript(payload, role, transcript)
    /\ Canonical(payload.response)
ValidConfirmation(payload, code, role, transcript) ==
    /\ OfType(payload, "participant_verification", "code")
    /\ HasRoleAndTranscript(payload, role, transcript)
    /\ payload.code = code

=============================================================================
