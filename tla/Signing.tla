------------------------------- MODULE Signing -------------------------------
(***************************************************************************)
(* types/transaction.rs, types/action.rs and types/nep413.rs: the bytes    *)
(* that are signed for a transaction of either version, a delegate action  *)
(* of either version and a NEP-413 message, how a versioned transaction is *)
(* read back, how a signed message travels as JSON and how it is verified. *)
(*                                                                         *)
(* Bytes are numbers below 256; the part of an encoding behind its first   *)
(* length field is one token, the document itself.  Hashing and signing    *)
(* are injective.                                                          *)
(***************************************************************************)
EXTENDS Keys, FiniteSets

CONSTANTS
    AccountLengths,   \* lengths of the signer's account id; 2 .. 64
    Contents,         \* what else a document says
    MaxTime           \* bound: clock values and ages, in milliseconds

ASSUME SigningAssumption == AccountLengths \subseteq 2 .. 64 /\ MaxTime \in Nat

Bytes(n) == <<n % 256, n \div 256>>

\* u32::to_le_bytes, of a value given by its upper and lower 16 bits.
LE32(high, low) == Bytes(low) \o Bytes(high)

V1_TAG == 1
DELEGATE_ACTION_PREFIX == LE32(16384, 366)      \* 2^30 + 366

DELEGATE_V2_ACTION_PREFIX == LE32(16384, 611)   \* 2^30 + 611
NEP413_TAG == LE32(32768, 413)                  \* 2^31 + 413

\* Borsh of a struct whose first field is a string of this length.
Borsh(length, payload) == LE32(0, length) \o <<payload>>
-----------------------------------------------------------------------------
(* Transactions. *)

\* A V0 Transaction; a V1 one has a TransactionNonce and a NonceMode.
Transactions == [length : AccountLengths, nonce : {0, 7}, body : Contents]

into_v1(tx, mode) ==
    [length |-> tx.length, nonce |-> [nonce |-> tx.nonce, index |-> "none"], body |-> tx.body, mode |-> mode]

into_gas_key_v1(tx, index, mode) == [into_v1(tx, mode) EXCEPT !.nonce.index = index]

\* VersionedTransaction: V0 is tagless, V1 is behind its tag.
EncodeTransaction(version, tx) == (IF version = "V1" THEN <<V1_TAG>> ELSE <<>>) \o Borsh(tx.length, tx)

\* Reading a struct that starts with an account id.
ReadBorsh(bytes, version) ==
    IF Len(bytes) = 5 /\ SubSeq(bytes, 2, 4) = <<0, 0, 0>> /\ bytes[1] \in 2 .. 64
        THEN Ok([version |-> version, tx |-> bytes[5]])
        ELSE Fail("InvalidData")

\* VersionedTransaction::deserialize_reader: two bytes are peeked.
DecodeTransaction(bytes) ==
    CASE bytes[2] = 0 -> ReadBorsh(bytes, "V0")
      [] bytes[2] # 0 /\ bytes[1] = V1_TAG -> ReadBorsh(Tail(bytes), "V1")
      [] OTHER -> Fail("InvalidData")

\* What the accessors of VersionedTransaction say, for either version.
Accessed(versioned) ==
    LET tx == versioned.tx
    IN  IF versioned.version = "V0"
            THEN [nonce |-> tx.nonce, index |-> "none", mode |-> "Monotonic", body |-> tx.body]
            ELSE [nonce |-> tx.nonce.nonce, index |-> tx.nonce.index, mode |-> tx.mode, body |-> tx.body]
-----------------------------------------------------------------------------
(* Everything a key signs. *)

\* DelegateAction::serialize_for_signing.
EncodeDelegate(d) == DELEGATE_ACTION_PREFIX \o Borsh(d.length, d)

\* VersionedDelegateActionPayload::serialize_for_signing; 0 is the
\* discriminant of V2.
EncodeDelegateV2(d) == DELEGATE_V2_ACTION_PREFIX \o <<0>> \o Borsh(d.length, d)

\* serialize_message; the message may have any length.
EncodeMessage(m) == NEP413_TAG \o Borsh(m.length, m)

Domains == {"transaction", "strict", "gas key", "delegate", "delegate V2", "message"}

Encode(domain, doc) ==
    CASE domain = "transaction" -> EncodeTransaction("V0", doc)
      [] domain = "strict" -> EncodeTransaction("V1", into_v1(doc, "Strict"))
      [] domain = "gas key" -> EncodeTransaction("V1", into_gas_key_v1(doc, "3", "Monotonic"))
      [] domain = "delegate" -> EncodeDelegate(doc)
      [] domain = "delegate V2" -> EncodeDelegateV2(doc)
      [] domain = "message" -> EncodeMessage(doc)
-----------------------------------------------------------------------------
(* NEP-413. *)

NoMaxAge == MaxTime + 1   \* Duration::MAX, which NonceValidation::from takes for None

Params == [message : {"m", "n"}, recipient : {"r", "s"}, time : 0 .. MaxTime, callback_url : {"none", "c"},
           state : {"none", "s1"}]

\* Nep413Payload: all but the state.
Signed413(params) == [params EXCEPT !.state = "none"]

sign_nep413(account, secret, params) ==
    [account |-> account, key |-> public_key(secret), signature |-> sign(secret, Signed413(params)), state |-> params.state]

\* AuthPayload::from_signed and to_params.
from_signed(signed, params) ==
    [signed_message |-> signed, time |-> params.time, message |-> params.message,
     recipient |-> params.recipient, callback_url |-> params.callback_url]

to_params(auth) ==
    [message |-> auth.message, recipient |-> auth.recipient, time |-> auth.time,
     callback_url |-> auth.callback_url, state |-> auth.signed_message.state]

\* How a signature may be written: in base64, in base58 behind a prefix, or in
\* plain base58.  None of them is decoded as another one to 64 bytes.
SignatureForms == {"base64", "ed25519:", "secp256k1:", "ml-dsa-65:", "base58"}

\* The bytes only, not their type.
serialize_signature_base64(signature) == [form |-> "base64", bytes |-> signature.bytes]

deserialize_signature_flexible(text) ==
    IF text.form \in {"base64", "ed25519:", "base58"} /\ text.bytes.len = 64
        THEN Ok(Key("ed25519", text.bytes))
        ELSE Fail("InvalidFormat")

\* The way to the server.  serialize_signature_base64 writes base64, a wallet
\* any form.
to_json(auth, form) ==
    [auth EXCEPT !.signed_message.signature = [serialize_signature_base64(@) EXCEPT !.form = form]]

from_json(json) ==
    LET signature == deserialize_signature_flexible(json.signed_message.signature)
    IN  IF signature.ok THEN Ok([json EXCEPT !.signed_message.signature = signature.value]) ELSE signature

\* Variant: a nonce of the future has age zero.
Fresh_saturating(time, now, max_age) == max_age = NoMaxAge \/ (IF now > time THEN now - time ELSE 0) <= max_age

\* The timestamp convention: saturating_sub, and no timestamp in the future.
Fresh(time, now, max_age) ==
    \/ max_age = NoMaxAge
    \/ (IF now > time THEN now - time ELSE 0) <= max_age /\ time <= now

verify_signature(signed, params, now, max_age) ==
    /\ Fresh(params.time, now, max_age)
    /\ verify_key(signed.signature, Signed413(params), signed.key)

\* verify: `view` is what view_access_key says of the account and the key.
verify(signed, params, now, max_age, require_full_access, view) ==
    /\ verify_signature(signed, params, now, max_age)
    /\ require_full_access => view = "FullAccess"
-----------------------------------------------------------------------------
(* Exercise. *)

SignDocument ==
    Given("none") /\ \E domain \in Domains, doc \in Transactions : input' = [of |-> "signing", domain |-> domain, doc |-> doc]

\* What the user signed and what the server got.
VerifyMessage ==
    /\ Given("none")
    /\ \E params, got \in Params, now \in 0 .. MaxTime, max_age \in 0 .. NoMaxAge,
          view \in {"FullAccess", "FunctionCall", "missing", "error"} :
          /\ params.state = got.state /\ params.message = "m"
          /\ input' = [of |-> "message", params |-> params, got |-> got, now |-> now, max_age |-> max_age, view |-> view]
-----------------------------------------------------------------------------
(* Properties. *)

\* What is signed in one domain differs in its first four bytes from what is
\* signed in every other, for every length of an account id: no signature can
\* be used for a document of another kind.  The two uses of V1 are one domain.
DomainsSeparate ==
    Given("signing") =>
        \A domain \in Domains \ {input.domain}, doc \in Transactions :
            \/ {domain, input.domain} = {"strict", "gas key"}
            \/ SubSeq(Encode(domain, doc), 1, 4) # SubSeq(Encode(input.domain, input.doc), 1, 4)

\* A transaction is read back as what was written, although only V1 has a
\* tag; upgrading it to V1 changes nothing but what was asked for; and nothing
\* else that is signed reads as a transaction.
VersionsReadBack ==
    Given("signing") =>
        LET read == DecodeTransaction(Encode(input.domain, input.doc))
            asked(index, mode) == [nonce |-> input.doc.nonce, index |-> index, mode |-> mode, body |-> input.doc.body]
        IN  CASE input.domain = "transaction" -> read.ok /\ Accessed(read.value) = asked("none", "Monotonic")
              [] input.domain = "strict" -> read.ok /\ Accessed(read.value) = asked("none", "Strict")
              [] input.domain = "gas key" -> read.ok /\ Accessed(read.value) = asked("3", "Monotonic")
              [] OTHER -> ~read.ok

\* A message is accepted only for the message, recipient, time and callback
\* that were signed, by the key it names, within the age limit and never
\* before its own time.
AcceptedAsSigned ==
    Given("message") =>
        \A type \in KeyTypes, full \in BOOLEAN :
            verify(sign_nep413("u", SecretKey(type, "k"), input.params), input.got, input.now, input.max_age, full,
                   input.view) =>
                /\ input.got = input.params
                /\ input.max_age # NoMaxAge =>
                     input.params.time <= input.now /\ input.now <= input.params.time + input.max_age

\* When key ownership is required, nothing but a full-access key of the
\* account lets a message through: no other answer and no failed request.
OwnershipIsChecked ==
    Given("message") =>
        \A type \in KeyTypes :
            verify(sign_nep413("u", SecretKey(type, "k"), input.params), input.got, input.now, input.max_age, TRUE,
                   input.view) => input.view = "FullAccess"

\* A message signed with an Ed25519 key and sent as an AuthPayload is read as it
\* was sent and verifies in time, its signature written as this library does it
\* or in either form wallets have used.  Messages of the other key types can be
\* signed and sent, but every server that reads them with this library refuses
\* them, although the comment above the reader names secp256k1:base58.
AuthPayloadVerifies ==
    Given("message") /\ input.params.time <= input.now /\ input.view = "FullAccess" =>
        \A type \in KeyTypes, form \in SignatureForms :
            LET auth == from_signed(sign_nep413("u", SecretKey(type, "k"), input.params), input.params)
                got == from_json(to_json(auth, form))
            IN  /\ got.ok <=> type = "ed25519" /\ form \in {"base64", "ed25519:", "base58"}
                /\ got.ok => /\ got.value = auth
                             /\ verify(got.value.signed_message, to_params(got.value), input.now, NoMaxAge, TRUE,
                                       input.view)

\* A signature is good for one document of one kind: transactions, delegate
\* actions and messages cannot stand for each other, documents read back as
\* written, and a message is accepted as signed, in time, from its owner, after
\* a trip as JSON too if the key is Ed25519.
SignedForOneUse ==
    /\ DomainsSeparate
    /\ VersionsReadBack
    /\ AcceptedAsSigned
    /\ OwnershipIsChecked
    /\ AuthPayloadVerifies
=============================================================================
