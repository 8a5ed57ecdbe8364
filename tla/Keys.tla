-------------------------------- MODULE Keys ---------------------------------
(***************************************************************************)
(* types/key.rs, types/hash.rs and types/hd.rs: keys and signatures of     *)
(* three types as text and as borsh, the handles under which the chain     *)
(* lists keys, signing and verifying, seed phrases and derivation paths.   *)
(*                                                                         *)
(* A string of bytes is its length, what it stands for and whether it is   *)
(* valid (a curve point, a scalar in range, a decodable expanded key).     *)
(* Cryptography is ideal: what is derived names what it is derived from.   *)
(***************************************************************************)
EXTENDS Inputs

CONSTANTS
    KeyNames,   \* names of secrets
    MaxPath     \* bound: tokens of a derivation path

KeyTypes == {"ed25519", "secp256k1", "ml-dsa-65"}
public_key_len == [t \in KeyTypes |-> CASE t = "ed25519" -> 32 [] t = "secp256k1" -> 64 [] OTHER -> 1952]
signature_len == [t \in KeyTypes |-> CASE t = "ed25519" -> 64 [] t = "secp256k1" -> 65 [] OTHER -> 3309]

ByteString(len, is, valid) == [len |-> len, is |-> is, valid |-> valid]

\* <prefix>:<base58>.
KeyText(prefix, base58, data) == [prefix |-> prefix, base58 |-> base58, data |-> data]
Display(key) == KeyText(key.type, TRUE, key.bytes)

Key(type, bytes) == [type |-> type, bytes |-> bytes]
-----------------------------------------------------------------------------
(* Secret keys. *)

\* ML-DSA-65 keys are held as the seed or expanded.
ML_DSA_65_SEED_LENGTH == 32
ML_DSA_65_SECRET_KEY_LENGTH == 4032

SecretKey(type, name) == Key(type, ByteString(32, <<type, name>>, TRUE))

ml_dsa65_from_expanded(bytes) == IF bytes.valid THEN Ok(Key("ml-dsa-65", bytes)) ELSE Fail("InvalidScalar")

\* None for the other types.
to_ml_dsa65_expanded(secret) ==
    IF secret.type = "ml-dsa-65"
        THEN Ok(Key(secret.type, [secret.bytes EXCEPT !.len = ML_DSA_65_SECRET_KEY_LENGTH]))
        ELSE Fail("None")

\* Variant: the scalar is not looked at.
SecretKeyFromStr_unchecked(text) ==
    CASE text.prefix = "no colon" -> Fail("InvalidFormat")
      [] text.prefix \notin KeyTypes \cup {"no colon"} -> Fail("UnknownKeyType")
      [] text.prefix \in KeyTypes /\ ~text.base58 -> Fail("InvalidBase58")
      [] OTHER -> IF text.data.len \in {32, 64, ML_DSA_65_SECRET_KEY_LENGTH} THEN Ok(Key(text.prefix, text.data))
                                                                            ELSE Fail("InvalidLength")

\* SecretKey::from_str; an expanded Ed25519 key is cut to its seed.
SecretKeyFromStr(text) ==
    CASE text.prefix = "no colon" -> Fail("InvalidFormat")
      [] text.prefix \notin KeyTypes \cup {"no colon"} -> Fail("UnknownKeyType")
      [] text.prefix \in KeyTypes /\ ~text.base58 -> Fail("InvalidBase58")
      [] text.prefix = "ml-dsa-65" /\ text.base58 ->
            CASE text.data.len = ML_DSA_65_SEED_LENGTH -> Ok(Key("ml-dsa-65", text.data))
              [] text.data.len = ML_DSA_65_SECRET_KEY_LENGTH -> ml_dsa65_from_expanded(text.data)
              [] OTHER -> Fail("InvalidLength")
      [] text.prefix = "ed25519" /\ text.base58 ->
            IF text.data.len \in {32, 64} THEN Ok(Key("ed25519", [text.data EXCEPT !.len = 32])) ELSE Fail("InvalidLength")
      [] text.prefix = "secp256k1" /\ text.base58 ->
            CASE text.data.len # 32 -> Fail("InvalidLength")
              [] text.data.len = 32 /\ ~text.data.valid -> Fail("InvalidScalar")
              [] OTHER -> Ok(Key("secp256k1", text.data))

\* public_key and sign expect a scalar in range and a decodable expanded key.
UsePanics(secret) ==
    /\ ~secret.bytes.valid
    /\ secret.type = "secp256k1" \/ secret.bytes.len = ML_DSA_65_SECRET_KEY_LENGTH

public_key(secret) == Key(secret.type, ByteString(public_key_len[secret.type], secret.bytes.is, TRUE))

\* A signature names the secret and the message.
sign(secret, message) ==
    [type |-> secret.type,
     bytes |-> ByteString(signature_len[secret.type], <<secret.type, secret.bytes.is[2], message>>, TRUE)]
-----------------------------------------------------------------------------
(* Public keys, handles, signatures. *)

\* PublicKey::from_str.  Every ML-DSA-65 string of the right length is a key.
PublicKeyFromStr(text) ==
    CASE text.prefix = "no colon" -> Fail("InvalidFormat")
      [] text.prefix = "ml-dsa-65-hash" -> Fail("MlDsa65HashHandle")
      [] text.prefix \notin KeyTypes \cup {"no colon", "ml-dsa-65-hash"} -> Fail("UnknownKeyType")
      [] text.prefix \in KeyTypes /\ ~text.base58 -> Fail("InvalidBase58")
      [] text.prefix \in KeyTypes /\ text.base58 ->
            CASE text.data.len # public_key_len[text.prefix] -> Fail("InvalidLength")
              [] text.data.len = public_key_len[text.prefix] /\ ~text.data.valid /\ text.prefix # "ml-dsa-65" ->
                    Fail("InvalidCurvePoint")
              [] OTHER -> Ok(Key(text.prefix, text.data))

\* Borsh: the type's byte and the bytes, which say nothing of their length.
KeyTypeByte == [t \in KeyTypes |-> CASE t = "ed25519" -> 0 [] t = "secp256k1" -> 1 [] OTHER -> 2]
BorshKey(key) == [tag |-> KeyTypeByte[key.type], bytes |-> key.bytes]

\* KeyType::try_from, and what is behind it.
ReadTagged(borsh, lens, checked) ==
    IF borsh.tag \notin 0 .. 2 THEN Fail("InvalidData")
    ELSE LET type == CHOOSE t \in KeyTypes : KeyTypeByte[t] = borsh.tag
         IN  IF borsh.bytes.len = lens[type] /\ (borsh.bytes.valid \/ type \notin checked)
                 THEN Ok(Key(type, borsh.bytes))
                 ELSE Fail("InvalidData")
PublicKeyFromBorsh(borsh) == ReadTagged(borsh, public_key_len, {"ed25519", "secp256k1"})
SignatureFromBorsh(borsh) == ReadTagged(borsh, signature_len, {})

\* Signature::from_str.
SignatureFromStr(text) ==
    CASE text.prefix = "no colon" -> Fail("InvalidFormat")
      [] text.prefix \notin KeyTypes \cup {"no colon"} -> Fail("UnknownKeyType")
      [] text.prefix \in KeyTypes /\ ~text.base58 -> Fail("InvalidBase58")
      [] OTHER -> IF text.data.len = signature_len[text.prefix] THEN Ok(Key(text.prefix, text.data))
                                                                ELSE Fail("InvalidLength")

\* PublicKeyHandle: a full key, or the hash of an ML-DSA-65 key.
Full(key) == [handle |-> "full", key |-> key]
to_ml_dsa65_hash(key) ==
    [handle |-> "hash", key |-> Key("ml-dsa-65-hash", ByteString(32, key.bytes.is, TRUE))]

HandleFromStr(text) ==
    IF text.prefix # "ml-dsa-65-hash"
        THEN LET key == PublicKeyFromStr(text) IN IF key.ok THEN Ok(Full(key.value)) ELSE key
        ELSE CASE ~text.base58 -> Fail("InvalidBase58")
               [] text.base58 /\ text.data.len # 32 -> Fail("InvalidLength")
               [] OTHER -> Ok([handle |-> "hash", key |-> Key("ml-dsa-65-hash", text.data)])

refers_to(handle, key) ==
    \/ handle = Full(key)
    \/ handle.handle = "hash" /\ key.type = "ml-dsa-65" /\ handle = to_ml_dsa65_hash(key)

\* How the chain lists a key.
Listed(key) == IF key.type = "ml-dsa-65" THEN to_ml_dsa65_hash(key) ELSE Full(key)

\* Signature::verify.
verify_key(signature, message, key) ==
    /\ signature.type = key.type
    /\ signature.bytes.is = <<key.type, key.bytes.is[2], message>>
    /\ signature.bytes.valid
-----------------------------------------------------------------------------
(* Seed phrases and derivation paths. *)

WordCounts == {12, 15, 18, 21, 24}
MIN_ML_DSA_65_WORD_COUNT == 18
DEFAULT_HD_PATH == <<"m", "/", "44'", "/", "397'", "/", "0'">>

generate_seed_phrase(words, entropy) ==
    IF words \in WordCounts THEN Ok([words |-> words, entropy |-> entropy, spelling |-> "plain"])
                            ELSE Fail("KeyDerivationFailed")

\* Case and white space are normalised before the words are looked up.
mnemonic_to_seed(phrase, passphrase) ==
    IF phrase.words \in WordCounts
        THEN Ok(<<[phrase EXCEPT !.spelling = "plain"], IF passphrase = "none" THEN "" ELSE passphrase>>)
        ELSE Fail("InvalidSeedPhrase")

\* A path is a sequence of tokens: m, / and indices; "0" is not hardened and
\* "2^31'" is out of range.  Tokens not separated by / are one segment.
PathTokens == {"m", "/", "44'", "397'", "0'", "0", "2^31'"}
Hardened == {"44'", "397'", "0'"}
PathError == [t \in PathTokens \ Hardened |->
                 CASE t = "0" -> "NotHardened" [] t = "2^31'" -> "IndexOutOfRange" [] OTHER -> "InvalidIndex"]

\* Where the segment behind position i ends: at a /, or behind the last token.
SegmentEnd(body, i) ==
    CHOOSE j \in i + 1 .. Len(body) + 1 :
        /\ j = Len(body) + 1 \/ body[j] = "/"
        /\ \A k \in i + 1 .. j - 1 : body[k] # "/"

\* Where each segment ends; behind the last one there is none.
SegmentEnds(body) ==
    LET end[n \in 0 .. Len(body) + 1] ==
            IF n = 0 THEN 0
            ELSE IF end[n - 1] <= Len(body) THEN SegmentEnd(body, end[n - 1]) ELSE end[n - 1]
    IN  end

\* body.split('/').
Split(body) ==
    LET end == SegmentEnds(body)
    IN  [n \in {m \in 1 .. Len(body) + 1 : end[m - 1] <= Len(body)} |-> SubSeq(body, end[n - 1] + 1, end[n] - 1)]

\* One segment.
ParseSegment(seg) ==
    CASE seg = <<>> -> Fail("EmptySegment")
      [] Len(seg) = 1 /\ seg[1] \in Hardened -> Ok(seg[1])
      [] Len(seg) = 1 /\ seg[1] \notin Hardened -> Fail(PathError[seg[1]])
      [] OTHER -> Fail("InvalidIndex")

StripFirst(s, token) == IF s # <<>> /\ s[1] = token THEN Tail(s) ELSE s
StripLast(s, token) == IF s # <<>> /\ s[Len(s)] = token THEN SubSeq(s, 1, Len(s) - 1) ELSE s

\* parse_hd_path: the first bad segment is the error.
parse_hd_path(path) ==
    LET body == StripLast(StripFirst(StripFirst(path, "m"), "/"), "/")
        parsed == [n \in DOMAIN Split(body) |-> ParseSegment(Split(body)[n])]
        bad == {n \in DOMAIN parsed : ~parsed[n].ok}
    IN  CASE body = <<>> -> Ok(<<>>)
          [] body # <<>> /\ bad # {} -> parsed[CHOOSE n \in bad : \A k \in bad : n <= k]
          [] OTHER -> Ok([n \in DOMAIN parsed |-> parsed[n].value])

\* derive_slip10_node, with the salt of the branch.
derive_slip10(type, seed, indices) == <<type, seed, indices>>

\* from_seed_phrase..., ml_dsa65_from_seed_phrase...: the same for both
\* branches.
from_seed_phrase(type, phrase, path, passphrase) ==
    LET seed == mnemonic_to_seed(phrase, passphrase)
    IN  CASE ~seed.ok -> seed
          [] seed.ok /\ ~parse_hd_path(path).ok -> Fail("KeyDerivationFailed")
          [] OTHER -> Ok(SecretKey(type, derive_slip10(type, seed.value, parse_hd_path(path).value)))

\* generate_with_seed_phrase...: new ML-DSA-65 phrases have a minimum.
generate_with_seed_phrase(type, words, entropy, path, passphrase) ==
    LET phrase == generate_seed_phrase(words, entropy)
    IN  CASE type = "ml-dsa-65" /\ words < MIN_ML_DSA_65_WORD_COUNT -> Fail("KeyDerivationFailed")
          [] ~(type = "ml-dsa-65" /\ words < MIN_ML_DSA_65_WORD_COUNT) /\ ~phrase.ok -> phrase
          [] OTHER -> LET key == from_seed_phrase(type, phrase.value, path, passphrase)
                      IN  IF key.ok THEN Ok(<<phrase.value, key.value>>) ELSE key
-----------------------------------------------------------------------------
(* Exercise. *)

Lengths == {32, 64, 65, 1952, 3309, 4032}
SomeMessages == {"m", "n"}

MakeKey ==
    /\ Given("none")
    /\ \E type \in KeyTypes, other \in KeyTypes, name \in KeyNames, message \in SomeMessages :
          input' = [of |-> "key", secret |-> SecretKey(type, name), other |-> SecretKey(other, "k1"), message |-> message]

ReadText ==
    /\ Given("none")
    /\ \E prefix \in KeyTypes \cup {"no colon", "ml-dsa-65-hash", "other"}, base58, valid \in BOOLEAN, len \in Lengths :
          input' = [of |-> "text", text |-> KeyText(prefix, base58, ByteString(len, <<prefix, "k1">>, valid))]

ReadPath ==
    /\ Given("none")
    /\ \E n \in 0 .. MaxPath : \E path \in [1 .. n -> PathTokens] : input' = [of |-> "path", path |-> path]

Phrases ==
    [of : {"phrase"}, type : {"ed25519", "ml-dsa-65"}, words : WordCounts \cup {0, 13, 27},
     passphrase : {"none", "", "p"}, other : {"none", "", "p"}, path : {DEFAULT_HD_PATH, <<"44'">>, <<"0">>},
     spelling : {"plain", "UPPER  CASE"}]

MakePhrase == Given("none") /\ input' \in Phrases
-----------------------------------------------------------------------------
(* Properties. *)

\* The secrets input.secret can be held as.
Forms(secret) ==
    {secret} \cup (IF to_ml_dsa65_expanded(secret).ok THEN {to_ml_dsa65_expanded(secret).value} ELSE {})

\* Every key, handle and signature the library makes reads back as itself
\* from its text and from borsh, in each form a secret can be held in.
KeysReadBack ==
    Given("key") =>
        \A secret \in Forms(input.secret) :
            LET key == public_key(secret)
                signature == sign(secret, input.message)
            IN  /\ SecretKeyFromStr(Display(secret)) = Ok(secret)
                /\ PublicKeyFromStr(Display(key)) = Ok(key)
                /\ PublicKeyFromBorsh(BorshKey(key)) = Ok(key)
                /\ HandleFromStr(Display(Listed(key).key)) = Ok(Listed(key))
                /\ SignatureFromStr(Display(signature)) = Ok(signature)
                /\ SignatureFromBorsh(BorshKey(signature)) = Ok(signature)

\* A signature verifies with the public key of its secret, whatever form the
\* secret is held in, and with no other key or message, not even a key of
\* another type made of the same bytes.
VerifiesOwnOnly ==
    Given("key") =>
        \A secret \in Forms(input.secret), message \in SomeMessages :
            verify_key(sign(secret, input.message), message, public_key(input.other))
                <=> message = input.message /\ public_key(input.other) = public_key(input.secret)

\* A key is found in the list the chain returns, and no other is taken for
\* it, although ML-DSA-65 keys are listed by their hash.
FindsItsKey ==
    Given("key") =>
        (refers_to(Listed(public_key(input.other)), public_key(input.secret))
            <=> public_key(input.other) = public_key(input.secret))

\* No secret that was accepted from text panics when it is used, and what is
\* accepted keeps its public key when it is written and read again.
AcceptedKeysWork ==
    Given("text") =>
        LET secret == SecretKeyFromStr(input.text)
            key == PublicKeyFromStr(input.text)
        IN  /\ secret.ok => /\ ~UsePanics(secret.value)
                            /\ SecretKeyFromStr(Display(secret.value)) = secret
            /\ key.ok => /\ Display(key.value) = input.text
                         /\ HandleFromStr(input.text) = Ok(Full(key.value))
                         /\ PublicKeyFromBorsh(BorshKey(key.value)) = key

\* A path is accepted only if every index in it is hardened and in range, and
\* it then derives along exactly the indices that were written, in order,
\* with no empty segment between or beside them.
PathsKeepEverySegment ==
    Given("path") =>
        LET path == input.path
            written == {i \in DOMAIN path : path[i] \notin {"m", "/"}}
            parsed == parse_hd_path(path)
            doubled == \E i \in 1 .. Len(path) - 1 : path[i] = "/" /\ path[i + 1] = "/"
        IN  parsed.ok =>
              /\ \E place \in [1 .. Len(parsed.value) -> written] :
                    /\ \A m, n \in DOMAIN place : m < n => place[m] < place[n]
                    /\ \A i \in written : \E n \in DOMAIN place : place[n] = i
                    /\ parsed.value = [n \in DOMAIN place |-> path[place[n]]]
              /\ \A i \in written : path[i] \in Hardened
              /\ doubled => written = {}

\* A generated key is recovered from its phrase however it is typed, with the
\* same path and passphrase and with no other, and is not the key of the
\* other branch.  Without a passphrase is with an empty one.
RecoverableFromPhrase ==
    Given("phrase") =>
        LET made == generate_with_seed_phrase(input.type, input.words, "e", input.path, input.passphrase)
        IN  made.ok =>
              LET typed == [made.value[1] EXCEPT !.spelling = input.spelling]
                  same == input.passphrase \in {"none", ""} <=> input.other \in {"none", ""}
              IN  /\ (from_seed_phrase(input.type, typed, input.path, input.other) = Ok(made.value[2])) <=> same
                  /\ \A type \in {"ed25519", "ml-dsa-65"} \ {input.type} :
                        from_seed_phrase(type, typed, input.path, input.passphrase).value.bytes # made.value[2].bytes

\* A key is the same key in every form it is written, listed, held or derived
\* in, and no other key is taken for it.
KeysKeepTheirIdentity ==
    /\ KeysReadBack
    /\ VerifiesOwnOnly
    /\ FindsItsKey
    /\ AcceptedKeysWork
    /\ PathsKeepEverySegment
    /\ RecoverableFromPhrase
=============================================================================
