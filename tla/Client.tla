------------------------------- MODULE Client --------------------------------
(***************************************************************************)
(* client/near.rs, client/signer.rs, client/keyring_signer.rs and          *)
(* tokens/known.rs: how a client gets its url, chain id, signer and retry  *)
(* limit (builder calls, environment, derivation from another client), how *)
(* signers are loaded, and to which contract a known token resolves.       *)
(* A string that fails to parse is "bad"; an absent one is "unset".        *)
(***************************************************************************)
EXTENDS Inputs, FiniteSets

CONSTANTS
    Urls,         \* what NEAR_NETWORK may hold besides the names of networks
    ChainIds,     \* what NEAR_CHAIN_ID may hold besides "mainnet"
    MaxSigners    \* bound: signers of a rotation

Unset == "unset"
NoSigner == [account |-> Unset, keys |-> <<>>]
-----------------------------------------------------------------------------
(* Signers.  Secret keys are known by name; k1 and k2 are Ed25519, s1 is   *)
(* Secp256k1.                                                              *)

Ed25519Keys == {"k1", "k2"}
Secrets == Ed25519Keys \cup {"s1"}
PublicOf(secret) == <<"public key of", secret>>

Signer(account, keys) == [account |-> account, keys |-> keys]

\* InMemorySigner::new: the account is parsed first.
InMemorySigner(account, key) ==
    CASE account = "bad" -> Fail("account")
      [] account # "bad" /\ key \notin Secrets -> Fail("key")
      [] OTHER -> Ok(Signer(account, <<key>>))

\* InMemorySigner::implicit: only Ed25519 keys have an implicit account.
implicit(secret) ==
    IF secret \in Ed25519Keys THEN Ok(Signer(PublicOf(secret), <<secret>>)) ELSE Fail("panic")

\* A credentials file: private_key with its alias secret_key; both at once
\* are a duplicate field.
FileSigner(file, account) ==
    CASE account = "bad" -> Fail("account")
      [] account # "bad" /\ ~file.readable -> Fail("config")
      [] account # "bad" /\ file.readable /\ Cardinality(file.fields \cap {"private_key", "secret_key"}) # 1 ->
            Fail("config")
      [] OTHER -> InMemorySigner(account, file.key)

\* EnvSigner::from_env_vars.
EnvSigner(account, key) ==
    IF account = Unset \/ key = Unset THEN Fail("config") ELSE InMemorySigner(account, key)

\* parse_keyring_credential; other fields of the entry do not matter.
ReadEntry(entry) ==
    IF ~entry.readable \/ "private_key" \notin entry.fields \/ entry.key \notin Secrets
        THEN Fail("key store")
        ELSE Ok(entry.key)

\* Variant: the entry found under the requested name is trusted.
KeyringSigner_trusting(entry, account, public_key) ==
    CASE account = "bad" -> Fail("account")
      [] account # "bad" /\ ~ReadEntry(entry).ok -> ReadEntry(entry)
      [] OTHER -> Ok(Signer(account, <<entry.key>>))

\* KeyringSigner::new: the entry is found by account and public key, and its
\* secret key must be the one of that public key.
KeyringSigner(entry, account, public_key) ==
    CASE account = "bad" -> Fail("account")
      [] account # "bad" /\ ~ReadEntry(entry).ok -> ReadEntry(entry)
      [] OTHER -> IF PublicOf(entry.key) = public_key THEN Ok(Signer(account, <<entry.key>>)) ELSE Fail("key store")

\* RotatingSigner::new.
RotatingSigner(account, keys) ==
    CASE keys = <<>> -> Fail("config")
      [] keys # <<>> /\ account = "bad" -> Fail("account")
      [] OTHER -> Ok(Signer(account, keys))

\* RotatingSigner::from_signers.
from_signers(signers) ==
    IF signers = <<>> \/ \E i \in DOMAIN signers : signers[i].account # signers[1].account THEN Fail("config")
    ELSE Ok(Signer(signers[1].account, [i \in DOMAIN signers |-> signers[i].keys[1]]))

\* RotatingSigner::into_per_key_signers.
into_per_key_signers(rotating) == [i \in DOMAIN rotating.keys |-> Signer(rotating.account, <<rotating.keys[i]>>)]
-----------------------------------------------------------------------------
(* Clients. *)

\* NearBuilder::new, mainnet, testnet, custom.
NearBuilder(url, chain) ==
    [url |-> url, chain |-> chain, signer |-> NoSigner, max_nonce_retries |-> "3",
     transport |-> "default", retry_config |-> "default"]

\* The setters of NearBuilder; credentials is the one that can fail.
Configure(b, o) ==
    CASE ~b.ok -> b
      [] b.ok /\ o.op = "credentials" ->
            LET s == InMemorySigner(o.account, o.key)
            IN  IF s.ok THEN Ok([b.value EXCEPT !.signer = s.value]) ELSE s
      [] b.ok /\ o.op # "credentials" -> Ok([b.value EXCEPT ![o.op] = o.value])

\* NEAR_NETWORK and NEAR_CHAIN_ID.
Preset(env) ==
    LET named(default) == IF env.chain = Unset THEN default ELSE env.chain
    IN  CASE env.network = "mainnet" -> NearBuilder("mainnet url", named("mainnet"))
          [] env.network \in {"testnet", Unset} -> NearBuilder("testnet url", named("testnet"))
          [] OTHER -> NearBuilder(env.network, named("custom"))

\* Near::from_env.
from_env(env) ==
    LET signed ==
            CASE env.account = Unset /\ env.key = Unset -> Ok(Preset(env))
              [] env.account # Unset /\ env.key # Unset ->
                    Configure(Ok(Preset(env)), [op |-> "credentials", account |-> env.account, key |-> env.key])
              [] OTHER -> Fail("config")
    IN  CASE ~signed.ok \/ env.retries = Unset -> signed
          [] signed.ok /\ env.retries = "bad" -> Fail("config")
          [] OTHER -> Ok([signed.value EXCEPT !.max_nonce_retries = env.retries])

\* SandboxBuilder, in Sandbox::start: the names of the real networks and a
\* malformed root account panic.
SandboxBuilder(root, chain) ==
    IF root = "bad" \/ chain \in {"mainnet", "testnet"} THEN Fail("panic")
    ELSE Ok([root |-> IF root = Unset THEN "sandbox" ELSE root, chain |-> chain])

\* Near::sandbox of a running sandbox.
sandbox(network) ==
    [NearBuilder("sandbox url", IF network.chain = Unset THEN "sandbox" ELSE network.chain)
        EXCEPT !.signer = Signer(network.root, <<"k1">>)]

\* Near::with_signer, which shares the RpcClient.
with_signer(near, signer) == [near EXCEPT !.signer = signer]

\* Near::account_id.
account_id(near) == IF near.signer = NoSigner THEN Fail("panic") ELSE Ok(near.signer.account)
-----------------------------------------------------------------------------
(* Known tokens: their chains. *)

KnownTokens == [USDC |-> {"mainnet", "testnet"}, USDT |-> {"mainnet"}, W_NEAR |-> {"mainnet", "testnet"}]

\* KnownToken::resolve; the address is named by token and chain.
resolve(token, chain) ==
    IF chain \in KnownTokens[token] THEN Ok([token |-> token, chain |-> chain]) ELSE Fail("TokenNotAvailable")

\* Near::ft and Near::nft: the handle keeps the client's signer and limit.
ft(near, token) ==
    LET contract == resolve(token, near.chain)
    IN  IF contract.ok
        THEN Ok([contract |-> contract.value, url |-> near.url, signer |-> near.signer,
                 max_nonce_retries |-> near.max_nonce_retries])
        ELSE contract
-----------------------------------------------------------------------------
(* Exercise. *)

Envs == [network : {Unset, "mainnet", "testnet"} \cup Urls, chain : {Unset, "mainnet"} \cup ChainIds,
         account : {Unset, "u", "bad"}, key : {Unset, "k1", "bad"}, retries : {Unset, "0", "bad"}]

Files == [readable : BOOLEAN, fields : SUBSET {"private_key", "secret_key", "public_key"}, key : Secrets \cup {"bad"}]

LoneSigners == [account : {"u", "v"}, keys : {<<k>> : k \in Secrets}]

ConfigureClient == Given("none") /\ \E env \in Envs : input' = [of |-> "client", env |-> env]

LoadSigner ==
    /\ Given("none")
    /\ \E file \in Files, account \in {"u", "bad"}, requested \in Secrets :
          input' = [of |-> "signer", file |-> file, account |-> account, requested |-> requested]

Rotate ==
    /\ Given("none")
    /\ \E n \in 0 .. MaxSigners : \E signers \in [1 .. n -> LoneSigners] : input' = [of |-> "rotation", signers |-> signers]
-----------------------------------------------------------------------------
(* Properties. *)

\* from_env gives the client its variables describe, or an error: half of a
\* pair of credentials or a malformed value never yields a client, and an
\* explicit chain id holds for every network.
EnvAsWritten ==
    Given("client") =>
        LET env == input.env
            near == from_env(env)
            custom == env.network \notin {Unset, "mainnet", "testnet"}
        IN  /\ near.ok <=> /\ env.account = Unset <=> env.key = Unset
                           /\ "bad" \notin {env.account, env.key, env.retries}
            /\ near.ok =>
                 /\ near.value.chain = IF env.chain # Unset THEN env.chain
                                       ELSE IF env.network = Unset THEN "testnet"
                                       ELSE IF custom THEN "custom" ELSE env.network
                 /\ custom <=> near.value.url = env.network
                 /\ near.value.signer = IF env.key = Unset THEN NoSigner ELSE Signer(env.account, <<env.key>>)

\* A client derived for another signer talks to the same node about the same
\* chain with the same retry limit: its transactions share the nonce slots of
\* the original, which NoncesNeverCollide of TransactionSendProofs needs.
DerivedClientsShareSlots ==
    Given("client") /\ from_env(input.env).ok =>
        LET near == from_env(input.env).value
        IN  \A s \in LoneSigners :
                /\ [with_signer(near, s) EXCEPT !.signer = near.signer] = near
                /\ account_id(with_signer(near, s)) = Ok(s.account)

\* A known token is never looked up at an address of another chain than the
\* client's, and is refused on a chain it was not deployed to: no sandbox that
\* starts is taken for a real network.
TokensOfTheChain ==
    Given("client") /\ from_env(input.env).ok =>
        LET near == from_env(input.env).value
        IN  \A token \in DOMAIN KnownTokens :
                /\ ft(near, token).ok => ft(near, token).value.contract.chain = near.chain
                /\ near.chain \notin {"mainnet", "testnet"} => ~ft(near, token).ok
                /\ LET started == SandboxBuilder(input.env.account, input.env.chain)
                   IN  started.ok => ~ft(sandbox(started.value), token).ok

\* A signer loaded from the keyring signs with the key that was asked for,
\* whatever the entry holds.
KeyringKeyIsRequested ==
    Given("signer") =>
        LET loaded == KeyringSigner(input.file, input.account, PublicOf(input.requested))
        IN  loaded.ok => loaded.value.keys = <<input.requested>>

\* Every way to load one account's key, when it succeeds, gives the same
\* signer.
SourcesAgree ==
    Given("signer") =>
        LET f == input.file
            loaded == {s \in {FileSigner(f, input.account), EnvSigner(input.account, f.key),
                              InMemorySigner(input.account, f.key),
                              KeyringSigner(f, input.account, PublicOf(input.requested))} : s.ok}
        IN  /\ Cardinality(loaded) <= 1
            /\ f.key = "bad" \/ input.account = "bad" => loaded = {}

\* A rotation never mixes accounts: each key it rotates over belongs to the
\* account it signs for, none is left out, and splitting the rotation gives
\* the signers it was made of.
RotationOfOneAccount ==
    Given("rotation") =>
        LET r == from_signers(input.signers)
        IN  r.ok => into_per_key_signers(r.value) = input.signers

\* A client and its signers are what the environment, the files, the keyring
\* and the caller asked for, or an error: never half of it, never another
\* network, account or key.
ConfiguredAsAsked ==
    /\ EnvAsWritten
    /\ DerivedClientsShareSlots
    /\ TokensOfTheChain
    /\ KeyringKeyIsRequested
    /\ SourcesAgree
    /\ RotationOfOneAccount
=============================================================================
