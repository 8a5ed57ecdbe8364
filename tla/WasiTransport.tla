---------------------------- MODULE WasiTransport ----------------------------
(***************************************************************************)
(* client/transport.rs: the wasi:http transport, which takes a URL apart   *)
(* by hand and runs one blocking exchange with the host.  Text is a        *)
(* sequence of bytes; the scheme is kept apart from the rest of the URL.   *)
(***************************************************************************)
EXTENDS Inputs, FiniteSets, SequencesExt

CONSTANTS
    MaxUrl,          \* bound on the bytes of an exercised URL after ://
    MaxChunks        \* bound on the chunks of a body

ASSUME WasiAssumption == MaxUrl \in Nat /\ MaxChunks \in Nat

Slash == 47
Query == 63
Hash == 35
At == 64
Colon == 58
Percent == 37

Prefix(s, n) == SubSeq(s, 1, n)
Suffix(s, n) == SubSeq(s, n, Len(s))

\* 0-9, A-F, a-f.
hex_val(b) ==
    CASE b \in 48 .. 57 -> b - 48
      [] b \in 97 .. 102 -> b - 87
      [] b \in 65 .. 70 -> b - 55
      [] OTHER -> 16

\* An escape that is cut short or not hexadecimal passes through.
percent_decode(s) ==
    LET escape(i) == s[i] = Percent /\ i + 2 <= Len(s) /\ hex_val(s[i + 1]) < 16 /\ hex_val(s[i + 2]) < 16
        from[i \in 1 .. Len(s) + 1] ==
            IF i > Len(s) THEN <<>>
            ELSE IF escape(i) THEN <<16 * hex_val(s[i + 1]) + hex_val(s[i + 2])>> \o from[i + 3]
            ELSE <<s[i]>> \o from[i + 1]
    IN  from[1]

\* The credentials of an Authorization: Basic header; <<>> without userinfo.
basic_auth(userinfo) ==
    LET colon == SelectInSeq(userinfo, LAMBDA b : b = Colon)
    IN  CASE userinfo = <<>> -> <<>>
          [] userinfo # <<>> /\ colon = 0 -> percent_decode(userinfo) \o <<Colon>>
          [] OTHER -> percent_decode(Prefix(userinfo, colon - 1)) \o <<Colon>>
                          \o percent_decode(Suffix(userinfo, colon + 1))

\* The authority ends at the first of these.
AuthorityEnds(b) == b \in {Slash, Query, Hash}

\* Authority, then the tail.
Halves(rest) ==
    LET end == SelectInSeq(rest, AuthorityEnds)
    IN  IF end = 0 THEN [authority |-> rest, tail |-> <<>>]
        ELSE [authority |-> Prefix(rest, end - 1), tail |-> Suffix(rest, end)]

\* What of the tail is sent: the fragment never is.
path_with_query(tail) ==
    LET hash == SelectInSeq(tail, LAMBDA b : b = Hash)
        sent == IF hash = 0 THEN tail ELSE Prefix(tail, hash - 1)
    IN  IF sent = <<>> \/ sent[1] = Query THEN <<Slash>> \o sent ELSE sent

split_url(url) ==
    LET halves == Halves(url.rest)
        at == SelectLastInSeq(halves.authority, LAMBDA b : b = At)
        host == Suffix(halves.authority, at + 1)
    IN  CASE url.scheme = "missing" -> Fail("missing scheme")
          [] url.scheme \notin {"missing", "http", "https"} -> Fail("scheme must be http or https")
          [] url.scheme \in {"http", "https"} /\ host = <<>> -> Fail("missing host")
          [] OTHER -> Ok([scheme |-> url.scheme, authority |-> host, path |-> path_with_query(halves.tail),
                          authorization |-> IF at = 0 THEN <<>> ELSE basic_auth(Prefix(halves.authority, at - 1))])
-----------------------------------------------------------------------------
(* The exchange with the host.  `fault` is the first call of the host's    *)
(* interface that fails, with the error code where it reports one.         *)

\* The codes that say the request itself is unacceptable.
DeniedCodes == {"HttpRequestDenied", "HttpRequestLengthRequired", "HttpRequestBodySize",
    "HttpRequestMethodInvalid", "HttpRequestUriInvalid", "HttpRequestUriTooLong",
    "HttpRequestHeaderSectionSize", "HttpRequestHeaderSize", "HttpRequestTrailerSectionSize",
    "HttpRequestTrailerSize", "LoopDetected", "ConfigurationError"}

ReachCodes == {"DnsTimeout", "ConnectionRefused", "ConnectionTerminated", "HttpProtocolError", "InternalError"}

is_retryable_error_code(code) == code \notin DeniedCodes

\* The calls before a byte is sent, in order, and the ones around the answer.
Refusals == {"headers", "method", "scheme", "authority", "path", "body"}
CodedCalls == {"handle", "finish", "response"}
Consumed == {"write stream", "consumed twice", "consume", "read stream"}
Broken == {"write", "not ready", "read"}

\* The chunks read until the stream is closed.
ReadAll(answer) ==
    LET buf[n \in 0 .. Len(answer.chunks)] == IF n = 0 THEN <<>> ELSE buf[n - 1] \o answer.chunks[n]
    IN  buf[Len(answer.chunks)]

network(retryable) == Fail([kind |-> "Network", retryable |-> retryable])

\* Variant: an answer that breaks off is taken as it is.
exchange_partial(url, host) ==
    CASE ~split_url(url).ok -> network(FALSE)
      [] split_url(url).ok /\ host.fault \in Refusals \cup Consumed -> network(FALSE)
      [] split_url(url).ok /\ host.fault \in CodedCalls -> network(is_retryable_error_code(host.code))
      [] split_url(url).ok /\ host.fault \in Broken \ {"read"} -> network(TRUE)
      [] OTHER -> Ok([status |-> host.status, body |-> ReadAll(host)])

\* exchange; any status is an answer.
exchange(url, host) ==
    CASE ~split_url(url).ok -> network(FALSE)
      [] split_url(url).ok /\ host.fault \in Refusals \cup Consumed -> network(FALSE)
      [] split_url(url).ok /\ host.fault \in CodedCalls -> network(is_retryable_error_code(host.code))
      [] split_url(url).ok /\ host.fault \in Broken -> network(TRUE)
      [] OTHER -> Ok([status |-> host.status, body |-> ReadAll(host)])
-----------------------------------------------------------------------------
(* Exercise. *)

UrlBytes == {104, Slash, Query, Hash, At, Colon}

SplitUrl ==
    /\ Given("none")
    /\ \E scheme \in {"http", "https", "ftp", "missing"}, n \in 0 .. MaxUrl : \E rest \in [1 .. n -> UrlBytes] :
          input' = [of |-> "url", scheme |-> scheme, rest |-> rest]

\* Credentials with the bytes that must be escaped in a URL, and digits.
Credentials == UNION {[1 .. n -> {At, Colon, Percent, Slash, 52, 97}] : n \in 0 .. 2}

Login ==
    /\ Given("none")
    /\ \E user \in Credentials, pass \in Credentials : input' = [of |-> "login", user |-> user, pass |-> pass]

\* `whole` chunks are the answer; it may break off before the last of them.
Exchange ==
    /\ Given("none")
    /\ \E fault \in Refusals \cup CodedCalls \cup Consumed \cup Broken \cup {"none"},
          code \in DeniedCodes \cup ReachCodes, status \in {200, 429, 500},
          good \in BOOLEAN, n \in 0 .. MaxChunks, whole \in 0 .. MaxChunks :
          /\ IF fault = "read" THEN n < whole ELSE n = whole
          /\ input' = [of |-> "exchange", url |-> [scheme |-> IF good THEN "http" ELSE "ftp", rest |-> <<104>>],
                       whole |-> whole,
                       host |-> [fault |-> fault, code |-> code, status |-> status,
                                 chunks |-> [i \in 1 .. n |-> <<i>>]]]
-----------------------------------------------------------------------------
(* Properties. *)

\* split_url: what goes on the wire is the URL without its fragment and its
\* userinfo, put back together from the parts; neither a separator nor a
\* credential ends up in the host.
UrlOnTheWire ==
    Given("url") =>
        LET parts == split_url(input)
        IN  parts.ok =>
              LET p == parts.value
              IN  /\ ToSet(p.authority) \cap {Slash, Query, Hash, At} = {}
                  /\ p.path[1] = Slash /\ Hash \notin ToSet(p.path)
                  /\ \E i \in 0 .. Len(input.rest) :
                        LET sent == p.authority \o p.path
                            shown == p.authority \o Suffix(p.path, 2)
                            rest == Suffix(input.rest, i + 1)
                        IN  \E text \in {sent, shown} :
                                /\ IsPrefix(text, rest)
                                /\ Len(text) < Len(rest) => rest[Len(text) + 1] = Hash

\* Each byte as its escape: a percent sign and two hexadecimal digits.
Escaped(s) ==
    LET hex(n) == IF n < 10 THEN 48 + n ELSE 55 + n
        byte(i) == s[(i + 2) \div 3]
    IN  [i \in 1 .. 3 * Len(s) |->
            CASE i % 3 = 1 -> Percent
              [] i % 3 = 2 -> hex(byte(i) \div 16)
              [] i % 3 = 0 -> hex(byte(i) % 16)]

\* basic_auth: credentials with any bytes, escaped the way a URL needs, reach
\* the server as they were, as they do with reqwest on the other targets.
CredentialsArrive ==
    Given("login") =>
        LET url == [scheme |-> "https",
                    rest |-> Escaped(input.user) \o <<Colon>> \o Escaped(input.pass) \o <<At, 104>>]
        IN  /\ split_url(url).value.authorization = input.user \o <<Colon>> \o input.pass
            /\ split_url(url).value.authority = <<104>>

\* exchange: an answer is only handed to the RPC layer whole; one that breaks
\* off is a network error, never a shorter answer.
AnswersAreWhole ==
    Given("exchange") =>
        LET result == exchange(input.url, input.host)
        IN  result.ok => Len(result.value.body) = input.whole /\ result.value.status = input.host.status

\* exchange: the retry loop never repeats a request the URL or the host's
\* verdict on the request itself already decides.
RefusalsAreFinal ==
    Given("exchange") =>
        LET result == exchange(input.url, input.host)
        IN  /\ ~exchange(input.url, [input.host EXCEPT !.fault = "none"]).ok =>
                    ~result.ok /\ ~result.error.retryable
            /\ input.host.fault \in CodedCalls /\ input.host.code \in DeniedCodes =>
                    ~result.ok /\ ~result.error.retryable
            /\ input.host.fault = "response" /\ input.host.code \in ReachCodes /\ split_url(input.url).ok =>
                    result.error.retryable

\* A request goes to the host, path and credentials of its URL, its answer
\* comes back whole or as an error, and only what may come out otherwise is
\* asked again.
ExchangesAreWhole ==
    /\ UrlOnTheWire
    /\ CredentialsArrive
    /\ AnswersAreWhole
    /\ RefusalsAreFinal
=============================================================================
