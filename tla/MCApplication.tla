--------------------------- MODULE MCApplication ---------------------------
(***************************************************************************)
(* Instance of Application for TLC: a configuration that is accepted and   *)
(* those that differ from it in up to two places, and one request for each *)
(* way through the handlers.                                               *)
(***************************************************************************)
EXTENDS Application

Scalar(value) == [kind |-> "scalar", value |-> value]
Mapping(content) == [kind |-> "mapping", content |-> content]
Other == [kind |-> "sequence"]

MCNumber == [t \in {"0", "1", "65535", "65536"} |->
                CASE t = "0" -> 0 [] t = "1" -> 1 [] t = "65535" -> 65535
                  [] t = "65536" -> 65536]

MCKeyPairs == {<<"leaf", "key">>}

Env == [SET |-> "secret", EMPTY |-> ""]

Files ==
    [secret |-> [text |-> "secret", pem |-> <<"junk">>],
     breaks |-> [text |-> "", pem |-> <<>>],
     chain |-> [text |-> "x", pem |-> <<"junk", "authority", "leaf">>],
     leaf |-> [text |-> "x", pem |-> <<"leaf">>],
     mixed |-> [text |-> "x", pem |-> <<"authority", "other">>],
     torn |-> [text |-> "x", pem |-> <<"authority", "junk">>],
     key |-> [text |-> "x", pem |-> <<"other">>]]

Credential(kind, payload) == Mapping(<< <<kind, Scalar(payload)>> >>)

\* For every part of the source what may stand there; <<>> is nothing.
Texts == {<<Scalar("h")>>, <<Scalar("")>>, <<Other>>, <<>>}

Credentials ==
    {<<Credential("value", "v")>>, <<Credential("env-ref", "SET")>>,
     <<Credential("env-ref", "EMPTY")>>, <<Credential("env-ref", "UNSET")>>,
     <<Credential("secret-file", "secret")>>,
     <<Credential("secret-file", "breaks")>>,
     <<Mapping(<< <<"value", Scalar("v")>>, <<"env-ref", Scalar("SET")>> >>)>>,
     <<Mapping(<<>>)>>, <<Credential("file", "secret")>>, <<>>}

TLSFiles ==
    {<<>>, <<Mapping(<< <<"ca_cert", Scalar("chain")>> >>)>>,
     <<Mapping(<< <<"ca_cert", Scalar("leaf")>> >>)>>,
     <<Mapping(<< <<"ca_cert", Scalar("mixed")>> >>)>>,
     <<Mapping(<< <<"ca_cert", Scalar("torn")>> >>)>>,
     <<Mapping(<< <<"ca_cert", Scalar("missing")>> >>)>>,
     <<Mapping(<< <<"ca_cert", Scalar("two lines")>> >>)>>,
     <<Mapping(<< <<"cert", Scalar("leaf")>>, <<"key", Scalar("key")>> >>)>>,
     <<Mapping(<< <<"cert", Scalar("leaf")>> >>)>>,
     <<Mapping(<< <<"key", Scalar("key")>> >>)>>}

Parts ==
    [host |-> Texts \cup {<<Scalar("not a host")>>},
     port |-> {<<Scalar("65535")>>, <<Scalar("0")>>, <<Scalar("65536")>>,
               <<Scalar("x")>>, <<>>},
     sslmode |-> {<<Scalar(m)>> : m \in SSLModes} \cup
                 {<<Scalar("other")>>, <<Scalar("disable"), Scalar("prefer")>>},
     username |-> Credentials, password |-> Credentials,
     dbname |-> Texts, tls |-> TLSFiles, extra |-> {<<Scalar("h")>>, <<>>}]

Base ==
    [host |-> <<Scalar("h")>>, port |-> <<Scalar("1")>>,
     sslmode |-> <<Scalar("require")>>,
     username |-> <<Credential("value", "u")>>,
     password |-> <<Credential("secret-file", "secret")>>,
     dbname |-> <<Scalar("d")>>, tls |-> <<>>, extra |-> <<>>]

Order == <<"host", "port", "sslmode", "username", "password", "dbname", "tls",
           "extra">>

\* A part with two nodes is a repeated key.
Document(parts) ==
    Mapping(<< <<"source",
               Mapping(FlattenSeq([i \in DOMAIN Order |->
                  [j \in DOMAIN parts[Order[i]] |->
                      <<Order[i], parts[Order[i]][j]>>]]))>> >>)

Variants ==
    UNION {{[Base EXCEPT ![k] = x, ![l] = y] : x \in Parts[k], y \in Parts[l]} :
              k \in DOMAIN Parts, l \in DOMAIN Parts}

Started(flags, positional, addr, config, documents) ==
    [flags |-> flags, positional |-> positional, addr |-> addr,
     config |-> config, documents |-> documents, env |-> Env, files |-> Files]

MCSetups ==
    {Started("parsed", 0, "a", "c", <<Document(v)>>) : v \in Variants} \cup
    {Started(f, p, a, c, d) :
        f \in {"parsed", "refused"}, p \in {0, 1}, a \in {"a", ""},
        c \in {"c", ""},
        d \in {<<>>, <<[kind |-> "malformed"]>>, <<Other>>, <<Mapping(<<>>)>>,
               <<Mapping(<< <<"more", Other>> >>)>>, <<Document(Base)>>,
               <<Document(Base), Other>>}}

-----------------------------------------------------------------------------
StartBody(profile, clients) ==
    [scale |-> Nil, clients |-> clients, durationSeconds |-> Nil,
     warmupSeconds |-> Nil, reset |-> Nil, profile |-> profile,
     readPercent |-> Nil, transactionMix |-> Nil, targetTPS |-> Nil]

AlterBody(clients) == [clients |-> clients, targetTPS |-> Nil]

Sent(method, path, body) == [method |-> method, path |-> path, body |-> body]

MCRequests ==
    {Sent("POST", "start", StartBody("lock", 2)),
     Sent("POST", "start", StartBody("lock", 1)),
     Sent("POST", "alter", AlterBody(1)), Sent("POST", "alter", AlterBody(3)),
     Sent("POST", "alter", Nil), Sent("POST", "stop", Nil),
     Sent("GET", "stop", Nil), Sent("GET", "metrics", Nil),
     Sent("GET", "readyz", Nil), Sent("OPTIONS", "start", Nil),
     Sent("GET", "other", Nil)}
=============================================================================
