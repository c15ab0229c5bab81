---------------------------- MODULE ConfigSource ----------------------------
(***************************************************************************)
(* internal/config/config.go and internal/database/database.go: what a     *)
(* configuration file, the environment and the files it names come to, and *)
(* which connections the pool makes from it.                               *)
(*                                                                         *)
(* A YAML node is a record: [kind |-> "scalar", value], [kind |-> "mapping",*)
(* content] with content a sequence of pairs <<key, node>>, or a record of *)
(* another kind.  A file is [text, pem]: its text without the line breaks  *)
(* at its end, and the PEM items found in it.  Which of several mistakes   *)
(* is reported is left out: a document is accepted or it is not.           *)
(***************************************************************************)
EXTENDS Integers, Sequences, FiniteSets, SequencesExt

CONSTANTS
    Number,     \* strconv.Atoi: the texts it accepts |-> their value
    Multiline,  \* texts with a line break in them
    URLHosts,   \* hosts that make a URL pgx.ParseConfig can read
    KeyPairs    \* pairs of files that tls.LoadX509KeyPair accepts

SSLModes == {"disable", "allow", "prefer", "require", "verify-ca",
             "verify-full"}

-----------------------------------------------------------------------------
(* Nodes.                                                                  *)

\* Of a repeated key the last one counts.
requiredMapping(node) ==
    [k \in {node.content[i][1] : i \in DOMAIN node.content} |->
        node.content[Max({i \in DOMAIN node.content :
                             node.content[i][1] = k})][2]]

\* requiredMapping and rejectUnknownFields without an error.
IsMapping(node, allowed) ==
    /\ node.kind = "mapping"
    /\ DOMAIN requiredMapping(node) \subseteq allowed

requiredScalarString(node) == node.kind = "scalar" /\ node.value # ""

requiredStringField(fields, key) ==
    key \in DOMAIN fields /\ requiredScalarString(fields[key])

Ports == 1..65535

requiredPortField(fields) ==
    /\ "port" \in DOMAIN fields
    /\ fields["port"].kind = "scalar"
    /\ fields["port"].value \in DOMAIN Number
    /\ Number[fields["port"].value] \in Ports

requiredSSLModeField(fields) ==
    requiredStringField(fields, "sslmode") /\ fields["sslmode"].value \in SSLModes

-----------------------------------------------------------------------------
(* Credentials.                                                            *)

CredentialSources == {"value", "env-ref", "secret-file"}

\* Every source that is there is checked, and there must be exactly one.
parseCredentialSource(node) ==
    /\ IsMapping(node, CredentialSources)
    /\ \A s \in DOMAIN requiredMapping(node) :
          requiredScalarString(requiredMapping(node)[s])
    /\ Cardinality(DOMAIN requiredMapping(node)) = 1

\* An unreadable file and a variable that is not set give no text.
readSecretFile(files, path) ==
    IF path \in DOMAIN files THEN files[path].text ELSE ""

resolveCredentialSource(node, env, files) ==
    LET source == CHOOSE s \in DOMAIN requiredMapping(node) : TRUE
        payload == requiredMapping(node)[source].value
    IN  CASE source = "value" -> payload
          [] source = "env-ref" ->
                IF payload \in DOMAIN env THEN env[payload] ELSE ""
          [] source = "secret-file" -> readSecretFile(files, payload)

requiredCredentialField(fields, key, env, files) ==
    /\ key \in DOMAIN fields
    /\ parseCredentialSource(fields[key])
    /\ resolveCredentialSource(fields[key], env, files) # ""

-----------------------------------------------------------------------------
(* TLS files.                                                              *)

TLSKeys == {"ca_cert", "cert", "key"}

\* The paths of optionalTLSField, "" where there is none.
TLS(fields) ==
    LET tls == IF "tls" \in DOMAIN fields THEN requiredMapping(fields["tls"])
                                          ELSE <<>>
    IN  [k \in TLSKeys |-> IF k \in DOMAIN tls THEN tls[k].value ELSE ""]

optionalPathStringField(node) ==
    requiredScalarString(node) /\ node.value \notin Multiline

optionalTLSField(fields) ==
    "tls" \in DOMAIN fields =>
       /\ IsMapping(fields["tls"], TLSKeys)
       /\ \A k \in DOMAIN requiredMapping(fields["tls"]) :
             optionalPathStringField(requiredMapping(fields["tls"])[k])

validateSourceTLS(sslMode, tls) ==
    /\ sslMode = "disable" => \A k \in TLSKeys : tls[k] = ""
    /\ (tls["cert"] = "") <=> (tls["key"] = "")

-----------------------------------------------------------------------------
(* The source, and the file it stands in.                                  *)

SourceKeys == {"host", "port", "sslmode", "username", "password", "dbname",
               "tls"}

parseSource(node, env, files) ==
    LET fields == requiredMapping(node) IN
    /\ IsMapping(node, SourceKeys)
    /\ requiredStringField(fields, "host")
    /\ requiredPortField(fields)
    /\ requiredSSLModeField(fields)
    /\ requiredCredentialField(fields, "username", env, files)
    /\ requiredCredentialField(fields, "password", env, files)
    /\ requiredStringField(fields, "dbname")
    /\ optionalTLSField(fields)
    /\ validateSourceTLS(fields["sslmode"].value, TLS(fields))

Source(node, env, files) ==
    LET fields == requiredMapping(node)
    IN  [host |-> fields["host"].value,
         port |-> Number[fields["port"].value],
         sslmode |-> fields["sslmode"].value,
         username |-> resolveCredentialSource(fields["username"], env, files),
         password |-> resolveCredentialSource(fields["password"], env, files),
         dbname |-> fields["dbname"].value,
         tls |-> TLS(fields)]

parseConfigDocument(root, env, files) ==
    /\ IsMapping(root, {"source"})
    /\ "source" \in DOMAIN requiredMapping(root)
    /\ parseSource(requiredMapping(root)["source"], env, files)

\* The file is the sequence of its documents, of which the decoder is asked
\* for the first; <<>> is a file that is missing or holds none.
Load(documents, env, files) ==
    /\ documents # <<>>
    /\ Head(documents).kind # "malformed"
    /\ parseConfigDocument(Head(documents), env, files)

-----------------------------------------------------------------------------
(***************************************************************************)
(* database.Open.  A connection is attempted with each of a sequence of    *)
(* TLSConfigs: Plain for a nil one, which is a connection in the clear, or *)
(* the fields of a tls.Config that decide whether a handshake can be made  *)
(* and whom it trusts.  Root certificates are those of the system, the     *)
(* nil of RootCAs, or those of the bundle.                                 *)
(***************************************************************************)
Plain == [kind |-> "plain"]

EmptyTLSConfig ==
    [kind |-> "tls", serverName |-> "", insecureSkipVerify |-> FALSE,
     rootCAs |-> "system", verifyPeerCertificate |-> "none", certificate |-> ""]

(***************************************************************************)
(* pgx.ParseConfig: a mode short of verify-full turns the verification of  *)
(* crypto/tls off, and verify-ca has a callback instead, which verifies    *)
(* against the roots of the configuration it was made for, whatever is     *)
(* done to a clone of it.                                                  *)
(***************************************************************************)
ParsedTLS(sslMode) ==
    [EmptyTLSConfig EXCEPT
       !.serverName = "host",
       !.insecureSkipVerify = sslMode # "verify-full",
       !.verifyPeerCertificate = IF sslMode = "verify-ca" THEN "system" ELSE "none"]

\* The attempts it makes of a mode: TLSConfig and the Fallbacks, in order.
ParsedAttempts(sslMode) ==
    CASE sslMode = "disable" -> <<Plain>>
      [] sslMode = "allow" -> <<Plain, ParsedTLS(sslMode)>>
      [] sslMode = "prefer" -> <<ParsedTLS(sslMode), Plain>>
      [] OTHER -> <<ParsedTLS(sslMode)>>

hasTLS(tls) == \E k \in TLSKeys : tls[k] # ""

(***************************************************************************)
(* loadRootCAs walks the items of the file: a certificate of an authority, *)
(* a leaf, a block of another type, a certificate that does not parse.     *)
(* Junk before a block is skipped; after the last one it is an error.      *)
(***************************************************************************)
PEMItems == {"authority", "leaf", "other", "broken", "junk"}

Walk(found, item) ==
    IF found = "error" \/ item \in {"other", "broken"} THEN "error"
    ELSE IF found = "authority" \/ item = "authority" THEN "authority"
    ELSE IF item = "leaf" THEN "leaf" ELSE found

loadRootCAs(files, path) ==
    /\ path \in DOMAIN files
    /\ FoldLeft(Walk, "nothing", files[path].pem) = "authority"
    /\ Last(files[path].pem) # "junk"

\* buildTLSConfig without an error: the files it reads are fit for use.
TLSFilesLoad(files, tls) ==
    /\ tls["ca_cert"] # "" => loadRootCAs(files, tls["ca_cert"])
    /\ tls["cert"] # "" => <<tls["cert"], tls["key"]>> \in KeyPairs

\* A clone of the first attempt's configuration with the files put into it.
buildTLSConfig(tls, base) ==
    [(IF base = Plain THEN EmptyTLSConfig ELSE base) EXCEPT
        !.rootCAs = IF tls["ca_cert"] # "" THEN "bundle" ELSE @,
        !.certificate = IF tls["cert"] # "" THEN tls["cert"] ELSE @]

\* newConnConfig without an error.
Opens(source, files) ==
    /\ source.host \in URLHosts
    /\ hasTLS(source.tls) => TLSFilesLoad(files, source.tls)

\* The attempts of a connection; with TLS files there are no Fallbacks.
newConnConfig(source) ==
    LET parsed == ParsedAttempts(source.sslmode)
    IN  IF hasTLS(source.tls) THEN <<buildTLSConfig(source.tls, Head(parsed))>>
                              ELSE parsed

-----------------------------------------------------------------------------
(* What crypto/tls makes of an attempt.                                    *)

\* A handshake needs a name to verify or no verification at all.
CanConnect(attempt) ==
    attempt = Plain \/ attempt.serverName # "" \/ attempt.insecureSkipVerify

\* The roots that the server's certificate is verified against.
Consulted(attempt) ==
    IF attempt = Plain THEN {}
    ELSE (IF attempt.insecureSkipVerify THEN {} ELSE {attempt.rootCAs}) \cup
         ({attempt.verifyPeerCertificate} \ {"none"})
=============================================================================
