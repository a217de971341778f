----------------------------- MODULE Connecting -----------------------------
(***************************************************************************)
(* A deploy target's config and the clients made from it: what Validate    *)
(* refuses before anything is dialled, which files on piped's host making  *)
(* a client reads, and what the client then shows for a password.          *)
(***************************************************************************)
EXTENDS Provider

\* Each file is missing, there but without anything usable in it, or good.
FileNames  == {"tlsCA", "tlsKeyPair", "saslPassword", "registryPassword", "registryCA"}
FileStates == {"missing", "blank", "good"}
Host       == [FileNames -> FileStates]

\* None where a part is not configured; otherwise which of its fields are set.
TargetConfig ==
    [brokers: BOOLEAN,
     tls: [ca: BOOLEAN, cert: BOOLEAN, key: BOOLEAN] \union {None},
     sasl: [mechanismKnown: BOOLEAN, username: BOOLEAN,
            password: BOOLEAN, passwordFile: BOOLEAN] \union {None},
     schemaRegistry: [url: BOOLEAN, username: BOOLEAN, password: BOOLEAN,
                      passwordFile: BOOLEAN, ca: BOOLEAN] \union {None}]

OneSecretAtMost(c) == ~(c.password /\ c.passwordFile)
NamesSecret(c)     == c.password \/ c.passwordFile

ValidSASL(c) ==
    c.mechanismKnown /\ c.username /\ OneSecretAtMost(c) /\ NamesSecret(c)

ValidRegistry(c) == c.url /\ OneSecretAtMost(c)

ValidConfig(config) ==
    /\ config.brokers
    /\ config.sasl # None => ValidSASL(config.sasl)
    /\ config.schemaRegistry # None => ValidRegistry(config.schemaRegistry)

\* The files a client's making may read.
Named(config) ==
    LET tls == config.tls  sasl == config.sasl  registry == config.schemaRegistry
    IN  {f \in FileNames :
            \/ f = "tlsCA" /\ tls # None /\ tls.ca
            \/ f = "tlsKeyPair" /\ tls # None /\ tls.cert /\ tls.key
            \/ f = "saslPassword" /\ sasl # None /\ sasl.passwordFile
            \/ f = "registryPassword" /\ registry # None /\ registry.passwordFile
            \/ f = "registryCA" /\ registry # None /\ registry.ca}

-----------------------------------------------------------------------------
\* Mutant: a password file is taken as it is.
ResolveSecretUnchecked(c, file, host) ==
    IF c.password THEN "secret"
    ELSE CASE host[file] = "missing" -> "error"
           [] host[file] = "blank" -> "blank"
           [] host[file] = "good" -> "secret"

\* The secret, or an error.
ResolveSecret(c, file, host) ==
    IF c.password \/ host[file] = "good" THEN "secret" ELSE "error"

\* newKgoClient: what the client shows the brokers.
BrokerClient(config, host) ==
    LET tls == config.tls
        tlsFails == /\ tls # None
                    /\ \/ tls.ca /\ host["tlsCA"] # "good"
                       \/ tls.cert # tls.key
                       \/ tls.cert /\ host["tlsKeyPair"] # "good"
    IN  IF tlsFails THEN "error"
        ELSE IF config.sasl = None THEN "nothing"
        ELSE ResolveSecret(config.sasl, "saslPassword", host)

\* NewRegistry: without a secret there is none to read.  A username by itself,
\* which validate lets pass, is sent with a blank password.
RegistryClient(c, host) ==
    LET shows == IF NamesSecret(c) THEN ResolveSecret(c, "registryPassword", host)
                 ELSE IF c.username THEN "blank" ELSE "nothing"
    IN  IF c.ca /\ host["registryCA"] # "good" THEN "error" ELSE shows
=============================================================================
