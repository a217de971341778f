------------------------------- MODULE Loading -------------------------------
(***************************************************************************)
(* LoadTopics: from the files of an application to the topics it declares. *)
(*                                                                         *)
(* A file is the sequence of its YAML documents.  Zero, None and an absent *)
(* config stand for fields that are not set, as in the struct a document   *)
(* is decoded into; a config that is set may still set no key.             *)
(***************************************************************************)
EXTENDS Provider, Sequences

CONSTANT SchemaFiles  \* the paths a topic may name as its schema file

Document == [name: Topics \union {None}, partitions: Int, replicationFactor: Int,
             config: Config \union {None},
             schema: [subject: Subjects \union {None}, file: SchemaFiles \union {None},
                      typeKnown: BOOLEAN] \union {None}]

\* An entry of the topics directory: "yaml" is a file with such an ending,
\* "readable" that it can be read and every document in it decoded.
Entry == [yaml: BOOLEAN, readable: BOOLEAN, documents: Seq(Document)]

Defaults == [partitions: Int, replicationFactor: Int, config: Config]

\* What piped checked out: the application config, the topics directory in the
\* order of its names (None when there is none), and the schema files, of which
\* some may lie outside the application directory.
Application ==
    [specReadable: BOOLEAN, ownership: SUBSET Topics, defaults: Defaults,
     entries: Seq(Entry) \union {None},
     schemas: [SchemaFiles -> Bodies \union {None}], outside: SUBSET SchemaFiles]

-----------------------------------------------------------------------------
\* A document taken for one of nothing but comments.
IsZero(d) == d.name = None /\ d.partitions = 0 /\ d.config = None

Stated(d) == ~IsZero(d)

\* Mutant: a document of comments is a topic like any other.
StepsOverNothing(d) == FALSE

\* Which documents of a file parseTopicFile leaves out.
StepsOver(d) == IsZero(d)

ApplyDefaults(d, defaults) ==
    LET set(k) == d.config # None /\ d.config[k] # None
    IN  [d EXCEPT
            !.partitions        = IF @ = 0 THEN defaults.partitions ELSE @,
            !.replicationFactor = IF @ = 0 THEN defaults.replicationFactor ELSE @,
            !.config = [k \in Keys |-> IF set(k) THEN d.config[k] ELSE defaults.config[k]]]

\* Mutant: a count is refused when it is missing, not when it is negative.
ValidateCountsAreSet(d) ==
    /\ d.name # None
    /\ 0 \notin {d.partitions, d.replicationFactor}
    /\ d.schema # None =>
          d.schema.subject # None /\ d.schema.file # None /\ d.schema.typeKnown

Validate(d) ==
    /\ d.name # None
    /\ {d.partitions, d.replicationFactor} \subseteq Positive
    /\ d.schema # None =>
          d.schema.subject # None /\ d.schema.file # None /\ d.schema.typeKnown

SchemaLoads(d, app) ==
    d.schema # None => /\ d.schema.file \notin app.outside
                       /\ app.schemas[d.schema.file] # None

\* A valid document as a topic, with the body of its schema.
TopicOf(d, app) ==
    [partitions |-> d.partitions, replicationFactor |-> d.replicationFactor,
     config |-> d.config,
     schema |-> IF d.schema = None THEN None
                ELSE [subject |-> d.schema.subject, body |-> app.schemas[d.schema.file]]]

\* Mutant: of two documents for one topic, the later one counts.
TakesDocumentLastWins(d, loaded, app) == Validate(d) /\ SchemaLoads(d, app)

\* Whether one more document, with defaults, can be taken.
TakesDocument(d, loaded, app) ==
    Validate(d) /\ loaded[d.name] = None /\ SchemaLoads(d, app)

-----------------------------------------------------------------------------
(***************************************************************************)
(* The same without an order of files and documents.                       *)
(***************************************************************************)
Files(app) == {i \in DOMAIN app.entries : app.entries[i].yaml}

Places(app) == UNION {{i} \X {j \in DOMAIN app.entries[i].documents :
                                Stated(app.entries[i].documents[j])} : i \in Files(app)}

DocumentAt(app, p) == ApplyDefaults(app.entries[p[1]].documents[p[2]], app.defaults)

Loadable(app) ==
    /\ app.specReadable /\ app.entries # None
    /\ \A i \in Files(app) : app.entries[i].readable
    /\ \A p \in Places(app) : LET d == DocumentAt(app, p)
                              IN  Validate(d) /\ SchemaLoads(d, app) /\ d.name \in app.ownership
    /\ \A p, q \in Places(app) : DocumentAt(app, p).name = DocumentAt(app, q).name => p = q

TopicsDeclared(app) ==
    [t \in Topics |->
        IF \E p \in Places(app) : DocumentAt(app, p).name = t
        THEN TopicOf(DocumentAt(app, CHOOSE p \in Places(app) : DocumentAt(app, p).name = t), app)
        ELSE None]

\* The revision an application is to a deployment.
AsRevision(app) ==
    [topics    |-> IF Loadable(app) THEN TopicsDeclared(app) ELSE NoTopics,
     ownership |-> app.ownership,
     loads     |-> Loadable(app)]
=============================================================================
