--------------------------- MODULE MCPreparation ---------------------------
(***************************************************************************)
(* Calls of ExecuteStage for Preparation: one sound deploy target with     *)
(* every small application, and a few applications with every kind of      *)
(* deploy target and every state of the files on the host.                 *)
(***************************************************************************)
EXTENDS Preparation

MCTopics   == {1, 2}
MCKeys     == {"retention"}
MCValues   == {"v1", "v2"}
MCSubjects == {"s"}
MCBodies   == {"b1"}
MCLevels   == {"BACKWARD"}
MCSubjectLevel == [s \in MCSubjects |-> "BACKWARD"]
MCCompatibleAt == [l \in MCLevels |-> {}]
MCSchemaFiles  == {"inside", "missing", "outside"}

Cfg(v) == [k \in MCKeys |-> v]
Comments   == [name |-> None, partitions |-> 0, replicationFactor |-> 0, config |-> None,
               schema |-> None]
Doc(t)     == [Comments EXCEPT !.name = t, !.partitions = 1, !.replicationFactor = 1]
Schema1(f) == [subject |-> "s", file |-> f, typeKnown |-> TRUE]

Documents ==
    {Comments, Doc(1), Doc(2), Doc(None),
     [Doc(1) EXCEPT !.partitions = 0],
     [Doc(1) EXCEPT !.config = Cfg("v1"), !.replicationFactor = 0],
     [Doc(1) EXCEPT !.partitions = -1],
     [Doc(2) EXCEPT !.config = Cfg(None), !.schema = Schema1("inside")],
     [Doc(2) EXCEPT !.schema = Schema1("missing")],
     [Doc(2) EXCEPT !.schema = Schema1("outside")],
     [Doc(2) EXCEPT !.schema = [Schema1("inside") EXCEPT !.subject = None]],
     [Comments EXCEPT !.schema = Schema1("inside")]}

NoDefaults == [partitions |-> 0, replicationFactor |-> 0, config |-> Cfg(None)]
SomeDefaults == [partitions |-> 2, replicationFactor |-> 1, config |-> Cfg("v2")]

YAML(docs) == [yaml |-> TRUE, readable |-> TRUE, documents |-> docs]
Broken    == [YAML(<<>>) EXCEPT !.readable = FALSE]
Directory == [YAML(<<Doc(1)>>) EXCEPT !.yaml = FALSE]

App(dir, owned, defaults) ==
    [specReadable |-> TRUE, ownership |-> owned, defaults |-> defaults, entries |-> dir,
     schemas |-> [f \in MCSchemaFiles |-> IF f = "missing" THEN None ELSE "b1"],
     outside |-> {"outside"}]

\* Up to three documents in two files, beside an entry that is neither.
Directories ==
    {<<Directory, YAML(d), YAML(e)>> :
        d \in {<<>>} \union {<<x>> : x \in Documents} \union (Documents \X Documents),
        e \in {<<>>} \union {<<x>> : x \in Documents}}
    \union {<<Broken, YAML(<<Doc(1)>>)>>, <<YAML(<<Doc(1)>>), Broken>>}

Apps == {App(e, MCTopics, x) : e \in Directories, x \in {NoDefaults, SomeDefaults}}
        \union {App(<<YAML(<<x>>), YAML(<<y>>)>>, {1}, SomeDefaults) :
                    x \in Documents, y \in Documents}

Simple == App(<<YAML(<<Doc(1)>>)>>, {1}, NoDefaults)
FewApps == {Simple, [Simple EXCEPT !.specReadable = FALSE], [Simple EXCEPT !.entries = None]}

TLS(ca, cert, key) == [ca |-> ca, cert |-> cert, key |-> key]
Password == [mechanismKnown |-> TRUE, username |-> TRUE, password |-> TRUE,
             passwordFile |-> FALSE]
InFile   == [Password EXCEPT !.password = FALSE, !.passwordFile = TRUE]
Registry == [url |-> TRUE, username |-> TRUE, password |-> FALSE, passwordFile |-> TRUE,
             ca |-> TRUE]
Sound    == [brokers |-> TRUE, tls |-> TLS(TRUE, TRUE, TRUE), sasl |-> InFile,
             schemaRegistry |-> Registry]

Configs ==
    {Sound, [Sound EXCEPT !.brokers = FALSE],
     [Sound EXCEPT !.tls = None, !.schemaRegistry = None],
     [Sound EXCEPT !.tls = TLS(FALSE, TRUE, FALSE)],
     [Sound EXCEPT !.sasl = None], [Sound EXCEPT !.sasl = Password],
     [Sound EXCEPT !.sasl.password = TRUE],
     [Sound EXCEPT !.sasl.passwordFile = FALSE],
     [Sound EXCEPT !.sasl.username = FALSE],
     [Sound EXCEPT !.tls = None, !.schemaRegistry.passwordFile = FALSE],
     [Sound EXCEPT !.tls = None, !.schemaRegistry.username = FALSE,
                   !.schemaRegistry.passwordFile = FALSE],
     [Sound EXCEPT !.schemaRegistry.url = FALSE]}

Call(stage, config, app) ==
    [stage |-> stage, targets |-> 1, config |-> config, optionsDecode |-> TRUE,
     running |-> TRUE, app |-> app]

Calls ==
    {Call(s, c, a) : s \in Stages, c \in Configs, a \in FewApps}
    \union {[Call(s, c, Simple) EXCEPT !.running = FALSE] :
                s \in Stages, c \in {Sound, [Sound EXCEPT !.brokers = FALSE]}}
    \union {[Call(s, Sound, Simple) EXCEPT !.targets = n, !.optionsDecode = FALSE] :
                s \in Stages, n \in 0..2}

MCRequests ==
    Calls \union {Call("KAFKA_APPLY", [Sound EXCEPT !.tls = None, !.schemaRegistry = None,
                                                    !.sasl = None], a) : a \in Apps}

NamelessRequests ==
    {Call("KAFKA_APPLY", Sound, App(<<YAML(<<x>>)>>, MCTopics, NoDefaults)) : x \in Documents}

AllGood == [f \in FileNames |-> "good"]
OneHost == {AllGood}
MCHosts == {AllGood} \union {[AllGood EXCEPT ![f] = "blank"] : f \in FileNames}
=============================================================================
