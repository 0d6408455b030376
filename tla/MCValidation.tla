---------------------------- MODULE MCValidation ----------------------------
(* Setups and worlds for model checking Validation. *)
EXTENDS Validation

Text(t) == [text |-> t, holds |-> {}]
p1 == Text("p1")
p2 == Text("p2")
app == Text("app")
Spaced == [text |-> "p1", holds |-> {"space"}]
Bundle(c) == [text |-> c, holds |-> {"certificate", "key"}]
KeyFirst(c) == [text |-> c, holds |-> {"certificate", "key", "keyFirst"}]

Plain(v) == [json |-> FALSE, value |-> v, object |-> NoData]
JSON(object) == [json |-> TRUE, value |-> Text("json"), object |-> object]

Probe(type, host, port) ==
    [type |-> type, host |-> host, port |-> port, path |-> "", scheme |-> "",
     passwordKey |-> "", usernameKey |-> "", databaseKey |-> ""]

Postgres == [Probe("PostgreSQL", "backend", 6432) EXCEPT !.usernameKey = "db_user", !.passwordKey = "db_pw"]
Health == [Probe("HTTP", "workload", 0) EXCEPT !.scheme = "http"]

\* A database user and password in a JSON object, with an unrelated
\* conventional key.
Database ==
    [type |-> "AzureKeyVault", parseJSON |-> TRUE, certificate |-> FALSE,
     probes |-> <<Postgres, Health>>, cilium |-> TRUE, enforced |-> TRUE, emptyDenies |-> FALSE,
     appKey |-> "db_pw", appUserKey |-> "db_user", appUser |-> Empty, appPort |-> 6432,
     contents |-> {[obj |-> JSON([db_user |-> app, db_pw |-> p1, password |-> p2])],
                   [obj |-> JSON([db_user |-> app, db_pw |-> p2, password |-> p1])],
                   [obj |-> JSON([db_user |-> app, db_pw |-> Empty, password |-> p1])]}]

MCSetups ==
    [cilium   |-> Database,
     standard |-> [Database EXCEPT !.cilium = FALSE],
     denied   |-> [Database EXCEPT !.emptyDenies = TRUE,
                                   !.contents = {[obj |-> JSON([db_user |-> app, db_pw |-> p1])]}],
     lax      |-> [Database EXCEPT !.enforced = FALSE,
                                   !.probes = <<[Postgres EXCEPT !.host = "10.0.0.1"]>>],
     user     |-> [Database EXCEPT !.cilium = FALSE, !.appUserKey = "", !.appUser = app,
                                   !.probes = <<[Postgres EXCEPT !.usernameKey = ""]>>,
                                   !.contents = {[obj |-> JSON([db_pw |-> p])] : p \in {p1, p2}} \cup
                                                {[obj |-> JSON([db_pw |-> p1, username |-> app])]}],
     sole     |-> [Database EXCEPT !.parseJSON = FALSE, !.enforced = FALSE, !.cilium = FALSE,
                                   !.probes = <<Probe("PostgreSQL", "backend", 0)>>,
                                   !.appKey = "obj", !.appUserKey = "", !.appUser = Text("postgres"),
                                   !.appPort = 5432,
                                   !.contents = {[obj |-> Plain(v)] : v \in {p1, p2, Spaced}}],
     mysql    |-> [Database EXCEPT !.type = "K8sSecret", !.parseJSON = FALSE, !.cilium = FALSE,
                                   !.probes = <<[Probe("MySQL", "backend", 3306) EXCEPT
                                                    !.passwordKey = "db_pw"]>>,
                                   !.contents = {[password |-> Plain(p1), db_pw |-> Plain(p2)],
                                                 [db_pw |-> Plain(p2), dbname |-> Plain(Text("appdb"))]},
                                   !.appUserKey = "", !.appUser = app, !.appPort = 3306],
     path     |-> [Database EXCEPT !.type = "K8sSecret", !.parseJSON = FALSE,
                                   !.probes = <<[Probe("MySQL", "backend", 3306) EXCEPT !.path = "appdb"]>>,
                                   !.contents = {[password |-> Plain(p1), user |-> Plain(app)]},
                                   !.appKey = "password", !.appUserKey = "user", !.appPort = 3306],
     root     |-> [Database EXCEPT !.type = "K8sSecret", !.parseJSON = FALSE,
                                   !.probes = <<Probe("MySQL", "backend", 0)>>,
                                   !.contents = {[password |-> Plain(p1), user |-> Plain(app)],
                                                 [password |-> Plain(p2)]},
                                   !.appKey = "password", !.appUserKey = "", !.appUser = app, !.appPort = 3306],
     eso      |-> [Database EXCEPT !.type = "K8sSecret", !.enforced = FALSE,
                                   !.contents = {[a |-> JSON([db_pw |-> p1]), b |-> JSON([db_pw |-> p2])],
                                                 [a |-> JSON([db_pw |-> p1, db_user |-> app]), b |-> Plain(p2)]}],
     tls      |-> [Database EXCEPT !.parseJSON = FALSE, !.certificate = TRUE, !.enforced = FALSE,
                                   !.probes = <<Probe("TLS", "workload", 8443)>>, !.appKey = "tls.crt",
                                   !.contents = {[obj |-> Plain(v)] : v \in {Bundle("c1"), Bundle("c2"), p1}}],
     pinned   |-> [Database EXCEPT !.type = "K8sSecret", !.parseJSON = FALSE, !.enforced = FALSE,
                                   !.probes = <<Probe("TLS", "workload", 8443)>>, !.appKey = "tls.crt",
                                   !.contents = {"tls.crt" :> Plain(KeyFirst("c1")),
                                                 ("tls.crt" :> Plain(Bundle("c1"))) @@ [thumbprint |-> Plain(Text("c2"))]}],
     stub     |-> [Database EXCEPT !.type = "Vault"]]

\* Administrators whose passwords stay.
Administrators == {<<Text("postgres"), p1>>, <<Text("root"), p1>>}

\* A backend that changes its password and moves, or is not found where it
\* was first; one with an incomplete server, for a canary that serves another
\* certificate; and an API server that fails.
MCWorlds ==
    {w \in [accounts : {Administrators \cup {<<app, p>>} : p \in {p1, p2}}, databases : {{"appdb"}},
            requiresTLS : {FALSE}, home : {"10.0.0.1", "10.0.0.2"}, lookup : BOOLEAN, api : BOOLEAN,
            loads : {TRUE}, trusted : {FALSE}, valid : {TRUE}] :
        /\ w.lookup \/ w.home = "10.0.0.1"
        /\ w.api \/ (w.lookup /\ w.home = "10.0.0.1" /\ <<app, p1>> \in w.accounts)}
    \cup
    {w \in [accounts : {{<<app, p1>>}}, databases : {{"postgres"}}, requiresTLS : BOOLEAN,
            home : {"10.0.0.1"}, lookup : {TRUE}, api : {TRUE},
            loads : {FALSE}, trusted : {TRUE}, valid : BOOLEAN] :
        w.requiresTLS = ~w.valid}
=============================================================================
