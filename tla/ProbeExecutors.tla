--------------------------- MODULE ProbeExecutors ---------------------------
(***************************************************************************)
(* The synchronous probe executors, as predicates: whether Execute returns *)
(* no error for a probe, the data of the revision's Secret and the peer    *)
(* that answers.  Timeouts are peers that do not answer; what the returned *)
(* errors say, and their redaction, is left out.                           *)
(***************************************************************************)
EXTENDS SecretSource

\* Secret keys are matched without regard to case: names stand for all of
\* their spellings.
UsernameNames == <<"username", "user", "POSTGRES_USER", "pguser">>
MySQLUsernameNames == <<"username", "user", "MYSQL_USER", "mysql_user">>
PasswordNames == <<"password", "pass", "POSTGRES_PASSWORD", "pgpassword">>
MySQLPasswordNames == <<"password", "pass", "MYSQL_PASSWORD", "mysql_password">>
DatabaseNames == <<"dbname", "database", "POSTGRES_DB", "db">>
MySQLDatabaseNames == <<"dbname", "database", "MYSQL_DATABASE", "db">>

\* The first of the names that has a value.
extractSecretValue(data, names) ==
    LET found == {i \in DOMAIN names : At(data, names[i]) # Empty}
    IN  IF found = {} THEN Empty ELSE data[names[CHOOSE i \in found : \A j \in found : i <= j]]

FirstOf(preferred, otherwise) == IF preferred # Empty THEN preferred ELSE otherwise

\* A server has accounts, <<user, password>>, and databases.
Admits(server, user, password) == ~server.requiresTLS /\ <<user, password>> \in server.accounts

-----------------------------------------------------------------------------
(* PostgreSQL.  probe.passwordKey, usernameKey and databaseKey are spec's  *)
(* credentials, "" when not given.                                         *)

\* Faulty: conventional names come before the configured one.
postgresPassword_NamesFirst(probe, data) ==
    FirstOf(extractSecretValue(data, PasswordNames), At(data, probe.passwordKey))

\* A configured key without a value falls back to the conventional names,
\* and these to the sole value.
postgresPassword(probe, data) ==
    LET named == FirstOf(At(data, probe.passwordKey), extractSecretValue(data, PasswordNames))
        sole == /\ Cardinality(DOMAIN data) = 1
                /\ At(data, probe.usernameKey) = Empty
                /\ At(data, probe.databaseKey) = Empty
    IN  IF sole THEN FirstOf(named, data[CHOOSE k \in DOMAIN data : TRUE]) ELSE named

\* So does the user's name, and it has a default.
postgresUsername(probe, data) ==
    LET named == FirstOf(At(data, probe.usernameKey), extractSecretValue(data, UsernameNames))
    IN  FirstOf(named, [text |-> "postgres", holds |-> {}])

postgresDatabase(probe, data) ==
    LET named == FirstOf(At(data, probe.databaseKey), extractSecretValue(data, DatabaseNames))
    IN  IF named # Empty THEN named.text ELSE IF probe.path # "" THEN probe.path ELSE "appdb"

\* url.QueryEscape in the user part of a URL: a space becomes a plus sign,
\* which the driver does not turn back.
Received(v) == [v EXCEPT !.holds = @ \ {"space"}]

\* Without TLS; a database that does not exist is replaced by "postgres".
PostgresExecute(probe, data, server) ==
    /\ probe.host # ""
    /\ Admits(server, Received(postgresUsername(probe, data)), Received(postgresPassword(probe, data)))
    /\ {postgresDatabase(probe, data), "postgres"} \cap server.databases # {}

-----------------------------------------------------------------------------
(* MySQL: conventional names only, and no database in the endpoint.        *)

mysqlUsername(data) ==
    FirstOf(extractSecretValue(data, MySQLUsernameNames), [text |-> "root", holds |-> {}])

MySQLExecute(probe, data, server) ==
    LET database == extractSecretValue(data, MySQLDatabaseNames)
    IN  /\ probe.host # "" /\ probe.path = ""
        /\ Admits(server, mysqlUsername(data), extractSecretValue(data, MySQLPasswordNames))
        /\ database = Empty \/ database.text \in server.databases

-----------------------------------------------------------------------------
(* TLS and HTTP.                                                           *)

hasPinnedSecret(data) == \E k \in {"thumbprint", "tls.crt", "cert"} : At(data, k) # Empty

\* The certificate payload: tls.crt if the key is there, even without a value.
PinnedPEM(data) == IF "tls.crt" \in DOMAIN data THEN data["tls.crt"] ELSE At(data, "cert")

\* The first PEM block of a payload, of whatever type, is taken for the
\* certificate.
StartsWithKey(v) == "key" \in v.holds /\ ("keyFirst" \in v.holds \/ "certificate" \notin v.holds)

\* A thumbprint has the text of the certificate it identifies.  A payload
\* that does not decode is not compared; a key is no certificate's equal.
TLSExecute(probe, data, peer) ==
    /\ probe.port # 0
    /\ hasPinnedSecret(data) \/ peer.trusted
    /\ peer.valid
    /\ At(data, "thumbprint") # Empty => data["thumbprint"].text \in peer.presents
    /\ PinnedPEM(data).holds \cap {"certificate", "key"} # {} =>
          PinnedPEM(data).text \in peer.presents /\ ~StartsWithKey(PinnedPEM(data))

\* With a pinned secret the chain is not verified, nor the pin.
HTTPExecute(probe, data, peer) ==
    /\ probe.scheme # ""
    /\ probe.scheme = "https" => hasPinnedSecret(data) \/ peer.trusted
    /\ peer.healthy
=============================================================================
