---------------------------- MODULE SecretSource ----------------------------
(***************************************************************************)
(* What the source providers read and materializeSecretRevision makes of   *)
(* it: the payload, the revision that names it, and the data of the Secret *)
(* created for it.  Go's iteration order over maps is random, so what      *)
(* depends on it is a set of outcomes.                                     *)
(*                                                                         *)
(* A value is abstracted to the text that identifies it and what it holds. *)
(* The revision, 12 digits of a SHA-256, is taken to be the hashed content *)
(* itself: equal revisions mean equal content.                             *)
(***************************************************************************)
EXTENDS Naturals, FiniteSets, SequencesExt

\* holds: PEM blocks of a certificate or a key, the key before the certificate,
\* a space.
Value == [text : STRING, holds : SUBSET {"certificate", "key", "keyFirst", "space"}]
Empty == [text |-> "", holds |-> {}]

NoData == [k \in {} |-> Empty]

\* data[key] of a Go map.
At(data, key) == IF key \in DOMAIN data THEN data[key] ELSE Empty

-----------------------------------------------------------------------------
(* The providers.  A source holds entries: one for an Azure object, any    *)
(* number for a Kubernetes Secret.  entry.object is the JSON object its    *)
(* text denotes, when entry.json.                                          *)

Providers == {"AzureKeyVault", "K8sSecret"}

\* The entries one after the other in some order; a later one overwrites
\* keys of an earlier one.  An entry that is not a JSON object stays as it is.
Merged(entries) ==
    LET Parsed(k) == IF entries[k].json THEN entries[k].object
                                        ELSE [key \in {k} |-> entries[k].value]
        Overwrite(data, k) == Parsed(k) @@ data
    IN  {FoldLeft(Overwrite, NoData, order) : order \in SetToSeqs(DOMAIN entries)}

\* The payloads a read may return; none when it is an error: a stub, a type
\* without provider, or text that is not a JSON object in an Azure object.
FetchSecret(type, parseJSON, entries) ==
    CASE type \in Providers /\ ~parseJSON    -> {[k \in DOMAIN entries |-> entries[k].value]}
      [] type = "K8sSecret" /\ parseJSON     -> Merged(entries)
      [] type = "AzureKeyVault" /\ parseJSON -> {entries[k].object : k \in {e \in DOMAIN entries : entries[e].json}}
      [] OTHER                               -> {}

-----------------------------------------------------------------------------
(* materializeSecretRevision.                                              *)

\* Faulty: the provider's version is left out.
Revision_NoVersion(data, version) ==
    [content |-> {<<k, data[k]>> : k \in DOMAIN data}, version |-> 0]

\* A sole value is hashed without its key, several with theirs, in order.
Revision(data, version) ==
    [content |-> IF Cardinality(DOMAIN data) = 1
                 THEN {<<"", data[k]>> : k \in DOMAIN data}
                 ELSE {<<k, data[k]>> : k \in DOMAIN data},
     version |-> version]

\* The certificate blocks and the key blocks of a PEM bundle.
extractPEMCertAndKey(v) ==
    [cert |-> IF "certificate" \in v.holds THEN [v EXCEPT !.holds = {"certificate"}] ELSE Empty,
     key  |-> IF "key" \in v.holds THEN [v EXCEPT !.holds = {"key"}] ELSE Empty]

\* The data of a certificate object's Secret: the first PEM value found, in
\* whatever order, is split into the standard keys.
SplitPEM(data) ==
    LET pem == {k \in DOMAIN data : data[k].holds \cap {"certificate", "key"} # {}}
        Split(k) ==
            LET parts == extractPEMCertAndKey(data[k])
            IN  CASE parts.cert = Empty -> data
                  [] parts.cert # Empty /\ parts.key = Empty -> ("tls.crt" :> parts.cert) @@ data
                  [] OTHER -> ("tls.crt" :> parts.cert) @@ ("tls.key" :> parts.key) @@ data
    IN  IF pem = {} THEN {data} ELSE {Split(k) : k \in pem}

\* The data the revision's Secret may be created with.
SecretData(type, certificate, data) ==
    IF type = "AzureKeyVault" /\ certificate THEN SplitPEM(data) ELSE {data}
=============================================================================
