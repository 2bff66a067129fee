----------------------------- MODULE BmcClient -----------------------------
(***************************************************************************)
(* How a reconciliation of a Task or a Machine gets its BMC client: the    *)
(* Secrets of the connection are read one by one (resolveAuthSecretRef,    *)
(* retrieveHMACSecrets) while somebody rotates or deletes them, the        *)
(* provider options are translated into bmclib's (controller/client.go),   *)
(* and the client is opened.  What an option says is abstracted to who     *)
(* said it: the user, Rufio, or bmclib's default.                          *)
(***************************************************************************)
EXTENDS Integers, Sequences, FiniteSets

CONSTANTS
  SecretNames,   \* the Secrets of the namespace
  AuthName,      \* the one AuthSecretRef names
  Algorithms,    \* of RPC's HMAC signatures
  References,    \* the lists of Secrets an algorithm may be given
  AmtPorts,      \* values of intelAMT.port
  MaxUint32,     \* the largest port that fits
  MaxGiven,      \* bound: optional fields a user sets at a time
  NumValues      \* bound: different values a Secret may have in time

AmtDefaultPort == 16992

ASSUME ClientAssumption ==
  /\ AuthName \in SecretNames
  /\ References \subseteq Seq(SecretNames) /\ <<>> \in References
  /\ AmtPorts \subseteq Int /\ 0 \in AmtPorts
  /\ MaxUint32 \in Nat /\ MaxUint32 >= AmtDefaultPort
  /\ MaxGiven \in Nat /\ NumValues \in Nat \ {0}

(***************************************************************************)
(* The connection of a Machine or a Task.                                  *)
(***************************************************************************)
RedfishFields  == {"RedfishPort", "RedfishUseBasicAuth", "RedfishSystemName"}
IpmitoolFields == {"IpmitoolPort", "IpmitoolCipherSuite"}

RequestFields      == {"HTTPContentType", "HTTPMethod", "StaticHeaders",
                       "TimestampFormat", "TimestampHeader"}
SignatureFields    == {"HeaderName", "AppendAlgoToHeaderDisabled",
                       "IncludedPayloadHeaders"}
HMACFields         == {"PrefixSigDisabled"}
ExperimentalFields == {"CustomRequestPayload", "DotPath"}

RPCFields == RequestFields \cup SignatureFields \cup HMACFields
               \cup ExperimentalFields \cup {"LogNotificationsDisabled"}

OtherFields == RedfishFields \cup IpmitoolFields \cup {"PreferredOrder"}

\* rpc: there are RPC options; amtPort: the port of the Intel AMT options; given:
\* the optional fields that have a value; secrets: those of each HMAC algorithm.
\* (Bound: no connection has both optional fields and HMAC secrets, which no
\* code relates.)
NoSecrets == [a \in Algorithms |-> <<>>]

Connections ==
  LET Given == {g \in SUBSET (RPCFields \cup OtherFields) :
                  Cardinality(g) <= MaxGiven} IN
  {c \in [rpc : BOOLEAN, amtPort : AmtPorts, given : Given,
          secrets : [Algorithms -> References]] :
     /\ ~c.rpc => c.secrets = NoSecrets /\ c.given \cap RPCFields = {}
     /\ (c.given = {} /\ c.amtPort = 0) \/ c.secrets = NoSecrets}

\* What Get may find under a Secret's name.
NoSecret == [exists |-> FALSE, value |-> 1, keys |-> {}]

Secrets == {NoSecret} \cup
           [exists : {TRUE}, value : 1..NumValues,
            keys : {{"username", "password"}, {"username"}, {"secret"}}]

\* secret.Data[key]; 0 is the empty string, for a key that is not there.
Data(secret, key) == IF key \in secret.keys THEN secret.value ELSE 0

VARIABLES
  conn,      \* spec.connection
  store,     \* the Secrets, as Get returns them
  step,      \* where the reconciliation is
  gathered,  \* the HMAC secrets it has read
  login,     \* the username and password it has read
  seen       \* what each HMAC secret has been meanwhile (history)

connVars == <<conn, store, step, gathered, login, seen>>

Signs(name) ==
  \E a \in Algorithms : \E k \in DOMAIN conn.secrets[a] : conn.secrets[a][k] = name

Seen(name) == IF store[name].exists /\ Signs(name)
              THEN {Data(store[name], "secret")} ELSE {}

NoLogin == [username |-> 0, password |-> 0]

ConnInit ==
  /\ conn \in Connections
  /\ store \in [SecretNames -> {s \in Secrets : s.exists /\ s.value = 1}]
  /\ step = "idle"
  /\ gathered = NoSecrets
  /\ login = NoLogin
  /\ seen = [n \in SecretNames |-> {}]

(***************************************************************************)
(* The Secrets are read.  An error is returned and the key requeued.       *)
(***************************************************************************)
\* With RPC options only the Secrets of its HMAC are read, otherwise only that
\* of the AuthSecretRef.
Connects ==
  /\ step = "idle"
  /\ step' = IF conn.rpc THEN "hmac" ELSE "auth"
  /\ seen' = [n \in SecretNames |-> Seen(n)]
  /\ UNCHANGED <<conn, store, gathered, login>>

Returns ==
  /\ step' = "idle"
  /\ gathered' = NoSecrets /\ login' = NoLogin
  /\ seen' = [n \in SecretNames |-> {}]
  /\ UNCHANGED <<conn, store>>

\* Mutant of Usable: as for HMAC secrets, a missing key is an empty string.
AnyData(secret) == secret.exists

Usable(secret) ==
  secret.exists /\ {"username", "password"} \subseteq secret.keys

AuthSecretRead ==
  LET secret == store[AuthName] IN
  /\ step = "auth" /\ Usable(secret)
  /\ login' = [username |-> Data(secret, "username"),
               password |-> Data(secret, "password")]
  /\ step' = "open"
  /\ UNCHANGED <<conn, store, gathered, seen>>

\* Not found, without one of the keys, or the call failed.
AuthSecretFails == step = "auth" /\ Returns

\* The references of an algorithm are read in order, the algorithms, keys of a
\* map, in any order but one after the other.
Unread(a) == Len(gathered[a]) < Len(conn.secrets[a])

NextReference(a) == conn.secrets[a][Len(gathered[a]) + 1]

CurrentAlgorithm(a) ==
  /\ step = "hmac" /\ Unread(a)
  /\ \A b \in Algorithms \ {a} : Unread(b) => gathered[b] = <<>>

HmacSecretRead(a) ==
  /\ CurrentAlgorithm(a) /\ store[NextReference(a)].exists
  /\ gathered' = [gathered EXCEPT
                    ![a] = Append(@, Data(store[NextReference(a)], "secret"))]
  /\ UNCHANGED <<conn, store, step, login, seen>>

\* Not found, or the call failed.  Secrets read so far are dropped.
HmacSecretFails(a) == CurrentAlgorithm(a) /\ Returns

\* Mutant of HmacSecretsRead: one algorithm is enough.
SomeSecretsRead ==
  /\ step = "hmac" /\ \E a \in Algorithms : ~Unread(a)
  /\ step' = "open"
  /\ UNCHANGED <<conn, store, gathered, login, seen>>

HmacSecretsRead ==
  /\ step = "hmac" /\ \A a \in Algorithms : ~Unread(a)
  /\ step' = "open"
  /\ UNCHANGED <<conn, store, gathered, login, seen>>

(***************************************************************************)
(* The client is opened, within a timeout, used and closed.                *)
(***************************************************************************)
Opens ==
  /\ step = "open"
  /\ step' = "opened"
  /\ UNCHANGED <<conn, store, gathered, login, seen>>

OpenFails == step = "open" /\ Returns

Closes == step = "opened" /\ Returns

\* Somebody writes, deletes or creates a Secret.
SecretChanges(name) ==
  /\ UNCHANGED <<conn, step, gathered, login>>
  /\ \E s \in Secrets : store' = [store EXCEPT ![name] = s]
  /\ seen' = [seen EXCEPT ![name] = IF step = "hmac" THEN @ \cup Seen(name)'
                                    ELSE @]

ConnNext ==
  \/ Connects
  \/ AuthSecretRead \/ AuthSecretFails
  \/ \E a \in Algorithms : HmacSecretRead(a) \/ HmacSecretFails(a)
  \/ HmacSecretsRead
  \/ Opens \/ OpenFails \/ Closes
  \/ \E n \in SecretNames : SecretChanges(n)

ConnSpec == ConnInit /\ [][ConnNext]_connVars

(***************************************************************************)
(* The translation of the options.  Each setting is the user's, Rufio's or *)
(* bmclib's own.                                                           *)
(***************************************************************************)
\* The ports, flags and names of a provider are passed on if they are not zero.
FromUser(fields) ==
  [f \in fields |-> IF f \in conn.given THEN "user" ELSE "bmclib"]

\* toRPCOpts; it has no use for LogNotificationsDisabled.
ToRPCOpts == FromUser(RPCFields \ {"LogNotificationsDisabled"})

RufioDefaults == {"TimestampHeader", "HeaderName", "IncludedPayloadHeaders"}

\* Mutant of TranslateRPC: merged without mergo.WithOverride.
TranslateRPCKeeping ==
  [f \in RPCFields \ {"LogNotificationsDisabled"} |->
     IF f \in RufioDefaults /\ f \notin conn.given THEN "rufio" ELSE ToRPCOpts[f]]

\* mergo.Merge(&o, &defaults, mergo.WithOverride): what defaults has, wins.
TranslateRPC ==
  [f \in RPCFields \ {"LogNotificationsDisabled"} |->
     IF f \in RufioDefaults THEN "rufio" ELSE ToRPCOpts[f]]

Setting(f) ==
  CASE f \in OtherFields -> FromUser(OtherFields)[f]
    [] conn.rpc /\ f \in DOMAIN TranslateRPC -> TranslateRPC[f]
    [] OTHER -> "bmclib"

\* Mutant of AmtPort: uint32(b.IntelAMT.Port).
AmtPortWrapped == conn.amtPort % (MaxUint32 + 1)

\* safecast.ToUint32 fails for a negative port and one that is too large.
AmtPort == IF conn.amtPort \in 0..MaxUint32 THEN conn.amtPort
                                            ELSE AmtDefaultPort

(***************************************************************************)
(* Properties.                                                             *)
(***************************************************************************)

\* A client signs with all the secrets its connection lists, in their order,
\* and with values they have had since the reconciliation began: however
\* Secrets come, go and change while retrieveHMACSecrets reads them one by one,
\* no signature is left out, none is stale.
EverySecretCounts ==
  step \in {"open", "opened"} /\ conn.rpc =>
    \A a \in Algorithms :
      /\ Len(gathered[a]) = Len(conn.secrets[a])
      /\ \A k \in DOMAIN gathered[a] :
           gathered[a][k] \in seen[conn.secrets[a][k]]

\* No client is opened without a user and a password unless it speaks RPC,
\* whatever resolveAuthSecretRef finds in the Secret and whenever.
NeverAnonymous ==
  step \in {"open", "opened"} /\ ~conn.rpc =>
    login.username # 0 /\ login.password = login.username

\* The signature covers the timestamp that is sent, or a request could be sent
\* again later: whatever of the three the user sets, translateRPC leaves the
\* header of the timestamp and the headers that are signed of one origin.
SignatureCoversTimestamp ==
  step = "opened" /\ conn.rpc =>
    Setting("TimestampHeader") = Setting("IncludedPayloadHeaders")

\* An Intel AMT port that does not fit is not wrapped to some other port:
\* Translate hands on the port that was asked for, or the default.
AmtPortAsAsked ==
  step = "opened" =>
    AmtPort \in {conn.amtPort, AmtDefaultPort} \cap 0..MaxUint32

(***************************************************************************)
(* The inductive invariant behind EverySecretCounts and NeverAnonymous.    *)
(***************************************************************************)
ConnTypeOK ==
  /\ conn \in Connections
  /\ store \in [SecretNames -> Secrets]
  /\ step \in {"idle", "auth", "hmac", "open", "opened"}
  /\ gathered \in [Algorithms -> Seq(0..NumValues)]
  /\ login \in [username : 0..NumValues, password : 0..NumValues]
  /\ seen \in [SecretNames -> SUBSET (0..NumValues)]

\* What has been read is the start of each list, with values Get may have
\* returned since the reconciliation began.
ReadInOrder ==
  \A a \in Algorithms :
    /\ Len(gathered[a]) <= Len(conn.secrets[a])
    /\ \A k \in DOMAIN gathered[a] :
         gathered[a][k] \in seen[conn.secrets[a][k]]

ReadingAll ==
  /\ step = "idle" => gathered = NoSecrets
  /\ step = "auth" => ~conn.rpc
  /\ step = "hmac" => conn.rpc /\ \A n \in SecretNames : Seen(n) \subseteq seen[n]
  /\ step \in {"open", "opened"} =>
       IF conn.rpc THEN \A a \in Algorithms : ~Unread(a)
       ELSE login.username # 0 /\ login.password = login.username

\* A reconciliation gathers the secrets in order and misses none of their
\* changes; it leaves the reading only with all it needs.
ConnInv == ConnTypeOK /\ ReadInOrder /\ ReadingAll
=============================================================================
