---------------------------- MODULE ClientProofs ----------------------------
(***************************************************************************)
(* The BMC client of a reconciliation, for all sets of Secrets, lists of   *)
(* HMAC secrets and ports.                                                 *)
(***************************************************************************)
EXTENDS BmcClient, SequenceTheorems, TLAPS

\* The lists of secrets of a connection are lists of Secrets of the namespace.
LEMMA ConnectionType ==
  ASSUME ConnTypeOK
  PROVE  /\ conn.rpc \in BOOLEAN /\ conn.amtPort \in Int
         /\ conn.secrets \in [Algorithms -> Seq(SecretNames)]
BY ClientAssumption DEF ConnTypeOK, Connections

\* A key of a Secret is one of its values, or the empty string.
LEMMA DataType ==
  ASSUME NEW secret \in Secrets, NEW key
  PROVE  /\ Data(secret, key) \in 0..NumValues
         /\ key \in secret.keys => Data(secret, key) # 0
<1>1. secret.value \in 1..NumValues
  <2>1. CASE secret = NoSecret
    BY <2>1, ClientAssumption DEF NoSecret
  <2>2. CASE secret # NoSecret
    <3>1. secret \in [exists : {TRUE}, value : 1..NumValues,
                      keys : {{"username", "password"}, {"username"}, {"secret"}}]
      BY <2>2 DEF Secrets
    <3>. QED
      BY <3>1
  <2>. QED
    BY <2>1, <2>2
<1>. QED
  BY <1>1, ClientAssumption DEF Data

\* What a Secret is now is a set of values.
LEMMA SeenType ==
  ASSUME ConnTypeOK, NEW n \in SecretNames
  PROVE  Seen(n) \in SUBSET (0..NumValues)
<1>1. store[n] \in Secrets
  BY DEF ConnTypeOK
<1>. QED
  BY <1>1, DataType DEF Seen

\* The next reference of an algorithm with unread ones is one of its list, and
\* so of a Secret that signs.
LEMMA NextReferenceListed ==
  ASSUME ConnTypeOK, ReadInOrder, NEW a \in Algorithms, Unread(a)
  PROVE  /\ Len(gathered[a]) + 1 \in DOMAIN conn.secrets[a]
         /\ NextReference(a) \in SecretNames /\ Signs(NextReference(a))
<1>1. /\ conn.secrets[a] \in Seq(SecretNames)
      /\ gathered[a] \in Seq(0..NumValues)
  BY ConnectionType DEF ConnTypeOK
<1>2. Len(gathered[a]) + 1 \in DOMAIN conn.secrets[a]
  BY <1>1 DEF Unread
<1>. QED
  BY <1>1, <1>2 DEF NextReference, Signs

\* An error, or the end of the reconciliation, leaves nothing behind.
LEMMA ReturnsInv ==
  ASSUME ConnInv, Returns
  PROVE  ConnInv'
<1>1. NoSecrets \in [Algorithms -> Seq(0..NumValues)]
  BY DEF NoSecrets
<1>2. ConnTypeOK'
  BY <1>1, ClientAssumption DEF ConnInv, ConnTypeOK, Returns, NoLogin
<1>3. ReadInOrder'
  <2>1. \A a \in Algorithms : gathered'[a] = <<>> /\ conn'.secrets[a] = conn.secrets[a]
    BY DEF Returns, NoSecrets
  <2>2. \A a \in Algorithms : Len(conn.secrets[a]) \in Nat
    BY ConnectionType DEF ConnInv
  <2>. QED
    BY <2>1, <2>2 DEF ReadInOrder
<1>4. ReadingAll'
  BY DEF Returns, ReadingAll, NoSecrets
<1>. QED
  BY <1>2, <1>3, <1>4 DEF ConnInv

\* When the reading begins, nothing has been gathered.
LEMMA ConnectsInv ==
  ASSUME ConnInv, Connects
  PROVE  ConnInv'
<1>0. UNCHANGED <<conn, store, gathered, login>>
  BY DEF Connects
<1>1. ConnTypeOK'
  BY SeenType DEF ConnInv, ConnTypeOK, Connects
<1>2. gathered = NoSecrets
  BY DEF ConnInv, ReadingAll, Connects
<1>3. ReadInOrder'
  BY <1>0, <1>2 DEF ConnInv, ReadInOrder, NoSecrets
<1>4. \A n \in SecretNames : Seen(n)' = Seen(n) /\ seen'[n] = Seen(n)
  BY <1>0 DEF Connects, Seen, Signs
<1>5. conn.rpc \in BOOLEAN
  BY ConnectionType DEF ConnInv
<1>6. ReadingAll'
  BY <1>0, <1>4, <1>5 DEF ReadingAll, Connects
<1>. QED
  BY <1>1, <1>3, <1>6 DEF ConnInv

\* A login is read from one copy of one Secret, which has both keys.
LEMMA AuthSecretReadInv ==
  ASSUME ConnInv, AuthSecretRead
  PROVE  ConnInv'
<1>0. UNCHANGED <<conn, store, gathered, seen>>
  BY DEF AuthSecretRead
<1>1. store[AuthName] \in Secrets
  BY ClientAssumption DEF ConnInv, ConnTypeOK
<1>2. /\ login' = [username |-> Data(store[AuthName], "username"),
                   password |-> Data(store[AuthName], "password")]
      /\ {"username", "password"} \subseteq store[AuthName].keys
      /\ step = "auth" /\ step' = "open"
  BY DEF AuthSecretRead, Usable
<1>3. /\ login'.username # 0 /\ login'.password = login'.username
      /\ login' \in [username : 0..NumValues, password : 0..NumValues]
  <2>1. Data(store[AuthName], "username") = Data(store[AuthName], "password")
    BY <1>2 DEF Data
  <2>. QED
    BY <1>1, <1>2, <2>1, DataType
<1>4. ConnTypeOK'
  BY <1>0, <1>2, <1>3 DEF ConnInv, ConnTypeOK
<1>5. ReadInOrder' /\ ReadingAll'
  BY <1>0, <1>2, <1>3 DEF ConnInv, ReadInOrder, ReadingAll
<1>. QED
  BY <1>4, <1>5 DEF ConnInv

\* An HMAC secret is read into the place of its reference, as it is now.
LEMMA HmacSecretReadInv ==
  ASSUME ConnInv, NEW a \in Algorithms, HmacSecretRead(a)
  PROVE  ConnInv'
<1>. DEFINE n == NextReference(a)
            v == Data(store[n], "secret")
            k == Len(gathered[a]) + 1
<1>0. /\ UNCHANGED <<conn, store, step, login, seen>>
      /\ gathered' = [gathered EXCEPT ![a] = Append(@, v)]
      /\ step = "hmac" /\ Unread(a) /\ store[n].exists
  BY DEF HmacSecretRead, CurrentAlgorithm
<1>1. /\ gathered \in [Algorithms -> Seq(0..NumValues)]
      /\ conn.secrets \in [Algorithms -> Seq(SecretNames)]
      /\ store \in [SecretNames -> Secrets]
  BY ConnectionType DEF ConnInv, ConnTypeOK
<1>2. /\ k \in DOMAIN conn.secrets[a] /\ n \in SecretNames /\ Signs(n)
      /\ n = conn.secrets[a][k]
  BY <1>0, NextReferenceListed DEF ConnInv, NextReference
<1>3. v \in 0..NumValues
  BY <1>1, <1>2, DataType
<1>4. v \in seen[n]
  <2>1. Seen(n) \subseteq seen[n]
    BY <1>0, <1>2 DEF ConnInv, ReadingAll
  <2>. QED
    BY <1>0, <1>2, <2>1 DEF Seen
<1>. HIDE DEF v, n
<1>5. /\ gathered' \in [Algorithms -> Seq(0..NumValues)]
      /\ gathered'[a] = Append(gathered[a], v)
      /\ \A b \in Algorithms : b # a => gathered'[b] = gathered[b]
  BY <1>0, <1>1, <1>3
<1>6. ConnTypeOK'
  BY <1>0, <1>5 DEF ConnInv, ConnTypeOK
<1>7. /\ gathered[a] \in Seq(0..NumValues) /\ k \in Nat /\ k >= 1
      /\ Len(gathered'[a]) = k
      /\ DOMAIN gathered'[a] = 1..k /\ gathered'[a][k] = v
      /\ \A j \in 1..k : j # k =>
           j \in DOMAIN gathered[a] /\ gathered'[a][j] = gathered[a][j]
  BY <1>1, <1>3, <1>5
<1>8. k <= Len(conn.secrets[a])
  BY <1>1, <1>2
<1>9. ReadInOrder'
  <2>. SUFFICES ASSUME NEW b \in Algorithms
                PROVE  /\ Len(gathered'[b]) <= Len(conn.secrets[b])
                       /\ \A j \in DOMAIN gathered'[b] :
                            gathered'[b][j] \in seen[conn.secrets[b][j]]
    BY <1>0 DEF ReadInOrder
  <2>1. CASE b = a
    <3>. HIDE DEF k
    <3>. QED
      BY <1>2, <1>4, <1>7, <1>8, <2>1 DEF ConnInv, ReadInOrder
  <2>2. CASE b # a
    BY <1>5, <2>2 DEF ConnInv, ReadInOrder
  <2>. QED
    BY <2>1, <2>2
<1>10. ReadingAll'
  <2>1. \A m \in SecretNames : Seen(m)' = Seen(m)
    BY <1>0 DEF Seen, Signs
  <2>. QED
    BY <1>0, <2>1 DEF ConnInv, ReadingAll
<1>. QED
  BY <1>6, <1>9, <1>10 DEF ConnInv

\* Whatever happens to a Secret while the secrets are read is noted.
LEMMA SecretChangesInv ==
  ASSUME ConnInv, NEW n \in SecretNames, SecretChanges(n)
  PROVE  ConnInv'
<1>0. UNCHANGED <<conn, step, gathered, login>>
  BY DEF SecretChanges
<1>1. /\ store \in [SecretNames -> Secrets] /\ store' \in [SecretNames -> Secrets]
      /\ \A m \in SecretNames : m # n => store'[m] = store[m]
  BY DEF ConnInv, ConnTypeOK, SecretChanges
<1>2. Seen(n)' \in SUBSET (0..NumValues)
  <2>1. store'[n] \in Secrets
    BY <1>1
  <2>. QED
    BY <2>1, DataType DEF Seen
<1>3. /\ seen \in [SecretNames -> SUBSET (0..NumValues)]
      /\ seen' \in [SecretNames -> SUBSET (0..NumValues)]
      /\ \A m \in SecretNames : seen[m] \subseteq seen'[m]
      /\ step = "hmac" => Seen(n)' \subseteq seen'[n]
  BY <1>2 DEF ConnInv, ConnTypeOK, SecretChanges
<1>4. ConnTypeOK'
  BY <1>0, <1>1, <1>3 DEF ConnInv, ConnTypeOK
<1>5. ReadInOrder'
  <2>. SUFFICES ASSUME NEW a \in Algorithms, NEW k \in DOMAIN gathered[a]
                PROVE  gathered[a][k] \in seen'[conn.secrets[a][k]]
    BY <1>0 DEF ConnInv, ReadInOrder
  <2>1. /\ conn.secrets[a] \in Seq(SecretNames)
        /\ gathered[a] \in Seq(0..NumValues)
    BY ConnectionType DEF ConnInv, ConnTypeOK
  <2>2. conn.secrets[a][k] \in SecretNames
    BY <2>1 DEF ConnInv, ReadInOrder
  <2>. QED
    BY <1>3, <2>2 DEF ConnInv, ReadInOrder
<1>6. \A m \in SecretNames : m # n => Seen(m)' = Seen(m)
  BY <1>0, <1>1 DEF Seen, Signs
<1>7. step = "hmac" => \A m \in SecretNames : Seen(m)' \subseteq seen'[m]
  <2>. SUFFICES ASSUME step = "hmac", NEW m \in SecretNames
                PROVE  Seen(m)' \subseteq seen'[m]
    OBVIOUS
  <2>1. CASE m = n
    BY <1>3, <2>1
  <2>2. CASE m # n
    BY <1>3, <1>6, <2>2 DEF ConnInv, ReadingAll
  <2>. QED
    BY <2>1, <2>2
<1>8. ReadingAll'
  BY <1>0, <1>7 DEF ConnInv, ReadingAll, Unread
<1>. QED
  BY <1>4, <1>5, <1>8 DEF ConnInv

\* The reading ends when no algorithm has an unread reference.
LEMMA OpensInv ==
  ASSUME ConnInv, HmacSecretsRead \/ Opens
  PROVE  ConnInv'
<1>0. /\ UNCHANGED <<conn, store, gathered, login, seen>>
      /\ step' \in {"open", "opened"}
  BY DEF HmacSecretsRead, Opens
<1>1. ConnTypeOK' /\ ReadInOrder'
  BY <1>0 DEF ConnInv, ConnTypeOK, ReadInOrder
<1>2. ReadingAll'
  BY <1>0 DEF ConnInv, ReadingAll, HmacSecretsRead, Opens, Unread
<1>. QED
  BY <1>1, <1>2 DEF ConnInv

\* ConnInv is an invariant, however many Secrets change meanwhile and
\* whichever algorithm's list is read first.
THEOREM ConnInvariant == ConnSpec => []ConnInv
<1>1. ConnInit => ConnInv
  <2>. SUFFICES ASSUME ConnInit PROVE ConnInv
    OBVIOUS
  <2>1. ConnTypeOK
    BY ClientAssumption DEF ConnInit, ConnTypeOK, NoSecrets, NoLogin
  <2>2. \A a \in Algorithms : Len(conn.secrets[a]) \in Nat
    BY <2>1, ConnectionType
  <2>. QED
    BY <2>1, <2>2 DEF ConnInit, ConnInv, ReadInOrder, ReadingAll, NoSecrets
<1>2. ConnInv /\ [ConnNext]_connVars => ConnInv'
  <2>. SUFFICES ASSUME ConnInv, [ConnNext]_connVars PROVE ConnInv'
    OBVIOUS
  <2>1. CASE UNCHANGED connVars
    BY <2>1 DEF connVars, ConnInv, ConnTypeOK, ReadInOrder, ReadingAll, Unread,
       Seen, Signs
  <2>2. CASE Connects
    BY <2>2, ConnectsInv
  <2>3. CASE AuthSecretRead
    BY <2>3, AuthSecretReadInv
  <2>4. ASSUME NEW a \in Algorithms, HmacSecretRead(a) PROVE ConnInv'
    BY <2>4, HmacSecretReadInv
  <2>5. CASE HmacSecretsRead \/ Opens
    BY <2>5, OpensInv
  <2>6. CASE Returns
    BY <2>6, ReturnsInv
  <2>7. ASSUME NEW n \in SecretNames, SecretChanges(n) PROVE ConnInv'
    BY <2>7, SecretChangesInv
  <2>. QED
    BY <2>1, <2>2, <2>3, <2>4, <2>5, <2>6, <2>7
       DEF ConnNext, AuthSecretFails, HmacSecretFails, OpenFails, Closes
<1>. QED
  BY <1>1, <1>2, PTL DEF ConnSpec

\* No signature of an opened client is left out and none is stale, for every
\* number of algorithms and every list of Secrets.
THEOREM EverySecretCounted == ConnSpec => []EverySecretCounts
<1>1. ConnInv => EverySecretCounts
  <2>. SUFFICES ASSUME ConnInv, step \in {"open", "opened"}, conn.rpc,
                       NEW a \in Algorithms
                PROVE  /\ Len(gathered[a]) = Len(conn.secrets[a])
                       /\ \A k \in DOMAIN gathered[a] :
                            gathered[a][k] \in seen[conn.secrets[a][k]]
    BY DEF EverySecretCounts
  <2>1. ~Unread(a)
    BY DEF ConnInv, ReadingAll
  <2>2. /\ conn.secrets[a] \in Seq(SecretNames)
        /\ gathered[a] \in Seq(0..NumValues)
    BY ConnectionType DEF ConnInv, ConnTypeOK
  <2>. QED
    BY <2>1, <2>2 DEF ConnInv, ReadInOrder, Unread
<1>. QED
  BY <1>1, ConnInvariant, PTL

\* A client that does not speak RPC has a user and a password of one version
\* of the Secret, neither of them empty.
THEOREM AlwaysLoggedIn == ConnSpec => []NeverAnonymous
<1>1. ConnInv => NeverAnonymous
  BY DEF ConnInv, ReadingAll, NeverAnonymous
<1>. QED
  BY <1>1, ConnInvariant, PTL

\* Whatever the user gives, the header of the timestamp and the list of the
\* headers that are signed come from one hand.
THEOREM TimestampSigned == ConnSpec => []SignatureCoversTimestamp
<1>1. SignatureCoversTimestamp
  <2>1. DOMAIN TranslateRPC = RPCFields \ {"LogNotificationsDisabled"}
    BY DEF TranslateRPC
  <2>2. {"TimestampHeader", "IncludedPayloadHeaders"} \subseteq
          (RPCFields \ {"LogNotificationsDisabled"}) \ OtherFields
    BY DEF RPCFields, RequestFields, SignatureFields, HMACFields,
       ExperimentalFields, OtherFields, RedfishFields, IpmitoolFields
  <2>3. \A f \in {"TimestampHeader", "IncludedPayloadHeaders"} :
          TranslateRPC[f] = "rufio"
    BY <2>2 DEF TranslateRPC, RufioDefaults
  <2>4. conn.rpc => \A f \in {"TimestampHeader", "IncludedPayloadHeaders"} :
                      Setting(f) = TranslateRPC[f]
    BY <2>1, <2>2 DEF Setting
  <2>. QED
    BY <2>3, <2>4 DEF SignatureCoversTimestamp
<1>. QED
  BY <1>1, PTL

\* Translate never wraps an Intel AMT port: for every integer, it is the one
\* asked for or the default, and fits into 32 bits.
THEOREM AmtPortsFit == ConnSpec => []AmtPortAsAsked
<1>1. ConnInv => AmtPortAsAsked
  <2>. SUFFICES ASSUME ConnInv
                PROVE  AmtPort \in {conn.amtPort, AmtDefaultPort} \cap 0..MaxUint32
    BY DEF AmtPortAsAsked
  <2>1. conn.amtPort \in Int
    BY ConnectionType DEF ConnInv
  <2>. QED
    BY <2>1, ClientAssumption DEF AmtPort, AmtDefaultPort
<1>. QED
  BY <1>1, ConnInvariant, PTL
=============================================================================
