----------------------------- MODULE Enrollment -----------------------------
(***************************************************************************)
(* Enrollment of peers, validators and clients (core/crypto) with the      *)
(* enrollment CA (membersrvc/ca).  A node registers once: it asks the ECA  *)
(* for a challenge, answers it, receives a certificate pair and writes its *)
(* key store file by file.  Later it is initialised from these files.  The *)
(* ECA serves every call in a goroutine of its own and keeps users and     *)
(* certificates in two tables that one call touches several times.  A key  *)
(* stands for the key pair made by one attempt of a node; the challenge of *)
(* a call is named by the key that can decrypt it.                         *)
(***************************************************************************)
EXTENDS Integers, Sequences, FiniteSets, FiniteSetsExt, TLC

CONSTANTS
  EnrollNodes,
  NodeKind,           \* NodeKind[n]: "client", "peer" or "validator"
  EnrollCases,        \* situations: [id: enrollment id of every node that takes part, faults: Nat]
  MaxAttempts,        \* bound: registrations begun by one node
  MaxHeld,            \* bound: users of one initialised node
  NewUser             \* the id that the administrator registers

NoKey == <<"none", 0>>
Password == <<"pwd", 0>>
EnrollKeys == EnrollNodes \X (1..MaxAttempts)
EnrollValues == EnrollKeys \cup {NoKey, Password}

Files == {"eca", "tca", "id", "key", "cert", "chain", "tlskey", "tlscert", "query"}

VARIABLES
  enrollId, caFaults,
  ecaUsers,           \* rows of Users: [id, tok, state, key]
  ecaCerts,           \* rows of Certificates: [id, key, usage]
  adminCall,          \* RegisterUser of the administrator: "none", "checked" or "done"
  ecaCall,            \* ecaCall[k]: the call that the ECA serves for the attempt k
  enrollAt,           \* enrollAt[n]: what n does next in its registration, or "none"
  attempts,
  files,              \* files[n]: the files of the key store of n and what is in them
  counter,            \* counter[n]: uses of the initialised node, 0 when it is not in the map
  enrollCerts, ksCerts  \* certificates a validator keeps in memory and in its key store

ecaPart == <<ecaUsers, ecaCerts, adminCall, ecaCall, caFaults>>
nodePart == <<enrollAt, attempts, files, counter, enrollCerts, ksCerts>>
enrollVars == <<ecaPart, nodePart, enrollId>>

NoCall == [stage |-> "none", tok |-> NoKey]
Key(n) == <<n, attempts[n]>>
RowsOf(id) == {i \in DOMAIN ecaUsers : ecaUsers[i].id = id}
FirstRow(id) == ecaUsers[CHOOSE i \in RowsOf(id) : \A j \in RowsOf(id) : i <= j]
CaFault == caFaults > 0 /\ caFaults' = caFaults - 1

(* The order in which a registration writes the key store after it has     *)
(* received its certificates.                                              *)
StoreOrder(n) == <<"id", "key", "cert", "chain", "tlskey", "tlscert">>
  \o (IF NodeKind[n] = "client" THEN <<"query">> ELSE <<>>)
After(n, f) ==
  LET i == CHOOSE i \in DOMAIN StoreOrder(n) : StoreOrder(n)[i] = f
  IN IF i = Len(StoreOrder(n)) THEN "none" ELSE StoreOrder(n)[i + 1]

(***************************************************************************)
(* The enrollment CA.                                                      *)
(***************************************************************************)
NewRow(id) == [id |-> id, tok |-> Password, state |-> 0, key |-> NoKey]

(* Does not look whether the user is there.                                *)
registerUserAgain(users, id) == Append(users, NewRow(id))

registerUser(users, id) ==
  IF \E i \in DOMAIN users : users[i].id = id THEN users ELSE Append(users, NewRow(id))

(* NewECA opens the tables, or creates them, and enters the users of the   *)
(* configuration.                                                          *)
NewECA(users, ids) == FoldSet(LAMBDA id, u : registerUser(u, id), users, ids)

ConfiguredIds == {enrollId[n] : n \in DOMAIN enrollId}

EnrollInit ==
  /\ \E c \in EnrollCases : enrollId = c.id /\ caFaults = c.faults
  /\ ecaUsers = NewECA(<<>>, ConfiguredIds) /\ ecaCerts = {}
  /\ adminCall = "none"
  /\ ecaCall = [k \in EnrollKeys |-> NoCall]
  /\ enrollAt = [n \in EnrollNodes |-> "none"]
  /\ attempts = [n \in EnrollNodes |-> 0]
  /\ files = [n \in EnrollNodes |-> <<>>]
  /\ counter = [n \in EnrollNodes |-> 0]
  /\ enrollCerts = [n \in EnrollNodes |-> {}]
  /\ ksCerts = [n \in EnrollNodes |-> {}]

(* RegisterUser of the administrator: registerUser looks the id up, and    *)
(* inserts it in a second statement.                                       *)
RegisterUserChecks ==
  /\ adminCall = "none"
  /\ adminCall' = IF RowsOf(NewUser) = {} THEN "checked" ELSE "done"
  /\ UNCHANGED <<ecaUsers, ecaCerts, ecaCall, caFaults, nodePart, enrollId>>

RegisterUserInserts ==
  /\ adminCall = "checked"
  /\ adminCall' = "done"
  /\ \/ ecaUsers' = Append(ecaUsers, NewRow(NewUser)) /\ UNCHANGED caFaults
     \/ CaFault /\ UNCHANGED ecaUsers
  /\ UNCHANGED <<ecaCerts, ecaCall, nodePart, enrollId>>

ecaCallAt(k, stage) == ecaCall' = [ecaCall EXCEPT ![k].stage = stage]

(* CreateCertificatePair reads the row of the user, compares the token and *)
(* branches on the state it has read.                                      *)
ReadUser(k) ==
  /\ ecaCall[k].stage = "read"
  /\ LET known == RowsOf(enrollId[k[1]]) # {}
         row == FirstRow(enrollId[k[1]])
     IN ecaCallAt(k, IF ~known \/ row.tok # ecaCall[k].tok THEN "failed"
                     ELSE CASE row.state = 0 -> "challenge"
                            [] row.state = 1 -> IF row.key = k THEN "sign" ELSE "failed"
                            [] row.state = 2 -> "failed")
  /\ UNCHANGED <<ecaUsers, ecaCerts, adminCall, caFaults, nodePart, enrollId>>

SetRow(id, tok, state, key) ==
  [i \in DOMAIN ecaUsers |->
     IF ecaUsers[i].id = id
       THEN [ecaUsers[i] EXCEPT !.tok = tok, !.state = state, !.key = key]
       ELSE ecaUsers[i]]

(* State 0: the token is replaced by a challenge encrypted for the key.    *)
Challenge(k) ==
  /\ ecaCall[k].stage = "challenge"
  /\ \/ /\ ecaUsers' = SetRow(enrollId[k[1]], k, 1, k)
        /\ ecaCallAt(k, "challenged")
        /\ UNCHANGED caFaults
     \/ /\ CaFault
        /\ ecaCallAt(k, "failed")
        /\ UNCHANGED ecaUsers
  /\ UNCHANGED <<ecaCerts, adminCall, nodePart, enrollId>>

createCertificate(k, usage) ==
  ecaCerts' = ecaCerts \cup {[id |-> enrollId[k[1]], key |-> k, usage |-> usage]}
deleteCertificates(k) == ecaCerts' = {c \in ecaCerts : c.id # enrollId[k[1]]}

(* State 1: the certificate for signing, ...                               *)
SignCertificate(k) ==
  /\ ecaCall[k].stage = "sign"
  /\ \/ createCertificate(k, "sign") /\ ecaCallAt(k, "enc") /\ UNCHANGED caFaults
     \/ CaFault /\ ecaCallAt(k, "failed") /\ UNCHANGED ecaCerts
  /\ UNCHANGED <<ecaUsers, adminCall, nodePart, enrollId>>

(* ... the one for encrypting, whose failure deletes both, ...             *)
EncCertificate(k) ==
  /\ ecaCall[k].stage = "enc"
  /\ \/ createCertificate(k, "enc") /\ ecaCallAt(k, "finish") /\ UNCHANGED caFaults
     \/ CaFault /\ ecaCallAt(k, "failed") /\ deleteCertificates(k)
  /\ UNCHANGED <<ecaUsers, adminCall, nodePart, enrollId>>

(* ... and the state that ends the use of the token.                       *)
FinishPair(k) ==
  /\ ecaCall[k].stage = "finish"
  /\ \/ /\ ecaUsers' = [i \in DOMAIN ecaUsers |->
                          IF ecaUsers[i].id = enrollId[k[1]] THEN [ecaUsers[i] EXCEPT !.state = 2]
                          ELSE ecaUsers[i]]
        /\ ecaCallAt(k, "paired")
        /\ UNCHANGED <<ecaCerts, caFaults>>
     \/ /\ CaFault
        /\ ecaCallAt(k, "failed")
        /\ deleteCertificates(k)
        /\ UNCHANGED ecaUsers
  /\ UNCHANGED <<adminCall, nodePart, enrollId>>

(* The server stops and starts again on its tables; its calls are lost.    *)
RestartECA ==
  /\ CaFault
  /\ ecaUsers' = NewECA(ecaUsers, ConfiguredIds)
  /\ ecaCall' = [k \in EnrollKeys |->
       IF ecaCall[k].stage = "none" THEN NoCall ELSE [ecaCall[k] EXCEPT !.stage = "failed"]]
  /\ adminCall' = IF adminCall = "checked" THEN "done" ELSE adminCall
  /\ UNCHANGED <<ecaCerts, nodePart, enrollId>>

(***************************************************************************)
(* Registration of a node.                                                 *)
(***************************************************************************)
goes(n, step) == enrollAt' = [enrollAt EXCEPT ![n] = step]
stores(n, f) == files' = [files EXCEPT ![n] = (f :> Key(n)) @@ @]
loads(n, f) == files[n][f]
isRegistered(n) == "id" \in DOMAIN files[n]
NodeOnly == UNCHANGED <<ecaUsers, ecaCerts, adminCall, enrollId>>

(* register of a node that is neither initialised nor registered; of one   *)
(* that is, it returns and changes nothing.                                *)
register(n) ==
  /\ n \in DOMAIN enrollId
  /\ enrollAt[n] = "none" /\ counter[n] = 0 /\ ~isRegistered(n)
  /\ attempts[n] < MaxAttempts
  /\ attempts' = [attempts EXCEPT ![n] = @ + 1]
  /\ goes(n, "eca")
  /\ NodeOnly /\ UNCHANGED <<ecaCall, caFaults, files, counter, enrollCerts, ksCerts>>

RegisterClient(n) == NodeKind[n] = "client" /\ register(n)
RegisterPeer(n) == NodeKind[n] = "peer" /\ register(n)
RegisterValidator(n) == NodeKind[n] = "validator" /\ register(n)

(* A step of the registration fails: the call returns an error and what    *)
(* has been stored stays.                                                  *)
RegistrationFails(n) ==
  /\ enrollAt[n] \notin {"none", "asked"} /\ CaFault
  /\ goes(n, "none")
  /\ NodeOnly /\ UNCHANGED <<ecaCall, attempts, files, counter, enrollCerts, ksCerts>>

retrieveECACertsChain(n) ==
  /\ enrollAt[n] = "eca" /\ stores(n, "eca") /\ goes(n, "tca")
  /\ NodeOnly /\ UNCHANGED <<ecaCall, caFaults, attempts, counter, enrollCerts, ksCerts>>

retrieveTCACertsChain(n) ==
  /\ enrollAt[n] = "tca" /\ stores(n, "tca") /\ goes(n, "ask")
  /\ NodeOnly /\ UNCHANGED <<ecaCall, caFaults, attempts, counter, enrollCerts, ksCerts>>

callECA(n, tok) ==
  /\ ecaCall' = [ecaCall EXCEPT ![Key(n)] = [stage |-> "read", tok |-> tok]]
  /\ goes(n, "asked")
  /\ NodeOnly /\ UNCHANGED <<caFaults, attempts, files, counter, enrollCerts, ksCerts>>

(* getEnrollmentCertificateFromECA: the call with the password, and the    *)
(* one with the decrypted challenge.                                       *)
AskECA(n) == enrollAt[n] = "ask" /\ callECA(n, Password)
AnswerECA(n) == enrollAt[n] = "answer" /\ callECA(n, Key(n))

(* The reply, or an error when it is lost; nobody waits for the reply to   *)
(* an attempt that a crash has ended.                                      *)
EndCall(k) ==
  LET n == k[1]
      waits == enrollAt[n] = "asked" /\ k = Key(n)
  IN /\ ecaCall[k].stage \in {"challenged", "paired", "failed"}
     /\ ecaCall' = [ecaCall EXCEPT ![k] = NoCall]
     /\ \/ ~waits /\ UNCHANGED <<enrollAt, caFaults>>
        \/ /\ waits /\ UNCHANGED caFaults
           /\ goes(n, CASE ecaCall[k].stage = "challenged" -> "answer"
                        [] ecaCall[k].stage = "paired" -> "id"
                        [] ecaCall[k].stage = "failed" -> "none")
        \/ waits /\ ecaCall[k].stage # "failed" /\ CaFault /\ goes(n, "none")
     /\ NodeOnly /\ UNCHANGED <<attempts, files, counter, enrollCerts, ksCerts>>

storeFile(n, fs) ==
  /\ enrollAt[n] \in fs
  /\ stores(n, enrollAt[n]) /\ goes(n, After(n, enrollAt[n]))
  /\ NodeOnly /\ UNCHANGED <<ecaCall, caFaults, attempts, counter, enrollCerts, ksCerts>>

(* The files are written one after the other: the enrollment id, which is  *)
(* the mark of a registered node, before the key and the certificate, ...  *)
retrieveEnrollmentData(n) == storeFile(n, {"id", "key", "cert", "chain"})

(* ... the key and the certificate for TLS, and the query key of a client. *)
retrieveTLSCertificate(n) == storeFile(n, {"tlskey", "tlscert"})
registerCryptoEngine(n) == storeFile(n, {"query"})

CrashNode(n) ==
  /\ enrollAt[n] # "none" \/ counter[n] > 0
  /\ CaFault
  /\ goes(n, "none")
  /\ counter' = [counter EXCEPT ![n] = 0]
  /\ enrollCerts' = [enrollCerts EXCEPT ![n] = {}]
  /\ NodeOnly /\ UNCHANGED <<ecaCall, attempts, files, ksCerts>>

(***************************************************************************)
(* Use of a node.                                                          *)
(***************************************************************************)
Loaded(n) == {"eca", "tca", "key", "cert", "id", "chain", "tlscert"}
  \cup (IF NodeKind[n] = "client" THEN {"query"} ELSE {})

(* initCryptoEngine loads the files and checks the certificate against the *)
(* key.                                                                    *)
initCryptoEngine(n) ==
  /\ Loaded(n) \subseteq DOMAIN files[n]
  /\ loads(n, "key") = loads(n, "cert")

(* A node that is in the map is counted once more; another one is          *)
(* initialised from its files, and an error changes nothing.               *)
nodeInit(n) ==
  /\ enrollAt[n] = "none" /\ counter[n] < MaxHeld
  /\ counter[n] = 0 => isRegistered(n) /\ initCryptoEngine(n)
  /\ counter' = [counter EXCEPT ![n] = @ + 1]
  /\ UNCHANGED <<ecaPart, enrollId, enrollAt, attempts, files, enrollCerts, ksCerts>>

InitClient(n) == NodeKind[n] = "client" /\ nodeInit(n)
InitPeer(n) == NodeKind[n] = "peer" /\ nodeInit(n)
InitValidator(n) == NodeKind[n] = "validator" /\ nodeInit(n)

(* The last use of a node closes it; closing all of them does so at once.  *)
nodeClose(n, force) ==
  /\ enrollAt[n] = "none" /\ counter[n] > 0
  /\ LET left == IF force THEN 0 ELSE counter[n] - 1
     IN /\ counter' = [counter EXCEPT ![n] = left]
        /\ enrollCerts' = [enrollCerts EXCEPT ![n] = IF left = 0 THEN {} ELSE @]
  /\ UNCHANGED <<ecaPart, enrollId, enrollAt, attempts, files, ksCerts>>

CloseClient(n) == NodeKind[n] = "client" /\ \E force \in BOOLEAN : nodeClose(n, force)
ClosePeer(n) == NodeKind[n] = "peer" /\ \E force \in BOOLEAN : nodeClose(n, force)
CloseValidator(n) == NodeKind[n] = "validator" /\ \E force \in BOOLEAN : nodeClose(n, force)

readCertificateByHash(key) == \E c \in ecaCerts : c.key = key /\ c.usage = "sign"

(* GetSignEnrollmentCert takes the certificate from the key store, and     *)
(* fetches it from the ECA into the key store when it is not there.        *)
GetSignEnrollmentCert(v, key) ==
  /\ key \in ksCerts[v] \/ readCertificateByHash(key)
  /\ ksCerts' = [ksCerts EXCEPT ![v] = @ \cup {key}]

(* getEnrollmentCert looks into the memory of the validator first.         *)
getEnrollmentCert(v, key) ==
  IF key \in enrollCerts[v]
    THEN UNCHANGED <<enrollCerts, ksCerts>>
    ELSE /\ GetSignEnrollmentCert(v, key)
         /\ enrollCerts' = [enrollCerts EXCEPT ![v] = @ \cup {key}]

(* Verify of validator v for a message that validator n has signed.        *)
Verify(v, n) ==
  /\ v # n /\ NodeKind[v] = "validator" /\ NodeKind[n] = "validator"
  /\ counter[v] > 0 /\ counter[n] > 0
  /\ getEnrollmentCert(v, loads(n, "cert"))
  /\ UNCHANGED <<ecaPart, enrollId, enrollAt, attempts, files, counter>>

EnrollNext ==
  \/ RegisterUserChecks \/ RegisterUserInserts \/ RestartECA
  \/ \E k \in EnrollKeys :
       \/ ReadUser(k) \/ Challenge(k) \/ SignCertificate(k) \/ EncCertificate(k)
       \/ FinishPair(k) \/ EndCall(k)
  \/ \E n \in EnrollNodes :
       \/ RegisterClient(n) \/ RegisterPeer(n) \/ RegisterValidator(n) \/ RegistrationFails(n)
       \/ retrieveECACertsChain(n) \/ retrieveTCACertsChain(n) \/ AskECA(n) \/ AnswerECA(n)
       \/ retrieveEnrollmentData(n) \/ retrieveTLSCertificate(n) \/ registerCryptoEngine(n)
       \/ InitClient(n) \/ InitPeer(n) \/ InitValidator(n)
       \/ CloseClient(n) \/ ClosePeer(n) \/ CloseValidator(n) \/ CrashNode(n)
       \/ \E v \in EnrollNodes : Verify(v, n)

EnrollSpec == EnrollInit /\ [][EnrollNext]_enrollVars

(***************************************************************************)
(* Properties.                                                             *)
(***************************************************************************)
Stages == {"none", "read", "challenge", "sign", "enc", "finish", "challenged", "paired", "failed"}

EnrollTypeOK ==
  /\ ecaUsers \in Seq([id : ConfiguredIds \cup {NewUser}, tok : EnrollValues, state : 0..2, key : EnrollValues])
  /\ ecaCerts \subseteq [id : ConfiguredIds, key : EnrollKeys, usage : {"sign", "enc"}]
  /\ adminCall \in {"none", "checked", "done"}
  /\ ecaCall \in [EnrollKeys -> [stage : Stages, tok : EnrollValues]]
  /\ enrollAt \in [EnrollNodes -> Files \cup {"none", "ask", "asked", "answer"}]
  /\ attempts \in [EnrollNodes -> 0..MaxAttempts]
  /\ \A n \in EnrollNodes : DOMAIN files[n] \subseteq Files
  /\ counter \in [EnrollNodes -> 0..MaxHeld]
  /\ \A n \in EnrollNodes : enrollCerts[n] \subseteq ksCerts[n] /\ ksCerts[n] \subseteq EnrollKeys

(* A node that runs (core/crypto/node_impl.go:128) has an enrollment       *)
(* certificate for the key it signs with, and the ECA has both             *)
(* certificates of that attempt in its table, so that a validator that     *)
(* looks the certificate up by its hash (validator_eca.go:66) finds it:    *)
(* after lost replies, crashes of the node at any step, failed statements  *)
(* and restarts of the ECA, and when nodes share an enrollment id.         *)
EnrolmentRecorded ==
  \A n \in EnrollNodes : counter[n] > 0 =>
    /\ files[n]["key"] = files[n]["cert"]
    /\ \A u \in {"sign", "enc"} :
         [id |-> enrollId[n], key |-> files[n]["key"], usage |-> u] \in ecaCerts

(* The ECA has one row for every user it knows, whatever the number of     *)
(* its restarts: registerUser (ca.go:303) adds a user that has none.       *)
OneRowPerUser ==
  \A i, j \in DOMAIN ecaUsers : ecaUsers[i].id = ecaUsers[j].id => i = j
=============================================================================
