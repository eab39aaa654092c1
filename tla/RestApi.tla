------------------------------ MODULE RestApi ------------------------------
(***************************************************************************)
(* The REST service of a peer (core/rest) and the Devops service behind it *)
(* (core/devops.go).  Every request is served by a goroutine of its own;   *)
(* the requests meet in the login tokens and the key directories of the    *)
(* users, which are files, and in the map of crypto clients with its       *)
(* counts.  A step is one access to one of them.  A payload is the set of  *)
(* fields it lacks: the handlers look at them in a fixed order and answer  *)
(* for the first one missing.                                              *)
(***************************************************************************)
EXTENDS Integers, Sequences, FiniteSets, FiniteSetsExt, Functions

CONSTANTS
  RestConns,          \* connections, one request at a time on each
  RestUsers,
  RestCases,          \* situations: [secured, devMode: the configuration, arrivals: bound, the
                      \* requests [kind, rpc, lacks] that can arrive first, second, ...]
  MaxDiskFaults       \* bound: file operations that fail

ASSUME RestAssumption == IsFiniteSet(RestConns)

VARIABLES
  restCase,
  conn,               \* conn[c]: the request, what its handler does next, its answer
  tokens,             \* users with a file loginToken_<user>
  userKeys,           \* userKeys[u]: the directory of keys of u
  clientUses,         \* clientUses[u]: the counter of u in the map of clients, 0 when absent
  leaks,              \* clients of requests that have returned without closing them
  loggedOut,          \* users logged out by a request that no login has overlapped
  requestsSeen, diskFaults

restVars == <<restCase, conn, tokens, userKeys, clientUses, leaks, loggedOut, requestsSeen, diskFaults>>

secured == restCase.secured      \* security.enabled
devMode == restCase.devMode      \* chaincode.mode is DevModeUserRunsChaincode
MaxRestRequests == Max({Len(k.arrivals) : k \in RestCases})

NoRest == [kind |-> "none", rpc |-> FALSE, lacks |-> {}]
NoAnswer == <<0, "none">>
Silent == <<0, "silent">>
Fatal == <<500, "panic">>
TxKinds == {"deploy", "invoke", "query"}

NewConn(r, u) == [req |-> r, user |-> u, at |-> "start", answer |-> NoAnswer, sent |-> FALSE, alone |-> TRUE]

RestRequests == UNION UNION {Range(k.arrivals) : k \in RestCases}

RestInit ==
  /\ restCase \in RestCases
  /\ conn = [c \in RestConns |-> [NewConn(NoRest, "none") EXCEPT !.at = "done"]]
  /\ tokens = {} /\ loggedOut = {}
  /\ userKeys = [u \in RestUsers |-> "none"]
  /\ clientUses = [u \in RestUsers |-> 0]
  /\ leaks = [u \in RestUsers |-> 0]
  /\ requestsSeen = 0 /\ diskFaults = 0

DiskFault == diskFaults < MaxDiskFaults /\ diskFaults' = diskFaults + 1
restFiles == <<tokens, userKeys>>
UserOf(c) == conn[c].user
Serves(c, k, step) == conn[c].req.kind = k /\ conn[c].at = step
LogsIn(u) == \E c \in RestConns : conn[c].req.kind = "Register" /\ conn[c].at # "done" /\ UserOf(c) = u

goesOn(c, step) == conn' = [conn EXCEPT ![c].at = step]
answers(c, a) == conn' = [conn EXCEPT ![c].at = "done", ![c].answer = a]

(* A request arrives on a connection that is free.  A login that begins    *)
(* ends the time its user is logged out, and spoils the logouts under way. *)
Accept(c, r, u) ==
  /\ conn[c].at = "done" /\ requestsSeen < Len(restCase.arrivals) /\ r \in restCase.arrivals[requestsSeen + 1]
  /\ requestsSeen' = requestsSeen + 1
  /\ LET login == r.kind = "Register"
     IN /\ conn' = [d \in RestConns |->
                      IF d = c THEN [NewConn(r, u) EXCEPT !.alone = ~LogsIn(u)]
                      ELSE IF login /\ UserOf(d) = u THEN [conn[d] EXCEPT !.alone = FALSE] ELSE conn[d]]
        /\ loggedOut' = IF login THEN loggedOut \ {u} ELSE loggedOut
  /\ UNCHANGED <<restCase, restFiles, clientUses, leaks, diskFaults>>

(***************************************************************************)
(* The crypto clients, each operation under clientMutex (crypto/client.go).*)
(***************************************************************************)
isEnrolled(u) == userKeys[u] \in {"id", "all"}

(* Devops.Login registers the client: one that is in use, or that has its  *)
(* enrollment id, is taken for registered; another one enrols, and leaves  *)
(* what it has written when it fails.                                      *)
Login(u, ok) ==
  IF clientUses[u] > 0 \/ isEnrolled(u)
    THEN ok /\ UNCHANGED userKeys
    ELSE \E k \in (IF ok THEN {"all"} ELSE {"part", "id"}) : userKeys' = [userKeys EXCEPT ![u] = k]

CanInit(u) == clientUses[u] > 0 \/ userKeys[u] = "all"
InitCryptoClient(u) == clientUses' = [clientUses EXCEPT ![u] = @ + 1]
CloseCryptoClient(u) == clientUses' = [clientUses EXCEPT ![u] = @ - 1]

(***************************************************************************)
(* Login and logout.                                                       *)
(***************************************************************************)
(* Register refuses blank fields, answers at once for a user with a token, *)
(* and else logs in and writes the token.  A token that cannot be written  *)
(* ends in a panic, which net/http confines to the request.                *)
Register(c) ==
  LET u == UserOf(c) IN
  \/ /\ Serves(c, "Register", "start")
     /\ IF conn[c].req.lacks # {} THEN answers(c, <<400, "Error">>)
        ELSE IF u \in tokens THEN answers(c, <<200, "OK">>)
        ELSE goesOn(c, "login")
     /\ UNCHANGED <<restCase, restFiles, clientUses, leaks, loggedOut, requestsSeen, diskFaults>>
  \/ /\ Serves(c, "Register", "login")
     /\ \/ Login(u, TRUE) /\ goesOn(c, "store")
        \/ Login(u, FALSE) /\ answers(c, <<401, "Error">>)
     /\ UNCHANGED <<restCase, tokens, clientUses, leaks, loggedOut, requestsSeen, diskFaults>>
  \/ /\ Serves(c, "Register", "store")
     /\ \/ tokens' = tokens \cup {u} /\ answers(c, <<200, "OK">>) /\ UNCHANGED diskFaults
        \/ DiskFault /\ answers(c, Fatal) /\ UNCHANGED tokens
     /\ UNCHANGED <<restCase, userKeys, clientUses, leaks, loggedOut, requestsSeen>>

GetEnrollmentID(c) ==
  /\ Serves(c, "GetEnrollmentID", "start")
  /\ answers(c, IF UserOf(c) \in tokens THEN <<200, "OK">> ELSE <<401, "Error">>)
  /\ UNCHANGED <<restCase, restFiles, clientUses, leaks, loggedOut, requestsSeen, diskFaults>>

(* Takes a user for logged out who has no token or no keys.                *)
NotLoggedInEither(u) == u \notin tokens \/ userKeys[u] = "none"

(* A logout has nothing to do only when token and keys are both missing.   *)
NotLoggedIn(u) == u \notin tokens /\ userKeys[u] = "none"

(* The logout is over: whoever no login has overlapped is logged out.      *)
LogoutEnds(c) ==
  /\ answers(c, <<200, "OK">>)
  /\ loggedOut' = IF conn[c].alone THEN loggedOut \cup {UserOf(c)} ELSE loggedOut

(* DeleteEnrollmentID looks at both, removes the token, then the keys.     *)
DeleteEnrollmentID(c) ==
  LET u == UserOf(c) IN
  \/ /\ Serves(c, "DeleteEnrollmentID", "start")
     /\ IF NotLoggedIn(u) THEN LogoutEnds(c) ELSE goesOn(c, "token") /\ UNCHANGED loggedOut
     /\ UNCHANGED <<restCase, restFiles, clientUses, leaks, requestsSeen, diskFaults>>
  \/ /\ Serves(c, "DeleteEnrollmentID", "token")
     /\ \/ tokens' = tokens \ {u} /\ goesOn(c, "keys") /\ UNCHANGED diskFaults
        \/ DiskFault /\ answers(c, <<500, "Error">>) /\ UNCHANGED tokens
     /\ UNCHANGED <<restCase, userKeys, clientUses, leaks, loggedOut, requestsSeen>>
  \/ /\ Serves(c, "DeleteEnrollmentID", "keys")
     /\ \/ userKeys' = [userKeys EXCEPT ![u] = "none"] /\ LogoutEnds(c) /\ UNCHANGED diskFaults
        \/ DiskFault /\ answers(c, <<500, "Error">>) /\ UNCHANGED <<userKeys, loggedOut>>
     /\ UNCHANGED <<restCase, tokens, clientUses, leaks, requestsSeen>>

(***************************************************************************)
(* Certificates.                                                           *)
(***************************************************************************)
(* A client is initialised; when its certificate is not to be had the      *)
(* handler returns and leaves the client open.                             *)
Certificate(c, kind) ==
  LET u == UserOf(c) IN
  \/ /\ Serves(c, kind, "start")
     /\ IF conn[c].req.lacks # {} \/ ~secured \/ ~CanInit(u)
          THEN answers(c, <<400, "Error">>) /\ UNCHANGED clientUses
          ELSE InitCryptoClient(u) /\ goesOn(c, "handler")
     /\ UNCHANGED <<restCase, restFiles, leaks, loggedOut, requestsSeen, diskFaults>>
  \/ /\ Serves(c, kind, "handler")
     /\ \/ CloseCryptoClient(u) /\ answers(c, <<200, "OK">>) /\ UNCHANGED leaks
        \/ /\ answers(c, <<500, "Error">>)
           /\ leaks' = [leaks EXCEPT ![u] = @ + 1]
           /\ UNCHANGED clientUses
     /\ UNCHANGED <<restCase, restFiles, loggedOut, requestsSeen, diskFaults>>

GetEnrollmentCert(c) == Certificate(c, "GetEnrollmentCert")
GetTransactionCert(c) == Certificate(c, "GetTransactionCert")

(***************************************************************************)
(* Reading the ledger: what the ledger returns and how it is answered.     *)
(***************************************************************************)
LedgerRead(c, kind, replies) ==
  /\ Serves(c, kind, "start")
  /\ IF conn[c].req.lacks # {} THEN answers(c, <<400, "Error">>)
     ELSE \E a \in replies : answers(c, a)
  /\ UNCHANGED <<restCase, restFiles, clientUses, leaks, loggedOut, requestsSeen, diskFaults>>

(* The information of an empty chain is an error; a failed read is a nil   *)
(* dereference.                                                            *)
GetBlockchainInfo(c) == LedgerRead(c, "GetBlockchainInfo", {<<200, "OK">>, <<400, "Error">>, Fatal})
RestGetBlockByNumber(c) == LedgerRead(c, "GetBlockByNumber", {<<200, "OK">>, <<404, "Error">>, <<500, "Error">>})
RestGetTransactionByUUID(c) == LedgerRead(c, "GetTransactionByUUID", {<<200, "OK">>, <<404, "Error">>, <<500, "Error">>})

(***************************************************************************)
(* Transactions.                                                           *)
(***************************************************************************)
DeployFields == <<"id", IF devMode THEN "name" ELSE "path", "ctor">>
InvokeFields == <<"id", "name", "ctor">>
UserField == IF secured THEN <<"user">> ELSE <<>>
RpcFields == <<"body", "json", "version", "method", "known", "spec">>

FirstLack(fields, lacks) ==
  LET missing == SelectSeq(fields, LAMBDA x : x \in lacks)
  IN IF missing = <<>> THEN "nothing" ELSE Head(missing)

(* The token is looked for, then read, and put into the spec as context.   *)
CheckToken(c, unauthorised, fatal) ==
  \/ ~secured /\ goesOn(c, "devops") /\ UNCHANGED diskFaults
  \/ secured /\ UserOf(c) \in tokens /\ goesOn(c, "read") /\ UNCHANGED diskFaults
  \/ secured /\ UserOf(c) \notin tokens /\ answers(c, unauthorised) /\ UNCHANGED diskFaults
  \/ secured /\ DiskFault /\ answers(c, fatal)

ReadToken(c, fatal) ==
  /\ conn[c].at = "read"
  /\ \/ UserOf(c) \in tokens /\ goesOn(c, "devops") /\ UNCHANGED diskFaults
     \/ UserOf(c) \notin tokens /\ answers(c, fatal) /\ UNCHANGED diskFaults
     \/ UserOf(c) \in tokens /\ DiskFault /\ answers(c, fatal)

(* A handler of its own endpoint checks the payload, then the token; what  *)
(* Devops returns is its answer.                                           *)
Handle(c, kind, fields) ==
  LET lack == FirstLack(fields \o UserField, conn[c].req.lacks) IN
  /\ conn[c].req.kind = kind /\ ~conn[c].req.rpc
  /\ \/ /\ conn[c].at = "start"
        /\ IF lack # "nothing" THEN answers(c, <<400, "Error">>) /\ UNCHANGED diskFaults
           ELSE CheckToken(c, <<401, "Error">>, Fatal)
     \/ ReadToken(c, Fatal)
     \/ conn[c].at = "failed" /\ answers(c, <<400, "Error">>) /\ UNCHANGED diskFaults
     \/ conn[c].at = "executed" /\ answers(c, <<200, "OK">>) /\ UNCHANGED diskFaults
  /\ UNCHANGED <<restCase, restFiles, clientUses, leaks, loggedOut, requestsSeen>>

RestDeploy(c) == Handle(c, "deploy", <<"body", "json">> \o DeployFields)
RestInvoke(c) == Handle(c, "invoke", <<"body", "json", "spec">> \o InvokeFields)
RestQuery(c) == Handle(c, "query", <<"body", "json", "spec">> \o InvokeFields)

(* ProcessChaincode.  A request without id is a notification: it is        *)
(* carried out and gets no answer.                                         *)
Notification(c) == "rpcid" \in conn[c].req.lacks
rpcAnswers(c, status, outcome) ==
  answers(c, IF Notification(c) THEN Silent ELSE <<status, outcome>>)

ProcessChaincode(c) ==
  LET lack == FirstLack(RpcFields, conn[c].req.lacks) IN
  /\ conn[c].req.rpc /\ conn[c].at = "start"
  /\ CASE lack = "body" -> answers(c, <<400, "InvalidRequest">>)
       [] lack = "json" -> answers(c, <<400, "ParseError">>)
       [] lack \in {"version", "method"} -> rpcAnswers(c, 400, "InvalidRequest")
       [] lack = "known" -> rpcAnswers(c, 404, "MethodNotFound")
       [] lack = "spec" -> rpcAnswers(c, 400, "InvalidParams")
       [] OTHER -> goesOn(c, "process")
  /\ UNCHANGED <<restCase, restFiles, clientUses, leaks, loggedOut, requestsSeen, diskFaults>>

(* Deploy, invoke and query of a JSON-RPC request: every outcome from here *)
(* on has status 200.                                                      *)
Process(c, kinds, fields) ==
  LET lack == FirstLack(fields \o UserField, conn[c].req.lacks)
      rpc(outcome) == IF Notification(c) THEN Silent ELSE <<200, outcome>>
  IN /\ conn[c].req.kind \in kinds /\ conn[c].req.rpc
     /\ \/ /\ conn[c].at = "process"
           /\ IF lack # "nothing" THEN answers(c, rpc("InvalidParams")) /\ UNCHANGED diskFaults
              ELSE CheckToken(c, rpc("MissingRegistration"), rpc("InternalError"))
        \/ ReadToken(c, rpc("InternalError"))
        \/ conn[c].at = "failed" /\ answers(c, rpc("ChaincodeError")) /\ UNCHANGED diskFaults
        \/ conn[c].at = "executed" /\ answers(c, rpc("OK")) /\ UNCHANGED diskFaults
     /\ UNCHANGED <<restCase, restFiles, clientUses, leaks, loggedOut, requestsSeen>>

processChaincodeDeploy(c) == Process(c, {"deploy"}, DeployFields)
processChaincodeInvokeOrQuery(c) == Process(c, {"invoke", "query"}, InvokeFields)

(***************************************************************************)
(* Devops.                                                                 *)
(***************************************************************************)
devopsOnly == UNCHANGED <<restCase, restFiles, leaks, loggedOut, requestsSeen, diskFaults>>

(* getChaincodeBytes checks and packs the code, outside development mode.  *)
getChaincodeBytes(c) ==
  /\ conn[c].at = "devops"
  /\ ~devMode /\ goesOn(c, "failed") /\ UNCHANGED clientUses

(* With security on the client is initialised, and closed when the call    *)
(* returns (defer); the transaction is made and executed in between.       *)
openClient(c) ==
  /\ conn[c].at = "devops"
  /\ IF ~secured THEN goesOn(c, "execute") /\ UNCHANGED clientUses
     ELSE IF CanInit(UserOf(c)) THEN InitCryptoClient(UserOf(c)) /\ goesOn(c, "execute")
     ELSE goesOn(c, "failed") /\ UNCHANGED clientUses

ExecuteTx(c) ==
  /\ conn[c].at = "execute"
  /\ \E made, ok \in BOOLEAN :
       conn' = [conn EXCEPT ![c].sent = made, ![c].at = IF made /\ ok THEN "closeOk" ELSE "closeFailed"]
  /\ UNCHANGED clientUses

closeClient(c) ==
  /\ conn[c].at \in {"closeOk", "closeFailed"}
  /\ goesOn(c, IF conn[c].at = "closeOk" THEN "executed" ELSE "failed")
  /\ IF secured THEN CloseCryptoClient(UserOf(c)) ELSE UNCHANGED clientUses

DevopsDeploy(c) ==
  /\ conn[c].req.kind = "deploy"
  /\ getChaincodeBytes(c) \/ openClient(c) \/ ExecuteTx(c) \/ closeClient(c)
  /\ devopsOnly

invokeOrQuery(c) ==
  /\ conn[c].req.kind \in {"invoke", "query"}
  /\ openClient(c) \/ ExecuteTx(c) \/ closeClient(c)
  /\ devopsOnly

RestStep(c) ==
  \/ Register(c) \/ GetEnrollmentID(c) \/ DeleteEnrollmentID(c)
  \/ GetEnrollmentCert(c) \/ GetTransactionCert(c)
  \/ GetBlockchainInfo(c) \/ RestGetBlockByNumber(c) \/ RestGetTransactionByUUID(c)
  \/ RestDeploy(c) \/ RestInvoke(c) \/ RestQuery(c)
  \/ ProcessChaincode(c) \/ processChaincodeDeploy(c) \/ processChaincodeInvokeOrQuery(c)
  \/ DevopsDeploy(c) \/ invokeOrQuery(c)

RestNext ==
  \E c \in RestConns :
    \/ RestStep(c)
    \/ \E r \in RestRequests, u \in RestUsers : Accept(c, r, u)

RestSpec == RestInit /\ [][RestNext]_restVars

(***************************************************************************)
(* Properties.                                                             *)
(***************************************************************************)
RestTypeOK ==
  /\ restCase \in RestCases
  /\ tokens \subseteq RestUsers /\ loggedOut \subseteq RestUsers
  /\ userKeys \in [RestUsers -> {"none", "part", "id", "all"}]
  /\ clientUses \in [RestUsers -> 0 .. MaxRestRequests]
  /\ leaks \in [RestUsers -> 0 .. MaxRestRequests]
  /\ \A c \in RestConns : conn[c].req \in RestRequests \cup {NoRest}

(* The counter of a crypto client (crypto/client.go:80) is the number of   *)
(* requests that use it: no request works with a client that another one   *)
(* has closed, and after the last one the client is closed.  The only      *)
(* exception is a request for a certificate that fails after InitClient    *)
(* (rest_api.go:361, 487), which leaves the client open for ever.          *)
ClientsBalanced ==
  \A u \in RestUsers :
    clientUses[u] = leaks[u] + Cardinality({c \in RestConns :
      UserOf(c) = u /\ conn[c].at \in {"handler", "execute", "closeOk", "closeFailed"} /\ secured})

(* "Once the login token is removed, the specified user will no longer be  *)
(* able to transact without logging in again" (rest_api.go:281): after a   *)
(* logout that answered OK and that no login has overlapped there is no    *)
(* token until the next login begins, whatever tokens and keys earlier     *)
(* requests, overlapping ones and failed file operations have left.        *)
LogoutHolds == loggedOut \cap tokens = {}

(* The answer tells what became of the transaction (rest_api.go:649-1622): *)
(* success is answered only when it was handed to the peer, a refusal only *)
(* when it was not; and every request is answered but a notification that  *)
(* could be parsed, "The Server MUST NOT reply to a Notification".         *)
AnswersTellEffects ==
  \A c \in RestConns : conn[c].at = "done" /\ conn[c].req.kind \in TxKinds =>
    LET k == conn[c]
        parsed == k.req.rpc /\ k.req.lacks \cap {"body", "json"} = {}
    IN /\ k.answer[2] = "OK" => k.sent
       /\ k.answer[1] \in {401, 404} \/ k.answer[2] \in {"InvalidParams", "InvalidRequest", "MissingRegistration"} => ~k.sent
       /\ (k.answer = Silent) <=> (parsed /\ "rpcid" \in k.req.lacks)
       /\ k.answer # NoAnswer
=============================================================================
