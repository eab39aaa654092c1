--------------------------- MODULE RestApiProofs ---------------------------
(***************************************************************************)
(* Proofs about RestApi: logouts hold and crypto clients are balanced, for *)
(* any number of connections and users, any requests and any failures.     *)
(***************************************************************************)
EXTENDS RestApi, FiniteSetTheorems, TLAPS

\* The steps at which a request has a crypto client open.
HoldPcs == {"handler", "execute", "closeOk", "closeFailed"}
Holders(u) == {c \in RestConns : UserOf(c) = u /\ conn[c].at \in HoldPcs /\ secured}

IsConn(k) == k = [req |-> k.req, user |-> k.user, at |-> k.at, answer |-> k.answer, sent |-> k.sent, alone |-> k.alone]

ConnTyped ==
  /\ conn = [c \in RestConns |-> conn[c]]
  /\ \A c \in RestConns : IsConn(conn[c]) /\ (conn[c].at # "done" => UserOf(c) \in RestUsers)
  /\ \A c \in RestConns : conn[c].at = "handler" => secured

CountTyped == clientUses \in [RestUsers -> Int] /\ leaks \in [RestUsers -> Int]

LogsOut(c) == conn[c].req.kind = "DeleteEnrollmentID" /\ conn[c].at # "done" /\ conn[c].alone

\* While a user is logged out, or a logout that no login has overlapped is
\* under way, nobody is about to write a token.
LogoutInv ==
  /\ \A u \in loggedOut : u \notin tokens /\ ~LogsIn(u)
  /\ \A c \in RestConns : LogsOut(c) => ~LogsIn(UserOf(c)) /\ (conn[c].at = "keys" => UserOf(c) \notin tokens)

RestInv == ConnTyped /\ CountTyped /\ LogoutInv /\ ClientsBalanced

\* Connection c goes to step s, and keeps its request.
Moved(c, s) ==
  /\ conn' = [d \in RestConns |-> conn'[d]]
  /\ IsConn(conn'[c]) /\ conn'[c].at = s
  /\ conn'[c].req = conn[c].req /\ conn'[c].user = conn[c].user /\ conn'[c].alone = conn[c].alone
  /\ \A d \in RestConns : d # c => conn'[d] = conn[d]

\* goesOn moves a connection.
LEMMA GoesOnMoves ==
  ASSUME ConnTyped, NEW c \in RestConns, NEW s, goesOn(c, s)
  PROVE  Moved(c, s)
<1>1. IsConn(conn[c]) BY DEF ConnTyped
<1>2. conn'[c] = [conn[c] EXCEPT !.at = s] /\ \A d \in RestConns : d # c => conn'[d] = conn[d]
  BY DEF ConnTyped, goesOn
<1>3. conn' = [d \in RestConns |-> conn'[d]] BY DEF ConnTyped, goesOn
<1> QED BY <1>1, <1>2, <1>3 DEF Moved, IsConn

\* An answer ends the request.
LEMMA AnswersMoves ==
  ASSUME ConnTyped, NEW c \in RestConns, NEW a, answers(c, a)
  PROVE  Moved(c, "done")
<1>1. IsConn(conn[c]) BY DEF ConnTyped
<1>2. conn'[c] = [conn[c] EXCEPT !.at = "done", !.answer = a] /\ \A d \in RestConns : d # c => conn'[d] = conn[d]
  BY DEF ConnTyped, answers
<1>3. conn' = [d \in RestConns |-> conn'[d]] BY DEF ConnTyped, answers
<1> QED BY <1>1, <1>2, <1>3 DEF Moved, IsConn

\* Execution of the transaction moves a connection to the close.
LEMMA ExecuteMoves ==
  ASSUME ConnTyped, NEW c \in RestConns, ExecuteTx(c)
  PROVE  Moved(c, "closeOk") \/ Moved(c, "closeFailed")
<1>1. IsConn(conn[c]) BY DEF ConnTyped
<1>2. PICK made \in BOOLEAN, ok \in BOOLEAN :
        conn' = [conn EXCEPT ![c].sent = made, ![c].at = IF made /\ ok THEN "closeOk" ELSE "closeFailed"]
  BY DEF ExecuteTx
<1>3. PICK s \in {"closeOk", "closeFailed"} : conn' = [conn EXCEPT ![c].sent = made, ![c].at = s] BY <1>2
<1>4. conn'[c] = [conn[c] EXCEPT !.sent = made, !.at = s] /\ \A d \in RestConns : d # c => conn'[d] = conn[d]
  BY <1>3 DEF ConnTyped
<1>5. conn' = [d \in RestConns |-> conn'[d]] BY <1>3 DEF ConnTyped
<1> QED BY <1>1, <1>3, <1>4, <1>5 DEF Moved, IsConn

\* At the start there is no request.
LEMMA RestInitInv == RestInit => RestInv
<1> SUFFICES ASSUME RestInit PROVE RestInv OBVIOUS
<1>1. conn = [c \in RestConns |-> conn[c]] BY DEF RestInit
<1>2. \A c \in RestConns : IsConn(conn[c]) /\ conn[c].at = "done"
  BY DEF RestInit, NewConn, IsConn
<1>3. ConnTyped BY <1>1, <1>2 DEF ConnTyped
<1>4. CountTyped BY DEF RestInit, CountTyped
<1>5. LogoutInv BY <1>2 DEF RestInit, LogoutInv, LogsOut
<1>6. ClientsBalanced
  <2>1. ASSUME NEW u \in RestUsers PROVE Holders(u) = {}
    BY <1>2 DEF Holders, HoldPcs
  <2>2. ASSUME NEW u \in RestUsers PROVE clientUses[u] = leaks[u] + Cardinality(Holders(u))
    BY <2>1, FS_EmptySet DEF RestInit
  <2> QED BY <2>2 DEF ClientsBalanced, Holders, HoldPcs
<1> QED BY <1>3, <1>4, <1>5, <1>6 DEF RestInv

\* Holders are finitely many.
LEMMA HoldersFinite == ASSUME NEW u PROVE IsFiniteSet(Holders(u)) /\ Cardinality(Holders(u)) \in Nat
<1>1. Holders(u) \subseteq RestConns BY DEF Holders
<1> QED BY <1>1, RestAssumption, FS_Subset, FS_CardinalityType

Bit(b) == IF b THEN 1 ELSE 0

\* The count stays right when it changes as the set of holders does.
LEMMA BalanceStep ==
  ASSUME RestInv, NEW c \in RestConns, NEW s, Moved(c, s), UserOf(c) \in RestUsers, UNCHANGED restCase,
         CountTyped',
         \A v \in RestUsers : v # UserOf(c) => clientUses'[v] = clientUses[v] /\ leaks'[v] = leaks[v],
         clientUses'[UserOf(c)] - leaks'[UserOf(c)] =
           clientUses[UserOf(c)] - leaks[UserOf(c)] + Bit(s \in HoldPcs /\ secured)
             - Bit(conn[c].at \in HoldPcs /\ secured)
  PROVE  ClientsBalanced'
<1> DEFINE u == UserOf(c)
<1>1. secured' = secured BY DEF secured
<1>2. \A v \in RestUsers : v # u => Holders(v)' = Holders(v)
  BY <1>1 DEF Moved, Holders, UserOf
<1>3. Cardinality(Holders(u)') = Cardinality(Holders(u)) + Bit(s \in HoldPcs /\ secured)
                                   - Bit(conn[c].at \in HoldPcs /\ secured)
  <2>0. IsFiniteSet(Holders(u)) /\ Cardinality(Holders(u)) \in Nat BY HoldersFinite
  <2>1. CASE s \in HoldPcs /\ secured /\ conn[c].at \in HoldPcs
    <3>1. Holders(u)' = Holders(u) BY <1>1, <2>1 DEF Moved, Holders, UserOf
    <3> QED BY <2>0, <2>1, <3>1 DEF Bit
  <2>2. CASE s \in HoldPcs /\ secured /\ conn[c].at \notin HoldPcs
    <3>1. Holders(u)' = Holders(u) \cup {c} /\ c \notin Holders(u) BY <1>1, <2>2 DEF Moved, Holders, UserOf
    <3>2. Cardinality(Holders(u)') = Cardinality(Holders(u)) + 1 BY <2>0, <3>1, FS_AddElement
    <3> QED BY <2>0, <2>2, <3>2 DEF Bit
  <2>3. CASE s \notin HoldPcs /\ secured /\ conn[c].at \in HoldPcs
    <3>1. Holders(u)' = Holders(u) \ {c} /\ c \in Holders(u) BY <1>1, <2>3 DEF Moved, Holders, UserOf
    <3>2. Cardinality(Holders(u)') = Cardinality(Holders(u)) - 1 BY <2>0, <3>1, FS_RemoveElement
    <3> QED BY <2>0, <2>3, <3>2 DEF Bit
  <2>4. CASE ~secured \/ (s \notin HoldPcs /\ conn[c].at \notin HoldPcs)
    <3>1. Holders(u)' = Holders(u) BY <1>1, <2>4 DEF Moved, Holders, UserOf
    <3> QED BY <2>0, <2>4, <3>1 DEF Bit
  <2> QED BY <2>1, <2>2, <2>3, <2>4
<1>4. \A v \in RestUsers : clientUses[v] = leaks[v] + Cardinality(Holders(v))
  BY DEF RestInv, ClientsBalanced, Holders, HoldPcs
<1>5. \A v \in RestUsers : /\ clientUses[v] \in Int /\ leaks[v] \in Int
                           /\ clientUses'[v] \in Int /\ leaks'[v] \in Int
  BY DEF RestInv, CountTyped
<1>6. Cardinality(Holders(u)) \in Nat BY HoldersFinite
<1>7. Bit(s \in HoldPcs /\ secured) \in Int /\ Bit(conn[c].at \in HoldPcs /\ secured) \in Int BY DEF Bit
<1>8. clientUses'[u] = leaks'[u] + Cardinality(Holders(u)') BY <1>3, <1>4, <1>5, <1>6, <1>7
<1>9. ASSUME NEW v \in RestUsers PROVE clientUses'[v] = leaks'[v] + Cardinality(Holders(v)')
  <2>1. CASE v = u
    <3>1. u' = u BY DEF Moved, UserOf
    <3>2. Holders(v)' = Holders(u)' BY <2>1, <3>1 DEF Holders
    <3> QED BY <1>8, <2>1, <3>2
  <2>2. CASE v # u
    <3>1. clientUses'[v] = clientUses[v] /\ leaks'[v] = leaks[v] BY <2>2
    <3> QED BY <1>2, <1>4, <2>2, <3>1
  <2> QED BY <2>1, <2>2
<1> QED BY <1>9 DEF ClientsBalanced, Holders, HoldPcs

\* Logouts hold when tokens come from logins only, and users are logged out
\* by logouts that found or left no token.
LEMMA LogoutStep ==
  ASSUME RestInv, NEW c \in RestConns, NEW s, Moved(c, s), conn[c].at # "done",
         \A u \in tokens' : u \in tokens \/ (u = UserOf(c) /\ conn[c].req.kind = "Register"),
         conn[c].req.kind = "DeleteEnrollmentID" /\ s = "keys" => UserOf(c) \notin tokens',
         \A u \in loggedOut' : u \in loggedOut \/ (u = UserOf(c) /\ LogsOut(c) /\ u \notin tokens)
  PROVE  LogoutInv'
<1>1. \A u : LogsIn(u)' => LogsIn(u) BY DEF Moved, LogsIn, UserOf
<1>2. conn[c].req.kind = "Register" => LogsIn(UserOf(c)) BY DEF LogsIn
<1>3. \A d \in RestConns : LogsOut(d)' => LogsOut(d) /\ UserOf(d)' = UserOf(d) BY DEF Moved, LogsOut, UserOf
<1>4. \A u \in loggedOut' : ~LogsIn(u) /\ u \notin tokens BY DEF RestInv, LogoutInv
<1>5. \A u \in loggedOut' : u \notin tokens' /\ ~LogsIn(u)' BY <1>1, <1>2, <1>4
<1>6. ASSUME NEW d \in RestConns, LogsOut(d)'
      PROVE  (~LogsIn(UserOf(d)))' /\ (conn'[d].at = "keys" => UserOf(d)' \notin tokens')
  <2>1. ~LogsIn(UserOf(d)) BY <1>3, <1>6 DEF RestInv, LogoutInv
  <2>2. (~LogsIn(UserOf(d)))' BY <1>3, <1>6, <2>1 DEF LogsIn, Moved, UserOf
  <2>3. CASE d = c BY <1>3, <1>6, <2>2, <2>3 DEF Moved, LogsOut, UserOf
  <2>4. CASE d # c
    <3>1. conn'[d].at = "keys" => UserOf(d) \notin tokens BY <1>3, <1>6, <2>4 DEF RestInv, LogoutInv, Moved
    <3> QED BY <1>2, <1>3, <1>6, <2>1, <2>2, <3>1
  <2> QED BY <2>3, <2>4
<1> QED BY <1>5, <1>6 DEF LogoutInv

\* The types stay when a connection moves.
LEMMA TypeStep ==
  ASSUME RestInv, NEW c \in RestConns, NEW s, Moved(c, s), conn[c].at # "done", UNCHANGED restCase,
         s = "handler" => secured
  PROVE  ConnTyped' /\ UserOf(c) \in RestUsers
<1>1. secured' = secured BY DEF secured
<1>2. UserOf(c) \in RestUsers BY DEF RestInv, ConnTyped
<1> QED BY <1>1, <1>2 DEF RestInv, ConnTyped, Moved, UserOf

\* A step that touches neither tokens nor clients keeps the invariant.
LEMMA QuietStep ==
  ASSUME RestInv, NEW c \in RestConns, NEW s, Moved(c, s), conn[c].at # "done",
         UNCHANGED <<restCase, tokens, loggedOut, clientUses, leaks>>,
         s \notin HoldPcs \/ ~secured, conn[c].at \notin HoldPcs \/ ~secured, s # "handler",
         conn[c].req.kind # "DeleteEnrollmentID" \/ s # "keys"
  PROVE  RestInv'
<1>1. ConnTyped' /\ UserOf(c) \in RestUsers BY TypeStep
<1>2. CountTyped' BY DEF RestInv, CountTyped
<1>3. LogoutInv' BY LogoutStep
<1>4. clientUses[UserOf(c)] \in Int /\ leaks[UserOf(c)] \in Int BY <1>1 DEF RestInv, CountTyped
<1>5. Bit(s \in HoldPcs /\ secured) = 0 /\ Bit(conn[c].at \in HoldPcs /\ secured) = 0 BY DEF Bit
<1>6. ClientsBalanced' BY <1>1, <1>2, <1>4, <1>5, BalanceStep
<1> QED BY <1>1, <1>2, <1>3, <1>6 DEF RestInv

\* Such a step that answers keeps it.
LEMMA QuietAnswer ==
  ASSUME RestInv, NEW c \in RestConns, NEW a, answers(c, a), conn[c].at # "done", conn[c].at \notin HoldPcs,
         UNCHANGED <<restCase, tokens, loggedOut, clientUses, leaks>>
  PROVE  RestInv'
<1>1. Moved(c, "done") BY AnswersMoves DEF RestInv
<1>2. "done" \notin HoldPcs BY DEF HoldPcs
<1> QED BY <1>1, <1>2, QuietStep

\* Such a step that goes on to the next one keeps it.
LEMMA QuietGoesOn ==
  ASSUME RestInv, NEW c \in RestConns, NEW s, goesOn(c, s), conn[c].at # "done",
         conn[c].at \notin HoldPcs \/ ~secured, s \notin HoldPcs \/ ~secured, s \notin {"keys", "handler"},
         UNCHANGED <<restCase, tokens, loggedOut, clientUses, leaks>>
  PROVE  RestInv'
<1>1. Moved(c, s) BY GoesOnMoves DEF RestInv
<1> QED BY <1>1, QuietStep

\* A step of a request that uses the clients but not the tokens.
LEMMA ClientStep ==
  ASSUME RestInv, NEW c \in RestConns, NEW s, Moved(c, s), conn[c].at # "done",
         UNCHANGED <<restCase, tokens, loggedOut>>, s # "keys", s = "handler" => secured,
         NEW i \in Int, NEW j \in Int,
         clientUses' = [clientUses EXCEPT ![UserOf(c)] = @ + i], leaks' = [leaks EXCEPT ![UserOf(c)] = @ + j],
         i - j = Bit(s \in HoldPcs /\ secured) - Bit(conn[c].at \in HoldPcs /\ secured)
  PROVE  RestInv'
<1>1. ConnTyped' /\ UserOf(c) \in RestUsers BY TypeStep
<1>2. CountTyped /\ CountTyped' BY <1>1 DEF RestInv, CountTyped
<1>3. LogoutInv' BY LogoutStep
<1>4. clientUses[UserOf(c)] \in Int /\ leaks[UserOf(c)] \in Int BY <1>1, <1>2 DEF CountTyped
<1>5. Bit(s \in HoldPcs /\ secured) \in Int /\ Bit(conn[c].at \in HoldPcs /\ secured) \in Int BY DEF Bit
<1>6. clientUses'[UserOf(c)] = clientUses[UserOf(c)] + i /\ leaks'[UserOf(c)] = leaks[UserOf(c)] + j
  BY <1>1, <1>2 DEF CountTyped
<1>7. \A v \in RestUsers : v # UserOf(c) => clientUses'[v] = clientUses[v] /\ leaks'[v] = leaks[v]
  BY <1>2 DEF CountTyped
<1>8. clientUses'[UserOf(c)] - leaks'[UserOf(c)] =
        clientUses[UserOf(c)] - leaks[UserOf(c)] + Bit(s \in HoldPcs /\ secured)
          - Bit(conn[c].at \in HoldPcs /\ secured)
  BY <1>4, <1>5, <1>6
<1>9. ClientsBalanced' BY <1>1, <1>2, <1>7, <1>8, BalanceStep
<1> QED BY <1>1, <1>2, <1>3, <1>9 DEF RestInv

\* Register keeps the invariant: it writes a token only while it logs in.
LEMMA RegisterKeeps ==
  ASSUME RestInv, NEW c \in RestConns, Register(c) PROVE RestInv'
<1> USE DEF Serves, restFiles
<1>1. CASE conn[c].at = "start"
  <2>1. UNCHANGED <<restCase, tokens, loggedOut, clientUses, leaks>> BY <1>1 DEF Register
  <2>2. answers(c, <<400, "Error">>) \/ answers(c, <<200, "OK">>) \/ goesOn(c, "login") BY <1>1 DEF Register
  <2> QED BY <1>1, <2>1, <2>2, QuietAnswer, QuietGoesOn DEF HoldPcs
<1>2. CASE conn[c].at = "login"
  <2>1. UNCHANGED <<restCase, tokens, loggedOut, clientUses, leaks>> BY <1>2 DEF Register
  <2>2. answers(c, <<401, "Error">>) \/ goesOn(c, "store") BY <1>2 DEF Register
  <2> QED BY <1>2, <2>1, <2>2, QuietAnswer, QuietGoesOn DEF HoldPcs
<1>3. CASE conn[c].at = "store"
  <2>1. UNCHANGED <<restCase, loggedOut, clientUses, leaks>> /\ conn[c].req.kind = "Register" BY <1>3 DEF Register
  <2>2. CASE answers(c, Fatal) /\ UNCHANGED tokens BY <1>3, <2>1, <2>2, QuietAnswer DEF HoldPcs
  <2>3. CASE answers(c, <<200, "OK">>) /\ tokens' = tokens \cup {UserOf(c)}
    <3>1. Moved(c, "done") BY <2>3, AnswersMoves DEF RestInv
    <3>2. LogoutInv' BY <1>3, <2>1, <2>3, <3>1, LogoutStep
    <3>3. ConnTyped' /\ UserOf(c) \in RestUsers BY <1>3, <2>1, <3>1, TypeStep
    <3>4. CountTyped /\ CountTyped' BY <2>1 DEF RestInv, CountTyped
    <3>5. Bit("done" \in HoldPcs /\ secured) = 0 /\ Bit(conn[c].at \in HoldPcs /\ secured) = 0
      BY <1>3 DEF Bit, HoldPcs
    <3>6. clientUses[UserOf(c)] \in Int /\ leaks[UserOf(c)] \in Int BY <3>3, <3>4 DEF CountTyped
    <3>7. ClientsBalanced' BY <2>1, <3>1, <3>3, <3>4, <3>5, <3>6, BalanceStep
    <3> QED BY <3>2, <3>3, <3>4, <3>7 DEF RestInv
  <2> QED BY <1>3, <2>2, <2>3 DEF Register
<1> QED BY <1>1, <1>2, <1>3 DEF Register

\* DeleteEnrollmentID keeps the invariant: it logs out a user whose token it
\* has not found or has removed.
LEMMA DeleteKeeps ==
  ASSUME RestInv, NEW c \in RestConns, DeleteEnrollmentID(c) PROVE RestInv'
<1> USE DEF Serves, restFiles
<1>0. conn[c].req.kind = "DeleteEnrollmentID" /\ UNCHANGED <<restCase, clientUses, leaks>> BY DEF DeleteEnrollmentID
<1>a. ASSUME NEW s, Moved(c, s), s \notin HoldPcs, conn[c].at \in {"start", "token", "keys"}, LogoutInv'
      PROVE  RestInv'
  <2>1. "handler" \in HoldPcs /\ conn[c].at \notin HoldPcs /\ conn[c].at # "done" BY <1>a DEF HoldPcs
  <2>2. ConnTyped' /\ UserOf(c) \in RestUsers BY <1>0, <1>a, <2>1, TypeStep
  <2>3. CountTyped /\ CountTyped' BY <1>0 DEF RestInv, CountTyped
  <2>4. Bit(s \in HoldPcs /\ secured) = 0 /\ Bit(conn[c].at \in HoldPcs /\ secured) = 0 BY <1>a, <2>1 DEF Bit
  <2>5. clientUses[UserOf(c)] \in Int /\ leaks[UserOf(c)] \in Int BY <2>2, <2>3 DEF CountTyped
  <2>6. ClientsBalanced' BY <1>0, <1>a, <2>2, <2>3, <2>4, <2>5, BalanceStep
  <2> QED BY <1>a, <2>2, <2>3, <2>6 DEF RestInv
<1>b. ASSUME LogoutEnds(c), conn[c].at \in {"start", "keys"}, UNCHANGED tokens,
             conn[c].alone => UserOf(c) \notin tokens
      PROVE  RestInv'
  <2>1. Moved(c, "done") BY <1>b, AnswersMoves DEF RestInv, LogoutEnds
  <2>2. \A u \in loggedOut' : u \in loggedOut \/ (u = UserOf(c) /\ LogsOut(c) /\ u \notin tokens)
    BY <1>0, <1>b DEF LogoutEnds, LogsOut
  <2>3. LogoutInv' BY <1>b, <2>1, <2>2, LogoutStep
  <2> QED BY <1>a, <1>b, <2>1, <2>3 DEF HoldPcs
<1>1. CASE conn[c].at = "start"
  <2>1. UNCHANGED tokens BY <1>1 DEF DeleteEnrollmentID
  <2>2. CASE NotLoggedIn(UserOf(c)) /\ LogoutEnds(c) BY <1>1, <1>b, <2>1, <2>2 DEF NotLoggedIn
  <2>3. CASE goesOn(c, "token") /\ UNCHANGED loggedOut
    BY <1>0, <1>1, <2>1, <2>3, QuietGoesOn DEF HoldPcs
  <2> QED BY <1>1, <2>2, <2>3 DEF DeleteEnrollmentID
<1>2. CASE conn[c].at = "token"
  <2>1. UNCHANGED loggedOut BY <1>2 DEF DeleteEnrollmentID
  <2>2. CASE answers(c, <<500, "Error">>) /\ UNCHANGED tokens BY <1>0, <1>2, <2>1, <2>2, QuietAnswer DEF HoldPcs
  <2>3. CASE tokens' = tokens \ {UserOf(c)} /\ goesOn(c, "keys")
    <3>1. Moved(c, "keys") BY <2>3, GoesOnMoves DEF RestInv
    <3>2. LogoutInv' BY <1>2, <2>1, <2>3, <3>1, LogoutStep
    <3> QED BY <1>2, <1>a, <3>1, <3>2 DEF HoldPcs
  <2> QED BY <1>2, <2>2, <2>3 DEF DeleteEnrollmentID
<1>3. CASE conn[c].at = "keys"
  <2>1. UNCHANGED tokens BY <1>3 DEF DeleteEnrollmentID
  <2>2. CASE LogoutEnds(c)
    <3>1. conn[c].alone => UserOf(c) \notin tokens BY <1>0, <1>3 DEF RestInv, LogoutInv, LogsOut
    <3> QED BY <1>3, <1>b, <2>1, <2>2, <3>1
  <2>3. CASE answers(c, <<500, "Error">>) /\ UNCHANGED loggedOut
    BY <1>0, <1>3, <2>1, <2>3, QuietAnswer DEF HoldPcs
  <2> QED BY <1>3, <2>2, <2>3 DEF DeleteEnrollmentID
<1> QED BY <1>1, <1>2, <1>3 DEF DeleteEnrollmentID

\* A request for a certificate keeps the invariant: the client it opens is
\* closed or counted as left open.
LEMMA CertificateKeeps ==
  ASSUME RestInv, NEW c \in RestConns, NEW kind, Certificate(c, kind) PROVE RestInv'
<1> USE DEF Serves, restFiles
<1>0. UNCHANGED <<restCase, tokens, loggedOut>> BY DEF Certificate
<1>1. CASE conn[c].at = "start"
  <2>1. UNCHANGED leaks BY <1>1 DEF Certificate
  <2>2. CASE answers(c, <<400, "Error">>) /\ UNCHANGED clientUses
    BY <1>0, <1>1, <2>1, <2>2, QuietAnswer DEF HoldPcs
  <2>3. CASE secured /\ InitCryptoClient(UserOf(c)) /\ goesOn(c, "handler")
    <3>1. Moved(c, "handler") BY <2>3, GoesOnMoves DEF RestInv
    <3>2. clientUses' = [clientUses EXCEPT ![UserOf(c)] = @ + 1] BY <2>3 DEF InitCryptoClient
    <3>3. leaks' = [leaks EXCEPT ![UserOf(c)] = @ + 0] BY <1>1, <2>1, TypeStep, <3>1, <1>0, <2>3 DEF RestInv, CountTyped
    <3>4. 1 - 0 = Bit("handler" \in HoldPcs /\ secured) - Bit(conn[c].at \in HoldPcs /\ secured)
      BY <1>1, <2>3 DEF Bit, HoldPcs
    <3>5. 0 \in Int /\ 1 \in Int /\ -1 \in Int OBVIOUS
    <3>6. conn[c].at # "done" /\ "handler" # "keys" BY <1>1
    <3> QED BY <1>0, <2>3, <3>1, <3>2, <3>3, <3>4, <3>5, <3>6, ClientStep, Zenon
  <2> QED BY <1>1, <2>2, <2>3 DEF Certificate
<1>2. CASE conn[c].at = "handler"
  <2>0. secured /\ Bit(conn[c].at \in HoldPcs /\ secured) = 1 /\ Bit("done" \in HoldPcs /\ secured) = 0
    BY <1>2 DEF RestInv, ConnTyped, Bit, HoldPcs
  <2>1. Moved(c, "done") BY <1>2, AnswersMoves DEF Certificate, RestInv
  <2>2. UserOf(c) \in RestUsers /\ CountTyped BY <1>2 DEF RestInv, ConnTyped
  <2>3. CASE CloseCryptoClient(UserOf(c)) /\ UNCHANGED leaks
    <3>1. clientUses' = [clientUses EXCEPT ![UserOf(c)] = @ + (-1)] BY <2>2, <2>3 DEF CloseCryptoClient, CountTyped
    <3>2. leaks' = [leaks EXCEPT ![UserOf(c)] = @ + 0] BY <2>2, <2>3 DEF CountTyped
    <3>3. -1 - 0 = Bit("done" \in HoldPcs /\ secured) - Bit(conn[c].at \in HoldPcs /\ secured) BY <2>0
    <3>5. 0 \in Int /\ 1 \in Int /\ -1 \in Int OBVIOUS
    <3>6. conn[c].at # "done" /\ "done" # "keys" /\ "done" # "handler" BY <1>2
    <3> QED BY <1>0, <2>1, <3>1, <3>2, <3>3, <3>5, <3>6, ClientStep, Zenon
  <2>4. CASE leaks' = [leaks EXCEPT ![UserOf(c)] = @ + 1] /\ UNCHANGED clientUses
    <3>1. clientUses' = [clientUses EXCEPT ![UserOf(c)] = @ + 0] BY <2>2, <2>4 DEF CountTyped
    <3>2. 0 - 1 = Bit("done" \in HoldPcs /\ secured) - Bit(conn[c].at \in HoldPcs /\ secured) BY <2>0
    <3>5. 0 \in Int /\ 1 \in Int /\ -1 \in Int OBVIOUS
    <3>6. conn[c].at # "done" /\ "done" # "keys" /\ "done" # "handler" BY <1>2
    <3> QED BY <1>0, <2>1, <2>4, <3>1, <3>2, <3>5, <3>6, ClientStep, Zenon
  <2> QED BY <1>2, <2>3, <2>4 DEF Certificate
<1> QED BY <1>1, <1>2 DEF Certificate

\* Reads of the ledger, and GetEnrollmentID, keep the invariant.
LEMMA ReadKeeps ==
  ASSUME RestInv, NEW c \in RestConns, NEW kind, NEW replies,
         LedgerRead(c, kind, replies) \/ GetEnrollmentID(c)
  PROVE  RestInv'
<1>1. conn[c].at = "start" /\ UNCHANGED <<restCase, tokens, loggedOut, clientUses, leaks>>
  BY DEF LedgerRead, GetEnrollmentID, Serves, restFiles
<1>2. \E a : answers(c, a) BY DEF LedgerRead, GetEnrollmentID
<1> QED BY <1>1, <1>2, QuietAnswer DEF HoldPcs

\* So does looking for the token and reading it.
LEMMA TokenKeeps ==
  ASSUME RestInv, NEW c \in RestConns, NEW x, NEW y,
         (conn[c].at \in {"start", "process"} /\ CheckToken(c, x, y)) \/ ReadToken(c, y),
         UNCHANGED <<restCase, tokens, loggedOut, clientUses, leaks>>
  PROVE  RestInv'
<1>1. conn[c].at \in {"start", "process", "read"} BY DEF ReadToken
<1>2. (\E a : answers(c, a)) \/ (\E s \in {"devops", "read"} : goesOn(c, s)) BY DEF CheckToken, ReadToken
<1> QED BY <1>1, <1>2, QuietAnswer, QuietGoesOn DEF HoldPcs

\* So do the handlers of the endpoints for transactions.
LEMMA HandleKeeps ==
  ASSUME RestInv, NEW c \in RestConns, NEW kind, NEW fields, Handle(c, kind, fields) PROVE RestInv'
<1>1. UNCHANGED <<restCase, tokens, loggedOut, clientUses, leaks>> BY DEF Handle, restFiles
<1>2. \/ conn[c].at \in {"start", "failed", "executed"} /\ \E a : answers(c, a)
      \/ conn[c].at = "start" /\ CheckToken(c, <<401, "Error">>, Fatal)
      \/ ReadToken(c, Fatal)
  BY DEF Handle
<1> QED BY <1>1, <1>2, TokenKeeps, QuietAnswer DEF HoldPcs

\* So does ProcessChaincode, which checks the JSON-RPC request.
LEMMA ProcessChaincodeKeeps ==
  ASSUME RestInv, NEW c \in RestConns, ProcessChaincode(c) PROVE RestInv'
<1>1. conn[c].at = "start" /\ UNCHANGED <<restCase, tokens, loggedOut, clientUses, leaks>>
  BY DEF ProcessChaincode, restFiles
<1>2. (\E a : answers(c, a)) \/ goesOn(c, "process") BY DEF ProcessChaincode, rpcAnswers
<1> QED BY <1>1, <1>2, QuietAnswer, QuietGoesOn DEF HoldPcs

\* So do processChaincodeDeploy and processChaincodeInvokeOrQuery.
LEMMA ProcessKeeps ==
  ASSUME RestInv, NEW c \in RestConns, NEW kinds, NEW fields, Process(c, kinds, fields) PROVE RestInv'
<1>1. UNCHANGED <<restCase, tokens, loggedOut, clientUses, leaks>> BY DEF Process, restFiles
<1>2. \/ conn[c].at \in {"process", "failed", "executed"} /\ \E a : answers(c, a)
      \/ \E x, y : (conn[c].at = "process" /\ CheckToken(c, x, y)) \/ ReadToken(c, y)
  BY DEF Process
<1> QED BY <1>1, <1>2, TokenKeeps, QuietAnswer DEF HoldPcs

\* Devops keeps the invariant: with security on, the client that is opened is
\* closed on every way out.
LEMMA DevopsKeeps ==
  ASSUME RestInv, NEW c \in RestConns, DevopsDeploy(c) \/ invokeOrQuery(c) PROVE RestInv'
<1>0. UNCHANGED <<restCase, tokens, loggedOut, leaks>> BY DEF DevopsDeploy, invokeOrQuery, devopsOnly, restFiles
<1>a. ASSUME UserOf(c) \in RestUsers
      PROVE  /\ UNCHANGED clientUses => clientUses' = [clientUses EXCEPT ![UserOf(c)] = @ + 0]
             /\ leaks' = [leaks EXCEPT ![UserOf(c)] = @ + 0]
             /\ CloseCryptoClient(UserOf(c)) => clientUses' = [clientUses EXCEPT ![UserOf(c)] = @ + (-1)]
  BY <1>0, <1>a DEF RestInv, CountTyped, CloseCryptoClient
<1>1. CASE getChaincodeBytes(c)
  <2>1. conn[c].at = "devops" /\ goesOn(c, "failed") /\ UNCHANGED clientUses BY <1>1 DEF getChaincodeBytes
  <2> QED BY <1>0, <2>1, QuietGoesOn DEF HoldPcs
<1>2. CASE openClient(c)
  <2>1. conn[c].at = "devops" BY <1>2 DEF openClient
  <2>2. CASE ~secured /\ goesOn(c, "execute") /\ UNCHANGED clientUses BY <1>0, <2>1, <2>2, QuietGoesOn DEF HoldPcs
  <2>3. CASE goesOn(c, "failed") /\ UNCHANGED clientUses BY <1>0, <2>1, <2>3, QuietGoesOn DEF HoldPcs
  <2>4. CASE secured /\ InitCryptoClient(UserOf(c)) /\ goesOn(c, "execute")
    <3>1. Moved(c, "execute") BY <2>4, GoesOnMoves DEF RestInv
    <3>2. UserOf(c) \in RestUsers BY <2>1 DEF RestInv, ConnTyped
    <3>3. clientUses' = [clientUses EXCEPT ![UserOf(c)] = @ + 1] BY <2>4 DEF InitCryptoClient
    <3>4. 1 - 0 = Bit("execute" \in HoldPcs /\ secured) - Bit(conn[c].at \in HoldPcs /\ secured)
      BY <2>1, <2>4 DEF Bit, HoldPcs
    <3>5. 0 \in Int /\ 1 \in Int /\ -1 \in Int OBVIOUS
    <3>6. conn[c].at # "done" /\ "execute" # "keys" /\ "execute" # "handler" BY <2>1
    <3>7. leaks' = [leaks EXCEPT ![UserOf(c)] = @ + 0] BY <1>a, <3>2
    <3> QED BY <1>0, <3>1, <3>3, <3>4, <3>5, <3>6, <3>7, ClientStep, Zenon
  <2> QED BY <1>2, <2>2, <2>3, <2>4 DEF openClient
<1>3. CASE ExecuteTx(c)
  <2>1. conn[c].at = "execute" /\ UNCHANGED clientUses BY <1>3 DEF ExecuteTx
  <2>2. UserOf(c) \in RestUsers BY <2>1 DEF RestInv, ConnTyped
  <2>3. PICK s \in {"closeOk", "closeFailed"} : Moved(c, s) BY <1>3, ExecuteMoves DEF RestInv
  <2>4. 0 - 0 = Bit(s \in HoldPcs /\ secured) - Bit(conn[c].at \in HoldPcs /\ secured)
    BY <2>1, <2>3 DEF Bit, HoldPcs
  <2> QED BY <1>0, <1>a, <2>1, <2>2, <2>3, <2>4, ClientStep
<1>4. CASE closeClient(c)
  <2>1. conn[c].at \in {"closeOk", "closeFailed"} BY <1>4 DEF closeClient
  <2>2. UserOf(c) \in RestUsers BY <2>1 DEF RestInv, ConnTyped
  <2>3. PICK s \in {"executed", "failed"} : goesOn(c, s) BY <1>4 DEF closeClient
  <2>4. CASE ~secured /\ UNCHANGED clientUses BY <1>0, <2>1, <2>3, <2>4, QuietGoesOn DEF HoldPcs
  <2>5. CASE secured /\ CloseCryptoClient(UserOf(c))
    <3>1. Moved(c, s) BY <2>3, GoesOnMoves DEF RestInv
    <3>2. -1 - 0 = Bit(s \in HoldPcs /\ secured) - Bit(conn[c].at \in HoldPcs /\ secured)
      BY <2>1, <2>3, <2>5 DEF Bit, HoldPcs
    <3> QED BY <1>0, <1>a, <2>1, <2>2, <2>3, <2>5, <3>1, <3>2, ClientStep
  <2> QED BY <1>4, <2>4, <2>5 DEF closeClient
<1> QED BY <1>1, <1>2, <1>3, <1>4 DEF DevopsDeploy, invokeOrQuery

\* The arrival of a request keeps the invariant: a login makes its user no
\* longer logged out and marks the logouts that it overlaps.
LEMMA AcceptKeeps ==
  ASSUME RestInv, NEW c \in RestConns, NEW r, NEW u \in RestUsers, Accept(c, r, u) PROVE RestInv'
<1> DEFINE login == r.kind = "Register"
<1>0. /\ conn[c].at = "done" /\ UNCHANGED <<restCase, tokens, clientUses, leaks>>
      /\ loggedOut' = IF login THEN loggedOut \ {u} ELSE loggedOut
      /\ conn' = [d \in RestConns |->
                    IF d = c THEN [NewConn(r, u) EXCEPT !.alone = ~LogsIn(u)]
                    ELSE IF login /\ UserOf(d) = u THEN [conn[d] EXCEPT !.alone = FALSE] ELSE conn[d]]
  BY DEF Accept, restFiles
<1>1. conn' = [d \in RestConns |-> conn'[d]] BY <1>0
<1>2. conn'[c] = [NewConn(r, u) EXCEPT !.alone = ~LogsIn(u)] BY <1>0
<1>3. /\ IsConn(conn'[c]) /\ conn'[c].at = "start" /\ conn'[c].req = r /\ conn'[c].user = u
      /\ conn'[c].alone = ~LogsIn(u)
  BY <1>2 DEF NewConn, IsConn
<1>4. ASSUME NEW d \in RestConns, d # c
      PROVE  /\ IsConn(conn'[d]) /\ conn'[d].at = conn[d].at /\ conn'[d].req = conn[d].req
             /\ conn'[d].user = conn[d].user
             /\ conn'[d].alone = IF login /\ UserOf(d) = u THEN FALSE ELSE conn[d].alone
  <2>1. conn'[d] = IF login /\ UserOf(d) = u THEN [conn[d] EXCEPT !.alone = FALSE] ELSE conn[d] BY <1>0, <1>4
  <2>2. IsConn(conn[d]) BY DEF RestInv, ConnTyped
  <2> QED BY <2>1, <2>2 DEF IsConn
<1>5. secured' = secured BY <1>0 DEF secured
<1> HIDE DEF login
<1>6. ConnTyped' BY <1>1, <1>3, <1>4, <1>5 DEF RestInv, ConnTyped, UserOf
<1>7. CountTyped' BY <1>0 DEF RestInv, CountTyped
<1>8. ClientsBalanced'
  <2>1. ASSUME NEW v \in RestUsers PROVE Holders(v)' = Holders(v)
    BY <1>0, <1>3, <1>4, <1>5 DEF Holders, HoldPcs, UserOf
  <2>2. \A v \in RestUsers : clientUses[v] = leaks[v] + Cardinality(Holders(v))
    BY DEF RestInv, ClientsBalanced, Holders, HoldPcs
  <2>3. \A v \in RestUsers : clientUses'[v] = leaks'[v] + Cardinality(Holders(v)') BY <1>0, <2>1, <2>2
  <2> QED BY <2>3 DEF ClientsBalanced, Holders, HoldPcs
<1>9. LogoutInv'
  <2>1. ASSUME NEW v, ~LogsIn(v), ~login \/ v # u PROVE ~LogsIn(v)'
    BY <2>1, <1>3, <1>4 DEF LogsIn, UserOf, login
  <2>2. \A v \in loggedOut' : v \notin tokens' /\ ~LogsIn(v)'
    <3>1. \A v \in loggedOut' : v \in loggedOut /\ (~login \/ v # u) BY <1>0
    <3>2. \A v \in loggedOut' : v \notin tokens /\ ~LogsIn(v) BY <3>1 DEF RestInv, LogoutInv
    <3> QED BY <1>0, <2>1, <3>1, <3>2
  <2>3. ASSUME NEW d \in RestConns, LogsOut(d)'
        PROVE  (~LogsIn(UserOf(d)))' /\ (conn'[d].at = "keys" => UserOf(d)' \notin tokens')
    <3>1. CASE d = c
      <4>1. ~login /\ ~LogsIn(u) BY <2>3, <3>1, <1>3 DEF LogsOut, login
      <4>2. ~LogsIn(u)' BY <2>1, <4>1
      <4> QED BY <3>1, <4>2, <1>3 DEF LogsIn, UserOf
    <3>2. CASE d # c
      <4>1. LogsOut(d) /\ UserOf(d)' = UserOf(d) /\ (~login \/ UserOf(d) # u) /\ conn'[d].at = conn[d].at
        BY <2>3, <3>2, <1>4 DEF LogsOut, UserOf
      <4>2. ~LogsIn(UserOf(d)) /\ (conn[d].at = "keys" => UserOf(d) \notin tokens) BY <4>1 DEF RestInv, LogoutInv
      <4>3. PICK v : v = UserOf(d) OBVIOUS
      <4>4. ~LogsIn(v)' BY <2>1, <4>1, <4>2, <4>3
      <4> QED BY <1>0, <4>1, <4>2, <4>3, <4>4 DEF LogsIn
    <3> QED BY <3>1, <3>2
  <2> QED BY <2>2, <2>3 DEF LogoutInv
<1> QED BY <1>6, <1>7, <1>8, <1>9 DEF RestInv

\* Every step keeps the invariant.
LEMMA RestNextInv == RestInv /\ [RestNext]_restVars => RestInv'
<1> SUFFICES ASSUME RestInv, [RestNext]_restVars PROVE RestInv' OBVIOUS
<1>1. ASSUME NEW c \in RestConns, RestStep(c) PROVE RestInv'
  <2>1. CASE GetBlockchainInfo(c) \/ RestGetBlockByNumber(c) \/ RestGetTransactionByUUID(c) \/ GetEnrollmentID(c)
    BY <2>1, ReadKeeps DEF GetBlockchainInfo, RestGetBlockByNumber, RestGetTransactionByUUID
  <2>2. CASE GetEnrollmentCert(c) \/ GetTransactionCert(c)
    BY <2>2, CertificateKeeps DEF GetEnrollmentCert, GetTransactionCert
  <2>3. CASE RestDeploy(c) \/ RestInvoke(c) \/ RestQuery(c)
    BY <2>3, HandleKeeps DEF RestDeploy, RestInvoke, RestQuery
  <2>4. CASE processChaincodeDeploy(c) \/ processChaincodeInvokeOrQuery(c)
    BY <2>4, ProcessKeeps DEF processChaincodeDeploy, processChaincodeInvokeOrQuery
  <2> QED BY <1>1, <2>1, <2>2, <2>3, <2>4, RegisterKeeps, DeleteKeeps, ProcessChaincodeKeeps, DevopsKeeps DEF RestStep
<1>2. CASE UNCHANGED restVars
  BY <1>2 DEF RestInv, ConnTyped, CountTyped, LogoutInv, ClientsBalanced, LogsOut, LogsIn, UserOf, secured, restVars
<1>3. ASSUME NEW c \in RestConns, NEW r \in RestRequests, NEW u \in RestUsers, Accept(c, r, u) PROVE RestInv'
  BY <1>3, AcceptKeeps
<1> QED BY <1>1, <1>2, <1>3 DEF RestNext

\* Concurrent requests share tokens and clients without harm: after a logout
\* that no login has overlapped there is no token until the next login
\* (DeleteEnrollmentID, Register), and a client's counter is the number of
\* requests that use it plus those that have left it open (InitClient,
\* CloseClient).
THEOREM RequestsShareSafely == RestSpec => [](LogoutHolds /\ ClientsBalanced)
<1>1. RestInv => LogoutHolds /\ ClientsBalanced BY DEF RestInv, LogoutInv, LogoutHolds
<1> QED BY <1>1, RestInitInv, RestNextInv, PTL DEF RestSpec
=============================================================================
